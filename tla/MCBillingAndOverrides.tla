------------------------ MODULE MCBillingAndOverrides ------------------------
(***************************************************************************)
(* Small instances of what the operator's console and the stores write,    *)
(* in one run: the purchases and grants of a user, and the overrides of    *)
(* an instance.  They share no state: a behaviour is one of one of them,   *)
(* and the other rests.                                                    *)
(***************************************************************************)
EXTENDS MCBilling, InstanceConfig

VARIABLE part

\* The provider has been confirmed, and the other's key recorded or not.
Confirmed == [Env EXCEPT !["provider"] = [value |-> "openai", at |-> 1, by |-> 0]]
Configured == {Confirmed, [Confirmed EXCEPT !["anthropic"] = [value |-> "key", at |-> 0, by |-> 0]]}

BothInit ==
  /\ Init /\ ConfigInit /\ part \in {"billing", "config"}
  /\ part = "billing" => overlay = Confirmed

BothNext ==
  /\ UNCHANGED part
  /\ \/ part = "billing" /\ Next /\ UNCHANGED configVars
     \/ part = "config" /\ ConfigNext /\ UNCHANGED vars

BothSpec == BothInit /\ [][BothNext]_<<part, vars, configVars>>

\* What operators ask for.
Asked ==
  {[item |-> "provider", value |-> "anthropic"], [item |-> "dual", value |-> "on"],
   [item |-> "anthropic", value |-> "key"], [item |-> "anthropic", value |-> Unset],
   [item |-> "openai", value |-> "blank"]}

=============================================================================
