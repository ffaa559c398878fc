-------------------------- MODULE MCBackgroundLoops --------------------------
(***************************************************************************)
(* Small instances of two loops of a process that share no state, in one   *)
(* run under the fairness of both: the worker of the scheduled chats and   *)
(* the refresher of the overrides.  A behaviour is one of one loop, and    *)
(* the other rests.                                                        *)
(***************************************************************************)
EXTENDS ScheduledChats, InstanceConfig, TLC

CONSTANTS t1, t2, w1, w2, r1, r2, p1, p2

VARIABLE loop

loops == <<loop, vars, configVars>>

LoopsInit == Init /\ ConfigInit /\ loop \in {"chats", "config"}

LoopsNext ==
  /\ UNCHANGED loop
  /\ \/ loop = "chats" /\ Next /\ UNCHANGED configVars
     \/ loop = "config" /\ ConfigNext /\ UNCHANGED vars

\* Fairness and ConfigFairness, each of the behaviours of its loop.
LoopsFairness ==
  /\ \A w \in Workers : WF_vars(loop = "chats" /\ Step(w))
  /\ \A t \in Tasks : WF_vars(loop = "chats" /\ Age(t))
  /\ \A p \in Processes : WF_configVars(loop = "config" /\ Refresh(p))

LoopsSpec == LoopsInit /\ [][LoopsNext]_loops /\ LoopsFairness

\* The chosen provider has been confirmed and the other's key recorded before.
Configured ==
  {[Env EXCEPT !["provider"] = [value |-> "openai", at |-> 1, by |-> 0],
               !["anthropic"] = [value |-> "key", at |-> 0, by |-> 0]]}

Asked ==
  {[item |-> "provider", value |-> "anthropic"], [item |-> "dual", value |-> "on"],
   [item |-> "anthropic", value |-> "key"], [item |-> "anthropic", value |-> Unset],
   [item |-> "openai", value |-> "blank"]}

=============================================================================
