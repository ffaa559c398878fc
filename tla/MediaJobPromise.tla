--------------------------- MODULE MediaJobPromise ---------------------------
(***************************************************************************)
(* What a media job promises its owner: it is accepted together with its   *)
(* charge, it ends once, completed or failed, and the charge comes back    *)
(* with the failure and with nothing else.  One step may settle several    *)
(* jobs: the reconciler commits a whole batch.                             *)
(***************************************************************************)
CONSTANTS Jobs, Priced

VARIABLES phase, account

Phases == {"absent", "open", "completed", "failed"}
Accounts == {"untouched", "charged", "refunded"}

Init == phase = [j \in Jobs |-> "absent"] /\ account = [j \in Jobs |-> "untouched"]

Charge(j) == IF j \in Priced THEN "charged" ELSE "untouched"
GiveBack(j) == IF j \in Priced THEN "refunded" ELSE "untouched"

Accept(j) == phase[j] = "absent" /\ phase'[j] = "open" /\ account'[j] = Charge(j)

Complete(j) ==
  phase[j] = "open" /\ phase'[j] = "completed" /\ account'[j] = account[j]

Fail(j) ==
  phase[j] = "open" /\ phase'[j] = "failed" /\ account'[j] = GiveBack(j)

Rest(j) == phase'[j] = phase[j] /\ account'[j] = account[j]

Next ==
  /\ phase' \in [Jobs -> Phases] /\ account' \in [Jobs -> Accounts]
  /\ \A j \in Jobs : Rest(j) \/ Accept(j) \/ Complete(j) \/ Fail(j)

Spec == Init /\ [][Next]_<<phase, account>>

=============================================================================
