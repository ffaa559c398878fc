---------------------------- MODULE WalletPromise ----------------------------
(***************************************************************************)
(* What the wallet promises its callers (ADR-005): transactions serve      *)
(* calls in one step.  What a transaction posts are entries of the calls   *)
(* it answers, once under every key; the balance takes what it posts and   *)
(* is never negative; and a call is answered as a success only if the      *)
(* entry under its key is of its type and amount.                          *)
(***************************************************************************)
EXTENDS Integers, Functions

CONSTANTS Users, Keys, Entry, Call, None

VARIABLES balance, ledger, told

Slots == Users \X Keys

\* The ledger is what is posted from now on, whatever the balance.
Init ==
  /\ balance \in [Users -> Nat]
  /\ ledger = [s \in Slots |-> None]
  /\ told = {}

Signed(e) == IF e.type = "credit" THEN e.amount ELSE -e.amount

\* The rows posted for user u by the step, and what they are worth.
NewRows(u) == {s \in {u} \X Keys : ledger[s] = None /\ ledger'[s] # None}
Worth(S) == SumFunction([s \in S |-> Signed(ledger'[s])])

\* The row under slot s stays, or it is posted for one of the calls C.
Posts(C, s) ==
  \/ ledger'[s] = ledger[s]
  \/ ledger[s] = None /\ \E c \in C : c.slot = s /\ ledger'[s] = c.entry

Answers(e, c) == e # None /\ e.type = c.entry.type /\ e.amount = c.entry.amount

\* A transaction that serves the calls C.
Transaction(C) ==
  /\ told' = told \cup C
  /\ \A s \in Slots : Posts(C, s)
  /\ \A c \in C : Answers(ledger'[c.slot], c)
  /\ \A u \in Users : balance'[u] = balance[u] + Worth(NewRows(u))

Next ==
  /\ balance' \in [Users -> Nat] /\ ledger' \in [Slots -> Entry \cup {None}]
  /\ \E C \in SUBSET Call : Transaction(C)

Spec == Init /\ [][Next]_<<balance, ledger, told>>

=============================================================================
