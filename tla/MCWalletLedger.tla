--------------------------- MODULE MCWalletLedger ---------------------------
(* Clients that retry, disagree about the amount, and race for the balance.   *)
EXTENDS WalletLedger, TLC

CONSTANTS u1, k1, k2, m1, m2, t1, t2, t3

Of(k, type, amount, meta) ==
  [slot |-> <<u1, k>>, entry |-> [type |-> type, amount |-> amount, meta |-> meta],
   refused |-> FALSE]

Refused(c) == [c EXCEPT !.refused = TRUE]

\* A grant, the same key with another amount, a debit the grant covers once, the same key
\* with another amount or type, a bogus session.
GrantAndSpend ==
  {Of(k1, "credit", 2, m1), Of(k1, "credit", 1, m1), Of(k2, "credit", 2, m1),
   Of(k2, "debit", 2, m1), Of(k2, "debit", 1, m1), Refused(Of(k1, "debit", 1, m1))}

=============================================================================
