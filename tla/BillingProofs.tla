---------------------------- MODULE BillingProofs ----------------------------
(***************************************************************************)
(* Proofs about Billing for any periods, packs, payments, grants and       *)
(* workers: one grant per purchase, whatever is recorded was credited, an  *)
(* old period does not undo a newer one, and the locks form no circle.     *)
(***************************************************************************)
EXTENDS Billing, TLAPS

USE DEF Original

Labels == {"idle", "dedup", "read", "write", "upsert", "check", "insert", "pay",
           "lookup", "base", "commit"}

-----------------------------------------------------------------------------
(* Keys and types.                                                         *)

\* The key of a request that credits, and what it will write under it.
LEMMA KeyOf ==
  ASSUME NEW t \in Operations, Credits(t)
  PROVE  /\ Key(t) \in Keys /\ KnownGrant(<<Key(t), Paid(t)>>)
         /\ <<Key(t), Paid(t)>> = Historical => Original \in Unnumbered
<1>1. CASE t.kind \in {"sync", "granting"}
  BY <1>1, ConstantsAssumption DEF Operations, Adapty, Key, Paid, Keys, KnownGrant, Historical
<1>2. CASE t.kind \in {"packApp", "packHook"}
  BY <1>2 DEF Operations, Adapty, Key, Paid, Keys, KnownGrant, Historical
<1>3. CASE t.kind \in {"card", "crm", "admin"}
  BY <1>3 DEF Operations, Adapty, Key, Paid, Keys, KnownGrant, Historical
<1>4. t.kind \in {"sync", "granting", "packApp", "packHook", "card", "crm", "admin"}
  BY DEF Operations, Adapty, Credits
<1> QED
  BY <1>1, <1>2, <1>3, <1>4

LEMMA ExpOf ==
  ASSUME NEW t \in Operations
  PROVE  t.exp \in Nat
<1>1. t.exp \in Nat \/ t.exp \in {0}
  BY DEF Operations
<1> QED
  BY <1>1

LEMMA DeliveryOf ==
  ASSUME NEW t \in Operations, Hooked(t)
  PROVE  Delivery(t) \in Deliveries
  BY DEF Operations, Hooked, Adapty, Delivery, Deliveries

LEMMA MergedIsRow ==
  ASSUME NEW a \in Row, NEW b \in Row, NEW c \in Row
  PROVE  Merged(a, b, c) \in Row
  BY DEF Merged, Row

LEMMA WantedIsRow ==
  ASSUME NEW t \in Operations, NEW r \in Row,
         t.kind \in {"sync", "cancel"} \cup Adapty
  PROVE  Wanted(t, r) \in Row
  BY DEF Operations, Wanted, Row, Adapty

LEMMA ReleaseTypes ==
  ASSUME TypeOK, NEW p \in Requests, Release(p)
  PROVE  /\ subLock' \in Requests \cup {Nobody} /\ walletLock' \in Requests \cup {Nobody}
         /\ keyLock' \in [Keys -> Requests \cup {Nobody}]
         /\ deliveryLock' \in [Deliveries -> Requests \cup {Nobody}]
         /\ pc' \in [Requests -> Labels] /\ task' \in [Requests -> Operations \cup {Idle}]
         /\ seen' \in [Requests -> Row] /\ UNCHANGED <<now, started>>
  BY DEF TypeOK, Release, Freed, Goto, NoRow, Row, Labels

-----------------------------------------------------------------------------
(* What a step of one request leaves of the others.                        *)

\* p takes or lets go of locks of its own, and at most adds grants under its own keys.
Alone(p) ==
  /\ pc' = [pc EXCEPT ![p] = pc'[p]] /\ task' = [task EXCEPT ![p] = task'[p]]
  /\ seen' = [seen EXCEPT ![p] = seen'[p]]
  /\ \A q \in Requests \ {p} :
       /\ subLock' = q <=> subLock = q
       /\ walletLock' = q <=> walletLock = q
       /\ \A k \in Keys : keyLock'[k] = q <=> keyLock[k] = q
       /\ \A d \in Deliveries : deliveryLock'[d] = q <=> deliveryLock[d] = q
  /\ Taken \subseteq Taken' /\ \A k \in Keys : k \in Taken' => k \in Taken \/ keyLock[k] = p
  /\ History' => History

LEMMA OthersRest ==
  ASSUME BillingInv, NEW p \in Requests, Alone(p), NEW q \in Requests \ {p}
  PROVE  OneRequest(q)'
<1>1. OneRequest(q) /\ pc'[q] = pc[q] /\ task'[q] = task[q] /\ seen'[q] = seen[q]
  BY DEF BillingInv, TypeOK, Alone
<1>2. InPlace(q)'
  BY <1>1 DEF OneRequest, InPlace
<1>3. InOrder(q)'
  <2>1. \A d \in Deliveries : deliveryLock'[d] = q =>
          d = Delivery(task[q]) /\ pc[q] \notin {"idle", "dedup"}
    BY <1>1 DEF OneRequest, InOrder, Alone
  <2>2. \A k \in Keys : keyLock'[k] = q =>
          k = Key(task[q]) /\ pc[q] \in {"pay", "commit"} /\ Credits(task[q]) /\ k \notin Taken'
    BY <1>1 DEF OneRequest, InOrder, Alone
  <2>3. /\ subLock' = q => pc[q] \in {"check", "insert", "pay", "commit"}
        /\ pc[q] = "pay" => \E k \in Keys : keyLock'[k] = q
        /\ walletLock' = q => pc[q] = "commit"
    BY <1>1 DEF OneRequest, InOrder, Alone
  <2> QED
    BY <1>1, <2>1, <2>2, <2>3 DEF InOrder
<1>4. HistoryIsFound(q)'
  BY <1>1 DEF OneRequest, HistoryIsFound, Alone
<1>5. CreditBeforeRecord(q)'
  BY <1>1 DEF OneRequest, CreditBeforeRecord, Alone
<1>6. NotOverLater(q)'
  BY <1>1 DEF OneRequest, NotOverLater, Alone
<1> QED
  BY <1>2, <1>3, <1>4, <1>5, <1>6 DEF OneRequest

\* A step that commits nothing and takes no key of the ledger.
LEMMA QuietKeeps ==
  ASSUME BillingInv, NEW p \in Requests, Alone(p), TypeOK', OneRequest(p)',
         UNCHANGED <<ledger, deliveries, audited, keyLock>>
  PROVE  BillingInv'
<1>1. Books'
  BY DEF BillingInv, Books, History, Taken
<1>2. RecordedIsCredited'
  BY DEF BillingInv, RecordedIsCredited, Taken
<1> QED
  BY <1>1, <1>2, OthersRest DEF BillingInv

LEMMA InitKeeps == Init => BillingInv
<1> SUFFICES ASSUME Init
             PROVE  BillingInv
  OBVIOUS
<1>1. TypeOK
  <2>1. sub \in Row
    BY DEF Init, NoRow, Row
  <2>2. \A g \in ledger : g[1] \in Keys
    BY ConstantsAssumption DEF Init, Keys
  <2> QED
    BY <2>1, <2>2, ConstantsAssumption DEF Init, TypeOK, NoRow, Row
<1>2. Books
  BY ConstantsAssumption DEF Init, Books, KnownGrant, History, Historical, Keys, Taken
<1>3. RecordedIsCredited
  BY DEF Init, RecordedIsCredited
<1>4. ASSUME NEW p \in Requests
      PROVE  OneRequest(p)
  BY ConstantsAssumption
     DEF Init, OneRequest, InPlace, InOrder, HistoryIsFound, CreditBeforeRecord, NotOverLater, Idle
<1> QED
  BY <1>1, <1>2, <1>3, <1>4 DEF BillingInv

-----------------------------------------------------------------------------
(* A transaction begins and ends.                                          *)

LEMMA RollbackKeeps ==
  ASSUME BillingInv, NEW p \in Requests, Rollback(p)
  PROVE  BillingInv'
<1>1. TypeOK'
  BY ReleaseTypes DEF Rollback, BillingInv, TypeOK, Labels
<1>2. UNCHANGED <<sub, ledger, deliveries, audited>> /\ Taken' = Taken /\ p # Nobody
      /\ Nobody \notin Requests
  BY ConstantsAssumption DEF Rollback, Taken
<1>3. Release(p)
  BY DEF Rollback
<1>4. /\ pc' = [pc EXCEPT ![p] = "idle"] /\ task' = [task EXCEPT ![p] = Idle]
      /\ seen' = [seen EXCEPT ![p] = NoRow]
      /\ subLock' = IF subLock = p THEN Nobody ELSE subLock
      /\ walletLock' = IF walletLock = p THEN Nobody ELSE walletLock
      /\ \A k \in Keys : keyLock'[k] = IF keyLock[k] = p THEN Nobody ELSE keyLock[k]
      /\ \A d \in Deliveries : deliveryLock'[d] = IF deliveryLock[d] = p THEN Nobody ELSE deliveryLock[d]
  BY <1>3 DEF Release, Goto, Freed, BillingInv, TypeOK
<1>5. Alone(p)
  BY <1>2, <1>4 DEF Alone, History, BillingInv, TypeOK
<1>6. OneRequest(p)'
  <2>1. pc'[p] = "idle" /\ task'[p] = Idle /\ subLock' # p /\ walletLock' # p
        /\ (\A k \in Keys : keyLock'[k] # p) /\ (\A d \in Deliveries : deliveryLock'[d] # p)
    BY <1>2, <1>4 DEF BillingInv, TypeOK
  <2> QED
    BY <2>1 DEF OneRequest, InPlace, InOrder, HistoryIsFound, CreditBeforeRecord, NotOverLater, Idle
<1>7. Books'
  <2>1. <<"sub-grant", Original>> \in Keys
    BY ConstantsAssumption DEF Keys
  <2> QED
    BY <1>2, <1>4, <2>1 DEF BillingInv, Books, History
<1>8. RecordedIsCredited'
  BY <1>2 DEF BillingInv, RecordedIsCredited
<1> QED
  BY <1>1, <1>5, <1>6, <1>7, <1>8, OthersRest DEF BillingInv

LEMMA BeginKeeps ==
  ASSUME BillingInv, NEW p \in Requests, NEW kind, NEW of, NEW exp, NEW live,
         NEW label \in {"read", "dedup", "check", "lookup", "upsert"},
         Begin(p, kind, of, exp, live, label),
         [kind |-> kind, of |-> of, exp |-> exp, live |-> live] \in Operations,
         kind = "granting" => live,
         label = "read" => kind \in {"sync", "cancel"},
         label = "dedup" => kind \in Adapty \cup {"packHook", "card"},
         label = "check" => kind = "packApp",
         label = "upsert" => kind = "admin",
         label = "lookup" => kind = "crm"
  PROVE  BillingInv'
<1> DEFINE t == [kind |-> kind, of |-> of, exp |-> exp, live |-> live]
<1>1. /\ pc[p] = "idle" /\ pc' = [pc EXCEPT ![p] = label] /\ task' = [task EXCEPT ![p] = t]
      /\ UNCHANGED <<dbVars, now, seen>>
  BY DEF Begin, Goto
<1>2. /\ UNCHANGED <<sub, subWork, subLock, ledger, keyLock, deliveries, deliveryLock, walletLock, audited>>
      /\ seen' = [seen EXCEPT ![p] = seen[p]] /\ Taken' = Taken
  BY <1>1 DEF dbVars, BillingInv, TypeOK, Taken
<1>3. /\ t \in Operations /\ t.kind = kind /\ (kind = "granting" => t.live)
      /\ (kind = "packApp" => Credits(t)) /\ (label = "dedup" => Hooked(t))
  BY DEF Operations, Credits, Hooked, Adapty
<1> HIDE DEF t
<1>4. TypeOK'
  BY <1>1, <1>2, <1>3 DEF BillingInv, TypeOK
<1>5. Alone(p)
  BY <1>1, <1>2 DEF Alone, History, BillingInv, TypeOK
<1>6. OneRequest(p)'
  <2>1. pc'[p] = label /\ task'[p] = t
    BY <1>1 DEF BillingInv, TypeOK
  <2>2. subLock # p /\ walletLock # p
        /\ (\A k \in Keys : keyLock[k] # p) /\ (\A d \in Deliveries : deliveryLock[d] # p)
    BY <1>1 DEF BillingInv, OneRequest, InOrder
  <2> QED
    BY <1>2, <1>3, <2>1, <2>2
       DEF OneRequest, InPlace, InOrder, HistoryIsFound, CreditBeforeRecord, NotOverLater
<1> QED
  BY <1>2, <1>4, <1>5, <1>6, QuietKeeps

LEMMA RequestKeeps ==
  ASSUME BillingInv, NEW p \in Requests, Request(p)
  PROVE  BillingInv'
<1>1. now \in Nat /\ Horizon \in Nat /\ Periods \subseteq Nat
  BY ConstantsAssumption DEF BillingInv, TypeOK
<1>2. ASSUME NEW n \in Periods, NEW live \in BOOLEAN, Sync(p, n, live)
      PROVE  BillingInv'
  <2>1. n \in Nat /\ [kind |-> "sync", of |-> n, exp |-> n, live |-> live] \in Operations
    BY <1>1 DEF Operations
  <2>2. Begin(p, "sync", n, n, live, "read")
    BY <1>2 DEF Sync
  <2> QED
    BY <2>1, <2>2, BeginKeeps
<1>3. ASSUME NEW n \in Periods, NEW kind \in Adapty, Webhook(p, kind, n)
      PROVE  BillingInv'
  BY <1>1, <1>3, BeginKeeps DEF Webhook, Operations, Adapty
<1>4. ASSUME NEW x \in Packs, PackWebhook(p, x) \/ PackPurchase(p, x)
      PROVE  BillingInv'
  BY <1>4, BeginKeeps DEF PackWebhook, PackPurchase, Operations
<1>5. ASSUME NEW x \in CardPlans \cup CardPacks, CardPayment(p, x)
      PROVE  BillingInv'
  <2>1. [kind |-> "card", of |-> x, exp |-> now + 1, live |-> TRUE] \in Operations
    BY <1>1 DEF Operations
  <2>2. Begin(p, "card", x, now + 1, TRUE, "dedup")
    BY <1>5 DEF CardPayment
  <2> QED
    BY <2>1, <2>2, BeginKeeps
<1>6. ASSUME NEW g \in Grants, CrmGrant(p, g)
      PROVE  BillingInv'
  BY <1>6, BeginKeeps DEF CrmGrant, Operations
<1>7. ASSUME NEW g \in AdminGrants, AdminGrant(p, g, now + 1)
      PROVE  BillingInv'
  <2>1. [kind |-> "admin", of |-> g, exp |-> now + 1, live |-> TRUE] \in Operations
    BY <1>1 DEF Operations
  <2>2. Begin(p, "admin", g, now + 1, TRUE, "upsert")
    BY <1>7 DEF AdminGrant
  <2> QED
    BY <2>1, <2>2, BeginKeeps
<1>8. CASE Cancel(p)
  BY <1>8, BeginKeeps DEF Cancel, Operations
<1> QED
  BY <1>2, <1>3, <1>4, <1>5, <1>6, <1>7, <1>8 DEF Request

\* A grant is recorded with its delivery and its audit event, once.
LEMMA CommitKeeps ==
  ASSUME BillingInv, NEW p \in Requests, Commit(p)
  PROVE  BillingInv'
<1> DEFINE t == task[p]
           mine == {k \in Keys : keyLock[k] = p}
<1>1. /\ pc[p] = "commit" /\ Release(p) /\ UNCHANGED subWork
      /\ sub' = IF subLock = p THEN subWork ELSE sub
      /\ ledger' = ledger \cup {<<k, Paid(t)>> : k \in mine}
      /\ deliveries' = deliveries \cup {d \in Deliveries : deliveryLock[d] = p}
      /\ audited' = IF t.kind = "crm" THEN audited \cup {t.of} ELSE audited
  BY DEF Commit
<1>2. t \in Operations /\ p # Nobody /\ Nobody \notin Requests
  BY <1>1, ConstantsAssumption DEF BillingInv, OneRequest, InPlace
<1>3. \A k \in mine : k = Key(t) /\ Credits(t) /\ k \notin Taken
  BY DEF BillingInv, OneRequest, InOrder
<1>4. \A g : g \in ledger' <=> g \in ledger \/ \E k \in mine : g = <<k, Paid(t)>>
  BY <1>1
<1>5. \A k : k \in Taken' <=> k \in Taken \/ k \in mine
  <2>1. Taken' = {g[1] : g \in ledger'} /\ Taken = {g[1] : g \in ledger}
    BY DEF Taken
  <2>2. \A k \in mine : <<k, Paid(t)>>[1] = k /\ <<k, Paid(t)>> \in ledger'
    BY <1>4
  <2>3. \A k : k \in Taken \/ k \in mine => k \in Taken'
    BY <1>4, <2>1, <2>2
  <2>4. ASSUME NEW g \in ledger'
        PROVE  g[1] \in Taken \/ g[1] \in mine
    BY <1>4, <2>1
  <2> HIDE DEF mine
  <2> QED
    BY <2>1, <2>3, <2>4
<1>6. \A k \in mine : KnownGrant(<<k, Paid(t)>>)
                      /\ (<<k, Paid(t)>> = Historical => Original \in Unnumbered)
  BY <1>2, <1>3, KeyOf
<1>7. History' <=> History
  BY <1>4, <1>6 DEF History
<1>8. /\ pc' = [pc EXCEPT ![p] = "idle"] /\ task' = [task EXCEPT ![p] = Idle]
      /\ seen' = [seen EXCEPT ![p] = NoRow]
      /\ subLock' = IF subLock = p THEN Nobody ELSE subLock
      /\ walletLock' = IF walletLock = p THEN Nobody ELSE walletLock
      /\ \A k \in Keys : keyLock'[k] = IF keyLock[k] = p THEN Nobody ELSE keyLock[k]
      /\ \A d \in Deliveries : deliveryLock'[d] = IF deliveryLock[d] = p THEN Nobody ELSE deliveryLock[d]
  BY <1>1 DEF Release, Goto, Freed, BillingInv, TypeOK
<1>9. Alone(p)
  BY <1>2, <1>5, <1>7, <1>8 DEF Alone, BillingInv, TypeOK
<1>10. OneRequest(p)'
  <2>1. pc'[p] = "idle" /\ task'[p] = Idle /\ subLock' # p /\ walletLock' # p
        /\ (\A k \in Keys : keyLock'[k] # p) /\ (\A d \in Deliveries : deliveryLock'[d] # p)
    BY <1>2, <1>8 DEF BillingInv, TypeOK
  <2> QED
    BY <2>1 DEF OneRequest, InPlace, InOrder, HistoryIsFound, CreditBeforeRecord, NotOverLater, Idle
<1>11. TypeOK'
  <2>1. \A g \in ledger' : g[1] \in Keys
    BY <1>4 DEF BillingInv, TypeOK
  <2>2. audited' \subseteq Grants /\ deliveries' \subseteq Deliveries /\ sub' \in Row /\ subWork' \in Row
    BY <1>1, <1>2 DEF BillingInv, TypeOK, Operations, Adapty
  <2>3. now' \in 0 .. Horizon
    BY <1>1, ReleaseTypes DEF BillingInv, TypeOK
  <2> QED
    BY <1>1, <2>1, <2>2, <2>3, ReleaseTypes DEF BillingInv, TypeOK, Labels
<1>12. Books'
  <2>1. \A g \in ledger' : KnownGrant(g)
    BY <1>4, <1>6 DEF BillingInv, Books
  <2>2. \A g, h \in ledger' : g[1] = h[1] => g = h
    <3> SUFFICES ASSUME NEW g \in ledger', NEW h \in ledger', g[1] = h[1]
                 PROVE  g = h
      OBVIOUS
    <3>1. CASE g \in ledger /\ h \in ledger
      BY <3>1 DEF BillingInv, Books
    <3>2. CASE g \in ledger /\ h \notin ledger
      BY <1>3, <1>4, <3>2 DEF Taken
    <3>3. CASE g \notin ledger /\ h \in ledger
      BY <1>3, <1>4, <3>3 DEF Taken
    <3>4. CASE g \notin ledger /\ h \notin ledger
      BY <1>4, <3>4
    <3> QED
      BY <3>1, <3>2, <3>3, <3>4
  <2>3. History => /\ <<"sub-grant", Original>> \notin Taken'
                   /\ keyLock'[<<"sub-grant", Original>>] = Nobody
    <3>1. <<"sub-grant", Original>> \in Keys
      BY ConstantsAssumption DEF Keys
    <3> QED
      BY <1>2, <1>5, <1>8, <3>1 DEF BillingInv, Books
  <2> QED
    BY <1>7, <2>1, <2>2, <2>3 DEF Books
<1>13. RecordedIsCredited'
  <2>1. \A d \in deliveries' : d \in deliveries \/ (deliveryLock[d] = p /\ d \in Deliveries /\ d = Delivery(t))
    BY <1>1 DEF BillingInv, OneRequest, InOrder
  <2>2. \A d \in Deliveries : deliveryLock[d] = p /\ Credits(t) =>
          (CheckedKeys(t) \cup {Key(t)}) \cap Taken' # {}
    BY <1>1, <1>3, <1>5 DEF BillingInv, OneRequest, CreditBeforeRecord
  <2>3. t.kind = "crm" => Key(t) \in Taken'
    <3> SUFFICES ASSUME t.kind = "crm"
                 PROVE  Key(t) \in Taken'
      OBVIOUS
    <3>1. Credits(t)
      BY <1>2 DEF Credits, Operations, Adapty
    <3>2. \/ (CheckedKeys(t) \cup {Key(t)}) \cap Taken # {}
          \/ \E k \in Keys : keyLock[k] = p
      BY <1>1, <3>1 DEF BillingInv, OneRequest, CreditBeforeRecord
    <3>3. CheckedKeys(t) = {}
      BY DEF CheckedKeys
    <3> QED
      BY <1>3, <1>5, <3>2, <3>3
  <2>4. t.kind = "granting" => Credits(t)
    BY DEF Credits, BillingInv, OneRequest, InPlace
  <2>5. t.kind \in {"packHook", "card"} => Credits(t)
    BY <1>2 DEF Credits, Operations, Adapty
  <2>6. \A n \in Periods : <<"granting", n>> \in deliveries' =>
          {<<"sub-grant", n>>, <<"adapty-txn", IF n \in Unnumbered THEN Original ELSE n>>}
            \cap Taken' # {}
    <3> SUFFICES ASSUME NEW n \in Periods, <<"granting", n>> \in deliveries', <<"granting", n>> \notin deliveries
                 PROVE  {<<"sub-grant", n>>, <<"adapty-txn", IF n \in Unnumbered THEN Original ELSE n>>}
                          \cap Taken' # {}
      BY <1>5 DEF BillingInv, RecordedIsCredited
    <3>1. t.kind = "granting" /\ t.of = n /\ (CheckedKeys(t) \cup {Key(t)}) \cap Taken' # {}
      BY <2>1, <2>2, <2>4 DEF Delivery
    <3>2. CheckedKeys(t) \cup {Key(t)} \subseteq
            {<<"sub-grant", n>>, <<"adapty-txn", IF n \in Unnumbered THEN Original ELSE n>>}
      BY <3>1 DEF CheckedKeys, Key
    <3> QED
      BY <3>1, <3>2
  <2>7. \A x \in Packs : <<"packHook", x>> \in deliveries' => <<"token-purchase", x>> \in Taken'
    <3> SUFFICES ASSUME NEW x \in Packs, <<"packHook", x>> \in deliveries', <<"packHook", x>> \notin deliveries
                 PROVE  <<"token-purchase", x>> \in Taken'
      BY <1>5 DEF BillingInv, RecordedIsCredited
    <3>1. t.kind = "packHook" /\ t.of = x /\ (CheckedKeys(t) \cup {Key(t)}) \cap Taken' # {}
      BY <2>1, <2>2, <2>5 DEF Delivery
    <3> QED
      BY <3>1 DEF CheckedKeys, Key
  <2>8. \A x \in CardPlans \cup CardPacks : <<"card", x>> \in deliveries' => <<"cp-txn", x>> \in Taken'
    <3> SUFFICES ASSUME NEW x \in CardPlans \cup CardPacks, <<"card", x>> \in deliveries',
                        <<"card", x>> \notin deliveries
                 PROVE  <<"cp-txn", x>> \in Taken'
      BY <1>5 DEF BillingInv, RecordedIsCredited
    <3>1. t.kind = "card" /\ t.of = x /\ (CheckedKeys(t) \cup {Key(t)}) \cap Taken' # {}
      BY <2>1, <2>2, <2>5 DEF Delivery
    <3> QED
      BY <3>1 DEF CheckedKeys, Key
  <2>9. \A g \in Grants : g \in audited' => <<"crm-sub-grant", g>> \in Taken'
    BY <1>1, <1>5, <2>3 DEF Key, BillingInv, RecordedIsCredited
  <2> QED
    BY <2>6, <2>7, <2>8, <2>9 DEF RecordedIsCredited
<1> QED
  BY <1>9, <1>10, <1>11, <1>12, <1>13, OthersRest DEF BillingInv

-----------------------------------------------------------------------------
(* Its steps.                                                              *)

LEMMA DedupKeeps ==
  ASSUME BillingInv, NEW p \in Requests, Dedup(p)
  PROVE  BillingInv'
<1> DEFINE t == task[p]
           d == Delivery(t)
<1>1. /\ pc[p] = "dedup" /\ deliveryLock[d] \in {Nobody, p}
      /\ UNCHANGED <<sub, subWork, subLock, ledger, keyLock, deliveries, walletLock, audited,
                     now, task, seen, started>>
  BY DEF Dedup, Free
<1>2. t \in Operations /\ d \in Deliveries /\ Hooked(t) /\ Nobody \notin Requests
  BY <1>1, DeliveryOf, ConstantsAssumption DEF BillingInv, OneRequest, InPlace
<1>3. PICK l \in {"commit", "read", "check", "upsert", "insert"} :
        /\ Goto(p, l)
        /\ l = "commit" => deliveryLock' = deliveryLock
        /\ l # "commit" => deliveryLock' = [deliveryLock EXCEPT ![d] = p]
        /\ l = "read" => t.kind \in Adapty
        /\ l = "check" => t.kind = "packHook"
        /\ l \in {"upsert", "insert"} => t.kind = "card"
  <2>1. CASE d \in deliveries
    BY <2>1 DEF Dedup
  <2>2. CASE d \notin deliveries
    <3>1. deliveryLock' = [deliveryLock EXCEPT ![d] = p]
      BY <2>2 DEF Dedup
    <3>2. Goto(p, AfterDedup(t))
      BY <2>2 DEF Dedup
    <3>3. CASE t.kind \in Adapty
      BY <3>1, <3>2, <3>3 DEF AfterDedup, Adapty
    <3>4. CASE t.kind = "packHook"
      BY <3>1, <3>2, <3>4 DEF AfterDedup, Adapty
    <3>5. CASE t.kind = "card"
      BY <3>1, <3>2, <3>5 DEF AfterDedup, Adapty
    <3> QED
      BY <1>2, <3>3, <3>4, <3>5 DEF Hooked
  <2> QED
    BY <2>1, <2>2
<1>4. pc' = [pc EXCEPT ![p] = l] /\ Taken' = Taken
  BY <1>1, <1>3 DEF Goto, Taken
<1> HIDE DEF d
<1>5. TypeOK'
  BY <1>1, <1>2, <1>3, <1>4 DEF BillingInv, TypeOK
<1>6. Alone(p)
  BY <1>1, <1>2, <1>3, <1>4 DEF Alone, History, BillingInv, TypeOK
<1>7. /\ \A e \in Deliveries : deliveryLock[e] # p
      /\ \A e \in Deliveries : deliveryLock'[e] = p => e = d /\ l # "commit"
      /\ subLock # p /\ walletLock # p /\ \A k \in Keys : keyLock[k] # p
  BY <1>1, <1>2, <1>3 DEF BillingInv, OneRequest, InOrder, TypeOK
<1>8. t.kind \in {"packHook", "card"} => Credits(t)
  BY <1>2 DEF Credits, Operations, Adapty
<1>9. t.kind = "card" => Key(t)[1] = "cp-txn"
  BY DEF Key
<1>10. pc'[p] = l /\ task'[p] = t /\ (t.kind = "granting" => t.live) /\ t.kind # "crm"
  BY <1>1, <1>2, <1>4 DEF BillingInv, TypeOK, OneRequest, InPlace, Hooked, Adapty
<1>11. OneRequest(p)'
  <2>1. InPlace(p)'
    BY <1>2, <1>3, <1>8, <1>10 DEF InPlace
  <2>2. InOrder(p)'
    BY <1>1, <1>7, <1>10 DEF InOrder, d
  <2>3. HistoryIsFound(p)'
    BY <1>3, <1>9, <1>10 DEF HistoryIsFound
  <2>4. CreditBeforeRecord(p)' /\ NotOverLater(p)'
    BY <1>1, <1>7, <1>10 DEF CreditBeforeRecord, NotOverLater
  <2> QED
    BY <2>1, <2>2, <2>3, <2>4 DEF OneRequest
<1> QED
  BY <1>1, <1>5, <1>6, <1>11, QuietKeeps

LEMMA ReadRowKeeps ==
  ASSUME BillingInv, NEW p \in Requests, ReadRow(p)
  PROVE  BillingInv'
<1>1. /\ pc[p] = "read" /\ seen' = [seen EXCEPT ![p] = sub] /\ pc' = [pc EXCEPT ![p] = "write"]
      /\ UNCHANGED <<sub, subWork, subLock, ledger, keyLock, deliveries, deliveryLock, walletLock, audited>>
      /\ UNCHANGED <<now, task, started>> /\ Taken' = Taken
  BY DEF ReadRow, Goto, dbVars, Taken
<1>2. TypeOK'
  BY <1>1 DEF BillingInv, TypeOK
<1>3. Alone(p)
  BY <1>1 DEF Alone, History, BillingInv, TypeOK
<1>4. OneRequest(p)'
  <2>1. pc'[p] = "write" /\ OneRequest(p)
    BY <1>1 DEF BillingInv, TypeOK
  <2> QED
    BY <1>1, <2>1 DEF OneRequest, InPlace, InOrder, HistoryIsFound, CreditBeforeRecord, NotOverLater
<1> QED
  BY <1>1, <1>2, <1>3, <1>4, QuietKeeps

LEMMA WriteRowKeeps ==
  ASSUME BillingInv, NEW p \in Requests, WriteRow(p)
  PROVE  BillingInv'
<1> DEFINE t == task[p]
           l == IF Credits(t) THEN "check" ELSE "commit"
<1>1. /\ pc[p] = "write" /\ pc' = [pc EXCEPT ![p] = l]
      /\ UNCHANGED <<sub, ledger, keyLock, deliveries, deliveryLock, walletLock, audited>>
      /\ UNCHANGED <<now, task, seen, started>> /\ Taken' = Taken
      /\ \/ subWork' = subWork /\ subLock' = subLock
         \/ /\ ~IsStale(seen[p], t.exp) /\ subLock \in {Nobody, p} /\ subLock' = p
            /\ subWork' = Merged(seen[p], Wanted(t, seen[p]), sub)
  BY DEF WriteRow, Goto, Taken, Free
<1>2. OneRequest(p) /\ t \in Operations /\ seen[p] \in Row /\ sub \in Row /\ Nobody \notin Requests
      /\ t.kind \in {"sync", "cancel"} \cup Adapty /\ subLock # p
  BY <1>1, ConstantsAssumption DEF BillingInv, TypeOK, OneRequest, InPlace, InOrder
<1>3. Merged(seen[p], Wanted(t, seen[p]), sub) \in Row
  BY <1>2, WantedIsRow, MergedIsRow
<1>4. l \in {"check", "commit"} /\ (l = "check" <=> Credits(t))
  OBVIOUS
<1> HIDE DEF l
<1>5. TypeOK'
  BY <1>1, <1>3, <1>4 DEF BillingInv, TypeOK
<1>6. Alone(p)
  BY <1>1, <1>2 DEF Alone, History, BillingInv, TypeOK
<1>7. OneRequest(p)'
  <2>1. pc'[p] = l
    BY <1>1 DEF BillingInv, TypeOK
  <2>2. InPlace(p)'
    BY <1>1, <1>2, <1>4, <2>1 DEF OneRequest, InPlace, Credits, Adapty
  <2>3. InOrder(p)' /\ HistoryIsFound(p)'
    BY <1>1, <1>2, <1>4, <2>1 DEF OneRequest, InOrder, HistoryIsFound
  <2>4. CreditBeforeRecord(p)' /\ NotOverLater(p)'
    BY <1>1, <1>2, <1>4, <2>1 DEF CreditBeforeRecord, NotOverLater
  <2> QED
    BY <2>2, <2>3, <2>4 DEF OneRequest
<1> QED
  BY <1>1, <1>5, <1>6, <1>7, QuietKeeps

LEMMA UpsertKeeps ==
  ASSUME BillingInv, NEW p \in Requests, Upsert(p)
  PROVE  BillingInv'
<1> DEFINE t == task[p]
<1>1. /\ pc[p] = "upsert" /\ pc' = [pc EXCEPT ![p] = "insert"]
      /\ UNCHANGED <<sub, ledger, keyLock, deliveries, deliveryLock, walletLock, audited>>
      /\ UNCHANGED <<now, task, seen, started>> /\ Taken' = Taken
      /\ subLock \in {Nobody, p} /\ subLock' = p
  BY DEF Upsert, Goto, Taken, Free
<1>2. OneRequest(p) /\ t \in Operations /\ sub \in Row /\ Nobody \notin Requests
      /\ t.kind \in {"card", "crm", "admin"}
  BY <1>1, ConstantsAssumption DEF BillingInv, TypeOK, OneRequest, InPlace
<1>3. subWork' \in Row
  BY <1>2 DEF Upsert, Row, Operations, Adapty
<1>4. TypeOK'
  BY <1>1, <1>3 DEF BillingInv, TypeOK
<1>5. Alone(p)
  BY <1>1, <1>2 DEF Alone, History, BillingInv, TypeOK
<1>6. Credits(t) /\ Key(t)[1] # "sub-grant"
  BY <1>2 DEF Credits, Operations, Adapty, Key
<1>7. OneRequest(p)'
  <2>1. pc'[p] = "insert"
    BY <1>1 DEF BillingInv, TypeOK
  <2> QED
    BY <1>1, <1>2, <1>6, <2>1
       DEF OneRequest, InPlace, InOrder, HistoryIsFound, CreditBeforeRecord, NotOverLater, Adapty
<1> QED
  BY <1>1, <1>4, <1>5, <1>7, QuietKeeps

LEMMA CheckKeysKeeps ==
  ASSUME BillingInv, NEW p \in Requests, CheckKeys(p)
  PROVE  BillingInv'
<1> DEFINE t == task[p]
           l == IF CheckedKeys(t) \cap Taken = {} THEN "insert" ELSE "commit"
<1>1. /\ pc[p] = "check" /\ pc' = [pc EXCEPT ![p] = l]
      /\ UNCHANGED <<sub, subWork, subLock, ledger, keyLock, deliveries, deliveryLock, walletLock, audited>>
      /\ UNCHANGED <<now, task, seen, started>> /\ Taken' = Taken
  BY DEF CheckKeys, Goto, dbVars, Taken
<1>2. OneRequest(p) /\ t \in Operations /\ t.kind \in {"sync", "granting", "packApp", "packHook"}
      /\ Credits(t)
  BY <1>1 DEF BillingInv, OneRequest, InPlace
<1>3. l \in {"insert", "commit"} /\ (l = "insert" <=> CheckedKeys(t) \cap Taken = {})
  OBVIOUS
<1>4. l = "insert" /\ History => Key(t) # <<"sub-grant", Original>>
  <2> SUFFICES ASSUME l = "insert", History, Key(t) = <<"sub-grant", Original>>
               PROVE  FALSE
    OBVIOUS
  <2>1. <<"adapty-txn", Original>> \in Taken
    BY DEF History, Historical, Taken
  <2>2. t.kind \in {"sync", "granting"} /\ t.of = Original
    BY <1>2 DEF Key
  <2>3. <<"adapty-txn", Original>> \in CheckedKeys(t)
    BY <2>2 DEF CheckedKeys
  <2> QED
    BY <1>3, <2>1, <2>3
<1> HIDE DEF l
<1>5. TypeOK'
  BY <1>1, <1>3 DEF BillingInv, TypeOK
<1>6. Alone(p)
  BY <1>1 DEF Alone, History, BillingInv, TypeOK
<1>7. OneRequest(p)'
  <2>1. pc'[p] = l /\ (History' <=> History)
    BY <1>1 DEF BillingInv, TypeOK, History
  <2>2. InPlace(p)' /\ InOrder(p)'
    BY <1>1, <1>2, <1>3, <2>1 DEF OneRequest, InPlace, InOrder
  <2>3. HistoryIsFound(p)'
    BY <1>1, <1>4, <2>1 DEF HistoryIsFound
  <2>4. CreditBeforeRecord(p)' /\ NotOverLater(p)'
    BY <1>1, <1>2, <1>3, <2>1 DEF OneRequest, CreditBeforeRecord, NotOverLater
  <2> QED
    BY <2>2, <2>3, <2>4 DEF OneRequest
<1> QED
  BY <1>1, <1>5, <1>6, <1>7, QuietKeeps

LEMMA InsertKeyKeeps ==
  ASSUME BillingInv, NEW p \in Requests, InsertKey(p)
  PROVE  BillingInv'
<1> DEFINE t == task[p]
           k == Key(t)
<1>1. /\ pc[p] = "insert" /\ keyLock[k] \in {Nobody, p}
      /\ UNCHANGED <<sub, subWork, subLock, ledger, deliveries, deliveryLock, walletLock, audited>>
      /\ UNCHANGED <<now, task, seen, started>> /\ Taken' = Taken
      /\ \/ k \in Taken /\ pc' = [pc EXCEPT ![p] = "commit"] /\ keyLock' = keyLock
         \/ k \notin Taken /\ pc' = [pc EXCEPT ![p] = "pay"] /\ keyLock' = [keyLock EXCEPT ![k] = p]
  BY DEF InsertKey, Goto, Free, Taken
<1>2. OneRequest(p) /\ t \in Operations /\ Credits(t) /\ Nobody \notin Requests
  BY <1>1, ConstantsAssumption DEF BillingInv, OneRequest, InPlace
<1>3. k \in Keys
  BY <1>2, KeyOf
<1>4. History => k # <<"sub-grant", Original>>
  BY <1>1, <1>2 DEF OneRequest, HistoryIsFound
<1>5. k \in CheckedKeys(t) \cup {Key(t)} /\ k = Key(t)
  OBVIOUS
<1> HIDE DEF k
<1>6. TypeOK'
  BY <1>1, <1>3 DEF BillingInv, TypeOK
<1>7. Alone(p)
  BY <1>1, <1>2, <1>3 DEF Alone, History, BillingInv, TypeOK
<1>8. OneRequest(p)'
  <2>1. pc'[p] \in {"commit", "pay"} /\ (pc'[p] = "commit" => k \in Taken)
    BY <1>1 DEF BillingInv, TypeOK
  <2>2. /\ \A i \in Keys : keyLock'[i] = p => i = k /\ k \notin Taken
        /\ pc'[p] = "pay" => keyLock'[k] = p
    BY <1>1, <1>2, <1>3 DEF OneRequest, InOrder, BillingInv, TypeOK
  <2>3. InPlace(p)' /\ HistoryIsFound(p)' /\ NotOverLater(p)'
    BY <1>1, <1>2, <2>1 DEF OneRequest, InPlace, HistoryIsFound, NotOverLater
  <2>4. InOrder(p)'
    BY <1>1, <1>2, <1>3, <1>5, <2>1, <2>2 DEF OneRequest, InOrder
  <2>5. CreditBeforeRecord(p)'
    BY <1>1, <1>5, <2>1 DEF CreditBeforeRecord
  <2> QED
    BY <2>3, <2>4, <2>5 DEF OneRequest
<1>9. Books'
  <2>1. <<"sub-grant", Original>> \in Keys
    BY ConstantsAssumption DEF Keys
  <2>2. History => keyLock'[<<"sub-grant", Original>>] = keyLock[<<"sub-grant", Original>>]
    BY <1>1, <1>3, <1>4, <2>1 DEF BillingInv, TypeOK
  <2> QED
    BY <1>1, <2>2 DEF BillingInv, Books, History
<1>10. RecordedIsCredited'
  BY <1>1 DEF BillingInv, RecordedIsCredited
<1> QED
  BY <1>6, <1>7, <1>8, <1>9, <1>10, OthersRest DEF BillingInv

LEMMA PayInKeeps ==
  ASSUME BillingInv, NEW p \in Requests, PayIn(p)
  PROVE  BillingInv'
<1>1. /\ pc[p] = "pay" /\ pc' = [pc EXCEPT ![p] = "commit"]
      /\ UNCHANGED <<sub, subWork, subLock, ledger, keyLock, deliveries, deliveryLock, audited>>
      /\ UNCHANGED <<now, task, seen, started>> /\ Taken' = Taken
      /\ walletLock \in {Nobody, p} /\ walletLock' = p
  BY DEF PayIn, Goto, Free, Taken
<1>2. OneRequest(p) /\ Nobody \notin Requests
  BY ConstantsAssumption DEF BillingInv
<1>3. TypeOK'
  BY <1>1 DEF BillingInv, TypeOK
<1>4. Alone(p)
  BY <1>1, <1>2 DEF Alone, History, BillingInv, TypeOK
<1>5. OneRequest(p)'
  <2>1. pc'[p] = "commit"
    BY <1>1 DEF BillingInv, TypeOK
  <2> QED
    BY <1>1, <1>2, <2>1
       DEF OneRequest, InPlace, InOrder, HistoryIsFound, CreditBeforeRecord, NotOverLater
<1> QED
  BY <1>1, <1>3, <1>4, <1>5, QuietKeeps

\* The CRM's grant is audited, so credited, or about to be.
LEMMA LookupKeeps ==
  ASSUME BillingInv, NEW p \in Requests, Lookup(p)
  PROVE  BillingInv'
<1> DEFINE t == task[p]
           l == IF t.of \in audited THEN "commit" ELSE "base"
<1>1. /\ pc[p] = "lookup" /\ pc' = [pc EXCEPT ![p] = l]
      /\ UNCHANGED <<sub, subWork, subLock, ledger, keyLock, deliveries, deliveryLock, walletLock, audited>>
      /\ UNCHANGED <<now, task, seen, started>> /\ Taken' = Taken
  BY DEF Lookup, Goto, dbVars, Taken
<1>2. OneRequest(p) /\ t \in Operations /\ t.kind = "crm"
  BY <1>1 DEF BillingInv, OneRequest, InPlace
<1>3. l \in {"commit", "base"} /\ (l = "commit" => Key(t) \in Taken)
  BY <1>2 DEF Operations, Adapty, Key, BillingInv, RecordedIsCredited
<1> HIDE DEF l
<1>4. TypeOK'
  BY <1>1, <1>3 DEF BillingInv, TypeOK
<1>5. Alone(p)
  BY <1>1 DEF Alone, History, BillingInv, TypeOK
<1>6. OneRequest(p)'
  <2>1. pc'[p] = l
    BY <1>1 DEF BillingInv, TypeOK
  <2> QED
    BY <1>1, <1>2, <1>3, <2>1
       DEF OneRequest, InPlace, InOrder, HistoryIsFound, CreditBeforeRecord, NotOverLater
<1> QED
  BY <1>1, <1>4, <1>5, <1>6, QuietKeeps

LEMMA ExtendFromKeeps ==
  ASSUME BillingInv, NEW p \in Requests, ExtendFrom(p)
  PROVE  BillingInv'
<1> DEFINE t == [task[p] EXCEPT !.exp =
                   1 + IF sub.st = "active" /\ sub.exp > now THEN sub.exp ELSE now]
<1>1. /\ pc[p] = "base" /\ pc' = [pc EXCEPT ![p] = "upsert"] /\ task' = [task EXCEPT ![p] = t]
      /\ UNCHANGED <<sub, subWork, subLock, ledger, keyLock, deliveries, deliveryLock, walletLock, audited>>
      /\ UNCHANGED <<now, seen, started>> /\ Taken' = Taken
  BY DEF ExtendFrom, Goto, dbVars, Taken
<1>2. OneRequest(p) /\ task[p] \in Operations /\ task[p].kind = "crm"
  BY <1>1 DEF BillingInv, OneRequest, InPlace
<1>3. sub.exp \in Nat /\ now \in Nat
  BY ConstantsAssumption DEF BillingInv, TypeOK, Row
<1>4. t \in Operations /\ t.kind = "crm" /\ t.of = task[p].of
  <2>1. task[p] \in [kind : {"crm"}, of : Grants, exp : Nat, live : {TRUE}]
    BY <1>2 DEF Operations, Adapty
  <2>2. 1 + (IF sub.st = "active" /\ sub.exp > now THEN sub.exp ELSE now) \in Nat
    BY <1>3
  <2>3. t \in [kind : {"crm"}, of : Grants, exp : Nat, live : {TRUE}]
    BY <2>1, <2>2
  <2>4. t.kind = "crm" /\ t.of = task[p].of
    BY <2>1
  <2> HIDE DEF t
  <2> QED
    BY <2>3, <2>4 DEF Operations
<1>5. Delivery(t) = Delivery(task[p])
  BY <1>2, <1>4 DEF Delivery
<1> HIDE DEF t
<1>6. TypeOK'
  BY <1>1, <1>4 DEF BillingInv, TypeOK
<1>7. Alone(p)
  BY <1>1 DEF Alone, History, BillingInv, TypeOK
<1>8. OneRequest(p)'
  <2>1. pc'[p] = "upsert" /\ task'[p] = t
    BY <1>1 DEF BillingInv, TypeOK
  <2> QED
    BY <1>1, <1>2, <1>4, <1>5, <2>1
       DEF OneRequest, InPlace, InOrder, HistoryIsFound, CreditBeforeRecord, NotOverLater
<1> QED
  BY <1>1, <1>6, <1>7, <1>8, QuietKeeps

-----------------------------------------------------------------------------
(* Results.                                                                *)

LEMMA StillKeeps ==
  ASSUME BillingInv, UNCHANGED <<dbVars, pc, task, seen>>, now' \in 0 .. Horizon
  PROVE  BillingInv'
<1>1. UNCHANGED <<sub, subWork, subLock, ledger, keyLock, deliveries, deliveryLock, walletLock, audited>>
      /\ UNCHANGED <<pc, task, seen>> /\ Taken' = Taken
  BY DEF dbVars, Taken
<1>2. TypeOK' /\ Books' /\ RecordedIsCredited'
  BY <1>1 DEF BillingInv, TypeOK, Books, History, RecordedIsCredited
<1>3. ASSUME NEW p \in Requests
      PROVE  OneRequest(p)'
  <2>1. OneRequest(p)
    BY DEF BillingInv
  <2>2. InPlace(p)' /\ InOrder(p)'
    BY <1>1, <2>1 DEF OneRequest, InPlace, InOrder
  <2>3. HistoryIsFound(p)' /\ CreditBeforeRecord(p)' /\ NotOverLater(p)'
    BY <1>1, <2>1 DEF OneRequest, HistoryIsFound, History, CreditBeforeRecord, NotOverLater
  <2> QED
    BY <2>2, <2>3 DEF OneRequest
<1> QED
  BY <1>2, <1>3 DEF BillingInv

LEMMA NextKeeps == BillingInv /\ [Next]_vars => BillingInv'
<1> SUFFICES ASSUME BillingInv, [Next]_vars
             PROVE  BillingInv'
  OBVIOUS
<1>1. CASE Tick
  <2>1. now' \in 0 .. Horizon
    BY <1>1, ConstantsAssumption DEF Tick, BillingInv, TypeOK
  <2> QED
    BY <1>1, <2>1, StillKeeps DEF Tick
<1>2. CASE UNCHANGED vars
  BY <1>2, StillKeeps DEF vars, BillingInv, TypeOK
<1>3. ASSUME NEW p \in Requests, Request(p) \/ Step(p) \/ Abort(p)
      PROVE  BillingInv'
  <2>1. CASE Step(p)
    BY <2>1, DedupKeeps, ReadRowKeeps, WriteRowKeeps, UpsertKeeps, CheckKeysKeeps, InsertKeyKeeps,
       PayInKeeps, LookupKeeps, ExtendFromKeeps, CommitKeeps DEF Step
  <2> QED
    BY <1>3, <2>1, RequestKeeps, RollbackKeeps DEF Abort
<1> QED
  BY <1>1, <1>2, <1>3 DEF Next

\* The inductive invariant holds in every reachable state (subscription/, cloudpayments/, adapty/).
THEOREM BillingInvariant == Spec => []BillingInv
  BY InitKeeps, NextKeeps, PTL DEF Spec

\* The rows, the locks and the requests stay well formed.
THEOREM BillingTyped == Spec => []TypeOK
<1>1. BillingInv => TypeOK
  BY DEF BillingInv
<1> QED
  BY <1>1, BillingInvariant, PTL

\* An Apple period, a pack or a card payment is credited once, through whichever channels it
\* is reported, in whatever order, and under whichever key it was credited before.
THEOREM PurchasesGrantOnce == Spec => []OneGrantPerPurchase
<1>1. ASSUME Books, NEW g \in ledger, NEW h \in ledger, g[2] = h[2],
             g[2] \notin {<<"period", n>> : n \in Unnumbered}
      PROVE  g = h
  <2>1. KnownGrant(g) /\ KnownGrant(h) /\ (g[1] = h[1] => g = h)
    BY <1>1 DEF Books
  <2>2. CASE g = Historical /\ h # Historical
    <3>1. \E n \in Periods : h = << <<"sub-grant", n>>, <<"period", n>> >>
      BY <1>1, <2>1, <2>2 DEF KnownGrant, Historical
    <3>2. h[1] = <<"sub-grant", Original>>
      BY <1>1, <2>2, <3>1 DEF Historical
    <3>3. History
      BY <1>1, <2>2 DEF History, Historical
    <3> QED
      BY <1>1, <3>2, <3>3 DEF Books, Taken
  <2>3. CASE h = Historical /\ g # Historical
    <3>1. \E n \in Periods : g = << <<"sub-grant", n>>, <<"period", n>> >>
      BY <1>1, <2>1, <2>3 DEF KnownGrant, Historical
    <3>2. g[1] = <<"sub-grant", Original>>
      BY <1>1, <2>3, <3>1 DEF Historical
    <3>3. History
      BY <1>1, <2>3 DEF History, Historical
    <3> QED
      BY <1>1, <3>2, <3>3 DEF Books, Taken
  <2>4. CASE g # Historical /\ h # Historical
    BY <1>1, <2>1, <2>4 DEF KnownGrant
  <2> QED
    BY <2>2, <2>3, <2>4
<1>2. BillingInv => OneGrantPerPurchase
  BY <1>1 DEF BillingInv, OneGrantPerPurchase
<1> QED
  BY <1>2, BillingInvariant, PTL

\* What is recorded as delivered or audited was credited.
THEOREM RecordsAreCredited == Spec => []RecordedIsCredited
<1>1. BillingInv => RecordedIsCredited
  BY DEF BillingInv
<1> QED
  BY <1>1, BillingInvariant, PTL

\* Someone at work holds what it needs.
Mover == \E p \in Requests : pc[p] # "idle" /\ Free(Holder(p), p)

\* Requests take their locks in one order, so one of those at work holds what it needs: the
\* one that has come furthest.
THEOREM NoCircle == Spec => []SomebodyMoves
<1>1. ASSUME BillingInv, NEW p \in Requests, pc[p] # "idle"
      PROVE  Mover
  <2>1. ASSUME NEW q \in Requests, pc[q] \in {"read", "check", "lookup", "base", "commit"}
        PROVE  Mover
    BY <2>1 DEF Mover, Holder, Free
  <2>2. CASE walletLock # Nobody
    BY <1>1, <2>1, <2>2 DEF BillingInv, TypeOK, OneRequest, InOrder
  <2>3. ASSUME NEW q \in Requests, pc[q] = "pay"
        PROVE  Mover
    <3>1. CASE walletLock = Nobody
      BY <2>3, <3>1 DEF Mover, Holder, Free
    <3> QED
      BY <2>2, <3>1
  <2>4. ASSUME NEW q \in Requests, pc[q] = "insert"
        PROVE  Mover
    <3>1. Key(task[q]) \in Keys
      BY <1>1, <2>4, KeyOf DEF BillingInv, OneRequest, InPlace
    <3>2. keyLock[Key(task[q])] \in Requests \cup {Nobody}
      BY <1>1, <3>1 DEF BillingInv, TypeOK
    <3>3. CASE keyLock[Key(task[q])] = Nobody
      BY <2>4, <3>3 DEF Mover, Holder, Free
    <3>4. CASE keyLock[Key(task[q])] \in Requests
      BY <1>1, <2>1, <2>3, <3>1, <3>4 DEF BillingInv, OneRequest, InOrder
    <3> QED
      BY <3>2, <3>3, <3>4
  <2>5. CASE subLock # Nobody
    <3>1. subLock \in Requests /\ pc[subLock] \in {"check", "insert", "pay", "commit"}
      BY <1>1, <2>5 DEF BillingInv, TypeOK, OneRequest, InOrder
    <3> QED
      BY <2>1, <2>3, <2>4, <3>1
  <2>6. ASSUME NEW q \in Requests, pc[q] \in {"write", "upsert"}
        PROVE  Mover
    <3>1. CASE subLock = Nobody
      BY <2>6, <3>1 DEF Mover, Holder, Free
    <3> QED
      BY <2>5, <3>1
  <2>7. ASSUME NEW q \in Requests, pc[q] = "dedup"
        PROVE  Mover
    <3>1. Delivery(task[q]) \in Deliveries
      BY <1>1, <2>7, DeliveryOf DEF BillingInv, OneRequest, InPlace
    <3>2. deliveryLock[Delivery(task[q])] \in Requests \cup {Nobody}
      BY <1>1, <3>1 DEF BillingInv, TypeOK
    <3>3. CASE deliveryLock[Delivery(task[q])] = Nobody
      BY <2>7, <3>3 DEF Mover, Holder, Free
    <3>4. CASE deliveryLock[Delivery(task[q])] \in Requests
      <4> DEFINE h == deliveryLock[Delivery(task[q])]
      <4>1. pc[h] \notin {"idle", "dedup"} /\ pc[h] \in Labels
        BY <1>1, <3>1, <3>4 DEF BillingInv, OneRequest, InOrder, TypeOK, Labels
      <4> QED
        BY <2>1, <2>3, <2>4, <2>6, <3>4, <4>1 DEF Labels
    <3> QED
      BY <3>2, <3>3, <3>4
  <2>8. pc[p] \in Labels
    BY <1>1 DEF BillingInv, TypeOK, Labels
  <2> QED
    BY <1>1, <2>1, <2>3, <2>4, <2>6, <2>7, <2>8 DEF Labels
<1>2. BillingInv => SomebodyMoves
  BY <1>1 DEF SomebodyMoves, Mover
<1> QED
  BY <1>2, BillingInvariant, PTL

\* An old period does not undo a newer one that its request had loaded.
THEOREM OldPeriodsRest == Spec => OldPeriodChangesNothing
<1>1. ASSUME BillingInv, [Next]_vars, NEW p \in Requests, pc[p] = "commit", pc'[p] = "idle", sub' # sub,
             task[p].kind \in {"sync"} \cup Adapty, task[p].exp # 0,
             sub.st = "active", sub.exp > task[p].exp, seen[p] = sub
      PROVE  FALSE
  <2>1. PICK q \in Requests : Commit(q)
    <3>1. UNCHANGED vars \/ Tick => sub' = sub
      BY DEF vars, dbVars, Tick
    <3>2. ASSUME NEW q \in Requests, Request(q) \/ Abort(q)
          PROVE  sub' = sub
      BY <3>2 DEF Request, Sync, Webhook, PackWebhook, PackPurchase, CardPayment, CrmGrant, AdminGrant,
                  Cancel, Begin, Abort, Rollback, dbVars
    <3>3. ASSUME NEW q \in Requests, Step(q), ~Commit(q)
          PROVE  sub' = sub
      BY <3>3 DEF Step, Dedup, ReadRow, WriteRow, Upsert, CheckKeys, InsertKey, PayIn, Lookup,
                  ExtendFrom, dbVars
    <3> QED
      BY <1>1, <3>1, <3>2, <3>3 DEF Next
  <2>2. q = p
    BY <1>1, <2>1 DEF Commit, Release, Goto, BillingInv, TypeOK
  <2>3. subLock = p
    BY <1>1, <2>1, <2>2 DEF Commit
  <2>4. ~IsStale(sub, task[p].exp)
    BY <1>1, <2>3 DEF BillingInv, OneRequest, NotOverLater
  <2>5. sub.exp \in Nat /\ task[p].exp \in Nat
    <3>1. task[p] \in Operations /\ sub \in Row
      BY <1>1 DEF BillingInv, TypeOK, OneRequest, InPlace
    <3> QED
      <4>1. task[p].exp \in Nat
        BY <3>1, ExpOf
      <4>2. sub.exp \in Nat
        BY <3>1 DEF Row
      <4> QED
        BY <4>1, <4>2
  <2> QED
    BY <1>1, <2>4, <2>5 DEF IsStale
<1>2. BillingInv /\ [Next]_vars =>
        \A p \in Requests :
          /\ pc[p] = "commit" /\ pc'[p] = "idle" /\ sub' # sub
          /\ task[p].kind \in {"sync"} \cup Adapty /\ task[p].exp # 0
          /\ sub.st = "active" /\ sub.exp > task[p].exp
          => seen[p] # sub
  BY <1>1
<1> QED
  BY <1>2, BillingInvariant, PTL DEF Spec, OldPeriodChangesNothing

=============================================================================
