------------------------------- MODULE Billing -------------------------------
(***************************************************************************)
(* The subscription and the paid credits of one user: the StoreKit sync,   *)
(* the Adapty webhook, token packs, card payments and the operator, every  *)
(* request one transaction at READ COMMITTED.  A request takes its locks   *)
(* in the order delivery record, subscription row, ledger key, wallet row. *)
(* A row loaded through the ORM is written back attribute by attribute:    *)
(* the UPDATE names what differs from the loaded copy.  Times are periods: *)
(* Apple period n runs until n.                                            *)
(***************************************************************************)
EXTENDS Naturals, FiniteSets

CONSTANTS
  Requests,     \* workers, one request at a time each
  Periods,      \* Apple transactions of the subscription, 1..n
  Undated,      \* periods whose webhooks carry no expiry
  Unnumbered,   \* periods whose webhooks carry no transaction_id
  Packs,        \* Apple transactions of token packs
  CardPlans,    \* card payments for a subscription
  CardPacks,    \* card payments for tokens
  Grants,       \* grantIds of the CRM
  AdminGrants,  \* idempotency keys of the admin API
  Horizon,      \* bound: the last instant of the clock
  MaxRequests,  \* bound: requests started
  Nobody

ASSUME ConstantsAssumption ==
  /\ Periods \subseteq Nat \ {0} /\ 1 \in Periods
  /\ Undated \subseteq Periods /\ Unnumbered \subseteq Periods
  /\ Horizon \in Nat /\ MaxRequests \in Nat
  /\ Nobody \notin Requests

VARIABLES
  sub, subWork,    \* the subscriptions row: committed, and as its holder left it
  subLock,
  ledger,          \* committed grants: <<idempotency key, what was paid for>>
  keyLock,         \* uncommitted ledger rows, by key
  deliveries,      \* committed rows of adapty_ and cloudpayments_webhook_events
  deliveryLock,
  walletLock,
  audited,         \* committed crm_subscription_grant audit rows, by grantId
  now,
  pc, task,
  seen,            \* the row a request has loaded
  started

dbVars == <<sub, subWork, subLock, ledger, keyLock, deliveries, deliveryLock, walletLock, audited>>
vars == <<dbVars, now, pc, task, seen, started>>

-----------------------------------------------------------------------------

Row == [st : {"none", "active", "expired"}, plan : {"none", "apple", "card", "manual"},
        exp : Nat, renew : {"unknown", "on", "off"}]

\* expires_at is NULL where exp is 0.
NoRow == [st |-> "none", plan |-> "none", exp |-> 0, renew |-> "unknown"]

Adapty == {"granting", "expiring", "noop"}

Operations ==
  [kind : {"sync"} \cup Adapty, of : Periods, exp : Nat, live : BOOLEAN]
    \cup [kind : {"packApp", "packHook"}, of : Packs, exp : {0}, live : {TRUE}]
    \cup [kind : {"card"}, of : CardPlans \cup CardPacks, exp : Nat, live : {TRUE}]
    \cup [kind : {"crm"}, of : Grants, exp : Nat, live : {TRUE}]
    \cup [kind : {"admin"}, of : AdminGrants, exp : Nat, live : {TRUE}]
    \cup [kind : {"cancel"}, of : {Nobody}, exp : {0}, live : {TRUE}]

Idle == [kind |-> "idle", of |-> Nobody, exp |-> 0, live |-> FALSE]

\* The chain's original_transaction_id is the transaction of its first period.
Original == 1

Hooked(t) == t.kind \in Adapty \cup {"packHook", "card"}
Delivery(t) == <<t.kind, t.of>>

\* The key a request writes its grant under, and what the grant is for.
Key(t) ==
  CASE t.kind = "sync" -> <<"sub-grant", t.of>>
    [] t.kind = "granting" -> IF t.of \in Unnumbered THEN <<"adapty-txn", Original>>
                                                     ELSE <<"sub-grant", t.of>>
    [] t.kind \in {"packApp", "packHook"} -> <<"token-purchase", t.of>>
    [] t.kind = "card" -> <<"cp-txn", t.of>>
    [] t.kind = "crm" -> <<"crm-sub-grant", t.of>>
    [] t.kind = "admin" -> <<"admin-sub-grant", t.of>>

Paid(t) ==
  CASE t.kind \in {"sync", "granting"} -> <<"period", t.of>>
    [] t.kind \in {"packApp", "packHook"} -> <<"pack", t.of>>
    [] t.kind \in {"card", "crm", "admin"} -> <<t.kind, t.of>>

\* Variant: the historical key is not looked for.
CheckedKeysNewOnly(t) == IF t.kind \in {"card", "crm", "admin"} THEN {} ELSE {Key(t)}

\* grant_once looks for these first; card payments and the operator do not look.
CheckedKeys(t) ==
  IF t.kind \in {"card", "crm", "admin"} THEN {}
  ELSE {Key(t)} \cup {<<"adapty-txn", n>> : n \in
                        IF t.kind \in {"sync", "granting"} /\ Key(t)[1] = "sub-grant"
                        THEN {t.of} ELSE {}}

Keys == ({"sub-grant", "adapty-txn"} \X Periods) \cup ({"token-purchase"} \X Packs)
          \cup ({"cp-txn"} \X (CardPlans \cup CardPacks))
          \cup ({"crm-sub-grant"} \X Grants) \cup ({"admin-sub-grant"} \X AdminGrants)
Deliveries == (Adapty \X Periods) \cup ({"packHook"} \X Packs) \cup ({"card"} \X (CardPlans \cup CardPacks))
Taken == {g[1] : g \in ledger}

\* load_policy_state: an active row whose expiry has passed counts as expired.
Subscribed(r) == r.st = "active" /\ (r.exp = 0 \/ r.exp > now)

\* A user who is new, or whose first period was credited under the historical key.
Init ==
  /\ \/ sub = NoRow /\ ledger = {}
     \/ /\ sub = [st |-> "active", plan |-> "apple", exp |-> 1, renew |-> "on"]
        /\ ledger = {<< <<"adapty-txn", 1>>, <<"period", 1>> >>}
  /\ subWork = sub /\ subLock = Nobody
  /\ keyLock = [k \in Keys |-> Nobody]
  /\ deliveries = {} /\ deliveryLock = [d \in Deliveries |-> Nobody]
  /\ walletLock = Nobody
  /\ audited = {}
  /\ now = 0
  /\ pc = [p \in Requests |-> "idle"] /\ task = [p \in Requests |-> Idle]
  /\ seen = [p \in Requests |-> NoRow]
  /\ started = 0

\* A session does not wait for its own locks.
Free(lock, p) == lock \in {Nobody, p}

Goto(p, label) == pc' = [pc EXCEPT ![p] = label]

Freed(locks, p) == [k \in DOMAIN locks |-> IF locks[k] = p THEN Nobody ELSE locks[k]]

Release(p) ==
  /\ subLock' = IF subLock = p THEN Nobody ELSE subLock
  /\ keyLock' = Freed(keyLock, p)
  /\ deliveryLock' = Freed(deliveryLock, p)
  /\ walletLock' = IF walletLock = p THEN Nobody ELSE walletLock
  /\ Goto(p, "idle")
  /\ task' = [task EXCEPT ![p] = Idle]
  /\ seen' = [seen EXCEPT ![p] = NoRow]
  /\ UNCHANGED <<now, started>>

\* Variant: the admin API writes the audit event of the CRM.
CommitAuditingAdmin(p) ==
  /\ pc[p] = "commit"
  /\ sub' = IF subLock = p THEN subWork ELSE sub
  /\ ledger' = ledger \cup {<<k, Paid(task[p])>> : k \in {k \in Keys : keyLock[k] = p}}
  /\ deliveries' = deliveries \cup {d \in Deliveries : deliveryLock[d] = p}
  /\ audited' = IF task[p].kind \in {"crm", "admin"} THEN audited \cup {task[p].of} ELSE audited
  /\ UNCHANGED subWork
  /\ Release(p)

Commit(p) ==
  /\ pc[p] = "commit"
  /\ sub' = IF subLock = p THEN subWork ELSE sub
  /\ ledger' = ledger \cup {<<k, Paid(task[p])>> : k \in {k \in Keys : keyLock[k] = p}}
  /\ deliveries' = deliveries \cup {d \in Deliveries : deliveryLock[d] = p}
  /\ audited' = IF task[p].kind = "crm" THEN audited \cup {task[p].of} ELSE audited
  /\ UNCHANGED subWork
  /\ Release(p)

Rollback(p) ==
  /\ subWork' = IF subLock = p THEN sub ELSE subWork
  /\ UNCHANGED <<sub, ledger, deliveries, audited>>
  /\ Release(p)

\* A crash, a lost connection or a statement that fails: the caller is answered
\* with a 500 and may come again.
Abort(p) == pc[p] # "idle" /\ Rollback(p)

Tick == now < Horizon /\ now' = now + 1 /\ UNCHANGED <<dbVars, pc, task, seen, started>>

-----------------------------------------------------------------------------
(* Requests.                                                               *)

Begin(p, kind, of, exp, live, label) ==
  /\ pc[p] = "idle" /\ started < MaxRequests
  /\ task' = [task EXCEPT ![p] = [kind |-> kind, of |-> of, exp |-> exp, live |-> live]]
  /\ Goto(p, label)
  /\ started' = started + 1
  /\ UNCHANGED <<dbVars, now, seen>>

\* POST /subscription/sync: a revoked or replaced transaction is not live.
Sync(p, n, live) ==
  /\ live => n > now
  /\ Begin(p, "sync", n, n, live, "read")

\* An Adapty event, delivered any number of times and in any order.
Webhook(p, kind, n) ==
  Begin(p, kind, n, IF n \in Undated THEN 0 ELSE n, kind = "granting", "dedup")

PackWebhook(p, x) == Begin(p, "packHook", x, 0, TRUE, "dedup")

\* POST /tokens/purchase is for subscribers.
PackPurchase(p, x) == Subscribed(sub) /\ Begin(p, "packApp", x, 0, TRUE, "check")

\* A card payment the provider has confirmed; its period is counted from now.
CardPayment(p, x) == Begin(p, "card", x, now + 1, TRUE, "dedup")

CrmGrant(p, g) == Begin(p, "crm", g, 0, TRUE, "lookup")

AdminGrant(p, g, exp) == Begin(p, "admin", g, exp, TRUE, "upsert")

\* The provider has confirmed that it cancelled the card subscription.
Cancel(p) == Begin(p, "cancel", Nobody, 0, TRUE, "read")

-----------------------------------------------------------------------------
(* The steps of a transaction.                                             *)

\* What a delivery that is new leads to.
AfterDedup(t) ==
  CASE t.kind \in Adapty -> "read"
    [] t.kind = "packHook" -> "check"
    [] t.kind = "card" -> IF t.of \in CardPlans THEN "upsert" ELSE "insert"

\* Variant: the delivery is recorded in a transaction of its own.
DedupCommitted(p) ==
  LET t == task[p]  d == Delivery(t) IN
  /\ pc[p] = "dedup" /\ Free(deliveryLock[d], p)
  /\ deliveries' = deliveries \cup {d}
  /\ Goto(p, IF d \in deliveries THEN "commit" ELSE AfterDedup(t))
  /\ UNCHANGED <<sub, subWork, subLock, ledger, keyLock, deliveryLock, walletLock, audited,
                 now, task, seen, started>>

\* INSERT .. ON CONFLICT DO NOTHING: waits for an uncommitted twin, and leaves
\* a delivery that is already recorded alone.
Dedup(p) ==
  LET t == task[p]  d == Delivery(t) IN
  /\ pc[p] = "dedup" /\ Free(deliveryLock[d], p)
  /\ IF d \in deliveries
     THEN Goto(p, "commit") /\ UNCHANGED deliveryLock
     ELSE /\ deliveryLock' = [deliveryLock EXCEPT ![d] = p]
          /\ Goto(p, AfterDedup(t))
  /\ UNCHANGED <<sub, subWork, subLock, ledger, keyLock, deliveries, walletLock, audited,
                 now, task, seen, started>>

\* Variant: the balance is read FOR UPDATE together with the row.
ReadRowAndWallet(p) ==
  /\ pc[p] = "read" /\ Free(walletLock, p)
  /\ walletLock' = p
  /\ seen' = [seen EXCEPT ![p] = sub]
  /\ Goto(p, "write")
  /\ UNCHANGED <<sub, subWork, subLock, ledger, keyLock, deliveries, deliveryLock, audited,
                 now, task, started>>

ReadRow(p) ==
  /\ pc[p] = "read"
  /\ seen' = [seen EXCEPT ![p] = sub]
  /\ Goto(p, "write")
  /\ UNCHANGED <<dbVars, now, task, started>>

\* Variant: only the sync looks at the expiry it would overwrite.
IsStaleNever(r, exp) == FALSE

\* is_stale: an earlier period never rewrites a later active one.
IsStale(r, exp) == r.st = "active" /\ r.exp # 0 /\ exp # 0 /\ exp < r.exp

\* The row a store event asks for, given the row the request has loaded.
Wanted(t, r) ==
  CASE t.kind = "sync" ->
         [r EXCEPT !.st = IF t.live THEN "active" ELSE "expired", !.plan = "apple", !.exp = t.exp]
    [] t.kind = "granting" -> [st |-> "active", plan |-> "apple", exp |-> t.exp, renew |-> "on"]
    [] t.kind = "expiring" -> [r EXCEPT !.st = "expired", !.renew = "off"]
    [] t.kind \in {"noop", "cancel"} -> IF r = NoRow THEN r ELSE [r EXCEPT !.renew = "off"]

\* The UPDATE of a loaded row names the attributes that changed, no others.
Merged(loaded, wanted, current) ==
  [f \in DOMAIN current |-> IF wanted[f] = loaded[f] THEN current[f] ELSE wanted[f]]

Credits(t) == t.kind \notin {"expiring", "noop", "cancel"} /\ t.live

\* A loaded row is updated under its lock; where none was loaded the INSERT fails
\* when somebody else has inserted one meanwhile (see Abort).
WriteRow(p) ==
  LET t == task[p]  r == seen[p] IN
  /\ pc[p] = "write"
  /\ \/ /\ \/ IsStale(r, t.exp)
           \/ Wanted(t, r) = r /\ t.kind \in {"noop", "cancel"}
        /\ UNCHANGED <<subWork, subLock>>
     \/ /\ ~IsStale(r, t.exp) /\ Free(subLock, p)
        /\ \/ Wanted(t, r) # r
           \/ t.kind \notin {"noop", "cancel"}
        /\ r = NoRow => sub = NoRow
        /\ subLock' = p
        /\ subWork' = Merged(r, Wanted(t, r), sub)
  /\ Goto(p, IF Credits(t) THEN "check" ELSE "commit")
  /\ UNCHANGED <<sub, ledger, keyLock, deliveries, deliveryLock, walletLock, audited,
                 now, task, seen, started>>

\* INSERT .. ON CONFLICT DO UPDATE: the last one wins, whatever the row says.
Upsert(p) ==
  LET t == task[p] IN
  /\ pc[p] = "upsert" /\ Free(subLock, p)
  /\ subLock' = p
  /\ subWork' = [sub EXCEPT !.st = "active", !.exp = t.exp,
                            !.plan = IF t.kind = "card" THEN "card" ELSE "manual",
                            !.renew = IF t.kind = "card" THEN "on" ELSE @]
  /\ Goto(p, "insert")
  /\ UNCHANGED <<sub, ledger, keyLock, deliveries, deliveryLock, walletLock, audited,
                 now, task, seen, started>>

CheckKeys(p) ==
  /\ pc[p] = "check"
  /\ Goto(p, IF CheckedKeys(task[p]) \cap Taken = {} THEN "insert" ELSE "commit")
  /\ UNCHANGED <<dbVars, now, task, seen, started>>

\* WalletService.grant: a key somebody else has taken meanwhile is "already credited",
\* with the same amount (a replay) or with another (ConflictError, caught by grant_once;
\* a card payment, the CRM and the operator call grant themselves, and lose their
\* transaction to it: see Abort).
InsertKey(p) ==
  LET k == Key(task[p]) IN
  /\ pc[p] = "insert" /\ Free(keyLock[k], p)
  /\ IF k \in Taken
     THEN Goto(p, "commit") /\ UNCHANGED keyLock
     ELSE keyLock' = [keyLock EXCEPT ![k] = p] /\ Goto(p, "pay")
  /\ UNCHANGED <<sub, subWork, subLock, ledger, deliveries, deliveryLock, walletLock, audited,
                 now, task, seen, started>>

PayIn(p) ==
  /\ pc[p] = "pay" /\ Free(walletLock, p)
  /\ walletLock' = p
  /\ Goto(p, "commit")
  /\ UNCHANGED <<sub, subWork, subLock, ledger, keyLock, deliveries, deliveryLock, audited,
                 now, task, seen, started>>

\* The CRM looks for its own audit row, reads the row it will extend, and only
\* then writes.
Lookup(p) ==
  /\ pc[p] = "lookup"
  /\ Goto(p, IF task[p].of \in audited THEN "commit" ELSE "base")
  /\ UNCHANGED <<dbVars, now, task, seen, started>>

ExtendFrom(p) ==
  /\ pc[p] = "base"
  /\ task' = [task EXCEPT ![p].exp =
                 1 + IF sub.st = "active" /\ sub.exp > now THEN sub.exp ELSE now]
  /\ Goto(p, "upsert")
  /\ UNCHANGED <<dbVars, now, seen, started>>

Step(p) == \/ Dedup(p) \/ ReadRow(p) \/ WriteRow(p) \/ Upsert(p) \/ CheckKeys(p)
           \/ InsertKey(p) \/ PayIn(p) \/ Lookup(p) \/ ExtendFrom(p) \/ Commit(p)

Request(p) ==
  \/ \E n \in Periods : \/ \E live \in BOOLEAN : Sync(p, n, live)
                        \/ \E kind \in Adapty : Webhook(p, kind, n)
  \/ \E x \in Packs : PackWebhook(p, x) \/ PackPurchase(p, x)
  \/ \E x \in CardPlans \cup CardPacks : CardPayment(p, x)
  \/ \E g \in Grants : CrmGrant(p, g)
  \/ \E g \in AdminGrants : AdminGrant(p, g, now + 1)
  \/ Cancel(p)

Next == Tick \/ \E p \in Requests : Request(p) \/ Step(p) \/ Abort(p)

Spec == Init /\ [][Next]_vars

-----------------------------------------------------------------------------
(* Properties.                                                             *)

TypeOK ==
  /\ sub \in Row /\ subWork \in Row
  /\ subLock \in Requests \cup {Nobody}
  /\ keyLock \in [Keys -> Requests \cup {Nobody}]
  /\ deliveryLock \in [Deliveries -> Requests \cup {Nobody}]
  /\ walletLock \in Requests \cup {Nobody}
  /\ \A g \in ledger : g[1] \in Keys
  /\ deliveries \subseteq Deliveries /\ audited \subseteq Grants
  /\ now \in 0..Horizon
  /\ pc \in [Requests -> {"idle", "dedup", "read", "write", "upsert", "check", "insert", "pay",
                          "lookup", "base", "commit"}]
  /\ task \in [Requests -> Operations \cup {Idle}]
  /\ seen \in [Requests -> Row]

\* One purchase, one grant: an Apple period, a token pack or a card payment is
\* credited at most once, through whichever channels it is reported, in whatever
\* order, and also where the period was credited under the historical key.  (A
\* period whose webhook names no transaction cannot be linked with its sync.)
OneGrantPerPurchase ==
  \A g, h \in ledger :
    g[2] = h[2] /\ g[2] \notin {<<"period", n>> : n \in Unnumbered} => g = h

\* A delivery that is recorded has been paid out in full: it will not be repeated,
\* so its grant cannot be missing, nor can an operator's grant that is audited.
RecordedIsCredited ==
  /\ \A n \in Periods : <<"granting", n>> \in deliveries =>
       {<<"sub-grant", n>>, <<"adapty-txn", IF n \in Unnumbered THEN Original ELSE n>>}
          \cap Taken # {}
  /\ \A x \in Packs : <<"packHook", x>> \in deliveries => <<"token-purchase", x>> \in Taken
  /\ \A x \in CardPlans \cup CardPacks : <<"card", x>> \in deliveries => <<"cp-txn", x>> \in Taken
  /\ \A g \in Grants : g \in audited => <<"crm-sub-grant", g>> \in Taken

\* Who p waits for.
Holder(p) ==
  CASE pc[p] = "dedup" -> deliveryLock[Delivery(task[p])]
    [] pc[p] = "write" -> IF IsStale(seen[p], task[p].exp) THEN Nobody ELSE subLock
    [] pc[p] = "upsert" -> subLock
    [] pc[p] = "insert" -> keyLock[Key(task[p])]
    [] pc[p] = "pay" -> walletLock
    [] OTHER -> Nobody

\* Requests of different channels about one user never wait for each other in a
\* circle: there is always one that holds what it needs.
SomebodyMoves ==
  (\E p \in Requests : pc[p] # "idle") =>
    \E p \in Requests : pc[p] # "idle" /\ Free(Holder(p), p)

\* An old period does not undo a newer one: a store event that leaves the row with an
\* earlier expiry than it had, or ends it, has not seen the later active period.
OldPeriodChangesNothing ==
  [][\A p \in Requests :
       /\ pc[p] = "commit" /\ pc'[p] = "idle" /\ sub' # sub
       /\ task[p].kind \in {"sync"} \cup Adapty /\ task[p].exp # 0
       /\ sub.st = "active" /\ sub.exp > task[p].exp
       => seen[p] # sub]_vars

\* GRANTING -> active: the request that applied a period and wrote the row has left
\* the row active.
RenewalLeavesActive ==
  [][\A p \in Requests :
       subLock = p /\ <<"granting", task[p].of>> \in deliveries' \ deliveries
       => sub'.st = "active"]_vars

-----------------------------------------------------------------------------
(* The inductive invariant behind the safety properties.                   *)

\* Where a transaction stands says which kinds of request it may be of.
InPlace(p) ==
  /\ pc[p] # "idle" => task[p] \in Operations
  /\ task[p].kind = "granting" => task[p].live
  /\ pc[p] = "dedup" => Hooked(task[p])
  /\ pc[p] \in {"read", "write"} => task[p].kind \in {"sync", "cancel"} \cup Adapty
  /\ pc[p] = "check" => task[p].kind \in {"sync", "granting", "packApp", "packHook"}
  /\ pc[p] \in {"check", "insert", "pay"} => Credits(task[p])
  /\ pc[p] = "upsert" => task[p].kind \in {"card", "crm", "admin"}
  /\ pc[p] \in {"lookup", "base"} => task[p].kind = "crm"

\* A transaction holds what it has come past, for its own request: the delivery, the
\* subscription row, the ledger key and the wallet row are taken in this order.
InOrder(p) ==
  /\ \A d \in Deliveries : deliveryLock[d] = p =>
       d = Delivery(task[p]) /\ pc[p] \notin {"idle", "dedup"}
  /\ subLock = p => pc[p] \in {"check", "insert", "pay", "commit"}
  /\ \A k \in Keys : keyLock[k] = p =>
       /\ k = Key(task[p]) /\ pc[p] \in {"pay", "commit"} /\ Credits(task[p])
       /\ k \notin Taken
  /\ pc[p] = "pay" => \E k \in Keys : keyLock[k] = p
  /\ walletLock = p => pc[p] = "commit"

\* What was credited before keys were named after the period.
Historical == << <<"adapty-txn", Original>>, <<"period", Original>> >>
History == Historical \in ledger /\ Original \notin Unnumbered

\* Who looks for the credit of the first period finds it under the historical key.
HistoryIsFound(p) == History /\ pc[p] = "insert" => Key(task[p]) # <<"sub-grant", Original>>

\* A transaction that is about to record a delivery or an audit event has credited it,
\* or has found it credited.
CreditBeforeRecord(p) ==
  /\ pc[p] = "commit" /\ Credits(task[p])
  /\ task[p].kind = "crm" \/ \E d \in Deliveries : deliveryLock[d] = p
  => \/ (CheckedKeys(task[p]) \cup {Key(task[p])}) \cap Taken # {}
     \/ \E k \in Keys : keyLock[k] = p

\* A store event that has written the row had not loaded a later active period.
NotOverLater(p) ==
  subLock = p /\ task[p].kind \in {"sync"} \cup Adapty => ~IsStale(seen[p], task[p].exp)

OneRequest(p) ==
  InPlace(p) /\ InOrder(p) /\ HistoryIsFound(p) /\ CreditBeforeRecord(p) /\ NotOverLater(p)

KnownGrant(g) ==
  \/ g = Historical
  \/ \E n \in Periods : g = << <<"sub-grant", n>>, <<"period", n>> >>
  \/ \E n \in Unnumbered : g = << <<"adapty-txn", Original>>, <<"period", n>> >>
  \/ \E x \in Packs : g = << <<"token-purchase", x>>, <<"pack", x>> >>
  \/ \E x \in CardPlans \cup CardPacks : g = << <<"cp-txn", x>>, <<"card", x>> >>
  \/ \E x \in Grants : g = << <<"crm-sub-grant", x>>, <<"crm", x>> >>
  \/ \E x \in AdminGrants : g = << <<"admin-sub-grant", x>>, <<"admin", x>> >>

Books ==
  /\ \A g \in ledger : KnownGrant(g)
  /\ \A g, h \in ledger : g[1] = h[1] => g = h
  /\ History => /\ <<"sub-grant", Original>> \notin Taken
                /\ keyLock[<<"sub-grant", Original>>] = Nobody

BillingInv == TypeOK /\ Books /\ RecordedIsCredited /\ \A p \in Requests : OneRequest(p)

=============================================================================
