------------------------- MODULE WalletLedgerProofs -------------------------
(***************************************************************************)
(* Proofs about WalletLedger for any users, keys, amounts, sessions and    *)
(* calls: a call answered as a success is backed by its row for ever, rows *)
(* never change, no balance goes below zero, transactions of one call      *)
(* never wait for each other in a circle, and what is committed is what    *)
(* the wallet of WalletPromise would have done in one step.                *)
(***************************************************************************)
EXTENDS WalletLedger, FiniteSetTheorems, TLAPS

-----------------------------------------------------------------------------
(* The calls.                                                              *)

LEMMA WantedCall ==
  ASSUME NEW c \in Wanted
  PROVE  /\ c.slot \in Slots /\ c.slot[1] \in Users
         /\ c.entry \in Entry /\ c.entry.amount \in Nat /\ c.entry # None
<1>1. c \in Call
  BY WantedAreCalls
<1>2. c.slot \in Slots /\ c.entry \in Entry
  BY <1>1 DEF Call
<1>3. c.slot[1] \in Users
  BY <1>2 DEF Slots
<1>4. c.entry.amount \in Nat
  BY <1>2, ConstantsAssumption DEF Entry
<1>5. c.entry # None
  BY <1>2, NoneIsNoEntry
<1> QED
  BY <1>1, <1>2, <1>3, <1>4, <1>5

\* The call of a session that is in the middle of one.
LEMMA Served ==
  ASSUME TypeOK, Serving, NEW t \in Txs, pc[t] \in {"ensure", "insert", "update"}
  PROVE  /\ call[t] \in Wanted
         /\ SlotOf(t) \in Slots /\ UserOf(t) \in Users
         /\ call[t].entry \in Entry /\ call[t].entry # None
         /\ call[t].entry.amount \in Nat
<1>1. call[t] \in Wanted
  BY DEF TypeOK, Serving
<1> QED
  BY <1>1, WantedCall DEF SlotOf, UserOf

-----------------------------------------------------------------------------
(* A transaction that ends.                                                *)

LEMMA RollbackPreserves ==
  ASSUME IInv, NEW t \in Txs, Rollback(t),
         calls' \in 0..MaxCalls, aborts' \in 0..MaxAborts
  PROVE  IInv'
<1>1. TypeOK'
  <2>1. \A u \in Users : balance'[u] + change'[u] \in Nat
    BY DEF IInv, TypeOK, Rollback, Release
  <2> QED
    BY <2>1 DEF IInv, TypeOK, Rollback, Release, Goto
<1>2. Serving'
  <2> SUFFICES ASSUME NEW x \in Txs, pc'[x] \in {"ensure", "insert", "update"}
               PROVE  /\ call'[x] # None
                      /\ pc'[x] = "update" => keyLock'[call'[x].slot] = x
                                             /\ draft'[call'[x].slot] = call'[x].entry
    BY DEF Serving, SlotOf
  <2>1. x # t /\ pc'[x] = pc[x] /\ call'[x] = call[x]
    BY DEF IInv, TypeOK, Rollback, Release, Goto
  <2>2. SlotOf(x) \in Slots /\ call[x] # None
    BY <2>1, Served DEF IInv, Serving
  <2>3. pc[x] = "update" => keyLock[SlotOf(x)] = x /\ draft[SlotOf(x)] = call[x].entry
    BY DEF IInv, Serving
  <2> QED
    BY <2>1, <2>2, <2>3 DEF Rollback, Release, SlotOf
<1>3. Drafts'
  BY DEF IInv, TypeOK, Drafts, Rollback, Release
<1>4. Backed'
  <2> SUFFICES ASSUME NEW x \in Txs, NEW c \in Wanted, c \in answers'[x]
               PROVE  \/ Backs(ledger[c.slot], c)
                      \/ keyLock'[c.slot] = x /\ Backs(draft'[c.slot], c)
    BY DEF Backed, Rollback
  <2>1. x # t /\ c \in answers[x]
    BY DEF IInv, TypeOK, Rollback, Release
  <2>2. c.slot \in Slots
    BY WantedCall
  <2>3. CASE Backs(ledger[c.slot], c)
    BY <2>3
  <2>4. CASE keyLock[c.slot] = x /\ Backs(draft[c.slot], c)
    BY <2>1, <2>2, <2>4 DEF Rollback, Release
  <2> QED
    BY <2>1, <2>3, <2>4 DEF IInv, Backed
<1>5. AnswersAreBacked'
  BY DEF IInv, AnswersAreBacked, Rollback
<1>6. SingleLocks'
  BY ConstantsAssumption DEF IInv, TypeOK, SingleLocks, Rollback, Release, Goto
<1>7. HasWallet'
  <2> SUFFICES ASSUME NEW x \in Txs, pc'[x] \in {"insert", "update"}
               PROVE  call'[x].slot[1] \in wallets \/ walletLock'[call'[x].slot[1]] = x
    BY DEF HasWallet, Rollback, UserOf
  <2>1. x # t /\ pc'[x] = pc[x] /\ call'[x] = call[x]
    BY DEF IInv, TypeOK, Rollback, Release, Goto
  <2>2. UserOf(x) \in Users /\ (UserOf(x) \in wallets \/ walletLock[UserOf(x)] = x)
    BY <2>1, Served DEF IInv, HasWallet
  <2> QED
    BY <2>1, <2>2 DEF Rollback, Release, UserOf
<1> QED
  BY <1>1, <1>2, <1>3, <1>4, <1>5, <1>6, <1>7 DEF IInv

LEMMA CommitPreserves ==
  ASSUME IInv, NEW t \in Txs, Commit(t)
  PROVE  IInv'
<1>1. TypeOK'
  <2>1. \A u \in Users : balance'[u] \in Nat /\ change'[u] \in Int
                         /\ balance'[u] + change'[u] \in Nat
    BY DEF IInv, TypeOK, Commit, Release
  <2>2. told' \subseteq Wanted
    BY DEF IInv, TypeOK, Commit
  <2> QED
    BY <2>1, <2>2 DEF IInv, TypeOK, Commit, Release, Goto
<1>2. Serving'
  <2> SUFFICES ASSUME NEW x \in Txs, pc'[x] \in {"ensure", "insert", "update"}
               PROVE  /\ call'[x] # None
                      /\ pc'[x] = "update" => keyLock'[call'[x].slot] = x
                                             /\ draft'[call'[x].slot] = call'[x].entry
    BY DEF Serving, SlotOf
  <2>1. x # t /\ pc'[x] = pc[x] /\ call'[x] = call[x]
    BY DEF IInv, TypeOK, Commit, Release, Goto
  <2>2. SlotOf(x) \in Slots /\ call[x] # None
    BY <2>1, Served DEF IInv, Serving
  <2>3. pc[x] = "update" => keyLock[SlotOf(x)] = x /\ draft[SlotOf(x)] = call[x].entry
    BY DEF IInv, Serving
  <2> QED
    BY <2>1, <2>2, <2>3 DEF Commit, Release, SlotOf
<1>3. Drafts'
  BY ConstantsAssumption DEF IInv, TypeOK, Drafts, Commit, Release
\* What was committed under a slot stays.
<1>4. \A s \in Slots : ledger[s] # None => ledger'[s] = ledger[s]
  BY ConstantsAssumption DEF IInv, TypeOK, Drafts, Commit
<1>5. \A c \in Wanted : c \in answers[t] => Backs(ledger'[c.slot], c)
  <2> SUFFICES ASSUME NEW c \in Wanted, c \in answers[t]
               PROVE  Backs(ledger'[c.slot], c)
    OBVIOUS
  <2>1. c.slot \in Slots
    BY WantedCall
  <2>2. CASE Backs(ledger[c.slot], c)
    BY <1>4, <2>1, <2>2 DEF Backs
  <2>3. CASE keyLock[c.slot] = t /\ Backs(draft[c.slot], c)
    BY <2>1, <2>3 DEF Commit
  <2> QED
    BY <2>2, <2>3 DEF IInv, Backed
<1>6. Backed'
  <2> SUFFICES ASSUME NEW x \in Txs, NEW c \in Wanted, c \in answers'[x]
               PROVE  \/ Backs(ledger'[c.slot], c)
                      \/ keyLock'[c.slot] = x /\ Backs(draft'[c.slot], c)
    BY DEF Backed
  <2>1. x # t /\ c \in answers[x]
    BY DEF IInv, TypeOK, Commit, Release
  <2>2. c.slot \in Slots
    BY WantedCall
  <2>3. CASE Backs(ledger[c.slot], c)
    BY <1>4, <2>2, <2>3 DEF Backs
  <2>4. CASE keyLock[c.slot] = x /\ Backs(draft[c.slot], c)
    BY <2>1, <2>2, <2>4 DEF Commit, Release
  <2> QED
    BY <2>1, <2>3, <2>4 DEF IInv, Backed
<1>7. AnswersAreBacked'
  <2> SUFFICES ASSUME NEW c \in told'
               PROVE  /\ ledger'[c.slot] # None
                      /\ ledger'[c.slot].type = c.entry.type
                      /\ ledger'[c.slot].amount = c.entry.amount
    BY DEF AnswersAreBacked
  <2>1. CASE c \in told
    BY <1>4, <2>1, WantedCall DEF IInv, TypeOK, AnswersAreBacked
  <2>2. CASE c \in answers[t]
    BY <1>5, <2>2 DEF IInv, TypeOK, Backs, SamePayload
  <2> QED
    BY <2>1, <2>2 DEF Commit
<1>8. SingleLocks'
  BY ConstantsAssumption DEF IInv, TypeOK, SingleLocks, Commit, Release, Goto
<1>9. HasWallet'
  <2> SUFFICES ASSUME NEW x \in Txs, pc'[x] \in {"insert", "update"}
               PROVE  call'[x].slot[1] \in wallets' \/ walletLock'[call'[x].slot[1]] = x
    BY DEF HasWallet, UserOf
  <2>1. x # t /\ pc'[x] = pc[x] /\ call'[x] = call[x]
    BY DEF IInv, TypeOK, Commit, Release, Goto
  <2>2. UserOf(x) \in Users /\ (UserOf(x) \in wallets \/ walletLock[UserOf(x)] = x)
    BY <2>1, Served DEF IInv, HasWallet
  <2> QED
    BY <2>1, <2>2 DEF Commit, Release, UserOf
<1> QED
  BY <1>1, <1>2, <1>3, <1>6, <1>7, <1>8, <1>9 DEF IInv

-----------------------------------------------------------------------------
(* The statements of a call.                                               *)

LEMMA BeginPreserves ==
  ASSUME IInv, NEW t \in Txs, NEW c \in Wanted, Begin(t, c)
  PROVE  IInv'
<1>1. calls' \in 0..MaxCalls
  BY ConstantsAssumption DEF IInv, TypeOK, Begin
<1>2. TypeOK'
  BY <1>1 DEF IInv, TypeOK, Begin, dbVars, Goto
<1>3. Serving' /\ HasWallet'
  BY WantedAreCalls DEF IInv, TypeOK, Serving, HasWallet, Begin, dbVars, Goto, SlotOf, UserOf
<1>4. Drafts' /\ Backed' /\ AnswersAreBacked'
  BY DEF IInv, Drafts, Backed, AnswersAreBacked, Begin, dbVars
<1>5. SingleLocks'
  BY DEF IInv, TypeOK, SingleLocks, Begin, dbVars, Goto
<1> QED
  BY <1>2, <1>3, <1>4, <1>5 DEF IInv

LEMMA ViewPreserves ==
  ASSUME IInv, NEW t \in Txs, NEW u \in Users, ViewWallet(t, u)
  PROVE  IInv'
<1>1. calls' \in 0..MaxCalls
  BY ConstantsAssumption DEF IInv, TypeOK, ViewWallet
<1>2. TypeOK'
  BY <1>1 DEF IInv, TypeOK, ViewWallet, Goto
<1>3. Serving'
  BY DEF IInv, TypeOK, Serving, ViewWallet, Goto, SlotOf
<1>4. Drafts' /\ Backed' /\ AnswersAreBacked'
  BY DEF IInv, Drafts, Backed, AnswersAreBacked, ViewWallet
<1>5. SingleLocks'
  BY DEF IInv, TypeOK, SingleLocks, ViewWallet, Goto
<1>6. HasWallet'
  BY ConstantsAssumption, Served DEF IInv, TypeOK, HasWallet, ViewWallet, Goto, UserOf
<1> QED
  BY <1>2, <1>3, <1>4, <1>5, <1>6 DEF IInv

LEMMA EnsurePreserves ==
  ASSUME IInv, NEW t \in Txs, EnsureWallet(t)
  PROVE  IInv'
<1>1. UserOf(t) \in Users /\ call[t] \in Wanted
  BY Served DEF IInv, EnsureWallet
<1>2. \A u \in Users : walletLock'[u] # walletLock[u] =>
        u = UserOf(t) /\ u \notin wallets /\ walletLock[u] = Nobody /\ walletLock'[u] = t
  BY <1>1 DEF IInv, TypeOK, EnsureWallet
<1>3. TypeOK'
  BY <1>1 DEF IInv, TypeOK, EnsureWallet, Goto
<1>4. Serving'
  BY <1>1 DEF IInv, TypeOK, Serving, EnsureWallet, Goto, SlotOf
<1>5. Drafts' /\ Backed' /\ AnswersAreBacked'
  BY DEF IInv, Drafts, Backed, AnswersAreBacked, EnsureWallet
<1>6. SingleLocks'
  BY <1>2 DEF IInv, TypeOK, SingleLocks, EnsureWallet, Goto
<1>7. HasWallet'
  <2>1. UserOf(t) \in wallets \/ walletLock'[UserOf(t)] = t
    BY <1>1 DEF IInv, TypeOK, EnsureWallet
  <2>2. ASSUME NEW x \in Txs, x # t, pc[x] \in {"insert", "update"}
        PROVE  UserOf(x) \in wallets \/ walletLock'[UserOf(x)] = x
    BY <1>2, <2>2, Served, ConstantsAssumption DEF IInv, HasWallet
  <2> QED
    BY <2>1, <2>2 DEF IInv, TypeOK, HasWallet, EnsureWallet, Goto, UserOf
<1> QED
  BY <1>3, <1>4, <1>5, <1>6, <1>7 DEF IInv

LEMMA InsertPreserves ==
  ASSUME IInv, NEW t \in Txs, InsertEntry(t)
  PROVE  IInv'
<1>1. SlotOf(t) \in Slots /\ call[t] \in Wanted /\ call[t].entry \in Entry /\ call[t].entry # None
  BY Served DEF IInv, InsertEntry
<1>2. keyLock[SlotOf(t)] = Nobody /\ ledger[SlotOf(t)] = None /\ t # Nobody
  BY ConstantsAssumption DEF InsertEntry
\* Nobody holds the key that is inserted.
<1>3. \A x \in Txs, s \in Slots : keyLock[s] = x => s # SlotOf(t)
  BY <1>2, ConstantsAssumption
<1>4. TypeOK'
  BY <1>1 DEF IInv, TypeOK, InsertEntry, Goto
<1>5. Serving'
  <2>1. keyLock'[SlotOf(t)] = t /\ draft'[SlotOf(t)] = call[t].entry
    BY <1>1 DEF IInv, TypeOK, InsertEntry
  <2>2. ASSUME NEW x \in Txs, x # t, pc[x] = "update"
        PROVE  keyLock'[SlotOf(x)] = x /\ draft'[SlotOf(x)] = call[x].entry
    BY <1>3, <2>2, Served DEF IInv, TypeOK, Serving, InsertEntry
  <2> QED
    BY <1>1, <2>1, <2>2, WantedAreCalls DEF IInv, TypeOK, Serving, InsertEntry, Goto, SlotOf
<1>6. Drafts'
  BY <1>1, <1>2 DEF IInv, TypeOK, Drafts, InsertEntry
<1>7. Backed'
  <2> SUFFICES ASSUME NEW x \in Txs, NEW c \in Wanted, c \in answers[x]
               PROVE  \/ Backs(ledger[c.slot], c)
                      \/ keyLock'[c.slot] = x /\ Backs(draft'[c.slot], c)
    BY DEF Backed, InsertEntry
  <2>1. c.slot \in Slots
    BY WantedCall
  <2> QED
    BY <1>3, <2>1 DEF IInv, TypeOK, Backed, InsertEntry
<1>8. AnswersAreBacked'
  BY DEF IInv, AnswersAreBacked, InsertEntry
<1>9. SingleLocks'
  BY <1>1 DEF IInv, TypeOK, SingleLocks, InsertEntry, Goto
<1>10. HasWallet'
  BY DEF IInv, TypeOK, HasWallet, InsertEntry, Goto, UserOf
<1> QED
  BY <1>4, <1>5, <1>6, <1>7, <1>8, <1>9, <1>10 DEF IInv

\* A step after which t is at "answered", with the call it has served added to its
\* answers or not, and no table touched.
LEMMA AnsweredPreserves ==
  ASSUME IInv, NEW t \in Txs, pc[t] = "insert", Goto(t, "answered"),
         UNCHANGED <<dbVars, call, told, calls, aborts>>,
         \/ UNCHANGED answers
         \/ Answer(t) /\ \/ Backs(ledger[SlotOf(t)], call[t])
                         \/ keyLock[SlotOf(t)] = t /\ Backs(draft[SlotOf(t)], call[t])
  PROVE  IInv'
<1>1. SlotOf(t) \in Slots /\ call[t] \in Wanted
  BY Served DEF IInv
<1>2. TypeOK'
  BY <1>1 DEF IInv, TypeOK, dbVars, Goto, Answer
<1>3. Serving' /\ HasWallet' /\ SingleLocks'
  BY DEF IInv, TypeOK, Serving, HasWallet, SingleLocks, dbVars, Goto, SlotOf, UserOf
<1>4. Drafts' /\ AnswersAreBacked'
  BY DEF IInv, Drafts, AnswersAreBacked, dbVars
<1>5. Backed'
  <2> SUFFICES ASSUME NEW x \in Txs, NEW c \in Wanted, c \in answers'[x]
               PROVE  \/ Backs(ledger[c.slot], c)
                      \/ keyLock[c.slot] = x /\ Backs(draft[c.slot], c)
    BY DEF Backed, dbVars
  <2>1. CASE c \in answers[x]
    BY <2>1 DEF IInv, Backed
  <2>2. CASE c \notin answers[x]
    <3>1. x = t /\ c = call[t] /\ Answer(t)
      BY <2>2 DEF IInv, TypeOK, Answer
    <3> QED
      BY <2>2, <3>1 DEF SlotOf
  <2> QED
    BY <2>1, <2>2
<1> QED
  BY <1>2, <1>3, <1>4, <1>5 DEF IInv

LEMMA ReplayPreserves ==
  ASSUME IInv, NEW t \in Txs, Replay(t)
  PROVE  IInv'
<1>1. SlotOf(t) \in Slots /\ call[t] \in Wanted
  BY Served DEF IInv, Replay
<1>2. CASE keyLock[SlotOf(t)] = t
  <2>1. Backs(draft[SlotOf(t)], call[t])
    BY <1>1, <1>2, ConstantsAssumption DEF IInv, Drafts, Backs, Replay, Seen
  <2> QED
    BY <1>2, <2>1, AnsweredPreserves DEF Replay
<1>3. CASE ledger[SlotOf(t)] # None
  <2>1. keyLock[SlotOf(t)] = Nobody
    BY <1>1, <1>3 DEF IInv, Drafts
  <2>2. Backs(ledger[SlotOf(t)], call[t])
    BY <1>3, <2>1 DEF Backs, Replay, Seen
  <2> QED
    BY <2>2, AnsweredPreserves DEF Replay
<1> QED
  BY <1>2, <1>3 DEF Replay, Found

LEMMA ConflictPreserves ==
  ASSUME IInv, NEW t \in Txs, Conflict(t)
  PROVE  IInv'
<1>1. calls' \in 0..MaxCalls /\ aborts' \in 0..MaxAborts
  BY DEF IInv, TypeOK, Conflict
<1>2. CASE Rollback(t)
  BY <1>1, <1>2, RollbackPreserves
<1>3. CASE Goto(t, "answered") /\ UNCHANGED <<dbVars, call, answers, told>>
  BY <1>3, AnsweredPreserves DEF Conflict
<1> QED
  BY <1>2, <1>3 DEF Conflict

LEMMA UpdatePreserves ==
  ASSUME IInv, NEW t \in Txs, UpdateBalance(t)
  PROVE  IInv'
<1> DEFINE u == UserOf(t)
           e == call[t].entry
<1>1. SlotOf(t) \in Slots /\ u \in Users /\ call[t] \in Wanted /\ e \in Entry /\ e.amount \in Nat
  BY Served DEF IInv, UpdateBalance
<1>2. Signed(e) \in Int /\ (e.type = "debit" => Signed(e) = -e.amount)
      /\ (e.type # "debit" => Signed(e) = e.amount)
  BY <1>1 DEF Signed, Entry
<1>3. balance[u] \in Nat /\ change[u] \in Int /\ balance[u] + change[u] \in Nat
  BY <1>1 DEF IInv, TypeOK
<1>4. change[u] + Signed(e) \in Int /\ balance[u] + (change[u] + Signed(e)) \in Nat
  <2>1. CASE e.type = "debit"
    <3>1. balance[u] + change[u] >= e.amount
      BY <2>1 DEF UpdateBalance, Covers
    <3> HIDE DEF u, e
    <3> QED
      BY <1>1, <1>2, <1>3, <2>1, <3>1
  <2>2. CASE e.type # "debit"
    <3> HIDE DEF u, e
    <3> QED
      BY <1>1, <1>2, <1>3, <2>2
  <2> QED
    BY <2>1, <2>2
<1>5. /\ change' = [change EXCEPT ![u] = change[u] + Signed(e)]
      /\ walletLock' = [walletLock EXCEPT ![u] = t]
      /\ walletLock[u] \in {Nobody, t}
  BY <1>1 DEF IInv, TypeOK, UpdateBalance, MayUpdate
<1>6. TypeOK'
  <2>1. change' \in [Users -> Int] /\ \A v \in Users : balance[v] + change'[v] \in Nat
    <3> HIDE DEF u, e
    <3> QED
      BY <1>1, <1>4, <1>5 DEF IInv, TypeOK
  <2>2. answers' \in [Txs -> SUBSET Wanted]
    BY <1>1 DEF IInv, TypeOK, UpdateBalance, Answer
  <2>3. walletLock' \in [Users -> Txs \cup {Nobody}]
    BY <1>1, <1>5 DEF IInv, TypeOK
  <2>4. pc' \in [Txs -> {"idle", "ensure", "insert", "update", "answered"}]
    BY <1>1 DEF IInv, TypeOK, UpdateBalance, Goto
  <2>5. UNCHANGED <<wallets, balance, ledger, keyLock, draft, call, told, calls, aborts>>
    BY <1>1 DEF UpdateBalance
  <2> QED
    BY <2>1, <2>2, <2>3, <2>4, <2>5 DEF IInv, TypeOK
<1>7. Serving'
  BY DEF IInv, TypeOK, Serving, UpdateBalance, Goto, SlotOf
<1>8. Drafts' /\ AnswersAreBacked'
  BY DEF IInv, Drafts, AnswersAreBacked, UpdateBalance
<1>9. Backed'
  <2> SUFFICES ASSUME NEW x \in Txs, NEW c \in Wanted, c \in answers'[x]
               PROVE  \/ Backs(ledger[c.slot], c)
                      \/ keyLock[c.slot] = x /\ Backs(draft[c.slot], c)
    BY DEF Backed, UpdateBalance
  <2>1. CASE c \in answers[x]
    BY <2>1 DEF IInv, Backed
  <2>2. CASE c \notin answers[x]
    <3>1. x = t /\ c = call[t]
      BY <2>2 DEF IInv, TypeOK, UpdateBalance, Answer
    <3>2. keyLock[SlotOf(t)] = t /\ draft[SlotOf(t)] = call[t].entry
      BY DEF IInv, Serving, UpdateBalance
    <3> QED
      BY <3>1, <3>2, WantedCall DEF Backs, SamePayload, SlotOf
  <2> QED
    BY <2>1, <2>2
<1>10. SingleLocks'
  BY <1>1, <1>5 DEF IInv, TypeOK, SingleLocks, UpdateBalance, Goto
<1>11. HasWallet'
  <2>1. ASSUME NEW x \in Txs, x # t, pc[x] \in {"insert", "update"}
        PROVE  UserOf(x) \in wallets \/ walletLock'[UserOf(x)] = x
    BY <1>1, <1>5, <2>1, Served, ConstantsAssumption DEF IInv, TypeOK, HasWallet
  <2> QED
    BY <2>1 DEF IInv, TypeOK, HasWallet, UpdateBalance, Goto, UserOf
<1> QED
  BY <1>6, <1>7, <1>8, <1>9, <1>10, <1>11 DEF IInv

-----------------------------------------------------------------------------
(* The invariant.                                                          *)

LEMMA InitIInv == Init => IInv
<1> SUFFICES ASSUME Init
             PROVE  IInv
  OBVIOUS
<1>1. TypeOK
  BY ConstantsAssumption DEF Init, TypeOK
<1>2. Serving /\ Drafts /\ Backed /\ AnswersAreBacked /\ HasWallet
  BY DEF Init, Serving, Drafts, Backed, AnswersAreBacked, HasWallet
<1>3. SingleLocks
  BY ConstantsAssumption DEF Init, SingleLocks
<1> QED
  BY <1>1, <1>2, <1>3 DEF IInv

LEMMA NextIInv == IInv /\ [Next]_vars => IInv'
<1> SUFFICES ASSUME IInv, [Next]_vars
             PROVE  IInv'
  OBVIOUS
<1>1. ASSUME NEW t \in Txs, NEW c \in Wanted, Begin(t, c)
      PROVE  IInv'
  BY <1>1, BeginPreserves
<1>2. ASSUME NEW t \in Txs, NEW u \in Users, ViewWallet(t, u)
      PROVE  IInv'
  BY <1>2, ViewPreserves
<1>3. ASSUME NEW t \in Txs, Refuse(t) \/ Insufficient(t) \/ DeadlockVictim(t)
      PROVE  IInv'
  BY <1>3, RollbackPreserves DEF Refuse, Insufficient, DeadlockVictim, IInv, TypeOK
<1>4. ASSUME NEW t \in Txs, Abort(t)
      PROVE  IInv'
  <2>1. calls' \in 0..MaxCalls /\ aborts' \in 0..MaxAborts
    BY <1>4, ConstantsAssumption DEF IInv, TypeOK, Abort
  <2> QED
    BY <1>4, <2>1, RollbackPreserves DEF Abort
<1>5. ASSUME NEW t \in Txs, EnsureWallet(t)
      PROVE  IInv'
  BY <1>5, EnsurePreserves
<1>6. ASSUME NEW t \in Txs, InsertEntry(t)
      PROVE  IInv'
  BY <1>6, InsertPreserves
<1>7. ASSUME NEW t \in Txs, Replay(t) \/ Conflict(t)
      PROVE  IInv'
  BY <1>7, ReplayPreserves, ConflictPreserves
<1>8. ASSUME NEW t \in Txs, UpdateBalance(t)
      PROVE  IInv'
  BY <1>8, UpdatePreserves
<1>9. ASSUME NEW t \in Txs, Commit(t)
      PROVE  IInv'
  BY <1>9, CommitPreserves
<1>10. CASE UNCHANGED vars
  BY <1>10 DEF IInv, TypeOK, Serving, Drafts, Backed, Backs, AnswersAreBacked, SingleLocks,
               HasWallet, SlotOf, UserOf, vars, dbVars
<1> QED
  BY <1>1, <1>2, <1>3, <1>4, <1>5, <1>6, <1>7, <1>8, <1>9, <1>10 DEF Next

\* The inductive invariant holds in every reachable state (wallet/service.py).
THEOREM Invariant == Spec => []IInv
  BY InitIInv, NextIInv, PTL DEF Spec

\* Types, and no balance below zero, committed or about to be.
THEOREM TypeCorrect == Spec => []TypeOK
<1>1. IInv => TypeOK
  BY DEF IInv
<1> QED
  BY <1>1, Invariant, PTL

\* A success the client was told of is backed by a ledger row of its type and amount.
THEOREM SuccessesAreBacked == Spec => []AnswersAreBacked
<1>1. IInv => AnswersAreBacked
  BY DEF IInv
<1> QED
  BY <1>1, Invariant, PTL

-----------------------------------------------------------------------------
(* What the invariant implies.                                             *)

\* Only a commit writes the committed ledger, and only under keys it holds.
LEMMA LedgerStep == IInv /\ [Next]_vars =>
                      \A s \in Slots : ledger[s] # None => ledger'[s] = ledger[s]
<1> SUFFICES ASSUME IInv, [Next]_vars
             PROVE  \A s \in Slots : ledger[s] # None => ledger'[s] = ledger[s]
  OBVIOUS
<1>1. ASSUME NEW t \in Txs, Commit(t)
      PROVE  \A s \in Slots : ledger[s] # None => ledger'[s] = ledger[s]
  BY <1>1, ConstantsAssumption DEF IInv, TypeOK, Drafts, Commit
<1>2. ASSUME NEW t \in Txs, ~Commit(t),
             \/ \E c \in Wanted : Begin(t, c)
             \/ \E u \in Users : ViewWallet(t, u)
             \/ Refuse(t) \/ EnsureWallet(t) \/ InsertEntry(t) \/ Replay(t) \/ Conflict(t)
             \/ UpdateBalance(t) \/ Insufficient(t) \/ Abort(t) \/ DeadlockVictim(t)
      PROVE  UNCHANGED ledger
  BY <1>2 DEF Begin, ViewWallet, Refuse, EnsureWallet, InsertEntry, Replay, Conflict,
              UpdateBalance, Insufficient, Abort, DeadlockVictim, Rollback, dbVars
<1>3. CASE UNCHANGED vars
  BY <1>3 DEF vars, dbVars
<1> QED
  BY <1>1, <1>2, <1>3 DEF Next

\* Ledger rows are never changed or removed.
THEOREM LedgerIsImmutable ==
  Spec => [][\A s \in Slots : ledger[s] # None => ledger'[s] = ledger[s]]_vars
  BY Invariant, LedgerStep, PTL DEF Spec

\* The session that another one of one call waits for has something t0 wants.
LEMMA Blocking ==
  ASSUME IInv, NEW t0 \in Txs \ Batchers, NEW t \in Txs \ Batchers, t \in Blockers(t0)
  PROVE  /\ pc[t] \notin {"idle", "ensure"}
         /\ pc[t0] \in {"ensure", "insert", "update"}
         /\ pc[t0] = "insert" => pc[t] # "insert"
         /\ pc[t0] = "update" => pc[t] \notin {"insert", "update"}
<1>1. pc[t0] \in {"ensure", "insert", "update"} /\ t # t0
  BY DEF Blockers
<1>2. SlotOf(t0) \in Slots /\ UserOf(t0) \in Users
  BY <1>1, Served DEF IInv
<1>3. CASE pc[t0] = "ensure"
  <2>1. walletLock[UserOf(t0)] = t
    BY <1>3 DEF Blockers
  <2> QED
    BY <1>2, <1>3, <2>1 DEF IInv, SingleLocks
<1>4. CASE pc[t0] = "insert"
  <2>1. keyLock[SlotOf(t0)] = t
    BY <1>4 DEF Blockers
  <2> QED
    BY <1>2, <1>4, <2>1 DEF IInv, SingleLocks
<1>5. CASE pc[t0] = "update"
  <2>1. walletLock[UserOf(t0)] = t
    BY <1>5 DEF Blockers
  <2>2. UserOf(t0) \in wallets
    BY <1>1, <1>5, <2>1 DEF IInv, HasWallet
  <2> QED
    BY <1>2, <1>5, <2>1, <2>2 DEF IInv, SingleLocks
<1> QED
  BY <1>1, <1>3, <1>4, <1>5

\* No set of one-call transactions waits in a circle: who is waited for is further in
\* its call than the waiter, or waits for nothing.
LEMMA NoCycle == IInv => SingleCallsNeverDeadlock
<1> SUFFICES ASSUME IInv, NEW S \in SUBSET (Txs \ Batchers), LockCycle(S)
             PROVE  FALSE
  BY DEF SingleCallsNeverDeadlock
<1>1. \A t \in S : \E t0 \in S : t \in Blockers(t0)
  BY DEF LockCycle
<1>2. PICK t \in S : TRUE
  BY DEF LockCycle
<1>3. PICK t0 \in S : t \in Blockers(t0)
  BY <1>1
<1>4. PICK t1 \in S : t0 \in Blockers(t1)
  BY <1>1
<1>5. PICK t2 \in S : t1 \in Blockers(t2)
  BY <1>1
<1>6. PICK t3 \in S : t2 \in Blockers(t3)
  BY <1>1
\* t0 waits and is waited for: it is at the second or the third statement.
<1>7. pc[t0] \in {"insert", "update"} /\ pc[t1] \in {"insert", "update"}
      /\ pc[t2] \in {"insert", "update"}
  BY <1>3, <1>4, <1>5, <1>6, Blocking
<1> QED
  BY <1>4, <1>5, <1>7, Blocking

\* Transactions of one call never deadlock.
THEOREM SingleCallsAreSafe == Spec => []SingleCallsNeverDeadlock
  BY Invariant, NoCycle, PTL

-----------------------------------------------------------------------------
(* Sums over finite sets.  SumFunctionOnSet is a fold; the lemmas unfold it   *)
(* once and then speak of its value by an induction over the subsets of a    *)
(* finite set, which is a set of good ones here and no predicate.            *)

First(s) == CHOOSE x \in s : TRUE
Rest(s) == s \ {First(s)}
IsIter(f, S, g) ==
  g = [s \in SUBSET S |-> IF s = {} THEN 0 ELSE f[First(s)] + g[Rest(s)]]
Iter(f, S) == CHOOSE g : IsIter(f, S, g)

\* The library's sum is the iteration over the subsets of its index set.
LEMMA SumIsIter == ASSUME NEW f, NEW S PROVE SumFunctionOnSet(f, S) = Iter(f, S)[S]
  BY Zenon DEF SumFunctionOnSet, FoldFunctionOnSet, MapThenFoldSet, Iter, IsIter, First, Rest

\* What is left of a set without its first element is a smaller set.
LEMMA FirstIn ==
  ASSUME NEW S, S # {}
  PROVE  First(S) \in S /\ Rest(S) \in SUBSET S /\ Rest(S) # S
<1>1. First(S) \in S
  BY Zenon DEF First
<1> QED
  BY <1>1 DEF Rest

\* A set of subsets of a finite set has a smallest one.
LEMMA Smallest ==
  ASSUME NEW S, IsFiniteSet(S), NEW Odd \in SUBSET SUBSET S, Odd # {}
  PROVE  \E T \in Odd : \A U \in SUBSET T : U # T => U \notin Odd
<1>1. Odd \subseteq FiniteSubsetsOf(S)
  BY FS_Subset DEF FiniteSubsetsOf
<1>2. \E T \in Odd : \A U \in Odd : ~ (<<U, T>> \in StrictSubsetOrdering(S))
  BY <1>1, FS_StrictSubsetOrderingWellFounded, WFMin, Zenon
<1> QED
  BY <1>2 DEF StrictSubsetOrdering

\* A set of subsets that a subset joins as soon as all smaller ones are there is full.
LEMMA SubsetInduction ==
  ASSUME NEW S, IsFiniteSet(S), NEW Good,
         \A T \in SUBSET S : (\A U \in SUBSET T : U # T => U \in Good) => T \in Good
  PROVE  \A T \in SUBSET S : T \in Good
<1> DEFINE Odd == (SUBSET S) \ Good
<1>1. Odd \in SUBSET SUBSET S
  OBVIOUS
<1>2. Odd = {} \/ \E T \in Odd : \A U \in SUBSET T : U # T => U \notin Odd
  <2> HIDE DEF Odd
  <2> QED
    BY <1>1, Smallest
<1> QED
  BY <1>2

\* Two iterations agree where both are defined.
LEMMA Coherent ==
  ASSUME NEW S, IsFiniteSet(S), NEW f, NEW A \in SUBSET S, NEW B \in SUBSET S,
         NEW g, IsIter(f, A, g), NEW h, IsIter(f, B, h), NEW T \in SUBSET (A \cap B)
  PROVE  g[T] = h[T]
<1> DEFINE Good == {U \in SUBSET (A \cap B) : g[U] = h[U]}
<1>1. ASSUME NEW U \in SUBSET (A \cap B), \A V \in SUBSET U : V # U => V \in Good
      PROVE  U \in Good
  <2>1. CASE U = {}
    BY <2>1 DEF IsIter
  <2>2. CASE U # {}
    <3>1. Rest(U) \in Good /\ U \in SUBSET A /\ U \in SUBSET B
      BY <1>1, <2>2, FirstIn
    <3>2. g[U] = f[First(U)] + g[Rest(U)] /\ h[U] = f[First(U)] + h[Rest(U)]
      BY <2>2, <3>1 DEF IsIter
    <3> QED
      BY <3>1, <3>2
  <2> QED
    BY <2>1, <2>2
<1>2. IsFiniteSet(A \cap B)
  BY FS_Subset
<1>3. \A U \in SUBSET (A \cap B) : U \in Good
  <2> DEFINE Both == A \cap B
  <2>1. \A U \in SUBSET Both : (\A V \in SUBSET U : V # U => V \in Good) => U \in Good
    BY <1>1
  <2>2. IsFiniteSet(Both)
    BY <1>2
  <2> HIDE DEF Good, Both
  <2>3. \A U \in SUBSET Both : U \in Good
    BY <2>1, <2>2, SubsetInduction
  <2> QED
    BY <2>3 DEF Both
<1> QED
  BY <1>3

\* There is an iteration over every finite set.
LEMMA IterExists ==
  ASSUME NEW f, NEW S, IsFiniteSet(S)
  PROVE  IsIter(f, S, Iter(f, S))
<1> DEFINE Good == {T \in SUBSET S : IsIter(f, T, Iter(f, T))}
<1>1. ASSUME NEW T \in SUBSET S, \A U \in SUBSET T : U # T => U \in Good
      PROVE  T \in Good
  <2> DEFINE h == [s \in SUBSET T |->
                     IF s = {} THEN 0 ELSE f[First(s)] + Iter(f, Rest(s))[Rest(s)]]
  <2>1. ASSUME NEW s \in SUBSET T, s # {}
        PROVE  h[Rest(s)] = Iter(f, Rest(s))[Rest(s)]
    <3>1. Rest(s) \in SUBSET T /\ Rest(s) # T
      BY <2>1, FirstIn
    <3>2. IsIter(f, Rest(s), Iter(f, Rest(s)))
      BY <1>1, <3>1
    <3>3. CASE Rest(s) = {}
      BY <3>1, <3>2, <3>3 DEF IsIter
    <3>4. CASE Rest(s) # {}
      <4> DEFINE V == Rest(s)
                 W == Rest(V)
      <4>1. W \in SUBSET V /\ W \in SUBSET T /\ W # T
        BY <3>1, <3>4, FirstIn
      <4>2. IsIter(f, V, Iter(f, V)) /\ IsIter(f, W, Iter(f, W))
        BY <1>1, <3>2, <4>1
      <4>3. IsFiniteSet(T) /\ V \in SUBSET T /\ W \in SUBSET (V \cap W)
        BY <3>1, <4>1, FS_Subset
      <4>4. Iter(f, V)[W] = Iter(f, W)[W]
        <5> HIDE DEF V, W
        <5> QED
          BY <4>1, <4>2, <4>3, Coherent
      <4>5. Iter(f, V)[V] = f[First(V)] + Iter(f, V)[W]
        BY <3>2, <3>4 DEF IsIter
      <4>6. h[V] = f[First(V)] + Iter(f, W)[W]
        BY <3>1, <3>4
      <4> QED
        BY <4>4, <4>5, <4>6
    <3> QED
      BY <3>3, <3>4
  <2>2. IsIter(f, T, h)
    BY <2>1 DEF IsIter
  <2>3. IsIter(f, T, Iter(f, T))
    <3> HIDE DEF h
    <3> QED
      BY <2>2, Zenon DEF Iter
  <2> QED
    BY <2>3
<1>2. \A T \in SUBSET S : T \in Good
  <2> HIDE DEF Good
  <2> QED
    BY <1>1, SubsetInduction
<1> QED
  BY <1>2

\* The sum over nothing is zero.
LEMMA SumEmpty == ASSUME NEW f PROVE SumFunctionOnSet(f, {}) = 0
<1>1. IsIter(f, {}, Iter(f, {}))
  BY IterExists, FS_EmptySet
<1> QED
  BY <1>1, SumIsIter DEF IsIter

\* The sum takes its first element first.
LEMMA SumFirst ==
  ASSUME NEW f, NEW S, IsFiniteSet(S), S # {}
  PROVE  SumFunctionOnSet(f, S) = f[First(S)] + SumFunctionOnSet(f, Rest(S))
<1>1. IsFiniteSet(Rest(S)) /\ Rest(S) \in SUBSET S
  BY FirstIn, FS_Subset
<1>2. IsIter(f, S, Iter(f, S)) /\ IsIter(f, Rest(S), Iter(f, Rest(S)))
  BY <1>1, IterExists
<1>3. Iter(f, S)[S] = f[First(S)] + Iter(f, S)[Rest(S)]
  BY <1>2 DEF IsIter
<1>4. Rest(S) \in SUBSET (S \cap Rest(S)) /\ S \in SUBSET S
  BY <1>1
<1>5. Iter(f, S)[Rest(S)] = Iter(f, Rest(S))[Rest(S)]
  BY <1>1, <1>2, <1>4, Coherent
<1> QED
  BY <1>3, <1>5, SumIsIter

\* A sum of integers is one.
LEMMA SumIsInt ==
  ASSUME NEW f, NEW S, IsFiniteSet(S), \A x \in S : f[x] \in Int
  PROVE  SumFunctionOnSet(f, S) \in Int
<1> DEFINE Good == {T \in SUBSET S : SumFunctionOnSet(f, T) \in Int}
<1>1. ASSUME NEW T \in SUBSET S, \A U \in SUBSET T : U # T => U \in Good
      PROVE  T \in Good
  <2>1. CASE T = {}
    BY <2>1, SumEmpty
  <2>2. CASE T # {}
    <3>1. First(T) \in S /\ SumFunctionOnSet(f, Rest(T)) \in Int /\ IsFiniteSet(T)
      BY <1>1, <2>2, FirstIn, FS_Subset
    <3>2. SumFunctionOnSet(f, T) = f[First(T)] + SumFunctionOnSet(f, Rest(T))
      BY <2>2, <3>1, SumFirst
    <3> QED
      BY <3>1, <3>2
  <2> QED
    BY <2>1, <2>2
<1>2. \A T \in SUBSET S : T \in Good
  <2> HIDE DEF Good
  <2> QED
    BY <1>1, SubsetInduction
<1> QED
  BY <1>2

\* Functions that agree on a set have the same sum over it.
LEMMA SumEqual ==
  ASSUME NEW f, NEW g, NEW S, IsFiniteSet(S), \A x \in S : f[x] = g[x]
  PROVE  SumFunctionOnSet(f, S) = SumFunctionOnSet(g, S)
<1> DEFINE Good == {T \in SUBSET S : SumFunctionOnSet(f, T) = SumFunctionOnSet(g, T)}
<1>1. ASSUME NEW T \in SUBSET S, \A U \in SUBSET T : U # T => U \in Good
      PROVE  T \in Good
  <2>1. CASE T = {}
    BY <2>1, SumEmpty
  <2>2. CASE T # {}
    <3>1. /\ First(T) \in S /\ IsFiniteSet(T)
          /\ SumFunctionOnSet(f, Rest(T)) = SumFunctionOnSet(g, Rest(T))
      BY <1>1, <2>2, FirstIn, FS_Subset
    <3>2. SumFunctionOnSet(f, T) = f[First(T)] + SumFunctionOnSet(f, Rest(T))
      BY <2>2, <3>1, SumFirst
    <3>3. SumFunctionOnSet(g, T) = g[First(T)] + SumFunctionOnSet(g, Rest(T))
      BY <2>2, <3>1, SumFirst
    <3> QED
      BY <3>1, <3>2, <3>3
  <2> QED
    BY <2>1, <2>2
<1>2. \A T \in SUBSET S : T \in Good
  <2> HIDE DEF Good
  <2> QED
    BY <1>1, SubsetInduction
<1> QED
  BY <1>2

\* Any element of the set can be taken first.
LEMMA SumRemove ==
  ASSUME NEW f, NEW S, IsFiniteSet(S), \A x \in S : f[x] \in Int, NEW e \in S
  PROVE  SumFunctionOnSet(f, S) = f[e] + SumFunctionOnSet(f, S \ {e})
<1> DEFINE Good == {T \in SUBSET S : \A x \in T :
                      SumFunctionOnSet(f, T) = f[x] + SumFunctionOnSet(f, T \ {x})}
<1>1. ASSUME NEW T \in SUBSET S, \A U \in SUBSET T : U # T => U \in Good
      PROVE  T \in Good
  <2> SUFFICES ASSUME NEW x \in T
               PROVE  SumFunctionOnSet(f, T) = f[x] + SumFunctionOnSet(f, T \ {x})
    OBVIOUS
  <2>1. First(T) \in T /\ Rest(T) = T \ {First(T)} /\ IsFiniteSet(T)
    BY FirstIn, FS_Subset DEF Rest
  <2>2. SumFunctionOnSet(f, T) = f[First(T)] + SumFunctionOnSet(f, T \ {First(T)})
    BY <2>1, SumFirst
  <2>3. CASE x = First(T)
    BY <2>2, <2>3
  <2>4. CASE x # First(T)
    <3> DEFINE c == First(T)
               Both == T \ {x, c}
    <3>1. T \ {c} \in Good /\ x \in T \ {c} /\ (T \ {c}) \ {x} = Both
      BY <1>1, <2>1, <2>4
    <3>2. T \ {x} \in Good /\ c \in T \ {x} /\ (T \ {x}) \ {c} = Both
      BY <1>1, <2>1, <2>4
    <3>3. SumFunctionOnSet(f, T \ {c}) = f[x] + SumFunctionOnSet(f, Both)
      BY <3>1
    <3>4. SumFunctionOnSet(f, T \ {x}) = f[c] + SumFunctionOnSet(f, Both)
      BY <3>2
    <3>5. IsFiniteSet(Both) /\ \A y \in Both : f[y] \in Int
      BY <2>1, FS_Subset
    <3>6. SumFunctionOnSet(f, Both) \in Int
      <4> HIDE DEF Both
      <4> QED
        BY <3>5, SumIsInt
    <3>7. f[c] \in Int /\ f[x] \in Int
      BY <2>1
    <3> QED
      BY <2>2, <3>3, <3>4, <3>6, <3>7
  <2> QED
    BY <2>3, <2>4
<1>2. \A T \in SUBSET S : T \in Good
  <2> HIDE DEF Good
  <2> QED
    BY <1>1, SubsetInduction
<1> QED
  BY <1>2

\* The sum over two sets that share nothing is that of their sums.
LEMMA SumOfBoth ==
  ASSUME NEW f, NEW A, NEW S, IsFiniteSet(A), IsFiniteSet(S), A \cap S = {},
         \A x \in A \cup S : f[x] \in Int
  PROVE  SumFunctionOnSet(f, A \cup S) = SumFunctionOnSet(f, A) + SumFunctionOnSet(f, S)
<1> DEFINE Good == {T \in SUBSET S :
                      SumFunctionOnSet(f, A \cup T) = SumFunctionOnSet(f, A) + SumFunctionOnSet(f, T)}
<1>0. SumFunctionOnSet(f, A) \in Int
  BY SumIsInt
<1>1. ASSUME NEW T \in SUBSET S, \A U \in SUBSET T : U # T => U \in Good
      PROVE  T \in Good
  <2>1. CASE T = {}
    <3>1. A \cup T = A
      BY <2>1
    <3> QED
      BY <1>0, <2>1, <3>1, SumEmpty
  <2>2. CASE T # {}
    <3> DEFINE c == First(T)
    <3>1. c \in T /\ Rest(T) \in Good /\ IsFiniteSet(T) /\ IsFiniteSet(Rest(T)) /\ Rest(T) = T \ {c}
      BY <1>1, <2>2, FirstIn, FS_Subset DEF Rest
    <3>2. SumFunctionOnSet(f, T) = f[c] + SumFunctionOnSet(f, Rest(T))
      BY <2>2, <3>1, SumFirst
    <3>3. IsFiniteSet(A \cup T) /\ c \in A \cup T /\ (A \cup T) \ {c} = A \cup Rest(T)
      BY <3>1, FS_Union
    <3>4. \A x \in A \cup T : f[x] \in Int
      OBVIOUS
    <3>5. SumFunctionOnSet(f, A \cup T) = f[c] + SumFunctionOnSet(f, A \cup Rest(T))
      <4> HIDE DEF c
      <4> QED
        BY <3>3, <3>4, SumRemove
    <3>6. SumFunctionOnSet(f, Rest(T)) \in Int /\ f[c] \in Int
      BY <3>1, <3>4, SumIsInt
    <3> QED
      BY <1>0, <3>1, <3>2, <3>5, <3>6
  <2> QED
    BY <2>1, <2>2
<1>2. \A T \in SUBSET S : T \in Good
  <2> HIDE DEF Good
  <2> QED
    BY <1>1, SubsetInduction
<1> QED
  BY <1>2
-----------------------------------------------------------------------------
(* What rows add up to.                                                    *)

LEMMA SignedIsInt == ASSUME NEW e \in Entry PROVE Signed(e) \in Int
<1>1. e.amount \in Nat
  BY ConstantsAssumption DEF Entry
<1>2. -e.amount \in Int /\ e.amount \in Int
  BY <1>1
<1> QED
  BY <1>2 DEF Signed

\* The rows summed are of entries, and only what stands under the slots counts.
LEMMA TotalIsSum ==
  ASSUME NEW r, NEW S, NEW A \in SUBSET S, IsFiniteSet(S), \A s \in S : r[s] \in Entry
  PROVE  /\ Total(r, A) = SumFunctionOnSet([s \in S |-> Signed(r[s])], A)
         /\ Total(r, A) \in Int
<1> DEFINE f == [s \in S |-> Signed(r[s])]
           g == [s \in A |-> Signed(r[s])]
<1>1. IsFiniteSet(A) /\ \A s \in A : g[s] = f[s] /\ g[s] \in Int
  BY SignedIsInt, FS_Subset
<1>2. Total(r, A) = SumFunctionOnSet(g, A)
  BY DEF Total, SumFunction
<1> HIDE DEF f, g
<1>3. SumFunctionOnSet(g, A) = SumFunctionOnSet(f, A) /\ SumFunctionOnSet(g, A) \in Int
  BY <1>1, SumEqual, SumIsInt
<1> QED
  BY <1>2, <1>3 DEF f

LEMMA TotalEmpty == ASSUME NEW r PROVE Total(r, {}) = 0
  BY SumEmpty DEF Total, SumFunction

LEMMA TotalEqual ==
  ASSUME NEW r, NEW q, NEW S, \A s \in S : r[s] = q[s]
  PROVE  Total(r, S) = Total(q, S)
<1>1. [s \in S |-> Signed(r[s])] = [s \in S |-> Signed(q[s])]
  OBVIOUS
<1> QED
  BY <1>1 DEF Total

LEMMA TotalOfBoth ==
  ASSUME NEW r, NEW A, NEW B, IsFiniteSet(A), IsFiniteSet(B), A \cap B = {},
         \A s \in A \cup B : r[s] \in Entry
  PROVE  /\ Total(r, A \cup B) = Total(r, A) + Total(r, B)
         /\ Total(r, A) \in Int /\ Total(r, B) \in Int
<1> DEFINE S == A \cup B
           f == [s \in S |-> Signed(r[s])]
<1>1. IsFiniteSet(S) /\ A \in SUBSET S /\ B \in SUBSET S /\ S \in SUBSET S
  BY FS_Union
<1>2. \A s \in S : f[s] \in Int
  BY SignedIsInt
<1>3. SumFunctionOnSet(f, A \cup B) = SumFunctionOnSet(f, A) + SumFunctionOnSet(f, B)
  <2> HIDE DEF f
  <2> QED
    BY <1>2, SumOfBoth
<1>4. /\ Total(r, S) = SumFunctionOnSet(f, S)
      /\ Total(r, A) = SumFunctionOnSet(f, A) /\ Total(r, A) \in Int
      /\ Total(r, B) = SumFunctionOnSet(f, B) /\ Total(r, B) \in Int
  <2> HIDE DEF S
  <2>1. \A s \in S : r[s] \in Entry
    BY DEF S
  <2> QED
    BY <1>1, <2>1, TotalIsSum
<1> QED
  BY <1>3, <1>4

\* One more row adds what it says.
LEMMA TotalOfOneMore ==
  ASSUME NEW r, NEW A, NEW x, IsFiniteSet(A), x \notin A,
         \A s \in A \cup {x} : r[s] \in Entry
  PROVE  Total(r, A \cup {x}) = Total(r, A) + Signed(r[x])
<1>1. IsFiniteSet({x}) /\ A \cap {x} = {}
  BY FS_Singleton
<1>2. Total(r, A \cup {x}) = Total(r, A) + Total(r, {x})
  BY <1>1, TotalOfBoth
<1> DEFINE f == [s \in {x} |-> Signed(r[s])]
<1>3. Total(r, {x}) = SumFunctionOnSet(f, {x})
  BY DEF Total, SumFunction
<1>4. f[x] = Signed(r[x]) /\ Signed(r[x]) \in Int /\ {x} \ {x} = {}
  BY SignedIsInt
<1>5. SumFunctionOnSet(f, {x}) = f[x] + SumFunctionOnSet(f, {})
  <2>1. \A s \in {x} : f[s] \in Int
    BY <1>4
  <2> HIDE DEF f
  <2> QED
    BY <1>1, <1>4, <2>1, SumRemove
<1> QED
  BY <1>2, <1>3, <1>4, <1>5, SumEmpty

-----------------------------------------------------------------------------
(* The balance is the sum of the rows: the steps.                          *)

\* What a session sums up is finite, and of entries.
LEMMA Books ==
  ASSUME IInv, FiniteBooks, NEW u \in Users, NEW t \in Txs
  PROVE  /\ Posted(u) \subseteq Slots /\ IsFiniteSet(Posted(u))
         /\ Applied(t, u) \subseteq Slots /\ IsFiniteSet(Applied(t, u))
         /\ \A s \in Posted(u) : ledger[s] \in Entry
         /\ \A s \in Applied(t, u) : draft[s] \in Entry
<1> DEFINE All == {s \in Slots : ledger[s] # None \/ keyLock[s] # Nobody}
<1>1. Posted(u) \subseteq Slots /\ Applied(t, u) \subseteq Slots
  BY DEF Posted, Applied, Slots
<1>2. Posted(u) \subseteq All /\ Applied(t, u) \subseteq All
  BY <1>1, ConstantsAssumption DEF Posted, Applied
<1>3. IsFiniteSet(Posted(u)) /\ IsFiniteSet(Applied(t, u))
  BY <1>2, FS_Subset DEF FiniteBooks
<1>4. \A s \in Posted(u) : ledger[s] \in Entry
  BY <1>1 DEF Posted, IInv, TypeOK
<1>5. \A s \in Applied(t, u) : draft[s] \in Entry
  BY <1>1, ConstantsAssumption DEF Applied, IInv, TypeOK, Drafts
<1> QED
  BY <1>1, <1>3, <1>4, <1>5

\* A step that moves a session between statements and leaves the rows alone.
LEMMA StillBalanced ==
  ASSUME IInv, Balanced, NEW t \in Txs, pc[t] # "update",
         pc' \in [Txs -> {"idle", "ensure", "insert", "update", "answered"}],
         \A x \in Txs \ {t} : pc'[x] = pc[x] /\ call'[x] = call[x],
         pc'[t] # "update",
         UNCHANGED <<balance, ledger, keyLock, draft, change>>,
         \A u \in Users : walletLock'[u] # walletLock[u] =>
                            walletLock[u] = Nobody /\ walletLock'[u] = t
  PROVE  Balanced'
<1>1. FiniteBooks' /\ BalanceIsTheLedger'
  BY DEF Balanced, FiniteBooks, BalanceIsTheLedger, Posted
<1>2. ASSUME NEW u \in Users, NEW x \in Txs
      PROVE  Applied(x, u)' = Applied(x, u)
  BY <1>2 DEF Applied, SlotOf
<1>3. ASSUME NEW u \in Users
      PROVE  /\ walletLock'[u] = Nobody => change[u] = 0
             /\ \A x \in Txs : IF walletLock'[u] = x THEN change[u] = Total(draft, Applied(x, u))
                               ELSE Applied(x, u) = {}
  <2>1. CASE walletLock'[u] = walletLock[u]
    BY <2>1, Zenon DEF Balanced, ChangesAreDrafts
  <2>2. CASE walletLock'[u] # walletLock[u]
    <3>1. walletLock[u] = Nobody /\ walletLock'[u] = t /\ t # Nobody
      BY <2>2, ConstantsAssumption
    <3>2. change[u] = 0 /\ \A x \in Txs : Applied(x, u) = {}
      BY <3>1, ConstantsAssumption DEF Balanced, ChangesAreDrafts
    <3> QED
      BY <3>1, <3>2, TotalEmpty
  <2> QED
    BY <2>1, <2>2
<1>4. ChangesAreDrafts'
  BY <1>2, <1>3 DEF ChangesAreDrafts
<1> QED
  BY <1>1, <1>4 DEF Balanced

\* A transaction that inserts a row holds it, and has not added it yet.
LEMMA InsertBalanced ==
  ASSUME IInv, Balanced, NEW t \in Txs, InsertEntry(t)
  PROVE  Balanced'
<1> DEFINE s == SlotOf(t)
<1>1. s \in Slots /\ keyLock[s] = Nobody /\ t # Nobody
  BY Served, ConstantsAssumption DEF IInv, InsertEntry
<1>2. /\ UNCHANGED <<balance, ledger, walletLock, change, call>>
      /\ keyLock' = [keyLock EXCEPT ![s] = t]
      /\ draft' = [draft EXCEPT ![s] = call[t].entry]
      /\ pc' = [pc EXCEPT ![t] = "update"] /\ pc[t] = "insert"
  BY DEF InsertEntry, Goto
<1>3. BalanceIsTheLedger'
  BY <1>2 DEF Balanced, BalanceIsTheLedger, Posted
<1>4. FiniteBooks'
  <2> DEFINE All == {q \in Slots : ledger[q] # None \/ keyLock[q] # Nobody}
  <2>1. {q \in Slots : ledger'[q] # None \/ keyLock'[q] # Nobody} = All \cup {s}
    BY <1>1, <1>2 DEF IInv, TypeOK
  <2>2. IsFiniteSet(All \cup {s})
    BY FS_AddElement DEF Balanced, FiniteBooks
  <2> QED
    BY <2>1, <2>2 DEF FiniteBooks
<1>5. ASSUME NEW u \in Users, NEW x \in Txs
      PROVE  /\ Applied(x, u)' = Applied(x, u)
             /\ \A q \in Applied(x, u) : draft'[q] = draft[q]
  <2>1. SlotOf(x)' = SlotOf(x) /\ (x # t => pc'[x] = pc[x]) /\ pc'[t] = "update"
    BY <1>2 DEF IInv, TypeOK, SlotOf
  <2>2. \A q \in {u} \X Keys : q \in Slots
    BY DEF Slots
  <2>3. \A q \in {u} \X Keys : q # s => keyLock'[q] = keyLock[q] /\ draft'[q] = draft[q]
    BY <1>1, <1>2, <2>2 DEF IInv, TypeOK
  <2>4. keyLock'[s] = t /\ s \notin Applied(x, u)
    BY <1>1, <1>2, ConstantsAssumption DEF IInv, TypeOK, Applied
  <2>5. s \notin Applied(x, u)'
    BY <2>1, <2>4, <1>2 DEF Applied
  <2>6. \A q \in {u} \X Keys : q # s => (q \in Applied(x, u)' <=> q \in Applied(x, u))
    BY <2>1, <2>3, <1>2 DEF Applied
  <2>7. Applied(x, u)' \subseteq {u} \X Keys /\ Applied(x, u) \subseteq {u} \X Keys
    BY DEF Applied
  <2> QED
    BY <2>3, <2>4, <2>5, <2>6, <2>7
<1>6. ChangesAreDrafts'
  <2> SUFFICES ASSUME NEW u \in Users
               PROVE  /\ walletLock[u] = Nobody => change[u] = 0
                      /\ \A x \in Txs : IF walletLock[u] = x
                                        THEN change[u] = Total(draft', Applied(x, u)')
                                        ELSE Applied(x, u)' = {}
    BY <1>2 DEF ChangesAreDrafts
  <2>1. \A x \in Txs : Total(draft', Applied(x, u)') = Total(draft, Applied(x, u))
    BY <1>5, TotalEqual
  <2> QED
    BY <1>5, <2>1 DEF Balanced, ChangesAreDrafts
<1> QED
  BY <1>3, <1>4, <1>6 DEF Balanced

\* The UPDATE adds the row the session has inserted last to those it has added.
LEMMA UpdateBalanced ==
  ASSUME IInv, Balanced, NEW t \in Txs, UpdateBalance(t)
  PROVE  Balanced'
<1> DEFINE s == SlotOf(t)
           v == UserOf(t)
           e == call[t].entry
<1>1. s \in Slots /\ v \in Users /\ s[1] = v /\ keyLock[s] = t /\ draft[s] = e /\ t # Nobody
  BY Served, ConstantsAssumption DEF IInv, Serving, UpdateBalance, SlotOf, UserOf
<1>2. /\ UNCHANGED <<balance, ledger, keyLock, draft, call>>
      /\ walletLock' = [walletLock EXCEPT ![v] = t] /\ walletLock[v] \in {Nobody, t}
      /\ change' = [change EXCEPT ![v] = change[v] + Signed(e)]
      /\ pc' = [pc EXCEPT ![t] = "answered"] /\ pc[t] = "update"
  BY DEF UpdateBalance, MayUpdate, Goto
<1>3. BalanceIsTheLedger' /\ FiniteBooks'
  BY <1>2 DEF Balanced, BalanceIsTheLedger, Posted, FiniteBooks
<1>4. ASSUME NEW u \in Users, NEW x \in Txs
      PROVE  Applied(x, u)' = IF x = t /\ u = v THEN Applied(t, v) \cup {s} ELSE Applied(x, u)
  <2>1. SlotOf(x)' = SlotOf(x) /\ (x # t => pc'[x] = pc[x]) /\ pc'[t] = "answered"
    BY <1>2 DEF IInv, TypeOK, SlotOf
  <2>2. CASE x # t
    BY <1>2, <2>1, <2>2 DEF Applied
  <2>3. CASE x = t
    <3>1. Applied(t, u)' = {q \in {u} \X Keys : keyLock[q] = t}
      BY <1>2, <2>1 DEF Applied
    <3>2. Applied(t, u) = {q \in {u} \X Keys : keyLock[q] = t /\ q # s}
      BY <1>2 DEF Applied
    <3>3. s \in {u} \X Keys <=> u = v
      BY <1>1 DEF Slots
    <3> QED
      BY <1>1, <2>3, <3>1, <3>2, <3>3
  <2> QED
    BY <2>2, <2>3
<1>5. \A x \in Txs : x # t => Applied(x, v) = {}
  BY <1>1, <1>2, ConstantsAssumption DEF Balanced, ChangesAreDrafts
<1>6. change[v] = Total(draft, Applied(t, v))
  <2>1. CASE walletLock[v] = t
    BY <1>1, <2>1 DEF Balanced, ChangesAreDrafts
  <2>2. CASE walletLock[v] = Nobody
    BY <1>1, <2>2, TotalEmpty DEF Balanced, ChangesAreDrafts
  <2> QED
    BY <1>2, <2>1, <2>2
<1>7. change'[v] = Total(draft, Applied(t, v) \cup {s})
  <2>1. s \notin Applied(t, v)
    BY <1>2 DEF Applied
  <2>2. IsFiniteSet(Applied(t, v)) /\ \A q \in Applied(t, v) \cup {s} : draft[q] \in Entry
    BY <1>1, Books, Served DEF Balanced, IInv, UpdateBalance
  <2>3. Total(draft, Applied(t, v) \cup {s}) = Total(draft, Applied(t, v)) + Signed(draft[s])
    <3> HIDE DEF s, v
    <3> QED
      BY <2>1, <2>2, TotalOfOneMore
  <2> QED
    BY <1>1, <1>2, <1>6, <2>3 DEF IInv, TypeOK
<1>8. ASSUME NEW u \in Users
      PROVE  /\ walletLock'[u] = Nobody => change'[u] = 0
             /\ \A x \in Txs : IF walletLock'[u] = x THEN change'[u] = Total(draft, Applied(x, u)')
                               ELSE Applied(x, u)' = {}
  <2>1. CASE u = v
    <3>1. walletLock'[u] = t
      BY <1>1, <1>2, <2>1 DEF IInv, TypeOK
    <3> QED
      BY <1>1, <1>4, <1>5, <1>7, <2>1, <3>1
  <2>2. CASE u # v
    <3>1. walletLock'[u] = walletLock[u] /\ change'[u] = change[u]
      BY <1>1, <1>2, <2>2 DEF IInv, TypeOK
    <3>2. \A x \in Txs : Applied(x, u)' = Applied(x, u)
      BY <1>4, <2>2
    <3> QED
      BY <3>1, <3>2 DEF Balanced, ChangesAreDrafts
  <2> QED
    BY <2>1, <2>2
<1>9. ChangesAreDrafts'
  BY <1>2, <1>8 DEF ChangesAreDrafts
<1> QED
  BY <1>3, <1>9 DEF Balanced

\* What an ended transaction leaves of the locks and drafts: its own are gone.
LEMMA ReleaseKeepsChanges ==
  ASSUME IInv, Balanced, NEW t \in Txs, Release(t)
  PROVE  ChangesAreDrafts'
<1>1. t # Nobody
  BY ConstantsAssumption
<1>2. /\ \A q \in Slots : keyLock'[q] = IF keyLock[q] = t THEN Nobody ELSE keyLock[q]
      /\ \A q \in Slots : keyLock[q] # t => draft'[q] = draft[q]
      /\ \A u \in Users : walletLock'[u] = IF walletLock[u] = t THEN Nobody ELSE walletLock[u]
      /\ \A u \in Users : change'[u] = IF walletLock[u] = t THEN 0 ELSE change[u]
      /\ \A x \in Txs : x # t => pc'[x] = pc[x] /\ call'[x] = call[x]
  BY DEF Release, Goto, IInv, TypeOK
<1>3. ASSUME NEW u \in Users, NEW x \in Txs
      PROVE  /\ x # t => Applied(x, u)' = Applied(x, u)
             /\ x # t => \A q \in Applied(x, u) : draft'[q] = draft[q]
             /\ Applied(t, u)' = {}
  <2>1. \A q \in {u} \X Keys : q \in Slots
    BY DEF Slots
  <2>2. Applied(t, u)' = {}
    BY <1>1, <1>2, <2>1 DEF Applied
  <2>3. CASE x # t
    <3>1. \A q \in {u} \X Keys : keyLock'[q] = x <=> keyLock[q] = x
      BY <1>2, <2>1, <2>3, ConstantsAssumption
    <3>2. Applied(x, u)' = Applied(x, u)
      BY <1>2, <2>3, <3>1 DEF Applied, SlotOf
    <3>3. \A q \in Applied(x, u) : q \in Slots /\ keyLock[q] # t
      BY <2>1, <2>3 DEF Applied
    <3> QED
      BY <1>2, <2>2, <3>2, <3>3
  <2> QED
    BY <2>2, <2>3
<1>4. ASSUME NEW u \in Users
      PROVE  /\ walletLock'[u] = Nobody => change'[u] = 0
             /\ \A x \in Txs : IF walletLock'[u] = x THEN change'[u] = Total(draft', Applied(x, u)')
                               ELSE Applied(x, u)' = {}
  <2>1. \A x \in Txs : x # t => Total(draft', Applied(x, u)') = Total(draft, Applied(x, u))
    BY <1>3, TotalEqual
  <2>2. CASE walletLock[u] = t
    <3>1. walletLock'[u] = Nobody /\ change'[u] = 0 /\ Nobody \notin Txs
      BY <1>2, <2>2, ConstantsAssumption
    <3>2. \A x \in Txs : Applied(x, u)' = {}
      BY <1>3, <2>2 DEF Balanced, ChangesAreDrafts
    <3> QED
      BY <3>1, <3>2
  <2>3. CASE walletLock[u] # t
    <3>1. walletLock'[u] = walletLock[u] /\ change'[u] = change[u]
      BY <1>2, <2>3
    <3> QED
      BY <1>3, <2>1, <2>3, <3>1 DEF Balanced, ChangesAreDrafts
  <2> QED
    BY <2>2, <2>3
<1> QED
  BY <1>4 DEF ChangesAreDrafts

LEMMA RollbackBalanced ==
  ASSUME IInv, Balanced, NEW t \in Txs, Rollback(t)
  PROVE  Balanced'
<1>1. ChangesAreDrafts'
  BY ReleaseKeepsChanges DEF Rollback
<1>2. BalanceIsTheLedger'
  BY DEF Balanced, BalanceIsTheLedger, Posted, Rollback
<1>3. FiniteBooks'
  <2>1. {q \in Slots : ledger'[q] # None \/ keyLock'[q] # Nobody}
          \subseteq {q \in Slots : ledger[q] # None \/ keyLock[q] # Nobody}
    BY DEF Rollback, Release
  <2> QED
    BY <2>1, FS_Subset DEF Balanced, FiniteBooks
<1> QED
  BY <1>1, <1>2, <1>3 DEF Balanced

\* A commit posts the rows it has added up, and the balance takes their sum.
LEMMA CommitBalanced ==
  ASSUME IInv, Balanced, NEW t \in Txs, Commit(t)
  PROVE  Balanced'
<1>1. ChangesAreDrafts'
  BY ReleaseKeepsChanges DEF Commit
<1>2. \A q \in Slots : ledger'[q] = IF keyLock[q] = t THEN draft[q] ELSE ledger[q]
  BY DEF Commit
<1>3. FiniteBooks'
  <2>1. {q \in Slots : ledger'[q] # None \/ keyLock'[q] # Nobody}
          \subseteq {q \in Slots : ledger[q] # None \/ keyLock[q] # Nobody}
    BY <1>2, ConstantsAssumption DEF Commit, Release
  <2> QED
    BY <2>1, FS_Subset DEF Balanced, FiniteBooks
<1>4. ASSUME NEW u \in Users
      PROVE  balance'[u] = Total(ledger', Posted(u)')
  <2> DEFINE P == Posted(u)
             Q == Applied(t, u)
  <2>1. \A q \in {u} \X Keys : q \in Slots
    BY DEF Slots
  <2>2. Q = {q \in {u} \X Keys : keyLock[q] = t}
    BY DEF Applied, Commit
  <2>3. \A q \in Q : ledger[q] = None /\ draft[q] # None /\ ledger'[q] = draft[q]
    BY <1>2, <2>1, <2>2, ConstantsAssumption DEF IInv, Drafts
  <2>4. \A q \in P : ledger'[q] = ledger[q] /\ q \notin Q
    BY <1>2, <2>1, <2>2, <2>3 DEF Posted
  <2>5. Posted(u)' = P \cup Q
    <3>1. \A q \in {u} \X Keys : ledger'[q] # None <=> q \in P \/ q \in Q
      BY <1>2, <2>1, <2>2, <2>3 DEF Posted
    <3>2. P \subseteq {u} \X Keys /\ Q \subseteq {u} \X Keys
      BY DEF Posted, Applied
    <3> HIDE DEF P, Q
    <3> QED
      BY <3>1, <3>2 DEF Posted
  <2>6. /\ IsFiniteSet(P) /\ IsFiniteSet(Q)
        /\ \A q \in P : ledger'[q] \in Entry
        /\ \A q \in Q : ledger'[q] \in Entry
    BY <2>3, <2>4, Books DEF Balanced
  <2>7. Total(ledger', P) = Total(ledger, P) /\ Total(ledger', Q) = Total(draft, Q)
    <3> HIDE DEF P, Q
    <3> QED
      BY <2>3, <2>4, TotalEqual
  <2>8. Total(ledger', P \cup Q) = Total(ledger', P) + Total(ledger', Q)
        /\ Total(ledger', P) \in Int
    <3> HIDE DEF P, Q
    <3>1. P \cap Q = {} /\ \A q \in P \cup Q : ledger'[q] \in Entry
      BY <2>4, <2>6
    <3> QED
      BY <2>6, <3>1, TotalOfBoth
  <2>9. balance[u] = Total(ledger, P)
    BY DEF Balanced, BalanceIsTheLedger
  <2>10. CASE walletLock[u] = t
    <3>1. change[u] = Total(draft, Q)
      BY <2>10 DEF Balanced, ChangesAreDrafts
    <3>2. balance'[u] = balance[u] + change[u]
      BY <2>10 DEF Commit
    <3> QED
      BY <2>5, <2>7, <2>8, <2>9, <3>1, <3>2
  <2>11. CASE walletLock[u] # t
    <3>1. Q = {}
      BY <2>11 DEF Balanced, ChangesAreDrafts
    <3>2. balance'[u] = balance[u] /\ P \cup Q = P
      BY <2>11, <3>1 DEF Commit
    <3> QED
      BY <2>5, <2>7, <2>9, <3>2
  <2> QED
    BY <2>10, <2>11
<1> QED
  BY <1>1, <1>3, <1>4 DEF Balanced, BalanceIsTheLedger

LEMMA InitBalanced == Init => Balanced
<1> SUFFICES ASSUME Init
             PROVE  Balanced
  OBVIOUS
<1>1. FiniteBooks
  <2>1. {s \in Slots : ledger[s] # None \/ keyLock[s] # Nobody} = {}
    BY DEF Init
  <2> QED
    BY <2>1, FS_EmptySet DEF FiniteBooks
<1>2. \A u \in Users : \A s \in {u} \X Keys : s \in Slots
  BY DEF Slots
<1>3. \A u \in Users : Posted(u) = {} /\ \A t \in Txs : Applied(t, u) = {}
  BY <1>2, ConstantsAssumption DEF Init, Posted, Applied
<1>4. ChangesAreDrafts
  BY <1>3, ConstantsAssumption DEF Init, ChangesAreDrafts
<1>5. BalanceIsTheLedger
  BY <1>3, TotalEmpty DEF Init, BalanceIsTheLedger
<1> QED
  BY <1>1, <1>4, <1>5 DEF Balanced

LEMMA NextBalanced == IInv /\ Balanced /\ [Next]_vars => Balanced'
<1> SUFFICES ASSUME IInv, Balanced, [Next]_vars
             PROVE  Balanced'
  OBVIOUS
<1>1. ASSUME NEW t \in Txs, NEW c \in Wanted, Begin(t, c)
      PROVE  Balanced'
  BY <1>1, StillBalanced DEF Begin, dbVars, Goto, IInv, TypeOK
<1>2. ASSUME NEW t \in Txs, NEW u \in Users, ViewWallet(t, u)
      PROVE  Balanced'
  BY <1>2, StillBalanced DEF ViewWallet, Goto, IInv, TypeOK
<1>3. ASSUME NEW t \in Txs, Refuse(t) \/ Insufficient(t) \/ DeadlockVictim(t) \/ Abort(t)
      PROVE  Balanced'
  BY <1>3, RollbackBalanced DEF Refuse, Insufficient, DeadlockVictim, Abort
<1>4. ASSUME NEW t \in Txs, EnsureWallet(t)
      PROVE  Balanced'
  <2>1. UserOf(t) \in Users
    BY <1>4, Served DEF IInv, EnsureWallet
  <2>2. \A u \in Users : walletLock'[u] # walletLock[u] =>
          walletLock[u] = Nobody /\ walletLock'[u] = t
    BY <1>4, <2>1 DEF IInv, TypeOK, EnsureWallet
  <2> QED
    BY <1>4, <2>2, StillBalanced DEF EnsureWallet, Goto, IInv, TypeOK
<1>5. ASSUME NEW t \in Txs, InsertEntry(t)
      PROVE  Balanced'
  BY <1>5, InsertBalanced
<1>6. ASSUME NEW t \in Txs, Replay(t)
      PROVE  Balanced'
  BY <1>6, StillBalanced DEF Replay, dbVars, Goto, IInv, TypeOK
<1>7. ASSUME NEW t \in Txs, Conflict(t)
      PROVE  Balanced'
  <2>1. CASE Rollback(t)
    BY <2>1, RollbackBalanced
  <2>2. CASE Goto(t, "answered") /\ UNCHANGED <<dbVars, call, answers, told>>
    BY <1>7, <2>2, StillBalanced DEF Conflict, dbVars, Goto, IInv, TypeOK
  <2> QED
    BY <1>7, <2>1, <2>2 DEF Conflict
<1>8. ASSUME NEW t \in Txs, UpdateBalance(t)
      PROVE  Balanced'
  BY <1>8, UpdateBalanced
<1>9. ASSUME NEW t \in Txs, Commit(t)
      PROVE  Balanced'
  BY <1>9, CommitBalanced
<1>10. CASE UNCHANGED vars
  BY <1>10 DEF vars, dbVars, Balanced, FiniteBooks, ChangesAreDrafts, BalanceIsTheLedger,
              Posted, Applied, SlotOf
<1> QED
  BY <1>1, <1>2, <1>3, <1>4, <1>5, <1>6, <1>7, <1>8, <1>9, <1>10 DEF Next

\* The balance of every user is the sum of the rows of the user's ledger.
THEOREM BalanceFollowsTheLedger == Spec => []BalanceIsTheLedger
<1>1. Balanced => BalanceIsTheLedger
  BY DEF Balanced
<1> QED
  BY <1>1, InitBalanced, NextBalanced, Invariant, PTL DEF Spec

-----------------------------------------------------------------------------
(* The wallet keeps its promise: a commit is a transaction of WalletPromise   *)
(* that serves the calls the session has answered, every other step a stutter. *)

\* A step that moves a session between statements and takes back no answer.
LEMMA StillAnswered ==
  ASSUME RowsAreAnswered, NEW t \in Txs, pc[t] # "update",
         \A x \in Txs \ {t} : pc'[x] = pc[x] /\ call'[x] = call[x],
         \A x \in Txs : answers[x] \subseteq answers'[x],
         UNCHANGED <<keyLock, draft>>
  PROVE  RowsAreAnswered'
<1> SUFFICES ASSUME NEW x \in Txs, NEW s \in Slots, keyLock[s] = x
             PROVE  \/ pc'[x] = "update" /\ s = SlotOf(x)'
                    \/ \E c \in answers'[x] : c.slot = s /\ c.entry = draft[s]
  BY DEF RowsAreAnswered
<1>1. CASE pc[x] = "update" /\ s = SlotOf(x)
  BY <1>1 DEF SlotOf
<1>2. CASE \E c \in answers[x] : c.slot = s /\ c.entry = draft[s]
  BY <1>2
<1> QED
  BY <1>1, <1>2 DEF RowsAreAnswered

LEMMA InsertAnswered ==
  ASSUME IInv, RowsAreAnswered, NEW t \in Txs, InsertEntry(t)
  PROVE  RowsAreAnswered'
<1> SUFFICES ASSUME NEW x \in Txs, NEW s \in Slots, keyLock'[s] = x
             PROVE  \/ pc'[x] = "update" /\ s = SlotOf(x)'
                    \/ \E c \in answers'[x] : c.slot = s /\ c.entry = draft'[s]
  BY DEF RowsAreAnswered
<1>1. SlotOf(t) \in Slots /\ pc[t] = "insert"
  BY Served DEF IInv, InsertEntry
<1>2. UNCHANGED <<call, answers>> /\ SlotOf(x)' = SlotOf(x)
  BY DEF InsertEntry, SlotOf
<1>3. CASE s = SlotOf(t)
  <2>1. x = t /\ pc'[t] = "update"
    BY <1>1, <1>3 DEF IInv, TypeOK, InsertEntry, Goto
  <2> QED
    BY <1>2, <1>3, <2>1
<1>4. CASE s # SlotOf(t)
  <2>1. keyLock[s] = x /\ draft'[s] = draft[s]
    BY <1>1, <1>4 DEF IInv, TypeOK, InsertEntry
  <2>2. pc[x] = "update" => pc'[x] = pc[x]
    BY <1>1 DEF IInv, TypeOK, InsertEntry, Goto
  <2> QED
    BY <1>2, <2>1, <2>2 DEF RowsAreAnswered
<1> QED
  BY <1>3, <1>4

LEMMA UpdateAnswered ==
  ASSUME IInv, RowsAreAnswered, NEW t \in Txs, UpdateBalance(t)
  PROVE  RowsAreAnswered'
<1> SUFFICES ASSUME NEW x \in Txs, NEW s \in Slots, keyLock[s] = x
             PROVE  \/ pc'[x] = "update" /\ s = SlotOf(x)
                    \/ \E c \in answers'[x] : c.slot = s /\ c.entry = draft[s]
  BY DEF RowsAreAnswered, UpdateBalance, SlotOf
<1>1. answers' = [answers EXCEPT ![t] = answers[t] \cup {call[t]}] /\ pc[t] = "update"
  BY DEF UpdateBalance, Answer
<1>2. answers[x] \subseteq answers'[x] /\ call[t] \in answers'[t]
  BY <1>1 DEF IInv, TypeOK
<1>3. CASE \E c \in answers[x] : c.slot = s /\ c.entry = draft[s]
  BY <1>2, <1>3
<1>4. CASE pc[x] = "update" /\ s = SlotOf(x)
  <2>1. CASE x = t
    <3>1. call[t].slot = s /\ call[t].entry = draft[s]
      BY <1>4, <2>1 DEF IInv, Serving, SlotOf
    <3> QED
      BY <1>2, <2>1, <3>1
  <2>2. CASE x # t
    BY <1>4, <2>2 DEF IInv, TypeOK, UpdateBalance, Goto
  <2> QED
    BY <2>1, <2>2
<1> QED
  BY <1>3, <1>4 DEF RowsAreAnswered

LEMMA ReleaseAnswered ==
  ASSUME IInv, RowsAreAnswered, NEW t \in Txs, Release(t)
  PROVE  RowsAreAnswered'
<1> SUFFICES ASSUME NEW x \in Txs, NEW s \in Slots, keyLock'[s] = x
             PROVE  \/ pc'[x] = "update" /\ s = SlotOf(x)'
                    \/ \E c \in answers'[x] : c.slot = s /\ c.entry = draft'[s]
  BY DEF RowsAreAnswered
<1>1. x # t /\ keyLock[s] = x /\ draft'[s] = draft[s]
  BY ConstantsAssumption DEF Release
<1>2. pc'[x] = pc[x] /\ call'[x] = call[x] /\ answers'[x] = answers[x]
  BY <1>1 DEF IInv, TypeOK, Release, Goto
<1> QED
  BY <1>1, <1>2 DEF RowsAreAnswered, SlotOf

LEMMA NextAnswered == IInv /\ RowsAreAnswered /\ [Next]_vars => RowsAreAnswered'
<1> SUFFICES ASSUME IInv, RowsAreAnswered, [Next]_vars
             PROVE  RowsAreAnswered'
  OBVIOUS
<1>1. ASSUME NEW t \in Txs, NEW c \in Wanted, Begin(t, c)
      PROVE  RowsAreAnswered'
  BY <1>1, StillAnswered DEF Begin, dbVars, Goto, IInv, TypeOK
<1>2. ASSUME NEW t \in Txs, NEW u \in Users, ViewWallet(t, u)
      PROVE  RowsAreAnswered'
  BY <1>2, StillAnswered DEF ViewWallet, Goto, IInv, TypeOK
<1>3. ASSUME NEW t \in Txs, Refuse(t) \/ Insufficient(t) \/ DeadlockVictim(t) \/ Abort(t)
      PROVE  RowsAreAnswered'
  BY <1>3, ReleaseAnswered DEF Refuse, Insufficient, DeadlockVictim, Abort, Rollback
<1>4. ASSUME NEW t \in Txs, EnsureWallet(t)
      PROVE  RowsAreAnswered'
  BY <1>4, StillAnswered DEF EnsureWallet, Goto, IInv, TypeOK
<1>5. ASSUME NEW t \in Txs, InsertEntry(t)
      PROVE  RowsAreAnswered'
  BY <1>5, InsertAnswered
<1>6. ASSUME NEW t \in Txs, Replay(t)
      PROVE  RowsAreAnswered'
  <2>1. \A x \in Txs : answers[x] \subseteq answers'[x]
    BY <1>6 DEF Replay, Answer, IInv, TypeOK
  <2> QED
    BY <1>6, <2>1, StillAnswered DEF Replay, dbVars, Goto, IInv, TypeOK
<1>7. ASSUME NEW t \in Txs, Conflict(t)
      PROVE  RowsAreAnswered'
  <2>1. CASE Rollback(t)
    BY <2>1, ReleaseAnswered DEF Rollback
  <2>2. CASE Goto(t, "answered") /\ UNCHANGED <<dbVars, call, answers, told>>
    BY <1>7, <2>2, StillAnswered DEF Conflict, dbVars, Goto, IInv, TypeOK
  <2> QED
    BY <1>7, <2>1, <2>2 DEF Conflict
<1>8. ASSUME NEW t \in Txs, UpdateBalance(t)
      PROVE  RowsAreAnswered'
  BY <1>8, UpdateAnswered
<1>9. ASSUME NEW t \in Txs, Commit(t)
      PROVE  RowsAreAnswered'
  BY <1>9, ReleaseAnswered DEF Commit
<1>10. CASE UNCHANGED vars
  BY <1>10 DEF vars, dbVars, RowsAreAnswered, SlotOf
<1> QED
  BY <1>1, <1>2, <1>3, <1>4, <1>5, <1>6, <1>7, <1>8, <1>9, <1>10 DEF Next

LEMMA InitAnswered == Init => RowsAreAnswered
  BY ConstantsAssumption DEF Init, RowsAreAnswered

\* What the promise adds to a balance is what the ledger adds up to.
LEMMA SameWorth == ASSUME NEW S PROVE Promise!Worth(S) = Total(ledger', S)
<1>1. ASSUME NEW f, NEW D PROVE Promise!SumFunctionOnSet(f, D) = Iter(f, D)[D]
  BY Zenon DEF Promise!SumFunctionOnSet, Promise!FoldFunctionOnSet, Promise!MapThenFoldSet,
               Iter, IsIter, First, Rest
<1>2. ASSUME NEW f PROVE Promise!SumFunction(f) = SumFunction(f)
  BY <1>1, SumIsIter DEF Promise!SumFunction, SumFunction
<1>3. [s \in S |-> Promise!Signed(ledger'[s])] = [s \in S |-> Signed(ledger'[s])]
  BY Zenon DEF Promise!Signed, Signed
<1> QED
  BY <1>2, <1>3, Zenon DEF Promise!Worth, Total

\* A commit posts rows of the calls it answers, and only those.
LEMMA CommitPosts ==
  ASSUME IInv, RowsAreAnswered, NEW t \in Txs, Commit(t), NEW s \in Slots
  PROVE  Promise!Posts(answers[t], s)
<1>1. ledger'[s] = IF keyLock[s] = t THEN draft[s] ELSE ledger[s]
  BY DEF Commit
<1>2. CASE keyLock[s] # t
  BY <1>1, <1>2 DEF Promise!Posts
<1>3. CASE keyLock[s] = t
  <2>1. ledger[s] = None /\ ledger'[s] = draft[s]
    BY <1>1, <1>3, ConstantsAssumption DEF IInv, Drafts
  <2>2. \E c \in answers[t] : c.slot = s /\ c.entry = draft[s]
    BY <1>3 DEF RowsAreAnswered, Commit
  <2> QED
    BY <2>1, <2>2 DEF Promise!Posts
<1> QED
  BY <1>2, <1>3

\* After a commit the calls it answered have their entries.
LEMMA CommitAnswers ==
  ASSUME IInv, NEW t \in Txs, Commit(t), NEW c \in answers[t]
  PROVE  Promise!Answers(ledger'[c.slot], c)
<1>1. IInv' /\ c \in told'
  BY CommitPreserves DEF Commit
<1> QED
  BY <1>1 DEF IInv, AnswersAreBacked, Promise!Answers

\* A commit moves every balance by the rows it posts.
LEMMA CommitPays ==
  ASSUME IInv, Balanced, NEW t \in Txs, Commit(t), NEW u \in Users
  PROVE  balance'[u] = balance[u] + Promise!Worth(Promise!NewRows(u))
<1> DEFINE Q == Applied(t, u)
<1>1. \A q \in {u} \X Keys : q \in Slots
  BY DEF Slots
<1>2. \A q \in Slots : ledger'[q] = IF keyLock[q] = t THEN draft[q] ELSE ledger[q]
  BY DEF Commit
<1>3. \A q \in Slots : keyLock[q] = t => ledger[q] = None /\ draft[q] # None
  BY ConstantsAssumption DEF IInv, Drafts
<1>4. Q = {q \in {u} \X Keys : keyLock[q] = t}
  BY DEF Applied, Commit
<1>5. Promise!NewRows(u) = Q /\ \A q \in Q : ledger'[q] = draft[q]
  <2>1. \A q \in {u} \X Keys : (ledger[q] = None /\ ledger'[q] # None) <=> keyLock[q] = t
    BY <1>1, <1>2, <1>3
  <2> QED
    BY <1>1, <1>2, <1>4, <2>1 DEF Promise!NewRows
<1>6. Promise!Worth(Promise!NewRows(u)) = Total(draft, Q)
  <2> HIDE DEF Q
  <2>1. Promise!Worth(Q) = Total(ledger', Q)
    BY SameWorth
  <2>2. Total(ledger', Q) = Total(draft, Q)
    BY <1>5, TotalEqual
  <2> QED
    BY <1>5, <2>1, <2>2
<1>7. CASE walletLock[u] = t
  <2>1. change[u] = Total(draft, Q) /\ balance'[u] = balance[u] + change[u]
    BY <1>7 DEF Balanced, ChangesAreDrafts, Commit
  <2> QED
    BY <1>6, <2>1
<1>8. CASE walletLock[u] # t
  <2>1. Q = {} /\ balance'[u] = balance[u]
    BY <1>8 DEF Balanced, ChangesAreDrafts, Commit
  <2>2. Total(draft, Q) = 0
    BY <2>1, TotalEmpty
  <2>3. balance[u] \in Nat
    BY DEF IInv, TypeOK
  <2> QED
    BY <1>6, <2>1, <2>2, <2>3
<1> QED
  BY <1>7, <1>8

\* A commit is a transaction of the promise.
LEMMA CommitIsTransaction ==
  ASSUME IInv, Balanced, RowsAreAnswered, NEW t \in Txs, Commit(t)
  PROVE  Promise!Next
<1>1. balance' \in [Users -> Nat] /\ ledger' \in [Slots -> Entry \cup {None}]
  BY CommitPreserves DEF IInv, TypeOK
<1>2. answers[t] \in SUBSET Wanted /\ told' = told \cup answers[t]
  BY DEF IInv, TypeOK, Commit
<1>3. \A s \in Promise!Slots : Promise!Posts(answers[t], s)
  BY CommitPosts DEF Promise!Slots, Slots
<1>4. \A c \in answers[t] : Promise!Answers(ledger'[c.slot], c)
  BY CommitAnswers
<1>5. \A u \in Users : balance'[u] = balance[u] + Promise!Worth(Promise!NewRows(u))
  BY CommitPays
<1>6. Promise!Transaction(answers[t])
  BY <1>2, <1>3, <1>4, <1>5 DEF Promise!Transaction
<1>7. balance' \in [Users -> Nat] /\ ledger' \in [Promise!Slots -> Entry \cup {None}]
  BY <1>1 DEF Promise!Slots, Slots
<1> QED
  BY <1>2, <1>6, <1>7 DEF Promise!Next

\* Every step is a transaction of the promise, or changes nothing it speaks of.
LEMMA StepKeepsPromise ==
  IInv /\ Balanced /\ RowsAreAnswered /\ [Next]_vars
    => [Promise!Next]_<<balance, ledger, told>>
<1> SUFFICES ASSUME IInv, Balanced, RowsAreAnswered, [Next]_vars
             PROVE  [Promise!Next]_<<balance, ledger, told>>
  OBVIOUS
<1>1. ASSUME NEW t \in Txs, Commit(t)
      PROVE  Promise!Next
  BY <1>1, CommitIsTransaction
<1>2. ASSUME NEW t \in Txs,
             \/ \E c \in Wanted : Begin(t, c)
             \/ \E u \in Users : ViewWallet(t, u)
             \/ Refuse(t) \/ EnsureWallet(t) \/ InsertEntry(t) \/ Replay(t) \/ Conflict(t)
             \/ UpdateBalance(t) \/ Insufficient(t) \/ Abort(t) \/ DeadlockVictim(t)
      PROVE  UNCHANGED <<balance, ledger, told>>
  BY <1>2 DEF Begin, ViewWallet, Refuse, EnsureWallet, InsertEntry, Replay, Conflict,
              UpdateBalance, Insufficient, Abort, DeadlockVictim, Rollback, dbVars
<1>3. CASE UNCHANGED vars
  BY <1>3 DEF vars, dbVars
<1> QED
  BY <1>1, <1>2, <1>3 DEF Next

LEMMA InitKeepsPromise == Init => Promise!Init
<1>1. Init => balance \in [Users -> Nat]
  BY DEF Init
<1> QED
  BY <1>1 DEF Init, Promise!Init, Promise!Slots, Slots

\* The wallet's statements, interleaved in any way with locks, retries, rollbacks and
\* crashes, implement the wallet that serves a transaction's calls in one step.
THEOREM WalletKeepsThePromise == Spec => KeepsTheWalletPromise
<1>1. Spec => [](IInv /\ Balanced /\ RowsAreAnswered)
  BY InitIInv, NextIInv, InitBalanced, NextBalanced, InitAnswered, NextAnswered, PTL DEF Spec
<1> QED
  BY <1>1, InitKeepsPromise, StepKeepsPromise, PTL DEF Spec, KeepsTheWalletPromise, Promise!Spec

=============================================================================
