---------------------------- MODULE WalletLedger ----------------------------
(***************************************************************************)
(* The credit wallet (ADR-005): consume and grant as statements of         *)
(* concurrent READ COMMITTED transactions over two tables, wallets and     *)
(* ledger_transactions.  The idempotency key is the unique index: an       *)
(* INSERT ... ON CONFLICT DO NOTHING waits for an uncommitted row of the   *)
(* same key, and finds a committed one.  A transaction makes one call,     *)
(* except those of Batchers: the media reconciler refunds several jobs in  *)
(* one commit.                                                             *)
(***************************************************************************)
EXTENDS Integers, FiniteSets, Functions

CONSTANTS
  Users,
  Keys,         \* idempotency keys
  Payloads,     \* what `meta` says beside the amount
  Amounts,      \* positive amounts
  Txs,          \* database sessions
  Batchers,     \* sessions whose transactions make several calls
  Wanted,       \* the calls the clients make
  MaxCalls,     \* bound: calls over the whole behaviour
  MaxAborts,    \* bound: transactions lost to a crash or a dropped connection
  Nobody,       \* holder of a free lock
  None          \* no ledger row, no call

ASSUME ConstantsAssumption ==
  /\ Amounts \subseteq Nat \ {0}
  /\ Batchers \subseteq Txs
  /\ Nobody \notin Txs
  /\ MaxCalls \in Nat /\ MaxAborts \in Nat

Entry == [type : {"debit", "credit"}, amount : Amounts, meta : Payloads]

ASSUME NoneIsNoEntry == None \notin Entry

Slots == Users \X Keys

\* A call; it is refused up front when the amount is not positive or the session
\* it names is missing or someone else's.
Call == [slot : Slots, entry : Entry, refused : BOOLEAN]

ASSUME WantedAreCalls == Wanted \subseteq Call /\ None \notin Call

VARIABLES
  wallets,     \* users whose wallet row is committed
  balance,     \* wallets.balance, committed
  ledger,      \* ledger_transactions, committed
  walletLock,  \* the wallet row a transaction has inserted or updated
  keyLock,     \* the ledger row a transaction has inserted
  draft,       \* that row
  change,      \* what the holder of the wallet row has added to the balance
  pc, call,    \* the statement a session is at, and the call it serves
  answers,     \* calls a session has answered in its open transaction
  told,        \* calls answered by transactions that were committed
  calls, aborts

dbVars == <<wallets, balance, ledger, walletLock, keyLock, draft, change>>
vars == <<wallets, balance, ledger, walletLock, keyLock, draft, change, pc, call,
          answers, told, calls, aborts>>

-----------------------------------------------------------------------------

Init ==
  /\ wallets = {}
  /\ balance = [u \in Users |-> 0]
  /\ ledger = [s \in Slots |-> None]
  /\ walletLock = [u \in Users |-> Nobody]
  /\ keyLock = [s \in Slots |-> Nobody]
  /\ draft = [s \in Slots |-> None]
  /\ change = [u \in Users |-> 0]
  /\ pc = [t \in Txs |-> "idle"]
  /\ call = [t \in Txs |-> None]
  /\ answers = [t \in Txs |-> {}]
  /\ told = {}
  /\ calls = 0 /\ aborts = 0

SlotOf(t) == call[t].slot
UserOf(t) == call[t].slot[1]

\* The row under the key of the call: a draft while a transaction holds the key.
Seen(t) ==
  IF keyLock[SlotOf(t)] # Nobody THEN draft[SlotOf(t)] ELSE ledger[SlotOf(t)]

Goto(t, label) == pc' = [pc EXCEPT ![t] = label]

\* The transaction is over, either way.
Release(t) ==
  /\ walletLock' = [u \in Users |-> IF walletLock[u] = t THEN Nobody ELSE walletLock[u]]
  /\ keyLock' = [s \in Slots |-> IF keyLock[s] = t THEN Nobody ELSE keyLock[s]]
  /\ draft' = [s \in Slots |-> IF keyLock[s] = t THEN None ELSE draft[s]]
  /\ change' = [u \in Users |-> IF walletLock[u] = t THEN 0 ELSE change[u]]
  /\ Goto(t, "idle")
  /\ call' = [call EXCEPT ![t] = None]
  /\ answers' = [answers EXCEPT ![t] = {}]

Rollback(t) ==
  /\ Release(t)
  /\ UNCHANGED <<wallets, balance, ledger, told>>

Begin(t, c) ==
  /\ pc[t] = "idle" \/ (pc[t] = "answered" /\ t \in Batchers)
  /\ calls < MaxCalls
  /\ calls' = calls + 1
  /\ call' = [call EXCEPT ![t] = c]
  /\ Goto(t, "ensure")
  /\ UNCHANGED <<dbVars, answers, told, aborts>>

\* GET /v1/wallet creates the row of a user who has none, and commits.
ViewWallet(t, u) ==
  /\ pc[t] = "idle" /\ calls < MaxCalls
  /\ u \notin wallets /\ walletLock[u] = Nobody
  /\ calls' = calls + 1
  /\ walletLock' = [walletLock EXCEPT ![u] = t]
  /\ Goto(t, "answered")
  /\ UNCHANGED <<wallets, balance, ledger, keyLock, draft, change, call, answers, told,
                 aborts>>

Refuse(t) ==
  /\ pc[t] = "ensure" /\ call[t].refused
  /\ Rollback(t)
  /\ UNCHANGED <<calls, aborts>>

\* Variant: a debit locks the wallet row first.
EnsureWalletLocking(t) ==
  LET u == UserOf(t) IN
  /\ pc[t] = "ensure" /\ ~call[t].refused
  /\ walletLock[u] \in {Nobody, t}
  /\ walletLock' = [walletLock EXCEPT ![u] =
                      IF call[t].entry.type = "debit" \/ u \notin wallets THEN t ELSE @]
  /\ Goto(t, "insert")
  /\ UNCHANGED <<wallets, balance, ledger, keyLock, draft, change, call, answers, told,
                 calls, aborts>>

\* INSERT INTO wallets ... ON CONFLICT DO NOTHING waits for another first call of
\* the user that has not committed the row yet.
EnsureWallet(t) ==
  LET u == UserOf(t) IN
  /\ pc[t] = "ensure" /\ ~call[t].refused
  /\ \/ u \in wallets /\ UNCHANGED walletLock
     \/ /\ u \notin wallets /\ walletLock[u] \in {Nobody, t}
        /\ walletLock' = [walletLock EXCEPT ![u] = t]
  /\ Goto(t, "insert")
  /\ UNCHANGED <<wallets, balance, ledger, keyLock, draft, change, call, answers, told,
                 calls, aborts>>

\* Variant: ON CONFLICT DO UPDATE.
InsertEntryUpsert(t) ==
  LET s == SlotOf(t) IN
  /\ pc[t] = "insert" /\ keyLock[s] = Nobody
  /\ keyLock' = [keyLock EXCEPT ![s] = t]
  /\ draft' = [draft EXCEPT ![s] = call[t].entry]
  /\ Goto(t, "update")
  /\ UNCHANGED <<wallets, balance, ledger, walletLock, change, call, answers, told,
                 calls, aborts>>

InsertEntry(t) ==
  LET s == SlotOf(t) IN
  /\ pc[t] = "insert"
  /\ keyLock[s] = Nobody /\ ledger[s] = None
  /\ keyLock' = [keyLock EXCEPT ![s] = t]
  /\ draft' = [draft EXCEPT ![s] = call[t].entry]
  /\ Goto(t, "update")
  /\ UNCHANGED <<wallets, balance, ledger, walletLock, change, call, answers, told,
                 calls, aborts>>

Answer(t) == answers' = [answers EXCEPT ![t] = @ \cup {call[t]}]

\* type and amount are compared; meta is not.
SamePayload(e, f) == e.type = f.type /\ e.amount = f.amount

\* Variant: the INSERT does not wait for a row another transaction has not committed.
FoundDirty(t) == keyLock[SlotOf(t)] # Nobody \/ ledger[SlotOf(t)] # None

\* The INSERT returns no id: the key is taken by a committed row, or by this transaction.
Found(t) == keyLock[SlotOf(t)] = t \/ ledger[SlotOf(t)] # None

Replay(t) ==
  /\ pc[t] = "insert" /\ Found(t)
  /\ SamePayload(Seen(t), call[t].entry)
  /\ Answer(t)
  /\ Goto(t, "answered")
  /\ UNCHANGED <<dbVars, call, told, calls, aborts>>

\* ConflictError; grant_once reads it as "already granted" and goes on.
Conflict(t) ==
  /\ pc[t] = "insert" /\ Found(t)
  /\ ~SamePayload(Seen(t), call[t].entry)
  /\ \/ Rollback(t)
     \/ /\ call[t].entry.type = "credit"
        /\ Goto(t, "answered")
        /\ UNCHANGED <<dbVars, call, answers, told>>
  /\ UNCHANGED <<calls, aborts>>

\* Variant: the UPDATE has no gate.
CoversAlways(t) == TRUE

\* UPDATE ... WHERE balance >= amount looks at the row again once it has the lock.
Covers(t) == balance[UserOf(t)] + change[UserOf(t)] >= call[t].entry.amount
MayUpdate(t) == walletLock[UserOf(t)] \in {Nobody, t}

\* It waits only for a row that is enough as it stands: committed, or its own.
LooksCovered(t) ==
  LET u == UserOf(t) IN
  balance[u] + (IF walletLock[u] = t THEN change[u] ELSE 0) >= call[t].entry.amount

Signed(e) == IF e.type = "credit" THEN e.amount ELSE -e.amount

\* Variant: an absolute balance is written, computed from the committed one.
UpdateBalanceOverwrites(t) ==
  LET u == UserOf(t) IN
  /\ pc[t] = "update" /\ MayUpdate(t)
  /\ call[t].entry.type = "debit" => Covers(t)
  /\ walletLock' = [walletLock EXCEPT ![u] = t]
  /\ change' = [change EXCEPT ![u] = Signed(call[t].entry)]
  /\ Answer(t)
  /\ Goto(t, "answered")
  /\ UNCHANGED <<wallets, balance, ledger, keyLock, draft, call, told, calls, aborts>>

UpdateBalance(t) ==
  LET u == UserOf(t) IN
  /\ pc[t] = "update" /\ MayUpdate(t)
  /\ call[t].entry.type = "debit" => Covers(t)
  /\ walletLock' = [walletLock EXCEPT ![u] = t]
  /\ change' = [change EXCEPT ![u] = @ + Signed(call[t].entry)]
  /\ Answer(t)
  /\ Goto(t, "answered")
  /\ UNCHANGED <<wallets, balance, ledger, keyLock, draft, call, told, calls, aborts>>

\* Variant: the caller swallows the error, ledger row and all.
InsufficientSwallowed(t) ==
  /\ pc[t] = "update"
  /\ call[t].entry.type = "debit" /\ ~LooksCovered(t)
  /\ Goto(t, "answered")
  /\ UNCHANGED <<dbVars, call, answers, told, calls, aborts>>

\* The ledger row is already inserted: the error takes the transaction with it.
Insufficient(t) ==
  /\ pc[t] = "update"
  /\ call[t].entry.type = "debit" /\ ~LooksCovered(t)
  /\ Rollback(t)
  /\ UNCHANGED <<calls, aborts>>

Commit(t) ==
  /\ pc[t] = "answered"
  /\ Release(t)
  /\ wallets' = wallets \cup {u \in Users : walletLock[u] = t}
  /\ balance' = [u \in Users |-> IF walletLock[u] = t THEN balance[u] + change[u]
                                                      ELSE balance[u]]
  /\ ledger' = [s \in Slots |-> IF keyLock[s] = t THEN draft[s] ELSE ledger[s]]
  /\ told' = told \cup answers[t]
  /\ UNCHANGED <<calls, aborts>>

Abort(t) ==
  /\ pc[t] # "idle" /\ aborts < MaxAborts
  /\ aborts' = aborts + 1
  /\ Rollback(t)
  /\ UNCHANGED calls

-----------------------------------------------------------------------------
(* Lock cycles.                                                            *)

\* The sessions t waits for.
Blockers(t) ==
  CASE pc[t] = "ensure" /\ ~call[t].refused /\ UserOf(t) \notin wallets ->
         {walletLock[UserOf(t)]} \ {Nobody, t}
    [] pc[t] = "insert" -> {keyLock[SlotOf(t)]} \ {Nobody, t}
    [] pc[t] = "update" /\ (call[t].entry.type = "debit" => LooksCovered(t)) ->
         {walletLock[UserOf(t)]} \ {Nobody, t}
    [] OTHER -> {}

LockCycle(S) == S # {} /\ UNION {Blockers(t) : t \in S} = S

\* The database detects a cycle and rolls one of its transactions back.
DeadlockVictim(t) ==
  /\ \E S \in SUBSET Txs : t \in S /\ LockCycle(S)
  /\ Rollback(t)
  /\ UNCHANGED <<calls, aborts>>

Next ==
  \E t \in Txs :
    \/ \E c \in Wanted : Begin(t, c)
    \/ \E u \in Users : ViewWallet(t, u)
    \/ Refuse(t) \/ EnsureWallet(t) \/ InsertEntry(t) \/ Replay(t) \/ Conflict(t)
    \/ UpdateBalance(t) \/ Insufficient(t) \/ Commit(t)
    \/ Abort(t) \/ DeadlockVictim(t)

Spec == Init /\ [][Next]_vars

-----------------------------------------------------------------------------
(* Properties.                                                             *)

\* Types of the two tables and of the sessions; the balance is never negative
\* (ck_wallets_balance_nonneg), nor would it be if an open transaction committed now.
TypeOK ==
  /\ wallets \subseteq Users
  /\ balance \in [Users -> Nat] /\ change \in [Users -> Int]
  /\ \A u \in Users : balance[u] + change[u] \in Nat
  /\ ledger \in [Slots -> Entry \cup {None}] /\ draft \in [Slots -> Entry \cup {None}]
  /\ walletLock \in [Users -> Txs \cup {Nobody}]
  /\ keyLock \in [Slots -> Txs \cup {Nobody}]
  /\ pc \in [Txs -> {"idle", "ensure", "insert", "update", "answered"}]
  /\ call \in [Txs -> Wanted \cup {None}] /\ answers \in [Txs -> SUBSET Wanted]
  /\ told \subseteq Wanted
  /\ calls \in 0..MaxCalls /\ aborts \in 0..MaxAborts

\* What the rows r of the slots S add up to.
Total(r, S) == SumFunction([s \in S |-> Signed(r[s])])

Posted(u) == {s \in {u} \X Keys : ledger[s] # None}

\* The balance is the sum of the user's ledger: no interleaving of debits, credits,
\* replays, refusals and rollbacks moves one without the other.
BalanceIsTheLedger == \A u \in Users : balance[u] = Total(ledger, Posted(u))

\* A call the client was told succeeded has its row: a replay is never answered from
\* a row whose transaction was rolled back, and never for another type or amount.
AnswersAreBacked ==
  \A c \in told :
    /\ ledger[c.slot] # None
    /\ ledger[c.slot].type = c.entry.type /\ ledger[c.slot].amount = c.entry.amount

\* Statement by statement, the sessions keep the promise of a wallet that serves the calls
\* of a transaction in one step: what is committed is what it would have done.
Promise == INSTANCE WalletPromise WITH Call <- Wanted
KeepsTheWalletPromise == Promise!Spec

\* Transactions of one call never wait for each other in a circle: all of them take
\* the key before the wallet row.
SingleCallsNeverDeadlock == \A S \in SUBSET (Txs \ Batchers) : ~LockCycle(S)

-----------------------------------------------------------------------------
(* The inductive invariant behind the safety properties.                   *)

\* A session in the middle of a call knows its call; past the INSERT it holds the key.
Serving ==
  \A t \in Txs :
    /\ pc[t] \in {"ensure", "insert", "update"} => call[t] # None
    /\ pc[t] = "update" => keyLock[SlotOf(t)] = t /\ draft[SlotOf(t)] = call[t].entry

\* A draft stands in a free slot, and only its holder has one.
Drafts ==
  \A s \in Slots :
    keyLock[s] # Nobody => ledger[s] = None /\ draft[s] # None

\* The row under a slot, as session t sees it, answers call c.
Backs(r, c) == r # None /\ SamePayload(r, c.entry)

\* Answers of open transactions are backed by a committed row or by the session's own.
Backed ==
  \A t \in Txs, c \in Wanted : c \in answers[t] =>
    \/ Backs(ledger[c.slot], c)
    \/ keyLock[c.slot] = t /\ Backs(draft[c.slot], c)

\* What is held at each statement by a transaction of one call: nothing before the first
\* INSERT, no key before the second, and until the UPDATE only a wallet row of its own making.
SingleLocks ==
  \A t \in Txs \ Batchers :
    /\ pc[t] \in {"idle", "ensure"} => \A u \in Users : walletLock[u] # t
    /\ pc[t] \in {"idle", "ensure", "insert"} => \A s \in Slots : keyLock[s] # t
    /\ pc[t] \in {"insert", "update"} => \A u \in Users : walletLock[u] = t => u \notin wallets

\* Past the first statement the wallet row is there, or it is the transaction's own.
HasWallet ==
  \A t \in Txs : pc[t] \in {"insert", "update"} =>
    UserOf(t) \in wallets \/ walletLock[UserOf(t)] = t

IInv ==
  TypeOK /\ Serving /\ Drafts /\ Backed /\ AnswersAreBacked /\ SingleLocks /\ HasWallet

\* The rows session t has inserted for user u and added to the balance.
Applied(t, u) ==
  {s \in {u} \X Keys : keyLock[s] = t /\ ~(pc[t] = "update" /\ s = SlotOf(t))}

\* Who holds the wallet row has changed it by what its rows say; who does not hold it
\* has added no row.
ChangesAreDrafts ==
  \A u \in Users :
    /\ walletLock[u] = Nobody => change[u] = 0
    /\ \A t \in Txs : IF walletLock[u] = t THEN change[u] = Total(draft, Applied(t, u))
                      ELSE Applied(t, u) = {}

\* There are finitely many rows to add up.
FiniteBooks == IsFiniteSet({s \in Slots : ledger[s] # None \/ keyLock[s] # Nobody})

\* A row a session has inserted is of a call it has answered, or of the one it is making.
RowsAreAnswered ==
  \A t \in Txs, s \in Slots : keyLock[s] = t =>
    \/ pc[t] = "update" /\ s = SlotOf(t)
    \/ \E c \in answers[t] : c.slot = s /\ c.entry = draft[s]

\* The inductive invariant of the balance, beside IInv.
Balanced == FiniteBooks /\ ChangesAreDrafts /\ BalanceIsTheLedger

=============================================================================
