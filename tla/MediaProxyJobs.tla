--------------------------- MODULE MediaProxyJobs ---------------------------
(***************************************************************************)
(* Media generation through the vendor proxy (ADR-108): the submit         *)
(* transaction, the proxy's callbacks, the owner's GET and DELETE and the  *)
(* background reconciler, all of them database transactions over the same  *)
(* media_jobs rows and over the owner's wallet row.                        *)
(*                                                                         *)
(* `row` is what is committed.  A transaction that holds the row lock      *)
(* changes its own version, work[j]; Commit publishes it together with the *)
(* ledger entries the transaction wrote (fresh), a rollback drops both.    *)
(* What leaves the database at once survives a rollback: the runs the      *)
(* proxy accepted (runs) and the pushes handed to APNs (pushes).           *)
(***************************************************************************)
EXTENDS Naturals, FiniteSets

CONSTANTS
  Jobs,          \* job ids that may ever be minted
  Users,
  Owner,         \* the user of each job
  Priced,        \* jobs with credits_charged > 0; the others are hidden, free runs
  Routes,        \* how many candidate routes each job has; the last one is fal
  Handlers,      \* request workers of the API
  Reconcilers,   \* one background loop per API process
  Batch,         \* MEDIA_RECONCILE_BATCH_SIZE
  MaxCallbacks,  \* bound: callbacks the proxy delivers, repeats included
  MaxAborts,     \* bound: transactions lost to a crash or a database error
  Nobody         \* holder of a free lock, job of an idle process

Procs == Handlers \cup Reconcilers

ASSUME ConstantsAssumption ==
  /\ Owner \in [Jobs -> Users]
  /\ Priced \subseteq Jobs
  /\ Routes \in [Jobs -> {1, 2}]
  /\ Handlers \cap Reconcilers = {} /\ IsFiniteSet(Handlers \cup Reconcilers)
  /\ Nobody \notin Jobs \cup Procs
  /\ Batch \in Nat \ {0}
  /\ MaxCallbacks \in Nat
  /\ MaxAborts \in Nat

VARIABLES
  row,        \* media_jobs, committed
  work,       \* the version of the transaction that holds the row
  rowLock,    \* SELECT ... FOR UPDATE, or the uncommitted INSERT of the submit
  walletLock, \* the wallet row an uncommitted debit or refund has updated
  ledger,     \* ledger_transactions, committed, by idempotency key
  fresh,      \* ledger rows inserted by a transaction that is still open
  minted,     \* job ids drawn by a submit, whatever became of it
  runs,       \* <<job, attempt>>: runs the proxy has accepted
  overdue,    \* jobs older than MEDIA_JOB_DEADLINE_SECONDS
  pc, task,   \* where each process is, and in what
  pushes,     \* media-ready pushes handed to APNs
  callbacks, aborts

dbVars == <<row, work, rowLock, walletLock, ledger, fresh>>
vars == <<row, work, rowLock, walletLock, ledger, fresh, minted, runs, overdue,
          pc, task, pushes, callbacks, aborts>>

-----------------------------------------------------------------------------

Open == {"queued", "running"}
Terminal == {"completed", "failed"}
Attempts == {1, 2}

\* `at` is the attempt that owns the job: provider is its service and
\* remaining_routes the routes after it.  `pending` and `result` name the
\* attempt whose assets they hold, 0 for none.  `gone` is the deleted row; its
\* other fields then keep the last values, for the properties.
Row == [st : {"absent"} \cup Open \cup Terminal, at : Attempts \cup {0},
        pending : Attempts \cup {0}, result : Attempts \cup {0},
        refunded : BOOLEAN, pushed : BOOLEAN, gone : BOOLEAN]

NoRow == [st |-> "absent", at |-> 0, pending |-> 0, result |-> 0,
          refunded |-> FALSE, pushed |-> FALSE, gone |-> FALSE]

Gen(j) == <<"media-gen", j>>
Refund(j) == <<"media-refund", j>>
Keys == {"media-gen", "media-refund"} \X Jobs

Says == {"pending", "bad", "good"}
Kinds == {"none", "submit", "callback", "poll", "delete", "batch"}
Idle == [kind |-> "none", job |-> Nobody, attempt |-> 0, says |-> "pending", todo |-> {}]
Tasks == [kind : Kinds, job : Jobs \cup {Nobody}, attempt : Attempts \cup {0},
          says : Says, todo : SUBSET Jobs]
Steps == {"idle", "debit", "transport", "lock", "decide", "complete", "refund",
          "next", "commit"}

Visible(j) == row[j].st # "absent" /\ ~row[j].gone
IsOpen(r) == r.st \in Open
IsTerminal(r) == r.st \in Terminal

Init ==
  /\ row = [j \in Jobs |-> NoRow]
  /\ work = row
  /\ rowLock = [j \in Jobs |-> Nobody]
  /\ walletLock = [u \in Users |-> Nobody]
  /\ ledger = {} /\ fresh = {}
  /\ minted = {} /\ runs = {} /\ overdue = {}
  /\ pc = [p \in Procs |-> "idle"]
  /\ task = [p \in Procs |-> Idle]
  /\ pushes = [j \in Jobs |-> 0]
  /\ callbacks = 0 /\ aborts = 0

-----------------------------------------------------------------------------
(* Transactions.                                                           *)

Held(p) == {j \in Jobs : rowLock[j] = p}

Goto(p, label) == pc' = [pc EXCEPT ![p] = label]

\* The transaction is over: its locks are free and its worker is idle.
Release(p) ==
  /\ rowLock' = [j \in Jobs |-> IF rowLock[j] = p THEN Nobody ELSE rowLock[j]]
  /\ walletLock' = [u \in Users |-> IF walletLock[u] = p THEN Nobody ELSE walletLock[u]]
  /\ fresh' = {e \in fresh : rowLock[e[2]] # p}
  /\ Goto(p, "idle")
  /\ task' = [task EXCEPT ![p] = Idle]

Rollback(p) ==
  /\ Release(p)
  /\ work' = [j \in Jobs |-> IF rowLock[j] = p THEN row[j] ELSE work[j]]
  /\ UNCHANGED <<row, ledger>>

Commit(p) ==
  /\ pc[p] = "commit"
  /\ Release(p)
  /\ row' = [j \in Jobs |-> IF rowLock[j] = p THEN work[j] ELSE row[j]]
  /\ ledger' = ledger \cup {e \in fresh : rowLock[e[2]] = p}
  /\ UNCHANGED <<work, minted, runs, overdue, pushes, callbacks, aborts>>

\* A crash, a cancelled request, a failed COMMIT, a lock cycle the database
\* breaks: it rolls the transaction back.
Abort(p) ==
  /\ pc[p] # "idle" /\ aborts < MaxAborts
  /\ aborts' = aborts + 1
  /\ Rollback(p)
  /\ UNCHANGED <<minted, runs, overdue, pushes, callbacks>>

\* The wallet row of u, taken by the first debit or refund of the transaction.
TakeWallet(p, u) ==
  /\ walletLock[u] \in {Nobody, p}
  /\ walletLock' = [walletLock EXCEPT ![u] = p]

\* The process a blocked one waits for, if any.
Blockers(p) ==
  LET j == task[p].job IN
  CASE pc[p] = "lock" -> {rowLock[j]} \ {Nobody}
    [] pc[p] \in {"debit", "refund"} /\ j \in Priced ->
         {walletLock[Owner[j]]} \ {Nobody, p}
    [] OTHER -> {}

InLockCycle(p) ==
  \E S \in SUBSET Procs : p \in S /\ UNION {Blockers(q) : q \in S} = S

-----------------------------------------------------------------------------
(* Submit: debit, transport and INSERT in one transaction.                 *)

\* Variant: the owning route is taken from the index of the remaining ones.
SubmitOutcomesOffByOne(j, first) ==
  LET left == {k \in Attempts : first <= k /\ k <= Routes[j]} IN
  {[accepted |-> k + 1, paid |-> {<<j, k>>}] : k \in left}

\* What trying the routes from `first` on can end in: an accepting route, the
\* refusal of all of them, or a transport error at one of them, which stops the
\* loop although the proxy may have accepted that run.
SubmitOutcomes(j, first) ==
  LET left == {k \in Attempts : first <= k /\ k <= Routes[j]} IN
       {[accepted |-> k, paid |-> {<<j, k>>}] : k \in left}
  \cup {[accepted |-> 0, paid |-> {}]}
  \cup {[accepted |-> 0, paid |-> {<<j, k>>}] : k \in left}

BeginSubmit(p, j) ==
  /\ p \in Handlers /\ pc[p] = "idle" /\ j \notin minted
  /\ minted' = minted \cup {j}
  /\ rowLock' = [rowLock EXCEPT ![j] = p]
  /\ task' = [task EXCEPT ![p] = [Idle EXCEPT !.kind = "submit", !.job = j]]
  /\ Goto(p, IF j \in Priced THEN "debit" ELSE "transport")
  /\ UNCHANGED <<row, work, walletLock, ledger, fresh, runs, overdue, pushes,
                 callbacks, aborts>>

Debit(p) ==
  LET j == task[p].job IN
  /\ pc[p] = "debit"
  /\ TakeWallet(p, Owner[j])
  /\ fresh' = fresh \cup {Gen(j)}
  /\ Goto(p, "transport")
  /\ UNCHANGED <<row, work, rowLock, ledger, minted, runs, overdue, task, pushes,
                 callbacks, aborts>>

InsufficientCredits(p) ==
  /\ pc[p] = "debit" /\ walletLock[Owner[task[p].job]] = Nobody
  /\ Rollback(p)
  /\ UNCHANGED <<minted, runs, overdue, pushes, callbacks, aborts>>

SubmitAccepted(p) ==
  LET j == task[p].job IN
  /\ pc[p] = "transport"
  /\ \E o \in SubmitOutcomes(j, 1) :
       /\ o.accepted # 0
       /\ runs' = runs \cup o.paid
       /\ work' = [work EXCEPT ![j].st = "queued", ![j].at = o.accepted]
  /\ Goto(p, "commit")
  /\ UNCHANGED <<row, rowLock, walletLock, ledger, fresh, minted, overdue, task,
                 pushes, callbacks, aborts>>

\* Variant: the caller turns the refusal into a soft error and commits, debit and all.
SubmitRefusedNoSavepoint(p) ==
  /\ pc[p] = "transport"
  /\ Goto(p, "commit")
  /\ UNCHANGED <<dbVars, minted, runs, overdue, task, pushes, callbacks, aborts>>

SubmitRefused(p) ==
  /\ pc[p] = "transport"
  /\ \E o \in SubmitOutcomes(task[p].job, 1) : o.accepted = 0 /\ runs' = runs \cup o.paid
  /\ Rollback(p)
  /\ UNCHANGED <<minted, overdue, pushes, callbacks, aborts>>

-----------------------------------------------------------------------------
(* Requests that find a job: the callback, GET and DELETE.                 *)

Arrive(p, t) ==
  /\ p \in Handlers /\ pc[p] = "idle"
  /\ Goto(p, "lock")
  /\ task' = [task EXCEPT ![p] = t]
  /\ UNCHANGED <<dbVars, minted, runs, overdue, pushes, aborts>>

\* Any accepted run may call back, at any time, as often as the bound allows.
Callback(p, j, k, says) ==
  /\ <<j, k>> \in runs /\ callbacks < MaxCallbacks /\ Visible(j)
  /\ callbacks' = callbacks + 1
  /\ Arrive(p, [Idle EXCEPT !.kind = "callback", !.job = j, !.attempt = k, !.says = says])

\* The run is known to the proxy before its row is committed, or after the row
\* was deleted or never came to be: 404, and the callback is lost.
CallbackUnknown(p, j, k) ==
  /\ p \in Handlers /\ pc[p] = "idle"
  /\ <<j, k>> \in runs /\ callbacks < MaxCallbacks /\ ~Visible(j)
  /\ callbacks' = callbacks + 1
  /\ UNCHANGED <<dbVars, minted, runs, overdue, pc, task, pushes, aborts>>

Poll(p, j) ==
  /\ Visible(j) /\ IsOpen(row[j])
  /\ Arrive(p, [Idle EXCEPT !.kind = "poll", !.job = j])
  /\ UNCHANGED callbacks

Delete(p, j) ==
  /\ Visible(j) /\ IsTerminal(row[j])
  /\ Arrive(p, [Idle EXCEPT !.kind = "delete", !.job = j])
  /\ UNCHANGED callbacks

LockRow(p) ==
  LET j == task[p].job IN
  /\ pc[p] = "lock" /\ rowLock[j] = Nobody
  /\ IF Visible(j)
     THEN /\ rowLock' = [rowLock EXCEPT ![j] = p]
          /\ Goto(p, "decide") /\ UNCHANGED task
     ELSE /\ Goto(p, "idle") /\ task' = [task EXCEPT ![p] = Idle]
          /\ UNCHANGED rowLock
  /\ UNCHANGED <<row, work, walletLock, ledger, fresh, minted, runs, overdue, pushes,
                 callbacks, aborts>>

\* The job of this transaction is dealt with: the reconciler takes its next one.
Done(p) == Goto(p, IF task[p].kind = "batch" THEN "next" ELSE "commit")

Deciding(p, kinds) == pc[p] = "decide" /\ task[p].kind \in kinds

DeleteRow(p) ==
  /\ Deciding(p, {"delete"})
  /\ work' = [work EXCEPT ![task[p].job].gone = TRUE]
  /\ Done(p)
  /\ UNCHANGED <<row, rowLock, walletLock, ledger, fresh, minted, runs, overdue, task,
                 pushes, callbacks, aborts>>

-----------------------------------------------------------------------------
(* A callback under the row lock.                                          *)

\* Variant: the callback URL does not tell the attempts apart.
StaleNever(r, t) == FALSE

Stale(r, t) == t.attempt # r.at

\* Variants: the terminal check, or the one for a result already received, is missing.
IgnoredNoTerminal(r, t) == Stale(r, t) \/ (r.pending # 0 /\ t.says # "good")
IgnoredNoResult(r, t) == IsTerminal(r) \/ Stale(r, t)

\* Terminal job, previous attempt, or a result already received.
Ignored(r, t) ==
  \/ IsTerminal(r)
  \/ Stale(r, t)
  \/ r.pending # 0 /\ t.says # "good"

IgnoreCallback(p) ==
  /\ Deciding(p, {"callback"})
  /\ Ignored(work[task[p].job], task[p])
  /\ Done(p)
  /\ UNCHANGED <<dbVars, minted, runs, overdue, task, pushes, callbacks, aborts>>

CallbackPending(p) ==
  LET j == task[p].job IN
  /\ Deciding(p, {"callback"})
  /\ ~Ignored(work[j], task[p]) /\ task[p].says = "pending"
  /\ work' = [work EXCEPT ![j].st = "running"]
  /\ Done(p)
  /\ UNCHANGED <<row, rowLock, walletLock, ledger, fresh, minted, runs, overdue, task,
                 pushes, callbacks, aborts>>

\* The result is recorded, or was recorded by an earlier callback and stays; once it
\* is there, a completed callback without a usable asset is as good as any other.
CallbackGood(p) ==
  LET j == task[p].job IN
  /\ Deciding(p, {"callback"})
  /\ ~Ignored(work[j], task[p]) /\ task[p].says = "good"
  /\ work' = [work EXCEPT ![j].pending = IF @ = 0 THEN task[p].attempt ELSE @]
  /\ Goto(p, "complete")
  /\ UNCHANGED <<row, rowLock, walletLock, ledger, fresh, minted, runs, overdue, task,
                 pushes, callbacks, aborts>>

\* The vendor failed, or none of its assets was usable: the next route, unless
\* there is none, the job is overdue, or nobody accepts it.
CallbackBad(p) ==
  LET j == task[p].job
      mayResubmit == work[j].at < Routes[j] /\ j \notin overdue IN
  /\ Deciding(p, {"callback"})
  /\ ~Ignored(work[j], task[p]) /\ task[p].says = "bad"
  /\ IF mayResubmit
     THEN \E o \in SubmitOutcomes(j, work[j].at + 1) :
            /\ runs' = runs \cup o.paid
            /\ IF o.accepted # 0
               THEN /\ work' = [work EXCEPT ![j].at = o.accepted, ![j].st = "running"]
                    /\ Done(p)
               ELSE Goto(p, "refund") /\ UNCHANGED work
     ELSE Goto(p, "refund") /\ UNCHANGED <<work, runs>>
  /\ UNCHANGED <<row, rowLock, walletLock, ledger, fresh, minted, overdue, task, pushes,
                 callbacks, aborts>>

-----------------------------------------------------------------------------
(* GET and the reconciler's tick under the row lock.                       *)

\* Variant: the status read before the lock is trusted.
AdvanceProxyUnchecked(p) ==
  LET j == task[p].job IN
  /\ Deciding(p, {"poll", "batch"})
  /\ IF work[j].pending # 0
     THEN Goto(p, "complete") /\ UNCHANGED work
     ELSE IF j \in overdue
          THEN Goto(p, "refund") /\ UNCHANGED work
          ELSE work' = [work EXCEPT ![j].st = "running"] /\ Done(p)
  /\ UNCHANGED <<row, rowLock, walletLock, ledger, fresh, minted, runs, overdue, task,
                 pushes, callbacks, aborts>>

\* Variant: the deadline is looked at before the result.
AdvanceProxyDeadlineFirst(p) ==
  LET j == task[p].job IN
  /\ Deciding(p, {"poll", "batch"})
  /\ IsOpen(work[j])
  /\ Goto(p, IF j \in overdue THEN "refund"
             ELSE IF work[j].pending # 0 THEN "complete"
             ELSE IF task[p].kind = "batch" THEN "next" ELSE "commit")
  /\ UNCHANGED <<dbVars, minted, runs, overdue, task, pushes, callbacks, aborts>>

AdvanceProxy(p) ==
  LET j == task[p].job
      r == work[j] IN
  /\ Deciding(p, {"poll", "batch"})
  /\ \/ IsTerminal(r) /\ Done(p) /\ UNCHANGED work
     \/ IsOpen(r) /\ r.pending # 0 /\ Goto(p, "complete") /\ UNCHANGED work
     \/ IsOpen(r) /\ r.pending = 0 /\ j \in overdue /\ Goto(p, "refund") /\ UNCHANGED work
     \/ /\ IsOpen(r) /\ r.pending = 0 /\ j \notin overdue
        /\ work' = [work EXCEPT ![j].st = "running"]
        /\ Done(p)
  /\ UNCHANGED <<row, rowLock, walletLock, ledger, fresh, minted, runs, overdue, task,
                 pushes, callbacks, aborts>>

-----------------------------------------------------------------------------
(* The completion path, one for the callback and the poll.                 *)

\* mark_completed, then the push of a visible job, claimed by push_sent_at in this
\* transaction.
Complete(p) ==
  LET j == task[p].job
      notifies == j \in Priced /\ ~work[j].pushed IN
  /\ pc[p] = "complete"
  /\ work' = [work EXCEPT ![j].st = "completed", ![j].result = work[j].pending,
                          ![j].pending = 0, ![j].pushed = @ \/ notifies]
  /\ pushes' = [pushes EXCEPT ![j] = IF notifies THEN @ + 1 ELSE @]
  /\ Done(p)
  /\ UNCHANGED <<row, rowLock, walletLock, ledger, fresh, minted, runs, overdue, task,
                 callbacks, aborts>>

\* Post-moderation blocked the result, or the feature handler rejected it.
Reject(p) ==
  /\ pc[p] = "complete"
  /\ Goto(p, "refund")
  /\ UNCHANGED <<dbVars, minted, runs, overdue, task, pushes, callbacks, aborts>>

\* Variant: the poll never closes a job whose completion fails.
TransientForever(p) ==
  /\ pc[p] = "complete"
  /\ IF task[p].kind = "poll"
     THEN Rollback(p)
     ELSE Done(p) /\ UNCHANGED <<dbVars, task>>
  /\ UNCHANGED <<minted, runs, overdue, pushes, callbacks, aborts>>

\* Moderation or the handler is unavailable.  The callback keeps the result and
\* commits; the poll closes an overdue job and otherwise leaves it for later: a
\* GET fails and rolls back, the reconciler logs and goes on.
Transient(p) ==
  LET j == task[p].job IN
  /\ pc[p] = "complete"
  /\ \/ /\ task[p].kind = "callback"
        /\ Goto(p, "commit")
        /\ UNCHANGED <<dbVars, task>>
     \/ /\ task[p].kind # "callback" /\ j \in overdue
        /\ Goto(p, "refund")
        /\ UNCHANGED <<dbVars, task>>
     \/ /\ task[p].kind = "batch" /\ j \notin overdue
        /\ Goto(p, "next")
        /\ UNCHANGED <<dbVars, task>>
     \/ /\ task[p].kind = "poll" /\ j \notin overdue
        /\ Rollback(p)
  /\ UNCHANGED <<minted, runs, overdue, pushes, callbacks, aborts>>

\* _fail and _blocked_by_moderation: the refund, then mark_failed.
Fail(p) ==
  LET j == task[p].job
      pays == j \in Priced /\ ~work[j].refunded IN
  /\ pc[p] = "refund"
  /\ IF pays
     THEN /\ TakeWallet(p, Owner[j])
          /\ fresh' = fresh \cup ({Refund(j)} \ ledger)
     ELSE UNCHANGED <<walletLock, fresh>>
  /\ work' = [work EXCEPT ![j].st = "failed", ![j].refunded = @ \/ pays,
                          ![j].pending = 0]
  /\ Done(p)
  /\ UNCHANGED <<row, rowLock, ledger, minted, runs, overdue, task, pushes,
                 callbacks, aborts>>

-----------------------------------------------------------------------------
(* The reconciler: one transaction for the whole batch.                    *)

OpenJobs == {j \in Jobs : Visible(j) /\ IsOpen(row[j])}

\* Oldest first, so an overdue job never waits behind a young one.
Batches ==
  {S \in SUBSET OpenJobs :
     /\ Cardinality(S) = IF Cardinality(OpenJobs) < Batch THEN Cardinality(OpenJobs)
                                                          ELSE Batch
     /\ (S \ overdue # {}) => OpenJobs \cap overdue \subseteq S}

SelectBatch(p) ==
  /\ p \in Reconcilers /\ pc[p] = "idle" /\ OpenJobs # {}
  /\ \E S \in Batches :
       task' = [task EXCEPT ![p] = [Idle EXCEPT !.kind = "batch", !.todo = S]]
  /\ Goto(p, "next")
  /\ UNCHANGED <<dbVars, minted, runs, overdue, pushes, callbacks, aborts>>

\* Variant: the loop takes the row without a lock.
MayTakeAnyway(j) == Visible(j)

\* SKIP LOCKED: a row somebody holds is left for the next tick.
MayTake(j) == rowLock[j] = Nobody /\ Visible(j)

TakeJob(p, j) ==
  /\ pc[p] = "next" /\ j \in task[p].todo /\ MayTake(j)
  /\ rowLock' = [rowLock EXCEPT ![j] = p]
  /\ task' = [task EXCEPT ![p].job = j, ![p].todo = @ \ {j}]
  /\ Goto(p, "decide")
  /\ UNCHANGED <<row, work, walletLock, ledger, fresh, minted, runs, overdue, pushes,
                 callbacks, aborts>>

\* Variant: the loop waits for a locked row.
SkipJobWaits(p, j) ==
  /\ pc[p] = "next" /\ j \in task[p].todo /\ ~MayTake(j)
  /\ task' = [task EXCEPT ![p].job = j, ![p].todo = @ \ {j}]
  /\ Goto(p, "lock")
  /\ UNCHANGED <<dbVars, minted, runs, overdue, pushes, callbacks, aborts>>

SkipJob(p, j) ==
  /\ pc[p] = "next" /\ j \in task[p].todo /\ ~MayTake(j)
  /\ task' = [task EXCEPT ![p].todo = @ \ {j}]
  /\ UNCHANGED <<dbVars, minted, runs, overdue, pc, pushes, callbacks, aborts>>

EndBatch(p) ==
  /\ pc[p] = "next" /\ task[p].todo = {}
  /\ Goto(p, "commit")
  /\ UNCHANGED <<dbVars, minted, runs, overdue, task, pushes, callbacks, aborts>>

-----------------------------------------------------------------------------

\* Time passes: an open job crosses its deadline.
Tick(j) ==
  /\ j \in OpenJobs \ overdue
  /\ overdue' = overdue \cup {j}
  /\ UNCHANGED <<dbVars, minted, runs, pc, task, pushes, callbacks, aborts>>

Request(p, j) ==
  \/ BeginSubmit(p, j)
  \/ \E k \in Attempts, says \in Says : Callback(p, j, k, says)
  \/ \E k \in Attempts : CallbackUnknown(p, j, k)
  \/ Poll(p, j)
  \/ Delete(p, j)

\* The steps that bring an open transaction to its end.
Run(p) ==
  \/ Debit(p) \/ InsufficientCredits(p) \/ SubmitAccepted(p) \/ SubmitRefused(p)
  \/ LockRow(p) \/ DeleteRow(p)
  \/ IgnoreCallback(p) \/ CallbackPending(p) \/ CallbackGood(p) \/ CallbackBad(p)
  \/ AdvanceProxy(p)
  \/ Complete(p) \/ Reject(p) \/ Transient(p) \/ Fail(p)
  \/ \E j \in Jobs : TakeJob(p, j) \/ SkipJob(p, j)
  \/ EndBatch(p)
  \/ Commit(p)

Next ==
  \/ \E p \in Procs :
       \/ \E j \in Jobs : Request(p, j)
       \/ SelectBatch(p)
       \/ Run(p)
       \/ Abort(p)
  \/ \E j \in Jobs : Tick(j)

\* Requests may never come.  The loop ticks, an open transaction goes on, and
\* the clock passes every deadline.
Fairness ==
  /\ \A p \in Procs : WF_vars(Run(p))
  /\ \A p \in Reconcilers : WF_vars(SelectBatch(p))
  /\ \A j \in Jobs : WF_vars(Tick(j))

Spec == Init /\ [][Next]_vars
FairSpec == Spec /\ Fairness

-----------------------------------------------------------------------------
(* Properties.                                                             *)

\* Type invariant of the rows, the transactions and the bookkeeping.
TypeOK ==
  /\ row \in [Jobs -> Row] /\ work \in [Jobs -> Row]
  /\ rowLock \in [Jobs -> Procs \cup {Nobody}]
  /\ walletLock \in [Users -> Procs \cup {Nobody}]
  /\ ledger \subseteq Keys /\ fresh \subseteq Keys
  /\ minted \subseteq Jobs /\ overdue \subseteq Jobs
  /\ runs \subseteq Jobs \X Attempts
  /\ pc \in [Procs -> Steps] /\ task \in [Procs -> Tasks]
  /\ pushes \in [Jobs -> Nat]
  /\ callbacks \in 0..MaxCallbacks /\ aborts \in 0..MaxAborts

\* Credits and jobs stay together across every commit and rollback: a priced job
\* is debited exactly when its row exists, its credits are back exactly when it
\* has failed, and credits_refunded says so (submit's savepoint, _fail).
MoneyFollowsTheJob ==
  \A j \in Jobs :
    /\ Gen(j) \in ledger <=> j \in Priced /\ row[j].st # "absent"
    /\ Refund(j) \in ledger <=> j \in Priced /\ row[j].st = "failed"
    /\ row[j].refunded <=> Refund(j) \in ledger

\* The attempt that owns a job was accepted by the proxy, a stored result is the
\* result of that attempt, and so are the assets of a completed job: a callback
\* of an abandoned route never decides (stale_attempt, 4.2 p. 4a).
OwningAttemptDecides ==
  \A j \in Jobs : row[j].st # "absent" =>
    /\ <<j, row[j].at>> \in runs
    /\ row[j].pending \in {0, row[j].at}
    /\ row[j].st = "completed" => row[j].result = row[j].at

\* No request is ever part of a lock cycle: callbacks and GETs wait for at most
\* one row while they hold nothing, and the reconciler skips what is locked.
RequestsNeverDeadlock == \A p \in Handlers : ~InLockCycle(p)

\* The first terminal outcome wins: what a late callback, the deadline or a
\* second poller does afterwards changes neither status nor assets nor money.
FirstOutcomeWins ==
  [][\A j \in Jobs : IsTerminal(row[j]) =>
       [row'[j] EXCEPT !.gone = row[j].gone] = row[j]]_vars

\* A result the only callback brought is not lost: once committed it stays until
\* the job is terminal, and no transaction gives the job up, by deadline or by a
\* later failure callback, without having tried to complete it with that result.
ResultIsKept ==
  [][/\ \A j \in Jobs : row[j].pending # 0 =>
          row'[j].pending = row[j].pending \/ IsTerminal(row'[j])
     /\ \A p \in Procs : pc[p] = "decide" /\ pc'[p] = "refund" =>
          work[task[p].job].pending = 0]_vars

\* No vendor run is bought for nothing: a run is accepted for a new job, or for an
\* open one whose result nobody has and on a route not tried before (4.4).
NoNeedlessPurchase ==
  [][\A j \in Jobs, k \in Attempts : <<j, k>> \in runs' \ runs =>
       \/ row[j].st = "absent"
       \/ IsOpen(row[j]) /\ row[j].pending = 0 /\ row[j].at < k]_vars

\* Whatever is lost between the proxy and the API, an accepted job reaches a
\* terminal status: the reconciler closes it by the deadline at the latest.
EveryJobSettles == \A j \in Jobs : (row[j].st = "queued") ~> IsTerminal(row[j])

\* What the clients are promised of a job and of its credits.
Promise == INSTANCE MediaJobPromise WITH
  phase <- [j \in Jobs |-> IF IsOpen(row[j]) THEN "open" ELSE row[j].st],
  account <- [j \in Jobs |-> IF Refund(j) \in ledger THEN "refunded"
                             ELSE IF Gen(j) \in ledger THEN "charged" ELSE "untouched"]

\* The transactions implement the promise of MediaJobPromise.
KeepsThePromise == Promise!Spec

-----------------------------------------------------------------------------
(* The inductive invariant behind the safety properties: what holds of the     *)
(* uncommitted versions too.                                                   *)

\* A row r and the ledger entries L agree about the credits of job j.
Balanced(r, L, j) ==
  /\ Gen(j) \in L <=> j \in Priced /\ r.st # "absent"
  /\ Refund(j) \in L <=> j \in Priced /\ r.st = "failed"
  /\ r.refunded <=> Refund(j) \in L

\* Between the debit and the INSERT the submit's own view is out of balance.
Charging(j) == \E p \in Procs : rowLock[j] = p /\ pc[p] = "transport" /\ task[p].job = j

Books ==
  \A j \in Jobs :
    /\ Balanced(row[j], ledger, j)
    /\ Balanced(work[j], ledger \cup fresh, j) \/ Charging(j)

\* Only the holder of a row has a version of its own and uncommitted entries.
Versions ==
  /\ \A j \in Jobs : rowLock[j] = Nobody => work[j] = row[j]
  /\ \A e \in fresh : rowLock[e[2]] # Nobody

Owned(r, j) ==
  r.st # "absent" =>
    /\ <<j, r.at>> \in runs
    /\ r.pending \in {0, r.at}
    /\ r.st = "completed" => r.result = r.at

SameOutcome(r, s) == [r EXCEPT !.gone = s.gone] = s

\* How a version may differ from the committed row it will replace.
Lineage ==
  \A j \in Jobs :
    /\ Owned(row[j], j) /\ Owned(work[j], j)
    /\ IsTerminal(row[j]) => SameOutcome(work[j], row[j])
    /\ row[j].st = "absent" => work[j].st \in {"absent", "queued"}
    /\ row[j].st # "absent" => work[j].st # "absent"
    /\ j \notin minted => row[j] = NoRow /\ rowLock[j] = Nobody

\* What each label of a transaction says of the job it is at.
Position(p) ==
  LET j == task[p].job IN
  /\ pc[p] \notin {"idle", "next", "commit"} => j \in Jobs
  /\ pc[p] \in {"debit", "transport"} =>
       /\ rowLock[j] = p /\ row[j] = NoRow /\ work[j] = NoRow
       /\ Refund(j) \notin fresh
  /\ pc[p] = "debit" => j \in Priced /\ Gen(j) \notin fresh
  /\ pc[p] = "transport" => (Gen(j) \in fresh <=> j \in Priced)
  /\ pc[p] \in {"decide", "complete", "refund"} =>
       rowLock[j] = p /\ row[j].st # "absent"
  /\ pc[p] \in {"complete", "refund"} => IsOpen(work[j])
  /\ pc[p] = "complete" => work[j].pending # 0

Positions == \A p \in Procs : Position(p)

IInv == TypeOK /\ Books /\ Versions /\ Lineage /\ Positions

\* What a process holds while it may have to wait.  A request waits for a row with nothing,
\* and for a wallet with no wallet; the loop never waits for a row.
Order(p) ==
  /\ p \in Reconcilers => pc[p] # "lock"
  /\ p \in Handlers =>
       /\ task[p].kind # "batch" /\ pc[p] # "next"
       /\ pc[p] \in {"idle", "lock"} => Held(p) = {}
       /\ pc[p] \notin {"transport", "commit"} => \A u \in Users : walletLock[u] # p

LockOrder == \A p \in Procs : Order(p)

=============================================================================
