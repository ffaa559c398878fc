--------------------------- MODULE MediaLegacyJobs ---------------------------
(***************************************************************************)
(* Media jobs of the direct fal client (provider = ''): nobody calls back, *)
(* the owner's GET and the reconciler poll fal.  A poller works on the row *)
(* it loaded, without a lock, across its calls to fal and to moderation;   *)
(* its UPDATEs name the attributes it changed and take the row lock then.  *)
(* The refund takes the ledger key, then the wallet row, then the job row. *)
(***************************************************************************)
EXTENDS Naturals, FiniteSets

CONSTANTS
  Jobs,         \* jobs of one user, all priced
  Handlers,     \* request workers: one job per transaction
  Reconcilers,  \* loops: every open job in one transaction
  MaxPolls,     \* bound: GETs of the owner
  MaxAborts,    \* bound: transactions lost to a crash or a database error
  Nobody

Procs == Handlers \cup Reconcilers

ASSUME ConstantsAssumption ==
  /\ Handlers \cap Reconcilers = {}
  /\ Nobody \notin Procs \cup Jobs
  /\ MaxPolls \in Nat /\ MaxAborts \in Nat

VARIABLES
  row,         \* media_jobs, committed
  work,        \* the version of the transaction that holds the row
  rowLock,     \* taken by an UPDATE of the job
  keyLock,     \* an uncommitted ledger row media-refund:<job>
  walletLock,  \* the wallet row of the user
  refunds,     \* committed media-refund keys
  overdue,
  pc, task,
  seen,        \* the rows a session has loaded
  polls, aborts

dbVars == <<row, work, rowLock, keyLock, walletLock, refunds>>
vars == <<row, work, rowLock, keyLock, walletLock, refunds, overdue, pc, task, seen,
          polls, aborts>>

-----------------------------------------------------------------------------

Open == {"queued", "running"}
Terminal == {"completed", "failed"}

Row == [st : {"absent"} \cup Open \cup Terminal, refunded : BOOLEAN, gone : BOOLEAN]
NoRow == [st |-> "absent", refunded |-> FALSE, gone |-> FALSE]

Idle == [batch |-> FALSE, job |-> Nobody, todo |-> {}]

Init ==
  /\ row = [j \in Jobs |-> NoRow] /\ work = row
  /\ rowLock = [j \in Jobs |-> Nobody]
  /\ keyLock = [j \in Jobs |-> Nobody]
  /\ walletLock = Nobody
  /\ refunds = {}
  /\ overdue = {}
  /\ pc = [p \in Procs |-> "idle"]
  /\ task = [p \in Procs |-> Idle]
  /\ seen = [p \in Procs |-> [j \in Jobs |-> NoRow]]
  /\ polls = 0 /\ aborts = 0

Visible(j) == row[j].st # "absent" /\ ~row[j].gone
OpenJobs == {j \in Jobs : Visible(j) /\ row[j].st \in Open}

Goto(p, label) == pc' = [pc EXCEPT ![p] = label]

Release(p) ==
  /\ rowLock' = [j \in Jobs |-> IF rowLock[j] = p THEN Nobody ELSE rowLock[j]]
  /\ keyLock' = [j \in Jobs |-> IF keyLock[j] = p THEN Nobody ELSE keyLock[j]]
  /\ walletLock' = IF walletLock = p THEN Nobody ELSE walletLock
  /\ Goto(p, "idle")
  /\ task' = [task EXCEPT ![p] = Idle]
  /\ seen' = [seen EXCEPT ![p] = [j \in Jobs |-> NoRow]]

Rollback(p) ==
  /\ Release(p)
  /\ work' = [j \in Jobs |-> IF rowLock[j] = p THEN row[j] ELSE work[j]]
  /\ UNCHANGED <<row, refunds, overdue>>

Commit(p) ==
  /\ pc[p] = "commit"
  /\ Release(p)
  /\ row' = [j \in Jobs |-> IF rowLock[j] = p THEN work[j] ELSE row[j]]
  /\ refunds' = refunds \cup {j \in Jobs : keyLock[j] = p}
  /\ UNCHANGED <<work, overdue, polls, aborts>>

\* A crash, a dropped client, a statement that fails: a session whose statement
\* failed accepts no other, so the loop loses its whole batch.
Abort(p) ==
  /\ pc[p] # "idle" /\ aborts < MaxAborts
  /\ aborts' = aborts + 1 /\ UNCHANGED polls
  /\ Rollback(p)

-----------------------------------------------------------------------------
(* The job's life outside the pollers.                                     *)

\* The submit commits the debit and the row together (see MediaProxyJobs).
Submit(j) ==
  /\ row[j].st = "absent"
  /\ row' = [row EXCEPT ![j].st = "queued"]
  /\ work' = [work EXCEPT ![j].st = "queued"]
  /\ UNCHANGED <<rowLock, keyLock, walletLock, refunds, overdue, pc, task, seen,
                 polls, aborts>>

Tick(j) ==
  /\ j \in OpenJobs \ overdue
  /\ overdue' = overdue \cup {j}
  /\ UNCHANGED <<dbVars, pc, task, seen, polls, aborts>>

-----------------------------------------------------------------------------
(* One poll.                                                               *)

Poll(p, j) ==
  /\ p \in Handlers /\ pc[p] = "idle" /\ j \in OpenJobs /\ polls < MaxPolls
  /\ polls' = polls + 1
  /\ seen' = [seen EXCEPT ![p][j] = row[j]]
  /\ task' = [task EXCEPT ![p] = [Idle EXCEPT !.job = j]]
  /\ Goto(p, "ask")
  /\ UNCHANGED <<dbVars, overdue, aborts>>

\* DELETE of a finished job: the status is read first, and not looked at again when
\* the row is free.
Delete(p, j) ==
  /\ p \in Handlers /\ pc[p] = "idle" /\ Visible(j) /\ row[j].st \in Terminal
  /\ task' = [task EXCEPT ![p] = [Idle EXCEPT !.job = j]]
  /\ Goto(p, "delete")
  /\ UNCHANGED <<dbVars, overdue, seen, polls, aborts>>

DeleteRow(p) ==
  LET j == task[p].job IN
  /\ pc[p] = "delete" /\ rowLock[j] = Nobody
  /\ rowLock' = [rowLock EXCEPT ![j] = p]
  /\ work' = [work EXCEPT ![j].gone = TRUE]
  /\ Goto(p, "commit")
  /\ UNCHANGED <<row, keyLock, walletLock, refunds, overdue, task, seen, polls, aborts>>

\* list_non_terminal loads the batch, of a limited size: any open jobs, which takes in the
\* oldest first.  Each job is polled when its turn comes.
SelectBatch(p) ==
  /\ p \in Reconcilers /\ pc[p] = "idle"
  /\ seen' = [seen EXCEPT ![p] = row]
  /\ \E batch \in (SUBSET OpenJobs) \ {{}} :
       task' = [task EXCEPT ![p] = [Idle EXCEPT !.batch = TRUE, !.todo = batch]]
  /\ Goto(p, "next")
  /\ UNCHANGED <<dbVars, overdue, polls, aborts>>

NextJob(p) ==
  /\ pc[p] = "next"
  /\ \/ \E j \in task[p].todo :
          /\ task' = [task EXCEPT ![p].job = j, ![p].todo = @ \ {j}]
          /\ Goto(p, "ask")
     \/ task[p].todo = {} /\ Goto(p, "commit") /\ UNCHANGED task
  /\ UNCHANGED <<dbVars, overdue, seen, polls, aborts>>

\* The poller is through with the job it has at hand.
Leave(p) ==
  /\ Goto(p, IF task[p].batch THEN "next" ELSE "commit")
  /\ task' = [task EXCEPT ![p].job = Nobody]
  /\ seen' = [seen EXCEPT ![p][task[p].job] = NoRow]

\* What the poller makes of fal's status and result.  fal may say anything at any
\* time; "fault" is an answer that is no state at all: a timeout, a 5xx, a rejected key.
Verdicts == {"pending", "fault", "complete", "refund"}

\* Variant: as before ADR-105, a fault never closes an overdue job.
NoFinalStateForever(j, v) == v

\* _close_if_overdue: an overdue job without a final state is closed and refunded.
NoFinalState(j, v) == IF v \in {"pending", "fault"} /\ j \in overdue THEN "refund" ELSE v

Ask(p) ==
  LET j == task[p].job IN
  /\ pc[p] = "ask"
  /\ \E v \in Verdicts : Goto(p, NoFinalState(j, v))
  /\ UNCHANGED <<dbVars, overdue, task, seen, polls, aborts>>

\* A young job is left for the next poll: GET fails and rolls back, the loop goes on.
Fault(p) ==
  /\ pc[p] = "fault"
  /\ IF task[p].batch
     THEN Leave(p) /\ UNCHANGED <<dbVars, overdue>>
     ELSE Rollback(p)
  /\ UNCHANGED <<polls, aborts>>

\* Post-moderation and the completion handler: they pass, reject, or are down.
Check(p) ==
  LET j == task[p].job IN
  /\ pc[p] = "complete"
  /\ \E v \in {"markdone", "refund", "fault"} : Goto(p, NoFinalState(j, v))
  /\ UNCHANGED <<dbVars, overdue, task, seen, polls, aborts>>

\* An UPDATE of the job: it waits for the row, works on the committed version, and
\* raises when the row was deleted.
Updates(p, r) ==
  LET j == task[p].job IN
  /\ rowLock[j] \in {Nobody, p}
  /\ IF row[j].gone
     THEN Rollback(p)
     ELSE /\ rowLock' = [rowLock EXCEPT ![j] = p]
          /\ work' = [work EXCEPT ![j] = r]
          /\ Leave(p)
          /\ UNCHANGED <<row, keyLock, walletLock, refunds, overdue>>

MarkRunning(p) ==
  LET j == task[p].job IN
  /\ pc[p] = "pending"
  /\ IF seen[p][j].st = "running"
     THEN Leave(p) /\ UNCHANGED <<dbVars, overdue>>
     ELSE Updates(p, [work[j] EXCEPT !.st = "running"])
  /\ UNCHANGED <<polls, aborts>>

\* Variant: the whole row is written back, not the attributes that changed.
MarkCompletedWholeRow(p) ==
  LET j == task[p].job IN
  /\ pc[p] = "markdone"
  /\ Updates(p, [seen[p][j] EXCEPT !.st = "completed"])
  /\ UNCHANGED <<polls, aborts>>

MarkCompleted(p) ==
  LET j == task[p].job IN
  /\ pc[p] = "markdone"
  /\ Updates(p, [work[j] EXCEPT !.st = "completed"])
  /\ UNCHANGED <<polls, aborts>>

\* INSERT of media-refund:<job>: waits for an uncommitted one, replays a committed one.
TakeKey(p) ==
  LET j == task[p].job IN
  /\ pc[p] = "refund" /\ keyLock[j] \in {Nobody, p}
  /\ IF j \in refunds
     THEN Goto(p, "markfailed") /\ UNCHANGED keyLock
     ELSE keyLock' = [keyLock EXCEPT ![j] = p] /\ Goto(p, "wallet")
  /\ UNCHANGED <<row, work, rowLock, walletLock, refunds, overdue, task, seen, polls, aborts>>

Credit(p) ==
  /\ pc[p] = "wallet" /\ walletLock \in {Nobody, p}
  /\ walletLock' = p
  /\ Goto(p, "markfailed")
  /\ UNCHANGED <<row, work, rowLock, keyLock, refunds, overdue, task, seen, polls, aborts>>

\* Variant: fal's CANCELED is stored as it is.
MarkFailedVerbatim(p) ==
  LET j == task[p].job IN
  /\ pc[p] = "markfailed"
  /\ Updates(p, [work[j] EXCEPT !.st = "canceled", !.refunded = TRUE])
  /\ UNCHANGED <<polls, aborts>>

MarkFailed(p) ==
  LET j == task[p].job IN
  /\ pc[p] = "markfailed"
  /\ Updates(p, [work[j] EXCEPT !.st = "failed", !.refunded = TRUE])
  /\ UNCHANGED <<polls, aborts>>

-----------------------------------------------------------------------------
(* Lock cycles: the loop holds the wallet while it asks for the next job.  *)

Blockers(p) ==
  LET j == task[p].job IN
  CASE pc[p] = "refund" -> {keyLock[j]} \ {Nobody, p}
    [] pc[p] = "wallet" -> {walletLock} \ {Nobody, p}
    [] pc[p] \in {"markdone", "markfailed", "delete"} -> {rowLock[j]} \ {Nobody, p}
    [] pc[p] = "pending" /\ seen[p][j].st # "running" -> {rowLock[j]} \ {Nobody, p}
    [] OTHER -> {}

LockCycle(S) == S # {} /\ UNION {Blockers(p) : p \in S} = S

DeadlockVictim(p) ==
  /\ \E S \in SUBSET Procs : p \in S /\ LockCycle(S)
  /\ Rollback(p)
  /\ UNCHANGED <<polls, aborts>>

Run(p) ==
  \/ DeleteRow(p) \/ NextJob(p) \/ Ask(p) \/ Fault(p) \/ Check(p)
  \/ MarkRunning(p) \/ MarkCompleted(p) \/ TakeKey(p) \/ Credit(p) \/ MarkFailed(p)
  \/ Commit(p) \/ DeadlockVictim(p)

Next ==
  \/ \E j \in Jobs : Submit(j) \/ Tick(j)
  \/ \E p \in Procs :
       \/ \E j \in Jobs : Poll(p, j) \/ Delete(p, j)
       \/ SelectBatch(p) \/ Run(p) \/ Abort(p)

Spec == Init /\ [][Next]_vars

\* GETs come or not; the loop ticks, time passes, an open transaction goes on.
\* Strong: lock waits are queued, so a waiter gets a lock that is freed again and again.
Fairness ==
  /\ \A p \in Procs : SF_vars(Run(p))
  /\ \A p \in Reconcilers : WF_vars(SelectBatch(p))
  /\ \A j \in Jobs : WF_vars(Tick(j))

FairSpec == Spec /\ Fairness

-----------------------------------------------------------------------------
(* Properties.                                                             *)

\* Type invariant.
TypeOK ==
  /\ row \in [Jobs -> Row] /\ work \in [Jobs -> Row]
  /\ rowLock \in [Jobs -> Procs \cup {Nobody}] /\ keyLock \in [Jobs -> Procs \cup {Nobody}]
  /\ walletLock \in Procs \cup {Nobody}
  /\ refunds \subseteq Jobs /\ overdue \subseteq Jobs
  /\ pc \in [Procs -> {"idle", "delete", "next", "ask", "pending", "fault", "complete", "markdone",
                       "refund", "wallet", "markfailed", "commit"}]
  /\ task \in [Procs -> [batch : BOOLEAN, job : Jobs \cup {Nobody}, todo : SUBSET Jobs]]
  /\ seen \in [Procs -> [Jobs -> Row]]
  /\ polls \in 0..MaxPolls /\ aborts \in 0..MaxAborts

\* However the pollers overwrite each other, credits_refunded tells the truth about
\* the ledger, and a job that ends up failed has its credits back.
RefundFlagIsTheLedger ==
  \A j \in Jobs :
    /\ row[j].refunded <=> j \in refunds
    /\ row[j].st = "failed" => row[j].refunded

\* A stale poller may reopen a finished job, but every accepted job is finished for
\* good in the end, or its owner deletes it, whatever fal answers and however many
\* transactions are lost.
EveryJobSettles ==
  \A j \in Jobs : (row[j].st = "queued") ~> [](row[j].st \in Terminal \/ row[j].gone)

\* 04-data-model.md: credits_refunded is TRUE only of a failed job.
RefundOnlyWhenFailed == \A j \in Jobs : row[j].refunded => row[j].st = "failed"

-----------------------------------------------------------------------------
(* The inductive invariant behind RefundFlagIsTheLedger.                   *)

AtAJob ==
  \A p \in Procs : pc[p] \notin {"idle", "next", "commit"} => task[p].job \in Jobs

\* Who holds a ledger key is about to mark its job failed, or has done so in the same
\* transaction.
KeysInUse ==
  \A j \in Jobs, p \in Procs : keyLock[j] = p =>
    /\ j \notin refunds
    /\ \/ task[p].job = j /\ pc[p] \in {"wallet", "markfailed"}
       \/ rowLock[j] = p /\ work[j].refunded

\* A job is marked failed with its refund in the ledger, or in the same transaction.
RefundFirst ==
  \A p \in Procs :
    /\ pc[p] = "wallet" => keyLock[task[p].job] = p
    /\ pc[p] = "markfailed" => task[p].job \in refunds \/ keyLock[task[p].job] = p

\* The version an open transaction will commit is true of the ledger it will commit.
VersionIsTrue ==
  \A j \in Jobs :
    /\ rowLock[j] = Nobody => work[j] = row[j]
    /\ j \in refunds => work[j].refunded
    /\ work[j].refunded => j \in refunds \/ (rowLock[j] # Nobody /\ keyLock[j] = rowLock[j])
    /\ work[j].st = "failed" => work[j].refunded

LegacyInv ==
  /\ TypeOK /\ AtAJob /\ KeysInUse /\ RefundFirst /\ VersionIsTrue /\ RefundFlagIsTheLedger

=============================================================================
