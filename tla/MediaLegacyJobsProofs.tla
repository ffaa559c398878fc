----------------------- MODULE MediaLegacyJobsProofs -----------------------
(***************************************************************************)
(* Proofs about MediaLegacyJobs for any jobs, workers and loops, and any   *)
(* bounds: the flag of a job's row is the truth about the ledger, though   *)
(* its pollers write what they decided about a row they loaded earlier.    *)
(***************************************************************************)
EXTENDS MediaLegacyJobs, TLAPS

USE DEF Procs

-----------------------------------------------------------------------------
(* Types.                                                                  *)

Labels == {"idle", "delete", "next", "ask", "pending", "fault", "complete", "markdone",
           "refund", "wallet", "markfailed", "commit"}
Tasks == [batch : BOOLEAN, job : Jobs \cup {Nobody}, todo : SUBSET Jobs]

LEMMA InitKeeps == Init => LegacyInv
  BY ConstantsAssumption
     DEF Init, LegacyInv, TypeOK, AtAJob, KeysInUse, RefundFirst, VersionIsTrue,
         RefundFlagIsTheLedger, NoRow, Row, Open, Terminal, Idle

LEMMA ReleaseTypes ==
  ASSUME TypeOK, NEW p \in Procs, Release(p)
  PROVE  /\ rowLock' \in [Jobs -> Procs \cup {Nobody}] /\ keyLock' \in [Jobs -> Procs \cup {Nobody}]
         /\ walletLock' \in Procs \cup {Nobody}
         /\ pc' \in [Procs -> Labels] /\ task' \in [Procs -> Tasks]
         /\ seen' \in [Procs -> [Jobs -> Row]]
  BY DEF TypeOK, Release, Goto, Idle, Labels, Tasks, NoRow, Row, Open, Terminal

LEMMA LeaveTypes ==
  ASSUME TypeOK, NEW p \in Procs, Leave(p)
  PROVE  /\ pc' \in [Procs -> Labels] /\ task' \in [Procs -> Tasks]
         /\ seen' \in [Procs -> [Jobs -> Row]]
<1>1. pc' \in [Procs -> Labels] /\ task' \in [Procs -> Tasks]
  BY DEF TypeOK, Leave, Goto, Labels, Tasks
<1>2. seen[p] \in [Jobs -> Row] /\ NoRow \in Row
  BY DEF TypeOK, NoRow, Row, Open, Terminal
<1>3. [seen[p] EXCEPT ![task[p].job] = NoRow] \in [Jobs -> Row]
  BY <1>2
<1>4. seen' = [seen EXCEPT ![p] = [seen[p] EXCEPT ![task[p].job] = NoRow]]
  BY DEF Leave
<1> QED
  BY <1>1, <1>3, <1>4 DEF TypeOK

-----------------------------------------------------------------------------
(* Steps that write no row.                                                *)

\* p goes on with its work or begins it, and the database stays as it is.
LEMMA QuietKeeps ==
  ASSUME LegacyInv, NEW p \in Procs, NEW l \in Labels \ {"wallet", "markfailed"}, Goto(p, l),
         UNCHANGED dbVars, overdue' \subseteq Jobs,
         polls' \in 0 .. MaxPolls, aborts' \in 0 .. MaxAborts,
         NEW t \in Tasks, task' = [task EXCEPT ![p] = t],
         l \notin {"idle", "next", "commit"} => t.job \in Jobs,
         pc[p] \notin {"wallet", "markfailed"},
         seen' \in [Procs -> [Jobs -> Row]]
  PROVE  LegacyInv'
<1>1. pc' = [pc EXCEPT ![p] = l] /\ UNCHANGED <<row, work, rowLock, keyLock, walletLock, refunds>>
  BY DEF Goto, dbVars
<1>2. TypeOK'
  BY <1>1 DEF LegacyInv, TypeOK, Labels, Tasks
<1>3. AtAJob' /\ RefundFirst'
  BY <1>1 DEF LegacyInv, TypeOK, AtAJob, RefundFirst
<1>4. KeysInUse'
  BY <1>1 DEF LegacyInv, TypeOK, KeysInUse
<1>5. VersionIsTrue' /\ RefundFlagIsTheLedger'
  BY <1>1 DEF LegacyInv, VersionIsTrue, RefundFlagIsTheLedger
<1> QED
  BY <1>2, <1>3, <1>4, <1>5 DEF LegacyInv

\* A transaction that is undone takes its versions with it.
LEMMA RollbackKeeps ==
  ASSUME LegacyInv, NEW p \in Procs, Rollback(p),
         polls' \in 0 .. MaxPolls, aborts' \in 0 .. MaxAborts
  PROVE  LegacyInv'
<1>1. /\ \A j \in Jobs : /\ rowLock'[j] = IF rowLock[j] = p THEN Nobody ELSE rowLock[j]
                         /\ keyLock'[j] = IF keyLock[j] = p THEN Nobody ELSE keyLock[j]
                         /\ work'[j] = IF rowLock[j] = p THEN row[j] ELSE work[j]
      /\ pc' = [pc EXCEPT ![p] = "idle"] /\ task' = [task EXCEPT ![p] = Idle]
      /\ UNCHANGED <<row, refunds>>
  BY DEF Rollback, Release, Goto
<1>2. TypeOK'
  BY ReleaseTypes DEF Rollback, LegacyInv, TypeOK, Labels, Tasks
<1>3. p # Nobody /\ Nobody \notin Procs
  BY ConstantsAssumption
<1>4. AtAJob'
  BY <1>1 DEF LegacyInv, TypeOK, AtAJob
<1>5. KeysInUse'
  <2> SUFFICES ASSUME NEW i \in Jobs, NEW q \in Procs, keyLock'[i] = q
               PROVE  /\ i \notin refunds'
                      /\ \/ task'[q].job = i /\ pc'[q] \in {"wallet", "markfailed"}
                         \/ rowLock'[i] = q /\ work'[i].refunded
    BY DEF KeysInUse
  <2>1. q # p /\ keyLock[i] = q
    BY <1>1, <1>3
  <2>2. task'[q] = task[q] /\ pc'[q] = pc[q]
    BY <1>1, <2>1 DEF LegacyInv, TypeOK
  <2> QED
    BY <1>1, <2>1, <2>2 DEF LegacyInv, KeysInUse
<1>6. RefundFirst'
  BY <1>1, <1>3 DEF LegacyInv, TypeOK, RefundFirst, AtAJob
<1>7. VersionIsTrue'
  BY <1>1, <1>3 DEF LegacyInv, VersionIsTrue, RefundFlagIsTheLedger
<1>8. RefundFlagIsTheLedger'
  BY <1>1 DEF LegacyInv, RefundFlagIsTheLedger
<1> QED
  BY <1>2, <1>4, <1>5, <1>6, <1>7, <1>8 DEF LegacyInv

\* The refund and the version that tells of it become true together.
LEMMA CommitKeeps ==
  ASSUME LegacyInv, NEW p \in Procs, Commit(p)
  PROVE  LegacyInv'
<1>1. /\ \A j \in Jobs : /\ rowLock'[j] = IF rowLock[j] = p THEN Nobody ELSE rowLock[j]
                         /\ keyLock'[j] = IF keyLock[j] = p THEN Nobody ELSE keyLock[j]
                         /\ row'[j] = IF rowLock[j] = p THEN work[j] ELSE row[j]
                         /\ j \in refunds' <=> j \in refunds \/ keyLock[j] = p
      /\ pc' = [pc EXCEPT ![p] = "idle"] /\ task' = [task EXCEPT ![p] = Idle]
      /\ pc[p] = "commit" /\ work' = work
  BY DEF Commit, Release, Goto
<1>2. TypeOK'
  BY ReleaseTypes DEF Commit, LegacyInv, TypeOK, Labels, Tasks
<1>3. p # Nobody /\ Nobody \notin Procs
  BY ConstantsAssumption
<1>4. \A j \in Jobs : keyLock[j] = p => rowLock[j] = p /\ work[j].refunded
  BY <1>1 DEF LegacyInv, KeysInUse
<1>5. AtAJob'
  BY <1>1 DEF LegacyInv, TypeOK, AtAJob
<1>6. KeysInUse'
  <2> SUFFICES ASSUME NEW i \in Jobs, NEW q \in Procs, keyLock'[i] = q
               PROVE  /\ i \notin refunds'
                      /\ \/ task'[q].job = i /\ pc'[q] \in {"wallet", "markfailed"}
                         \/ rowLock'[i] = q /\ work'[i].refunded
    BY DEF KeysInUse
  <2>1. q # p /\ keyLock[i] = q
    BY <1>1, <1>3
  <2>2. task'[q] = task[q] /\ pc'[q] = pc[q]
    BY <1>1, <2>1 DEF LegacyInv, TypeOK
  <2> QED
    BY <1>1, <2>1, <2>2 DEF LegacyInv, KeysInUse
<1>7. RefundFirst'
  BY <1>1, <1>3 DEF LegacyInv, TypeOK, RefundFirst, AtAJob
<1>8. VersionIsTrue'
  BY <1>1, <1>3, <1>4 DEF LegacyInv, VersionIsTrue
<1>9. RefundFlagIsTheLedger'
  BY <1>1, <1>3, <1>4 DEF LegacyInv, VersionIsTrue, RefundFlagIsTheLedger
<1> QED
  BY <1>2, <1>5, <1>6, <1>7, <1>8, <1>9 DEF LegacyInv

-----------------------------------------------------------------------------
(* The writes.                                                             *)

\* p makes r the version of its job: what it says of the refund is what the version
\* said, or what p has done.
LEMMA WriteKeeps ==
  ASSUME LegacyInv, NEW p \in Procs, pc[p] \notin {"idle", "next", "commit", "wallet"},
         NEW r \in Row, rowLock[task[p].job] \in {Nobody, p},
         rowLock' = [rowLock EXCEPT ![task[p].job] = p],
         work' = [work EXCEPT ![task[p].job] = r],
         work[task[p].job].refunded \/ pc[p] = "markfailed" => r.refunded,
         r.refunded => work[task[p].job].refunded \/ pc[p] = "markfailed",
         r.st = "failed" => r.refunded,
         UNCHANGED <<row, keyLock, walletLock, refunds, overdue, polls, aborts>>,
         NEW l \in {"next", "commit"}, Goto(p, l), NEW t \in Tasks, task' = [task EXCEPT ![p] = t],
         seen' \in [Procs -> [Jobs -> Row]]
  PROVE  LegacyInv'
<1> DEFINE j == task[p].job
<1>1. j \in Jobs /\ p # Nobody
  BY ConstantsAssumption DEF LegacyInv, AtAJob
<1>2. /\ \A i \in Jobs : /\ rowLock'[i] = IF i = j THEN p ELSE rowLock[i]
                         /\ work'[i] = IF i = j THEN r ELSE work[i]
      /\ pc' = [pc EXCEPT ![p] = l]
  BY DEF Goto, LegacyInv, TypeOK
<1>3. TypeOK'
  BY <1>2, <1>1 DEF LegacyInv, TypeOK, Labels, Tasks
<1>4. AtAJob' /\ RefundFirst'
  BY <1>2 DEF LegacyInv, TypeOK, AtAJob, RefundFirst
<1>5. KeysInUse'
  <2> SUFFICES ASSUME NEW i \in Jobs, NEW q \in Procs, keyLock[i] = q
               PROVE  /\ i \notin refunds
                      /\ \/ task'[q].job = i /\ pc'[q] \in {"wallet", "markfailed"}
                         \/ rowLock'[i] = q /\ work'[i].refunded
    BY DEF KeysInUse
  <2>1. CASE q = p
    BY <1>1, <1>2, <2>1 DEF LegacyInv, KeysInUse
  <2>2. CASE q # p
    BY <1>1, <1>2, <2>2, ConstantsAssumption DEF LegacyInv, TypeOK, KeysInUse
  <2> QED
    BY <2>1, <2>2
<1>6. VersionIsTrue'
  BY <1>1, <1>2 DEF LegacyInv, VersionIsTrue, RefundFirst
<1>7. RefundFlagIsTheLedger'
  BY DEF LegacyInv, RefundFlagIsTheLedger
<1> QED
  BY <1>3, <1>4, <1>5, <1>6, <1>7 DEF LegacyInv

\* An UPDATE of a job: the row is gone and the transaction with it, or it is written.
LEMMA UpdatesKeeps ==
  ASSUME LegacyInv, NEW p \in Procs, pc[p] \notin {"idle", "next", "commit", "wallet"},
         NEW r \in Row, Updates(p, r), UNCHANGED <<polls, aborts>>,
         work[task[p].job].refunded \/ pc[p] = "markfailed" => r.refunded,
         r.refunded => work[task[p].job].refunded \/ pc[p] = "markfailed",
         r.st = "failed" => r.refunded
  PROVE  LegacyInv'
<1>1. CASE row[task[p].job].gone
  BY <1>1, RollbackKeeps DEF Updates, LegacyInv, TypeOK
<1>2. CASE ~row[task[p].job].gone
  <2> DEFINE l == IF task[p].batch THEN "next" ELSE "commit"
             t == [task[p] EXCEPT !.job = Nobody]
  <2>1. Leave(p) /\ rowLock[task[p].job] \in {Nobody, p}
        /\ rowLock' = [rowLock EXCEPT ![task[p].job] = p]
        /\ work' = [work EXCEPT ![task[p].job] = r]
        /\ UNCHANGED <<row, keyLock, walletLock, refunds, overdue>>
    BY <1>2 DEF Updates
  <2>2. Goto(p, l) /\ task' = [task EXCEPT ![p] = t]
    BY <2>1 DEF Leave, LegacyInv, TypeOK
  <2>3. t \in Tasks /\ l \in {"next", "commit"}
    <3>1. task[p] \in Tasks
      BY DEF LegacyInv, TypeOK, Tasks
    <3> QED
      BY <3>1 DEF Tasks
  <2>4. seen' \in [Procs -> [Jobs -> Row]]
    BY <2>1, LeaveTypes DEF LegacyInv
  <2> HIDE DEF l, t
  <2> QED
    BY <2>1, <2>2, <2>3, <2>4, WriteKeeps
<1> QED
  BY <1>1, <1>2

\* The owner's DELETE, which looks at nothing but the lock.
LEMMA DeleteRowKeeps ==
  ASSUME LegacyInv, NEW p \in Procs, DeleteRow(p)
  PROVE  LegacyInv'
<1> DEFINE j == task[p].job
           r == [work[j] EXCEPT !.gone = TRUE]
<1>1. pc[p] = "delete" /\ j \in Jobs /\ work[j] \in Row
  BY DEF DeleteRow, LegacyInv, AtAJob, TypeOK
<1>2. r \in Row /\ r.refunded = work[j].refunded /\ r.st = work[j].st
  BY <1>1 DEF Row
<1>3. work' = [work EXCEPT ![j] = r] /\ task' = [task EXCEPT ![p] = task[p]]
  BY DEF DeleteRow, LegacyInv, TypeOK
<1>4. task[p] \in Tasks /\ (work[j].st = "failed" => work[j].refunded)
  BY <1>1 DEF LegacyInv, TypeOK, Tasks, VersionIsTrue
<1>5. /\ rowLock[j] \in {Nobody, p} /\ rowLock' = [rowLock EXCEPT ![j] = p]
      /\ UNCHANGED <<row, keyLock, walletLock, refunds, overdue, polls, aborts>>
      /\ Goto(p, "commit") /\ seen' \in [Procs -> [Jobs -> Row]]
  BY DEF DeleteRow, LegacyInv, TypeOK
<1> HIDE DEF r
<1> QED
  BY <1>1, <1>2, <1>3, <1>4, <1>5, WriteKeeps

\* A finished or failed job keeps what its version says of the refund, or p has made it.
LEMMA MarkKeeps ==
  ASSUME LegacyInv, NEW p \in Procs, MarkRunning(p) \/ MarkCompleted(p) \/ MarkFailed(p)
  PROVE  LegacyInv'
<1> DEFINE j == task[p].job
<1>1. j \in Jobs /\ work[j] \in Row
  BY DEF MarkRunning, MarkCompleted, MarkFailed, LegacyInv, AtAJob, TypeOK
<1>2. CASE MarkCompleted(p)
  <2> DEFINE r == [work[j] EXCEPT !.st = "completed"]
  <2>1. r \in Row /\ r.refunded = work[j].refunded /\ r.st # "failed"
    BY <1>1 DEF Row, Terminal
  <2>2. pc[p] = "markdone" /\ Updates(p, r) /\ UNCHANGED <<polls, aborts>>
    BY <1>2 DEF MarkCompleted
  <2> HIDE DEF r
  <2> QED
    BY <2>1, <2>2, UpdatesKeeps
<1>3. CASE MarkFailed(p)
  <2> DEFINE r == [work[j] EXCEPT !.st = "failed", !.refunded = TRUE]
  <2>1. r \in Row /\ r.refunded
    BY <1>1 DEF Row, Terminal
  <2>2. pc[p] = "markfailed" /\ Updates(p, r) /\ UNCHANGED <<polls, aborts>>
    BY <1>3 DEF MarkFailed
  <2> HIDE DEF r
  <2> QED
    BY <2>1, <2>2, UpdatesKeeps
<1>4. CASE MarkRunning(p) /\ seen[p][j].st # "running"
  <2> DEFINE r == [work[j] EXCEPT !.st = "running"]
  <2>1. r \in Row /\ r.refunded = work[j].refunded /\ r.st # "failed"
    BY <1>1 DEF Row, Open
  <2>2. pc[p] = "pending" /\ Updates(p, r) /\ UNCHANGED <<polls, aborts>>
    BY <1>4 DEF MarkRunning
  <2> HIDE DEF r
  <2> QED
    BY <2>1, <2>2, UpdatesKeeps
<1>5. CASE MarkRunning(p) /\ seen[p][j].st = "running"
  <2> DEFINE l == IF task[p].batch THEN "next" ELSE "commit"
             t == [task[p] EXCEPT !.job = Nobody]
  <2>1. /\ pc[p] = "pending" /\ Leave(p) /\ UNCHANGED dbVars
        /\ overdue' = overdue /\ polls' = polls /\ aborts' = aborts
    BY <1>5 DEF MarkRunning
  <2>2. Goto(p, l) /\ task' = [task EXCEPT ![p] = t]
    BY <2>1 DEF Leave, LegacyInv, TypeOK
  <2>3. /\ t \in Tasks /\ l \in Labels \ {"wallet", "markfailed"} /\ l \in {"next", "commit"}
        /\ overdue \subseteq Jobs /\ polls \in 0 .. MaxPolls /\ aborts \in 0 .. MaxAborts
    BY DEF LegacyInv, TypeOK, Tasks, Labels
  <2>4. seen' \in [Procs -> [Jobs -> Row]]
    BY <2>1, LeaveTypes DEF LegacyInv
  <2> HIDE DEF l, t
  <2> QED
    BY <2>1, <2>2, <2>3, <2>4, QuietKeeps
<1> QED
  BY <1>2, <1>3, <1>4, <1>5

-----------------------------------------------------------------------------
(* The refund.                                                             *)

\* INSERT of the ledger key, which finds an earlier one or takes the key.
LEMMA TakeKeyKeeps ==
  ASSUME LegacyInv, NEW p \in Procs, TakeKey(p)
  PROVE  LegacyInv'
<1> DEFINE j == task[p].job
<1>1. j \in Jobs /\ p # Nobody
  BY ConstantsAssumption DEF TakeKey, LegacyInv, AtAJob
<1>2. /\ keyLock[j] \in {Nobody, p}
      /\ UNCHANGED <<row, work, rowLock, walletLock, refunds, overdue, task, seen, polls, aborts>>
      /\ \/ j \in refunds /\ pc' = [pc EXCEPT ![p] = "markfailed"] /\ keyLock' = keyLock
         \/ j \notin refunds /\ pc' = [pc EXCEPT ![p] = "wallet"]
            /\ keyLock' = [keyLock EXCEPT ![j] = p]
  BY DEF TakeKey, Goto
<1>3. pc[p] = "refund"
  BY DEF TakeKey
<1> HIDE DEF j
<1>4. TypeOK'
  <2>1. TypeOK
    BY DEF LegacyInv
  <2>2. keyLock' \in [Jobs -> Procs \cup {Nobody}]
    BY <1>1, <1>2, <2>1 DEF TypeOK
  <2>3. /\ pc' \in [Procs -> {"idle", "delete", "next", "ask", "pending", "fault", "complete", "markdone",
                             "refund", "wallet", "markfailed", "commit"}]
    BY <1>2, <2>1 DEF TypeOK
  <2> QED
    BY <1>2, <2>1, <2>2, <2>3 DEF TypeOK
<1>5. AtAJob'
  BY <1>1, <1>2 DEF LegacyInv, TypeOK, AtAJob, j
<1>6. RefundFirst'
  <2> SUFFICES ASSUME NEW q \in Procs
               PROVE  /\ pc'[q] = "wallet" => keyLock'[task[q].job] = q
                      /\ pc'[q] = "markfailed" => task[q].job \in refunds \/ keyLock'[task[q].job] = q
    BY <1>2 DEF RefundFirst
  <2>1. CASE q = p
    BY <1>1, <1>2, <2>1 DEF LegacyInv, TypeOK, j
  <2>2. CASE q # p
    <3>1. pc'[q] = pc[q]
      BY <1>2, <2>2 DEF LegacyInv, TypeOK
    <3>2. pc[q] \in {"wallet", "markfailed"} => task[q].job \in Jobs
      BY DEF LegacyInv, AtAJob
    <3>3. \A i \in Jobs : keyLock[i] = q => keyLock'[i] = q
      BY <1>1, <1>2, <2>2, ConstantsAssumption DEF LegacyInv, TypeOK
    <3> QED
      BY <3>1, <3>2, <3>3 DEF LegacyInv, RefundFirst
  <2> QED
    BY <2>1, <2>2
<1>7. KeysInUse'
  <2> SUFFICES ASSUME NEW i \in Jobs, NEW q \in Procs, keyLock'[i] = q
               PROVE  /\ i \notin refunds
                      /\ \/ task[q].job = i /\ pc'[q] \in {"wallet", "markfailed"}
                         \/ rowLock[i] = q /\ work[i].refunded
    BY <1>2 DEF KeysInUse
  <2>1. CASE i = j /\ j \notin refunds
    BY <1>1, <1>2, <2>1 DEF LegacyInv, TypeOK, j
  <2>2. CASE ~(i = j /\ j \notin refunds)
    <3>1. keyLock[i] = q
      BY <1>1, <1>2, <2>2 DEF LegacyInv, TypeOK
    <3>2. q # p => pc'[q] = pc[q]
      BY <1>2 DEF LegacyInv, TypeOK
    <3> QED
      BY <1>3, <3>1, <3>2 DEF LegacyInv, KeysInUse
  <2> QED
    BY <2>1, <2>2
<1>8. VersionIsTrue'
  <2>1. \A i \in Jobs : keyLock[i] # Nobody => keyLock'[i] = keyLock[i]
    BY <1>1, <1>2 DEF LegacyInv, TypeOK
  <2> QED
    BY <1>2, <2>1 DEF LegacyInv, VersionIsTrue
<1>9. RefundFlagIsTheLedger'
  BY <1>2 DEF LegacyInv, RefundFlagIsTheLedger
<1> QED
  BY <1>4, <1>5, <1>6, <1>7, <1>8, <1>9 DEF LegacyInv

\* The credit of the refund.
LEMMA CreditKeeps ==
  ASSUME LegacyInv, NEW p \in Procs, Credit(p)
  PROVE  LegacyInv'
<1>1. /\ pc[p] = "wallet" /\ pc' = [pc EXCEPT ![p] = "markfailed"] /\ walletLock' = p
      /\ UNCHANGED <<row, work, rowLock, keyLock, refunds, overdue, task, seen, polls, aborts>>
  BY DEF Credit, Goto
<1>2. TypeOK'
  BY <1>1 DEF LegacyInv, TypeOK
<1>3. AtAJob' /\ RefundFirst'
  BY <1>1 DEF LegacyInv, TypeOK, AtAJob, RefundFirst
<1>4. KeysInUse'
  BY <1>1 DEF LegacyInv, TypeOK, KeysInUse
<1>5. VersionIsTrue' /\ RefundFlagIsTheLedger'
  BY <1>1 DEF LegacyInv, VersionIsTrue, RefundFlagIsTheLedger
<1> QED
  BY <1>2, <1>3, <1>4, <1>5 DEF LegacyInv

-----------------------------------------------------------------------------
(* A poll until its write.                                                 *)

LEMMA BeginKeeps ==
  ASSUME LegacyInv, NEW p \in Procs,
         SelectBatch(p) \/ \E j \in Jobs : Poll(p, j) \/ Delete(p, j)
  PROVE  LegacyInv'
<1>1. CASE SelectBatch(p)
  <2> PICK batch \in (SUBSET OpenJobs) \ {{}} :
         task' = [task EXCEPT ![p] = [Idle EXCEPT !.batch = TRUE, !.todo = batch]]
    BY <1>1 DEF SelectBatch
  <2> DEFINE t == [Idle EXCEPT !.batch = TRUE, !.todo = batch]
  <2>1. /\ pc[p] = "idle" /\ seen' = [seen EXCEPT ![p] = row] /\ Goto(p, "next")
        /\ task' = [task EXCEPT ![p] = t] /\ UNCHANGED <<dbVars, overdue, polls, aborts>>
    BY <1>1 DEF SelectBatch
  <2>2. t \in Tasks
    BY DEF Idle, OpenJobs, Tasks
  <2>3. seen' \in [Procs -> [Jobs -> Row]] /\ "next" \in Labels \ {"wallet", "markfailed"}
    BY <2>1 DEF LegacyInv, TypeOK, Labels
  <2> HIDE DEF t
  <2> QED
    BY <2>1, <2>2, <2>3, QuietKeeps DEF LegacyInv, TypeOK
<1>2. ASSUME NEW j \in Jobs, Poll(p, j) \/ Delete(p, j)
      PROVE  LegacyInv'
  <2> DEFINE t == [Idle EXCEPT !.job = j]
  <2>1. PICK l \in {"ask", "delete"} :
          /\ pc[p] = "idle" /\ Goto(p, l) /\ task' = [task EXCEPT ![p] = t]
          /\ UNCHANGED <<dbVars, overdue, aborts>>
          /\ (polls' = polls + 1 /\ polls < MaxPolls) \/ polls' = polls
          /\ seen' = seen \/ seen' = [seen EXCEPT ![p][j] = row[j]]
    BY <1>2 DEF Poll, Delete
  <2>2. t \in Tasks /\ t.job = j
    BY DEF Idle, Tasks
  <2>3. seen' \in [Procs -> [Jobs -> Row]]
    <3>1. seen[p] \in [Jobs -> Row] /\ row[j] \in Row
      BY DEF LegacyInv, TypeOK
    <3>2. [seen[p] EXCEPT ![j] = row[j]] \in [Jobs -> Row]
      BY <3>1
    <3>3. seen' = seen \/ seen' = [seen EXCEPT ![p] = [seen[p] EXCEPT ![j] = row[j]]]
      BY <2>1
    <3> QED
      BY <3>2, <3>3 DEF LegacyInv, TypeOK
  <2>4. l \in Labels \ {"wallet", "markfailed"} /\ polls' \in 0 .. MaxPolls
    BY <2>1, ConstantsAssumption DEF LegacyInv, TypeOK, Labels
  <2> HIDE DEF t
  <2> QED
    BY <2>1, <2>2, <2>3, <2>4, QuietKeeps DEF LegacyInv, TypeOK
<1> QED
  BY <1>1, <1>2

LEMMA NextJobKeeps ==
  ASSUME LegacyInv, NEW p \in Procs, NextJob(p)
  PROVE  LegacyInv'
<1>1. pc[p] = "next" /\ UNCHANGED <<dbVars, overdue, seen, polls, aborts>> /\ task[p] \in Tasks
  BY DEF NextJob, LegacyInv, TypeOK, Tasks
<1>2. \E t \in Tasks, l \in {"ask", "commit"} :
        Goto(p, l) /\ task' = [task EXCEPT ![p] = t] /\ (l = "ask" => t.job \in Jobs)
  <2>1. CASE Goto(p, "commit") /\ UNCHANGED task
    BY <1>1, <2>1 DEF LegacyInv, TypeOK
  <2>2. ASSUME NEW j \in task[p].todo, Goto(p, "ask"),
               task' = [task EXCEPT ![p].job = j, ![p].todo = @ \ {j}]
        PROVE  <1>2!:
    <3> DEFINE t == [task[p] EXCEPT !.job = j, !.todo = @ \ {j}]
    <3>1. t \in Tasks /\ t.job \in Jobs
      BY <1>1 DEF Tasks
    <3>2. task' = [task EXCEPT ![p] = t]
      BY <2>2 DEF LegacyInv, TypeOK
    <3> HIDE DEF t
    <3> QED
      BY <2>2, <3>1, <3>2
  <2> QED
    BY <2>1, <2>2 DEF NextJob
<1>3. PICK t \in Tasks, l \in {"ask", "commit"} :
        Goto(p, l) /\ task' = [task EXCEPT ![p] = t] /\ (l = "ask" => t.job \in Jobs)
  BY <1>2
<1>4. l \in Labels \ {"wallet", "markfailed"}
  BY DEF Labels
<1> QED
  BY <1>1, <1>3, <1>4, QuietKeeps DEF LegacyInv, TypeOK

\* What fal and moderation say; time may turn no answer into a refund.
LEMMA AskKeeps ==
  ASSUME LegacyInv, NEW p \in Procs, Ask(p) \/ Check(p)
  PROVE  LegacyInv'
<1>1. PICK l \in {"pending", "fault", "complete", "markdone", "refund"} : Goto(p, l)
  BY DEF Ask, Check, Verdicts, NoFinalState
<1>2. /\ pc[p] \in {"ask", "complete"} /\ UNCHANGED <<dbVars, overdue, task, seen, polls, aborts>>
      /\ l \in Labels \ {"wallet", "markfailed"}
  BY DEF Ask, Check, Labels
<1>3. task[p] \in Tasks /\ task[p].job \in Jobs /\ task' = [task EXCEPT ![p] = task[p]]
  BY <1>2 DEF LegacyInv, TypeOK, AtAJob, Tasks
<1> QED
  BY <1>1, <1>2, <1>3, QuietKeeps DEF LegacyInv, TypeOK

LEMMA FaultKeeps ==
  ASSUME LegacyInv, NEW p \in Procs, Fault(p)
  PROVE  LegacyInv'
<1>1. CASE ~task[p].batch
  BY <1>1, RollbackKeeps DEF Fault, LegacyInv, TypeOK
<1>2. CASE task[p].batch
  <2> DEFINE t == [task[p] EXCEPT !.job = Nobody]
  <2>1. pc[p] = "fault" /\ Leave(p) /\ UNCHANGED <<dbVars, overdue, polls, aborts>>
    BY <1>2 DEF Fault
  <2>2. Goto(p, "next") /\ task' = [task EXCEPT ![p] = t] /\ t \in Tasks
        /\ "next" \in Labels \ {"wallet", "markfailed"}
    BY <1>2, <2>1 DEF Leave, LegacyInv, TypeOK, Tasks, Labels
  <2>3. seen' \in [Procs -> [Jobs -> Row]]
    BY <2>1, LeaveTypes DEF LegacyInv
  <2> HIDE DEF t
  <2> QED
    BY <2>1, <2>2, <2>3, QuietKeeps DEF LegacyInv, TypeOK
<1> QED
  BY <1>1, <1>2

LEMMA SubmitKeeps ==
  ASSUME LegacyInv, NEW j \in Jobs, Submit(j) \/ Tick(j)
  PROVE  LegacyInv'
<1>1. CASE Tick(j)
  BY <1>1 DEF Tick, dbVars, LegacyInv, TypeOK, AtAJob, KeysInUse, RefundFirst, VersionIsTrue,
              RefundFlagIsTheLedger
<1>2. CASE Submit(j)
  <2>1. /\ row' = [row EXCEPT ![j].st = "queued"] /\ work' = [work EXCEPT ![j].st = "queued"]
        /\ UNCHANGED <<rowLock, keyLock, walletLock, refunds, overdue, pc, task, seen, polls, aborts>>
    BY <1>2 DEF Submit
  <2>2. TypeOK'
    <3>1. row[j] \in Row /\ work[j] \in Row /\ "queued" \in Open
      BY DEF LegacyInv, TypeOK, Open
    <3>2. [row[j] EXCEPT !.st = "queued"] \in Row /\ [work[j] EXCEPT !.st = "queued"] \in Row
      BY <3>1 DEF Row
    <3>3. /\ row' = [row EXCEPT ![j] = [row[j] EXCEPT !.st = "queued"]]
          /\ work' = [work EXCEPT ![j] = [work[j] EXCEPT !.st = "queued"]]
      BY <2>1
    <3> QED
      BY <2>1, <3>2, <3>3 DEF LegacyInv, TypeOK
  <2>3. \A i \in Jobs : /\ row'[i].refunded = row[i].refunded /\ work'[i].refunded = work[i].refunded
                        /\ row'[i].st = "failed" => row[i].st = "failed"
                        /\ work'[i].st = "failed" => work[i].st = "failed"
                        /\ work[i] = row[i] => work'[i] = row'[i]
    BY <2>1 DEF LegacyInv, TypeOK, Row
  <2>4. AtAJob' /\ RefundFirst' /\ KeysInUse'
    BY <2>1, <2>3 DEF LegacyInv, AtAJob, KeysInUse, RefundFirst
  <2>5. VersionIsTrue' /\ RefundFlagIsTheLedger'
    BY <2>1, <2>3 DEF LegacyInv, VersionIsTrue, RefundFlagIsTheLedger
  <2> QED
    BY <2>2, <2>4, <2>5 DEF LegacyInv
<1> QED
  BY <1>1, <1>2

-----------------------------------------------------------------------------
(* Results.                                                                *)

LEMMA RunKeeps ==
  ASSUME LegacyInv, NEW p \in Procs, Run(p) \/ Abort(p)
  PROVE  LegacyInv'
<1>1. CASE DeadlockVictim(p) \/ Abort(p)
  <2>1. Rollback(p) /\ polls' \in 0 .. MaxPolls /\ aborts' \in 0 .. MaxAborts
    BY <1>1, ConstantsAssumption DEF DeadlockVictim, Abort, LegacyInv, TypeOK
  <2> QED
    BY <2>1, RollbackKeeps
<1> QED
  BY <1>1, DeleteRowKeeps, NextJobKeeps, AskKeeps, FaultKeeps, MarkKeeps, TakeKeyKeeps, CreditKeeps,
     CommitKeeps DEF Run

LEMMA NextKeeps == LegacyInv /\ [Next]_vars => LegacyInv'
<1>1. LegacyInv /\ UNCHANGED vars => LegacyInv'
  BY DEF vars, LegacyInv, TypeOK, AtAJob, KeysInUse, RefundFirst, VersionIsTrue, RefundFlagIsTheLedger
<1> QED
  BY <1>1, SubmitKeeps, BeginKeeps, RunKeeps DEF Next

\* The inductive invariant holds in every reachable state (media_generation: repository.py and
\* service.py of the direct fal client).
THEOREM LegacyInvariant == Spec => []LegacyInv
  BY InitKeeps, NextKeeps, PTL DEF Spec

\* The tables, the locks and the pollers stay well formed.
THEOREM LegacyTyped == Spec => []TypeOK
<1>1. LegacyInv => TypeOK
  BY DEF LegacyInv
<1> QED
  BY <1>1, LegacyInvariant, PTL

\* credits_refunded tells the truth about the ledger, and a failed job has its credits back,
\* however many pollers overwrite each other's rows.
THEOREM FlagsTellTheLedger == Spec => []RefundFlagIsTheLedger
<1>1. LegacyInv => RefundFlagIsTheLedger
  BY DEF LegacyInv
<1> QED
  BY <1>1, LegacyInvariant, PTL

=============================================================================
