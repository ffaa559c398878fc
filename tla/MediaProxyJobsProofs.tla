----------------------- MODULE MediaProxyJobsProofs -----------------------
(***************************************************************************)
(* Proofs about MediaProxyJobs for any number of jobs, users, workers and  *)
(* loops, and for any bounds: credits follow the job, the owning attempt   *)
(* decides, the first outcome wins, a result that has arrived is neither   *)
(* thrown away nor bought again, and the transactions implement            *)
(* MediaJobPromise.                                                        *)
(***************************************************************************)
EXTENDS MediaProxyJobs, FiniteSetTheorems, TLAPS

USE DEF Procs, Attempts

-----------------------------------------------------------------------------
(* Types.                                                                  *)

LEMMA InitTypeOK == Init => TypeOK
  BY ConstantsAssumption
     DEF Init, TypeOK, NoRow, Row, Idle, Tasks, Steps, Kinds, Says, Open, Terminal, Keys

LEMMA RollbackTypes ==
  ASSUME TypeOK, NEW p \in Procs, Rollback(p)
  PROVE  /\ row' \in [Jobs -> Row] /\ work' \in [Jobs -> Row]
         /\ rowLock' \in [Jobs -> Procs \cup {Nobody}]
         /\ walletLock' \in [Users -> Procs \cup {Nobody}]
         /\ ledger' \subseteq Keys /\ fresh' \subseteq Keys
         /\ pc' \in [Procs -> Steps] /\ task' \in [Procs -> Tasks]
  BY DEF TypeOK, Rollback, Release, Goto, Idle, Tasks, Steps, Kinds, Says

LEMMA RequestTypes ==
  ASSUME TypeOK, NEW p \in Procs, NEW j \in Jobs, Request(p, j)
  PROVE  TypeOK'
<1>1. CASE BeginSubmit(p, j)
  BY <1>1 DEF TypeOK, BeginSubmit, Goto, Idle, Tasks, Steps, Kinds, Says
<1>2. ASSUME NEW k \in Attempts, NEW says \in Says, Callback(p, j, k, says)
      PROVE  TypeOK'
  <2>1. [Idle EXCEPT !.kind = "callback", !.job = j, !.attempt = k, !.says = says] \in Tasks
    BY DEF Idle, Tasks, Kinds, Says
  <2>2. callbacks' \in 0..MaxCallbacks
    BY <1>2, ConstantsAssumption DEF Callback, TypeOK
  <2> QED
    BY <1>2, <2>1, <2>2 DEF TypeOK, Callback, Arrive, dbVars, Goto, Steps
<1>3. CASE \E k \in Attempts : CallbackUnknown(p, j, k)
  BY <1>3, ConstantsAssumption DEF TypeOK, CallbackUnknown, dbVars
<1>4. CASE Poll(p, j)
  BY <1>4 DEF TypeOK, Poll, Arrive, dbVars, Goto, Idle, Tasks, Steps, Kinds, Says
<1>5. CASE Delete(p, j)
  BY <1>5 DEF TypeOK, Delete, Arrive, dbVars, Goto, Idle, Tasks, Steps, Kinds, Says
<1> QED
  BY <1>1, <1>2, <1>3, <1>4, <1>5 DEF Request

\* What trying the routes can return.
LEMMA Outcomes ==
  ASSUME NEW j \in Jobs, NEW first \in Nat, NEW o \in SubmitOutcomes(j, first)
  PROVE  /\ o.accepted \in Attempts \cup {0}
         /\ o.paid \subseteq {j} \X Attempts
         /\ o.accepted # 0 => first <= o.accepted /\ o.paid = {<<j, o.accepted>>}
  BY DEF SubmitOutcomes

\* The row of a job after an attempt was accepted.
LEMMA AcceptedRow ==
  ASSUME NEW w \in [Jobs -> Row], NEW j \in Jobs, NEW k \in Attempts, NEW s \in Open
  PROVE  /\ [w EXCEPT ![j].st = s, ![j].at = k] \in [Jobs -> Row]
         /\ [w EXCEPT ![j].at = k, ![j].st = s] \in [Jobs -> Row]
<1> DEFINE r == [w[j] EXCEPT !.st = s, !.at = k]
<1>1. w[j] \in Row
  OBVIOUS
<1>2. r \in Row
  BY <1>1 DEF Row
<1>3. /\ [w EXCEPT ![j].st = s, ![j].at = k] = [w EXCEPT ![j] = r]
      /\ [w EXCEPT ![j].at = k, ![j].st = s] = [w EXCEPT ![j] = [w[j] EXCEPT !.at = k, !.st = s]]
  OBVIOUS
<1>4. [w[j] EXCEPT !.at = k, !.st = s] \in Row
  BY <1>1 DEF Row
<1> QED
  <2> HIDE DEF r
  <2> QED
    BY <1>2, <1>3, <1>4

\* What an accepted submission writes.
LEMMA AcceptedEffect ==
  ASSUME NEW p \in Procs, NEW j \in Jobs, j = task[p].job, SubmitAccepted(p)
  PROVE  \E k \in Attempts : /\ work' = [work EXCEPT ![j].st = "queued", ![j].at = k]
                             /\ runs' = runs \cup {<<j, k>>}
<1>1. PICK o \in SubmitOutcomes(j, 1) :
        /\ o.accepted # 0
        /\ runs' = runs \cup o.paid
        /\ work' = [work EXCEPT ![j].st = "queued", ![j].at = o.accepted]
  BY DEF SubmitAccepted
<1>2. o.accepted \in Attempts /\ o.paid = {<<j, o.accepted>>}
  BY <1>1, Outcomes
<1> QED
  BY <1>1, <1>2

\* What a failure callback does, resubmission spelt out.
LEMMA BadEffect ==
  ASSUME TypeOK, NEW p \in Procs, NEW j \in Jobs, j = task[p].job, CallbackBad(p)
  PROVE  /\ runs \subseteq runs' /\ runs' \subseteq runs \cup ({j} \X Attempts)
         /\ \/ Goto(p, "refund") /\ UNCHANGED work
            \/ \E k \in Attempts :
                 /\ work[j].at < k
                 /\ work' = [work EXCEPT ![j].at = k, ![j].st = "running"]
                 /\ runs' = runs \cup {<<j, k>>}
                 /\ Done(p)
<1>1. work[j].at + 1 \in Nat /\ work[j].at \in Nat
  <2>1. work[j] \in Row
    BY DEF TypeOK
  <2>2. work[j].at \in Attempts \cup {0}
    BY <2>1 DEF Row
  <2> QED
    BY <2>2
<1>2. CASE work[j].at < Routes[j] /\ j \notin overdue
  <2>1. PICK o \in SubmitOutcomes(j, work[j].at + 1) :
          /\ runs' = runs \cup o.paid
          /\ IF o.accepted # 0
             THEN /\ work' = [work EXCEPT ![j].at = o.accepted, ![j].st = "running"]
                  /\ Done(p)
             ELSE Goto(p, "refund") /\ UNCHANGED work
    BY <1>2 DEF CallbackBad
  <2>2. /\ o.accepted \in Attempts \cup {0}
        /\ o.paid \subseteq {j} \X Attempts
        /\ o.accepted # 0 => work[j].at + 1 <= o.accepted /\ o.paid = {<<j, o.accepted>>}
    BY <1>1, Outcomes
  <2>3. runs \subseteq runs' /\ runs' \subseteq runs \cup ({j} \X Attempts)
    BY <2>1, <2>2
  <2>4. CASE o.accepted = 0
    BY <2>1, <2>3, <2>4
  <2>5. CASE o.accepted # 0
    <3>1. /\ o.accepted \in Attempts /\ work[j].at < o.accepted
          /\ runs' = runs \cup {<<j, o.accepted>>}
      BY <1>1, <2>1, <2>2, <2>5
    <3> QED
      BY <2>1, <2>3, <2>5, <3>1
  <2> QED
    BY <2>4, <2>5
<1>3. CASE ~(work[j].at < Routes[j] /\ j \notin overdue)
  BY <1>3 DEF CallbackBad
<1> QED
  BY <1>2, <1>3

\* What Complete writes is a row.
LEMMA CompletedRow ==
  ASSUME NEW w \in Row, NEW b \in BOOLEAN
  PROVE  [w EXCEPT !.st = "completed", !.result = w.pending,
                   !.pending = 0, !.pushed = b] \in Row
<1>1. "completed" \in Terminal
  BY DEF Terminal
<1> QED
  BY <1>1 DEF Row

\* What Fail writes is a row.
LEMMA FailedRow ==
  ASSUME NEW w \in Row, NEW b \in BOOLEAN
  PROVE  [w EXCEPT !.st = "failed", !.refunded = b, !.pending = 0] \in Row
<1>1. "failed" \in Terminal
  BY DEF Terminal
<1> QED
  BY <1>1 DEF Row

\* Steps that write the row they are at, and its label.
LEMMA DecisionTypes ==
  ASSUME TypeOK, NEW p \in Procs, Positions,
         \/ DeleteRow(p) \/ IgnoreCallback(p) \/ CallbackPending(p) \/ CallbackGood(p)
         \/ CallbackBad(p) \/ AdvanceProxy(p) \/ Complete(p) \/ Reject(p) \/ Fail(p)
  PROVE  TypeOK'
<1> DEFINE j == task[p].job
<1>1. j \in Jobs /\ work[j] \in Row /\ task[p] \in Tasks
  BY DEF Positions, Position, TypeOK, DeleteRow, IgnoreCallback, CallbackPending, CallbackGood,
         CallbackBad, AdvanceProxy, Complete, Reject, Fail, Deciding
<1>2. CASE DeleteRow(p)
  BY <1>1, <1>2 DEF TypeOK, DeleteRow, Done, Goto, Steps, Row
<1>3. CASE IgnoreCallback(p)
  BY <1>3 DEF TypeOK, IgnoreCallback, dbVars, Done, Goto, Steps
<1>4. CASE CallbackPending(p)
  BY <1>1, <1>4 DEF TypeOK, CallbackPending, Done, Goto, Steps, Row, Open
<1>5. CASE CallbackGood(p)
  BY <1>1, <1>5 DEF TypeOK, CallbackGood, Goto, Steps, Row, Tasks
<1>6. CASE CallbackBad(p)
  <2>1. PICK i \in Jobs : i = task[p].job
    BY <1>1
  <2>2. pc' \in [Procs -> Steps]
    BY <1>6 DEF TypeOK, CallbackBad, Done, Goto, Steps
  <2>3. runs' \subseteq Jobs \X Attempts
    <3>1. runs' \subseteq runs \cup ({i} \X Attempts)
      BY <1>6, <2>1, BadEffect
    <3> QED
      BY <3>1 DEF TypeOK
  <2>4. work' \in [Jobs -> Row]
    <3>1. CASE UNCHANGED work
      BY <3>1 DEF TypeOK
    <3>2. ASSUME NEW k \in Attempts,
                 work' = [work EXCEPT ![i].at = k, ![i].st = "running"]
          PROVE  work' \in [Jobs -> Row]
      <4>1. work \in [Jobs -> Row] /\ "running" \in Open
        BY DEF TypeOK, Open
      <4>2. [work EXCEPT ![i].at = k, ![i].st = "running"] \in [Jobs -> Row]
        BY <4>1, AcceptedRow
      <4> QED
        BY <3>2, <4>2
    <3> QED
      BY <1>6, <2>1, <3>1, <3>2, BadEffect
  <2> QED
    BY <1>6, <2>2, <2>3, <2>4 DEF TypeOK, CallbackBad
<1>7. CASE AdvanceProxy(p)
  <2>1. work' = work \/ work' = [work EXCEPT ![j].st = "running"]
    BY <1>7 DEF AdvanceProxy
  <2>2. [work[j] EXCEPT !.st = "running"] \in Row
    BY <1>1 DEF Row, Open
  <2>3. work' \in [Jobs -> Row]
    BY <1>1, <2>1, <2>2 DEF TypeOK
  <2>4. pc' \in [Procs -> Steps]
    BY <1>7 DEF TypeOK, AdvanceProxy, Done, Goto, Steps
  <2> QED
    BY <1>7, <2>3, <2>4 DEF TypeOK, AdvanceProxy
<1>8. CASE Complete(p)
  <2>1. work' \in [Jobs -> Row]
    <3> DEFINE b == work[j].pushed \/ (j \in Priced /\ ~work[j].pushed)
               r == [work[j] EXCEPT !.st = "completed", !.result = work[j].pending,
                                    !.pending = 0, !.pushed = b]
    <3>1. work[j] \in Row /\ b \in BOOLEAN
      BY <1>1 DEF TypeOK
    <3>2. r \in Row
      BY <3>1, CompletedRow
    <3>3. work' = [work EXCEPT ![j] = r]
      BY <1>1, <1>8 DEF TypeOK, Complete
    <3> QED
      <4> HIDE DEF r
      <4> QED
        BY <3>2, <3>3 DEF TypeOK
  <2>2. pushes' \in [Jobs -> Nat]
    <3>1. \E n \in {pushes[j], pushes[j] + 1} : pushes' = [pushes EXCEPT ![j] = n]
      BY <1>8 DEF Complete
    <3> HIDE DEF j
    <3>2. pushes \in [Jobs -> Nat] /\ pushes[j] \in Nat
      BY <1>1 DEF TypeOK
    <3>3. ASSUME NEW n \in {pushes[j], pushes[j] + 1}, pushes' = [pushes EXCEPT ![j] = n]
          PROVE  pushes' \in [Jobs -> Nat]
      <4>1. n \in Nat
        BY <3>2
      <4> QED
        BY <3>2, <3>3, <4>1
    <3> QED
      BY <3>1, <3>3
  <2> QED
    BY <1>8, <2>1, <2>2 DEF TypeOK, Complete, Done, Goto, Steps
<1>9. CASE Reject(p)
  BY <1>9 DEF TypeOK, Reject, dbVars, Goto, Steps
<1>10. CASE Fail(p)
  <2>1. work' \in [Jobs -> Row]
    <3> DEFINE b == work[j].refunded \/ (j \in Priced /\ ~work[j].refunded)
               r == [work[j] EXCEPT !.st = "failed", !.refunded = b, !.pending = 0]
    <3>1. work[j] \in Row /\ b \in BOOLEAN
      BY <1>1 DEF TypeOK
    <3>2. r \in Row
      BY <3>1, FailedRow
    <3>3. work' = [work EXCEPT ![j] = r]
      BY <1>1, <1>10 DEF TypeOK, Fail
    <3> QED
      <4> HIDE DEF r
      <4> QED
        BY <3>2, <3>3 DEF TypeOK
  <2>2. fresh' \subseteq Keys
    BY <1>1, <1>10 DEF TypeOK, Fail, Refund, Keys
  <2>3. walletLock' \in [Users -> Procs \cup {Nobody}]
    <3>1. walletLock \in [Users -> Procs \cup {Nobody}]
      BY DEF TypeOK
    <3>2. walletLock' = walletLock \/ walletLock' = [walletLock EXCEPT ![Owner[j]] = p]
      BY <1>10 DEF Fail, TakeWallet
    <3> HIDE DEF j
    <3> QED
      BY <3>1, <3>2
  <2> QED
    BY <1>10, <2>1, <2>2, <2>3 DEF TypeOK, Fail, Done, Goto, Steps
<1> QED
  BY <1>2, <1>3, <1>4, <1>5, <1>6, <1>7, <1>8, <1>9, <1>10

LEMMA RunTypes ==
  ASSUME TypeOK, NEW p \in Procs, Positions, Run(p)
  PROVE  TypeOK'
<1> DEFINE j == task[p].job
<1>1. CASE Debit(p)
  <2>1. j \in Jobs
    BY <1>1 DEF Positions, Position, Debit
  <2> QED
    BY <1>1, <2>1, ConstantsAssumption
       DEF TypeOK, Debit, TakeWallet, Gen, Keys, Goto, Steps
<1>2. CASE InsufficientCredits(p)
  BY <1>2, RollbackTypes DEF TypeOK, InsufficientCredits
<1>3. CASE SubmitAccepted(p)
  <2>1. j \in Jobs
    BY <1>3 DEF Positions, Position, SubmitAccepted
  <2> QED
    <3>1. PICK k \in Attempts : /\ work' = [work EXCEPT ![j].st = "queued", ![j].at = k]
                                /\ runs' = runs \cup {<<j, k>>}
      BY <1>3, <2>1, AcceptedEffect
    <3>2. work' \in [Jobs -> Row]
      BY <2>1, <3>1, AcceptedRow DEF TypeOK, Open
    <3> QED
      BY <1>3, <2>1, <3>1, <3>2 DEF TypeOK, SubmitAccepted, Goto, Steps
<1>4. CASE SubmitRefused(p)
  <2>1. j \in Jobs
    BY <1>4 DEF Positions, Position, SubmitRefused
  <2>2. runs' \subseteq Jobs \X Attempts
    BY <1>4, <2>1 DEF TypeOK, SubmitRefused, SubmitOutcomes
  <2> QED
    BY <1>4, <2>2, RollbackTypes DEF TypeOK, SubmitRefused
<1>5. CASE LockRow(p)
  BY <1>5 DEF TypeOK, LockRow, Goto, Idle, Tasks, Steps, Kinds, Says
<1>6. CASE Transient(p)
  BY <1>6, RollbackTypes DEF TypeOK, Transient, dbVars, Goto, Steps
<1>7. ASSUME NEW i \in Jobs, TakeJob(p, i) \/ SkipJob(p, i)
      PROVE  TypeOK'
  BY <1>7 DEF TypeOK, TakeJob, SkipJob, dbVars, Goto, Tasks, Steps
<1>8. CASE EndBatch(p)
  BY <1>8 DEF TypeOK, EndBatch, dbVars, Goto, Steps
<1>9. CASE Commit(p)
  BY <1>9 DEF TypeOK, Commit, Release, Goto, Idle, Tasks, Steps, Kinds, Says
<1> QED
  BY <1>1, <1>2, <1>3, <1>4, <1>5, <1>6, <1>7, <1>8, <1>9, DecisionTypes DEF Run

LEMMA NextTypes == TypeOK /\ Positions /\ [Next]_vars => TypeOK'
<1> SUFFICES ASSUME TypeOK, Positions, [Next]_vars PROVE TypeOK'
  OBVIOUS
<1>1. ASSUME NEW p \in Procs, NEW j \in Jobs, Request(p, j) PROVE TypeOK'
  BY <1>1, RequestTypes
<1>2. ASSUME NEW p \in Procs, SelectBatch(p) PROVE TypeOK'
  <2>1. PICK S \in SUBSET Jobs :
          task' = [task EXCEPT ![p] = [Idle EXCEPT !.kind = "batch", !.todo = S]]
    BY <1>2 DEF SelectBatch, Batches, OpenJobs
  <2>2. [Idle EXCEPT !.kind = "batch", !.todo = S] \in Tasks
    BY DEF Idle, Tasks, Kinds, Says
  <2> QED
    BY <1>2, <2>1, <2>2 DEF TypeOK, SelectBatch, dbVars, Goto, Steps
<1>3. ASSUME NEW p \in Procs, Run(p) PROVE TypeOK'
  BY <1>3, RunTypes
<1>4. ASSUME NEW p \in Procs, Abort(p) PROVE TypeOK'
  BY <1>4, RollbackTypes, ConstantsAssumption DEF TypeOK, Abort
<1>5. ASSUME NEW j \in Jobs, Tick(j) PROVE TypeOK'
  BY <1>5 DEF TypeOK, Tick, dbVars
<1>6. CASE UNCHANGED vars
  BY <1>6 DEF TypeOK, vars
<1> QED
  BY <1>1, <1>2, <1>3, <1>4, <1>5, <1>6 DEF Next

-----------------------------------------------------------------------------
(* The shapes a step of a transaction can have, and what each preserves.      *)

\* p, which holds the row of its job j, goes on with the version s of it.
Writes(p, j, s) ==
  /\ j = task[p].job /\ rowLock[j] = p
  /\ work' = [work EXCEPT ![j] = s]
  /\ UNCHANGED <<row, rowLock, ledger, minted, task>>
  /\ runs \subseteq runs'
  /\ fresh \subseteq fresh' /\ fresh' \subseteq fresh \cup {Gen(j), Refund(j)}
  /\ s.st # "absent" /\ (row[j].st = "absent" => s.st = "queued")
  /\ IsTerminal(row[j]) => SameOutcome(s, row[j])
  /\ Owned(s, j)'
  /\ Balanced(s, ledger \cup fresh', j)
  /\ pc' = [pc EXCEPT ![p] = pc'[p]]
  /\ pc'[p] \in {"commit", "next", "complete", "refund"}
  /\ pc'[p] \in {"complete", "refund"} => IsOpen(s) /\ row[j].st # "absent"
  /\ pc'[p] = "complete" => s.pending # 0

\* p moves on without touching the database, to a label that asks for nothing but a job.
Moves(p) ==
  /\ UNCHANGED <<row, work, rowLock, ledger, fresh, minted, runs>>
  /\ pc' = [pc EXCEPT ![p] = pc'[p]]
  /\ task' = [task EXCEPT ![p] = task'[p]]
  /\ pc[p] # "transport"
  /\ pc'[p] \in {"idle", "lock", "next", "commit"}
  /\ pc'[p] = "lock" => task'[p].job \in Jobs

\* p takes the free row of a job that exists.
Takes(p, j) ==
  /\ rowLock[j] = Nobody /\ row[j].st # "absent"
  /\ rowLock' = [rowLock EXCEPT ![j] = p]
  /\ UNCHANGED <<row, work, ledger, fresh, minted, runs>>
  /\ pc[p] # "transport"
  /\ pc' = [pc EXCEPT ![p] = "decide"]
  /\ task' = [task EXCEPT ![p] = task'[p]] /\ task'[p].job = j

LEMMA WritesPreserves ==
  ASSUME IInv, TypeOK', NEW p \in Procs, NEW j \in Jobs, NEW s \in Row, Writes(p, j, s)
  PROVE  IInv'
<1>0. ASSUME NEW i \in Jobs, i # j
      PROVE  /\ Gen(i) \in fresh' <=> Gen(i) \in fresh
             /\ Refund(i) \in fresh' <=> Refund(i) \in fresh
             /\ work'[i] = work[i]
  BY <1>0 DEF IInv, TypeOK, Writes, Gen, Refund
<1>1. Books'
  <2> SUFFICES ASSUME NEW i \in Jobs
               PROVE  /\ Balanced(row'[i], ledger', i)
                      /\ Balanced(work'[i], ledger' \cup fresh', i) \/ Charging(i)'
    BY DEF Books, Balanced
  <2>1. Balanced(row'[i], ledger', i)
    BY DEF IInv, Books, Writes
  <2>2. CASE i = j
    BY <2>1, <2>2 DEF IInv, TypeOK, Writes
  <2>3. CASE i # j /\ Balanced(work[i], ledger \cup fresh, i)
    BY <1>0, <2>1, <2>3 DEF Writes, Balanced
  <2>4. CASE i # j /\ Charging(i)
    <3>1. PICK q \in Procs : rowLock[i] = q /\ pc[q] = "transport" /\ task[q].job = i
      BY <2>4 DEF Charging
    <3>2. q # p
      BY <2>4, <3>1 DEF Writes
    <3>3. pc'[q] = "transport"
      BY <3>1, <3>2 DEF IInv, TypeOK, Writes
    <3> QED
      BY <2>1, <3>1, <3>3 DEF Charging, Writes
  <2> QED
    BY <2>2, <2>3, <2>4 DEF IInv, Books
<1>2. Versions'
  BY ConstantsAssumption DEF IInv, TypeOK, Writes, Versions, Gen, Refund
<1>3. Lineage'
  BY ConstantsAssumption DEF IInv, TypeOK, Writes, Lineage, Owned
<1>4. Positions'
  <2> SUFFICES ASSUME NEW q \in Procs PROVE Position(q)'
    BY DEF Positions
  <2>1. CASE q = p
    BY <2>1 DEF IInv, TypeOK, Writes, Position
  <2>2. CASE q # p
    <3>1. pc'[q] = pc[q] /\ task'[q] = task[q]
      BY <2>2 DEF IInv, TypeOK, Writes
    <3>2. CASE task[q].job \in Jobs \ {j}
      BY <1>0, <2>2, <3>1, <3>2 DEF IInv, Writes, Position, Positions
    <3>3. CASE task[q].job \notin Jobs \ {j}
      BY <2>2, <3>1, <3>3 DEF IInv, Writes, Position, Positions
    <3> QED
      BY <3>2, <3>3
  <2> QED
    BY <2>1, <2>2
<1> QED
  BY <1>1, <1>2, <1>3, <1>4 DEF IInv

LEMMA MovesPreserves ==
  ASSUME IInv, TypeOK', NEW p \in Procs, Moves(p)
  PROVE  IInv'
<1>1. Books'
  <2> SUFFICES ASSUME NEW j \in Jobs, Charging(j) PROVE Charging(j)'
    BY DEF IInv, Books, Balanced, Moves
  <2>1. PICK q \in Procs : rowLock[j] = q /\ pc[q] = "transport" /\ task[q].job = j
    BY DEF Charging
  <2>2. q # p /\ rowLock' = rowLock
    BY <2>1 DEF Moves
  <2>3. pc'[q] = pc[q] /\ task'[q] = task[q]
    BY <2>2 DEF Moves, IInv, TypeOK
  <2> QED
    BY <2>1, <2>2, <2>3 DEF Charging
<1>2. Versions'
  BY DEF IInv, Moves, Versions
<1>3. Lineage'
  BY DEF IInv, Moves, Lineage, Owned
<1>4. Positions'
  BY DEF IInv, TypeOK, Moves, Position, Positions
<1> QED
  BY <1>1, <1>2, <1>3, <1>4 DEF IInv

LEMMA TakesPreserves ==
  ASSUME IInv, TypeOK', NEW p \in Procs, NEW j \in Jobs, Takes(p, j)
  PROVE  IInv'
<1>1. Books'
  <2> SUFFICES ASSUME NEW i \in Jobs, Charging(i) PROVE Charging(i)'
    BY DEF IInv, Books, Takes, Balanced
  <2>1. PICK q \in Procs : rowLock[i] = q /\ pc[q] = "transport" /\ task[q].job = i
    BY DEF Charging
  <2>2. q # p /\ i # j
    BY <2>1, ConstantsAssumption DEF Takes
  <2>3. pc'[q] = "transport" /\ task'[q] = task[q] /\ rowLock'[i] = q
    BY <2>1, <2>2 DEF IInv, TypeOK, Takes
  <2> QED
    BY <2>1, <2>3 DEF Charging
<1>2. Versions'
  BY ConstantsAssumption DEF IInv, TypeOK, Takes, Versions, Keys
<1>3. Lineage'
  <2>1. j \in minted
    BY DEF IInv, Takes, Lineage, NoRow
  <2>2. \A i \in Jobs \ {j} : rowLock'[i] = rowLock[i]
    BY DEF IInv, TypeOK, Takes
  <2> QED
    BY <2>1, <2>2 DEF IInv, Takes, Lineage, Owned
<1>4. Positions'
  BY ConstantsAssumption DEF IInv, TypeOK, Takes, Position, Positions
<1> QED
  BY <1>1, <1>2, <1>3, <1>4 DEF IInv

LEMMA RollbackPreserves ==
  ASSUME IInv, TypeOK', NEW p \in Procs, Rollback(p), runs \subseteq runs', UNCHANGED minted
  PROVE  IInv'
<1>1. Books'
  <2> SUFFICES ASSUME NEW j \in Jobs
               PROVE  Balanced(row'[j], ledger', j) /\ (Balanced(work'[j], ledger' \cup fresh', j) \/ Charging(j)')
    BY DEF Books
  <2>1. Balanced(row[j], ledger, j) /\ (Balanced(work[j], ledger \cup fresh, j) \/ Charging(j))
    BY DEF IInv, Books
  <2>2. Balanced(row'[j], ledger', j)
    BY <2>1 DEF Rollback
  <2>3. CASE rowLock[j] = p
    <3>1. work'[j] = row[j]
      BY <2>3 DEF Rollback
    <3>2. Gen(j) \notin fresh' /\ Refund(j) \notin fresh'
      BY <2>3 DEF Rollback, Release, Gen, Refund
    <3> QED
      BY <2>1, <2>2, <3>1, <3>2 DEF Balanced, Rollback
  <2>4. CASE rowLock[j] # p
    <3>1. work'[j] = work[j] /\ rowLock'[j] = rowLock[j]
      BY <2>4 DEF Rollback, Release
    <3>2. /\ Gen(j) \in fresh' <=> Gen(j) \in fresh
          /\ Refund(j) \in fresh' <=> Refund(j) \in fresh
      BY <2>4 DEF Rollback, Release, Gen, Refund
    <3>3. Charging(j) => Charging(j)'
      BY <2>4, <3>1 DEF Rollback, Release, Goto, Charging, IInv, TypeOK
    <3> QED
      BY <2>1, <2>2, <3>1, <3>2, <3>3 DEF Balanced, Rollback
  <2> QED
    BY <2>3, <2>4
<1>2. Versions'
  BY ConstantsAssumption
     DEF IInv, TypeOK, Rollback, Release, Versions, Keys
<1>3. Lineage'
  BY ConstantsAssumption
     DEF IInv, TypeOK, Rollback, Release, Lineage, Owned, SameOutcome, IsTerminal, Row
<1>4. Positions'
  BY ConstantsAssumption
     DEF IInv, TypeOK, Rollback, Release, Goto, Idle, Position, Positions, Gen, Refund
<1> QED
  BY <1>1, <1>2, <1>3, <1>4 DEF IInv

LEMMA CommitPreserves ==
  ASSUME IInv, TypeOK', NEW p \in Procs, Commit(p)
  PROVE  IInv'
<1>1. Books'
  <2> SUFFICES ASSUME NEW j \in Jobs
               PROVE  Balanced(row'[j], ledger', j) /\ (Balanced(work'[j], ledger' \cup fresh', j) \/ Charging(j)')
    BY DEF Books
  <2>1. Balanced(row[j], ledger, j) /\ (Balanced(work[j], ledger \cup fresh, j) \/ Charging(j))
    BY DEF IInv, Books
  <2>2. work'[j] = work[j]
    BY DEF Commit
  <2>3. CASE rowLock[j] = p
    <3>1. row'[j] = work[j] /\ ~Charging(j)
      BY <2>3 DEF Commit, Charging
    <3>2. /\ Gen(j) \in ledger' <=> Gen(j) \in ledger \cup fresh
          /\ Refund(j) \in ledger' <=> Refund(j) \in ledger \cup fresh
          /\ Gen(j) \notin fresh' /\ Refund(j) \notin fresh'
      BY <2>3 DEF Commit, Release, Gen, Refund
    <3> QED
      BY <2>1, <2>2, <3>1, <3>2 DEF Balanced
  <2>4. CASE rowLock[j] # p
    <3>1. row'[j] = row[j] /\ rowLock'[j] = rowLock[j]
      BY <2>4 DEF Commit, Release
    <3>2. /\ Gen(j) \in fresh' <=> Gen(j) \in fresh
          /\ Refund(j) \in fresh' <=> Refund(j) \in fresh
          /\ Gen(j) \in ledger' <=> Gen(j) \in ledger
          /\ Refund(j) \in ledger' <=> Refund(j) \in ledger
      BY <2>4 DEF Commit, Release, Gen, Refund
    <3>3. Charging(j) => Charging(j)'
      BY <2>4, <3>1 DEF Commit, Release, Goto, Charging, IInv, TypeOK
    <3> QED
      BY <2>1, <2>2, <3>1, <3>2, <3>3 DEF Balanced
  <2> QED
    BY <2>3, <2>4
<1>2. Versions'
  BY ConstantsAssumption
     DEF IInv, TypeOK, Commit, Release, Versions, Keys
<1>3. Lineage'
  <2> SUFFICES ASSUME NEW j \in Jobs
               PROVE  /\ Owned(row[j], j)' /\ Owned(work[j], j)'
                      /\ IsTerminal(row'[j]) => SameOutcome(work'[j], row'[j])
                      /\ row'[j].st = "absent" => work'[j].st \in {"absent", "queued"}
                      /\ row'[j].st # "absent" => work'[j].st # "absent"
                      /\ j \notin minted' => row'[j] = NoRow /\ rowLock'[j] = Nobody
    BY DEF Lineage
  <2>1. work[j] \in Row /\ UNCHANGED <<work, runs, minted>>
    BY DEF IInv, TypeOK, Commit
  <2>2. CASE rowLock[j] = p
    <3>1. row'[j] = work[j] /\ j \in minted
      BY <2>2, ConstantsAssumption DEF IInv, TypeOK, Commit, Lineage
    <3>2. SameOutcome(work[j], work[j])
      BY <2>1 DEF SameOutcome, Row
    <3> QED
      BY <2>1, <3>1, <3>2 DEF IInv, Lineage, Owned
  <2>3. CASE rowLock[j] # p
    <3>1. row'[j] = row[j] /\ rowLock'[j] = rowLock[j]
      BY <2>3 DEF IInv, TypeOK, Commit, Release
    <3> QED
      BY <2>1, <3>1 DEF IInv, Lineage, Owned
  <2> QED
    BY <2>2, <2>3
<1>4. Positions'
  BY ConstantsAssumption
     DEF IInv, TypeOK, Commit, Release, Goto, Idle, Position, Positions, Gen, Refund
<1> QED
  BY <1>1, <1>2, <1>3, <1>4 DEF IInv

-----------------------------------------------------------------------------
(* Every step has one of these shapes.                                        *)

LEMMA RequestPreserves ==
  ASSUME IInv, TypeOK', NEW p \in Procs, NEW j \in Jobs, Request(p, j)
  PROVE  IInv'
<1>1. CASE BeginSubmit(p, j)
  <2>1. row[j] = NoRow /\ rowLock[j] = Nobody /\ work[j] = NoRow
    BY <1>1 DEF BeginSubmit, IInv, Lineage, Versions
  <2>2. Gen(j) \notin fresh /\ Refund(j) \notin fresh
    BY <2>1 DEF IInv, Versions, Gen, Refund
  <2>3. Books'
    <3> SUFFICES ASSUME NEW i \in Jobs, Charging(i) PROVE Charging(i)'
      BY <1>1 DEF IInv, Books, BeginSubmit, Balanced
    <3>1. PICK q \in Procs : rowLock[i] = q /\ pc[q] = "transport" /\ task[q].job = i
      BY DEF Charging
    <3>2. q # p /\ i # j
      BY <1>1, <2>1, <3>1, ConstantsAssumption DEF BeginSubmit
    <3>3. pc'[q] = "transport" /\ task'[q] = task[q] /\ rowLock'[i] = q
      BY <1>1, <3>1, <3>2 DEF IInv, TypeOK, BeginSubmit, Goto
    <3> QED
      BY <3>1, <3>3 DEF Charging
  <2>4. Versions'
    BY <1>1, ConstantsAssumption DEF IInv, TypeOK, BeginSubmit, Versions, Keys
  <2>5. Lineage'
    BY <1>1 DEF IInv, TypeOK, BeginSubmit, Lineage, Owned
  <2>6. Positions'
    BY <1>1, <2>1, <2>2, ConstantsAssumption
       DEF IInv, TypeOK, BeginSubmit, Goto, Idle, Position, Positions
  <2> QED
    BY <2>3, <2>4, <2>5, <2>6 DEF IInv
<1>2. CASE \E k \in Attempts, says \in Says : Callback(p, j, k, says)
  <2>1. Moves(p)
    BY <1>2 DEF IInv, TypeOK, Callback, Arrive, dbVars, Goto, Moves, Idle
  <2> QED
    BY <2>1, MovesPreserves
<1>3. CASE \E k \in Attempts : CallbackUnknown(p, j, k)
  <2>1. Moves(p)
    BY <1>3 DEF IInv, TypeOK, CallbackUnknown, dbVars, Moves
  <2> QED
    BY <2>1, MovesPreserves
<1>4. CASE Poll(p, j)
  <2>1. Moves(p)
    BY <1>4 DEF IInv, TypeOK, Poll, Arrive, dbVars, Goto, Moves, Idle
  <2> QED
    BY <2>1, MovesPreserves
<1>5. CASE Delete(p, j)
  <2>1. Moves(p)
    BY <1>5 DEF IInv, TypeOK, Delete, Arrive, dbVars, Goto, Moves, Idle
  <2> QED
    BY <2>1, MovesPreserves
<1> QED
  BY <1>1, <1>2, <1>3, <1>4, <1>5 DEF Request

LEMMA SubmitPreserves ==
  ASSUME IInv, TypeOK', NEW p \in Procs,
         Debit(p) \/ InsufficientCredits(p) \/ SubmitAccepted(p) \/ SubmitRefused(p)
  PROVE  IInv'
<1>1. PICK j \in Jobs : /\ j = task[p].job /\ rowLock[j] = p
                        /\ row[j] = NoRow /\ work[j] = NoRow /\ Refund(j) \notin fresh
  BY DEF IInv, Positions, Position, Debit, InsufficientCredits, SubmitAccepted, SubmitRefused
<1>2. CASE Debit(p)
  <2>1. ASSUME NEW i \in Jobs, i # j
        PROVE  /\ Gen(i) \in fresh' <=> Gen(i) \in fresh
               /\ Refund(i) \in fresh' <=> Refund(i) \in fresh
    BY <1>1, <1>2, <2>1 DEF Debit, Gen, Refund
  <2>2. Books'
    <3> SUFFICES ASSUME NEW i \in Jobs
                 PROVE  /\ Balanced(row[i], ledger, i)
                        /\ Balanced(work[i], ledger \cup fresh', i) \/ Charging(i)'
      BY <1>2 DEF Debit, Books, Balanced
    <3>1. CASE i = j
      BY <1>1, <1>2, <3>1 DEF IInv, TypeOK, Debit, Goto, Books, Charging
    <3>2. CASE i # j /\ Charging(i)
      <4>1. PICK q \in Procs : rowLock[i] = q /\ pc[q] = "transport" /\ task[q].job = i
        BY <3>2 DEF Charging
      <4>2. q # p
        BY <1>1, <3>2, <4>1
      <4>3. pc'[q] = "transport" /\ task'[q] = task[q] /\ rowLock'[i] = q
        BY <1>2, <4>1, <4>2 DEF IInv, TypeOK, Debit, Goto
      <4> QED
        BY <3>2, <4>1, <4>3 DEF IInv, Books, Charging
    <3>3. CASE i # j /\ ~Charging(i)
      <4>1. Balanced(row[i], ledger, i) /\ Balanced(work[i], ledger \cup fresh, i)
        BY <3>3 DEF IInv, Books
      <4> QED
        BY <2>1, <3>3, <4>1 DEF Balanced
    <3> QED
      BY <3>1, <3>2, <3>3
  <2>3. Versions'
    BY <1>1, <1>2, ConstantsAssumption DEF IInv, Debit, Versions, Gen
  <2>4. Lineage'
    BY <1>2 DEF IInv, Debit, Lineage, Owned
  <2>5. Positions'
    <3> SUFFICES ASSUME NEW q \in Procs PROVE Position(q)'
      BY DEF Positions
    <3>1. CASE q = p
      BY <1>1, <1>2, <3>1 DEF IInv, TypeOK, Debit, Goto, Position, Positions, Gen, Refund
    <3>2. CASE q # p
      <4>1. pc'[q] = pc[q] /\ UNCHANGED <<row, work, rowLock, task>>
        BY <1>2, <3>2 DEF IInv, TypeOK, Debit, Goto
      <4>2. CASE task[q].job \in Jobs \ {j}
        <5>1. PICK i \in Jobs : i = task[q].job /\ i # j
          BY <4>2
        <5>2. /\ Gen(i) \in fresh' <=> Gen(i) \in fresh
              /\ Refund(i) \in fresh' <=> Refund(i) \in fresh
          BY <2>1, <5>1
        <5> QED
          BY <4>1, <5>1, <5>2 DEF IInv, Position, Positions
      <4>3. CASE task[q].job \notin Jobs \ {j}
        BY <1>1, <3>2, <4>1, <4>3 DEF IInv, Position, Positions
      <4> QED
        BY <4>2, <4>3
    <3> QED
      BY <3>1, <3>2
  <2> QED
    BY <2>2, <2>3, <2>4, <2>5 DEF IInv
<1>3. CASE InsufficientCredits(p)
  BY <1>3, RollbackPreserves DEF InsufficientCredits
<1>4. CASE SubmitRefused(p)
  <2>1. runs \subseteq runs'
    BY <1>4 DEF SubmitRefused
  <2> QED
    BY <1>4, <2>1, RollbackPreserves DEF SubmitRefused
<1>5. CASE SubmitAccepted(p)
  <2>1. PICK k \in Attempts : /\ work' = [work EXCEPT ![j].st = "queued", ![j].at = k]
                              /\ runs' = runs \cup {<<j, k>>}
    BY <1>1, <1>5, AcceptedEffect
  <2> DEFINE s == [NoRow EXCEPT !.st = "queued", !.at = k]
  <2>2. s \in Row /\ work' = [work EXCEPT ![j] = s]
    BY <1>1, <2>1 DEF IInv, TypeOK, NoRow, Row, Open
  <2>3. Owned(s, j)'
    BY <2>1 DEF Owned, NoRow
  <2>4. Balanced(s, ledger \cup fresh', j)
    <3>1. /\ Gen(j) \in fresh' <=> j \in Priced
          /\ Refund(j) \notin ledger \cup fresh' /\ Gen(j) \notin ledger
      <4>1. /\ row[j] = NoRow /\ Refund(j) \notin fresh
            /\ Gen(j) \in fresh <=> j \in Priced
            /\ UNCHANGED <<ledger, fresh>>
        BY <1>1, <1>5 DEF IInv, SubmitAccepted, Positions, Position
      <4>2. Balanced(NoRow, ledger, j)
        BY <1>1, <4>1 DEF IInv, Books
      <4>3. Gen(j) \notin ledger /\ Refund(j) \notin ledger
        BY <4>2 DEF Balanced, NoRow
      <4> QED
        BY <4>1, <4>3
    <3> QED
      BY <3>1 DEF Balanced, NoRow
  <2>5. s.st = "queued" /\ row[j] = NoRow /\ ~IsTerminal(row[j]) /\ ~IsTerminal(NoRow)
    <3>1. row[j] = NoRow
      BY <1>1, <1>5 DEF SubmitAccepted, IInv, Positions, Position
    <3>2. ~IsTerminal(NoRow)
      BY DEF NoRow, IsTerminal, Terminal
    <3>3. s.st = "queued"
      BY DEF NoRow
    <3> QED
      BY <3>1, <3>2, <3>3
  <2>6. pc' = [pc EXCEPT ![p] = pc'[p]] /\ pc'[p] = "commit"
    BY <1>5 DEF SubmitAccepted, Goto, IInv, TypeOK
  <2>7. /\ rowLock[j] = p /\ UNCHANGED <<row, rowLock, ledger, fresh, minted, task>>
        /\ runs \subseteq runs'
    BY <1>1, <1>5, <2>1 DEF SubmitAccepted, IInv, Positions, Position
  <2>8. Writes(p, j, s)
    <3> HIDE DEF s
    <3> QED
      BY <1>1, <2>2, <2>3, <2>4, <2>5, <2>6, <2>7 DEF Writes
  <2> QED
    BY <2>2, <2>8, WritesPreserves
<1> QED
  BY <1>2, <1>3, <1>4, <1>5

\* The reconciler's own steps, and the wait for a row.
LEMMA LoopPreserves ==
  ASSUME IInv, TypeOK', NEW p \in Procs,
         \/ LockRow(p) \/ EndBatch(p) \/ SelectBatch(p)
         \/ \E i \in Jobs : TakeJob(p, i) \/ SkipJob(p, i)
  PROVE  IInv'
<1>1. CASE LockRow(p)
  <2>1. PICK j \in Jobs : j = task[p].job
    BY <1>1 DEF LockRow, IInv, Positions, Position
  <2>2. CASE Visible(j)
    <3>1. Takes(p, j)
      BY <1>1, <2>1, <2>2 DEF IInv, TypeOK, LockRow, Visible, Goto, Takes
    <3> QED
      BY <3>1, TakesPreserves
  <2>3. CASE ~Visible(j)
    <3>1. Moves(p)
      BY <1>1, <2>1, <2>3 DEF IInv, TypeOK, LockRow, Goto, Moves
    <3> QED
      BY <3>1, MovesPreserves
  <2> QED
    BY <2>2, <2>3
<1>2. CASE EndBatch(p)
  <2>1. Moves(p)
    BY <1>2 DEF IInv, TypeOK, EndBatch, dbVars, Goto, Moves
  <2> QED
    BY <2>1, MovesPreserves
<1>3. CASE SelectBatch(p)
  <2>1. task' = [task EXCEPT ![p] = task'[p]]
    BY <1>3 DEF IInv, TypeOK, SelectBatch
  <2>2. Moves(p)
    BY <1>3, <2>1 DEF IInv, TypeOK, SelectBatch, dbVars, Goto, Moves
  <2> QED
    BY <2>2, MovesPreserves
<1>4. ASSUME NEW j \in Jobs, TakeJob(p, j)
      PROVE  IInv'
  <2>1. Takes(p, j)
    BY <1>4 DEF IInv, TypeOK, TakeJob, MayTake, Visible, Goto, Tasks, Takes
  <2> QED
    BY <2>1, TakesPreserves
<1>5. ASSUME NEW j \in Jobs, SkipJob(p, j)
      PROVE  IInv'
  <2>1. Moves(p)
    BY <1>5 DEF IInv, TypeOK, SkipJob, dbVars, Moves
  <2> QED
    BY <2>1, MovesPreserves
<1> QED
  BY <1>1, <1>2, <1>3, <1>4, <1>5

\* A job whose row is locked and decided upon: its books balance and it exists.
LEMMA AtTheRow ==
  ASSUME IInv, NEW p \in Procs, pc[p] \in {"decide", "complete", "refund"}
  PROVE  \E j \in Jobs :
           /\ j = task[p].job /\ rowLock[j] = p /\ j \in minted
           /\ row[j].st # "absent" /\ work[j].st # "absent"
           /\ work[j] \in Row /\ row[j] \in Row
           /\ Balanced(work[j], ledger \cup fresh, j)
           /\ Owned(work[j], j)
           /\ IsTerminal(row[j]) => SameOutcome(work[j], row[j])
<1>1. PICK j \in Jobs : j = task[p].job /\ rowLock[j] = p /\ row[j].st # "absent"
  BY DEF IInv, Positions, Position
<1>2. ~Charging(j)
  BY <1>1 DEF Charging
<1>3. work[j].st # "absent" /\ Owned(work[j], j)
      /\ (IsTerminal(row[j]) => SameOutcome(work[j], row[j]))
  BY <1>1 DEF IInv, Lineage
<1>4. j \in minted
  BY <1>1 DEF IInv, Lineage, NoRow
<1> QED
  BY <1>1, <1>2, <1>3, <1>4 DEF IInv, TypeOK, Books

LEMMA OpenKeepsNoOutcome ==
  ASSUME NEW r \in Row, NEW s \in Row, IsTerminal(r) => SameOutcome(s, r), IsOpen(s)
  PROVE  ~IsTerminal(r)
  BY DEF IsTerminal, IsOpen, Open, Terminal, SameOutcome, Row

\* A decision that leaves the row as it is.
LEMMA NoWritePreserves ==
  ASSUME IInv, TypeOK', NEW p \in Procs, pc[p] \in {"decide", "complete", "refund"},
         UNCHANGED <<row, work, rowLock, ledger, fresh, minted, task>>, runs \subseteq runs',
         pc' = [pc EXCEPT ![p] = pc'[p]],
         pc'[p] \in {"commit", "next", "complete", "refund"},
         pc'[p] \in {"complete", "refund"} => IsOpen(work[task[p].job]),
         pc'[p] = "complete" => work[task[p].job].pending # 0
  PROVE  IInv'
<1>1. PICK j \in Jobs :
           /\ j = task[p].job /\ rowLock[j] = p
           /\ row[j].st # "absent" /\ work[j].st # "absent"
           /\ work[j] \in Row /\ row[j] \in Row
           /\ Balanced(work[j], ledger \cup fresh, j)
           /\ Owned(work[j], j)
           /\ IsTerminal(row[j]) => SameOutcome(work[j], row[j])
  BY AtTheRow
<1>2. Writes(p, j, work[j])
  BY <1>1 DEF IInv, TypeOK, Writes, Owned
<1> QED
  BY <1>1, <1>2, WritesPreserves

\* A step that gives the open row of p the version s, label and money aside.
LEMMA WriteOpen ==
  ASSUME IInv, TypeOK', NEW p \in Procs, NEW j \in Jobs, NEW s \in Row,
         j = task[p].job, rowLock[j] = p, IsOpen(work[j]), row[j].st # "absent",
         IsTerminal(row[j]) => SameOutcome(work[j], row[j]),
         work' = [work EXCEPT ![j] = s], s.st # "absent", Owned(s, j)',
         UNCHANGED <<row, rowLock, ledger, minted, task>>, runs \subseteq runs',
         fresh \subseteq fresh', fresh' \subseteq fresh \cup {Gen(j), Refund(j)},
         Balanced(s, ledger \cup fresh', j),
         pc' = [pc EXCEPT ![p] = pc'[p]],
         \/ pc'[p] \in {"commit", "next"}
         \/ pc'[p] = "complete" /\ IsOpen(s) /\ s.pending # 0
  PROVE  IInv'
<1>1. ~IsTerminal(row[j])
  BY OpenKeepsNoOutcome DEF IInv, TypeOK
<1>2. Writes(p, j, s)
  BY <1>1 DEF Writes
<1> QED
  BY <1>2, WritesPreserves

LEMMA DecisionPreserves ==
  ASSUME IInv, TypeOK', NEW p \in Procs,
         \/ DeleteRow(p) \/ IgnoreCallback(p) \/ CallbackPending(p) \/ CallbackGood(p)
         \/ CallbackBad(p) \/ AdvanceProxy(p) \/ Complete(p) \/ Reject(p)
         \/ Transient(p) \/ Fail(p)
  PROVE  IInv'
<1>0. pc[p] \in {"decide", "complete", "refund"}
  BY DEF DeleteRow, IgnoreCallback, CallbackPending, CallbackGood, CallbackBad,
         AdvanceProxy, Complete, Reject, Transient, Fail, Deciding
<1>1. PICK j \in Jobs :
           /\ j = task[p].job /\ rowLock[j] = p
           /\ row[j].st # "absent" /\ work[j].st # "absent"
           /\ work[j] \in Row /\ row[j] \in Row
           /\ Balanced(work[j], ledger \cup fresh, j)
           /\ Owned(work[j], j)
           /\ IsTerminal(row[j]) => SameOutcome(work[j], row[j])
  BY <1>0, AtTheRow
<1>2. pc \in [Procs -> Steps] /\ work \in [Jobs -> Row] /\ task[p] \in Tasks
  BY DEF IInv, TypeOK
<1>4. IsOpen(work[j]) <=> ~IsTerminal(work[j])
  BY <1>1 DEF IsOpen, IsTerminal, Open, Terminal, Row
<1>5. ASSUME pc[p] \in {"complete", "refund"}
      PROVE  IsOpen(work[j]) /\ (pc[p] = "complete" => work[j].pending # 0)
  BY <1>1, <1>5 DEF IInv, Positions, Position
<1>6. CASE DeleteRow(p)
  <2>1. PICK s \in Row : s = [work[j] EXCEPT !.gone = TRUE] /\ work' = [work EXCEPT ![j] = s]
    BY <1>1, <1>6 DEF DeleteRow, Row
  <2>2. Balanced(s, ledger \cup fresh', j) /\ Owned(s, j)'
    BY <1>1, <1>6, <2>1 DEF DeleteRow, Balanced, Owned, Row
  <2>3. IsTerminal(row[j]) => SameOutcome(s, row[j])
    BY <1>1, <2>1 DEF SameOutcome, Row
  <2>4. pc' = [pc EXCEPT ![p] = pc'[p]] /\ pc'[p] \in {"commit", "next"}
    BY <1>2, <1>6 DEF DeleteRow, Done, Goto
  <2>5. Writes(p, j, s)
    BY <1>1, <1>6, <2>1, <2>2, <2>3, <2>4 DEF DeleteRow, Writes, Row
  <2> QED
    BY <2>1, <2>5, WritesPreserves
<1>7. CASE IgnoreCallback(p)
  <2>1. pc' = [pc EXCEPT ![p] = pc'[p]] /\ pc'[p] \in {"commit", "next"}
    BY <1>2, <1>7 DEF IgnoreCallback, Done, Goto
  <2> QED
    BY <1>0, <1>7, <2>1, NoWritePreserves DEF IgnoreCallback, dbVars
<1>8. CASE CallbackPending(p)
  <2>1. PICK s \in Row : /\ s = [work[j] EXCEPT !.st = "running"]
                         /\ work' = [work EXCEPT ![j] = s] /\ IsOpen(work[j])
    BY <1>1, <1>4, <1>8 DEF CallbackPending, Ignored, Row, Open
  <2>2. Balanced(s, ledger \cup fresh', j) /\ Owned(s, j)' /\ s.st # "absent"
    BY <1>1, <1>8, <2>1 DEF CallbackPending, Balanced, Owned, Row, IsOpen, Open
  <2>3. pc' = [pc EXCEPT ![p] = pc'[p]] /\ pc'[p] \in {"commit", "next"}
    BY <1>2, <1>8 DEF CallbackPending, Done, Goto
  <2> QED
    BY <1>1, <1>8, <2>1, <2>2, <2>3, WriteOpen DEF CallbackPending
<1>9. CASE CallbackGood(p)
  <2>0. ~IsTerminal(work[j]) /\ task[p].attempt = work[j].at
    BY <1>1, <1>9 DEF CallbackGood, Ignored, Stale
  <2>1. PICK s \in Row :
          /\ s = [work[j] EXCEPT !.pending = IF @ = 0 THEN task[p].attempt ELSE @]
          /\ work' = [work EXCEPT ![j] = s]
    BY <1>1, <1>9, <2>0 DEF CallbackGood, Row
  <2>2. IsOpen(work[j]) /\ IsOpen(s)
    BY <1>1, <1>4, <2>0, <2>1 DEF Row, IsOpen
  <2>3. s.pending # 0 /\ s.pending \in {0, s.at} /\ s.st = work[j].st
    <3>1. work[j].at # 0
      BY <1>1 DEF Owned, IInv, TypeOK
    <3> QED
      BY <1>1, <2>0, <2>1, <3>1 DEF Owned, Row
  <2>4. Balanced(s, ledger \cup fresh', j) /\ Owned(s, j)' /\ s.st # "absent"
    BY <1>1, <1>9, <2>1, <2>3 DEF CallbackGood, Balanced, Owned, Row
  <2>5. pc' = [pc EXCEPT ![p] = pc'[p]] /\ pc'[p] = "complete"
    BY <1>2, <1>9 DEF CallbackGood, Goto
  <2>6. UNCHANGED <<row, rowLock, ledger, fresh, minted, runs, task>>
    BY <1>9 DEF CallbackGood
  <2> QED
    BY <1>1, <2>1, <2>2, <2>3, <2>4, <2>5, <2>6, WriteOpen
<1>10. CASE CallbackBad(p)
  <2>1. IsOpen(work[j]) /\ work[j].pending = 0
    BY <1>1, <1>4, <1>10 DEF CallbackBad, Ignored
  <2>2. CASE Goto(p, "refund") /\ UNCHANGED work
    <3>1. pc' = [pc EXCEPT ![p] = pc'[p]] /\ pc'[p] = "refund"
      BY <1>2, <2>2 DEF Goto
    <3>2. runs \subseteq runs'
      BY <1>1, <1>10, BadEffect DEF IInv
    <3> QED
      BY <1>0, <1>1, <1>10, <2>1, <2>2, <3>1, <3>2, NoWritePreserves DEF CallbackBad
  <2>3. ASSUME NEW k \in Attempts,
               work' = [work EXCEPT ![j].at = k, ![j].st = "running"],
               runs' = runs \cup {<<j, k>>}, Done(p)
        PROVE  IInv'
    <3>0. /\ [work[j] EXCEPT !.at = k, !.st = "running"] \in Row
          /\ work' = [work EXCEPT ![j] = [work[j] EXCEPT !.at = k, !.st = "running"]]
      <4>1. work[j] \in Row /\ "running" \in Open
        BY <1>1 DEF Open
      <4>2. [work[j] EXCEPT !.at = k, !.st = "running"] \in Row
        BY <4>1 DEF Row
      <4> QED
        BY <1>2, <2>3, <4>2
    <3>1. PICK s \in Row : /\ s = [work[j] EXCEPT !.at = k, !.st = "running"]
                           /\ work' = [work EXCEPT ![j] = s]
      BY <3>0
    <3>2. Balanced(s, ledger \cup fresh', j) /\ Owned(s, j)' /\ s.st # "absent"
      <4>1. /\ s.st = "running" /\ s.at = k
            /\ s.pending = 0 /\ s.refunded = work[j].refunded
        BY <1>1, <2>1, <3>1 DEF Row
      <4>2. UNCHANGED <<ledger, fresh>>
        BY <1>10 DEF CallbackBad
      <4>3. Balanced(s, ledger \cup fresh', j)
        BY <1>1, <2>1, <4>1, <4>2 DEF Balanced, IsOpen, Open
      <4>4. Owned(s, j)'
        BY <2>3, <4>1 DEF Owned
      <4> QED
        BY <4>1, <4>3, <4>4
    <3>3. pc' = [pc EXCEPT ![p] = pc'[p]] /\ pc'[p] \in {"commit", "next"}
      BY <1>2, <2>3 DEF Done, Goto
    <3> QED
      BY <1>1, <1>10, <2>1, <2>3, <3>1, <3>2, <3>3, WriteOpen DEF CallbackBad
  <2> QED
    BY <1>1, <1>10, <2>2, <2>3, BadEffect DEF IInv
<1>11. CASE AdvanceProxy(p)
  <2>1. UNCHANGED <<row, rowLock, ledger, fresh, minted, runs, task>>
    BY <1>11 DEF AdvanceProxy
  <2>2. CASE UNCHANGED work
    <3>1. pc' = [pc EXCEPT ![p] = pc'[p]] /\ pc'[p] \in {"commit", "next", "complete", "refund"}
      BY <1>2, <1>11 DEF AdvanceProxy, Done, Goto
    <3>2. /\ pc'[p] \in {"complete", "refund"} => IsOpen(work[j])
          /\ pc'[p] = "complete" => work[j].pending # 0
      BY <1>1, <1>2, <1>11 DEF AdvanceProxy, Done, Goto
    <3> QED
      BY <1>0, <1>1, <2>1, <2>2, <3>1, <3>2, NoWritePreserves
  <2>3. CASE /\ IsOpen(work[j]) /\ Done(p)
             /\ work' = [work EXCEPT ![j].st = "running"]
    <3>1. PICK s \in Row : /\ s = [work[j] EXCEPT !.st = "running"]
                           /\ work' = [work EXCEPT ![j] = s]
      BY <1>1, <2>3 DEF Row, Open
    <3>2. Balanced(s, ledger \cup fresh', j) /\ Owned(s, j)' /\ s.st # "absent"
      BY <1>1, <2>1, <2>3, <3>1 DEF Balanced, Owned, Row, IsOpen, Open
    <3>3. pc' = [pc EXCEPT ![p] = pc'[p]] /\ pc'[p] \in {"commit", "next"}
      BY <1>2, <2>3 DEF Done, Goto
    <3> QED
      BY <1>1, <2>1, <2>3, <3>1, <3>2, <3>3, WriteOpen
  <2> QED
    BY <1>1, <1>11, <2>2, <2>3 DEF AdvanceProxy
<1>12. CASE Complete(p)
  <2> DEFINE notifies == j \in Priced /\ ~work[j].pushed
             done == [work[j] EXCEPT !.st = "completed", !.result = work[j].pending,
                                     !.pending = 0, !.pushed = @ \/ notifies]
  <2>0. done \in Row
    <3>1. (work[j].pushed \/ notifies) \in BOOLEAN
      OBVIOUS
    <3> QED
      BY <1>1, <3>1, CompletedRow
  <2>1. PICK s \in Row :
          /\ s = done /\ work' = [work EXCEPT ![j] = s]
          /\ IsOpen(work[j]) /\ work[j].pending # 0
    <3>1. work' = [work EXCEPT ![j] = done] /\ pc[p] = "complete"
      BY <1>1, <1>2, <1>12 DEF Complete
    <3> QED
      BY <1>5, <2>0, <3>1
  <2>2. Owned(s, j)' /\ s.st # "absent"
    BY <1>1, <1>12, <2>1 DEF Complete, Owned, Row
  <2>3. Balanced(s, ledger \cup fresh', j)
    BY <1>1, <1>12, <2>1 DEF Complete, Balanced, Row, IsOpen, Open
  <2>4. pc' = [pc EXCEPT ![p] = pc'[p]] /\ pc'[p] \in {"commit", "next"}
    BY <1>2, <1>12 DEF Complete, Done, Goto
  <2> QED
    BY <1>1, <1>12, <2>1, <2>2, <2>3, <2>4, WriteOpen DEF Complete
<1>13. CASE Reject(p)
  <2>1. pc' = [pc EXCEPT ![p] = pc'[p]] /\ pc'[p] = "refund" /\ pc[p] = "complete"
    BY <1>2, <1>13 DEF Reject, Goto
  <2> QED
    BY <1>0, <1>1, <1>5, <1>13, <2>1, NoWritePreserves DEF Reject, dbVars
<1>14. CASE Transient(p)
  <2>1. CASE Rollback(p)
    BY <1>14, <2>1, RollbackPreserves DEF Transient
  <2>2. CASE /\ Goto(p, "refund") \/ Goto(p, "commit") \/ Goto(p, "next")
             /\ UNCHANGED <<dbVars, task>>
    <3>1. pc' = [pc EXCEPT ![p] = pc'[p]] /\ pc'[p] \in {"commit", "next", "refund"}
      BY <1>2, <2>2 DEF Goto
    <3> QED
      BY <1>0, <1>1, <1>5, <1>14, <2>2, <3>1, NoWritePreserves DEF Transient, dbVars
  <2> QED
    BY <1>14, <2>1, <2>2 DEF Transient
<1>15. CASE Fail(p)
  <2> DEFINE pays == j \in Priced /\ ~work[j].refunded
             dead == [work[j] EXCEPT !.st = "failed", !.refunded = @ \/ pays, !.pending = 0]
  <2>0. dead \in Row
    <3>1. (work[j].refunded \/ pays) \in BOOLEAN
      OBVIOUS
    <3> QED
      BY <1>1, <3>1, FailedRow
  <2>1. PICK s \in Row : s = dead /\ work' = [work EXCEPT ![j] = s] /\ IsOpen(work[j])
    <3>1. work' = [work EXCEPT ![j] = dead] /\ pc[p] = "refund"
      BY <1>1, <1>2, <1>15 DEF Fail
    <3> QED
      BY <1>5, <2>0, <3>1
  <2>2. Owned(s, j)' /\ s.st # "absent"
    BY <1>1, <1>15, <2>1 DEF Fail, Owned, Row
  <2>3. Balanced(s, ledger \cup fresh', j)
    <3>1. fresh' = IF pays THEN fresh \cup ({Refund(j)} \ ledger) ELSE fresh
      BY <1>1, <1>15 DEF Fail
    <3>2. /\ Refund(j) \in ledger \cup fresh' <=> Refund(j) \in ledger \cup fresh \/ pays
          /\ Gen(j) \in ledger \cup fresh' <=> Gen(j) \in ledger \cup fresh
      BY <3>1 DEF Gen, Refund
    <3>3. Refund(j) \notin ledger \cup fresh /\ ~work[j].refunded
      BY <1>1, <2>1 DEF Balanced, IsOpen, Open
    <3> QED
      BY <1>1, <2>1, <3>2, <3>3 DEF Balanced, Row
  <2>4. fresh \subseteq fresh' /\ fresh' \subseteq fresh \cup {Gen(j), Refund(j)}
    BY <1>1, <1>15 DEF Fail
  <2>5. pc' = [pc EXCEPT ![p] = pc'[p]] /\ pc'[p] \in {"commit", "next"}
    BY <1>2, <1>15 DEF Fail, Done, Goto
  <2> QED
    BY <1>1, <1>15, <2>1, <2>2, <2>3, <2>4, <2>5, WriteOpen DEF Fail
<1> QED
  BY <1>6, <1>7, <1>8, <1>9, <1>10, <1>11, <1>12, <1>13, <1>14, <1>15

-----------------------------------------------------------------------------
(* The theorems.                                                              *)

LEMMA InitIInv == Init => IInv
<1> SUFFICES ASSUME Init PROVE IInv
  OBVIOUS
<1>1. Books
  BY DEF Init, Books, Balanced, NoRow
<1>2. Versions
  BY DEF Init, Versions
<1>3. Lineage
  BY DEF Init, Lineage, Owned, NoRow, IsTerminal, Terminal
<1>4. Positions
  BY DEF Init, Positions, Position
<1> QED
  BY <1>1, <1>2, <1>3, <1>4, InitTypeOK DEF IInv

\* The invariant does not depend on the counters and the deadlines.
LEMMA SamePreserves ==
  ASSUME IInv, TypeOK',
         UNCHANGED <<row, work, rowLock, ledger, fresh, minted, runs, pc, task>>
  PROVE  IInv'
<1>1. Books'
  BY DEF IInv, Books, Charging, Balanced
<1>2. Versions'
  BY DEF IInv, Versions
<1>3. Lineage'
  BY DEF IInv, Lineage, Owned
<1>4. Positions'
  BY DEF IInv, Positions, Position
<1> QED
  BY <1>1, <1>2, <1>3, <1>4 DEF IInv

LEMMA NextIInv == IInv /\ [Next]_vars => IInv'
<1> SUFFICES ASSUME IInv, [Next]_vars PROVE IInv'
  OBVIOUS
<1>0. TypeOK'
  BY NextTypes DEF IInv
<1>1. ASSUME NEW p \in Procs, NEW j \in Jobs, Request(p, j) PROVE IInv'
  BY <1>0, <1>1, RequestPreserves
<1>2. ASSUME NEW p \in Procs, SelectBatch(p) PROVE IInv'
  BY <1>0, <1>2, LoopPreserves
<1>3. ASSUME NEW p \in Procs, Run(p) PROVE IInv'
  BY <1>0, <1>3, SubmitPreserves, LoopPreserves, DecisionPreserves, CommitPreserves DEF Run
<1>4. ASSUME NEW p \in Procs, Abort(p) PROVE IInv'
  BY <1>0, <1>4, RollbackPreserves DEF Abort
<1>5. ASSUME NEW j \in Jobs, Tick(j) PROVE IInv'
  <2>1. UNCHANGED <<dbVars, minted, runs, pc, task>>
    BY <1>5 DEF Tick
  <2> QED
    BY <1>0, <2>1, SamePreserves DEF dbVars
<1>6. CASE UNCHANGED vars
  BY <1>0, <1>6, SamePreserves DEF vars
<1> QED
  BY <1>1, <1>2, <1>3, <1>4, <1>5, <1>6 DEF Next

\* The inductive invariant holds in every reachable state.
THEOREM Invariant == Spec => []IInv
  BY InitIInv, NextIInv, PTL DEF Spec

\* Rows, locks, ledger entries and transactions keep their types.
THEOREM TypeCorrect == Spec => []TypeOK
  BY Invariant, PTL DEF IInv

\* A priced job is debited exactly when its row exists, and its credits are back
\* exactly when it failed: no crash, rollback or race of pollers, callbacks and
\* submits takes credits without a job or gives them back twice.
THEOREM CreditsFollowTheJob == Spec => []MoneyFollowsTheJob
<1>1. IInv => MoneyFollowsTheJob
  BY DEF IInv, Books, Balanced, MoneyFollowsTheJob
<1> QED
  BY <1>1, Invariant, PTL

\* Whatever the proxy delivers late or twice, a job's assets are those of the
\* attempt that owns it, and that attempt was accepted by the proxy.
THEOREM OnlyTheOwnerDecides == Spec => []OwningAttemptDecides
<1>1. IInv => OwningAttemptDecides
  BY DEF IInv, Lineage, Owned, OwningAttemptDecides
<1> QED
  BY <1>1, Invariant, PTL

\* Rows and ledger change at a commit and nowhere else.
LEMMA OnlyCommits ==
  ASSUME [Next]_vars
  PROVE  UNCHANGED <<row, ledger>> \/ \E p \in Procs : Commit(p)
<1>1. ASSUME NEW p \in Procs, NEW j \in Jobs, Request(p, j) PROVE UNCHANGED <<row, ledger>>
  BY <1>1 DEF Request, BeginSubmit, Callback, CallbackUnknown, Poll, Delete, Arrive, dbVars
<1>2. ASSUME NEW p \in Procs, Run(p), ~Commit(p) PROVE UNCHANGED <<row, ledger>>
  BY <1>2 DEF Run, Debit, InsufficientCredits, SubmitAccepted, SubmitRefused, LockRow,
     DeleteRow, IgnoreCallback, CallbackPending, CallbackGood, CallbackBad, AdvanceProxy,
     Complete, Reject, Transient, Fail, TakeJob, SkipJob, EndBatch, Rollback, dbVars
<1>3. ASSUME NEW p \in Procs, SelectBatch(p) \/ Abort(p) PROVE UNCHANGED <<row, ledger>>
  BY <1>3 DEF SelectBatch, Abort, Rollback, dbVars
<1>4. ASSUME NEW j \in Jobs, Tick(j) PROVE UNCHANGED <<row, ledger>>
  BY <1>4 DEF Tick, dbVars
<1>5. CASE UNCHANGED vars
  BY <1>5 DEF vars
<1> QED
  BY <1>1, <1>2, <1>3, <1>4, <1>5 DEF Next

\* What a commit publishes of one job.
LEMMA Published ==
  ASSUME IInv, NEW p \in Procs, Commit(p), NEW j \in Jobs
  PROVE  \/ row'[j] = row[j]
         \/ row'[j] = work[j] /\ rowLock[j] = p
  BY DEF IInv, TypeOK, Commit

\* Once a job is completed or failed, nothing changes its status, assets or refund.
THEOREM TerminalIsFinal == Spec => FirstOutcomeWins
<1>1. ASSUME IInv, [Next]_vars, NEW j \in Jobs, IsTerminal(row[j])
      PROVE  [row'[j] EXCEPT !.gone = row[j].gone] = row[j]
  <2>1. row[j] \in Row /\ work[j] \in Row
    BY <1>1 DEF IInv, TypeOK
  <2>2. CASE row'[j] = row[j]
    BY <2>1, <2>2 DEF Row
  <2>3. CASE row'[j] = work[j]
    BY <1>1, <2>3 DEF IInv, Lineage, SameOutcome
  <2> QED
    BY <1>1, <2>2, <2>3, OnlyCommits, Published
<1>2. IInv /\ [Next]_vars =>
        [\A j \in Jobs : IsTerminal(row[j]) =>
           [row'[j] EXCEPT !.gone = row[j].gone] = row[j]]_vars
  BY <1>1
<1> QED
  BY <1>2, Invariant, PTL DEF Spec, FirstOutcomeWins

-----------------------------------------------------------------------------
(* The refinement: commits are the steps of MediaJobPromise.                  *)

Phase(r) == IF IsOpen(r) THEN "open" ELSE r.st
Account(L, j) == IF Refund(j) \in L THEN "refunded"
                 ELSE IF Gen(j) \in L THEN "charged" ELSE "untouched"

\* In balanced books the account follows from the phase.
LEMMA PhaseTellsAccount ==
  ASSUME NEW j \in Jobs, NEW r \in Row, NEW L, Balanced(r, L, j)
  PROVE  /\ Phase(r) = "absent" <=> r.st = "absent"
         /\ Phase(r) = "absent" => Account(L, j) = "untouched"
         /\ Phase(r) \in {"open", "completed"} => Account(L, j) = Promise!Charge(j)
         /\ Phase(r) = "failed" => Account(L, j) = Promise!GiveBack(j)
         /\ Phase(r) \in {"absent", "open", "completed", "failed"}
  BY DEF Phase, Account, Balanced, IsOpen, Open, Terminal, Row, Promise!Charge, Promise!GiveBack

\* How the phase of a job may change at a step.
LEMMA PhaseStep ==
  ASSUME IInv, IInv', [Next]_vars, NEW j \in Jobs
  PROVE  \/ Phase(row'[j]) = Phase(row[j])
         \/ Phase(row[j]) = "absent" /\ Phase(row'[j]) = "open"
         \/ Phase(row[j]) = "open" /\ Phase(row'[j]) \in {"completed", "failed"}
<1>1. row[j] \in Row /\ row'[j] \in Row /\ work[j] \in Row
  BY DEF IInv, TypeOK
<1>2. /\ IsTerminal(row[j]) => SameOutcome(work[j], row[j])
      /\ row[j].st = "absent" => work[j].st \in {"absent", "queued"}
      /\ row[j].st # "absent" => work[j].st # "absent"
  BY DEF IInv, Lineage
<1>3. CASE row'[j] = row[j]
  BY <1>3
<1>4. CASE row'[j] = work[j]
  <2>1. CASE IsTerminal(row[j])
    BY <1>1, <1>2, <1>4, <2>1 DEF SameOutcome, Phase, Row, IsOpen
  <2>2. CASE row[j].st = "absent"
    BY <1>1, <1>2, <1>4, <2>2 DEF Phase, IsOpen, Open
  <2>3. CASE IsOpen(row[j])
    <3>1. row[j].st # "absent"
      BY <2>3 DEF IsOpen, Open
    <3> QED
      BY <1>1, <1>2, <1>4, <2>3, <3>1 DEF Phase, IsOpen, Open, Terminal, Row
  <2> QED
    BY <1>1, <2>1, <2>2, <2>3 DEF IsTerminal, IsOpen, Row
<1> QED
  BY <1>3, <1>4, OnlyCommits, Published

\* The transactions implement what the owner of a job is promised: accepted with
\* its charge, one outcome, and the credits back with a failure and never else.
THEOREM ImplementsThePromise == Spec => KeepsThePromise
<1>1. Init => Promise!Init
  BY DEF Init, NoRow, IsOpen, Open, Promise!Init
<1>2. ASSUME IInv, IInv', [Next]_vars, NEW j \in Jobs
      PROVE  Promise!Rest(j) \/ Promise!Accept(j) \/ Promise!Complete(j) \/ Promise!Fail(j)
  <2>1. /\ row[j] \in Row /\ Balanced(row[j], ledger, j)
        /\ row'[j] \in Row /\ Balanced(row'[j], ledger', j)
    BY <1>2 DEF IInv, TypeOK, Books, Balanced
  <2>2. /\ Phase(row[j]) = "absent" => Account(ledger, j) = "untouched"
        /\ Phase(row[j]) \in {"open", "completed"} => Account(ledger, j) = Promise!Charge(j)
        /\ Phase(row[j]) = "failed" => Account(ledger, j) = Promise!GiveBack(j)
        /\ Phase(row[j]) \in {"absent", "open", "completed", "failed"}
    BY <2>1, PhaseTellsAccount
  <2>3. /\ Phase(row'[j]) = "absent" => Account(ledger', j) = "untouched"
        /\ Phase(row'[j]) \in {"open", "completed"} => Account(ledger', j) = Promise!Charge(j)
        /\ Phase(row'[j]) = "failed" => Account(ledger', j) = Promise!GiveBack(j)
        /\ Phase(row'[j]) \in {"absent", "open", "completed", "failed"}
    BY <2>1, PhaseTellsAccount
  <2>4. \/ Phase(row'[j]) = Phase(row[j])
        \/ Phase(row[j]) = "absent" /\ Phase(row'[j]) = "open"
        \/ Phase(row[j]) = "open" /\ Phase(row'[j]) \in {"completed", "failed"}
    BY <1>2, PhaseStep
  <2>5. CASE Phase(row'[j]) = Phase(row[j])
    <3>1. Account(ledger', j) = Account(ledger, j)
      BY <2>2, <2>3, <2>5
    <3>2. Promise!Rest(j)
      BY <2>5, <3>1 DEF Phase, Account, Promise!Rest
    <3> QED
      BY <3>2
  <2>6. CASE Phase(row[j]) = "absent" /\ Phase(row'[j]) = "open"
    <3>1. Account(ledger', j) = Promise!Charge(j)
      BY <2>3, <2>6
    <3>2. Promise!Accept(j)
      BY <2>6, <3>1 DEF Phase, Account, Promise!Accept
    <3> QED
      BY <3>2
  <2>7. CASE Phase(row[j]) = "open" /\ Phase(row'[j]) = "completed"
    <3>1. Account(ledger', j) = Account(ledger, j)
      BY <2>2, <2>3, <2>7
    <3>2. Promise!Complete(j)
      BY <2>7, <3>1 DEF Phase, Account, Promise!Complete
    <3> QED
      BY <3>2
  <2>8. CASE Phase(row[j]) = "open" /\ Phase(row'[j]) = "failed"
    <3>1. Account(ledger', j) = Promise!GiveBack(j)
      BY <2>3, <2>8
    <3>2. Promise!Fail(j)
      BY <2>8, <3>1 DEF Phase, Account, Promise!Fail
    <3> QED
      BY <3>2
  <2> QED
    BY <2>4, <2>5, <2>6, <2>7, <2>8
<1>3. ASSUME IInv, IInv', [Next]_vars
      PROVE  Promise!Next
  <2>1. \A j \in Jobs : row'[j] \in Row
    BY <1>3 DEF IInv, TypeOK
  <2>2. [j \in Jobs |-> IF IsOpen(row'[j]) THEN "open" ELSE row'[j].st]
          \in [Jobs -> Promise!Phases]
    BY <2>1 DEF IsOpen, Open, Terminal, Row, Promise!Phases
  <2>3. [j \in Jobs |-> IF Refund(j) \in ledger' THEN "refunded"
                        ELSE IF Gen(j) \in ledger' THEN "charged" ELSE "untouched"]
          \in [Jobs -> Promise!Accounts]
    BY DEF Promise!Accounts
  <2> QED
    BY <1>2, <1>3, <2>2, <2>3 DEF Promise!Next
<1>4. IInv /\ IInv' /\ [Next]_vars => Promise!Next
  BY <1>3
<1> QED
  BY <1>1, <1>4, Invariant, PTL DEF Spec, KeepsThePromise, Promise!Spec

-----------------------------------------------------------------------------
(* Results: what a transaction knows of the row it decides about.   *)

\* Until its first write a transaction's version is the row it has locked: the copy it
\* had loaded before is refreshed (populate_existing, session.refresh).
FromTheLock == \A p \in Procs : pc[p] = "decide" => work[task[p].job] = row[task[p].job]

\* A version has the pending result of the row it will replace, or ends the job.
Keeping ==
  \A j \in Jobs : row[j].pending # 0 =>
    work[j].pending = row[j].pending \/ IsTerminal(work[j])

RInv == FromTheLock /\ Keeping

\* p, which holds its job j, writes a version that keeps the result.
Advances(p, j) ==
  /\ j = task[p].job /\ rowLock[j] = p
  /\ work' = [work EXCEPT ![j] = work'[j]]
  /\ UNCHANGED <<row, task>>
  /\ pc' = [pc EXCEPT ![p] = pc'[p]] /\ pc'[p] # "decide"
  /\ row[j].pending # 0 => work'[j].pending = row[j].pending \/ IsTerminal(work'[j])

\* p writes no row, and if it comes to decide about a job, it has just locked it.
Silent(p) ==
  /\ UNCHANGED <<row, work>>
  /\ pc' = [pc EXCEPT ![p] = pc'[p]]
  /\ task' = [task EXCEPT ![p] = task'[p]]
  /\ pc'[p] = "decide" => task'[p].job \in Jobs /\ rowLock[task'[p].job] = Nobody

\* The holders of rows that are being decided about.
LEMMA AtDecide ==
  ASSUME IInv, NEW p \in Procs, pc[p] = "decide"
  PROVE  /\ task[p].job \in Jobs /\ rowLock[task[p].job] = p
         /\ row[task[p].job].st # "absent" /\ work[task[p].job].st # "absent"
  BY DEF IInv, Positions, Position, Lineage

LEMMA AdvancesPreserves ==
  ASSUME IInv, RInv, NEW p \in Procs, NEW j \in Jobs, Advances(p, j)
  PROVE  RInv'
<1>1. FromTheLock'
  <2> SUFFICES ASSUME NEW q \in Procs, pc'[q] = "decide"
               PROVE  work'[task[q].job] = row[task[q].job]
    BY DEF FromTheLock, Advances
  <2>1. q # p /\ pc[q] = "decide"
    BY DEF IInv, TypeOK, Advances
  <2>2. task[q].job \in Jobs /\ task[q].job # j
    BY <2>1, AtDecide DEF Advances
  <2> QED
    BY <2>1, <2>2 DEF IInv, TypeOK, RInv, FromTheLock, Advances
<1>2. Keeping'
  BY DEF IInv, TypeOK, RInv, Keeping, Advances
<1> QED
  BY <1>1, <1>2 DEF RInv

LEMMA SilentPreserves ==
  ASSUME IInv, RInv, NEW p \in Procs, Silent(p)
  PROVE  RInv'
<1>1. FromTheLock'
  <2> SUFFICES ASSUME NEW q \in Procs, pc'[q] = "decide"
               PROVE  work[task'[q].job] = row[task'[q].job]
    BY DEF FromTheLock, Silent
  <2>1. CASE q = p
    BY <2>1 DEF IInv, Versions, Silent
  <2>2. CASE q # p
    BY <2>2 DEF IInv, TypeOK, RInv, FromTheLock, Silent
  <2> QED
    BY <2>1, <2>2
<1>2. Keeping'
  BY DEF RInv, Keeping, Silent
<1> QED
  BY <1>1, <1>2 DEF RInv

\* The end of a transaction, by commit or by rollback.
LEMMA ReleasePreserves ==
  ASSUME IInv, RInv, NEW p \in Procs, Rollback(p) \/ Commit(p)
  PROVE  RInv'
<1>1. FromTheLock'
  <2> SUFFICES ASSUME NEW q \in Procs, pc'[q] = "decide"
               PROVE  work'[task'[q].job] = row'[task'[q].job]
    BY DEF FromTheLock
  <2>1. q # p /\ pc[q] = "decide" /\ task'[q] = task[q]
    BY DEF IInv, TypeOK, Rollback, Commit, Release, Goto
  <2>2. task[q].job \in Jobs /\ rowLock[task[q].job] # p
    BY <2>1, AtDecide
  <2>3. work'[task[q].job] = work[task[q].job] /\ row'[task[q].job] = row[task[q].job]
    BY <2>2 DEF IInv, TypeOK, Rollback, Commit
  <2> QED
    BY <2>1, <2>3 DEF RInv, FromTheLock
<1>2. Keeping'
  BY DEF IInv, TypeOK, RInv, Keeping, Rollback, Commit
<1> QED
  BY <1>1, <1>2 DEF RInv

-----------------------------------------------------------------------------
(* Every step is one of these.                                                *)

LEMMA RequestIsSilent ==
  ASSUME IInv, NEW p \in Procs, NEW j \in Jobs, Request(p, j)
  PROVE  Silent(p)
<1>1. CASE BeginSubmit(p, j)
  BY <1>1 DEF IInv, TypeOK, BeginSubmit, Goto, Silent
<1>2. CASE \E k \in Attempts, says \in Says : Callback(p, j, k, says)
  BY <1>2 DEF IInv, TypeOK, Callback, Arrive, dbVars, Goto, Silent
<1>3. CASE \E k \in Attempts : CallbackUnknown(p, j, k)
  BY <1>3 DEF IInv, TypeOK, CallbackUnknown, Goto, dbVars, Silent
<1>4. CASE Poll(p, j) \/ Delete(p, j)
  BY <1>4 DEF IInv, TypeOK, Poll, Delete, Arrive, dbVars, Goto, Silent
<1> QED
  BY <1>1, <1>2, <1>3, <1>4 DEF Request

\* The decisions about a locked row.
LEMMA DecisionAdvances ==
  ASSUME IInv, RInv, NEW p \in Procs, NEW j \in Jobs, j = task[p].job,
         \/ DeleteRow(p) \/ IgnoreCallback(p) \/ CallbackPending(p) \/ CallbackGood(p)
         \/ CallbackBad(p) \/ AdvanceProxy(p) \/ Complete(p) \/ Reject(p) \/ Fail(p)
  PROVE  Advances(p, j)
<1>1. /\ work \in [Jobs -> Row] /\ pc \in [Procs -> Steps] /\ work[j] \in Row
      /\ task[p].kind \in Kinds /\ task[p].attempt \in Attempts \cup {0}
  BY DEF IInv, TypeOK, Tasks
<1>2. rowLock[j] = p
  BY DEF IInv, Positions, Position, DeleteRow, IgnoreCallback, CallbackPending,
         CallbackGood, CallbackBad, AdvanceProxy, Complete, Reject, Fail, Deciding
<1>3. row[j].pending # 0 => work[j].pending = row[j].pending \/ IsTerminal(work[j])
  BY DEF RInv, Keeping
<1>4. CASE DeleteRow(p)
  <2>1. work'[j].pending = work[j].pending /\ work'[j].st = work[j].st
    BY <1>1, <1>4 DEF DeleteRow, Row
  <2> QED
    BY <1>1, <1>2, <1>3, <1>4, <2>1 DEF DeleteRow, Done, Goto, Advances, IsTerminal
<1>5. CASE IgnoreCallback(p) \/ Reject(p)
  BY <1>1, <1>2, <1>3, <1>5 DEF IgnoreCallback, Reject, dbVars, Done, Goto, Advances
<1>6. CASE CallbackPending(p)
  BY <1>1, <1>2, <1>3, <1>6 DEF CallbackPending, Ignored, Done, Goto, Advances
<1>7. CASE CallbackGood(p)
  <2>1. row[j].pending # 0 => work[j].pending = row[j].pending
    BY <1>3, <1>7 DEF CallbackGood, Ignored
  <2>2. work[j].pending # 0 => work'[j].pending = work[j].pending
    BY <1>1, <1>7 DEF CallbackGood, Row
  <2> QED
    BY <1>1, <1>2, <1>7, <2>1, <2>2 DEF CallbackGood, Goto, Advances
<1>8. CASE CallbackBad(p)
  <2>1. row[j].pending = 0
    BY <1>3, <1>8 DEF CallbackBad, Ignored
  <2>2. \/ Goto(p, "refund") /\ UNCHANGED work
        \/ \E k \in Attempts : work' = [work EXCEPT ![j].at = k, ![j].st = "running"] /\ Done(p)
    BY <1>8, BadEffect DEF IInv
  <2> QED
    BY <1>1, <1>2, <1>8, <2>1, <2>2 DEF CallbackBad, Done, Goto, Advances
<1>9. CASE AdvanceProxy(p)
  BY <1>1, <1>2, <1>3, <1>9 DEF AdvanceProxy, IsOpen, Open, IsTerminal, Terminal, Done, Goto, Advances
<1>10. CASE Complete(p)
  <2>1. \E w : /\ w.st = "completed"
               /\ work' = [work EXCEPT ![j] = w]
    <3> DEFINE w == [work[j] EXCEPT !.st = "completed", !.result = work[j].pending,
                       !.pending = 0, !.pushed = @ \/ (j \in Priced /\ ~work[j].pushed)]
    <3>1. work' = [work EXCEPT ![j] = w]
      BY <1>1, <1>10 DEF Complete
    <3>2. w.st = "completed"
      BY <1>1 DEF Row
    <3> QED
      BY <3>1, <3>2
  <2>2. work'[j].st \in Terminal
    BY <1>1, <2>1 DEF Terminal
  <2> QED
    BY <1>1, <1>2, <1>10, <2>2 DEF Complete, IsTerminal, Done, Goto, Advances
<1>11. CASE Fail(p)
  <2>1. \E w : /\ w.st = "failed"
               /\ work' = [work EXCEPT ![j] = w]
    <3> DEFINE w == [work[j] EXCEPT !.st = "failed",
                       !.refunded = @ \/ (j \in Priced /\ ~work[j].refunded),
                       !.pending = 0]
    <3>1. work' = [work EXCEPT ![j] = w]
      BY <1>1, <1>11 DEF Fail
    <3>2. w.st = "failed"
      BY <1>1 DEF Row
    <3> QED
      BY <3>1, <3>2
  <2>2. work'[j].st \in Terminal
    BY <1>1, <2>1 DEF Terminal
  <2> QED
    BY <1>1, <1>2, <1>11, <2>2 DEF Fail, IsTerminal, Done, Goto, Advances
<1> QED
  BY <1>4, <1>5, <1>6, <1>7, <1>8, <1>9, <1>10, <1>11

LEMMA NextRInv == IInv /\ RInv /\ [Next]_vars => RInv'
<1> SUFFICES ASSUME IInv, RInv, [Next]_vars PROVE RInv'
  OBVIOUS
<1>1. ASSUME NEW p \in Procs, NEW j \in Jobs, Request(p, j) PROVE RInv'
  BY <1>1, RequestIsSilent, SilentPreserves
<1>2. ASSUME NEW p \in Procs, SelectBatch(p) \/ EndBatch(p) PROVE RInv'
  <2>1. Silent(p)
    BY <1>2 DEF IInv, TypeOK, SelectBatch, EndBatch, dbVars, Goto, Silent
  <2> QED
    BY <2>1, SilentPreserves
<1>3. ASSUME NEW p \in Procs, Abort(p) \/ InsufficientCredits(p) \/ SubmitRefused(p) \/ Commit(p)
      PROVE  RInv'
  BY <1>3, ReleasePreserves DEF Abort, InsufficientCredits, SubmitRefused
<1>4. ASSUME NEW p \in Procs, Debit(p) PROVE RInv'
  <2>1. Silent(p)
    BY <1>4 DEF IInv, TypeOK, Debit, Goto, Silent
  <2> QED
    BY <2>1, SilentPreserves
<1>5. ASSUME NEW p \in Procs, SubmitAccepted(p) PROVE RInv'
  <2>1. PICK j \in Jobs : j = task[p].job
    BY <1>5 DEF IInv, Positions, Position, SubmitAccepted
  <2>2. rowLock[j] = p /\ row[j].pending = 0
    BY <1>5, <2>1 DEF IInv, Positions, Position, SubmitAccepted, NoRow
  <2>3. Advances(p, j)
    BY <1>5, <2>1, <2>2 DEF IInv, TypeOK, SubmitAccepted, Goto, Advances
  <2> QED
    BY <2>3, AdvancesPreserves
<1>6. ASSUME NEW p \in Procs, LockRow(p) PROVE RInv'
  <2>1. task[p].job \in Jobs
    BY <1>6 DEF IInv, Positions, Position, LockRow
  <2>2. Silent(p)
    BY <1>6, <2>1 DEF IInv, TypeOK, LockRow, Goto, Silent
  <2> QED
    BY <2>2, SilentPreserves
<1>7. ASSUME NEW p \in Procs, Transient(p) PROVE RInv'
  <2>1. CASE Rollback(p)
    BY <2>1, ReleasePreserves
  <2>2. CASE ~Rollback(p)
    <3>1. Silent(p)
      BY <1>7, <2>2 DEF IInv, TypeOK, Transient, dbVars, Goto, Silent
    <3> QED
      BY <3>1, SilentPreserves
  <2> QED
    BY <2>1, <2>2
<1>8. ASSUME NEW p \in Procs, NEW j \in Jobs, TakeJob(p, j) \/ SkipJob(p, j) PROVE RInv'
  <2>1. Silent(p)
    BY <1>8 DEF IInv, TypeOK, Tasks, TakeJob, SkipJob, MayTake, dbVars, Goto, Silent
  <2> QED
    BY <2>1, SilentPreserves
<1>9. ASSUME NEW p \in Procs,
             \/ DeleteRow(p) \/ IgnoreCallback(p) \/ CallbackPending(p) \/ CallbackGood(p)
             \/ CallbackBad(p) \/ AdvanceProxy(p) \/ Complete(p) \/ Reject(p) \/ Fail(p)
      PROVE  RInv'
  <2>1. task[p].job \in Jobs
    BY <1>9 DEF IInv, Positions, Position, DeleteRow, IgnoreCallback, CallbackPending,
                CallbackGood, CallbackBad, AdvanceProxy, Complete, Reject, Fail, Deciding
  <2> QED
    BY <1>9, <2>1, DecisionAdvances, AdvancesPreserves
<1>10. CASE (\E j \in Jobs : Tick(j)) \/ UNCHANGED vars
  BY <1>10 DEF RInv, FromTheLock, Keeping, Tick, dbVars, vars
<1> QED
  BY <1>1, <1>2, <1>3, <1>4, <1>5, <1>6, <1>7, <1>8, <1>9, <1>10 DEF Next, Run

\* The strengthened invariant holds in every reachable state.
LEMMA ResultInvariant == Spec => [](IInv /\ RInv)
<1>1. Init => RInv
  BY DEF Init, RInv, FromTheLock, Keeping
<1> QED
  BY <1>1, Invariant, NextRInv, PTL DEF Spec

-----------------------------------------------------------------------------
(* Results.                                                                   *)

\* A job is given up from "decide" only when no result is pending.
LEMMA GivenUpWithoutResult ==
  ASSUME IInv, [Next]_vars, NEW p \in Procs, pc[p] = "decide", pc'[p] = "refund"
  PROVE  work[task[p].job].pending = 0
<1>1. ASSUME NEW q \in Procs, NEW j \in Jobs, Request(q, j) PROVE pc'[p] = "decide"
  BY <1>1 DEF IInv, TypeOK, Request, BeginSubmit, Callback, CallbackUnknown, Poll, Delete,
              Arrive, Goto
<1>2. ASSUME NEW q \in Procs, q # p, SelectBatch(q) \/ Run(q) \/ Abort(q)
      PROVE  pc'[p] = "decide"
  BY <1>2 DEF IInv, TypeOK, SelectBatch, Abort, Run, Debit, InsufficientCredits, SubmitAccepted,
     SubmitRefused, LockRow, DeleteRow, IgnoreCallback, CallbackPending, CallbackGood,
     CallbackBad, AdvanceProxy, Complete, Reject, Transient, Fail, TakeJob, SkipJob, EndBatch,
     Commit, Rollback, Release, Done, Goto
<1>3. CASE SelectBatch(p) \/ Abort(p)
  BY <1>3 DEF IInv, TypeOK, SelectBatch, Abort, Rollback, Release, Goto
<1>4. CASE CallbackBad(p)
  BY <1>4 DEF CallbackBad, Ignored
<1>5. CASE AdvanceProxy(p)
  BY <1>5 DEF IInv, TypeOK, AdvanceProxy, Done, Goto
<1>6. CASE Run(p) /\ ~CallbackBad(p) /\ ~AdvanceProxy(p)
  BY <1>6 DEF IInv, TypeOK, Run, Debit, InsufficientCredits, SubmitAccepted, SubmitRefused,
     LockRow, DeleteRow, IgnoreCallback, CallbackPending, CallbackGood, Complete, Reject,
     Transient, Fail, TakeJob, SkipJob, EndBatch, Commit, Done, Goto
<1>7. CASE (\E j \in Jobs : Tick(j)) \/ UNCHANGED vars
  BY <1>7 DEF Tick, vars
<1> QED
  BY <1>1, <1>2, <1>3, <1>4, <1>5, <1>6, <1>7 DEF Next

\* A result the only callback brought is kept until the job ends, and the job is not
\* given up before it was tried (_advance looks at the result before the deadline).
THEOREM ResultsAreKept == Spec => ResultIsKept
<1>1. ASSUME IInv, RInv, [Next]_vars, NEW j \in Jobs, row[j].pending # 0
      PROVE  row'[j].pending = row[j].pending \/ IsTerminal(row'[j])
  <2>1. row'[j] = row[j] \/ row'[j] = work[j]
    BY <1>1, OnlyCommits, Published
  <2> QED
    BY <1>1, <2>1 DEF RInv, Keeping
<1>2. IInv /\ RInv /\ [Next]_vars =>
        [/\ \A j \in Jobs : row[j].pending # 0 =>
               row'[j].pending = row[j].pending \/ IsTerminal(row'[j])
         /\ \A p \in Procs : pc[p] = "decide" /\ pc'[p] = "refund" =>
               work[task[p].job].pending = 0]_vars
  BY <1>1, GivenUpWithoutResult
<1> QED
  BY <1>2, ResultInvariant, PTL DEF Spec, ResultIsKept

-----------------------------------------------------------------------------
(* Purchases.                                                                 *)

\* Trying the routes from `first` on buys runs of those routes only.
LEMMA PaidRoutes ==
  ASSUME NEW j \in Jobs, NEW first \in Nat, NEW o \in SubmitOutcomes(j, first)
  PROVE  \A i \in Jobs, k \in Attempts : <<i, k>> \in o.paid => i = j /\ first <= k
  BY DEF SubmitOutcomes

Needed(j, k) ==
  \/ row[j].st = "absent"
  \/ IsOpen(row[j]) /\ row[j].pending = 0 /\ row[j].at < k

LEMMA PurchaseStep ==
  ASSUME IInv, RInv, [Next]_vars, NEW j \in Jobs, NEW k \in Attempts,
         <<j, k>> \in runs' \ runs
  PROVE  Needed(j, k)
<1>1. ASSUME NEW p \in Procs, SubmitAccepted(p) \/ SubmitRefused(p) PROVE Needed(j, k)
  <2>1. task[p].job \in Jobs /\ row[task[p].job].st = "absent"
    BY <1>1 DEF IInv, Positions, Position, SubmitAccepted, SubmitRefused, NoRow
  <2>2. PICK i \in Jobs : i = task[p].job
    BY <2>1
  <2>3. PICK o \in SubmitOutcomes(i, 1) : runs' = runs \cup o.paid
    BY <1>1, <2>2 DEF SubmitAccepted, SubmitRefused
  <2>4. <<j, k>> \in o.paid
    BY <2>3
  <2>5. j = i
    BY <2>4, PaidRoutes
  <2> QED
    BY <2>1, <2>2, <2>5 DEF Needed
<1>2. ASSUME NEW p \in Procs, CallbackBad(p) PROVE Needed(j, k)
  <2>1. PICK i \in Jobs : i = task[p].job /\ row[i].st # "absent" /\ row[i] = work[i]
    BY <1>2, AtDecide DEF RInv, FromTheLock, CallbackBad, Deciding
  <2>2. work[i] \in Row /\ work[i].at \in Nat /\ work[i].at + 1 \in Nat
    BY DEF IInv, TypeOK, Row
  <2>3. work[i].pending = 0 /\ ~IsTerminal(work[i])
    BY <1>2, <2>1 DEF CallbackBad, Ignored
  <2>4. IsOpen(row[i])
    BY <2>1, <2>2, <2>3 DEF IsOpen, IsTerminal, Row
  <2>5. PICK o \in SubmitOutcomes(i, work[i].at + 1) : runs' = runs \cup o.paid
    BY <1>2, <2>1 DEF CallbackBad
  <2>6. j = i /\ work[i].at + 1 <= k
    <3>1. <<j, k>> \in o.paid
      BY <2>5
    <3> QED
      BY <2>2, <3>1, PaidRoutes
  <2>7. row[j].at < k
    BY <2>1, <2>2, <2>6
  <2> QED
    BY <2>1, <2>3, <2>4, <2>6, <2>7 DEF Needed
<1>3. ASSUME NEW p \in Procs, Run(p), ~SubmitAccepted(p), ~SubmitRefused(p), ~CallbackBad(p)
      PROVE  FALSE
  BY <1>3 DEF Run, Debit, InsufficientCredits, LockRow, DeleteRow, IgnoreCallback,
     CallbackPending, CallbackGood, AdvanceProxy, Complete, Reject, Transient, Fail, TakeJob,
     SkipJob, EndBatch, Commit
<1>4. ASSUME NEW p \in Procs, NEW i \in Jobs, Request(p, i) PROVE FALSE
  BY <1>4 DEF Request, BeginSubmit, Callback, CallbackUnknown, Poll, Delete, Arrive
<1>5. ASSUME NEW p \in Procs, SelectBatch(p) \/ Abort(p) PROVE FALSE
  BY <1>5 DEF SelectBatch, Abort
<1>6. CASE (\E i \in Jobs : Tick(i)) \/ UNCHANGED vars
  BY <1>6 DEF Tick, vars
<1> QED
  BY <1>1, <1>2, <1>3, <1>4, <1>5, <1>6 DEF Next

\* A run is bought for a new job, or for an open one whose result nobody has, on a
\* route behind those that were tried.
THEOREM NothingBoughtInVain == Spec => NoNeedlessPurchase
<1>1. IInv /\ RInv /\ [Next]_vars =>
        [\A j \in Jobs, k \in Attempts : <<j, k>> \in runs' \ runs =>
           \/ row[j].st = "absent"
           \/ IsOpen(row[j]) /\ row[j].pending = 0 /\ row[j].at < k]_vars
  BY PurchaseStep DEF Needed
<1> QED
  BY <1>1, ResultInvariant, PTL DEF Spec, NoNeedlessPurchase

-----------------------------------------------------------------------------
(* Locks: who can wait for whom.                                              *)

\* In a step of p nobody else gets anywhere, or gets a lock.
Alone(p) ==
  /\ pc' = [pc EXCEPT ![p] = pc'[p]] /\ task' = [task EXCEPT ![p] = task'[p]]
  /\ \A q \in Procs \ {p} :
       /\ \A j \in Jobs : rowLock'[j] = q => rowLock[j] = q
       /\ \A u \in Users : walletLock'[u] = q => walletLock[u] = q

LEMMA AlonePreserves ==
  ASSUME TypeOK, LockOrder, NEW p \in Procs, Alone(p), Order(p)'
  PROVE  LockOrder'
<1> SUFFICES ASSUME NEW q \in Procs \ {p}
             PROVE  Order(q)'
  BY DEF LockOrder
<1>1. pc'[q] = pc[q] /\ task'[q] = task[q] /\ Order(q)
  BY DEF Alone, LockOrder, TypeOK
<1>2. /\ \A j \in Jobs : rowLock'[j] = q => rowLock[j] = q
      /\ \A u \in Users : walletLock'[u] = q => walletLock[u] = q
  BY DEF Alone
<1> QED
  BY <1>1, <1>2 DEF Order, Held

\* The end of a transaction.
LEMMA ReleaseOrder ==
  ASSUME TypeOK, NEW p \in Procs, Release(p)
  PROVE  Alone(p) /\ Order(p)'
<1>1. pc'[p] = "idle" /\ task'[p] = Idle
  BY DEF Release, Goto, TypeOK
<1>2. Alone(p)
  BY ConstantsAssumption DEF Alone, Release, Goto, TypeOK
<1>3. Held(p)' = {} /\ \A u \in Users : walletLock'[u] # p
  BY ConstantsAssumption DEF Release, Held, TypeOK
<1> QED
  BY <1>1, <1>2, <1>3 DEF Order, Idle

\* A request comes in.
LEMMA RequestOrder ==
  ASSUME TypeOK, LockOrder, NEW p \in Procs, NEW j \in Jobs, Request(p, j)
  PROVE  LockOrder'
<1>1. CASE BeginSubmit(p, j)
  <2>1. pc'[p] \in {"debit", "transport"} /\ task'[p].kind = "submit" /\ pc[p] = "idle"
    BY <1>1 DEF BeginSubmit, Goto, TypeOK, Idle
  <2>2. Alone(p) /\ UNCHANGED walletLock
    BY <1>1 DEF Alone, BeginSubmit, Goto, TypeOK
  <2> QED
    BY <2>1, <2>2, AlonePreserves DEF LockOrder, Order
<1>2. ASSUME NEW t \in Tasks, t.kind # "batch", Arrive(p, t)
      PROVE  LockOrder'
  <2>1. /\ p \in Handlers /\ pc[p] = "idle" /\ pc'[p] = "lock" /\ task'[p] = t
        /\ UNCHANGED <<rowLock, walletLock>> /\ p \notin Reconcilers
    BY <1>2, ConstantsAssumption DEF Arrive, Goto, dbVars, TypeOK
  <2>2. Alone(p)
    BY <1>2 DEF Alone, Arrive, Goto, dbVars, TypeOK
  <2>3. Held(p)' = Held(p)
    BY <2>1 DEF Held
  <2> QED
    BY <1>2, <2>1, <2>2, <2>3, AlonePreserves DEF LockOrder, Order
<1>3. ASSUME NEW k \in Attempts, NEW says \in Says, Callback(p, j, k, says)
      PROVE  LockOrder'
  <2> DEFINE t == [Idle EXCEPT !.kind = "callback", !.job = j, !.attempt = k, !.says = says]
  <2>1. t \in Tasks /\ t.kind # "batch" /\ Arrive(p, t)
    BY <1>3 DEF Callback, Tasks, Kinds, Idle
  <2> QED
    BY <1>2, <2>1
<1>4. CASE Poll(p, j)
  <2> DEFINE t == [Idle EXCEPT !.kind = "poll", !.job = j]
  <2>1. t \in Tasks /\ t.kind # "batch" /\ Arrive(p, t)
    BY <1>4 DEF Poll, Tasks, Kinds, Idle, Says
  <2> QED
    BY <1>2, <2>1
<1>5. CASE Delete(p, j)
  <2> DEFINE t == [Idle EXCEPT !.kind = "delete", !.job = j]
  <2>1. t \in Tasks /\ t.kind # "batch" /\ Arrive(p, t)
    BY <1>5 DEF Delete, Tasks, Kinds, Idle, Says
  <2> QED
    BY <1>2, <2>1
<1>6. ASSUME NEW k \in Attempts, CallbackUnknown(p, j, k)
      PROVE  LockOrder'
  BY <1>6 DEF CallbackUnknown, dbVars, LockOrder, Order, Held
<1> QED
  BY <1>1, <1>3, <1>4, <1>5, <1>6 DEF Request

\* A transaction that goes on with the locks it has.
LEMMA GoesOn ==
  ASSUME TypeOK, LockOrder, NEW p \in Procs, UNCHANGED <<rowLock, walletLock, task>>,
         NEW l \in Steps \ {"idle", "lock"}, Goto(p, l), pc[p] \notin {"transport", "commit", "lock"},
         l = "next" => task[p].kind = "batch"
  PROVE  LockOrder'
<1>1. Alone(p) /\ pc'[p] = l
  BY DEF Alone, Goto, TypeOK
<1> QED
  BY <1>1, AlonePreserves DEF LockOrder, Order

LEMMA DecisionOrder ==
  ASSUME TypeOK, LockOrder, NEW p \in Procs,
         \/ DeleteRow(p) \/ IgnoreCallback(p) \/ CallbackPending(p) \/ CallbackGood(p)
         \/ CallbackBad(p) \/ AdvanceProxy(p) \/ Complete(p) \/ Reject(p) \/ Transient(p)
  PROVE  LockOrder'
<1>1. CASE Rollback(p)
  BY <1>1, ReleaseOrder, AlonePreserves DEF Rollback
<1>2. CASE ~Rollback(p)
  <2>1. pc[p] \in {"decide", "complete"} /\ UNCHANGED <<rowLock, walletLock, task>>
    BY <1>2 DEF DeleteRow, IgnoreCallback, CallbackPending, CallbackGood, CallbackBad, AdvanceProxy,
                Complete, Reject, Transient, Deciding, dbVars
  <2>2. \E l \in {"next", "commit", "complete", "refund"} :
          Goto(p, l) /\ (l = "next" => task[p].kind = "batch")
    BY <1>2 DEF DeleteRow, IgnoreCallback, CallbackPending, CallbackGood, CallbackBad, AdvanceProxy,
                Complete, Reject, Transient, Deciding, Done
  <2> QED
    BY <2>1, <2>2, GoesOn DEF Steps
<1> QED
  BY <1>1, <1>2

\* A refund takes the wallet last.
LEMMA FailOrder ==
  ASSUME TypeOK, LockOrder, NEW p \in Procs, Fail(p)
  PROVE  LockOrder'
<1>1. /\ pc[p] = "refund" /\ UNCHANGED <<rowLock, task>>
      /\ pc' = [pc EXCEPT ![p] = IF task[p].kind = "batch" THEN "next" ELSE "commit"]
  BY DEF Fail, Done, Goto
<1>2. Alone(p)
  BY <1>1, ConstantsAssumption DEF Alone, Fail, TakeWallet, TypeOK
<1> QED
  BY <1>1, <1>2, AlonePreserves DEF LockOrder, Order, TypeOK

LEMMA SubmitOrder ==
  ASSUME TypeOK, LockOrder, NEW p \in Procs,
         Debit(p) \/ InsufficientCredits(p) \/ SubmitAccepted(p) \/ SubmitRefused(p)
  PROVE  LockOrder'
<1>1. CASE Debit(p)
  <2>1. pc'[p] = "transport" /\ UNCHANGED <<rowLock, task>>
    BY <1>1 DEF Debit, Goto, TypeOK
  <2>2. Alone(p)
    BY <1>1, ConstantsAssumption DEF Alone, Debit, Goto, TakeWallet, TypeOK
  <2> QED
    BY <1>1, <2>1, <2>2, AlonePreserves DEF LockOrder, Order
<1>2. CASE InsufficientCredits(p) \/ SubmitRefused(p)
  BY <1>2, ReleaseOrder, AlonePreserves DEF InsufficientCredits, SubmitRefused, Rollback
<1>3. CASE SubmitAccepted(p)
  <2>1. pc'[p] = "commit" /\ UNCHANGED <<rowLock, walletLock, task>>
    BY <1>3 DEF SubmitAccepted, Goto, TypeOK
  <2>2. Alone(p)
    BY <1>3 DEF Alone, SubmitAccepted, Goto, TypeOK
  <2> QED
    BY <2>1, <2>2, AlonePreserves DEF LockOrder, Order
<1> QED
  BY <1>1, <1>2, <1>3

LEMMA LockRowOrder ==
  ASSUME TypeOK, LockOrder, NEW p \in Procs, LockRow(p)
  PROVE  LockOrder'
<1>1. /\ pc[p] = "lock" /\ UNCHANGED walletLock /\ pc'[p] \in {"decide", "idle"}
      /\ task'[p] = task[p] \/ task'[p] = Idle
      /\ pc'[p] = "idle" => UNCHANGED rowLock
  BY DEF LockRow, Goto, TypeOK
<1>2. Alone(p)
  BY DEF Alone, LockRow, Goto, TypeOK
<1>3. pc'[p] = "idle" => Held(p)' = Held(p)
  BY <1>1 DEF Held
<1> QED
  BY <1>1, <1>2, <1>3, AlonePreserves DEF LockOrder, Order, Idle

LEMMA LoopOrder ==
  ASSUME TypeOK, LockOrder, NEW p \in Procs,
         SelectBatch(p) \/ (\E j \in Jobs : TakeJob(p, j) \/ SkipJob(p, j)) \/ EndBatch(p)
  PROVE  LockOrder'
<1>1. p \notin Handlers /\ pc'[p] \in {"next", "decide", "commit"}
  BY ConstantsAssumption DEF SelectBatch, TakeJob, SkipJob, EndBatch, Goto, TypeOK, LockOrder, Order
<1>2. Alone(p)
  BY DEF Alone, SelectBatch, TakeJob, SkipJob, EndBatch, Goto, dbVars, TypeOK
<1> QED
  BY <1>1, <1>2, AlonePreserves DEF Order

LEMMA NextOrder == TypeOK /\ LockOrder /\ [Next]_vars => LockOrder'
<1> SUFFICES ASSUME TypeOK, LockOrder, [Next]_vars
             PROVE  LockOrder'
  OBVIOUS
<1>1. ASSUME NEW p \in Procs, NEW j \in Jobs, Request(p, j)
      PROVE  LockOrder'
  BY <1>1, RequestOrder
<1>2. ASSUME NEW p \in Procs, SelectBatch(p)
      PROVE  LockOrder'
  BY <1>2, LoopOrder
<1>3. ASSUME NEW p \in Procs, Run(p)
      PROVE  LockOrder'
  <2>1. CASE Commit(p)
    BY <2>1, ReleaseOrder, AlonePreserves DEF Commit
  <2> QED
    BY <1>3, <2>1, SubmitOrder, LockRowOrder, DecisionOrder, FailOrder, LoopOrder DEF Run
<1>4. ASSUME NEW p \in Procs, Abort(p)
      PROVE  LockOrder'
  BY <1>4, ReleaseOrder, AlonePreserves DEF Abort, Rollback
<1>5. ASSUME NEW j \in Jobs, Tick(j)
      PROVE  LockOrder'
  BY <1>5 DEF Tick, dbVars, LockOrder, Order, Held
<1>6. CASE UNCHANGED vars
  BY <1>6 DEF vars, LockOrder, Order, Held
<1> QED
  BY <1>1, <1>2, <1>3, <1>4, <1>5, <1>6 DEF Next

\* In a lock cycle everybody waits: as many processes are waited for as wait.
LEMMA EverybodyWaits ==
  ASSUME NEW S \in SUBSET Procs, UNION {Blockers(q) : q \in S} = S, NEW p \in S
  PROVE  Blockers(p) # {}
<1> DEFINE W == {q \in S : Blockers(q) # {}}
           f == [q \in W |-> CHOOSE b : b \in Blockers(q)]
<1>1. IsFiniteSet(S) /\ IsFiniteSet(W)
  BY ConstantsAssumption, FS_Subset
<1>2. \A q \in S : \A a, b \in Blockers(q) : a = b
  BY DEF Blockers
<1>3. \A q \in W : \A b \in Blockers(q) : f[q] = b
  BY <1>2
<1>4. f \in Surjection(W, S)
  <2>1. f \in [W -> S]
    BY <1>3
  <2>2. \A b \in S : \E q \in W : f[q] = b
    BY <1>3
  <2> QED
    BY <2>1, <2>2 DEF Surjection
<1>5. Cardinality(S) <= Cardinality(W) /\ Cardinality(W) <= Cardinality(S)
  <2> HIDE DEF f, W
  <2>1. Cardinality(S) <= Cardinality(W)
    BY <1>1, <1>4, FS_Surjection
  <2>2. W \in SUBSET S
    BY DEF W
  <2> QED
    BY <1>1, <2>1, <2>2, FS_Subset
<1>6. W = S
  <2>1. Cardinality(S) \in Nat /\ Cardinality(W) \in Nat
    BY <1>1, FS_CardinalityType
  <2>2. Cardinality(S) = Cardinality(W)
    BY <1>5, <2>1
  <2>3. W \in SUBSET S
    OBVIOUS
  <2> QED
    BY <1>1, <2>2, <2>3, FS_Subset
<1> QED
  BY <1>6

\* No request is ever part of a lock cycle, however many requests and loops there are: who
\* waits for a request waits at a row, and is waited for by nobody (handle_callback, get_job,
\* reconcile_open with SKIP LOCKED).
THEOREM RequestsWaitInOrder == Spec => []RequestsNeverDeadlock
<1>1. Init => LockOrder
  BY ConstantsAssumption DEF Init, LockOrder, Order, Held, Idle
<1>2. Spec => []LockOrder
  BY <1>1, NextOrder, TypeCorrect, PTL DEF Spec
<1>3. IInv /\ LockOrder => RequestsNeverDeadlock
  <2> SUFFICES ASSUME TypeOK, Positions, LockOrder, NEW p \in Handlers,
                      NEW S \in SUBSET Procs, p \in S, UNION {Blockers(q) : q \in S} = S
               PROVE  FALSE
    BY DEF RequestsNeverDeadlock, InLockCycle, IInv
  <2>1. \A q \in S : pc[q] \in {"lock", "debit", "refund"}
    BY EverybodyWaits DEF Blockers
  <2>2. \A h \in Handlers : h \in S => \A u \in Users : walletLock[u] # h
    BY <2>1 DEF LockOrder, Order
  <2>3. PICK q \in S : p \in Blockers(q)
    OBVIOUS
  <2>4. pc[q] = "lock"
    <3> SUFFICES ASSUME pc[q] \in {"debit", "refund"}
                 PROVE  FALSE
      BY <2>1
    <3> QED
      BY <2>2, <2>3, ConstantsAssumption DEF Blockers
  <2>5. q \in Handlers /\ Held(q) = {}
    BY <2>4 DEF LockOrder, Order
  <2>6. PICK r \in S : q \in Blockers(r)
    OBVIOUS
  <2>7. CASE pc[r] = "lock"
    <3>1. task[r].job \in Jobs
      BY <2>7 DEF Positions, Position
    <3> QED
      BY <2>5, <2>6, <2>7, <3>1 DEF Blockers, Held
  <2>8. CASE pc[r] \in {"debit", "refund"}
    BY <2>2, <2>5, <2>6, <2>8, ConstantsAssumption DEF Blockers
  <2> QED
    BY <2>1, <2>7, <2>8
<1> QED
  BY <1>2, <1>3, Invariant, PTL

=============================================================================
