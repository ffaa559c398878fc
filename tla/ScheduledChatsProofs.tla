------------------------ MODULE ScheduledChatsProofs ------------------------
(***************************************************************************)
(* Proofs about ScheduledChats, for any tasks, workers, requests and       *)
(* bounds: a task is answered and paid at most once, announced at most     *)
(* once unless the record of it was lost, never run in another chat than   *)
(* planned, and what a poller has decided no poller changes.               *)
(***************************************************************************)
EXTENDS ScheduledChats, FiniteSetTheorems, TLAPS

-----------------------------------------------------------------------------
(* Types.                                                                  *)

\* A step of the API and of time leaves the workers alone.
LEMMA RowTypes ==
  ASSUME TypeOK, row' \in [Tasks -> Row], req' \in [Requests -> Request],
         calls' \in 0 .. MaxRequests, chat' \in BOOLEAN,
         UNCHANGED <<claim, worker, turnVars, pushVars>>
  PROVE  TypeOK'
  BY DEF TypeOK, turnVars, pushVars

\* A step of a worker leaves the requests alone.
LEMMA PollTypes ==
  ASSUME TypeOK, NEW w \in Workers, NEW new \in Worker, Cardinality(new.batch) <= BatchSize,
         Poll(w, new), row' \in [Tasks -> Row], claim' \in [Tasks -> Workers \cup {Nobody}],
         answered' \in [Tasks -> Nat], opened' \subseteq Tasks,
         sent' \in [Tasks -> 0 .. 2], unsure' \subseteq Tasks
  PROVE  TypeOK'
  BY DEF TypeOK, Poll

\* What a worker keeps of its batch still fits.
LEMMA Fits ==
  ASSUME TypeOK, NEW w \in Workers
  PROVE  /\ Cardinality({}) <= BatchSize
         /\ Cardinality(worker[w].batch) <= BatchSize
         /\ \A t \in Tasks : Cardinality(worker[w].batch \ {t}) <= BatchSize
<1>1. worker[w].batch \in SUBSET Tasks /\ IsFiniteSet(Tasks)
  BY ScheduleAssumption DEF TypeOK, Worker
<1>2. IsFiniteSet(worker[w].batch) /\ Cardinality(worker[w].batch) \in Nat
  BY <1>1, FS_Subset, FS_CardinalityType
<1>3. \A t \in Tasks : /\ IsFiniteSet(worker[w].batch \ {t})
                       /\ Cardinality(worker[w].batch \ {t}) \in Nat
                        /\ Cardinality(worker[w].batch \ {t}) <= Cardinality(worker[w].batch)
  BY <1>2, FS_Subset, FS_CardinalityType
<1>4. Cardinality(worker[w].batch) <= BatchSize
  BY DEF TypeOK
<1> QED
  BY <1>2, <1>3, <1>4, FS_EmptySet, ScheduleAssumption

-----------------------------------------------------------------------------
(* The API and time.                                                       *)

\* A step that leaves the workers and what they have done alone, and at most ends rows.
LEMMA RowStep ==
  ASSUME ScheduleInv, row' \in [Tasks -> Row],
         UNCHANGED <<claim, worker, turnVars, pushVars>>,
         \A t \in Tasks : /\ row'[t].status \in {row[t].status, "cancelled", "deleted"}
                          /\ row'[t].pushed = row[t].pushed
  PROVE  NoPast' /\ OneHolder' /\ NotYetRun' /\ SaysTrue' /\ ClaimsAtWork' /\ SentIsKnown'
<1>1. NoPast'
  BY DEF ScheduleInv, NoPast, Holds, turnVars, pushVars
<1>2. OneHolder' /\ NotYetRun'
  BY DEF ScheduleInv, OneHolder, NotYetRun, Holds, turnVars
<1>3. SaysTrue'
  BY DEF ScheduleInv, SaysTrue, turnVars
<1>4. ClaimsAtWork'
  BY DEF ScheduleInv, ClaimsAtWork
<1>5. SentIsKnown'
  BY DEF ScheduleInv, SentIsKnown, NotifiedOnce, pushVars
<1> QED
  BY <1>1, <1>2, <1>3, <1>4, <1>5

LEMMA StartKeeps ==
  ASSUME ScheduleInv, NEW r \in Requests, NEW t \in Tasks,
         StartCreate(r, t) \/ StartPatch(r, t) \/ StartCancel(r, t) \/ StartRemove(r, t)
  PROVE  ScheduleInv'
<1>1. \E what \in {"create", "patch", "cancel", "remove"} :
        Open(r, what, t) /\ (what = "create" => StartCreate(r, t))
                         /\ (what # "create" => row[t].status # "none")
  BY DEF StartCreate, StartPatch, StartCancel, StartRemove, Ended
<1>2. PICK what \in {"create", "patch", "cancel", "remove"} :
        Open(r, what, t) /\ (what = "create" => StartCreate(r, t))
                         /\ (what # "create" => row[t].status # "none")
  BY <1>1
<1>3. TypeOK'
  <2>1. calls' \in 0 .. MaxRequests
    BY <1>2, ScheduleAssumption DEF Open, ScheduleInv, TypeOK
  <2>2. req' \in [Requests -> Request]
    BY <1>2 DEF Open, ScheduleInv, TypeOK, Request
  <2> QED
    BY <1>2, <2>1, <2>2, RowTypes DEF Open, ScheduleInv, TypeOK, rowVars
<1>4. OwnInsert'
  BY <1>2 DEF Open, StartCreate, NoRow, ScheduleInv, OwnInsert, TypeOK, Request, rowVars
<1> QED
  BY <1>2, <1>3, <1>4, RowStep DEF Open, ScheduleInv, TypeOK, rowVars

\* A request that ends with the row as it was or ended.
LEMMA CloseKeeps ==
  ASSUME ScheduleInv, NEW r \in Requests, Close(r), row' \in [Tasks -> Row],
         \A t \in Tasks :
           /\ row'[t].status \in {row[t].status, "cancelled", "deleted"}
           /\ row'[t].pushed = row[t].pushed
           /\ t # req[r].task \/ req[r].pc = "create" => row'[t] = row[t]
  PROVE  ScheduleInv'
<1>1. TypeOK'
  <2>1. req' \in [Requests -> Request]
    BY DEF Close, NoRequest, ScheduleInv, TypeOK, Request
  <2> QED
    BY <2>1, RowTypes DEF Close, ScheduleInv, TypeOK
<1>2. OwnInsert'
  <2> SUFFICES ASSUME NEW q \in Requests, req'[q].pc # "idle"
               PROVE  /\ req'[q].task \in Tasks
                      /\ req'[q].pc = "create" =>
                           /\ row'[req'[q].task].status = "none"
                           /\ \A p \in Requests \ {q} : req'[p].task # req'[q].task
    BY DEF OwnInsert
  <2>1. q # r /\ req'[q] = req[q] /\ req[q].task \in Tasks
    BY DEF Close, NoRequest, ScheduleInv, TypeOK, OwnInsert
  <2>2. \A p \in Requests : req'[p] = IF p = r THEN NoRequest ELSE req[p]
    BY DEF Close, ScheduleInv, TypeOK
  <2>3. ASSUME req[q].pc = "create"
        PROVE  row'[req[q].task].status = "none" /\ \A p \in Requests \ {q} : req[p].task # req[q].task
    BY <2>1, <2>3 DEF ScheduleInv, OwnInsert
  <2> QED
    BY <2>1, <2>2, <2>3, ScheduleAssumption DEF NoRequest
<1> QED
  BY <1>1, <1>2, RowStep DEF Close, ScheduleInv

LEMMA PatchKeeps ==
  ASSUME ScheduleInv, NEW r \in Requests, Patch(r)
  PROVE  ScheduleInv'
<1> DEFINE t == req[r].task
<1>1. t \in Tasks /\ row \in [Tasks -> Row] /\ req[r].pc = "patch" /\ Close(r)
  BY DEF ScheduleInv, OwnInsert, TypeOK, Patch
<1>2. \/ row' = row
      \/ \E b \in BOOLEAN : row' = [row EXCEPT ![t].late = b]
      \/ \E b \in BOOLEAN : row' = [row EXCEPT ![t].resumes = b]
  BY <1>1 DEF Patch, Row
<1>3. /\ row' \in [Tasks -> Row]
      /\ \A s \in Tasks : /\ row'[s].status = row[s].status
                          /\ row'[s].pushed = row[s].pushed
                          /\ s # t => row'[s] = row[s]
  <2> HIDE DEF t
  <2>1. CASE row' = row
    BY <1>1, <2>1
  <2>2. ASSUME NEW b \in BOOLEAN, row' = [row EXCEPT ![t].late = b]
        PROVE  <1>3!:
    BY <1>1, <2>2 DEF Row
  <2>3. ASSUME NEW b \in BOOLEAN, row' = [row EXCEPT ![t].resumes = b]
        PROVE  <1>3!:
    BY <1>1, <2>3 DEF Row
  <2> QED
    BY <1>2, <2>1, <2>2, <2>3
<1> QED
  BY <1>1, <1>3, CloseKeeps

LEMMA CancelKeeps ==
  ASSUME ScheduleInv, NEW r \in Requests, Cancel(r) \/ Remove(r)
  PROVE  ScheduleInv'
<1> DEFINE t == req[r].task
<1>1. t \in Tasks /\ row \in [Tasks -> Row] /\ req[r].pc \in {"cancel", "remove"} /\ Close(r)
  BY DEF ScheduleInv, OwnInsert, TypeOK, Cancel, Remove
<1>2. /\ row' \in [Tasks -> Row]
      /\ \A s \in Tasks : /\ row'[s].status \in {row[s].status, "cancelled", "deleted"}
                          /\ row'[s].pushed = row[s].pushed
                          /\ s # t => row'[s] = row[s]
  <2>1. \/ row' = row \/ row' = [row EXCEPT ![t] = Now(t, "cancelled")]
        \/ row' = [row EXCEPT ![t].status = "deleted"]
    BY DEF Cancel, Remove
  <2> HIDE DEF t
  <2>2. CASE row' = row
    BY <1>1, <2>2
  <2>3. CASE row' = [row EXCEPT ![t] = Now(t, "cancelled")]
    <3>1. /\ Now(t, "cancelled") \in Row
          /\ Now(t, "cancelled").status = "cancelled"
          /\ Now(t, "cancelled").pushed = row[t].pushed
      BY <1>1 DEF Row, Now, Status
    <3> QED
      BY <1>1, <2>3, <3>1
  <2>4. CASE row' = [row EXCEPT ![t].status = "deleted"]
    BY <1>1, <2>4 DEF Row, Status
  <2> QED
    BY <2>1, <2>2, <2>3, <2>4
<1> QED
  BY <1>1, <1>2, CloseKeeps

LEMMA GiveUpKeeps ==
  ASSUME ScheduleInv, NEW r \in Requests, GiveUp(r)
  PROVE  ScheduleInv'
  BY CloseKeeps DEF GiveUp, ScheduleInv, TypeOK

LEMMA CreateKeeps ==
  ASSUME ScheduleInv, NEW r \in Requests, Create(r)
  PROVE  ScheduleInv'
<1>1. /\ req[r].pc = "create" /\ req[r].task \in Tasks
      /\ row[req[r].task].status = "none"
      /\ \A q \in Requests \ {r} : req[q].task # req[r].task
  BY DEF Create, ScheduleInv, OwnInsert
<1>2. PICK new \in Row : /\ new.status = "scheduled" /\ ~new.pushed
                         /\ row' = [row EXCEPT ![req[r].task] = new]
  BY DEF Create, NoRow, Row, Status
<1>3. /\ row' \in [Tasks -> Row] /\ row'[req[r].task] = new
      /\ \A s \in Tasks : s # req[r].task => row'[s] = row[s]
  BY <1>1, <1>2 DEF ScheduleInv, TypeOK
<1>4. /\ \A q \in Requests : req'[q] = IF q = r THEN NoRequest ELSE req[q]
      /\ req' \in [Requests -> Request]
      /\ UNCHANGED <<claim, worker, calls, chat, turnVars, pushVars>>
  BY DEF Create, Close, ScheduleInv, TypeOK, Request, NoRequest
<1>5. TypeOK'
  BY <1>3, <1>4, RowTypes DEF ScheduleInv, TypeOK
<1>6. NoPast'
  BY <1>1, <1>2, <1>3, <1>4 DEF ScheduleInv, NoPast, Holds, turnVars, pushVars
<1>7. OwnInsert'
  BY <1>1, <1>3, <1>4, ScheduleAssumption DEF ScheduleInv, OwnInsert, NoRequest
<1>8. OneHolder' /\ NotYetRun'
  BY <1>4 DEF ScheduleInv, OneHolder, NotYetRun, Holds, turnVars
<1>9. SaysTrue'
  BY <1>2, <1>3, <1>4 DEF ScheduleInv, SaysTrue, turnVars
<1>10. ClaimsAtWork'
  BY <1>2, <1>3, <1>4 DEF ScheduleInv, ClaimsAtWork
<1>11. SentIsKnown'
  BY <1>1, <1>3, <1>4 DEF ScheduleInv, NoPast, SentIsKnown, NotifiedOnce, pushVars
<1> QED
  BY <1>5, <1>6, <1>7, <1>8, <1>9, <1>10, <1>11 DEF ScheduleInv

\* Time, and the chat that is deleted.
LEMMA AgeKeeps ==
  ASSUME ScheduleInv, DeleteChat \/ \E t \in Tasks : Age(t)
  PROVE  ScheduleInv'
<1>1. /\ row' \in [Tasks -> Row] /\ chat' \in BOOLEAN
      /\ \A t \in Tasks : row'[t].status = row[t].status /\ row'[t].pushed = row[t].pushed
      /\ UNCHANGED <<claim, worker, req, calls, turnVars, pushVars>>
  <2>1. row \in [Tasks -> Row] /\ chat \in BOOLEAN
    BY DEF ScheduleInv, TypeOK
  <2>2. CASE DeleteChat
    BY <2>1, <2>2 DEF DeleteChat, rowVars
  <2>3. ASSUME NEW t \in Tasks, Age(t)
        PROVE  <1>1!:
    <3>1. row' \in [Tasks -> Row]
      BY <2>1, <2>3 DEF Age, Row
    <3>2. \A s \in Tasks : row'[s].status = row[s].status /\ row'[s].pushed = row[s].pushed
      BY <2>1, <2>3 DEF Age, Row
    <3> QED
      BY <2>1, <2>3, <3>1, <3>2 DEF Age
  <2> QED
    BY <2>2, <2>3
<1>2. TypeOK'
  BY <1>1, RowTypes DEF ScheduleInv, TypeOK
<1>3. OwnInsert'
  BY <1>1 DEF ScheduleInv, OwnInsert
<1> QED
  BY <1>1, <1>2, <1>3, RowStep DEF ScheduleInv

-----------------------------------------------------------------------------
(* The poll loop.                                                          *)

LEMMA Polled ==
  ASSUME ScheduleInv, NEW w \in Workers, NEW new, Poll(w, new)
  PROVE  /\ \A v \in Workers : worker'[v] = IF v = w THEN new ELSE worker[v]
         /\ UNCHANGED <<req, calls, chat>>
         /\ \A v \in Workers : worker[v] \in Worker
         /\ w # Nobody /\ Nobody \notin Tasks
  BY ScheduleAssumption DEF Poll, ScheduleInv, TypeOK

\* A worker that announces nothing leaves the announcements alone.
LEMMA QuietStep ==
  ASSUME ScheduleInv, NEW w \in Workers, NEW new, Poll(w, new),
         worker[w].pc \notin {"sending", "sent"}, UNCHANGED <<claim, sent, unsure>>,
         \A t \in Tasks : row'[t].pushed = row[t].pushed
  PROVE  ClaimsAtWork' /\ SentIsKnown'
<1>1. \A t \in Tasks : claim[t] \in Workers \cup {Nobody} /\ claim[t] # w
  BY Polled DEF ScheduleInv, ClaimsAtWork, TypeOK
<1>2. \A t \in Tasks : claim[t] # Nobody => worker'[claim[t]] = worker[claim[t]]
  BY <1>1, Polled
<1>3. ClaimsAtWork'
  BY <1>2 DEF ScheduleInv, ClaimsAtWork
<1>4. SentIsKnown'
  BY <1>2 DEF ScheduleInv, SentIsKnown, NotifiedOnce
<1> QED
  BY <1>3, <1>4

\* A worker that drops its task or some of its batch, or keeps what it has, runs nothing.
LEMMA FewerHeld ==
  ASSUME ScheduleInv, NEW w \in Workers, NEW new, Poll(w, new),
         new.batch \subseteq worker[w].batch, new.pc \notin Loaded, UNCHANGED turnVars,
         \A t \in Tasks :
           /\ \/ row'[t].status = row[t].status
              \/ row[t].status = "running" /\ row'[t].status = "failed"
           /\ row[t].status \in {"none", "scheduled"} =>
                claim'[t] = Nobody /\ sent'[t] = 0 /\ ~row'[t].pushed
  PROVE  NoPast' /\ OwnInsert' /\ OneHolder' /\ NotYetRun' /\ SaysTrue'
<1>1. \A t \in Tasks, v \in Workers : Holds(v, t)' => Holds(v, t)
  BY Polled DEF Holds
<1>2. NoPast'
  BY <1>1 DEF ScheduleInv, NoPast, turnVars
<1>3. OwnInsert'
  BY Polled DEF ScheduleInv, OwnInsert
<1>4. OneHolder'
  BY <1>1, Polled DEF ScheduleInv, OneHolder
<1>5. NotYetRun'
  BY Polled DEF ScheduleInv, NotYetRun, turnVars, Loaded
<1>6. SaysTrue'
  BY Polled DEF ScheduleInv, SaysTrue, turnVars, Loaded
<1> QED
  BY <1>2, <1>3, <1>4, <1>5, <1>6

LEMMA RecoverKeeps ==
  ASSUME ScheduleInv, NEW w \in Workers, Recover(w)
  PROVE  ScheduleInv'
<1> DEFINE new == [Fresh EXCEPT !.pc = "announce", !.tell = Stuck(w)]
<1>1. /\ worker[w].pc = "idle" /\ Poll(w, new)
      /\ UNCHANGED <<claim, turnVars, pushVars>>
      /\ row' = [t \in Tasks |-> IF t \in Stuck(w) THEN Now(t, "failed") ELSE row[t]]
  BY DEF Recover
<1>2. row \in [Tasks -> Row] /\ Stuck(w) \subseteq Tasks
      /\ \A t \in Stuck(w) : row[t].status = "running"
  BY DEF ScheduleInv, TypeOK, Stuck, Having
<1>3. \A t \in Tasks : /\ Now(t, "failed") \in Row /\ Now(t, "failed").status = "failed"
                       /\ Now(t, "failed").pushed = row[t].pushed
  BY <1>2 DEF Now, Row, Status, Ended
<1>4. /\ row' \in [Tasks -> Row]
      /\ \A t \in Tasks : row'[t].pushed = row[t].pushed
      /\ \A t \in Tasks : \/ row'[t].status = row[t].status
                          \/ row[t].status = "running" /\ row'[t].status = "failed"
  BY <1>1, <1>2, <1>3
<1>5. /\ new \in Worker /\ Cardinality(new.batch) <= BatchSize
      /\ new.batch \subseteq worker[w].batch /\ new.pc \notin Loaded
  BY <1>2, Fits DEF ScheduleInv, Fresh, Worker, Ended, Loaded
<1>6. TypeOK'
  <2> HIDE DEF new
  <2> QED
    BY <1>1, <1>4, <1>5, PollTypes DEF ScheduleInv, TypeOK, turnVars, pushVars
<1>7. NoPast' /\ OwnInsert' /\ OneHolder' /\ NotYetRun' /\ SaysTrue'
  <2> HIDE DEF new
  <2> QED
    BY <1>1, <1>4, <1>5, FewerHeld DEF ScheduleInv, NoPast, pushVars
<1>8. ClaimsAtWork' /\ SentIsKnown'
  BY <1>1, <1>4, QuietStep DEF pushVars
<1> QED
  BY <1>6, <1>7, <1>8 DEF ScheduleInv

\* Between tasks and at the end of a batch only the worker's own state changes.
LEMMA IdleKeeps ==
  ASSUME ScheduleInv, NEW w \in Workers, Announced(w) \/ EndBatch(w)
  PROVE  ScheduleInv'
<1>1. \E new \in Worker : /\ Poll(w, new) /\ Cardinality(new.batch) <= BatchSize
                          /\ new.batch \subseteq worker[w].batch /\ new.pc \notin Loaded
  <2>1. CASE Announced(w)
    <3> DEFINE new == IF worker[w].task = Nobody THEN [worker[w] EXCEPT !.pc = "claim"]
                      ELSE [Fresh EXCEPT !.pc = "batch", !.batch = worker[w].batch]
    <3>1. Poll(w, new) /\ worker[w] \in Worker
      BY <2>1 DEF Announced, ScheduleInv, TypeOK
    <3>2. /\ new \in Worker /\ Cardinality(new.batch) <= BatchSize
          /\ new.batch \subseteq worker[w].batch /\ new.pc \notin Loaded
      BY <3>1, Fits DEF ScheduleInv, Fresh, Worker, Ended, Loaded
    <3> QED
      BY <3>1, <3>2
  <2>2. CASE EndBatch(w)
    <3>1. Fresh \in Worker /\ Fresh.batch = {} /\ Fresh.pc \notin Loaded
      BY DEF Fresh, Worker, Ended, Loaded
    <3> QED
      BY <2>2, <3>1, Fits DEF EndBatch, ScheduleInv
  <2> QED
    BY <2>1, <2>2
<1>2. PICK new \in Worker : /\ Poll(w, new) /\ Cardinality(new.batch) <= BatchSize
                            /\ new.batch \subseteq worker[w].batch /\ new.pc \notin Loaded
  BY <1>1
<1>3. worker[w].pc \in {"announce", "batch"} /\ UNCHANGED <<rowVars, turnVars, pushVars>>
  BY DEF Announced, EndBatch
<1>4. TypeOK'
  BY <1>2, <1>3, PollTypes DEF ScheduleInv, TypeOK, rowVars, turnVars, pushVars
<1>5. NoPast' /\ OwnInsert' /\ OneHolder' /\ NotYetRun' /\ SaysTrue'
  BY <1>2, <1>3, FewerHeld DEF ScheduleInv, NoPast, rowVars, pushVars
<1>6. ClaimsAtWork' /\ SentIsKnown'
  BY <1>2, <1>3, QuietStep DEF rowVars, pushVars
<1> QED
  BY <1>4, <1>5, <1>6 DEF ScheduleInv

LEMMA ClaimKeeps ==
  ASSUME ScheduleInv, NEW w \in Workers, Claim(w)
  PROVE  ScheduleInv'
<1>1. PICK batch \in SUBSET Due(w) :
        /\ Cardinality(batch) <= BatchSize
        /\ row' = [t \in Tasks |-> IF t \in batch THEN Now(t, "running") ELSE row[t]]
        /\ Poll(w, [Fresh EXCEPT !.pc = "batch", !.batch = batch])
  BY DEF Claim
<1> DEFINE new == [Fresh EXCEPT !.pc = "batch", !.batch = batch]
<1>2. worker[w].pc = "claim" /\ UNCHANGED <<claim, turnVars, pushVars>>
  BY DEF Claim
<1>3. /\ row \in [Tasks -> Row] /\ batch \in SUBSET Tasks
      /\ \A t \in batch : row[t].status = "scheduled"
  BY DEF Due, Having, ScheduleInv, TypeOK
<1>4. \A t \in Tasks : /\ Now(t, "running") \in Row /\ Now(t, "running").status = "running"
                       /\ Now(t, "running").pushed = row[t].pushed
  BY <1>3 DEF Now, Row, Status
<1>5. /\ row' \in [Tasks -> Row]
      /\ \A t \in Tasks : row'[t].pushed = row[t].pushed
      /\ \A t \in Tasks : IF t \in batch THEN row'[t].status = "running" ELSE row'[t] = row[t]
  BY <1>1, <1>3, <1>4
<1>6. new \in Worker /\ new.batch = batch /\ new.pc \notin Loaded
  BY <1>3 DEF Fresh, Worker, Ended, Loaded
<1>7. Poll(w, new) /\ Cardinality(new.batch) <= BatchSize
  BY <1>1, <1>6
<1> HIDE DEF new
\* Nobody holds what is claimed, and nothing was done about it.
<1>8. \A t \in batch : /\ \A v \in Workers : ~Holds(v, t)
                       /\ answered[t] = 0 /\ t \notin opened
  BY <1>3 DEF ScheduleInv, NoPast
<1>9. \A t \in Tasks, v \in Workers : Holds(v, t)' <=> IF v = w THEN t \in batch ELSE Holds(v, t)
  BY <1>6, <1>7, Polled DEF Holds
<1>10. TypeOK'
  BY <1>2, <1>5, <1>6, <1>7, PollTypes DEF ScheduleInv, TypeOK, turnVars, pushVars
<1>11. NoPast'
  BY <1>2, <1>3, <1>5, <1>9 DEF ScheduleInv, NoPast, turnVars, pushVars
<1>12. OwnInsert'
  BY <1>3, <1>5, <1>7, Polled DEF ScheduleInv, OwnInsert
<1>13. OneHolder'
  <2>1. \A v \in Workers, u \in Workers, t \in Tasks : Holds(v, t)' /\ Holds(u, t)' => v = u
    BY <1>8, <1>9 DEF ScheduleInv, OneHolder
  <2>2. \A v \in Workers : worker'[v].pc \in Loaded =>
          worker'[v].task \in Tasks /\ worker'[v].task \notin worker'[v].batch
    BY <1>6, <1>7, Polled DEF ScheduleInv, OneHolder
  <2> QED
    BY <2>1, <2>2 DEF OneHolder
<1>14. NotYetRun'
  BY <1>2, <1>6, <1>7, <1>8, Polled DEF ScheduleInv, NotYetRun, turnVars, Loaded
<1>15. SaysTrue'
  BY <1>2, <1>5, <1>6, <1>7, Polled DEF ScheduleInv, SaysTrue, turnVars, Loaded
<1>16. ClaimsAtWork' /\ SentIsKnown'
  BY <1>2, <1>5, <1>7, QuietStep DEF pushVars
<1> QED
  BY <1>10, <1>11, <1>12, <1>13, <1>14, <1>15, <1>16 DEF ScheduleInv

-----------------------------------------------------------------------------
(* Announcements.                                                          *)

LEMMA ClaimPushKeeps ==
  ASSUME ScheduleInv, NEW w \in Workers, NEW t \in Tasks, ClaimPush(w, t)
  PROVE  ScheduleInv'
<1>1. /\ worker[w].pc = "announce" /\ claim[t] = Nobody
      /\ UNCHANGED <<row, turnVars, pushVars>>
  BY DEF ClaimPush
<1>2. worker[w] \in Worker /\ row \in [Tasks -> Row] /\ claim \in [Tasks -> Workers \cup {Nobody}]
  BY DEF ScheduleInv, TypeOK
<1>3. CASE row[t].status \in Ended /\ ~row[t].pushed
  <2> DEFINE new == [worker[w] EXCEPT !.pc = "sending"]
  <2>1. Poll(w, new) /\ claim' = [claim EXCEPT ![t] = w]
    BY <1>3 DEF ClaimPush
  <2>2. /\ new \in Worker /\ new.batch = worker[w].batch /\ new.pc = "sending"
        /\ Cardinality(new.batch) <= BatchSize /\ new.pc \notin Loaded
    BY <1>2, Fits DEF ScheduleInv, Worker, Loaded
  <2> HIDE DEF new
  <2>3. TypeOK'
    BY <1>1, <1>2, <2>1, <2>2, PollTypes DEF ScheduleInv, TypeOK, turnVars, pushVars
  <2>4. NoPast' /\ OwnInsert' /\ OneHolder' /\ NotYetRun' /\ SaysTrue'
    BY <1>1, <1>2, <1>3, <2>1, <2>2, FewerHeld DEF ScheduleInv, NoPast, pushVars, Ended
  <2>5. \A s \in Tasks : claim[s] # w
    BY <1>1, Polled, <2>1 DEF ScheduleInv, ClaimsAtWork
  <2>6. \A s \in Tasks : claim'[s] = IF s = t THEN w ELSE claim[s]
    BY <1>2, <2>1
  <2>7. ClaimsAtWork'
    BY <1>1, <1>2, <1>3, <2>1, <2>2, <2>5, <2>6, Polled DEF ScheduleInv, ClaimsAtWork
  <2>8. SentIsKnown'
    BY <1>1, <1>2, <2>1, <2>5, <2>6, Polled DEF ScheduleInv, SentIsKnown, NotifiedOnce, pushVars
  <2> QED
    BY <2>3, <2>4, <2>7, <2>8 DEF ScheduleInv
<1>4. CASE ~(row[t].status \in Ended /\ ~row[t].pushed)
  <2> DEFINE new == [worker[w] EXCEPT !.tell = @ \ {t}]
  <2>1. Poll(w, new) /\ UNCHANGED claim
    BY <1>4 DEF ClaimPush
  <2>2. /\ new \in Worker /\ new.batch = worker[w].batch
        /\ Cardinality(new.batch) <= BatchSize /\ new.pc \notin Loaded
    BY <1>1, <1>2, Fits DEF ScheduleInv, Worker, Loaded
  <2> HIDE DEF new
  <2>3. TypeOK'
    BY <1>1, <2>1, <2>2, PollTypes DEF ScheduleInv, TypeOK, turnVars, pushVars
  <2>4. NoPast' /\ OwnInsert' /\ OneHolder' /\ NotYetRun' /\ SaysTrue'
    BY <1>1, <2>1, <2>2, FewerHeld DEF ScheduleInv, NoPast, pushVars
  <2>5. ClaimsAtWork' /\ SentIsKnown'
    BY <1>1, <2>1, QuietStep DEF pushVars
  <2> QED
    BY <2>3, <2>4, <2>5 DEF ScheduleInv
<1> QED
  BY <1>3, <1>4

LEMMA SendKeeps ==
  ASSUME ScheduleInv, NEW w \in Workers, NEW t \in Tasks, Send(w, t)
  PROVE  ScheduleInv'
<1> DEFINE new == [worker[w] EXCEPT !.pc = "sent"]
<1>1. /\ worker[w].pc = "sending" /\ claim[t] = w /\ Poll(w, new)
      /\ sent' = [sent EXCEPT ![t] = IF @ = 2 THEN 2 ELSE @ + 1]
      /\ UNCHANGED <<rowVars, turnVars, unsure>>
  BY DEF Send
<1>2. worker[w] \in Worker /\ sent \in [Tasks -> 0 .. 2] /\ w # Nobody
  BY ScheduleAssumption DEF ScheduleInv, TypeOK
<1>3. /\ new \in Worker /\ new.batch = worker[w].batch /\ new.pc = "sent"
      /\ Cardinality(new.batch) <= BatchSize /\ new.pc \notin Loaded
  BY <1>2, Fits DEF ScheduleInv, Worker, Loaded
<1> HIDE DEF new
<1>4. /\ sent' \in [Tasks -> 0 .. 2]
      /\ \A s \in Tasks : s # t => sent'[s] = sent[s]
      /\ sent[t] = 0 => sent'[t] = 1
  BY <1>1, <1>2
\* What is claimed is not on record: if it was sent before, that was lost.
<1>5. ~row[t].pushed /\ row[t].status \notin {"none", "scheduled"}
      /\ (sent[t] # 0 => t \in unsure)
      /\ \A s \in Tasks : claim[s] = w => s = t
  BY <1>1, <1>2 DEF ScheduleInv, ClaimsAtWork, NoPast, SentIsKnown
<1>6. TypeOK'
  BY <1>1, <1>3, <1>4, PollTypes DEF ScheduleInv, TypeOK, rowVars, turnVars
<1>7. NoPast' /\ OwnInsert' /\ OneHolder' /\ NotYetRun' /\ SaysTrue'
  BY <1>1, <1>3, <1>4, <1>5, FewerHeld DEF ScheduleInv, NoPast, rowVars
<1>8. ClaimsAtWork'
  BY <1>1, <1>3, <1>5, Polled DEF ScheduleInv, ClaimsAtWork, TypeOK, rowVars
<1>9. SentIsKnown'
  BY <1>1, <1>2, <1>3, <1>4, <1>5, Polled
     DEF ScheduleInv, SentIsKnown, NotifiedOnce, TypeOK, rowVars
<1> QED
  BY <1>6, <1>7, <1>8, <1>9 DEF ScheduleInv

LEMMA CommitPushKeeps ==
  ASSUME ScheduleInv, NEW w \in Workers, NEW t \in Tasks, CommitPush(w, t)
  PROVE  ScheduleInv'
<1> DEFINE new == [worker[w] EXCEPT !.pc = "announce", !.tell = @ \ {t}]
<1>1. /\ worker[w].pc = "sent" /\ claim[t] = w /\ Poll(w, new)
      /\ row' = [row EXCEPT ![t].pushed = TRUE] /\ claim' = [claim EXCEPT ![t] = Nobody]
      /\ UNCHANGED <<turnVars, pushVars>>
  BY DEF CommitPush
<1>2. /\ worker[w] \in Worker /\ row \in [Tasks -> Row] /\ w # Nobody
      /\ claim \in [Tasks -> Workers \cup {Nobody}]
  BY ScheduleAssumption DEF ScheduleInv, TypeOK
<1>3. /\ new \in Worker /\ new.batch = worker[w].batch
      /\ Cardinality(new.batch) <= BatchSize /\ new.pc \notin Loaded
  BY <1>2, Fits DEF ScheduleInv, Worker, Loaded
<1> HIDE DEF new
<1>4. /\ row' \in [Tasks -> Row] /\ row'[t].pushed
      /\ \A s \in Tasks : row'[s].status = row[s].status /\ (s # t => row'[s] = row[s])
  BY <1>1, <1>2 DEF Row
<1>5. /\ claim' \in [Tasks -> Workers \cup {Nobody}]
      /\ \A s \in Tasks : claim'[s] = IF s = t THEN Nobody ELSE claim[s]
  BY <1>1, <1>2
<1>6. row[t].status \notin {"none", "scheduled"} /\ \A s \in Tasks : claim[s] = w => s = t
  BY <1>1, <1>2 DEF ScheduleInv, ClaimsAtWork, NoPast
<1>7. TypeOK'
  BY <1>1, <1>3, <1>4, <1>5, PollTypes DEF ScheduleInv, TypeOK, turnVars, pushVars
<1>8. NoPast' /\ OwnInsert' /\ OneHolder' /\ NotYetRun' /\ SaysTrue'
  BY <1>1, <1>3, <1>4, <1>5, <1>6, FewerHeld DEF ScheduleInv, NoPast, pushVars
<1>9. ClaimsAtWork'
  BY <1>1, <1>2, <1>4, <1>5, <1>6, Polled DEF ScheduleInv, ClaimsAtWork
<1>10. SentIsKnown'
  BY <1>1, <1>2, <1>4, <1>5, <1>6, Polled DEF ScheduleInv, SentIsKnown, NotifiedOnce, pushVars
<1> QED
  BY <1>7, <1>8, <1>9, <1>10 DEF ScheduleInv

\* A transaction that is undone, with the process or without it.
LEMMA LossKeeps ==
  ASSUME ScheduleInv, NEW w \in Workers, Fault(w) \/ Crash(w)
  PROVE  ScheduleInv'
<1>1. \E new \in Worker : /\ Poll(w, new) /\ Cardinality(new.batch) <= BatchSize
                          /\ new.batch \subseteq worker[w].batch /\ new.pc \notin Loaded
  <2>1. Fresh \in Worker /\ Fresh.batch = {} /\ Fresh.pc \notin Loaded
    BY DEF Fresh, Worker, Ended, Loaded
  <2> DEFINE next == [Fresh EXCEPT !.pc = "batch", !.batch = worker[w].batch]
  <2>2. next \in Worker /\ next.batch = worker[w].batch /\ next.pc \notin Loaded
    BY DEF Fresh, Worker, Ended, Loaded, ScheduleInv, TypeOK
  <2> DEFINE on == [worker[w] EXCEPT !.pc = "announce", !.tell = {t \in @ : claim[t] # w}]
  <2>3. on \in Worker /\ on.batch = worker[w].batch /\ on.pc \notin Loaded
    BY DEF Worker, Loaded, ScheduleInv, TypeOK
  <2>4. Poll(w, Fresh) \/ Poll(w, next) \/ Poll(w, on)
    BY DEF Fault, Crash
  <2> HIDE DEF next, on
  <2> QED
    BY <2>1, <2>2, <2>3, <2>4, Fits DEF ScheduleInv
<1>2. PICK new \in Worker : /\ Poll(w, new) /\ Cardinality(new.batch) <= BatchSize
                            /\ new.batch \subseteq worker[w].batch /\ new.pc \notin Loaded
  BY <1>1
<1>3. /\ \A t \in Tasks : claim'[t] = IF claim[t] = w THEN Nobody ELSE claim[t]
      /\ claim' \in [Tasks -> Workers \cup {Nobody}]
      /\ unsure' = unsure \cup {t \in Tasks : claim[t] = w /\ worker[w].pc = "sent"}
      /\ UNCHANGED <<row, sent, turnVars>>
  BY DEF Fault, Crash, LoseClaims, Drop, ScheduleInv, TypeOK
<1>4. TypeOK'
  BY <1>2, <1>3, PollTypes DEF ScheduleInv, TypeOK, turnVars
<1>5. NoPast' /\ OwnInsert' /\ OneHolder' /\ NotYetRun' /\ SaysTrue'
  BY <1>2, <1>3, FewerHeld DEF ScheduleInv, NoPast
<1>6. ClaimsAtWork'
  BY <1>2, <1>3, Polled DEF ScheduleInv, ClaimsAtWork, TypeOK
<1>7. SentIsKnown'
  BY <1>2, <1>3, Polled DEF ScheduleInv, SentIsKnown, NotifiedOnce, TypeOK
<1> QED
  BY <1>4, <1>5, <1>6, <1>7 DEF ScheduleInv

-----------------------------------------------------------------------------
(* The run of a task.                                                      *)

\* What the worker does in a turn: it goes on with its task or is done with it, and
\* what was held by it alone is not by another.
LEMMA TurnStep ==
  ASSUME ScheduleInv, NEW w \in Workers, NEW new \in Worker, Poll(w, new),
         Cardinality(new.batch) <= BatchSize,
         \A t \in Tasks : t \in new.batch \/ (new.task = t /\ new.pc \in Loaded) => Holds(w, t),
         new.pc \in Loaded => new.task \in Tasks /\ new.task \notin new.batch,
         worker[w].pc \notin {"sending", "sent"}, UNCHANGED <<claim, pushVars>>,
         row' \in [Tasks -> Row], answered' \in [Tasks -> Nat], opened' \subseteq Tasks,
         \A t \in Tasks :
           /\ \/ row'[t].status = row[t].status
              \/ row[t].status = "running" /\ row'[t].status \in Ended
           /\ row'[t].pushed = row[t].pushed
           /\ answered'[t] # answered[t] \/ (t \in opened' /\ t \notin opened) => Holds(w, t)
  PROVE  TypeOK' /\ NoPast' /\ OwnInsert' /\ OneHolder' /\ ClaimsAtWork' /\ SentIsKnown'
<1>1. \A t \in Tasks, v \in Workers : Holds(v, t)' => Holds(v, t)
  BY Polled DEF Holds
<1>3. TypeOK'
  BY PollTypes DEF ScheduleInv, TypeOK, pushVars
<1>4. NoPast'
  BY <1>1 DEF ScheduleInv, NoPast, pushVars, Ended
<1>5. OwnInsert'
  BY Polled DEF ScheduleInv, OwnInsert
<1>6. OneHolder'
  BY <1>1, Polled DEF ScheduleInv, OneHolder
<1>7. ClaimsAtWork' /\ SentIsKnown'
  BY QuietStep DEF pushVars
<1> QED
  BY <1>3, <1>4, <1>5, <1>6, <1>7

LEMMA LoadKeeps ==
  ASSUME ScheduleInv, NEW w \in Workers, NEW t \in Tasks, Load(w, t)
  PROVE  ScheduleInv'
<1> DEFINE rest == [Fresh EXCEPT !.pc = "batch", !.batch = worker[w].batch \ {t}]
           mine == [rest EXCEPT !.task = t, !.resumes = row[t].resumes]
           new == IF row[t].status # "running" THEN rest
                  ELSE IF row[t].resumes /\ ~chat THEN [mine EXCEPT !.pc = "mark"]
                  ELSE [mine EXCEPT !.pc = "start"]
<1>1. /\ worker[w].pc = "batch" /\ t \in worker[w].batch /\ Poll(w, new)
      /\ UNCHANGED <<rowVars, turnVars, pushVars>>
  BY DEF Load
<1>2. worker[w] \in Worker /\ row[t] \in Row
  BY DEF ScheduleInv, TypeOK
<1>3. /\ new \in Worker /\ new.batch = worker[w].batch \ {t}
      /\ new.pc \in {"batch", "start", "mark"} /\ new.says = "failed"
      /\ new.pc # "batch" => new.task = t
  BY <1>2 DEF Fresh, Worker, Ended, Row
<1> HIDE DEF new
<1>4. Cardinality(new.batch) <= BatchSize
  BY <1>3, Fits DEF ScheduleInv
<1>5. \A s \in Tasks : s \in new.batch \/ (new.task = s /\ new.pc \in Loaded) => s \in worker[w].batch
  BY <1>1, <1>3 DEF Loaded
<1>6. TypeOK' /\ NoPast' /\ OwnInsert' /\ OneHolder' /\ ClaimsAtWork' /\ SentIsKnown'
  <2>1. \A s \in Tasks : s \in new.batch \/ (new.task = s /\ new.pc \in Loaded) => Holds(w, s)
    BY <1>5 DEF Holds
  <2>2. new.pc \in Loaded => new.task \in Tasks /\ new.task \notin new.batch
    BY <1>3 DEF Loaded
  <2>3. /\ row' \in [Tasks -> Row] /\ answered' \in [Tasks -> Nat] /\ opened' \subseteq Tasks
        /\ UNCHANGED <<claim, pushVars>>
        /\ row' = row /\ answered' = answered /\ opened' = opened
    BY <1>1 DEF ScheduleInv, TypeOK, rowVars, turnVars
  <2>4. worker[w].pc \notin {"sending", "sent"} /\ new \in Worker /\ Poll(w, new)
    BY <1>1, <1>3
  <2> QED
    BY <1>4, <2>1, <2>2, <2>3, <2>4, TurnStep
<1>7. NotYetRun'
  BY <1>1, <1>3, <1>5, Polled DEF ScheduleInv, NotYetRun, turnVars, Loaded
<1>8. SaysTrue'
  BY <1>1, <1>3, Polled DEF ScheduleInv, SaysTrue, rowVars, turnVars
<1> QED
  BY <1>6, <1>7, <1>8 DEF ScheduleInv

\* The task of a worker that is at it: nobody else has it.
LEMMA AtTask ==
  ASSUME ScheduleInv, NEW w \in Workers, worker[w].pc \in Loaded
  PROVE  /\ worker[w] \in Worker /\ worker[w].task \in Tasks /\ Holds(w, worker[w].task)
         /\ worker[w].task \notin worker[w].batch
         /\ \A v \in Workers : Holds(v, worker[w].task) => v = w
         /\ Cardinality(worker[w].batch) <= BatchSize
         /\ worker[w].pc \in {"start", "turn"} => answered[worker[w].task] = 0
  BY Fits DEF ScheduleInv, TypeOK, OneHolder, Holds, NotYetRun

LEMMA StartTurnKeeps ==
  ASSUME ScheduleInv, NEW w \in Workers, StartTurn(w)
  PROVE  ScheduleInv'
<1> DEFINE t == worker[w].task
           new == [worker[w] EXCEPT !.pc = IF worker[w].resumes /\ ~chat THEN "mark" ELSE "turn"]
<1>1. /\ worker[w].pc = "start" /\ Poll(w, new)
      /\ opened' = IF worker[w].resumes THEN opened ELSE opened \cup {t}
      /\ UNCHANGED <<rowVars, answered, pushVars>>
  BY DEF StartTurn
<1>2. /\ worker[w] \in Worker /\ t \in Tasks /\ Holds(w, t) /\ t \notin worker[w].batch
      /\ \A v \in Workers : Holds(v, t) => v = w
      /\ Cardinality(worker[w].batch) <= BatchSize /\ answered[t] = 0
  BY <1>1, AtTask DEF Loaded
<1>3. /\ new \in Worker /\ new.batch = worker[w].batch /\ new.task = t
      /\ new.resumes = worker[w].resumes /\ new.says = worker[w].says
      /\ new.pc \in {"turn", "mark"}
  BY <1>2 DEF Worker
<1> HIDE DEF new, t
<1>4. worker[w].says # "completed" /\ t = worker[w].task
  BY <1>1, <1>2 DEF ScheduleInv, SaysTrue, Loaded, t
<1>5. TypeOK' /\ NoPast' /\ OwnInsert' /\ OneHolder' /\ ClaimsAtWork' /\ SentIsKnown'
  BY <1>1, <1>2, <1>3, TurnStep DEF ScheduleInv, TypeOK, Holds, Loaded, rowVars
<1>6. NotYetRun'
  <2> SUFFICES ASSUME NEW v \in Workers, NEW s \in Tasks
               PROVE  /\ s \in worker'[v].batch => answered[s] = 0 /\ s \notin opened'
                      /\ worker'[v].task = s =>
                           /\ worker'[v].pc \in {"start", "turn"} => answered[s] = 0
                           /\ worker'[v].pc = "start" \/ (worker'[v].pc = "turn" /\ worker'[v].resumes)
                                => s \notin opened'
    BY <1>1 DEF NotYetRun
  <2>1. CASE v = w
    BY <1>1, <1>2, <1>3, <1>4, <2>1, Polled DEF ScheduleInv, NotYetRun
  <2>2. CASE v # w
    <3>1. worker'[v] = worker[v]
      BY <1>1, <2>2, Polled
    <3>2. s = t => ~Holds(v, s)
      BY <1>2, <2>2
    <3> QED
      BY <1>1, <3>1, <3>2 DEF ScheduleInv, NotYetRun, Holds, Loaded
  <2> QED
    BY <2>1, <2>2
<1>7. SaysTrue'
  BY <1>1, <1>3, <1>4, Polled DEF ScheduleInv, SaysTrue, rowVars
<1> QED
  BY <1>5, <1>6, <1>7 DEF ScheduleInv

LEMMA AnswerKeeps ==
  ASSUME ScheduleInv, NEW w \in Workers, Answer(w)
  PROVE  ScheduleInv'
<1> DEFINE t == worker[w].task
           new == [worker[w] EXCEPT !.pc = "mark", !.says = "completed"]
<1>1. /\ worker[w].pc = "turn" /\ Poll(w, new)
      /\ answered' = [answered EXCEPT ![t] = @ + 1]
      /\ UNCHANGED <<rowVars, opened, pushVars>>
  BY DEF Answer
<1>2. /\ worker[w] \in Worker /\ t \in Tasks /\ Holds(w, t) /\ t \notin worker[w].batch
      /\ \A v \in Workers : Holds(v, t) => v = w
      /\ Cardinality(worker[w].batch) <= BatchSize /\ answered[t] = 0
  BY <1>1, AtTask DEF Loaded
<1>3. /\ new \in Worker /\ new.batch = worker[w].batch /\ new.task = t
      /\ new.pc = "mark" /\ new.says = "completed"
  BY <1>2 DEF Worker, Ended
<1> HIDE DEF new, t
<1>4. /\ answered' \in [Tasks -> Nat] /\ answered'[t] = 1
      /\ \A s \in Tasks : s # t => answered'[s] = answered[s]
  BY <1>1, <1>2 DEF ScheduleInv, TypeOK
<1>5. TypeOK' /\ NoPast' /\ OwnInsert' /\ OneHolder' /\ ClaimsAtWork' /\ SentIsKnown'
  BY <1>1, <1>2, <1>3, <1>4, TurnStep DEF ScheduleInv, TypeOK, Holds, Loaded, rowVars
<1>6. \A v \in Workers, s \in Tasks : v # w /\ Holds(v, s) => answered'[s] = answered[s]
  BY <1>2, <1>4
<1>7. NotYetRun'
  <2> SUFFICES ASSUME NEW v \in Workers, NEW s \in Tasks
               PROVE  /\ s \in worker'[v].batch => answered'[s] = 0 /\ s \notin opened
                      /\ worker'[v].task = s =>
                           /\ worker'[v].pc \in {"start", "turn"} => answered'[s] = 0
                           /\ worker'[v].pc = "start" \/ (worker'[v].pc = "turn" /\ worker'[v].resumes)
                                => s \notin opened
    BY <1>1 DEF NotYetRun
  <2>1. CASE v = w
    BY <1>1, <1>2, <1>3, <1>4, <2>1, Polled DEF ScheduleInv, NotYetRun
  <2>2. CASE v # w
    BY <1>1, <1>6, <2>2, Polled DEF ScheduleInv, NotYetRun, Holds, Loaded
  <2> QED
    BY <2>1, <2>2
<1>8. SaysTrue'
  <2>1. \A s \in Tasks : answered'[s] <= 1 /\ (row'[s].status = "completed" => answered'[s] = 1)
    BY <1>1, <1>4 DEF ScheduleInv, SaysTrue, rowVars
  <2>2. ASSUME NEW v \in Workers, worker'[v].pc \in Loaded, worker'[v].says = "completed"
        PROVE  answered'[worker'[v].task] = 1
    <3>1. CASE v = w
      BY <1>1, <1>3, <1>4, <3>1, Polled
    <3>2. CASE v # w
      <4>1. worker'[v] = worker[v] /\ answered[worker[v].task] = 1 /\ worker[v].task \in Tasks
        BY <1>1, <2>2, <3>2, Polled DEF ScheduleInv, SaysTrue, OneHolder
      <4> QED
        BY <1>2, <1>4, <4>1
    <3> QED
      BY <3>1, <3>2
  <2> QED
    BY <2>1, <2>2 DEF SaysTrue
<1> QED
  BY <1>5, <1>7, <1>8 DEF ScheduleInv

LEMMA NoAnswerKeeps ==
  ASSUME ScheduleInv, NEW w \in Workers, NoAnswer(w)
  PROVE  ScheduleInv'
<1> DEFINE new == [worker[w] EXCEPT !.pc = "mark", !.says = "failed"]
<1>1. /\ worker[w].pc = "turn" /\ Poll(w, new)
      /\ UNCHANGED <<rowVars, turnVars, pushVars>>
  BY DEF NoAnswer
<1>2. /\ worker[w] \in Worker /\ worker[w].task \in Tasks /\ Holds(w, worker[w].task)
      /\ worker[w].task \notin worker[w].batch /\ Cardinality(worker[w].batch) <= BatchSize
  BY <1>1, AtTask DEF Loaded
<1>3. /\ new \in Worker /\ new.batch = worker[w].batch /\ new.task = worker[w].task
      /\ new.pc = "mark" /\ new.says = "failed"
  BY <1>2 DEF Worker, Ended
<1> HIDE DEF new
<1>4. TypeOK' /\ NoPast' /\ OwnInsert' /\ OneHolder' /\ ClaimsAtWork' /\ SentIsKnown'
  BY <1>1, <1>2, <1>3, TurnStep DEF ScheduleInv, TypeOK, Holds, Loaded, rowVars, turnVars
<1>5. NotYetRun'
  BY <1>1, <1>3, Polled DEF ScheduleInv, NotYetRun, turnVars
<1>6. SaysTrue'
  BY <1>1, <1>3, Polled DEF ScheduleInv, SaysTrue, rowVars, turnVars
<1> QED
  BY <1>4, <1>5, <1>6 DEF ScheduleInv

LEMMA MarkKeeps ==
  ASSUME ScheduleInv, NEW w \in Workers, Mark(w)
  PROVE  ScheduleInv'
<1> DEFINE t == worker[w].task
           new == [Fresh EXCEPT !.pc = "announce", !.batch = worker[w].batch, !.task = t,
                                !.tell = IF row[t].status = "deleted" THEN {} ELSE {t}]
<1>1. /\ worker[w].pc = "mark" /\ Poll(w, new)
      /\ row' = IF row[t].status = "running" THEN [row EXCEPT ![t] = Now(t, worker[w].says)]
                ELSE row
      /\ UNCHANGED <<claim, turnVars, pushVars>>
  BY DEF Mark
<1>2. /\ worker[w] \in Worker /\ t \in Tasks /\ row \in [Tasks -> Row]
      /\ Cardinality(worker[w].batch) <= BatchSize
      /\ worker[w].says = "completed" => answered[t] = 1
  BY <1>1, AtTask DEF ScheduleInv, TypeOK, Loaded, SaysTrue
<1>3. /\ new \in Worker /\ new.batch = worker[w].batch /\ new.pc = "announce"
      /\ \A s \in Tasks : s \in new.batch => Holds(w, s)
  BY <1>2 DEF Worker, Fresh, Ended, Holds
<1> HIDE DEF new, t
<1>4. /\ Now(t, worker[w].says) \in Row /\ Now(t, worker[w].says).status = worker[w].says
      /\ Now(t, worker[w].says).pushed = row[t].pushed /\ worker[w].says \in Ended
  <2>1. worker[w].says \in Ended
    BY <1>2 DEF Worker
  <2>2. row[t] \in Row /\ worker[w].says \in Status
    BY <1>2, <2>1 DEF Status
  <2> QED
    BY <2>1, <2>2 DEF Now, Row
<1>5. /\ row' \in [Tasks -> Row]
      /\ \A s \in Tasks :
           /\ row'[s].pushed = row[s].pushed
           /\ \/ row'[s].status = row[s].status
              \/ s = t /\ row[s].status = "running" /\ row'[s].status = worker[w].says
  BY <1>1, <1>2, <1>4
<1>6. TypeOK' /\ NoPast' /\ OwnInsert' /\ OneHolder' /\ ClaimsAtWork' /\ SentIsKnown'
  BY <1>1, <1>2, <1>3, <1>4, <1>5, TurnStep DEF ScheduleInv, TypeOK, Loaded, turnVars
<1>7. NotYetRun'
  BY <1>1, <1>3, Polled DEF ScheduleInv, NotYetRun, turnVars
<1>8. SaysTrue'
  BY <1>1, <1>2, <1>3, <1>5, Polled DEF ScheduleInv, SaysTrue, turnVars, Loaded
<1> QED
  BY <1>6, <1>7, <1>8 DEF ScheduleInv

-----------------------------------------------------------------------------
(* The invariant.                                                          *)

LEMMA InitKeeps == Init => ScheduleInv
<1> SUFFICES ASSUME Init
             PROVE  ScheduleInv
  OBVIOUS
<1>1. NoRow \in Row /\ Fresh \in Worker /\ NoRequest \in Request
      /\ Fresh.batch = {} /\ Fresh.pc = "idle" /\ NoRequest.pc = "idle" /\ NoRow.status = "none"
      /\ ~NoRow.pushed
  BY DEF NoRow, Row, Status, Fresh, Worker, Ended, NoRequest, Request
<1>2. TypeOK
  BY <1>1, FS_EmptySet, ScheduleAssumption DEF Init, TypeOK
<1>3. NoPast /\ OwnInsert /\ OneHolder /\ NotYetRun /\ SaysTrue /\ ClaimsAtWork /\ SentIsKnown
  BY <1>1 DEF Init, NoPast, OwnInsert, OneHolder, NotYetRun, SaysTrue, ClaimsAtWork,
              SentIsKnown, NotifiedOnce, Holds, Loaded
<1> QED
  BY <1>2, <1>3 DEF ScheduleInv

LEMMA ApiKeeps ==
  ASSUME ScheduleInv, NEW r \in Requests, Api(r)
  PROVE  ScheduleInv'
<1>1. ASSUME NEW t \in Tasks,
             StartCreate(r, t) \/ StartPatch(r, t) \/ StartCancel(r, t) \/ StartRemove(r, t)
      PROVE  ScheduleInv'
  BY <1>1, StartKeeps
<1> QED
  BY <1>1, CreateKeeps, PatchKeeps, CancelKeeps, GiveUpKeeps DEF Api

LEMMA StepKeeps ==
  ASSUME ScheduleInv, NEW w \in Workers, Step(w)
  PROVE  ScheduleInv'
<1>1. ASSUME NEW t \in Tasks, ClaimPush(w, t) \/ Send(w, t) \/ CommitPush(w, t) \/ Load(w, t)
      PROVE  ScheduleInv'
  BY <1>1, ClaimPushKeeps, SendKeeps, CommitPushKeeps, LoadKeeps
<1> QED
  BY <1>1, RecoverKeeps, IdleKeeps, ClaimKeeps, StartTurnKeeps, AnswerKeeps, NoAnswerKeeps,
     MarkKeeps DEF Step

LEMMA NextKeeps == ScheduleInv /\ [Next]_vars => ScheduleInv'
<1> SUFFICES ASSUME ScheduleInv, [Next]_vars
             PROVE  ScheduleInv'
  OBVIOUS
<1>1. CASE UNCHANGED vars
  BY <1>1 DEF vars, rowVars, turnVars, pushVars, ScheduleInv, TypeOK, NoPast, OwnInsert, OneHolder,
              NotYetRun, SaysTrue, ClaimsAtWork, SentIsKnown, NotifiedOnce, Holds
<1> QED
  BY <1>1, ApiKeeps, StepKeeps, LossKeeps, AgeKeeps DEF Next

\* The inductive invariant holds in every reachable state (service.py, repository.py and
\* worker.py of scheduled_chats).
THEOREM ScheduleInvariant == Spec => []ScheduleInv
  BY InitKeeps, NextKeeps, PTL DEF Spec

\* A set whose members are all equal has one member or none.
LEMMA AtMostOne ==
  ASSUME NEW S, \A a, b \in S : a = b
  PROVE  Cardinality(S) <= 1
<1>1. CASE S = {}
  <2>1. Cardinality({}) = 0
    BY FS_EmptySet
  <2> QED
    BY <1>1, <2>1
<1>2. CASE S # {}
  <2>1. PICK a \in S : TRUE
    BY <1>2
  <2>2. S = {a}
    BY <2>1
  <2>3. Cardinality({a}) = 1
    BY FS_Singleton
  <2> QED
    BY <2>2, <2>3
<1> QED
  BY <1>1, <1>2

\* However many replicas poll, crash and recover, a task is answered and paid at most once,
\* is completed only if it was, and is run by one worker at a time.
THEOREM AnsweredOnlyOnce == Spec => []AnsweredOnce
<1>1. ASSUME ScheduleInv, NEW t \in Tasks
      PROVE  Cardinality({w \in Workers : worker[w].pc \in {"start", "turn"} /\ worker[w].task = t}) <= 1
  <2> DEFINE runs == {w \in Workers : worker[w].pc \in {"start", "turn"} /\ worker[w].task = t}
  <2>1. \A w \in runs, v \in runs : w = v
    BY <1>1 DEF ScheduleInv, OneHolder, Holds, Loaded
  <2> QED
    BY <2>1, AtMostOne
<1>2. ScheduleInv => AnsweredOnce
  BY <1>1 DEF ScheduleInv, SaysTrue, AnsweredOnce
<1> QED
  BY <1>2, ScheduleInvariant, PTL

\* Typed rows and workers, one answer, one announcement unless its record was lost.
THEOREM EveryTaskOnce == Spec => []OnceEach
<1>1. ScheduleInv /\ AnsweredOnce => OnceEach
  BY DEF ScheduleInv, SentIsKnown, OnceEach
<1> QED
  BY <1>1, ScheduleInvariant, AnsweredOnlyOnce, PTL

\* A task that was to resume a chat is not run in a new one.
THEOREM ChatAsPlanned == Spec => []PlannedChatOnly
<1>1. ScheduleInv => PlannedChatOnly
  BY DEF ScheduleInv, NotYetRun, OneHolder, Loaded, PlannedChatOnly
<1> QED
  BY <1>1, ScheduleInvariant, PTL

-----------------------------------------------------------------------------
(* Outcomes.                                                               *)

Decided(t) == row[t].status \in Ended \cup {"cancelled"}
ByRequest(t) == \E r \in Requests : req[r].task = t /\ req'[r].pc = "idle"

\* A poller writes rows that are running or scheduled.
LEMMA PollersWrite ==
  ASSUME ScheduleInv, NEW w \in Workers, Step(w) \/ Fault(w) \/ Crash(w), NEW t \in Tasks, Decided(t)
  PROVE  row'[t].status = row[t].status
<1>1. row \in [Tasks -> Row]
  BY DEF ScheduleInv, TypeOK
<1>2. CASE Recover(w)
  BY <1>2 DEF Recover, Stuck, Having, Decided, Ended
<1>3. CASE Claim(w)
  BY <1>3 DEF Claim, Due, Having, Decided, Ended
<1>4. CASE Mark(w)
  BY <1>1, <1>4 DEF Mark, Decided, Ended
<1>5. ASSUME NEW s \in Tasks, CommitPush(w, s)
      PROVE  row'[t].status = row[t].status
  BY <1>1, <1>5 DEF CommitPush, Row
<1>6. CASE \/ Announced(w) \/ EndBatch(w) \/ StartTurn(w) \/ Answer(w) \/ NoAnswer(w)
           \/ Fault(w) \/ Crash(w)
           \/ \E s \in Tasks : ClaimPush(w, s) \/ Send(w, s) \/ Load(w, s)
  BY <1>6 DEF Announced, EndBatch, StartTurn, Answer, NoAnswer, Fault, Crash, LoseClaims, ClaimPush,
              Send, Load, rowVars
<1> QED
  BY <1>2, <1>3, <1>4, <1>5, <1>6 DEF Step

\* A request writes the row it is about, and ends.
LEMMA RequestsWrite ==
  ASSUME ScheduleInv, NEW r \in Requests, Api(r), NEW t \in Tasks, row'[t].status # row[t].status,
         Decided(t)
  PROVE  ByRequest(t)
<1>1. ~ \E s \in Tasks : StartCreate(r, s) \/ StartPatch(r, s) \/ StartCancel(r, s) \/ StartRemove(r, s)
  BY DEF StartCreate, StartPatch, StartCancel, StartRemove, Open, rowVars
<1>2. Close(r) /\ ~GiveUp(r)
  BY <1>1 DEF Api, Create, Patch, Cancel, Remove, GiveUp
<1>3. req'[r].pc = "idle"
  BY <1>2 DEF Close, NoRequest, ScheduleInv, TypeOK
<1>4. row \in [Tasks -> Row] /\ req[r].task \in Tasks
  BY <1>1, <1>2 DEF Api, Create, Patch, Cancel, Remove, ScheduleInv, OwnInsert, TypeOK
<1>5. req[r].task = t
  BY <1>1, <1>2, <1>4 DEF Api, Create, Patch, Cancel, Remove
<1> QED
  BY <1>3, <1>5 DEF ByRequest

\* What a poller has decided no poller changes, nor does anything but a request of the user.
THEOREM OutcomesAreKept == Spec => PollersKeepOutcomes
<1>1. ASSUME ScheduleInv, [Next]_vars, NEW t \in Tasks, Decided(t), row'[t].status # row[t].status
      PROVE  ByRequest(t)
  <2>1. CASE UNCHANGED vars
    BY <1>1, <2>1 DEF vars, rowVars
  <2>2. CASE DeleteChat
    BY <1>1, <2>2 DEF DeleteChat, rowVars
  <2>3. ASSUME NEW s \in Tasks, Age(s)
        PROVE  ByRequest(t)
    BY <1>1, <2>3 DEF Age, ScheduleInv, TypeOK, Row
  <2> QED
    BY <1>1, <2>1, <2>2, <2>3, PollersWrite, RequestsWrite DEF Next
<1>2. ScheduleInv /\ [Next]_vars =>
        \A t \in Tasks : row[t].status \in Ended \cup {"cancelled"} /\ row'[t].status # row[t].status =>
          \E r \in Requests : req[r].task = t /\ req'[r].pc = "idle"
  BY <1>1 DEF Decided, ByRequest
<1> QED
  BY <1>2, ScheduleInvariant, PTL DEF Spec, PollersKeepOutcomes

===============================================================================
