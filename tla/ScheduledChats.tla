--------------------------- MODULE ScheduledChats ---------------------------
(***************************************************************************)
(* The one-shot chat tasks of one user (scheduled_chats/service.py,         *)
(* repository.py, worker.py): requests create, patch and delete them while  *)
(* the poll loop of every replica recovers, claims, executes and announces  *)
(* them.  A request reads the row, decides, and writes it by its id later;  *)
(* a statement of a poller decides in its WHERE clause.  The turn itself is *)
(* the chat's (ChatTurn); here it is run, and answers or not.               *)
(***************************************************************************)
EXTENDS Integers, FiniteSets

CONSTANTS Tasks, Workers, Requests,
          Nobody,        \* no worker, no task
          BatchSize,     \* SCHEDULED_CHAT_BATCH_SIZE
          MaxActive,     \* SCHEDULED_CHAT_MAX_ACTIVE_PER_USER
          MaxRequests    \* bound: API calls made

ASSUME ScheduleAssumption ==
  /\ Nobody \notin Tasks \cup Workers
  /\ IsFiniteSet(Tasks) /\ IsFiniteSet(Requests) /\ Requests # {}
  /\ BatchSize \in Nat \ {0} /\ MaxActive \in Nat /\ MaxRequests \in Nat

VARIABLES
  row,       \* scheduled_chat_tasks
  claim,     \* task -> the worker whose transaction has set push_sent_at, not yet committed
  worker,    \* the poll loop of each replica
  req,       \* what each request of the user is doing
  calls,     \* API calls made so far
  chat,      \* does the chat the tasks may resume exist?
  answered,  \* task -> turns answered, and so paid, for it
  opened,    \* tasks a chat was created for
  sent,      \* history: task -> notifications sent, up to 2
  unsure     \* history: tasks whose push_sent_at was lost after the notification

vars == <<row, claim, worker, req, calls, chat, answered, opened, sent, unsure>>
rowVars == <<row, claim>>
turnVars == <<answered, opened>>
pushVars == <<sent, unsure>>

Ended == {"completed", "failed"}
Status == {"none", "scheduled", "running", "cancelled", "deleted"} \cup Ended

\* late: run_at of a scheduled task has come, or the TTL of a running one is over.
Row == [status : Status, late : BOOLEAN, resumes : BOOLEAN, pushed : BOOLEAN]
NoRow == [status |-> "none", late |-> FALSE, resumes |-> FALSE, pushed |-> FALSE]
Now(t, s) == [row[t] EXCEPT !.status = s, !.late = FALSE]

\* resumes and says are what the session of the worker has in memory of its task.
Worker == [pc : {"idle", "announce", "sending", "sent", "claim", "batch", "start", "turn", "mark"},
           tell : SUBSET Tasks, batch : SUBSET Tasks, task : Tasks \cup {Nobody},
           resumes : BOOLEAN, says : Ended]
Fresh == [pc |-> "idle", tell |-> {}, batch |-> {}, task |-> Nobody,
          resumes |-> FALSE, says |-> "failed"]

Request == [pc : {"idle", "create", "patch", "cancel", "remove"}, task : Tasks \cup {Nobody}]
NoRequest == [pc |-> "idle", task |-> Nobody]

Having(s) == {t \in Tasks : row[t].status = s}
Active == Having("scheduled") \cup Having("running")

TypeOK ==
  /\ row \in [Tasks -> Row] /\ claim \in [Tasks -> Workers \cup {Nobody}]
  /\ worker \in [Workers -> Worker] /\ req \in [Requests -> Request]
  /\ calls \in 0 .. MaxRequests /\ chat \in BOOLEAN
  /\ \A w \in Workers : Cardinality(worker[w].batch) <= BatchSize
  /\ answered \in [Tasks -> Nat] /\ opened \subseteq Tasks
  /\ sent \in [Tasks -> 0 .. 2] /\ unsure \subseteq Tasks

Init ==
  /\ row = [t \in Tasks |-> NoRow] /\ claim = [t \in Tasks |-> Nobody]
  /\ worker = [w \in Workers |-> Fresh] /\ req = [r \in Requests |-> NoRequest]
  /\ calls = 0 /\ chat = TRUE
  /\ answered = [t \in Tasks |-> 0] /\ opened = {}
  /\ sent = [t \in Tasks |-> 0] /\ unsure = {}

-----------------------------------------------------------------------------
(* The API: each request first reads, then writes what it has decided. *)

Open(r, what, t) ==
  /\ req[r].pc = "idle" /\ calls < MaxRequests
  /\ calls' = calls + 1
  /\ req' = [req EXCEPT ![r] = [pc |-> what, task |-> t]]
  /\ UNCHANGED <<rowVars, worker, chat, turnVars, pushVars>>

Close(r) ==
  /\ req' = [req EXCEPT ![r] = NoRequest]
  /\ UNCHANGED <<claim, worker, calls, chat, turnVars, pushVars>>

\* The row gets a new id when it is inserted.  The count is not locked: requests that
\* overlap may exceed the limit.
StartCreate(r, t) ==
  /\ row[t] = NoRow /\ \A q \in Requests : req[q].task # t
  /\ Cardinality(Active) < MaxActive
  /\ Open(r, "create", t)

\* The chat to resume was looked up before the limit was; it may be gone by now.
Create(r) ==
  /\ req[r].pc = "create"
  /\ \E resumes \in BOOLEAN :
       row' = [row EXCEPT ![req[r].task] =
                 [NoRow EXCEPT !.status = "scheduled", !.resumes = resumes]]
  /\ Close(r)

StartPatch(r, t) == row[t].status = "scheduled" /\ Open(r, "patch", t)

\* An UPDATE by the id of a row that may have moved on; it writes only what the patch
\* changes: a later run_at, or the chat.  Of a deleted row there is nothing to write.
Patch(r) ==
  LET t == req[r].task IN
  /\ req[r].pc = "patch" /\ claim[t] = Nobody
  /\ IF row[t].status = "deleted" THEN UNCHANGED row
     ELSE \/ row' = [row EXCEPT ![t].late = (@ /\ row[t].status # "scheduled")]
          \/ chat /\ row' = [row EXCEPT ![t].resumes = TRUE]
          \/ row' = [row EXCEPT ![t].resumes = FALSE]
  /\ Close(r)

StartCancel(r, t) == row[t].status = "scheduled" /\ Open(r, "cancel", t)

Cancel(r) ==
  LET t == req[r].task IN
  /\ req[r].pc = "cancel" /\ claim[t] = Nobody
  /\ IF row[t].status = "deleted" THEN UNCHANGED row
     ELSE row' = [row EXCEPT ![t] = Now(t, "cancelled")]
  /\ Close(r)

StartRemove(r, t) ==
  row[t].status \in Ended \cup {"cancelled"} /\ Open(r, "remove", t)

Remove(r) ==
  LET t == req[r].task IN
  /\ req[r].pc = "remove" /\ claim[t] = Nobody
  /\ row' = [row EXCEPT ![t].status = "deleted"]
  /\ Close(r)

\* The request ends without writing: it is lost, or its chat is gone.
GiveUp(r) == req[r].pc # "idle" /\ UNCHANGED row /\ Close(r)

DeleteChat ==
  /\ chat /\ chat' = FALSE
  /\ UNCHANGED <<rowVars, worker, req, calls, turnVars, pushVars>>

Age(t) ==
  /\ row[t].status \in {"scheduled", "running"} /\ ~row[t].late
  /\ row' = [row EXCEPT ![t].late = TRUE]
  /\ UNCHANGED <<claim, worker, req, calls, chat, turnVars, pushVars>>

-----------------------------------------------------------------------------
(* The poll loop *)

Poll(w, changes) ==
  /\ worker' = [worker EXCEPT ![w] = changes]
  /\ UNCHANGED <<req, calls, chat>>

\* Variant: a replica recovers only what is left of its own batch.
StuckOfOwn(w) == {t \in Having("running") : row[t].late /\ t \in worker[w].batch}

\* recover_stuck_running: any replica's task, whether or not its worker is alive.
Stuck(w) == {t \in Having("running") : row[t].late}

Recover(w) ==
  /\ worker[w].pc = "idle"
  /\ row' = [t \in Tasks |-> IF t \in Stuck(w) THEN Now(t, "failed") ELSE row[t]]
  /\ Poll(w, [Fresh EXCEPT !.pc = "announce", !.tell = Stuck(w)])
  /\ UNCHANGED <<claim, turnVars, pushVars>>

\* All is announced: after a recovery comes the claim, after a task the next one.
Announced(w) ==
  /\ worker[w].pc = "announce" /\ worker[w].tell = {}
  /\ Poll(w, IF worker[w].task = Nobody THEN [worker[w] EXCEPT !.pc = "claim"]
             ELSE [Fresh EXCEPT !.pc = "batch", !.batch = worker[w].batch])
  /\ UNCHANGED <<rowVars, turnVars, pushVars>>

\* _claim_push_sent: an UPDATE that waits for another one of the same row.
ClaimPush(w, t) ==
  /\ worker[w].pc = "announce" /\ t \in worker[w].tell /\ claim[t] = Nobody
  /\ IF row[t].status \in Ended /\ ~row[t].pushed
     THEN /\ claim' = [claim EXCEPT ![t] = w]
          /\ Poll(w, [worker[w] EXCEPT !.pc = "sending"])
     ELSE /\ UNCHANGED claim
          /\ Poll(w, [worker[w] EXCEPT !.tell = @ \ {t}])
  /\ UNCHANGED <<row, turnVars, pushVars>>

\* APNs is called for every token of the user; a failure of it changes nothing here.
Send(w, t) ==
  /\ worker[w].pc = "sending" /\ claim[t] = w
  /\ sent' = [sent EXCEPT ![t] = IF @ = 2 THEN 2 ELSE @ + 1]
  /\ Poll(w, [worker[w] EXCEPT !.pc = "sent"])
  /\ UNCHANGED <<rowVars, turnVars, unsure>>

CommitPush(w, t) ==
  /\ worker[w].pc = "sent" /\ claim[t] = w
  /\ row' = [row EXCEPT ![t].pushed = TRUE] /\ claim' = [claim EXCEPT ![t] = Nobody]
  /\ Poll(w, [worker[w] EXCEPT !.pc = "announce", !.tell = @ \ {t}])
  /\ UNCHANGED <<turnVars, pushVars>>

\* Variant: a task that has been running for too long is claimed again.
DueAndRunning(w) == {t \in Having("scheduled") \cup Having("running") : row[t].late}

\* FOR UPDATE SKIP LOCKED, repeated by the UPDATE
Due(w) == {t \in Having("scheduled") : row[t].late}

Claim(w) ==
  /\ worker[w].pc = "claim"
  /\ \E batch \in SUBSET Due(w) :
       /\ Cardinality(batch) <= BatchSize
       /\ batch = Due(w) \/ Cardinality(batch) = BatchSize
       /\ row' = [t \in Tasks |-> IF t \in batch THEN Now(t, "running") ELSE row[t]]
       /\ Poll(w, [Fresh EXCEPT !.pc = "batch", !.batch = batch])
  /\ UNCHANGED <<claim, turnVars, pushVars>>

EndBatch(w) ==
  /\ worker[w].pc = "batch" /\ worker[w].batch = {}
  /\ Poll(w, Fresh)
  /\ UNCHANGED <<rowVars, turnVars, pushVars>>

\* _execute_task: the row is loaded once; a task that was recovered, cancelled or
\* deleted meanwhile is passed over, and one whose chat is gone fails.
Load(w, t) ==
  LET rest == [Fresh EXCEPT !.pc = "batch", !.batch = worker[w].batch \ {t}]
      mine == [rest EXCEPT !.task = t, !.resumes = row[t].resumes]
  IN
  /\ worker[w].pc = "batch" /\ t \in worker[w].batch
  /\ Poll(w, IF row[t].status # "running" THEN rest
             ELSE IF row[t].resumes /\ ~chat THEN [mine EXCEPT !.pc = "mark"]
             ELSE [mine EXCEPT !.pc = "start"])
  /\ UNCHANGED <<rowVars, turnVars, pushVars>>

\* Variant: a chat that is gone is replaced by a new one (run without resume_only).
StartTurnAnyhow(w) ==
  LET t == worker[w].task IN
  /\ worker[w].pc = "start"
  /\ opened' = IF worker[w].resumes /\ chat THEN opened ELSE opened \cup {t}
  /\ Poll(w, [worker[w] EXCEPT !.pc = "turn"])
  /\ UNCHANGED <<rowVars, answered, pushVars>>

\* The chat is resumed or created and the message committed, before the model is asked.
StartTurn(w) ==
  LET t == worker[w].task IN
  /\ worker[w].pc = "start"
  /\ IF worker[w].resumes /\ ~chat
     THEN Poll(w, [worker[w] EXCEPT !.pc = "mark"]) /\ UNCHANGED opened
     ELSE /\ opened' = IF worker[w].resumes THEN opened ELSE opened \cup {t}
          /\ Poll(w, [worker[w] EXCEPT !.pc = "turn"])
  /\ UNCHANGED <<rowVars, answered, pushVars>>

\* The answer and its payment are committed by the orchestrator.
Answer(w) ==
  /\ worker[w].pc = "turn" /\ (worker[w].resumes => chat)
  /\ answered' = [answered EXCEPT ![worker[w].task] = @ + 1]
  /\ Poll(w, [worker[w] EXCEPT !.pc = "mark", !.says = "completed"])
  /\ UNCHANGED <<rowVars, opened, pushVars>>

\* Blocked, truncated, a call for a device there is none of, or an error.
NoAnswer(w) ==
  /\ worker[w].pc = "turn"
  /\ Poll(w, [worker[w] EXCEPT !.pc = "mark", !.says = "failed"])
  /\ UNCHANGED <<rowVars, turnVars, pushVars>>

\* Variant: the row is written whatever its status.
MarkAnyhow(w) ==
  LET t == worker[w].task IN
  /\ worker[w].pc = "mark"
  /\ row' = IF row[t].status = "deleted" THEN row
            ELSE [row EXCEPT ![t] = Now(t, worker[w].says)]
  /\ Poll(w, [Fresh EXCEPT !.pc = "announce", !.batch = worker[w].batch, !.task = t,
                           !.tell = IF row[t].status = "deleted" THEN {} ELSE {t}])
  /\ UNCHANGED <<claim, turnVars, pushVars>>

\* mark_terminal: the row is written if it is still running.  The loaded object is
\* updated with it whether or not a row matched (synchronize_session), so the outcome
\* is announced unless the row is gone.
Mark(w) ==
  LET t == worker[w].task IN
  /\ worker[w].pc = "mark"
  /\ row' = IF row[t].status = "running" THEN [row EXCEPT ![t] = Now(t, worker[w].says)]
            ELSE row
  /\ Poll(w, [Fresh EXCEPT !.pc = "announce", !.batch = worker[w].batch, !.task = t,
                           !.tell = IF row[t].status = "deleted" THEN {} ELSE {t}])
  /\ UNCHANGED <<claim, turnVars, pushVars>>

Drop(w) == [t \in Tasks |-> IF claim[t] = w THEN Nobody ELSE claim[t]]
LoseClaims(w) ==
  /\ claim' = Drop(w)
  /\ unsure' = unsure \cup {t \in Tasks : claim[t] = w /\ worker[w].pc = "sent"}
  /\ UNCHANGED <<row, sent, turnVars>>

\* The transaction is undone: a database error, or a rollback inside the turn after
\* which the loaded task can no longer be read.  The task stays as it is, and the
\* worker goes on with the next; an error while recovered tasks are announced ends the
\* tick, unless notify_scheduled_chat_ready has swallowed it: the COMMIT then undoes the
\* claim, and the next one is announced.
Fault(w) ==
  /\ worker[w].pc \in {"start", "turn", "mark", "sending", "sent"}
  /\ \/ Poll(w, IF worker[w].task = Nobody THEN Fresh
                ELSE [Fresh EXCEPT !.pc = "batch", !.batch = worker[w].batch])
     \/ /\ worker[w].pc \in {"sending", "sent"}
        /\ Poll(w, [worker[w] EXCEPT !.pc = "announce", !.tell = {t \in @ : claim[t] # w}])
  /\ LoseClaims(w)

\* The process dies; another one starts in its place.
Crash(w) == worker[w].pc # "idle" /\ Poll(w, Fresh) /\ LoseClaims(w)

-----------------------------------------------------------------------------
Api(r) ==
  \/ \E t \in Tasks : StartCreate(r, t) \/ StartPatch(r, t) \/ StartCancel(r, t) \/ StartRemove(r, t)
  \/ Create(r) \/ Patch(r) \/ Cancel(r) \/ Remove(r) \/ GiveUp(r)

Step(w) ==
  \/ Recover(w) \/ Announced(w) \/ Claim(w) \/ EndBatch(w)
  \/ \E t \in Tasks : ClaimPush(w, t) \/ Send(w, t) \/ CommitPush(w, t) \/ Load(w, t)
  \/ StartTurn(w) \/ Answer(w) \/ NoAnswer(w) \/ Mark(w)

Next ==
  \/ \E r \in Requests : Api(r)
  \/ \E w \in Workers : Step(w) \/ Fault(w) \/ Crash(w)
  \/ \E t \in Tasks : Age(t)
  \/ DeleteChat

Spec == Init /\ [][Next]_vars

\* Every replica's loop goes on, a turn comes to an end, and time passes.
Fairness ==
  /\ \A w \in Workers : WF_vars(Step(w))
  /\ \A t \in Tasks : WF_vars(Age(t))
FairSpec == Spec /\ Fairness

-----------------------------------------------------------------------------
(* Properties *)

\* However many replicas poll, crash and recover, a task's turn is answered and paid at
\* most once (BR-SC-1: no second claim of a task that was started), and a task that is
\* reported completed was answered.
AnsweredOnce ==
  \A t \in Tasks :
    /\ answered[t] <= 1
    /\ row[t].status = "completed" => answered[t] = 1
    /\ Cardinality({w \in Workers : worker[w].pc \in {"start", "turn"} /\ worker[w].task = t}) <= 1

\* What a poller has decided no poller changes: a recovered task's worker that is alive
\* after all, or a second replica, finds the row ended and leaves it.
PollersKeepOutcomes ==
  [][\A t \in Tasks :
       row[t].status \in Ended \cup {"cancelled"} /\ row'[t].status # row[t].status =>
         \E r \in Requests : req[r].task = t /\ req'[r].pc = "idle"]_vars

\* BR-SC-6: a task that was to resume a chat never gets a new one instead, though the
\* chat may be deleted after the worker has looked for it.
PlannedChatOnly ==
  \A w \in Workers : worker[w].pc = "turn" /\ worker[w].resumes => worker[w].task \notin opened

\* Recovery and a worker that is alive after all may both announce a task: the user is
\* told twice only if the first one's transaction was lost after it had told him.
NotifiedOnce == \A t \in Tasks : sent[t] = 2 => t \in unsure

\* Every task once: typed rows and workers, one answer and payment, one announcement.
OnceEach == TypeOK /\ AnsweredOnce /\ NotifiedOnce

\* A task that was claimed ends: by its worker or by recovery, whichever replica is left.
EveryTaskEnds ==
  \A t \in Tasks : row[t].status = "running" ~> row[t].status # "running"

\* BR-SC-4: only a scheduled task is cancelled.
CancelOnlyScheduled ==
  [][\A t \in Tasks : row[t].status # "cancelled" /\ row'[t].status = "cancelled" =>
        row[t].status = "scheduled"]_vars

-----------------------------------------------------------------------------
(* The inductive invariant behind the safety properties.                   *)

Loaded == {"start", "turn", "mark"}

\* Worker w is to run task t or is running it.
Holds(w, t) == t \in worker[w].batch \/ (worker[w].task = t /\ worker[w].pc \in Loaded)

\* A task that was never claimed has no past.
NoPast ==
  \A t \in Tasks : row[t].status \in {"none", "scheduled"} =>
    /\ answered[t] = 0 /\ t \notin opened
    /\ sent[t] = 0 /\ claim[t] = Nobody /\ ~row[t].pushed
    /\ \A w \in Workers : ~Holds(w, t)

\* The row a request will insert is nobody else's.
OwnInsert ==
  \A r \in Requests :
    /\ req[r].pc # "idle" => req[r].task \in Tasks
    /\ req[r].pc = "create" =>
         /\ row[req[r].task].status = "none"
         /\ \A q \in Requests \ {r} : req[q].task # req[r].task

\* A task is in the hands of one worker, either of its batch or in its session.
OneHolder ==
  \A w \in Workers :
    /\ worker[w].pc \in Loaded => worker[w].task \in Tasks /\ worker[w].task \notin worker[w].batch
    /\ \A v \in Workers, t \in Tasks : Holds(w, t) /\ Holds(v, t) => w = v

\* What has yet to be run was not run before.
NotYetRun ==
  \A w \in Workers, t \in Tasks :
    /\ t \in worker[w].batch => answered[t] = 0 /\ t \notin opened
    /\ worker[w].task = t =>
         /\ worker[w].pc \in {"start", "turn"} => answered[t] = 0
         /\ worker[w].pc = "start" \/ (worker[w].pc = "turn" /\ worker[w].resumes) => t \notin opened

\* What a worker will say of its task is true of it.
SaysTrue ==
  /\ \A w \in Workers :
       worker[w].pc \in Loaded /\ worker[w].says = "completed" => answered[worker[w].task] = 1
  /\ \A t \in Tasks : answered[t] <= 1 /\ (row[t].status = "completed" => answered[t] = 1)

\* A worker that holds the row of an announcement is at it, and at no other.
ClaimsAtWork ==
  \A t \in Tasks : claim[t] # Nobody =>
    /\ worker[claim[t]].pc \in {"sending", "sent"} /\ ~row[t].pushed
    /\ \A s \in Tasks : claim[s] = claim[t] => s = t

\* A notification is on record, or will be, or its record was lost.
SentIsKnown ==
  /\ NotifiedOnce
  /\ \A t \in Tasks : sent[t] # 0 /\ t \notin unsure =>
       row[t].pushed \/ (claim[t] # Nobody /\ worker[claim[t]].pc = "sent")

ScheduleInv ==
  /\ TypeOK /\ NoPast /\ OwnInsert /\ OneHolder /\ NotYetRun /\ SaysTrue
  /\ ClaimsAtWork /\ SentIsKnown

=============================================================================
