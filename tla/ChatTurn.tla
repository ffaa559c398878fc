------------------------------ MODULE ChatTurn ------------------------------
(***************************************************************************)
(* One chat session: requests /chat/run and /chat/tool-result of its owner, *)
(* each in a database transaction of its own, around calls of the model     *)
(* that are made with no transaction open (chat/orchestrator.py,            *)
(* chat/repository.py).  A request lives in a handler.  Nothing locks the   *)
(* session, so requests overlap at every statement; a step gets its place   *)
(* in the history when it is inserted and is seen by others when its        *)
(* transaction commits.                                                     *)
(***************************************************************************)
EXTENDS Integers, Sequences, FiniteSets, FiniteSetsExt, Functions

CONSTANTS Handlers,    \* what serves requests
          Nobody,      \* no handler
          MaxTurns,    \* bound: user messages sent in this session
          MaxCalls,    \* bound: tool calls the model asks for
          MaxRounds,   \* max_server_tool_rounds
          MaxCredits   \* bound: credits in the wallet at the start

ASSUME ChatAssumption ==
  /\ Nobody \notin Handlers
  /\ {MaxTurns, MaxCalls, MaxRounds, MaxCredits} \subseteq Nat

VARIABLES
  steps,       \* chat_steps of the session by their seq
  row,         \* tool_calls of the session: the device's calls
  req,         \* what each handler is doing
  turns,       \* turns started so far; a turn is its messageStepId
  lastCall,    \* tool calls the model has asked for so far
  active,      \* has the user a subscription, or only the trial?
  trialUsed,   \* users.trial_used
  credits,     \* the wallet, in turns it can pay for
  ledger,      \* turns with a debit in the ledger
  answered,    \* history: turns whose answer was committed
  orderly,     \* history: see KeepOrder
  torn         \* history: calls an edit has cut the step of, but not the row

chatVars  == <<steps, row, turns, lastCall>>
moneyVars == <<active, trialUsed, credits, ledger, answered>>
vars == <<chatVars, req, moneyVars, orderly, torn>>

Turns == 1 .. MaxTurns
Calls == 1 .. MaxCalls

\* born: the transaction that inserts the step; cut: the one that deletes it.
Step == [role : {"user", "assistant", "tool"}, turn : Turns,
         uses : SUBSET Calls,       \* tool_use blocks of an assistant's step
         call : Calls \cup {0},     \* the call a tool's step answers
         \* maxTokens is for the properties; the code stores no such mark
         mark : {"none", "maxTokens", "turnFailed"},
         born : Handlers \cup {Nobody}, cut : Handlers \cup {Nobody}]

\* st is the committed status, next the one its writer sees; errored is done.
Status == {"none", "pending", "done"}
Row == [turn : Turns \cup {0}, st : Status, next : Status, by : Handlers \cup {Nobody}]
NoRow == [turn |-> 0, st |-> "none", next |-> "none", by |-> Nobody]

\* items: the calls results have come for, or those an edit is to delete; from: the seq it
\* deletes from.
Request == [pc : {"idle", "cutting", "edited", "policy", "apply", "build", "llm", "failed", "givenUp"},
            turn : Turns \cup {0}, items : SUBSET Calls, todo : SUBSET Calls,
            anchor : Calls \cup {0}, from : Nat, open : BOOLEAN, rounds : 0 .. MaxRounds + 1]
Idle == [pc |-> "idle", turn |-> 0, items |-> {}, todo |-> {}, anchor |-> 0, from |-> 0,
         open |-> FALSE, rounds |-> 0]

TypeOK ==
  /\ steps \in [DOMAIN steps -> Step] /\ IsFiniteSet(DOMAIN steps)
  /\ DOMAIN steps \subseteq Nat \ {0}
  /\ row \in [Calls -> Row]
  /\ req \in [Handlers -> Request]
  /\ turns \in 0 .. MaxTurns /\ lastCall \in 0 .. MaxCalls
  /\ active \in BOOLEAN /\ trialUsed \in BOOLEAN /\ orderly \in BOOLEAN
  /\ credits \in 0 .. MaxCredits
  /\ ledger \subseteq Turns /\ answered \subseteq Turns /\ torn \subseteq Calls

-----------------------------------------------------------------------------
(* What a transaction sees, and how it ends. *)

Visible(h) == {i \in DOMAIN steps : steps[i].born \in {Nobody, h} /\ steps[i].cut # h}
View(h)    == Restrict(steps, Visible(h))

StatusFor(h, c) == IF row[c].by = h THEN row[c].next ELSE row[c].st

\* list_tool_calls_for_step, the device's calls among them
CallsOf(h, t) == {c \in Calls : StatusFor(h, c) # "none" /\ row[c].turn = t}
PendingOf(h, t) == {c \in CallsOf(h, t) : StatusFor(h, c) = "pending"}

UserStep(t)         == [role |-> "user", turn |-> t, uses |-> {}, call |-> 0,
                        mark |-> "none", born |-> Nobody, cut |-> Nobody]
ToolStep(t, c)      == [UserStep(t) EXCEPT !.role = "tool", !.call = c]
AssistantStep(t, U) == [UserStep(t) EXCEPT !.role = "assistant", !.uses = U]
Marked(t, m)        == [AssistantStep(t, {}) EXCEPT !.mark = m]

\* S with new steps at its end.  The identity column gives no number twice; here that of
\* a deleted last step may come again, for only the order of the steps is looked at.
Newest(S) == IF DOMAIN S = {} THEN 0 ELSE Max(DOMAIN S)
Extended(S, new) ==
  [i \in DOMAIN S \cup Newest(S) + 1 .. Newest(S) + Len(new) |->
     IF i \in DOMAIN S THEN S[i] ELSE new[i - Newest(S)]]
Insert(s) == steps' = Extended(steps, <<s>>)

\* The steps and rows once h has committed what it has written and the given steps.
Kept(h) ==
  [i \in {i \in DOMAIN steps : steps[i].cut # h} |->
     IF steps[i].born = h THEN [steps[i] EXCEPT !.born = Nobody] ELSE steps[i]]
Committed(h, new) == Extended(Kept(h), new)
CommittedRow(h, c) ==
  IF row[c].by # h THEN row[c]
  ELSE IF row[c].next = "none" THEN NoRow
  ELSE [row[c] EXCEPT !.st = row[c].next, !.by = Nobody]

Commit(h, new) ==
  /\ steps' = Committed(h, new)
  /\ row' = [c \in Calls |-> CommittedRow(h, c)]

\* The transaction of h is undone (session_scope, an exception, a dead process).
RolledBackSteps(h) ==
  [i \in {i \in DOMAIN steps : steps[i].born # h} |->
     IF steps[i].cut = h THEN [steps[i] EXCEPT !.cut = Nobody] ELSE steps[i]]
Rollback(h) ==
  /\ steps' = RolledBackSteps(h)
  /\ row' = [c \in Calls |->
               IF row[c].by # h THEN row[c]
               ELSE IF row[c].st = "none" THEN NoRow
               ELSE [row[c] EXCEPT !.next = row[c].st, !.by = Nobody]]

Done(h) == req' = [req EXCEPT ![h] = Idle]
Goto(h, where) == req' = [req EXCEPT ![h].pc = where]

-----------------------------------------------------------------------------
(* _neutral_history_from_steps: what the model is sent. *)

IndexesOf(S, role) == {i \in DOMAIN S : S[i].role = role}
ResultsIn(S, c) == {i \in IndexesOf(S, "tool") : S[i].call = c}
NextUser(S, j) ==
  LET U == {u \in IndexesOf(S, "user") : u >= j} IN IF U = {} THEN 0 ELSE Min(U)

\* The steps that close call c for want of a result: c is still open there, a user
\* step is to come, and no result of c lies before that step.
Closers(S, c) ==
  {j \in DOMAIN S :
     /\ S[j].role # "tool"
     /\ \E i \in DOMAIN S : i < j /\ c \in S[i].uses
     /\ NextUser(S, j) # 0
     /\ \A k \in ResultsIn(S, c) : k > NextUser(S, j)}
ClosedAt(S, c) == IF Closers(S, c) = {} THEN 0 ELSE Min(Closers(S, c))

Message(s) == [role |-> s.role, uses |-> s.uses, call |-> s.call]
Missing(c) == [role |-> "tool", uses |-> {}, call |-> c]

\* Variant: before the rule that a late result of a closed call is left out.
NeverLate(S, j) == FALSE

\* A result that comes after its call was closed is left out.
Late(S, j) == S[j].role = "tool" /\ ClosedAt(S, S[j].call) \in 1 .. j

\* The messages by their places: <<j, 0>> is the message of step j, <<j, c>> the missing
\* result of a call c that step j closes; those come right before it, in the calls' order.
Before(p, q) ==
  \/ p[1] < q[1]
  \/ p[1] = q[1] /\ p[2] # 0 /\ (q[2] = 0 \/ p[2] < q[2])
Places(S) == {<<j, 0>> : j \in {j \in DOMAIN S : ~Late(S, j)}}
             \cup {<<ClosedAt(S, c), c>> : c \in {c \in Calls : ClosedAt(S, c) # 0}}
History(S) == [p \in Places(S) |-> IF p[2] = 0 THEN Message(S[p[1]]) ELSE Missing(p[2])]

-----------------------------------------------------------------------------
(* Policy and payment. *)

\* evaluate() for mode credits
Allowed == IF active THEN credits >= 1 ELSE ~trialUsed

\* Variant: the debit does not look for its key in the ledger.
PayAgain(t) ==
  /\ credits' = IF active THEN credits - 1 ELSE credits
  /\ ledger' = IF active THEN ledger \cup {t} ELSE ledger
  /\ trialUsed' = (trialUsed \/ ~active)
  /\ UNCHANGED active

\* _debit: the wallet is debited once per turn (WalletLedger), or the trial is used.
Pay(t) ==
  /\ credits' = IF active /\ t \notin ledger THEN credits - 1 ELSE credits
  /\ ledger' = IF active THEN ledger \cup {t} ELSE ledger
  /\ trialUsed' = (trialUsed \/ ~active)
  /\ UNCHANGED active

-----------------------------------------------------------------------------
Init ==
  /\ steps = <<>>
  /\ row = [c \in Calls |-> NoRow]
  /\ req = [h \in Handlers |-> Idle]
  /\ turns = 0 /\ lastCall = 0
  /\ active \in BOOLEAN
  /\ credits \in IF active THEN 0 .. MaxCredits ELSE {0}
  /\ trialUsed = FALSE /\ ledger = {} /\ answered = {}
  /\ orderly = TRUE /\ torn = {}

(* POST /chat/run *)

\* The user step of a new turn is inserted.
Run(h) ==
  /\ req[h].pc = "idle" /\ turns < MaxTurns
  /\ turns' = turns + 1
  /\ Insert([UserStep(turns + 1) EXCEPT !.born = h])
  /\ req' = [req EXCEPT ![h] = [Idle EXCEPT !.pc = "policy", !.turn = turns + 1]]
  /\ UNCHANGED <<row, lastCall, moneyVars>>

\* Edit and regenerate (truncate_from_message_step): the history from the user step of
\* turn t on is to go, with the calls of its turns.  Each DELETE is a statement with a view
\* of its own; the one on tool_calls has here what is committed when it starts.
FirstOf(h, t) == Min({i \in Visible(h) : steps[i].role = "user" /\ steps[i].turn = t})
StepsFrom(h, first) == {i \in Visible(h) : first <= i}
TurnsFrom(h, first) == {steps[i].turn : i \in StepsFrom(h, first)}
Edit(h, t) ==
  /\ req[h].pc = "idle" /\ turns < MaxTurns
  /\ \E i \in Visible(h) : steps[i].role = "user" /\ steps[i].turn = t
  /\ turns' = turns + 1
  /\ req' = [req EXCEPT ![h] =
       [Idle EXCEPT !.pc = "cutting", !.turn = turns + 1, !.from = FirstOf(h, t),
          !.items = {c \in Calls : row[c].st # "none" /\ row[c].turn \in TurnsFrom(h, FirstOf(h, t))}]]
  /\ UNCHANGED <<steps, row, lastCall, moneyVars>>

\* The rows and steps another transaction has written are waited for.  The DELETE on
\* chat_steps sees those that have been committed since: a call of theirs loses its step.
CutHistory(h) ==
  LET gone == StepsFrom(h, req[h].from)
      dead == {c \in req[h].items : row[c].st # "none"}
  IN
  /\ req[h].pc = "cutting"
  /\ \A i \in gone : steps[i].cut = Nobody
  /\ \A c \in req[h].items : row[c].by = Nobody
  /\ steps' = [i \in DOMAIN steps |->
                 IF i \in gone THEN [steps[i] EXCEPT !.cut = h] ELSE steps[i]]
  /\ row' = [c \in Calls |->
               IF c \in dead THEN [row[c] EXCEPT !.next = "none", !.by = h] ELSE row[c]]
  /\ torn' = torn \cup
       {c \in Calls \ dead : row[c].st # "none" /\ \E i \in gone : c \in steps[i].uses}
  /\ req' = [req EXCEPT ![h].pc = "edited", ![h].items = {}, ![h].from = 0]
  /\ UNCHANGED <<turns, lastCall, moneyVars>>

\* Attachments are moderated, memory is searched; then the new turn is inserted.
EditRun(h) ==
  /\ req[h].pc = "edited"
  /\ Insert([UserStep(req[h].turn) EXCEPT !.born = h])
  /\ Goto(h, "policy")
  /\ UNCHANGED <<row, turns, lastCall, moneyVars>>

\* A refusal is an answer like any other: the user step is committed.
Policy(h) ==
  /\ req[h].pc = "policy"
  /\ IF Allowed THEN Goto(h, "build") /\ UNCHANGED <<steps, row>>
     ELSE Commit(h, <<>>) /\ Done(h)
  /\ UNCHANGED <<turns, lastCall, moneyVars>>

(* The generation loop *)

\* The history is read and the transaction committed; then the model is called.
Build(h) ==
  /\ req[h].pc = "build"
  /\ Commit(h, <<>>)
  /\ Goto(h, "llm")
  /\ UNCHANGED <<turns, lastCall, moneyVars>>

\* The next n calls the model asks for.
Fresh(n) == lastCall + 1 .. lastCall + n

\* Variant: a truncated answer is charged for.
TruncatedPaid(h) ==
  /\ req[h].pc = "llm"
  /\ \E n \in 0 .. MaxCalls - lastCall :
       /\ n <= 1
       /\ Commit(h, <<[AssistantStep(req[h].turn, Fresh(n)) EXCEPT !.mark = "maxTokens"]>>)
       /\ lastCall' = lastCall + n
  /\ Pay(req[h].turn)
  /\ Done(h) /\ UNCHANGED <<turns, answered>>

\* _handle_max_tokens: the truncated step is kept with the tool_use blocks in it, but
\* no call is created, and nothing is charged.
Truncated(h) ==
  /\ req[h].pc = "llm"
  /\ \E n \in 0 .. MaxCalls - lastCall :
       /\ n <= 1
       /\ Commit(h, <<[AssistantStep(req[h].turn, Fresh(n)) EXCEPT !.mark = "maxTokens"]>>)
       /\ lastCall' = lastCall + n
  /\ Done(h)
  /\ UNCHANGED <<turns, moneyVars>>

\* The last n of d + n new calls are the server's: they are executed at once.
AskTools(h, d, n) ==
  LET t == req[h].turn
      device == Fresh(d)
      server == Fresh(d + n) \ device
      results == [i \in 1 .. n |-> ToolStep(t, lastCall + d + i)]
  IN
  /\ req[h].pc = "llm" /\ d + n <= MaxCalls - lastCall
  /\ steps' = Committed(h, <<AssistantStep(t, device \cup server)>> \o results)
  /\ row' = [c \in Calls |->
               IF c \in device THEN [turn |-> t, st |-> "pending", next |-> "pending",
                                     by |-> Nobody]
               ELSE CommittedRow(h, c)]
  /\ lastCall' = lastCall + d + n
  /\ UNCHANGED <<turns, moneyVars>>

\* _handle_tool_use with a call of the device: the turn waits for its results.
DeviceTools(h) ==
  /\ \E d \in 1 .. 2, n \in 0 .. 1 : AskTools(h, d, n)
  /\ Done(h)

\* _handle_tool_use with the server's calls only: the loop goes on, for so many rounds.
ServerTools(h) ==
  /\ AskTools(h, 0, 1)
  /\ req' = [req EXCEPT ![h].rounds = @ + 1,
                        ![h].pc = IF req[h].rounds < MaxRounds THEN "build" ELSE "failed"]

\* _finalize_assistant: the answer and its payment are one transaction, undone when
\* the balance no longer suffices.  An answer the user interrupts is stored with what
\* was heard of it and costs the same (_finalize_interrupted).
Final(h) ==
  /\ req[h].pc = "llm"
  /\ IF active /\ credits = 0 /\ req[h].turn \notin ledger
     THEN Rollback(h) /\ UNCHANGED moneyVars
     ELSE /\ Commit(h, <<AssistantStep(req[h].turn, {})>>)
          /\ Pay(req[h].turn)
          /\ answered' = answered \cup {req[h].turn}
  /\ Done(h)
  /\ UNCHANGED <<turns, lastCall>>

\* One of the tool calls has bad arguments: the turn is given up with the step and the
\* calls before the bad one already written.
BadTools(h) ==
  /\ req[h].pc = "llm"
  /\ \E d \in 0 .. 1 :
       /\ d < MaxCalls - lastCall
       /\ Insert([AssistantStep(req[h].turn, Fresh(d + 1)) EXCEPT !.born = h])
       /\ row' = [c \in Calls |->
                    IF c \in Fresh(d) THEN [turn |-> req[h].turn, st |-> "none",
                                            next |-> "pending", by |-> h]
                    ELSE row[c]]
       /\ lastCall' = lastCall + d + 1
  /\ Goto(h, "givenUp")
  /\ UNCHANGED <<turns, moneyVars>>

IsTerminal(s) ==
  s.role = "assistant" /\ s.uses = {}

\* _mark_turn_failed, when the call of the model fails or the generation has: the turn is
\* closed with a marker, unless it has an answer; the marker is committed with whatever the
\* failed attempt has written.
MarkTurnFailed(h) ==
  /\ req[h].pc \in {"llm", "failed", "givenUp"}
  /\ IF \E i \in DOMAIN View(h) : IsTerminal(View(h)[i]) /\ View(h)[i].turn = req[h].turn
     THEN Rollback(h)
     ELSE Commit(h, <<Marked(req[h].turn, "turnFailed")>>)
  /\ Done(h)
  /\ UNCHANGED <<turns, lastCall, moneyVars>>

(* POST /chat/tool-result *)

\* _turn_superseded: a user step follows the latest assistant step of the turn.
Superseded(h, t) ==
  LET S == View(h)
      own == {i \in IndexesOf(S, "assistant") : S[i].turn = t}
  IN  own # {} /\ \E u \in IndexesOf(S, "user") : u > Max(own)

\* Results for calls of turn t arrive, the one for call a first.  A turn that waits
\* for its device and was left for a newer message is refused (check 1).
ToolResult(h, t, items, a) ==
  /\ req[h].pc = "idle" /\ a \in items /\ items \subseteq CallsOf(h, t)
  /\ ~(PendingOf(h, t) # {} /\ Superseded(h, t))
  /\ req' = [req EXCEPT ![h] =
       [Idle EXCEPT !.pc = "apply", !.turn = t, !.items = items, !.anchor = a,
                    !.todo = items \cap PendingOf(h, t), !.open = PendingOf(h, t) # {}]]
  /\ UNCHANGED <<chatVars, moneyVars>>

\* Variant: the row is written whatever its status (no WHERE status = 'pending').
ApplyAlways(h, c) ==
  /\ req[h].pc = "apply" /\ c \in req[h].todo /\ row[c].by \in {Nobody, h}
  /\ row' = [row EXCEPT ![c].next = "done", ![c].by = h]
  /\ Insert([ToolStep(req[h].turn, c) EXCEPT !.born = h])
  /\ req' = [req EXCEPT ![h].todo = @ \ {c}]
  /\ UNCHANGED <<turns, lastCall, moneyVars>>

\* _apply_tool_result: the UPDATE waits for the row and changes it if it is still
\* pending; only then is the result added to the history.
Apply(h, c) ==
  /\ req[h].pc = "apply" /\ c \in req[h].todo /\ row[c].by \in {Nobody, h}
  /\ IF StatusFor(h, c) = "pending"
     THEN /\ row' = [row EXCEPT ![c].next = "done", ![c].by = h]
          /\ Insert([ToolStep(req[h].turn, c) EXCEPT !.born = h])
     ELSE UNCHANGED <<row, steps>>
  /\ req' = [req EXCEPT ![h].todo = @ \ {c}]
  /\ UNCHANGED <<turns, lastCall, moneyVars>>

\* next_step_after: has this turn an assistant step, a marker apart, after the result
\* of call a, or any at all if that result is gone?
SavedStep(h, t, a) ==
  LET S == View(h)
      from == IF ResultsIn(S, a) = {} THEN 0 ELSE Min(ResultsIn(S, a))
  IN  \E i \in DOMAIN S : /\ i > from /\ S[i].role = "assistant" /\ S[i].turn = t
                          /\ S[i].mark # "turnFailed"

\* The generation loop is entered; only the turn, and that it waited for its device,
\* is of use from here on.
GoOn(h) == req' = [req EXCEPT ![h].pc = "build", ![h].anchor = 0, ![h].open = FALSE]

\* Variant: the turn goes on with the first result (before ADR-025).
BarrierOfOne(h) ==
  LET t == req[h].turn IN
  /\ req[h].pc = "apply" /\ req[h].todo = {}
  /\ IF SavedStep(h, t, req[h].anchor)
     THEN Commit(h, <<>>) /\ Done(h)
     ELSE IF req[h].open /\ Superseded(h, t)
     THEN Rollback(h) /\ Done(h)
     ELSE IF Allowed
     THEN GoOn(h) /\ UNCHANGED <<steps, row>>
     ELSE Commit(h, <<>>) /\ Done(h)
  /\ UNCHANGED <<turns, lastCall, moneyVars>>

\* The barrier: with a call still pending, or the next step already there, the request
\* is over.  Otherwise the turn goes on, unless a newer message is seen (check 2).
Barrier(h) ==
  LET t == req[h].turn IN
  /\ req[h].pc = "apply" /\ req[h].todo = {}
  /\ IF PendingOf(h, t) # {} \/ (/\ SavedStep(h, t, req[h].anchor)
                                 /\ req[h].items \subseteq CallsOf(h, t))
     THEN Commit(h, <<>>) /\ Done(h)
     ELSE IF req[h].open /\ Superseded(h, t)
     THEN Rollback(h) /\ Done(h)
     ELSE IF Allowed
     THEN GoOn(h) /\ UNCHANGED <<steps, row>>
     ELSE Commit(h, <<>>) /\ Done(h)
  /\ UNCHANGED <<turns, lastCall, moneyVars>>

\* The process dies, the client hangs up, or the database gives the request up.
Abort(h) ==
  /\ req[h].pc # "idle"
  /\ Rollback(h) /\ Done(h)
  /\ UNCHANGED <<turns, lastCall, moneyVars>>

-----------------------------------------------------------------------------
\* So far requests generated one at a time, edits from their first statement on, each for
\* the latest message, and none was given up amid its tool calls.
IsLatest(h) ==
  LET U == IndexesOf(View(h), "user") IN U # {} /\ View(h)[Max(U)].turn = req[h].turn
Working(h) == req[h].pc \notin {"idle", "apply"}
Generating(h) == Working(h) /\ req[h].pc \notin {"cutting", "edited"}
Orderly ==
  /\ \A g, h \in Handlers : Working(g) /\ Working(h) => g = h
  /\ \A h \in Handlers : Generating(h) => IsLatest(h) /\ req[h].pc # "givenUp"
KeepOrder == orderly' = (orderly /\ Orderly')

Serve(h) ==
  \/ EditRun(h) \/ Policy(h) \/ Build(h)
  \/ Final(h) \/ Truncated(h) \/ DeviceTools(h) \/ ServerTools(h)
  \/ BadTools(h) \/ MarkTurnFailed(h)
  \/ \E c \in Calls : Apply(h, c)
  \/ Barrier(h)

Arrive(h) ==
  \/ Run(h)
  \/ \E t \in Turns : Edit(h, t)
  \/ \E t \in Turns, items \in SUBSET Calls : \E a \in items : ToolResult(h, t, items, a)

Acts(h) == CutHistory(h) \/ ((Arrive(h) \/ Serve(h) \/ Abort(h)) /\ UNCHANGED torn)

Next == \E h \in Handlers : Acts(h) /\ KeepOrder

Spec == Init /\ [][Next]_vars

-----------------------------------------------------------------------------
(* Properties *)

\* An answer: a step of the assistant that closes the turn for the user.
IsAnswer(s) == s.role = "assistant" /\ s.uses = {} /\ s.mark = "none"

\* What h is about to send the model.
Input(h) == History(View(h))
Sending(h) == req[h].pc = "build"

\* Every result in what is sent answers a call sent before it, no call is answered
\* twice, and when the user speaks again every earlier call has been answered: what
\* closing the superseded calls (ADR-114) promises, whatever else is going on.  (A call
\* that an edit took the step of, and left the row, for it was committed between the two
\* DELETEs of the edit, is another matter: its result still comes, and answers nothing.)
Answers(M, k, c) == M[k].role = "tool" /\ M[k].call = c
Between(M, i, u) == {k \in DOMAIN M : Before(i, k) /\ Before(k, u)}
Answered(M, i, u) == \A c \in M[i].uses : \E k \in Between(M, i, u) : Answers(M, k, c)
FitsTogether(M) ==
  /\ \A k \in DOMAIN M : M[k].role = "tool" =>
        /\ M[k].call \notin torn => \E i \in DOMAIN M : Before(i, k) /\ M[k].call \in M[i].uses
        /\ \A l \in DOMAIN M : Answers(M, l, M[k].call) => l = k
  /\ \A i, u \in DOMAIN M : M[u].role = "user" /\ Before(i, u) => Answered(M, i, u)
ResultsFit == \A h \in Handlers : Sending(h) => FitsTogether(Input(h))

\* A provider takes a history when the results of a step's calls follow it at once.
Accepted(M) ==
  \A i \in DOMAIN M : \A c \in M[i].uses :
    \E k \in DOMAIN M : /\ Before(i, k) /\ Answers(M, k, c)
                        /\ \A l \in Between(M, i, k) : M[l].role = "tool"

\* While requests generate one at a time, each for the latest message, and none was
\* given up amid its tool calls, the provider takes all it is sent: the barrier
\* (ADR-025) and the closing of superseded calls (ADR-114) together leave no call of
\* the history open, whatever was left behind.
SentIsAccepted ==
  orderly => \A h \in Handlers : Sending(h) => Accepted(Input(h))

\* A turn goes on from the results of its device only when every tool call of the turn
\* has a result: "otherwise an orphan tool_use would make Anthropic reject the next
\* messages.create" (orchestrator.py, tool_result).
ContinuesWithoutOrphans ==
  \A h \in Handlers : Sending(h) /\ req[h].items # {} =>
    \A i \in DOMAIN View(h) : View(h)[i].turn = req[h].turn =>
      \A c \in View(h)[i].uses : \E k \in DOMAIN Input(h) : Answers(Input(h), k, c)

\* A subscriber's answers are paid for and only they: each answer in the history is of
\* a turn with a debit, and each debit is of a turn that was answered, once, however
\* the requests of the turn overlap, are retried or die.
OnlyAnswersArePaid ==
  /\ active => \A i \in DOMAIN steps : IsAnswer(steps[i]) => steps[i].turn \in ledger
  /\ ledger \subseteq answered
  /\ trialUsed => ~active /\ answered # {}

\* The turns are calls of the wallet: one user, the turn the key, one credit to debit.  A
\* subscriber's turn is a call that succeeded once its answer is committed, and whatever the
\* requests of the turns do, the wallet keeps its promise to them.
Debit == [type |-> "debit", amount |-> 1]
NoDebit == [type |-> "none", amount |-> 0]
DebitOf(t) == [slot |-> <<"owner", t>>, entry |-> Debit]

Balances == [u \in {"owner"} |-> credits]
Booked == [s \in {"owner"} \X Turns |-> IF s[2] \in ledger THEN Debit ELSE NoDebit]
Succeeded == {DebitOf(t) : t \in IF active THEN answered ELSE {}}

Wallet == INSTANCE WalletPromise WITH
  Users <- {"owner"}, Keys <- Turns, Entry <- {Debit}, Call <- {DebitOf(t) : t \in Turns},
  None <- NoDebit, balance <- Balances, ledger <- Booked, told <- Succeeded

PaidByTheWallet == Wallet!Spec

\* The rows of tool_calls and the history agree: a call has at most one result, and
\* that result and the call's status are one transaction's, until an edit cuts the call.
OneResultPerCall ==
  \A c \in Calls : \A k \in ResultsIn(steps, c) :
    /\ ResultsIn(steps, c) = {k}
    /\ row[c].turn # 0 /\ steps[k].cut = Nobody =>
         /\ row[c].next \in {"done", "none"}
         /\ steps[k].born = Nobody <=> row[c].st = "done"

-----------------------------------------------------------------------------
(* The inductive invariant behind the safety properties.                   *)

\* The life of a row: inserted by a turn that is given up amid its calls, or committed
\* with its step; done by a result; deleted by an edit.
RowLives(c) ==
  LET r == row[c] IN
  \/ r = NoRow
  \/ /\ r.turn # 0 /\ c <= lastCall
     /\ \/ r.by = Nobody /\ r.st \in {"pending", "done"} /\ r.next = r.st
        \/ r.by # Nobody /\ \/ r.st = "none" /\ r.next = "pending" /\ req[r.by].pc = "givenUp"
                            \/ r.st = "pending" /\ r.next = "done"
                            \/ r.st \in {"pending", "done"} /\ r.next = "none"

\* A step is not deleted before it is committed.
DeletedOnceCommitted == \A i \in DOMAIN steps : steps[i].born = Nobody \/ steps[i].cut = Nobody

\* The step of a call; there is one at most, and every result is of some call.
Asks(i, c) == c \in steps[i].uses
AskedOnce ==
  /\ \A i \in DOMAIN steps : steps[i].role = "tool" => steps[i].call # 0
  /\ \A i \in DOMAIN steps, c \in Calls : Asks(i, c) => c <= lastCall /\ steps[i].role = "assistant"
  /\ \A i, j \in DOMAIN steps, c \in Calls : Asks(i, c) /\ Asks(j, c) => i = j

\* Whoever sees a row sees the step that asked for the call, unless that was torn from it.
RowHasStep(c) ==
  row[c] # NoRow /\ c \notin torn =>
    \E i \in DOMAIN steps :
      /\ Asks(i, c) /\ steps[i].turn = row[c].turn
      /\ steps[i].born = IF row[c].st = "none" THEN row[c].by ELSE Nobody
      /\ steps[i].cut # Nobody => row[c].by = steps[i].cut /\ row[c].next = "none"

\* Result k of call c: it comes after its call, which whoever sees it sees too, unless that
\* was torn from it, and belongs to the transaction that sets the row to done.
ResultFits(c, k) ==
  LET s == steps[k]
      r == row[c] IN
  /\ c <= lastCall /\ \A i \in DOMAIN steps : Asks(i, c) => i < k
  /\ c \notin torn => \E i \in DOMAIN steps : /\ i < k /\ Asks(i, c)
                                              /\ steps[i].born \in {Nobody, s.born}
                                              /\ steps[i].cut \in {Nobody, s.cut}
  /\ IF s.born = Nobody
     THEN r.turn # 0 => r.turn = s.turn /\ r.st = "done"
     ELSE r.by = s.born /\ r.turn = s.turn /\ r.st = "pending" /\ r.next = "done"

\* What a handler has not committed, it still works on.
RestsClean(h) ==
  req[h].pc \in {"idle", "cutting", "llm", "failed"} =>
    /\ \A i \in DOMAIN steps : steps[i].born # h /\ steps[i].cut # h
    /\ \A c \in Calls : row[c].by # h

\* The results a request has yet to write are of calls of its turn.
TodoFits(h) ==
  \A c \in req[h].todo : req[h].pc = "apply" /\ c <= lastCall /\ row[c].turn \in {0, req[h].turn}

\* A request has a turn, and counts its rounds up to the last.
Serves(h) ==
  /\ req[h].pc # "idle" => req[h].turn # 0
  /\ req[h].pc # "failed" => req[h].rounds <= MaxRounds

StepsFit ==
  /\ DeletedOnceCommitted /\ AskedOnce
  /\ \A c \in Calls : RowLives(c) /\ RowHasStep(c)
  /\ \A c \in Calls : \A k \in ResultsIn(steps, c) : ResultsIn(steps, c) = {k} /\ ResultFits(c, k)
  /\ \A h \in Handlers : RestsClean(h) /\ TodoFits(h)

ChatInv == TypeOK /\ (\A h \in Handlers : Serves(h)) /\ OnlyAnswersArePaid /\ StepsFit

-----------------------------------------------------------------------------
(* The inductive invariant behind SentIsAccepted.                          *)

\* Who has written what is not committed: a new turn its user step and what an edit
\* deletes, a request with results the results.
NewTurn(h) ==
  \/ req[h].pc \in {"cutting", "edited"}
  \/ req[h].pc \in {"policy", "build"} /\ \E u \in IndexesOf(steps, "user") : steps[u].born = h
Writer(h) ==
  /\ \A i \in DOMAIN steps : steps[i].born = h =>
       \/ steps[i].role = "user" /\ steps[i].turn = req[h].turn /\ req[h].pc \in {"policy", "build"}
       \/ steps[i].role = "tool" /\ req[h].pc \in {"apply", "build"}
       \/ steps[i].role = "assistant" /\ req[h].pc = "givenUp"
  /\ \A i \in DOMAIN steps : steps[i].cut = h => NewTurn(h)
  /\ \A c \in Calls : row[c].by = h =>
       /\ row[c].next = "none" => NewTurn(h)
       /\ row[c].next = "done" => \E k \in ResultsIn(steps, c) : steps[k].born = h

\* A new turn is its request's alone, and starts with its user step.
TurnsAreNew ==
  /\ \A h \in Handlers : NewTurn(h) =>
       /\ \A g \in Handlers : req[g].turn = req[h].turn => g = h
       /\ \A i \in DOMAIN steps : steps[i].turn = req[h].turn => steps[i].role = "user" /\ steps[i].born = h
  /\ \A u, i \in DOMAIN steps : steps[u].role = "user" /\ steps[i].turn = steps[u].turn => u <= i
  /\ \A i \in DOMAIN steps : steps[i].turn <= turns
  /\ \A h \in Handlers : req[h].turn <= turns

\* The calls of the steps S that are open at their end: without a result, and not closed
\* by a user step.  None was when the assistant spoke again.
Open(S) == {c \in Calls :
  /\ ResultsIn(S, c) = {}
  /\ \E i \in DOMAIN S : c \in S[i].uses /\ \A u \in IndexesOf(S, "user") : u <= i}
Upto(S, j) == Restrict(S, {i \in DOMAIN S : i < j})
Tidy(S) == \A j \in IndexesOf(S, "assistant") : Open(Upto(S, j)) = {}

\* The user step of turn t is the last.
LastTurn(S, t) ==
  \E u \in IndexesOf(S, "user") : S[u].turn = t /\ \A v \in IndexesOf(S, "user") : v <= u

\* Of the committed steps, open calls are pending or of a truncated step, which has no
\* rows, and what the assistant said after the last user step is of its turn.
Stored == Restrict(steps, {i \in DOMAIN steps : steps[i].born = Nobody})
OpenCalls == \A c \in Open(Stored) :
  row[c].st = "pending" \/ \E i \in DOMAIN Stored : c \in Stored[i].uses /\ Stored[i].mark = "maxTokens"
TruncatedHasNoRow == \A i \in DOMAIN steps, c \in Calls :
  Asks(i, c) /\ steps[i].mark = "maxTokens" => row[c] = NoRow
LatestSpeaks == \A i \in IndexesOf(Stored, "assistant") :
  LastTurn(Stored, Stored[i].turn) \/ \E u \in IndexesOf(Stored, "user") : i < u

\* A new user step comes after all but results, and after all that is deleted for it.
NewUserIsLast == \A u, i \in DOMAIN steps :
  /\ steps[u].role = "user" /\ steps[u].born # Nobody
  /\ steps[i].role # "tool" \/ steps[i].cut # Nobody
  => i <= u

\* The calls a request has results for are of its turn, unless that was edited away.
ItemsFit(h) ==
  req[h].pc = "apply" =>
    /\ req[h].anchor \in req[h].items
    /\ \A c \in req[h].items : \/ row[c].turn = req[h].turn /\ row[c].st # "none"
                               \/ \E t \in Turns \ {req[h].turn} : LastTurn(Stored, t)

InOrder ==
  /\ Orderly /\ TurnsAreNew
  /\ Tidy(Stored) /\ OpenCalls /\ TruncatedHasNoRow /\ LatestSpeaks /\ NewUserIsLast
  /\ \A h \in Handlers : /\ Writer(h) /\ ItemsFit(h) /\ Tidy(View(h))
                         /\ Generating(h) => Open(View(h)) = {}

\* An edit is to delete the rows of all calls that it is to delete the steps of.
EditSees(h) ==
  req[h].pc = "cutting" =>
    \A c \in Calls, i \in DOMAIN steps :
      Asks(i, c) /\ req[h].from <= i /\ row[c].st # "none" => c \in req[h].items
NothingTorn == torn = {} /\ \A h \in Handlers : EditSees(h)
OrderInv == orderly => InOrder /\ NothingTorn

=============================================================================
