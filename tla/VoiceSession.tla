---------------------------- MODULE VoiceSession ----------------------------
(***************************************************************************)
(* The voice mode of one chat: a connection reads frames while a task runs *)
(* the turn and a worker speaks its text; a reconnection is a second       *)
(* connection, and the turn of the first runs to its end.  A turn with     *)
(* client tools is run in legs.                                            *)
(***************************************************************************)
EXTENDS Naturals, FiniteSets

CONSTANTS
  Connections,
  Free          \* nobody holds the lock

ASSUME VoiceAssumption == Free \notin Connections

VARIABLES
  talk,         \* the state of each connection
  turnLock,     \* voice:turn:{session} in Redis
  silenced,     \* history: connections whose turn was interrupted
  spokenAfter,  \* history: segments of the turn begun after that
  unheard,      \* history: connections whose turn was interrupted while the balance was asked for
  stranded,     \* history: connections that refused a turn with an utterance in the queue
  lapsed        \* history: the lock ran out, or was passed by, while a leg was running

voiceVars == <<talk, turnLock, silenced, spokenAfter, unheard, stranded, lapsed>>

-----------------------------------------------------------------------------

\* turn: it has a step, whose id an interrupt names; reason: it is interrupted; resumed: the
\* leg brings results of tools.  speech is the worker of the leg: words wait for it, stopped
\* ends it.
Quiet == [alive |-> TRUE, task |-> "none", turn |-> FALSE, owns |-> FALSE, reason |-> FALSE,
          queued |-> FALSE, resumed |-> FALSE,
          speech |-> "none", words |-> FALSE, stopped |-> FALSE]

VoiceInit ==
  /\ talk = [c \in Connections |-> Quiet]
  /\ turnLock = Free
  /\ silenced = {} /\ spokenAfter = [c \in Connections |-> 0]
  /\ unheard = {} /\ stranded = {} /\ lapsed = FALSE

Gone == [Quiet EXCEPT !.alive = FALSE]

Legs == {c \in Connections : talk[c].task \in {"balance", "generate", "finish"}}

Becomes(c, what) == talk' = [talk EXCEPT ![c] = what]
Does(c, task) == talk[c].task = task
voiceHistory == <<silenced, spokenAfter, unheard, stranded, lapsed>>

\* The histories are of the turn that is running.
Unsaid(c) ==
  /\ silenced' = silenced \ {c} /\ unheard' = unheard \ {c} /\ stranded' = stranded \ {c}
  /\ spokenAfter' = [spokenAfter EXCEPT ![c] = 0]

-----------------------------------------------------------------------------
(* Frames.                                                                 *)

\* utterance.end and text: run now, or wait for an interrupted turn to close, or refused.
Utter(c) ==
  LET t == talk[c] IN
  /\ t.alive
  /\ \/ t.task = "none" /\ Becomes(c, [t EXCEPT !.task = "spawned"])
     \/ t.task # "none" /\ t.reason /\ ~t.queued /\ Becomes(c, [t EXCEPT !.queued = TRUE])
  /\ UNCHANGED <<turnLock, voiceHistory>>

\* An interrupt is taken for the turn last started, closed or not.
Interrupt(c) ==
  LET t == talk[c] IN
  /\ t.alive /\ t.turn
  /\ Becomes(c, [t EXCEPT !.reason = TRUE, !.stopped = t.speech # "none"])
  /\ silenced' = silenced \cup {c}
  /\ unheard' = IF t.task = "balance" THEN unheard \cup {c} ELSE unheard
  /\ UNCHANGED <<turnLock, spokenAfter, stranded, lapsed>>

\* Variant: the leg that goes on forgets that the turn was interrupted.
ToolResultAnew(c) ==
  LET t == talk[c] IN
  /\ t.alive /\ t.task = "none"
  /\ Becomes(c, [t EXCEPT !.task = "lock", !.resumed = TRUE, !.reason = FALSE])
  /\ UNCHANGED <<turnLock, voiceHistory>>

\* The results of client tools: the same turn goes on, interrupted if it was; or that of a
\* connection before this one.
ToolResult(c) ==
  LET t == talk[c] IN
  /\ t.alive /\ t.task = "none"
  /\ Becomes(c, [t EXCEPT !.task = "lock", !.resumed = TRUE])
  /\ UNCHANGED <<turnLock, voiceHistory>>

-----------------------------------------------------------------------------
(* A turn.                                                                 *)

\* The first thing the task does; until then the interrupt of the turn before is there.
NewTurn(c) ==
  /\ Does(c, "spawned")
  /\ Becomes(c, [Quiet EXCEPT !.alive = talk[c].alive, !.queued = talk[c].queued, !.task = "lock"])
  /\ Unsaid(c)
  /\ UNCHANGED <<turnLock, lapsed>>

Strand(c) == stranded' = IF talk[c].queued THEN stranded \cup {c} ELSE stranded

\* Nothing was recognised, the rate limit; or the mode was switched off, or the token is
\* out of date, and the connection is closed.
RefuseTurn(c) ==
  /\ Does(c, "lock") /\ ~talk[c].resumed
  /\ \/ Becomes(c, Gone) /\ UNCHANGED stranded
     \/ talk[c].alive /\ Becomes(c, [talk[c] EXCEPT !.task = "none"]) /\ Strand(c)
  /\ UNCHANGED <<turnLock, silenced, spokenAfter, unheard, lapsed>>

\* A turn that was interrupted is not spoken; else the balance is asked for.
PrepareSpeech(t) == [t EXCEPT !.task = IF t.reason THEN "generate" ELSE "balance"]

\* SET NX EX: taken, or another connection runs a turn, or Redis does not answer.
AcquireTurnLock(c) ==
  LET t == talk[c] IN
  /\ Does(c, "lock")
  /\ \/ /\ turnLock = Free /\ turnLock' = c
        /\ Becomes(c, [PrepareSpeech(t) EXCEPT !.owns = TRUE])
        /\ UNCHANGED <<stranded, lapsed>>
     \/ /\ turnLock # Free /\ Becomes(c, IF t.alive THEN [t EXCEPT !.task = "none"] ELSE Gone)
        /\ Strand(c)
        /\ UNCHANGED <<turnLock, lapsed>>
     \/ /\ Becomes(c, PrepareSpeech(t)) /\ lapsed' = TRUE
        /\ UNCHANGED <<turnLock, stranded>>
  /\ UNCHANGED <<silenced, spokenAfter, unheard>>

\* Enough for the speech of a step, or not: the worker is there from here on.
KnowBalance(c) ==
  /\ Does(c, "balance")
  /\ \E speech \in {"idle", "none"} : Becomes(c, [talk[c] EXCEPT !.task = "generate", !.speech = speech])
  /\ UNCHANGED <<turnLock, voiceHistory>>

\* on_turn_start: the message is a step, and its id the id of the turn.
TurnStarted(c) ==
  /\ Does(c, "generate") /\ ~talk[c].turn /\ ~talk[c].resumed
  /\ Becomes(c, [talk[c] EXCEPT !.turn = TRUE])
  /\ UNCHANGED <<turnLock, voiceHistory>>

\* What is said of a turn that is not silenced waits for the worker.
Fed(t) == [t EXCEPT !.words = t.words \/ (t.speech # "none" /\ ~t.stopped)]

\* Text comes and is spoken.  Of an interrupted turn it ends the generation, if something
\* had been said by then.
OnDelta(c) ==
  LET t == talk[c] IN
  /\ Does(c, "generate") /\ (t.turn \/ t.resumed)
  /\ \E task \in {"generate"} \cup (IF t.reason THEN {"finish"} ELSE {}) :
       Becomes(c, [Fed(t) EXCEPT !.task = task])
  /\ UNCHANGED <<turnLock, voiceHistory>>

\* The orchestrator has a result: an answer, or a request for tools.
HaveResult(c) ==
  /\ Does(c, "generate") /\ (talk[c].turn \/ talk[c].resumed)
  /\ Becomes(c, [talk[c] EXCEPT !.task = "finish"])
  /\ UNCHANGED <<turnLock, voiceHistory>>

\* The provider fails, or there is nothing to answer: what is not spoken is dropped.
TurnFails(c) ==
  /\ Does(c, "generate")
  /\ Becomes(c, [talk[c] EXCEPT !.task = "finish", !.stopped = talk[c].speech # "none"])
  /\ UNCHANGED <<turnLock, voiceHistory>>

\* All sound of the leg, then its debit, the title, the commit: none of them can keep back
\* the frame that closes the turn.
Spoken(t) == t.speech = "none" \/ (t.speech = "idle" /\ ~t.words)

Closing(t) ==
  IF ~t.alive THEN Gone
  ELSE [t EXCEPT !.task = IF t.queued THEN "spawned" ELSE "none", !.queued = FALSE, !.owns = FALSE,
                 !.speech = "none", !.words = FALSE, !.stopped = FALSE]

\* Variant: an utterance in the queue is left to the next frame.
CloseTurnOnly(c) ==
  LET t == talk[c] IN
  /\ Does(c, "finish") /\ Spoken(t)
  /\ turnLock' = IF t.owns THEN Free ELSE turnLock
  /\ Becomes(c, [Closing(t) EXCEPT !.task = "none", !.queued = t.queued])
  /\ UNCHANGED voiceHistory

\* interrupted and done, or error; the lock is deleted, whoever holds it by now; then the
\* utterance in the queue is run.
CloseTurn(c) ==
  LET t == talk[c] IN
  /\ Does(c, "finish") /\ Spoken(t)
  /\ turnLock' = IF t.owns THEN Free ELSE turnLock
  /\ Becomes(c, Closing(t))
  /\ UNCHANGED voiceHistory

-----------------------------------------------------------------------------
(* The worker that speaks.                                                 *)

\* What waits is synthesised; after an interrupt, looked at last before the sound is sent,
\* it is only taken from the queue.  It may be empty of sound; a failure, or the cap,
\* silences the leg.
Synthesize(c) ==
  LET t == talk[c] IN
  /\ t.speech = "idle" /\ t.words
  /\ \/ ~t.stopped /\ Becomes(c, [t EXCEPT !.words = FALSE, !.speech = "send"])
     \/ \E stopped \in {t.stopped, TRUE} : Becomes(c, [t EXCEPT !.words = FALSE, !.stopped = stopped])
  /\ UNCHANGED <<turnLock, voiceHistory>>

\* audio.begin, the sound, audio.end: in turn with the other frames of the connection.
SendAudio(c) ==
  LET t == talk[c] IN
  /\ t.speech = "send"
  /\ Becomes(c, [t EXCEPT !.speech = "idle"])
  /\ spokenAfter' = IF c \in silenced \ unheard /\ spokenAfter[c] < 2
                    THEN [spokenAfter EXCEPT ![c] = @ + 1] ELSE spokenAfter
  /\ UNCHANGED <<turnLock, silenced, unheard, stranded, lapsed>>

-----------------------------------------------------------------------------
(* Connections.                                                            *)

\* The turn goes on without its sound, and nothing follows it.
Disconnect(c) ==
  LET t == talk[c] IN
  /\ t.alive
  /\ Becomes(c, IF t.task = "none" THEN Gone
                ELSE [t EXCEPT !.alive = FALSE, !.queued = FALSE,
                               !.stopped = t.speech # "none"])
  /\ Unsaid(c)
  /\ UNCHANGED <<turnLock, lapsed>>

Connect(c) ==
  /\ ~talk[c].alive /\ Does(c, "none")
  /\ Becomes(c, Quiet)
  /\ UNCHANGED <<turnLock, voiceHistory>>

\* The process dies: its lock stays until it runs out.
Perish(c) ==
  /\ Becomes(c, Gone) /\ Unsaid(c)
  /\ UNCHANGED <<turnLock, lapsed>>

\* The lock lives as long as one call of the provider may take; a leg may take longer.
LockRunsOut ==
  /\ turnLock # Free /\ turnLock' = Free
  /\ lapsed' = (lapsed \/ (turnLock \in Legs /\ talk[turnLock].owns))
  /\ UNCHANGED <<talk, silenced, spokenAfter, unheard, stranded>>

VoiceNext ==
  \/ \E c \in Connections :
       \/ Utter(c) \/ Interrupt(c) \/ ToolResult(c)
       \/ NewTurn(c) \/ RefuseTurn(c) \/ AcquireTurnLock(c) \/ KnowBalance(c)
       \/ TurnStarted(c) \/ OnDelta(c) \/ HaveResult(c) \/ TurnFails(c) \/ CloseTurn(c)
       \/ Synthesize(c) \/ SendAudio(c)
       \/ Disconnect(c) \/ Connect(c) \/ Perish(c)
  \/ LockRunsOut

VoiceSpec == VoiceInit /\ [][VoiceNext]_voiceVars

-----------------------------------------------------------------------------
(* Properties.                                                             *)

\* What a connection and the lock can hold, and that only a running leg has a worker.
VoiceTypeOK ==
  /\ turnLock \in Connections \cup {Free} /\ lapsed \in BOOLEAN
  /\ silenced \subseteq Connections /\ unheard \subseteq silenced /\ stranded \subseteq Connections
  /\ \A c \in Connections :
       /\ talk[c].task \in {"none", "spawned", "lock", "balance", "generate", "finish"}
       /\ talk[c].speech # "none" => c \in Legs
       /\ spokenAfter[c] \in 0..2

\* A turn that is interrupted stops speaking, in every leg it still has: the segment on its
\* way is sent, and no other.  (Where the interrupt comes while the leg that goes on asks for
\* the balance, nobody tells the worker that is made next.)
SilencedIsSilent == \A c \in silenced \ unheard : spokenAfter[c] <= 1

\* The legs of a chat run one at a time, whatever connections it has, and a dead process does
\* not block it for ever; as long as no leg outlives the lock.
OneLegAtATime == ~lapsed => Cardinality(Legs) <= 1

\* An utterance accepted into the queue waits for a turn that is running: it is run when that
\* turn closes, well or badly.  (A turn refused before its leg leaves it where it is.)
QueuedIsServed ==
  \A c \in Connections \ stranded : talk[c].alive /\ talk[c].queued => talk[c].task # "none"

\* One voice at a time, that stops when it is told to, and answers what it has accepted.
VoiceIsKept == SilencedIsSilent /\ OneLegAtATime /\ QueuedIsServed

=============================================================================
