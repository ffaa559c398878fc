----------------------------- MODULE ChatMemory -----------------------------
(***************************************************************************)
(* The searchable memory of one chat: background tasks cut its steps into  *)
(* chunks, embed them and write them; an edit of the chat deletes steps    *)
(* and starts a task that deletes their chunks.  chat_chunks refers to the *)
(* chat, not to the step, so nothing but that task removes them.           *)
(***************************************************************************)
EXTENDS Naturals, FiniteSets

CONSTANTS
  Indexers,     \* background indexing tasks: after a turn, or of a backfill
  Sizes,        \* how many chunks a step is cut into, by the settings of a worker
  Seqs,         \* bound: steps, in order of seq
  MaxIndexings, \* bound: indexings started
  Absent

ASSUME MemoryAssumption ==
  /\ Sizes \subseteq Nat \ {0} /\ Seqs \subseteq Nat \ {0} /\ {1, 2} \subseteq Seqs
  /\ MaxIndexings \in Nat
  /\ Absent \notin Indexers \cup Nat

VARIABLES
  kept,        \* committed chat_steps, by seq: messages of the user
  newest,      \* the last seq given out
  indexed,     \* committed chat_chunks: which indexing wrote a chunk of a step
  writing,     \* the step whose chunk rows an indexer has locked, and not committed
  indexing,    \* what an indexer has in hand
  indexings,   \* indexings started
  editing,     \* the seq an uncommitted edit deletes from
  eraser,      \* the deletion task of that edit
  overlapped,  \* history: deleted steps that were indexed, or not yet erased, meanwhile
  halved      \* history: steps indexed last while the DELETE of that task waited for them

memoryVars == <<kept, newest, indexed, writing, indexing, indexings, editing, eraser, overlapped, halved>>

-----------------------------------------------------------------------------

MaxSize == CHOOSE n \in Sizes : \A m \in Sizes : m <= n
Indices == 0..MaxSize - 1

Resting == [step |-> Absent, run |-> 0, size |-> 0, stage |-> "rest", cut |-> {}]
NoEraser == [stage |-> "rest", from |-> Absent, found |-> {}]
NoChunks == [i \in Indices |-> Absent]

Chunk(s) == {i \in Indices : indexed[s][i] # Absent}

\* Two messages, not indexed yet: memory has just been switched on.
MemoryInit ==
  /\ kept = {1, 2} /\ newest = 2
  /\ indexed = [s \in Seqs |-> NoChunks]
  /\ writing = [n \in Indexers |-> Absent]
  /\ indexing = [n \in Indexers |-> Resting]
  /\ indexings = 0
  /\ editing = Absent /\ eraser = NoEraser
  /\ overlapped = {} /\ halved = {}

-----------------------------------------------------------------------------
(* Indexing: read the step, embed its parts, write, cut the tail, commit.  *)

\* The step is read, and the provider asked for the vectors, before anything is locked.
ReadStep(n, s, size) ==
  /\ indexing[n].stage = "rest" /\ s \in kept /\ indexings < MaxIndexings
  /\ indexing' = [indexing EXCEPT ![n] = [step |-> s, run |-> indexings + 1, size |-> size,
                                          stage |-> "upsert", cut |-> {}]]
  /\ indexings' = indexings + 1
  /\ UNCHANGED <<kept, newest, indexed, writing, editing, eraser, overlapped, halved>>

\* The chunks a task has locked: those it has written, and those it has cut.
Locked(s, i) == \E n \in Indexers : writing[n] = s /\ (i < indexing[n].size \/ i \in indexing[n].cut)

\* Two indexings of a step meet at its first chunk: the second waits for the first.
Unlocked(s, n) == \A m \in Indexers \ {n} : writing[m] # s

\* INSERT .. ON CONFLICT (chat_step_id, chunk_index) DO UPDATE of all chunks.
UpsertChunks(n) ==
  LET s == indexing[n].step IN
  /\ indexing[n].stage = "upsert" /\ Unlocked(s, n)
  /\ writing' = [writing EXCEPT ![n] = s]
  /\ indexing' = [indexing EXCEPT ![n].stage = "trim"]
  /\ UNCHANGED <<kept, newest, indexed, indexings, editing, eraser, overlapped, halved>>

\* Variant: the chunks of a longer indexing stay.
TrimNothing(n) ==
  /\ indexing[n].stage = "trim"
  /\ indexing' = [indexing EXCEPT ![n].stage = "commit"]
  /\ UNCHANGED <<kept, newest, indexed, writing, indexings, editing, eraser, overlapped, halved>>

\* What a longer indexing has left, as far as it is committed by now.
TrimTail(n) ==
  LET s == indexing[n].step IN
  /\ indexing[n].stage = "trim"
  /\ indexing' = [indexing EXCEPT ![n].stage = "commit",
                                  ![n].cut = {i \in Chunk(s) : i >= indexing[n].size}]
  /\ UNCHANGED <<kept, newest, indexed, writing, indexings, editing, eraser, overlapped, halved>>

Rest(n) ==
  /\ writing' = [writing EXCEPT ![n] = Absent]
  /\ indexing' = [indexing EXCEPT ![n] = Resting]
  /\ UNCHANGED <<kept, newest, indexings, editing>>

CommitChunks(n) ==
  LET t == indexing[n] IN
  /\ t.stage = "commit"
  /\ indexed' = [indexed EXCEPT ![t.step] =
                   [i \in Indices |-> IF i < t.size THEN t.run
                                      ELSE IF i \in t.cut THEN Absent ELSE @[i]]]
  /\ overlapped' = IF editing # Absent /\ t.step >= editing THEN overlapped \cup {t.step}
                                                           ELSE overlapped
  /\ halved' = IF \E i \in Indices : <<t.step, i>> \in eraser.found
                THEN halved \cup {t.step} ELSE halved \ {t.step}
  /\ eraser' = [eraser EXCEPT !.found = @ \ ({t.step} \X t.cut)]
  /\ Rest(n)

\* The provider fails, the process dies: logged, and not tried again.
GiveUpIndexing(n) == indexing[n].stage # "rest" /\ Rest(n) /\ UNCHANGED <<indexed, eraser, overlapped, halved>>

-----------------------------------------------------------------------------
(* An edit, and the deletion it starts before it has committed.            *)

\* truncate_from_message_step, flushed; schedule_delete_from_message_step.
Truncate(from) ==
  /\ editing = Absent /\ eraser.stage = "rest" /\ from \in kept /\ newest + 1 \in Seqs
  /\ editing' = from
  /\ eraser' = [NoEraser EXCEPT !.stage = "anchor", !.from = from]
  /\ UNCHANGED <<kept, newest, indexed, writing, indexing, indexings, overlapped, halved>>

\* In a session of its own: the anchor is there until the edit commits.
FindAnchor ==
  /\ eraser.stage = "anchor"
  /\ eraser' = IF eraser.from \in kept THEN [eraser EXCEPT !.stage = "find"] ELSE NoEraser
  /\ UNCHANGED <<kept, newest, indexed, writing, indexing, indexings, editing, overlapped, halved>>

\* Variant: the edited message itself is left out.
FindChunksAfter ==
  /\ eraser.stage = "find"
  /\ eraser' = [eraser EXCEPT !.stage = "erase",
                              !.found = {p \in kept \X Indices : p[1] > eraser.from /\ p[2] \in Chunk(p[1])}]
  /\ UNCHANGED <<kept, newest, indexed, writing, indexing, indexings, editing, overlapped, halved>>

\* The chunks of the steps from the anchor on, as committed when the DELETE starts.
FindChunks ==
  /\ eraser.stage = "find"
  /\ eraser' = [eraser EXCEPT !.stage = "erase",
                              !.found = {p \in kept \X Indices : p[1] >= eraser.from /\ p[2] \in Chunk(p[1])}]
  /\ UNCHANGED <<kept, newest, indexed, writing, indexing, indexings, editing, overlapped, halved>>

\* Those go once no indexing holds them, in what version it has left them, and the task
\* commits.  A chunk written since the DELETE started, or cut and written again, stays.
EraseChunks ==
  /\ eraser.stage = "erase" /\ \A p \in eraser.found : ~Locked(p[1], p[2])
  /\ indexed' = [s \in Seqs |-> [i \in Indices |->
                   IF <<s, i>> \in eraser.found THEN Absent ELSE indexed[s][i]]]
  /\ eraser' = NoEraser
  /\ UNCHANGED <<kept, newest, writing, indexing, indexings, editing, overlapped, halved>>

GiveUpErasing ==
  /\ eraser.stage # "rest" /\ eraser' = NoEraser
  /\ overlapped' = overlapped \cup {s \in Seqs : s >= eraser.from}
  /\ UNCHANGED <<kept, newest, indexed, writing, indexing, indexings, editing, halved>>

\* The edit commits with the new message, which is indexed like any other step.
CommitEdit ==
  LET gone == {s \in kept : s >= editing} IN
  /\ editing # Absent
  /\ kept' = (kept \ gone) \cup {newest + 1} /\ newest' = newest + 1
  /\ overlapped' = overlapped \cup
       {s \in gone : eraser.stage # "rest" \/ \E n \in Indexers : indexing[n].step = s}
  /\ editing' = Absent
  /\ UNCHANGED <<indexed, writing, indexing, indexings, eraser, halved>>

RollbackEdit ==
  /\ editing # Absent /\ editing' = Absent
  /\ UNCHANGED <<kept, newest, indexed, writing, indexing, indexings, eraser, overlapped, halved>>

\* DELETE of the chat: its chunks go with it (foreign key), and an open upsert is waited for.
DeleteChat ==
  /\ kept # {} /\ editing = Absent /\ \A n \in Indexers : writing[n] = Absent
  /\ kept' = {} /\ indexed' = [s \in Seqs |-> NoChunks]
  /\ indexing' = [n \in Indexers |-> Resting]
  /\ UNCHANGED <<newest, writing, indexings, editing, eraser, overlapped, halved>>

MemoryNext ==
  \/ \E n \in Indexers :
       \/ \E s \in Seqs, size \in Sizes : ReadStep(n, s, size)
       \/ UpsertChunks(n) \/ TrimTail(n) \/ CommitChunks(n) \/ GiveUpIndexing(n)
  \/ \E s \in Seqs : Truncate(s)
  \/ FindAnchor \/ FindChunks \/ EraseChunks \/ GiveUpErasing
  \/ CommitEdit \/ RollbackEdit \/ DeleteChat

MemorySpec == MemoryInit /\ [][MemoryNext]_memoryVars

-----------------------------------------------------------------------------
(* Properties.                                                             *)

MemoryTypeOK ==
  /\ kept \subseteq 1..newest /\ newest \in Seqs
  /\ indexed \in [Seqs -> [Indices -> 1..MaxIndexings \cup {Absent}]]
  /\ writing \in [Indexers -> Seqs \cup {Absent}]
  /\ editing \in Seqs \cup {Absent} /\ overlapped \cup halved \subseteq Seqs /\ indexings \in 0..MaxIndexings

\* Indexings of one step may overlap, by workers with different settings: what is stored is
\* one of them, from its first chunk to its last.  (Where an indexing commits while the DELETE
\* of the deletion task waits for it, the chunks that are new by then stay without the others.)
IndexIsWhole ==
  \A s \in Seqs \ halved : \A i, j \in Indices :
    /\ i < j /\ j \in Chunk(s) => i \in Chunk(s)
    /\ {i, j} \subseteq Chunk(s) => indexed[s][i] = indexed[s][j]

\* What an edit has deleted is not remembered.  (It is where an indexing or the deletion
\* task itself overlaps the edit: the task then finds no anchor, or too early a set of chunks.)
EditedOutIsForgotten == \A s \in Seqs \ (kept \cup overlapped) : Chunk(s) = {}

\* Memory holds whole steps, and only of the chat as it was last edited.
MemoryIsKept == IndexIsWhole /\ EditedOutIsForgotten

=============================================================================
