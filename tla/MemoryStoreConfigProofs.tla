----------------------- MODULE MemoryStoreConfigProofs ------------------------
(***************************************************************************)
(* Proofs about three components whose background loops race with requests:*)
(* ChatMemory, AssetStore and InstanceConfig.  They share a module and no  *)
(* state; no proof cites a fact of another component.                      *)
(***************************************************************************)
EXTENDS ChatMemory, AssetStore, InstanceConfig, TLAPS

-----------------------------------------------------------------------------
(***************************************************************************)
(* Proofs about ChatMemory: what is stored of a step is one indexing of it *)
(* and what an edit has deleted is not remembered, for any number of tasks *)
(* and steps and any settings of the workers.                              *)
(***************************************************************************)

(* The strengthening.                                                      *)

Work == [step : Seqs \cup {Absent}, run : Nat, size : Sizes \cup {0},
         stage : {"rest", "upsert", "trim", "commit"}, cut : SUBSET Indices]
Erasing == [stage : {"rest", "anchor", "find", "erase"}, from : Seqs \cup {Absent},
            found : SUBSET (Seqs \X Indices)]

MemoryTyped ==
  /\ kept \subseteq 1..newest /\ kept \subseteq Seqs /\ newest \in Seqs
  /\ indexed \in [Seqs -> [Indices -> 1..MaxIndexings \cup {Absent}]]
  /\ writing \in [Indexers -> Seqs \cup {Absent}]
  /\ indexing \in [Indexers -> Work] /\ indexings \in 0..MaxIndexings
  /\ editing \in Seqs \cup {Absent} /\ eraser \in Erasing
  /\ overlapped \subseteq Seqs /\ halved \subseteq Seqs

\* An indexer that has begun to write holds its step alone, and knows the tail it will cut.
Holds(n) == indexing[n].stage \in {"trim", "commit"}
Locks ==
  \A n \in Indexers :
    /\ indexing[n].stage = "rest" <=> indexing[n].step = Absent
    /\ indexing[n].stage # "rest" => indexing[n].run \in 1..MaxIndexings
    /\ writing[n] = IF Holds(n) THEN indexing[n].step ELSE Absent
    /\ \A m \in Indexers \ {n} : Holds(n) /\ Holds(m) => indexing[m].step # indexing[n].step
    /\ indexing[n].stage = "commit" =>
         indexing[n].cut = {i \in Chunk(indexing[n].step) : i >= indexing[n].size}

\* Nothing is kept, or under way, of a step that is neither in the chat nor was overlapped.
Forgotten ==
  \A s \in Seqs \ (kept \cup overlapped) :
    Chunk(s) = {} /\ \A n \in Indexers : indexing[n].step # s

\* While an edit is open, its task has found all there is of the steps it will delete, or has
\* erased it.
EditErases ==
  editing # Absent =>
    /\ editing \in kept /\ newest + 1 \in Seqs
    /\ eraser.stage # "rest" => eraser.from = editing
    /\ \A s \in kept \ overlapped : s >= editing =>
         /\ eraser.stage = "erase" => \A i \in Chunk(s) : <<s, i>> \in eraser.found
         /\ eraser.stage = "rest" => Chunk(s) = {}

\* The task has found all the chunks of a step or none, unless they were written since.
FoundWhole ==
  eraser.stage = "erase" =>
    \A s \in Seqs \ halved :
      (\A i \in Chunk(s) : <<s, i>> \in eraser.found) \/ (\A i \in Indices : <<s, i>> \notin eraser.found)

MemoryIInv == MemoryTyped /\ Locks /\ IndexIsWhole /\ Forgotten /\ EditErases /\ FoundWhole

LEMMA MemoryInitially == MemoryInit => MemoryIInv
<1> SUFFICES ASSUME MemoryInit PROVE MemoryIInv
  OBVIOUS
<1>1. NoChunks \in [Indices -> 1..MaxIndexings \cup {Absent}] /\ \A s \in Seqs : Chunk(s) = {}
  BY DEF MemoryInit, NoChunks, Chunk
<1>2. MemoryTyped
  <2>1. Resting \in Work /\ NoEraser \in Erasing
    BY DEF Resting, NoEraser, Work, Erasing
  <2>2. kept \subseteq 1..newest /\ kept \subseteq Seqs /\ newest \in Seqs
    BY MemoryAssumption DEF MemoryInit
  <2>3. indexings \in 0..MaxIndexings
    BY MemoryAssumption DEF MemoryInit
  <2> QED
    BY <1>1, <2>1, <2>2, <2>3 DEF MemoryInit, MemoryTyped
<1>3. Locks /\ IndexIsWhole /\ Forgotten /\ EditErases /\ FoundWhole
  BY <1>1, MemoryAssumption DEF MemoryInit, Resting, NoEraser, Locks, Holds, IndexIsWhole, Forgotten,
     EditErases, FoundWhole
<1> QED
  BY <1>2, <1>3 DEF MemoryIInv

-----------------------------------------------------------------------------
(* Indexing.                                                               *)

LEMMA ReadPreserves ==
  ASSUME MemoryIInv, NEW n \in Indexers, NEW s \in Seqs, NEW size \in Sizes, ReadStep(n, s, size)
  PROVE  MemoryIInv'
<1>1. [step |-> s, run |-> indexings + 1, size |-> size, stage |-> "upsert", cut |-> {}] \in Work
  BY DEF MemoryIInv, MemoryTyped, Work
<1>2. indexings + 1 \in 1..MaxIndexings
  BY MemoryAssumption DEF ReadStep, MemoryIInv, MemoryTyped
<1>3. MemoryTyped'
  BY <1>1, <1>2 DEF ReadStep, MemoryIInv, MemoryTyped
<1>4. Locks'
  BY <1>2, MemoryAssumption DEF ReadStep, MemoryIInv, MemoryTyped, Locks, Holds, Chunk
<1>5. IndexIsWhole' /\ Forgotten' /\ EditErases' /\ FoundWhole'
  BY DEF ReadStep, MemoryIInv, MemoryTyped, IndexIsWhole, Forgotten, EditErases, FoundWhole, Chunk
<1> QED
  BY <1>3, <1>4, <1>5 DEF MemoryIInv

LEMMA UpsertPreserves ==
  ASSUME MemoryIInv, NEW n \in Indexers, UpsertChunks(n)
  PROVE  MemoryIInv'
<1>1. indexing[n] \in Work /\ [indexing[n] EXCEPT !.stage = "trim"] \in Work
      /\ indexing[n].step \in Seqs
  <2>1. indexing[n] \in Work /\ indexing[n].step # Absent
    BY DEF MemoryIInv, MemoryTyped, Locks, UpsertChunks
  <2> QED
    BY <2>1 DEF Work
<1>2. MemoryTyped'
  BY <1>1 DEF UpsertChunks, MemoryIInv, MemoryTyped
<1>3. \A m \in Indexers \ {n} : Holds(m) => indexing[m].step # indexing[n].step
  BY DEF UpsertChunks, Unlocked, MemoryIInv, Locks
<1>4. Locks'
  BY <1>1, <1>3, MemoryAssumption DEF UpsertChunks, MemoryIInv, MemoryTyped, Work, Locks, Holds, Chunk
<1>5. IndexIsWhole' /\ EditErases' /\ FoundWhole'
  BY DEF UpsertChunks, MemoryIInv, IndexIsWhole, EditErases, FoundWhole, Chunk
<1>6. Forgotten'
  BY <1>1 DEF UpsertChunks, MemoryIInv, MemoryTyped, Work, Forgotten, Chunk
<1> QED
  BY <1>2, <1>4, <1>5, <1>6 DEF MemoryIInv

LEMMA TrimPreserves ==
  ASSUME MemoryIInv, NEW n \in Indexers, TrimTail(n)
  PROVE  MemoryIInv'
<1> DEFINE cut == {i \in Chunk(indexing[n].step) : i >= indexing[n].size}
<1>1. indexing[n] \in Work /\ cut \in SUBSET Indices
  BY DEF MemoryIInv, MemoryTyped, Chunk
<1> HIDE DEF cut
<1>2. [indexing[n] EXCEPT !.stage = "commit", !.cut = cut] \in Work
  BY <1>1 DEF Work
<1>3. indexing' = [indexing EXCEPT ![n] = [indexing[n] EXCEPT !.stage = "commit", !.cut = cut]]
  BY DEF TrimTail, MemoryIInv, MemoryTyped, cut
<1>4. MemoryTyped'
  BY <1>2, <1>3 DEF TrimTail, MemoryIInv, MemoryTyped
<1>5. /\ indexing'[n].step = indexing[n].step /\ indexing'[n].size = indexing[n].size
      /\ indexing'[n].run = indexing[n].run
      /\ indexing'[n].stage = "commit" /\ indexing'[n].cut = cut
      /\ \A m \in Indexers \ {n} : indexing'[m] = indexing[m]
  BY <1>1, <1>3 DEF MemoryIInv, MemoryTyped, Work
<1>6. \A m \in Indexers :
        /\ Holds(m)' <=> Holds(m)
        /\ indexing'[m].step = indexing[m].step /\ indexing'[m].size = indexing[m].size
        /\ indexing'[m].run = indexing[m].run
        /\ indexing'[m].stage = "rest" <=> indexing[m].stage = "rest"
  BY <1>5 DEF TrimTail, Holds
<1>7. Locks'
  <2> SUFFICES ASSUME NEW m \in Indexers
               PROVE  /\ writing[m] = IF Holds(m)' THEN indexing'[m].step ELSE Absent
                      /\ indexing'[m].stage = "rest" <=> indexing'[m].step = Absent
                      /\ indexing'[m].stage # "rest" => indexing'[m].run \in 1..MaxIndexings
                      /\ \A o \in Indexers \ {m} :
                           Holds(m)' /\ Holds(o)' => indexing'[o].step # indexing'[m].step
                      /\ indexing'[m].stage = "commit" =>
                           indexing'[m].cut = {i \in Chunk(indexing'[m].step) : i >= indexing'[m].size}
    BY DEF TrimTail, Locks, Chunk
  <2>1. indexing'[m].stage = "commit" =>
          indexing'[m].cut = {i \in Chunk(indexing'[m].step) : i >= indexing'[m].size}
    BY <1>5, <1>6 DEF MemoryIInv, Locks, cut
  <2> QED
    BY <1>6, <2>1 DEF MemoryIInv, Locks
<1>8. IndexIsWhole' /\ EditErases' /\ FoundWhole' /\ Forgotten'
  <2>1. UNCHANGED <<kept, newest, indexed, editing, eraser, overlapped, halved>>
    BY DEF TrimTail
  <2>2. IndexIsWhole' /\ EditErases' /\ FoundWhole'
    BY <2>1 DEF MemoryIInv, IndexIsWhole, EditErases, FoundWhole, Chunk
  <2>3. Forgotten'
    BY <1>6, <2>1 DEF MemoryIInv, Forgotten, Chunk
  <2> QED
    BY <2>2, <2>3
<1> QED
  BY <1>4, <1>7, <1>8 DEF MemoryIInv

\* What the commit makes of a step is one indexing, and of no other step anything.
LEMMA CommitChunksPreserves ==
  ASSUME MemoryIInv, NEW n \in Indexers, CommitChunks(n)
  PROVE  MemoryIInv'
<1> DEFINE t == indexing[n]
<1>1. t \in Work /\ t.step \in Seqs /\ t.run \in 1..MaxIndexings /\ t.size \in Nat
  <2>1. t \in Work
    BY DEF MemoryIInv, MemoryTyped
  <2>2. t.step # Absent /\ t.run \in 1..MaxIndexings
    BY DEF MemoryIInv, Locks, CommitChunks
  <2>3. t.step \in Seqs \cup {Absent} /\ t.size \in Sizes \cup {0}
    BY <2>1 DEF Work
  <2>4. t.size \in Nat
    <3>1. Sizes \cup {0} \subseteq Nat
      BY MemoryAssumption
    <3> QED
      BY <2>3, <3>1
  <2> QED
    BY <2>1, <2>2, <2>3, <2>4
<1> DEFINE new == [i \in Indices |-> IF i < t.size THEN t.run
                                    ELSE IF i \in t.cut THEN Absent ELSE indexed[t.step][i]]
<1>2. /\ indexed' = [indexed EXCEPT ![t.step] = indexed'[t.step]]
      /\ \A i \in Indices : indexed'[t.step][i] = IF i < t.size THEN t.run ELSE Absent
      /\ indexed'[t.step] \in [Indices -> 1..MaxIndexings \cup {Absent}]
  <2>1. indexed' = [indexed EXCEPT ![t.step] = new] /\ indexed'[t.step] = new
    BY <1>1 DEF CommitChunks, MemoryIInv, MemoryTyped
  <2>2. \A i \in Indices : indexed[t.step][i] \in 1..MaxIndexings \cup {Absent}
    BY <1>1 DEF MemoryIInv, MemoryTyped
  <2>3. \A i \in Indices : i \notin t.cut /\ i >= t.size => indexed[t.step][i] = Absent
    BY DEF CommitChunks, MemoryIInv, Locks, Chunk
  <2>4. \A i \in Indices : i >= t.size <=> ~(i < t.size)
    BY <1>1 DEF Indices
  <2>5. \A i \in Indices : new[i] = IF i < t.size THEN t.run ELSE Absent
    BY <2>3, <2>4
  <2>6. new \in [Indices -> 1..MaxIndexings \cup {Absent}]
    BY <1>1, <2>5
  <2> HIDE DEF new
  <2> QED
    BY <2>1, <2>5, <2>6
<1>8. /\ eraser' \in Erasing /\ eraser'.stage = eraser.stage /\ eraser'.from = eraser.from
      /\ eraser'.found = eraser.found \ ({t.step} \X t.cut)
  BY DEF CommitChunks, MemoryIInv, MemoryTyped, Erasing
<1>3. MemoryTyped'
  <2>1. Resting \in Work
    BY DEF Resting, Work
  <2> QED
    BY <1>1, <1>2, <1>8, <2>1 DEF CommitChunks, Rest, MemoryIInv, MemoryTyped
<1>4. \A s \in Seqs : s # t.step => Chunk(s)' = Chunk(s)
  BY <1>2 DEF MemoryIInv, MemoryTyped, Chunk
<1>5. Locks'
  <2>1. Holds(n)
    BY DEF CommitChunks, Holds
  <2>2. \A m \in Indexers \ {n} : indexing'[m] = indexing[m] /\ writing'[m] = writing[m]
    BY DEF CommitChunks, Rest, MemoryIInv, MemoryTyped
  <2>3. indexing'[n] = Resting /\ writing'[n] = Absent
    BY DEF CommitChunks, Rest, MemoryIInv, MemoryTyped
  <2>4. \A m \in Indexers \ {n} : Holds(m) => indexing[m].step \in Seqs \ {t.step}
    BY <2>1 DEF MemoryIInv, MemoryTyped, Work, Locks, Holds
  <2> QED
    BY <1>4, <2>2, <2>3, <2>4 DEF MemoryIInv, Locks, Holds, Resting
<1>6. IndexIsWhole'
  <2> SUFFICES ASSUME NEW s \in Seqs \ halved', NEW i \in Indices, NEW j \in Indices
               PROVE  /\ i < j /\ j \in Chunk(s)' => i \in Chunk(s)'
                      /\ {i, j} \subseteq Chunk(s)' => indexed'[s][i] = indexed'[s][j]
    BY DEF IndexIsWhole
  <2>1. CASE s # t.step
    <3>1. s \notin halved
      BY <2>1 DEF CommitChunks
    <3>2. Chunk(s)' = Chunk(s) /\ indexed'[s] = indexed[s]
      BY <1>2, <1>4, <2>1 DEF MemoryIInv, MemoryTyped
    <3> QED
      BY <3>1, <3>2 DEF MemoryIInv, IndexIsWhole
  <2>2. CASE s = t.step
    BY <1>1, <1>2, <2>2, MemoryAssumption DEF Chunk, Indices
  <2> QED
    BY <2>1, <2>2
<1>9. FoundWhole'
  <2> SUFFICES ASSUME NEW s \in Seqs, s \notin halved', eraser'.stage = "erase"
               PROVE  \/ \A i \in Chunk(s)' : <<s, i>> \in eraser'.found
                      \/ \A i \in Indices : <<s, i>> \notin eraser'.found
    BY DEF FoundWhole
  <2>1. CASE s = t.step
    BY <1>8, <2>1 DEF CommitChunks
  <2>2. CASE s # t.step
    <3>1. s \notin halved /\ Chunk(s)' = Chunk(s) /\ eraser.stage = "erase"
      BY <1>4, <1>8, <2>2 DEF CommitChunks
    <3>2. \A i : <<s, i>> \in eraser'.found <=> <<s, i>> \in eraser.found
      BY <1>8, <2>2
    <3>3. \/ \A i \in Chunk(s) : <<s, i>> \in eraser.found
          \/ \A i \in Indices : <<s, i>> \notin eraser.found
      BY <3>1 DEF MemoryIInv, FoundWhole
    <3> QED
      BY <3>1, <3>2, <3>3
  <2> QED
    BY <2>1, <2>2
<1>7. Forgotten' /\ EditErases'
  <2>1. t.step \in kept \cup overlapped
    BY <1>1 DEF MemoryIInv, Forgotten
  <2>2. \A m \in Indexers : indexing'[m].step \in {indexing[m].step, Absent}
    BY DEF CommitChunks, Rest, Resting, MemoryIInv, MemoryTyped
  <2>3. Forgotten'
    BY <1>4, <2>1, <2>2, MemoryAssumption DEF CommitChunks, Rest, MemoryIInv, Forgotten
  <2>4. \A s \in Seqs \ {t.step} : \A i : <<s, i>> \in eraser'.found <=> <<s, i>> \in eraser.found
    BY <1>8
  <2>5. EditErases'
    BY <1>4, <1>8, <2>4 DEF CommitChunks, Rest, MemoryIInv, MemoryTyped, EditErases
  <2> QED
    BY <2>3, <2>5
<1> QED
  BY <1>3, <1>5, <1>6, <1>7, <1>9 DEF MemoryIInv

LEMMA GiveUpIndexingPreserves ==
  ASSUME MemoryIInv, NEW n \in Indexers, GiveUpIndexing(n)
  PROVE  MemoryIInv'
<1>1. Resting \in Work
  BY DEF Resting, Work
<1>2. MemoryTyped'
  BY <1>1 DEF GiveUpIndexing, Rest, MemoryIInv, MemoryTyped
<1>3. Locks'
  BY DEF GiveUpIndexing, Rest, Resting, MemoryIInv, MemoryTyped, Locks, Holds, Chunk
<1>4. IndexIsWhole' /\ EditErases' /\ FoundWhole'
  BY DEF GiveUpIndexing, Rest, MemoryIInv, IndexIsWhole, EditErases, FoundWhole, Chunk
<1>5. Forgotten'
  BY MemoryAssumption DEF GiveUpIndexing, Rest, Resting, MemoryIInv, MemoryTyped, Forgotten, Chunk
<1> QED
  BY <1>2, <1>3, <1>4, <1>5 DEF MemoryIInv

-----------------------------------------------------------------------------
(* An edit and its task.                                                   *)

\* Steps that leave the chunks and the indexers alone.
LEMMA TasksAside ==
  ASSUME MemoryIInv, UNCHANGED <<indexed, writing, indexing, indexings, halved>>
  PROVE  Locks' /\ IndexIsWhole'
  BY DEF MemoryIInv, Locks, Holds, IndexIsWhole, Chunk

LEMMA TruncatePreserves ==
  ASSUME MemoryIInv, NEW s \in Seqs, Truncate(s)
  PROVE  MemoryIInv'
<1>1. [NoEraser EXCEPT !.stage = "anchor", !.from = s] \in Erasing
  BY DEF NoEraser, Erasing
<1>2. MemoryTyped'
  BY <1>1 DEF Truncate, MemoryIInv, MemoryTyped
<1>3. Forgotten' /\ EditErases' /\ FoundWhole'
  BY DEF Truncate, NoEraser, MemoryIInv, Forgotten, EditErases, FoundWhole, Chunk
<1> QED
  BY <1>2, <1>3, TasksAside DEF Truncate, MemoryIInv

LEMMA FindAnchorPreserves ==
  ASSUME MemoryIInv, FindAnchor
  PROVE  MemoryIInv'
<1>1. NoEraser \in Erasing /\ [eraser EXCEPT !.stage = "find"] \in Erasing
  BY DEF NoEraser, Erasing, MemoryIInv, MemoryTyped
<1>2. MemoryTyped'
  BY <1>1 DEF FindAnchor, MemoryIInv, MemoryTyped
<1>3. eraser'.stage \in {"rest", "find"} /\ eraser.stage # "rest" /\ eraser'.from \in {eraser.from, Absent}
  BY DEF FindAnchor, NoEraser, MemoryIInv, MemoryTyped, Erasing
<1>4. Forgotten' /\ FoundWhole'
  BY <1>3 DEF FindAnchor, MemoryIInv, Forgotten, FoundWhole, Chunk
<1>5. EditErases'
  <2>1. editing # Absent => eraser'.stage = "find" /\ eraser'.from = eraser.from
    BY DEF FindAnchor, MemoryIInv, MemoryTyped, Erasing, EditErases
  <2> QED
    BY <1>3, <2>1 DEF FindAnchor, MemoryIInv, EditErases, Chunk
<1> QED
  BY <1>2, <1>4, <1>5, TasksAside DEF FindAnchor, MemoryIInv

LEMMA FindChunksPreserves ==
  ASSUME MemoryIInv, FindChunks
  PROVE  MemoryIInv'
<1> DEFINE found == {p \in kept \X Indices : p[1] >= eraser.from /\ p[2] \in Chunk(p[1])}
<1>1. found \in SUBSET (Seqs \X Indices)
  BY DEF MemoryIInv, MemoryTyped
<1>2. eraser' = [eraser EXCEPT !.stage = "erase", !.found = found]
  BY DEF FindChunks
<1> HIDE DEF found
<1>3. [eraser EXCEPT !.stage = "erase", !.found = found] \in Erasing
  BY <1>1 DEF Erasing, MemoryIInv, MemoryTyped
<1>4. MemoryTyped'
  BY <1>2, <1>3 DEF FindChunks, MemoryIInv, MemoryTyped
<1>5. eraser'.stage = "erase" /\ eraser'.from = eraser.from /\ eraser'.found = found
  BY <1>2 DEF MemoryIInv, MemoryTyped, Erasing
<1>6. \A s, i : <<s, i>> \in found <=> s \in kept /\ i \in Indices /\ s >= eraser.from /\ i \in Chunk(s)
  BY DEF found
<1>7. Forgotten' /\ EditErases' /\ FoundWhole'
  BY <1>5, <1>6 DEF FindChunks, MemoryIInv, Forgotten, EditErases, FoundWhole, Chunk
<1> QED
  BY <1>4, <1>7, TasksAside DEF FindChunks, MemoryIInv

\* What a task holds is not erased under it, and of a step that is not halved all is, or nothing.
LEMMA ErasePreserves ==
  ASSUME MemoryIInv, EraseChunks
  PROVE  MemoryIInv'
<1>1. NoEraser \in Erasing /\ NoEraser.stage = "rest"
  BY DEF NoEraser, Erasing
<1>2. \A s \in Seqs, i \in Indices :
        indexed'[s][i] = IF <<s, i>> \in eraser.found THEN Absent ELSE indexed[s][i]
  BY DEF EraseChunks
<1>3. MemoryTyped'
  <2>1. indexed' \in [Seqs -> [Indices -> 1..MaxIndexings \cup {Absent}]]
    BY DEF EraseChunks, MemoryIInv, MemoryTyped
  <2> QED
    BY <1>1, <2>1 DEF EraseChunks, MemoryIInv, MemoryTyped
<1>4. \A s \in Seqs : Chunk(s)' = {i \in Chunk(s) : <<s, i>> \notin eraser.found}
  BY <1>2 DEF Chunk
<1>5. Locks'
  <2>1. ASSUME NEW n \in Indexers, indexing[n].stage = "commit"
        PROVE  {i \in Chunk(indexing[n].step)' : i >= indexing[n].size} = indexing[n].cut
    <3> DEFINE s == indexing[n].step
               cut == indexing[n].cut
    <3>1. s \in Seqs /\ writing[n] = s
      BY <2>1 DEF MemoryIInv, MemoryTyped, Work, Locks, Holds
    <3>2. cut = {i \in Chunk(s) : i >= indexing[n].size}
      BY <2>1 DEF MemoryIInv, Locks
    <3>3. ASSUME NEW i \in cut
          PROVE  <<s, i>> \notin eraser.found
      <4>1. Locked(s, i)
        BY <3>1, <3>3 DEF Locked
      <4> QED
        BY <4>1 DEF EraseChunks
    <3>4. Chunk(s)' = {i \in Chunk(s) : <<s, i>> \notin eraser.found}
      BY <1>4, <3>1 DEF EraseChunks
    <3> QED
      BY <3>2, <3>3, <3>4
  <2>2. UNCHANGED <<writing, indexing, indexings>>
    BY DEF EraseChunks
  <2> QED
    BY <2>1, <2>2 DEF MemoryIInv, Locks, Holds
<1>6. IndexIsWhole'
  <2> SUFFICES ASSUME NEW s \in Seqs \ halved', NEW i \in Indices, NEW j \in Indices
               PROVE  /\ i < j /\ j \in Chunk(s)' => i \in Chunk(s)'
                      /\ {i, j} \subseteq Chunk(s)' => indexed'[s][i] = indexed'[s][j]
    BY DEF IndexIsWhole
  <2>3. s \in Seqs \ halved
    BY DEF EraseChunks
  <2>1. CASE \A k \in Chunk(s) : <<s, k>> \in eraser.found
    BY <1>4, <2>1
  <2>2. CASE \A k \in Indices : <<s, k>> \notin eraser.found
    <3>1. Chunk(s)' = Chunk(s) /\ \A k \in Indices : indexed'[s][k] = indexed[s][k]
      BY <1>2, <1>4, <2>2 DEF Chunk
    <3> QED
      BY <2>3, <3>1 DEF MemoryIInv, IndexIsWhole
  <2> QED
    BY <2>1, <2>2, <2>3 DEF EraseChunks, MemoryIInv, FoundWhole
<1>7. eraser'.stage = "rest" /\ UNCHANGED <<kept, newest, indexing, editing, overlapped>> /\ eraser.stage = "erase"
  BY <1>1 DEF EraseChunks
<1>8. \A s \in Seqs : Chunk(s) = {} => Chunk(s)' = {}
  BY <1>4
<1>9. Forgotten' /\ FoundWhole'
  BY <1>7, <1>8 DEF MemoryIInv, Forgotten, FoundWhole
<1>10. EditErases'
  <2>1. kept \subseteq Seqs
    BY DEF MemoryIInv, MemoryTyped
  <2>2. editing # Absent => \A s \in kept \ overlapped : s >= editing => Chunk(s)' = {}
    BY <1>4, <1>7, <2>1 DEF MemoryIInv, EditErases
  <2> QED
    BY <1>7, <2>2 DEF MemoryIInv, EditErases
<1> QED
  BY <1>3, <1>5, <1>6, <1>9, <1>10 DEF MemoryIInv

LEMMA GiveUpErasingPreserves ==
  ASSUME MemoryIInv, GiveUpErasing
  PROVE  MemoryIInv'
<1>1. MemoryTyped'
  BY DEF GiveUpErasing, NoEraser, Erasing, MemoryIInv, MemoryTyped
<1>2. Forgotten' /\ FoundWhole'
  BY DEF GiveUpErasing, NoEraser, MemoryIInv, Forgotten, FoundWhole, Chunk
<1>3. EditErases'
  <2>1. editing # Absent => \A s \in kept : s >= editing => s \in overlapped'
    BY DEF GiveUpErasing, MemoryIInv, MemoryTyped, EditErases
  <2> QED
    BY <2>1 DEF GiveUpErasing, NoEraser, MemoryIInv, EditErases
<1> QED
  BY <1>1, <1>2, <1>3, TasksAside DEF GiveUpErasing, MemoryIInv

LEMMA CommitEditPreserves ==
  ASSUME MemoryIInv, CommitEdit
  PROVE  MemoryIInv'
<1>1. editing \in Nat /\ newest \in Nat /\ newest + 1 \in Seqs
  BY MemoryAssumption DEF CommitEdit, MemoryIInv, MemoryTyped, EditErases
<1>2. MemoryTyped'
  <2>1. kept' \subseteq 1..(newest + 1) /\ kept' \subseteq Seqs
    <3>1. kept' \subseteq kept \cup {newest + 1} /\ newest + 1 \in Nat \ {0}
      BY <1>1 DEF CommitEdit
    <3>2. kept \subseteq 1..newest /\ kept \subseteq Seqs
      BY DEF MemoryIInv, MemoryTyped
    <3> QED
      BY <1>1, <3>1, <3>2
  <2> QED
    BY <1>1, <2>1 DEF CommitEdit, MemoryIInv, MemoryTyped
<1>3. Forgotten'
  <2> SUFFICES ASSUME NEW s \in Seqs \ (kept \cup overlapped)'
               PROVE  Chunk(s) = {} /\ \A n \in Indexers : indexing[n].step # s
    BY DEF CommitEdit, Forgotten, Chunk
  <2>1. CASE s \notin kept
    BY <2>1 DEF CommitEdit, MemoryIInv, Forgotten
  <2>2. CASE s \in kept
    BY <2>2 DEF CommitEdit, MemoryIInv, EditErases
  <2> QED
    BY <2>1, <2>2
<1>4. EditErases' /\ FoundWhole'
  BY DEF CommitEdit, MemoryIInv, EditErases, FoundWhole, Chunk
<1> QED
  BY <1>2, <1>3, <1>4, TasksAside DEF CommitEdit, MemoryIInv

LEMMA RollbackEditPreserves ==
  ASSUME MemoryIInv, RollbackEdit
  PROVE  MemoryIInv'
<1>1. MemoryTyped' /\ Forgotten' /\ EditErases' /\ FoundWhole'
  BY DEF RollbackEdit, MemoryIInv, MemoryTyped, Forgotten, EditErases, FoundWhole, Chunk
<1> QED
  BY <1>1, TasksAside DEF RollbackEdit, MemoryIInv

LEMMA DeleteChatPreserves ==
  ASSUME MemoryIInv, DeleteChat
  PROVE  MemoryIInv'
<1>1. NoChunks \in [Indices -> 1..MaxIndexings \cup {Absent}] /\ Resting \in Work
  BY DEF NoChunks, Resting, Work
<1>2. MemoryTyped'
  BY <1>1 DEF DeleteChat, MemoryIInv, MemoryTyped
<1>3. \A s \in Seqs : Chunk(s)' = {}
  BY DEF DeleteChat, NoChunks, Chunk
<1>4. Locks'
  BY DEF DeleteChat, Resting, MemoryIInv, Locks, Holds
<1>5. IndexIsWhole' /\ Forgotten' /\ EditErases' /\ FoundWhole'
  BY <1>3, MemoryAssumption DEF DeleteChat, Resting, IndexIsWhole, Forgotten, EditErases, FoundWhole
<1> QED
  BY <1>2, <1>4, <1>5 DEF MemoryIInv

-----------------------------------------------------------------------------
(* The theorems.                                                           *)

LEMMA MemoryStutters ==
  ASSUME MemoryIInv, UNCHANGED memoryVars
  PROVE  MemoryIInv'
  BY DEF memoryVars, MemoryIInv, MemoryTyped, Locks, Holds, IndexIsWhole, Forgotten, EditErases,
     FoundWhole, Chunk

LEMMA MemoryInvariant == MemorySpec => []MemoryIInv
<1>1. ASSUME MemoryIInv, [MemoryNext]_memoryVars
      PROVE  MemoryIInv'
  BY <1>1, ReadPreserves, UpsertPreserves, TrimPreserves, CommitChunksPreserves,
     GiveUpIndexingPreserves, TruncatePreserves, FindAnchorPreserves, FindChunksPreserves,
     ErasePreserves, GiveUpErasingPreserves, CommitEditPreserves, RollbackEditPreserves,
     DeleteChatPreserves, MemoryStutters
     DEF MemoryNext
<1> QED
  BY <1>1, MemoryInitially, PTL DEF MemorySpec

\* Every variable stays in its range, whatever the number of indexers and steps (ChunkIndexer
\* and the deletion of an edit).
THEOREM MemoryIsTyped == MemorySpec => []MemoryTypeOK
<1>1. MemoryIInv => MemoryTypeOK
  BY DEF MemoryIInv, MemoryTyped, MemoryTypeOK
<1> QED
  BY <1>1, MemoryInvariant, PTL

\* The chunks of a step are those of one indexing, without a gap and without the tail of a
\* longer one, however indexings overlap (index_step: upsert, then the tail), unless the last of
\* them committed while the DELETE of an edit's task waited for it (delete_chunks_from_seq).
THEOREM IndexStaysWhole == MemorySpec => []IndexIsWhole
<1>1. MemoryIInv => IndexIsWhole
  BY DEF MemoryIInv
<1> QED
  BY <1>1, MemoryInvariant, PTL

\* No chunk is left of a step that an edit deleted, unless an indexing or the deletion task
\* overlapped the edit (schedule_delete_from_message_step).
THEOREM EditsAreForgotten == MemorySpec => []EditedOutIsForgotten
<1>1. MemoryIInv => EditedOutIsForgotten
  BY DEF MemoryIInv, Forgotten, EditedOutIsForgotten
<1> QED
  BY <1>1, MemoryInvariant, PTL

\* The two together, as the run checks them.
THEOREM MemoryStaysKept == MemorySpec => []MemoryIsKept
  BY IndexStaysWhole, EditsAreForgotten, PTL DEF MemoryIsKept

-----------------------------------------------------------------------------
(***************************************************************************)
(* Proofs about AssetStore: a result that is said to be stored has all its *)
(* files and one that is marked expired has none, for any number of        *)
(* workers, results, assets and attempts.                                  *)
(***************************************************************************)

(* The strengthening.                                                      *)

Busy == {"remove", "expire", "fetch", "write", "store"}
Stages == Busy \cup {"idle", "select", "next", "cleanup", "uproot", "close", "scan", "query",
                     "orphans", "done"}
Statuses == Expirable \cup {"expired", "deleted"}

WorkerState == [stage : Stages, batch : SUBSET Results, read : [Results -> 0..MaxTries],
                job : Results \cup {Nobody}, part : Parts, tmp : BOOLEAN, found : SUBSET Results,
                cut : BOOLEAN]
Download == [stage : {"none", "probe", "correct"}, job : Results \cup {Nobody}, part : Parts,
             status : {"stored", "missing"}]

StoreTyped ==
  /\ copy \in [Results -> Statuses] /\ tries \in [Results -> 0..MaxTries]
  /\ termOver \subseteq Results /\ damaged \subseteq Results /\ doubled \subseteq Results
  /\ disk \in [Results -> SUBSET Parts]
  /\ right \in Workers \cup {Nobody}
  /\ worker \in [Workers -> WorkerState]
  /\ reader \in Download

\* Nothing but a download touches the files of such a result, and only to add to them.
Good(j) == j \notin termOver \cup damaged /\ copy[j] # "deleted"

\* What a worker's stage says of what it has in hand.
Position(w) ==
  LET t == worker[w] IN
  /\ t.stage \in Busy <=> t.job \in Results
  /\ t.stage \notin Busy \cup {"next"} => t.batch = {}
  /\ t.job \notin t.batch
  /\ \A j \in Results : j \in t.batch \/ j = t.job => t.read[j] < MaxTries
  /\ t.stage \in {"remove", "expire"} => t.job \in termOver
  /\ t.stage \in {"uproot", "close"} => t.found \subseteq termOver
  /\ t.stage = "orphans" => \A j \in t.found : copy[j] = "deleted"

\* The assets before the one being downloaded are there.
Copying(w) ==
  LET t == worker[w] IN
  /\ t.stage \in {"fetch", "write"} /\ Good(t.job) => 1..(t.part - 1) \subseteq disk[t.job]
  /\ t.stage = "store" /\ Good(t.job) => disk[t.job] = Parts

\* As long as nobody else is at it: what is being downloaded is not expired, and what is about
\* to be marked expired is gone.
Tidy(w) ==
  \A j \in Results \ doubled :
    /\ j \in worker[w].batch \/ j = worker[w].job => copy[j] # "expired"
    /\ worker[w].stage = "expire" /\ j = worker[w].job => disk[j] = {}
    /\ worker[w].stage = "close" /\ j \in worker[w].found => disk[j] = {}

\* A download sees what the row says, and has nothing to correct.
ReadsRight ==
  /\ reader.stage # "none" => reader.job \in Results
  /\ reader.stage # "none" /\ Good(reader.job) =>
       reader.stage = "probe" /\ reader.status = "stored" /\ disk[reader.job] = Parts

Rows ==
  \A j \in Results :
    /\ copy[j] = "pending" => tries[j] < MaxTries
    /\ Good(j) => copy[j] # "missing"
    /\ Good(j) /\ copy[j] = "stored" => disk[j] = Parts
    /\ j \notin doubled /\ copy[j] = "expired" => disk[j] = {}

Own(w) == Position(w) /\ Copying(w) /\ Tidy(w)

StoreIInv == StoreTyped /\ ReadsRight /\ Rows /\ \A w \in Workers : Own(w)

USE StoreAssumption

LEMMA InitialStates == Idle \in WorkerState /\ NoDownload \in Download
<1>1. 1 \in Parts /\ 0 \in 0..MaxTries
  BY DEF Parts
<1>2. [j \in Results |-> 0] \in [Results -> 0..MaxTries]
  BY <1>1
<1> QED
  BY <1>1, <1>2 DEF Idle, WorkerState, Stages, NoDownload, Download

LEMMA StoreInitially == StoreInit => StoreIInv
<1> SUFFICES ASSUME StoreInit PROVE StoreIInv
  OBVIOUS
<1>1. StoreTyped
  BY InitialStates DEF StoreInit, StoreTyped, Statuses, Expirable
<1>2. ReadsRight /\ Rows
  BY DEF StoreInit, NoDownload, ReadsRight, Rows
<1>3. ASSUME NEW w \in Workers
      PROVE  Own(w)
  BY DEF StoreInit, Idle, Busy, Own, Position, Copying, Tidy
<1> QED
  BY <1>1, <1>2, <1>3 DEF StoreIInv

-----------------------------------------------------------------------------
(* A step of one worker, and what it leaves to the others.                 *)

Crowded(w) == \E v \in Workers \ {w} : worker[v].stage # "idle"

\* Where another worker is at it, what w writes or expires is counted as doubled.
StepOf(w) ==
  /\ UNCHANGED <<termOver, reader, damaged>>
  /\ doubled \subseteq doubled'
  /\ \A v \in Workers \ {w} : worker'[v] \in {worker[v], [worker[v] EXCEPT !.tmp = FALSE]}
  /\ \A j \in Results :
       /\ copy'[j] = "deleted" <=> copy[j] = "deleted"
       /\ Good(j) => disk[j] \subseteq disk'[j]
       /\ Crowded(w) /\ j \notin doubled' =>
            /\ disk[j] = {} => disk'[j] = {}
            /\ copy'[j] = "expired" => copy[j] = "expired"

LEMMA StepPreserves ==
  ASSUME StoreIInv, NEW w \in Workers, StepOf(w), StoreTyped', Rows', Own(w)'
  PROVE  StoreIInv'
<1>1. \A j \in Results : Good(j)' <=> Good(j)
  BY DEF StepOf, Good
<1>2. ReadsRight'
  <2>1. reader.stage # "none" => disk'[reader.job] \subseteq Parts
    BY DEF StoreIInv, ReadsRight, StoreTyped
  <2> QED
    BY <1>1, <2>1 DEF StepOf, StoreIInv, ReadsRight
<1>3. ASSUME NEW v \in Workers \ {w}
      PROVE  Own(v)'
  <2>1. /\ worker'[v].stage = worker[v].stage /\ worker'[v].batch = worker[v].batch
        /\ worker'[v].read = worker[v].read /\ worker'[v].job = worker[v].job
        /\ worker'[v].part = worker[v].part /\ worker'[v].found = worker[v].found
    <3>1. worker[v] \in WorkerState /\ worker'[v] \in {worker[v], [worker[v] EXCEPT !.tmp = FALSE]}
      BY DEF StepOf, StoreIInv, StoreTyped
    <3>2. CASE worker'[v] = worker[v]
      BY <3>2
    <3>3. CASE worker'[v] = [worker[v] EXCEPT !.tmp = FALSE]
      BY <3>1, <3>3 DEF WorkerState
    <3> QED
      BY <3>1, <3>2, <3>3
  <2>2. Own(v) /\ worker[v] \in WorkerState
    BY DEF StoreIInv, StoreTyped
  <2>3. Position(v)'
    BY <2>1, <2>2 DEF StepOf, Own, Position, WorkerState
  <2>4. Copying(v)'
    <3>1. worker[v].job \in Results => disk'[worker[v].job] \subseteq Parts
      BY DEF StoreTyped
    <3> QED
      BY <1>1, <2>1, <2>2, <3>1 DEF StepOf, Own, Position, Copying, Busy
  <2>5. Tidy(v)'
    <3>1. worker[v].stage # "idle" => Crowded(w)
      BY DEF Crowded
    <3>2. worker[v].stage = "idle" => worker[v].batch = {} /\ worker[v].job \notin Results
      BY <2>2 DEF Own, Position, Busy
    <3> QED
      BY <2>1, <2>2, <3>1, <3>2 DEF StepOf, Own, Tidy
  <2> QED
    BY <2>3, <2>4, <2>5 DEF Own
<1> QED
  BY <1>2, <1>3 DEF StoreIInv

-----------------------------------------------------------------------------
(* Steps that change nothing but what the worker has in hand.              *)

Aside(w) ==
  /\ UNCHANGED <<copy, tries, termOver, disk, reader, damaged, doubled>>
  /\ worker' = [worker EXCEPT ![w] = worker'[w]] /\ worker'[w] \in WorkerState
  /\ right' \in Workers \cup {Nobody}

LEMMA AsidePreserves ==
  ASSUME StoreIInv, NEW w \in Workers, Aside(w), Own(w)'
  PROVE  StoreIInv'
<1>1. StoreTyped' /\ Rows'
  BY DEF Aside, StoreIInv, StoreTyped, Rows, Good
<1>2. StepOf(w)
  BY DEF Aside, StepOf, StoreIInv, StoreTyped
<1> QED
  BY <1>1, <1>2, StepPreserves

\* Whoever is idle, selects or cleans up has no job in hand.
LEMMA EndTickPreserves ==
  ASSUME StoreIInv, NEW w \in Workers, EndTick(w)
  PROVE  StoreIInv'
<1>1. Aside(w) /\ worker'[w] = Idle
  BY InitialStates DEF EndTick, Works, Aside, StoreIInv, StoreTyped
<1>2. Own(w)'
  BY <1>1 DEF Idle, Own, Position, Copying, Tidy, Busy
<1> QED
  BY <1>1, <1>2, AsidePreserves

LEMMA TakeRightPreserves ==
  ASSUME StoreIInv, NEW w \in Workers, TakeRight(w)
  PROVE  StoreIInv'
<1>1. [Idle EXCEPT !.stage = "select"] \in WorkerState
  BY InitialStates DEF WorkerState, Stages
<1>2. Aside(w) /\ worker'[w] = [Idle EXCEPT !.stage = "select"]
  BY <1>1 DEF TakeRight, Works, Aside, StoreIInv, StoreTyped
<1>3. Own(w)'
  BY <1>2 DEF Idle, Own, Position, Copying, Tidy, Busy
<1> QED
  BY <1>2, <1>3, AsidePreserves

LEMMA SelectBatchPreserves ==
  ASSUME StoreIInv, NEW w \in Workers, SelectBatch(w)
  PROVE  StoreIInv'
<1>1. PICK due \in SUBSET {j \in Results : copy[j] = "pending"} :
        worker' = [worker EXCEPT ![w] = [worker[w] EXCEPT !.stage = "next", !.batch = due, !.read = tries]]
  BY DEF SelectBatch, Works
<1>2. worker[w] \in WorkerState /\ tries \in [Results -> 0..MaxTries] /\ due \in SUBSET Results
  BY DEF StoreIInv, StoreTyped
<1>3. [worker[w] EXCEPT !.stage = "next", !.batch = due, !.read = tries] \in WorkerState
  BY <1>2 DEF WorkerState, Stages
<1>4. Aside(w)
  BY <1>1, <1>3 DEF SelectBatch, Aside, StoreIInv, StoreTyped
<1>5. /\ worker'[w].stage = "next" /\ worker'[w].batch = due /\ worker'[w].read = tries
      /\ worker'[w].job \notin Results
  BY <1>1, <1>2 DEF SelectBatch, Connected, Stands, StoreIInv, StoreTyped, Own, Position, Busy, WorkerState
<1>6. Position(w)'
  BY <1>2, <1>5 DEF Position, Busy, StoreIInv, Rows
<1>7. Copying(w)' /\ Tidy(w)'
  BY <1>2, <1>5, <1>4 DEF Copying, Tidy, Aside
<1> QED
  BY <1>4, <1>6, <1>7, AsidePreserves DEF Own

LEMMA NextJobPreserves ==
  ASSUME StoreIInv, NEW w \in Workers, NextJob(w)
  PROVE  StoreIInv'
<1> DEFINE t == worker[w]
<1>1. t \in WorkerState /\ t.stage = "next" /\ Own(w) /\ t.batch \in SUBSET Results
  BY DEF NextJob, Stands, StoreIInv, StoreTyped, WorkerState
<1>2. ASSUME NEW j \in t.batch,
             worker' = [worker EXCEPT ![w] =
               [t EXCEPT !.batch = @ \ {j}, !.job = j, !.part = 1, !.tmp = FALSE,
                         !.stage = IF j \in termOver THEN "remove" ELSE "fetch"]]
      PROVE  StoreIInv'
  <2>1. 1 \in Parts
    BY DEF Parts
  <2>2. \A stage \in {"remove", "fetch"} :
          [t EXCEPT !.batch = @ \ {j}, !.job = j, !.part = 1, !.tmp = FALSE, !.stage = stage] \in WorkerState
    BY <1>1, <2>1 DEF WorkerState, Stages, Busy
  <2>3. Aside(w)
    BY <1>2, <2>2 DEF NextJob, Aside, StoreIInv, StoreTyped
  <2>4. /\ worker'[w].stage = IF j \in termOver THEN "remove" ELSE "fetch"
        /\ worker'[w].batch = t.batch \ {j} /\ worker'[w].job = j /\ worker'[w].part = 1
        /\ worker'[w].read = t.read
    BY <1>1, <1>2 DEF WorkerState, StoreIInv, StoreTyped
  <2>5. Position(w)'
    BY <1>1, <2>3, <2>4 DEF Position, Own, Busy, Aside
  <2>6. Copying(w)' /\ Tidy(w)'
    BY <1>1, <2>3, <2>4 DEF Own, Copying, Tidy, Aside
  <2> QED
    BY <2>3, <2>5, <2>6, AsidePreserves DEF Own
<1>3. ASSUME worker' = [worker EXCEPT ![w] = [Idle EXCEPT !.stage = "cleanup", !.cut = t.cut]]
      PROVE  StoreIInv'
  <2>1. t.cut \in BOOLEAN
    BY <1>1 DEF WorkerState
  <2>2. [Idle EXCEPT !.stage = "cleanup", !.cut = t.cut] \in WorkerState
    BY <2>1, InitialStates DEF WorkerState, Stages
  <2>3. Aside(w) /\ worker'[w] = [Idle EXCEPT !.stage = "cleanup", !.cut = t.cut]
    BY <1>3, <2>2 DEF NextJob, Aside, StoreIInv, StoreTyped
  <2>4. Own(w)'
    BY <2>3 DEF Idle, Own, Position, Copying, Tidy, Busy
  <2> QED
    BY <2>3, <2>4, AsidePreserves
<1> QED
  BY <1>2, <1>3 DEF NextJob, Works

LEMMA StartAssetPreserves ==
  ASSUME StoreIInv, NEW w \in Workers, StartAsset(w)
  PROVE  StoreIInv'
<1> DEFINE t == worker[w]
<1>1. t \in WorkerState /\ t.stage = "fetch" /\ Own(w)
  BY DEF StartAsset, Stands, StoreIInv, StoreTyped
<1>2. [t EXCEPT !.stage = "write", !.tmp = TRUE] \in WorkerState
  BY <1>1 DEF WorkerState, Stages, Busy
<1>3. Aside(w) /\ worker'[w] = [t EXCEPT !.stage = "write", !.tmp = TRUE]
  BY <1>2 DEF StartAsset, Works, Aside, StoreIInv, StoreTyped
<1>4. /\ worker'[w].stage = "write" /\ worker'[w].batch = t.batch /\ worker'[w].job = t.job
      /\ worker'[w].part = t.part /\ worker'[w].read = t.read
  BY <1>1, <1>3 DEF WorkerState
<1>5. Own(w)'
  BY <1>1, <1>3, <1>4 DEF Own, Position, Copying, Tidy, Busy, Aside, Good
<1> QED
  BY <1>3, <1>5, AsidePreserves

\* From a job to the next: no job in hand, the batch as it is.
LEMMA NextInLineState ==
  ASSUME StoreIInv, NEW w \in Workers, NEW cut \in BOOLEAN
  PROVE  /\ NextInLine(w) \in WorkerState /\ [NextInLine(w) EXCEPT !.cut = cut] \in WorkerState
         /\ \A t \in {NextInLine(w), [NextInLine(w) EXCEPT !.cut = cut]} :
              /\ t.stage = "next" /\ t.job = Nobody /\ t.batch = worker[w].batch
              /\ t.read = worker[w].read
<1>1. worker[w] \in WorkerState /\ 1 \in Parts
  BY DEF StoreIInv, StoreTyped, Parts
<1>2. NextInLine(w) \in WorkerState
  BY <1>1 DEF NextInLine, WorkerState, Stages
<1>3. /\ NextInLine(w).stage = "next" /\ NextInLine(w).job = Nobody
      /\ NextInLine(w).batch = worker[w].batch /\ NextInLine(w).read = worker[w].read
  BY <1>1 DEF NextInLine, WorkerState
<1> QED
  BY <1>2, <1>3 DEF WorkerState

LEMMA DeferPreserves ==
  ASSUME StoreIInv, NEW w \in Workers, DeferLowDisk(w)
  PROVE  StoreIInv'
<1>1. Aside(w) /\ worker'[w] = NextInLine(w)
  BY NextInLineState DEF DeferLowDisk, Works, Aside, StoreIInv, StoreTyped
<1>2. Own(w)'
  <2>1. /\ worker'[w].stage = "next" /\ worker'[w].job = Nobody
        /\ worker'[w].batch = worker[w].batch /\ worker'[w].read = worker[w].read
    BY <1>1, NextInLineState
  <2>2. Own(w) /\ worker[w].batch \subseteq Results
    BY DEF StoreIInv, StoreTyped, WorkerState
  <2> QED
    BY <1>1, <2>1, <2>2 DEF Own, Position, Copying, Tidy, Busy, Aside
<1> QED
  BY <1>1, <1>2, AsidePreserves

LEMMA SelectExpiredPreserves ==
  ASSUME StoreIInv, NEW w \in Workers, SelectExpired(w)
  PROVE  StoreIInv'
<1> DEFINE found == {j \in termOver : copy[j] \in Expirable}
<1>1. worker[w] \in WorkerState /\ found \in SUBSET Results /\ found \subseteq termOver
  BY DEF StoreIInv, StoreTyped
<1>2. worker' = [worker EXCEPT ![w] = [worker[w] EXCEPT !.stage = "uproot", !.found = found]]
  BY DEF SelectExpired, Works
<1> HIDE DEF found
<1>3. [worker[w] EXCEPT !.stage = "uproot", !.found = found] \in WorkerState
  BY <1>1 DEF WorkerState, Stages
<1>4. Aside(w)
  BY <1>2, <1>3 DEF SelectExpired, Aside, StoreIInv, StoreTyped
<1>5. /\ worker'[w].stage = "uproot" /\ worker'[w].batch = {} /\ worker'[w].job \notin Results
      /\ worker'[w].found = found
  BY <1>1, <1>2 DEF SelectExpired, Connected, Stands, StoreIInv, StoreTyped, Own, Position, Busy, WorkerState
<1>6. Own(w)'
  BY <1>1, <1>4, <1>5 DEF Own, Position, Copying, Tidy, Busy, Aside
<1> QED
  BY <1>4, <1>6, AsidePreserves

LEMMA ScanPreserves ==
  ASSUME StoreIInv, NEW w \in Workers, ScanTree(w)
  PROVE  StoreIInv'
<1>1. PICK old \in SUBSET Results :
        worker' = [worker EXCEPT ![w] = [worker[w] EXCEPT !.stage = "query", !.found = old]]
  BY DEF ScanTree, Works
<1>2. worker[w] \in WorkerState
  BY DEF StoreIInv, StoreTyped
<1>3. [worker[w] EXCEPT !.stage = "query", !.found = old] \in WorkerState
  BY <1>2 DEF WorkerState, Stages
<1>4. Aside(w)
  BY <1>1, <1>3 DEF ScanTree, Aside, StoreIInv, StoreTyped
<1>5. /\ worker'[w].stage = "query" /\ worker'[w].batch = {} /\ worker'[w].job \notin Results
  BY <1>1, <1>2 DEF ScanTree, Stands, StoreIInv, StoreTyped, Own, Position, Busy, WorkerState
<1>6. Own(w)'
  BY <1>4, <1>5 DEF Own, Position, Copying, Tidy, Busy, Aside
<1> QED
  BY <1>4, <1>6, AsidePreserves

LEMMA FindOrphansPreserves ==
  ASSUME StoreIInv, NEW w \in Workers, FindOrphans(w)
  PROVE  StoreIInv'
<1> DEFINE found == {j \in worker[w].found : copy[j] = "deleted"}
<1>1. worker[w] \in WorkerState /\ found \in SUBSET Results /\ \A j \in found : copy[j] = "deleted"
  BY DEF StoreIInv, StoreTyped, WorkerState
<1>2. worker' = [worker EXCEPT ![w] = [worker[w] EXCEPT !.stage = "orphans", !.found = found]]
  BY <1>1 DEF FindOrphans, Works, WorkerState
<1> HIDE DEF found
<1>3. [worker[w] EXCEPT !.stage = "orphans", !.found = found] \in WorkerState
  BY <1>1 DEF WorkerState, Stages
<1>4. Aside(w)
  BY <1>2, <1>3 DEF FindOrphans, Aside, StoreIInv, StoreTyped
<1>5. /\ worker'[w].stage = "orphans" /\ worker'[w].batch = {} /\ worker'[w].job \notin Results
      /\ worker'[w].found = found
  BY <1>1, <1>2 DEF FindOrphans, Connected, Stands, StoreIInv, StoreTyped, Own, Position, Busy, WorkerState
<1>6. Own(w)'
  BY <1>1, <1>4, <1>5 DEF Own, Position, Copying, Tidy, Busy, Aside
<1> QED
  BY <1>4, <1>6, AsidePreserves

LEMMA LoseConnectionPreserves ==
  ASSUME StoreIInv, NEW w \in Workers, LoseConnection(w)
  PROVE  StoreIInv'
<1>1. worker[w] \in WorkerState /\ Own(w)
  BY DEF StoreIInv, StoreTyped
<1>2. [worker[w] EXCEPT !.cut = TRUE] \in WorkerState
  BY <1>1 DEF WorkerState
<1>3. Aside(w) /\ worker'[w] = [worker[w] EXCEPT !.cut = TRUE]
  BY <1>2 DEF LoseConnection, Works, Aside, StoreIInv, StoreTyped
<1>4. /\ worker'[w].stage = worker[w].stage /\ worker'[w].batch = worker[w].batch
      /\ worker'[w].job = worker[w].job /\ worker'[w].part = worker[w].part
      /\ worker'[w].read = worker[w].read /\ worker'[w].found = worker[w].found
  BY <1>1, <1>3 DEF WorkerState
<1>5. Position(w)'
  BY <1>1, <1>3, <1>4 DEF Own, Position, Aside
<1>6. Copying(w)' /\ Tidy(w)'
  BY <1>1, <1>3, <1>4 DEF Own, Copying, Tidy, Aside, Good
<1> QED
  BY <1>3, <1>5, <1>6, AsidePreserves DEF Own

-----------------------------------------------------------------------------
(* Steps that settle the job in hand.                                      *)

\* w sets the row of its job, if it is still pending, and goes on to the next.
Settles(w, status, count) ==
  LET j == worker[w].job IN
  /\ worker[w].stage \in Busy
  /\ SetPending(j, status, count)
  /\ worker' = [worker EXCEPT ![w] = worker'[w]]
  /\ worker'[w] \in {NextInLine(w), [NextInLine(w) EXCEPT !.cut = FALSE]}
  /\ UNCHANGED <<termOver, disk, right, reader, damaged>>
  /\ doubled \subseteq doubled' /\ doubled' \subseteq Results
  /\ status \in {"pending", "stored", "failed", "expired"} /\ count \in 0..MaxTries
  /\ status = "pending" => count < MaxTries
  /\ status = "stored" /\ Good(j) => disk[j] = Parts
  /\ status = "expired" /\ j \notin doubled' => disk[j] = {} /\ ~Crowded(w)

LEMMA SettlesPreserves ==
  ASSUME StoreIInv, NEW w \in Workers, NEW status, NEW count, Settles(w, status, count)
  PROVE  StoreIInv'
<1> DEFINE j == worker[w].job
<1>1. j \in Results /\ Own(w) /\ worker[w].batch \subseteq Results
  BY DEF Settles, StoreIInv, StoreTyped, Own, Position, WorkerState
<1>2. /\ \A k \in Results \ {j} : copy'[k] = copy[k] /\ tries'[k] = tries[k]
      /\ copy[j] # "pending" => copy'[j] = copy[j] /\ tries'[j] = tries[j]
      /\ copy[j] = "pending" => copy'[j] = status /\ tries'[j] = count
      /\ copy' \in [Results -> Statuses] /\ tries' \in [Results -> 0..MaxTries]
  BY <1>1 DEF Settles, SetPending, StoreIInv, StoreTyped, Statuses, Expirable
<1>3. /\ worker'[w] \in WorkerState /\ worker'[w].stage = "next" /\ worker'[w].job = Nobody
      /\ worker'[w].batch = worker[w].batch /\ worker'[w].read = worker[w].read
  BY NextInLineState DEF Settles
<1>4. StoreTyped'
  <2>1. worker' \in [Workers -> WorkerState]
    BY <1>3 DEF Settles, StoreIInv, StoreTyped
  <2> QED
    BY <1>2, <2>1 DEF Settles, StoreIInv, StoreTyped
<1>5. \A k \in Results : Good(k)' <=> Good(k)
  BY <1>1, <1>2 DEF Settles, Good
<1>6. Rows'
  BY <1>1, <1>2, <1>5 DEF Settles, StoreIInv, Rows
<1>7. StepOf(w)
  BY <1>1, <1>2, <1>5 DEF Settles, StepOf, StoreIInv, StoreTyped
<1>8. Position(w)'
  BY <1>1, <1>3 DEF Own, Position, Busy
<1>9. Copying(w)' /\ Tidy(w)'
  BY <1>1, <1>2, <1>3 DEF Settles, Own, Position, Copying, Tidy
<1> QED
  BY <1>4, <1>6, <1>7, <1>8, <1>9, StepPreserves DEF Own

\* Alone means that nobody else is at it.
LEMMA DoubledElse ==
  ASSUME StoreIInv, NEW w \in Workers, NEW js \in SUBSET Results, Doubled(w, js)
  PROVE  /\ doubled \subseteq doubled' /\ doubled' \subseteq Results
         /\ Crowded(w) => js \subseteq doubled'
         /\ doubled' \subseteq doubled \cup js
  BY DEF StoreIInv, StoreTyped, Doubled, Alone, Crowded, Stands

LEMMA MarkExpiredPreserves ==
  ASSUME StoreIInv, NEW w \in Workers, MarkExpired(w)
  PROVE  StoreIInv'
<1> DEFINE j == worker[w].job
<1>1. j \in Results /\ Own(w) /\ worker[w].stage = "expire"
  BY DEF MarkExpired, Connected, Stands, StoreIInv, Own, Position, Busy
<1>2. Doubled(w, {j})
  BY DEF MarkExpired
<1>3. /\ doubled \subseteq doubled' /\ doubled' \subseteq Results
      /\ j \notin doubled' => disk[j] = {} /\ ~Crowded(w)
  BY <1>1, <1>2, DoubledElse DEF Own, Tidy
<1>4. worker' = [worker EXCEPT ![w] = worker'[w]] /\ worker'[w] = NextInLine(w)
  BY DEF MarkExpired, Works, StoreIInv, StoreTyped
<1>5. tries[j] \in 0..MaxTries
  BY <1>1 DEF StoreIInv, StoreTyped
<1>6. Settles(w, "expired", tries[j])
  BY <1>1, <1>3, <1>4, <1>5 DEF MarkExpired, Settles, Busy
<1> QED
  BY <1>6, SettlesPreserves

LEMMA MarkStoredPreserves ==
  ASSUME StoreIInv, NEW w \in Workers, MarkStored(w)
  PROVE  StoreIInv'
<1> DEFINE j == worker[w].job
<1>1. j \in Results /\ Own(w) /\ worker[w].stage = "store"
  BY DEF MarkStored, Connected, Stands, StoreIInv, Own, Position, Busy
<1>2. worker' = [worker EXCEPT ![w] = worker'[w]] /\ worker'[w] = NextInLine(w)
  BY DEF MarkStored, Works, StoreIInv, StoreTyped
<1>3. tries[j] \in 0..MaxTries /\ doubled \subseteq Results
  BY <1>1 DEF StoreIInv, StoreTyped
<1>4. Settles(w, "stored", tries[j])
  BY <1>1, <1>2, <1>3 DEF MarkStored, Settles, Busy, Own, Copying
<1> QED
  BY <1>4, SettlesPreserves

LEMMA FinishFailedPreserves ==
  ASSUME StoreIInv, NEW w \in Workers, FinishFailed(w)
  PROVE  StoreIInv'
<1> DEFINE j == worker[w].job
<1>1. j \in Results /\ worker[w].stage \in {"fetch", "write"}
  BY DEF FinishFailed, StoreIInv, Own, Position, Busy
<1>2. worker' = [worker EXCEPT ![w] = worker'[w]] /\ worker'[w] = NextInLine(w)
  BY DEF FinishFailed, Works, StoreIInv, StoreTyped
<1>3. tries[j] \in 0..MaxTries /\ doubled \subseteq Results
  BY <1>1 DEF StoreIInv, StoreTyped
<1>4. Settles(w, "failed", tries[j])
  BY <1>1, <1>2, <1>3 DEF FinishFailed, Settles, Busy
<1> QED
  BY <1>4, SettlesPreserves

LEMMA RetryPreserves ==
  ASSUME StoreIInv, NEW w \in Workers, RetryOrExhaust(w)
  PROVE  StoreIInv'
<1>1. worker[w].stage \in Busy /\ worker[w].job \in Results /\ worker[w].read \in [Results -> 0..MaxTries]
  BY DEF RetryOrExhaust, StoreIInv, StoreTyped, WorkerState, Own, Position, Busy
<1>2. worker' = [worker EXCEPT ![w] = worker'[w]] /\ worker'[w] = [NextInLine(w) EXCEPT !.cut = FALSE]
  BY DEF RetryOrExhaust, Works, StoreIInv, StoreTyped
<1>3. Counted(w) \in 0..MaxTries /\ doubled \subseteq Results
  <2>1. worker[w].read[worker[w].job] < MaxTries
    BY <1>1 DEF StoreIInv, Own, Position
  <2> QED
    BY <1>1, <2>1 DEF Counted, StoreIInv, StoreTyped
<1> DEFINE status == IF Counted(w) < MaxTries THEN "pending" ELSE "failed"
<1>4. SetPending(worker[w].job, status, Counted(w)) /\ status \in {"pending", "failed"}
  BY DEF RetryOrExhaust
<1>5. status = "pending" => Counted(w) < MaxTries
  OBVIOUS
<1> HIDE DEF status
<1>6. Settles(w, status, Counted(w))
  BY <1>1, <1>2, <1>3, <1>4, <1>5 DEF RetryOrExhaust, Settles
<1> QED
  BY <1>6, SettlesPreserves

-----------------------------------------------------------------------------
(* Steps that write files or remove them.                                  *)

LEMMA UprootedState ==
  ASSUME StoreIInv, NEW js
  PROVE  /\ Uprooted(js) \in [Workers -> WorkerState]
         /\ \A v \in Workers : Uprooted(js)[v] \in {worker[v], [worker[v] EXCEPT !.tmp = FALSE]}
<1>1. ASSUME NEW v \in Workers
      PROVE  worker[v] \in WorkerState /\ [worker[v] EXCEPT !.tmp = FALSE] \in WorkerState
  <2>1. worker[v] \in WorkerState
    BY DEF StoreIInv, StoreTyped
  <2> QED
    BY <2>1 DEF WorkerState
<1> QED
  BY <1>1 DEF Uprooted

\* w removes the directories of js, none of which is good any more.
RemovesFiles(w, js) ==
  /\ js \subseteq Results /\ \A j \in js : ~Good(j)
  /\ disk' = Removed(js)
  /\ worker' = [Uprooted(js) EXCEPT ![w] = worker'[w]] /\ worker'[w] \in WorkerState
  /\ UNCHANGED <<copy, tries, termOver, right, reader, damaged, doubled>>

LEMMA RemovesPreserves ==
  ASSUME StoreIInv, NEW w \in Workers, NEW js, RemovesFiles(w, js), Own(w)'
  PROVE  StoreIInv'
<1>1. disk' \in [Results -> SUBSET Parts] /\ \A j \in Results : disk'[j] = IF j \in js THEN {} ELSE disk[j]
  BY DEF RemovesFiles, Removed, StoreIInv, StoreTyped
<1>2. StoreTyped'
  BY <1>1, UprootedState DEF RemovesFiles, StoreIInv, StoreTyped
<1>3. Rows'
  BY <1>1 DEF RemovesFiles, StoreIInv, Rows, Good
<1>4. \A v \in Workers \ {w} : worker'[v] \in {worker[v], [worker[v] EXCEPT !.tmp = FALSE]}
  BY UprootedState DEF RemovesFiles
<1>5. StepOf(w)
  BY <1>1, <1>4 DEF RemovesFiles, StepOf
<1> QED
  BY <1>2, <1>3, <1>5, StepPreserves

LEMMA RemoveFilesPreserves ==
  ASSUME StoreIInv, NEW w \in Workers, RemoveFiles(w)
  PROVE  StoreIInv'
<1> DEFINE j == worker[w].job
<1>1. j \in Results /\ j \in termOver /\ Own(w) /\ worker[w] \in WorkerState
  BY DEF RemoveFiles, Stands, StoreIInv, StoreTyped, Own, Position, Busy
<1> DEFINE t == Uprooted({j})[w]
<1>2. t \in WorkerState /\ t \in {worker[w], [worker[w] EXCEPT !.tmp = FALSE]}
      /\ worker' = [Uprooted({j}) EXCEPT ![w] = [t EXCEPT !.stage = "expire"]]
  BY UprootedState DEF RemoveFiles
<1>3. /\ t.batch = worker[w].batch /\ t.job = j /\ t.read = worker[w].read
  BY <1>1, <1>2 DEF WorkerState
<1> HIDE DEF t
<1>4. [t EXCEPT !.stage = "expire"] \in WorkerState
  BY <1>2 DEF WorkerState, Stages, Busy
<1>5. worker'[w] = [t EXCEPT !.stage = "expire"]
  BY <1>2, UprootedState
<1>6. RemovesFiles(w, {j})
  BY <1>1, <1>2, <1>4, <1>5 DEF RemoveFiles, RemovesFiles, Good
<1>7. /\ worker'[w].batch = worker[w].batch /\ worker'[w].job = j /\ worker'[w].read = worker[w].read
      /\ worker'[w].stage = "expire"
  BY <1>2, <1>3, <1>5 DEF WorkerState
<1>8. Position(w)'
  BY <1>1, <1>6, <1>7 DEF Own, Position, Busy, RemovesFiles
<1>9. Copying(w)' /\ Tidy(w)'
  BY <1>1, <1>6, <1>7 DEF Own, Copying, Tidy, RemovesFiles, Removed
<1> QED
  BY <1>6, <1>8, <1>9, RemovesPreserves DEF Own

LEMMA RemoveExpiredPreserves ==
  ASSUME StoreIInv, NEW w \in Workers, RemoveExpired(w)
  PROVE  StoreIInv'
<1>1. worker[w].stage = "uproot" /\ Own(w) /\ worker[w] \in WorkerState
  BY DEF RemoveExpired, Stands, StoreIInv, StoreTyped
<1>2. PICK done \in SUBSET worker[w].found :
        /\ disk' = Removed(done)
        /\ worker' = [Uprooted(done) EXCEPT ![w].stage = "close", ![w].found = done]
  BY DEF RemoveExpired
<1>3. done \subseteq termOver /\ done \in SUBSET Results
  BY <1>1 DEF StoreIInv, StoreTyped, Own, Position, WorkerState
<1> DEFINE t == Uprooted(done)[w]
<1>4. t \in WorkerState /\ t \in {worker[w], [worker[w] EXCEPT !.tmp = FALSE]}
      /\ worker' = [Uprooted(done) EXCEPT ![w] = [t EXCEPT !.stage = "close", !.found = done]]
  BY <1>2, UprootedState
<1>5. t.batch = {} /\ t.job \notin Results
  BY <1>1, <1>4 DEF WorkerState, Own, Position, Busy
<1> HIDE DEF t
<1>6. [t EXCEPT !.stage = "close", !.found = done] \in WorkerState
  BY <1>3, <1>4 DEF WorkerState, Stages
<1>7. worker'[w] = [t EXCEPT !.stage = "close", !.found = done]
  BY <1>4, UprootedState
<1>8. RemovesFiles(w, done)
  BY <1>2, <1>3, <1>4, <1>6, <1>7 DEF RemoveExpired, RemovesFiles, Good
<1>9. /\ worker'[w].batch = {} /\ worker'[w].job \notin Results
      /\ worker'[w].stage = "close" /\ worker'[w].found = done
  <2>1. t \in WorkerState
    BY <1>4
  <2> QED
    BY <1>5, <1>7, <2>1 DEF WorkerState
<1>10. Own(w)'
  BY <1>3, <1>8, <1>9 DEF Own, Position, Copying, Tidy, Busy, RemovesFiles, Removed
<1> QED
  BY <1>8, <1>10, RemovesPreserves

LEMMA RemoveOrphansPreserves ==
  ASSUME StoreIInv, NEW w \in Workers, RemoveOrphans(w)
  PROVE  StoreIInv'
<1> DEFINE js == worker[w].found
<1>1. worker[w].stage = "orphans" /\ Own(w) /\ worker[w] \in WorkerState /\ js \in SUBSET Results
  BY DEF RemoveOrphans, Stands, StoreIInv, StoreTyped, WorkerState
<1>2. \A j \in js : copy[j] = "deleted"
  BY <1>1 DEF Own, Position
<1> DEFINE t == Uprooted(js)[w]
<1>3. t \in WorkerState /\ t \in {worker[w], [worker[w] EXCEPT !.tmp = FALSE]}
      /\ worker' = [Uprooted(js) EXCEPT ![w] = [t EXCEPT !.stage = "done", !.found = {}]]
  BY UprootedState DEF RemoveOrphans
<1>4. t.batch = {} /\ t.job \notin Results
  BY <1>1, <1>3 DEF WorkerState, Own, Position, Busy
<1> HIDE DEF t
<1>5. [t EXCEPT !.stage = "done", !.found = {}] \in WorkerState
  BY <1>3 DEF WorkerState, Stages
<1>6. worker'[w] = [t EXCEPT !.stage = "done", !.found = {}]
  BY <1>3, UprootedState
<1>7. RemovesFiles(w, js)
  BY <1>1, <1>2, <1>3, <1>5, <1>6 DEF RemoveOrphans, RemovesFiles, Good
<1>8. worker'[w].batch = {} /\ worker'[w].job \notin Results /\ worker'[w].stage = "done"
  <2>1. t \in WorkerState
    BY <1>3
  <2> QED
    BY <1>4, <1>6, <2>1 DEF WorkerState
<1>9. Own(w)'
  BY <1>7, <1>8 DEF Own, Position, Copying, Tidy, Busy, RemovesFiles
<1> QED
  BY <1>7, <1>9, RemovesPreserves

\* A file more; the last one makes the result whole.
LEMMA FinishAssetPreserves ==
  ASSUME StoreIInv, NEW w \in Workers, FinishAsset(w)
  PROVE  StoreIInv'
<1> DEFINE t == worker[w]  j == worker[w].job
<1>1. t \in WorkerState /\ t.stage = "write" /\ Own(w) /\ j \in Results /\ t.part \in Parts
  BY DEF FinishAsset, Stands, StoreIInv, StoreTyped, Own, Position, Busy, WorkerState
<1>2. /\ disk' = [disk EXCEPT ![j] = disk[j] \cup {t.part}]
      /\ UNCHANGED <<copy, tries, termOver, right, reader, damaged>>
      /\ disk' \in [Results -> SUBSET Parts]
  BY <1>1 DEF FinishAsset, StoreIInv, StoreTyped
<1>3. /\ doubled \subseteq doubled' /\ doubled' \subseteq Results
      /\ Crowded(w) => j \in doubled'
  BY <1>1, DoubledElse DEF FinishAsset
<1>4. /\ worker' = [worker EXCEPT ![w] = worker'[w]] /\ worker'[w] \in WorkerState
      /\ worker'[w].batch = t.batch /\ worker'[w].job = j /\ worker'[w].read = t.read
      /\ \/ worker'[w].stage = "store" /\ t.part = Assets
         \/ worker'[w].stage = "fetch" /\ worker'[w].part = t.part + 1
  <2>1. CASE t.part = Assets
    <3>1. worker' = [worker EXCEPT ![w] = [t EXCEPT !.tmp = FALSE, !.stage = "store"]]
      BY <2>1 DEF FinishAsset, Works
    <3>2. [t EXCEPT !.tmp = FALSE, !.stage = "store"] \in WorkerState
      BY <1>1 DEF WorkerState, Stages, Busy
    <3> QED
      BY <1>1, <2>1, <3>1, <3>2 DEF StoreIInv, StoreTyped, WorkerState
  <2>2. CASE t.part # Assets
    <3> DEFINE next == t.part + 1
    <3>1. worker' = [worker EXCEPT ![w] = [t EXCEPT !.tmp = FALSE, !.part = next, !.stage = "fetch"]]
      BY <1>1, <2>2 DEF FinishAsset, Works, WorkerState
    <3>2. next \in Parts
      BY <1>1, <2>2 DEF Parts
    <3> HIDE DEF next
    <3>3. [t EXCEPT !.tmp = FALSE, !.part = next, !.stage = "fetch"] \in WorkerState
      BY <1>1, <3>2 DEF WorkerState, Stages, Busy
    <3>4. worker'[w] = [t EXCEPT !.tmp = FALSE, !.part = next, !.stage = "fetch"]
      BY <3>1 DEF StoreIInv, StoreTyped
    <3>5. /\ worker'[w].part = next /\ worker'[w].stage = "fetch"
          /\ worker'[w].batch = t.batch /\ worker'[w].job = j /\ worker'[w].read = t.read
      BY <1>1, <3>4 DEF WorkerState
    <3>6. worker' = [worker EXCEPT ![w] = worker'[w]] /\ worker'[w] \in WorkerState
      BY <3>1, <3>3, <3>4
    <3> QED
      BY <3>5, <3>6 DEF next
  <2> QED
    BY <2>1, <2>2
<1>5. StoreTyped'
  BY <1>2, <1>3, <1>4 DEF StoreIInv, StoreTyped
<1>6. Rows'
  BY <1>1, <1>2, <1>3 DEF StoreIInv, StoreTyped, Rows, Good, Own, Tidy
<1>7. StepOf(w)
  BY <1>1, <1>2, <1>3, <1>4 DEF StepOf, StoreIInv, StoreTyped
<1>8. Position(w)'
  BY <1>1, <1>2, <1>4 DEF Own, Position, Busy
<1>9. Copying(w)'
  <2> SUFFICES ASSUME Good(j)
               PROVE  /\ worker'[w].stage = "fetch" => 1..(worker'[w].part - 1) \subseteq disk'[j]
                      /\ worker'[w].stage = "store" => disk'[j] = Parts
    BY <1>2, <1>4 DEF Copying, Good
  <2>1. 1..(t.part - 1) \subseteq disk[j] /\ disk'[j] = disk[j] \cup {t.part} /\ disk[j] \subseteq Parts
    BY <1>1, <1>2 DEF Own, Copying, StoreIInv, StoreTyped
  <2>2. 1..t.part \subseteq disk'[j]
    BY <1>1, <2>1 DEF Parts
  <2> QED
    BY <1>1, <1>4, <2>1, <2>2 DEF Parts
<1>10. Tidy(w)'
  BY <1>1, <1>2, <1>3, <1>4 DEF Own, Tidy
<1> QED
  BY <1>5, <1>6, <1>7, <1>8, <1>9, <1>10, StepPreserves DEF Own

LEMMA CloseExpiredPreserves ==
  ASSUME StoreIInv, NEW w \in Workers, CloseExpired(w)
  PROVE  StoreIInv'
<1> DEFINE t == worker[w]
<1>1. t \in WorkerState /\ t.stage = "close" /\ Own(w) /\ Closed(w) \subseteq t.found
      /\ Closed(w) \in SUBSET Results
  BY DEF CloseExpired, Connected, Stands, StoreIInv, StoreTyped, Closed, WorkerState
<1>2. /\ \A j \in Results : copy'[j] = IF j \in Closed(w) THEN "expired" ELSE copy[j]
      /\ \A j \in Closed(w) : copy[j] # "deleted"
      /\ copy' \in [Results -> Statuses]
      /\ UNCHANGED <<tries, termOver, disk, right, reader, damaged>>
  BY DEF CloseExpired, Closed, StoreIInv, StoreTyped, Statuses, Expirable
<1>3. /\ doubled \subseteq doubled' /\ doubled' \subseteq Results
      /\ Crowded(w) => Closed(w) \subseteq doubled'
  BY <1>1, DoubledElse DEF CloseExpired
<1>4. [t EXCEPT !.stage = "scan", !.found = {}] \in WorkerState
  BY <1>1 DEF WorkerState, Stages
<1>5. worker' = [worker EXCEPT ![w] = worker'[w]] /\ worker'[w] = [t EXCEPT !.stage = "scan", !.found = {}]
  BY DEF CloseExpired, Works, StoreIInv, StoreTyped
<1>6. worker'[w].stage = "scan" /\ worker'[w].batch = {} /\ worker'[w].job \notin Results
  BY <1>1, <1>5 DEF WorkerState, Own, Position, Busy
<1>7. StoreTyped'
  BY <1>2, <1>3, <1>4, <1>5 DEF StoreIInv, StoreTyped
<1>8. \A j \in Closed(w) \ doubled : disk[j] = {}
  BY <1>1 DEF Own, Tidy
<1>9. Rows'
  BY <1>2, <1>3, <1>8 DEF StoreIInv, Rows, Good
<1>10. StepOf(w)
  <2>1. \A v \in Workers \ {w} : worker'[v] = worker[v]
    BY <1>5 DEF StoreIInv, StoreTyped
  <2> QED
    BY <1>2, <1>3, <2>1 DEF StepOf
<1>11. Own(w)'
  BY <1>6 DEF Own, Position, Copying, Tidy, Busy
<1> QED
  BY <1>7, <1>9, <1>10, <1>11, StepPreserves

-----------------------------------------------------------------------------
(* The download route, the rest of the program, the world.                 *)

LEMMA ReaderPreserves ==
  ASSUME StoreIInv, (\E j \in Results, i \in Parts : ReadRow(j, i)) \/ Probe
  PROVE  StoreIInv'
<1>1. reader' \in Download /\ UNCHANGED <<copy, tries, termOver, disk, right, worker, damaged, doubled>>
  <2>1. NoDownload \in Download /\ [reader EXCEPT !.stage = "correct"] \in Download
    BY InitialStates DEF StoreIInv, StoreTyped, Download
  <2> QED
    BY <2>1 DEF ReadRow, Probe, Download
<1>2. StoreTyped' /\ Rows' /\ \A w \in Workers : Own(w)'
  BY <1>1 DEF StoreIInv, StoreTyped, Rows, Good, Own, Position, Copying, Tidy
<1>3. ReadsRight'
  <2>1. ASSUME NEW j \in Results, NEW i \in Parts, ReadRow(j, i)
        PROVE  ReadsRight'
    BY <1>1, <2>1 DEF ReadRow, StoreIInv, Rows, Good, ReadsRight
  <2>2. CASE Probe
    BY <1>1, <2>2 DEF Probe, NoDownload, StoreIInv, StoreTyped, Download, Good, ReadsRight
  <2> QED
    BY <2>1, <2>2
<1> QED
  BY <1>2, <1>3 DEF StoreIInv

\* A correction is of a result that has lost a file, or its term, or its row.
LEMMA TransitionPreserves ==
  ASSUME StoreIInv, Transition
  PROVE  StoreIInv'
<1> DEFINE j == reader.job
<1>1. /\ j \in Results /\ ~Good(j) /\ reader.status \in {"stored", "missing"}
      /\ UNCHANGED <<tries, termOver, disk, right, worker, damaged, doubled>>
  BY DEF Transition, StoreIInv, ReadsRight, StoreTyped, Download
<1>2. /\ copy' \in [Results -> Statuses]
      /\ \A k \in Results \ {j} : copy'[k] = copy[k]
      /\ copy'[j] = copy[j] \/ {copy[j], copy'[j]} \subseteq {"stored", "missing"}
  BY <1>1 DEF Transition, StoreIInv, StoreTyped, Statuses, Expirable
<1>3. StoreTyped'
  BY <1>1, <1>2, InitialStates DEF Transition, StoreIInv, StoreTyped
<1>4. \A k \in Results : Good(k)' <=> Good(k)
  BY <1>1, <1>2 DEF Good
<1>5. Rows'
  BY <1>1, <1>2, <1>4 DEF StoreIInv, Rows
<1>6. ReadsRight'
  BY DEF Transition, NoDownload, ReadsRight
<1>7. ASSUME NEW w \in Workers
      PROVE  Own(w)'
  <2>1. Own(w) /\ worker[w] \in WorkerState
    BY DEF StoreIInv, StoreTyped
  <2>2. Position(w)'
    BY <1>1, <1>2, <2>1 DEF Own, Position, WorkerState
  <2>3. Copying(w)' /\ Tidy(w)'
    BY <1>1, <1>2, <1>4, <2>1 DEF Own, Position, Copying, Tidy, Busy
  <2> QED
    BY <2>2, <2>3 DEF Own
<1> QED
  BY <1>3, <1>5, <1>6, <1>7 DEF StoreIInv

\* What the world does makes a result no longer good.
LEMMA WorldPreserves ==
  ASSUME StoreIInv, NEW j \in Results,
         DeleteResult(j) \/ EndTerm(j) \/ \E i \in Parts : LoseFile(j, i)
  PROVE  StoreIInv'
<1>1. /\ UNCHANGED <<tries, right, worker, reader, doubled>>
      /\ copy' \in [Results -> Statuses] /\ disk' \in [Results -> SUBSET Parts]
      /\ termOver \subseteq termOver' /\ damaged \subseteq damaged'
      /\ termOver' \subseteq Results /\ damaged' \subseteq Results
      /\ \A k \in Results : copy'[k] \in {copy[k], "deleted"} /\ disk'[k] \subseteq disk[k]
      /\ \A k \in Results : Good(k)' => Good(k) /\ disk'[k] = disk[k] /\ copy'[k] = copy[k]
  BY DEF DeleteResult, EndTerm, LoseFile, StoreIInv, StoreTyped, Statuses, Good
<1>2. StoreTyped' /\ Rows'
  BY <1>1 DEF StoreIInv, StoreTyped, Rows
<1>3. ReadsRight'
  BY <1>1 DEF StoreIInv, ReadsRight
<1>4. ASSUME NEW w \in Workers
      PROVE  Own(w)'
  <2>1. Own(w) /\ worker[w] \in WorkerState
    BY DEF StoreIInv, StoreTyped
  <2>2. Position(w)'
    BY <1>1, <2>1 DEF Own, Position, WorkerState
  <2>3. Copying(w)'
    BY <1>1, <2>1 DEF Own, Position, Copying, Busy
  <2>4. Tidy(w)'
    BY <1>1, <2>1 DEF Own, Tidy
  <2> QED
    BY <2>2, <2>3, <2>4 DEF Own
<1> QED
  BY <1>2, <1>3, <1>4 DEF StoreIInv

-----------------------------------------------------------------------------
(* The theorems.                                                           *)

LEMMA StoreStutters ==
  ASSUME StoreIInv, UNCHANGED storeVars
  PROVE  StoreIInv'
  BY DEF storeVars, StoreIInv, StoreTyped, ReadsRight, Rows, Good, Own, Position, Copying, Tidy

LEMMA StoreInvariant == StoreSpec => []StoreIInv
<1>1. ASSUME StoreIInv, NEW w \in Workers, NotDue(w) \/ Unlock(w) \/ AbandonTick(w) \/ Die(w)
      PROVE  StoreIInv'
  BY <1>1, EndTickPreserves DEF NotDue, Unlock, AbandonTick, Die
<1>2. ASSUME StoreIInv, [StoreNext]_storeVars
      PROVE  StoreIInv'
  BY <1>1, <1>2, TakeRightPreserves, SelectBatchPreserves, NextJobPreserves, RemoveFilesPreserves,
     MarkExpiredPreserves, StartAssetPreserves, FinishAssetPreserves, MarkStoredPreserves,
     FinishFailedPreserves, DeferPreserves, RetryPreserves, SelectExpiredPreserves,
     RemoveExpiredPreserves, CloseExpiredPreserves, ScanPreserves, FindOrphansPreserves,
     RemoveOrphansPreserves, LoseConnectionPreserves, ReaderPreserves, TransitionPreserves,
     WorldPreserves, StoreStutters
     DEF StoreNext
<1> QED
  BY <1>2, StoreInitially, PTL DEF StoreSpec

\* Every variable stays in its range, and the attempts of a row within STORE_MAX_ATTEMPTS,
\* with any number of workers (the tick of asset_store.py).
THEOREM StoreIsTyped == StoreSpec => []StoreTypeOK
<1>1. StoreIInv => StoreTypeOK
  BY DEF StoreIInv, StoreTyped, Statuses, StoreTypeOK
<1> QED
  BY <1>1, StoreInvariant, PTL

\* A row that says stored has all its files for its whole term, unless the disk lost one
\* (the downloads, the expiry, the cleanup and the download route together).
THEOREM StoredStaysWhole == StoreSpec => []StoredIsWhole
<1>1. StoreIInv => StoredIsWhole
  BY DEF StoreIInv, StoreTyped, Rows, Good, StoredIsWhole
<1> QED
  BY <1>1, StoreInvariant, PTL

\* A row marked expired has no files left, unless two workers were at it (expiry removes the
\* directory first and marks the row after it).
THEOREM ExpiredStaysGone == StoreSpec => []ExpiredIsGone
<1>1. StoreIInv => ExpiredIsGone
  BY DEF StoreIInv, Rows, ExpiredIsGone
<1> QED
  BY <1>1, StoreInvariant, PTL

\* The two together, as the run checks them.
THEOREM StatusStaysTrue == StoreSpec => []StatusIsTrue
  BY StoredStaysWhole, ExpiredStaysGone, PTL DEF StatusIsTrue

-----------------------------------------------------------------------------
(***************************************************************************)
(* Proofs about InstanceConfig, for any processes, operators, wishes and   *)
(* starts: patches that do not overlap leave a chosen provider with its    *)
(* key, an accepted patch is seen where it was answered, and a patch that  *)
(* names a version replaces what its operator saw.                         *)
(***************************************************************************)

(* The strengthening: what each patch in hand and each process knows.      *)

Asked(r) ==
  patch[r].stage # "none" =>
    patch[r].proc \in Processes /\ patch[r].mine.value \in ValuesOf(patch[r].item)

\* A patch about to be written was allowed on the rows it has read.
DecidedWell(r) ==
  LET i == patch[r].item IN
  patch[r].stage = "write" \/ (patch[r].stage = "own" /\ i \in Providers) =>
    Allowed(i, Patched(patch[r].view, i, patch[r].mine.value))

\* A version that is named is that of the row read.
SameVersion(r) ==
  /\ patch[r].item \in Providers => patch[r].page.at = 0
  /\ patch[r].stage \in {"settings", "keys", "write"} => patch[r].page.at \in {0, patch[r].own.at}

\* What an accepted patch reloads is not older than the patch nor, unless another reload has
\* ended since, than what its process has promised.
Reloads(r) ==
  LET i == patch[r].item  p == patch[r].proc IN
  /\ patch[r].stage \in {"refresh", "reread"} =>
       /\ patch[r].mine.by <= overlay[i].by
       /\ ~patch[r].crossed => promised[p][i] <= patch[r].mine.by
  /\ patch[r].stage = "reread" =>
       /\ i \in Providers => patch[r].mine.by <= patch[r].view[i].by
       /\ ~patch[r].crossed => \A j \in Providers : promised[p][j] <= patch[r].view[j].by

Sound(r) == Asked(r) /\ DecidedWell(r) /\ SameVersion(r) /\ Reloads(r)

\* A process has promised what is committed, and its loop is not behind that.
Promises(p) ==
  /\ \A i \in Items : promised[p][i] <= overlay[i].by
  /\ reload[p].busy /\ ~reload[p].crossed => \A i \in Providers : promised[p][i] <= reload[p].keys[i].by

Numbered == \A i \in Items : overlay[i].by <= commits

ConfigIInv ==
  /\ ConfigTypeOK /\ Numbered
  /\ \A r \in Operators : Sound(r)
  /\ \A p \in Processes : Promises(p)
  /\ ProvidersHaveKeys /\ OwnPatchIsSeen /\ PatchesAreInformed

-----------------------------------------------------------------------------
(* What the overrides mean.                                                *)

LEMMA EnvIsServable == Env \in Overlays /\ Fitting(Env) /\ Servable(Env) /\ EnvRow \in OverrideRow
<1>1. EnvRow \in OverrideRow
  BY DEF EnvRow, OverrideRow
<1>2. Env \in Overlays /\ Fitting(Env)
  BY <1>1 DEF Env, EnvRow, Overlays, Fitting
<1>3. \A i \in Items : Env[i].value = Unset
  BY DEF Env, EnvRow
<1>4. Servable(Env)
  BY <1>3, ConfigAssumption DEF Servable, Required, HasKey, BothOffered, Chosen, Other, Items, Settings, Providers
<1> QED
  BY <1>1, <1>2, <1>4

\* A patch allowed on rows that serve leaves rows that serve.
LEMMA AllowedKeepsServable ==
  ASSUME NEW o \in Overlays, Fitting(o), Servable(o),
         NEW n \in Overlays, NEW i \in Items, NEW v \in ValuesOf(i),
         \A j \in Items \ {i} : n[j].value = o[j].value,
         n[i].value = v, Allowed(i, n)
  PROVE  Servable(n)
<1>1. CASE i = "provider"
  <2>1. v \in Providers /\ v # Unset /\ Chosen(n) = v /\ HasKey(n, v)
    BY <1>1, ConfigAssumption DEF ValuesOf, Allowed, Chosen
  <2>2. n["dual"].value = o["dual"].value /\ \A q \in Providers : n[q].value = o[q].value
    BY <1>1 DEF Items, Settings, Providers
  <2>3. \A q \in Providers : HasKey(n, q) <=> HasKey(o, q)
    BY <2>2 DEF HasKey
  <2>4. Chosen(o) \in Providers /\ HasKey(o, Chosen(o))
    BY ConfigAssumption DEF Fitting, Servable, Required, Chosen, ValuesOf, Items, Settings
  <2>5. CASE Chosen(o) = v
    BY <2>1, <2>2, <2>3, <2>4, <2>5 DEF Servable, Required, BothOffered, Other, Providers
  <2>6. CASE Chosen(o) # v
    BY <2>1, <2>3, <2>4, <2>6 DEF Servable, Required, Other, Providers
  <2> QED
    BY <2>5, <2>6
<1>2. CASE i = "dual"
  <2>1. v \in {"on", "off"} /\ v # Unset
    BY <1>2, ConfigAssumption DEF ValuesOf
  <2>2. Chosen(n) = Chosen(o) /\ \A q \in Providers : HasKey(n, q) <=> HasKey(o, q)
    BY <1>2 DEF Chosen, HasKey, Items, Settings, Providers
  <2>3. Chosen(o) \in Providers /\ HasKey(o, Chosen(o))
    BY ConfigAssumption DEF Fitting, Servable, Required, Chosen, ValuesOf, Items, Settings
  <2>4. BothOffered(n) => HasKey(n, Other(Chosen(n)))
    BY <1>2, <2>1 DEF BothOffered, Allowed
  <2> QED
    BY <2>2, <2>3, <2>4 DEF Servable, Required
<1>3. CASE i \in Providers
  <2>1. n["dual"].value = o["dual"].value /\ n["provider"].value = o["provider"].value
    BY <1>3 DEF Items, Settings, Providers
  <2>2. Required(n) = Required(o) /\ Required(n) \subseteq Providers
    BY <2>1, ConfigAssumption DEF Required, BothOffered, Chosen, Other, Providers, Fitting, ValuesOf, Items, Settings
  <2>3. \A q \in Providers \ {i} : HasKey(n, q) <=> HasKey(o, q)
    BY DEF HasKey, Items
  <2>4. i \in Required(n) => HasKey(n, i)
    BY <1>3 DEF Allowed, Providers
  <2> QED
    BY <2>2, <2>3, <2>4 DEF Servable
<1> QED
  BY <1>1, <1>2, <1>3 DEF Items, Settings

LEMMA ConfigInitially == ConfigInit => ConfigIInv
<1> SUFFICES ASSUME ConfigInit PROVE ConfigIInv
  OBVIOUS
<1>1. /\ overlay \in Overlays /\ Fitting(overlay) /\ Servable(overlay)
      /\ \A i \in Items : overlay[i].by = 0
  BY ConfigAssumption DEF ConfigInit
<1>2. NoPatch \in PatchInHand /\ Rested \in ReloadUnderWay
  BY EnvIsServable, ConfigAssumption DEF NoPatch, PatchInHand, Rested, ReloadUnderWay, Items, Settings, EnvRow, OverrideRow
<1>3. raced \in BOOLEAN
  BY Zenon DEF ConfigInit
<1>4. ConfigTypeOK
  BY <1>1, <1>2, <1>3, ConfigAssumption DEF ConfigInit, ConfigTypeOK
<1>5. \A r \in Operators : Sound(r)
  BY DEF ConfigInit, NoPatch, EnvRow, Sound, Asked, DecidedWell, SameVersion, Reloads
<1>6. \A p \in Processes : Promises(p)
  <2> SUFFICES ASSUME NEW p \in Processes PROVE Promises(p)
    OBVIOUS
  <2>1. reload[p].busy = FALSE /\ \A i \in Items : promised[p][i] = 0
    BY DEF ConfigInit, Rested
  <2>2. \A i \in Items : promised[p][i] <= overlay[i].by
    BY <1>1, <2>1
  <2> QED
    BY <2>1, <2>2, Zenon DEF Promises
<1>7. Numbered /\ ProvidersHaveKeys /\ OwnPatchIsSeen /\ PatchesAreInformed
  BY <1>1 DEF ConfigInit, Numbered, ProvidersHaveKeys, OwnPatchIsSeen, PatchesAreInformed
<1> QED
  BY <1>4, <1>5, <1>6, <1>7 DEF ConfigIInv

-----------------------------------------------------------------------------
(* Steps that change one patch in hand and nothing else.                   *)

LEMMA OnlyInHand ==
  ASSUME ConfigIInv, NEW r \in Operators, NEW what \in PatchInHand,
         patch' = [patch EXCEPT ![r] = what], Sound(r)',
         begun' \in 0..MaxPatches, failures' \in 0..MaxFailures, Uncommitted,
         UNCHANGED <<snapshot, reload, serving, second, promised, torn, outrun>>
  PROVE  ConfigIInv'
<1>1. ConfigTypeOK'
  BY DEF ConfigIInv, ConfigTypeOK, Uncommitted, Fitting
<1>2. ASSUME NEW s \in Operators
      PROVE  Sound(s)'
  <2>1. s # r => patch'[s] = patch[s]
    BY DEF ConfigIInv, ConfigTypeOK
  <2> QED
    BY <2>1 DEF ConfigIInv, Sound, Asked, DecidedWell, SameVersion, Reloads, Uncommitted
<1>3. \A p \in Processes : Promises(p)'
  BY DEF ConfigIInv, Promises, Uncommitted
<1>4. Numbered' /\ OwnPatchIsSeen' /\ PatchesAreInformed'
  BY DEF ConfigIInv, Numbered, OwnPatchIsSeen, PatchesAreInformed, Uncommitted
<1>5. ProvidersHaveKeys'
  BY DEF ConfigIInv, ProvidersHaveKeys, Uncommitted
<1> QED
  BY <1>1, <1>2, <1>3, <1>4, <1>5 DEF ConfigIInv

LEMMA NoPatchIsSound ==
  ASSUME NEW r \in Operators, patch'[r] = NoPatch
  PROVE  Sound(r)'
BY DEF NoPatch, EnvRow, Sound, Asked, DecidedWell, SameVersion, Reloads

LEMMA ReadingIsTyped ==
  ASSUME ConfigTypeOK, NEW r \in Operators, NEW items
  PROVE  /\ Reading(r, items) \in Overlays
         /\ \A i \in Items : Reading(r, items)[i] = IF i \in items THEN overlay[i] ELSE patch[r].view[i]
BY DEF ConfigTypeOK, Overlays, PatchInHand, Reading

LEMMA EndsPreserves ==
  ASSUME ConfigIInv, NEW r \in Operators, Ends(r),
         failures' \in 0..MaxFailures, Uncommitted,
         UNCHANGED <<snapshot, reload, serving, second, begun, promised, torn, outrun>>
  PROVE  ConfigIInv'
<1>1. NoPatch \in PatchInHand /\ patch'[r] = NoPatch /\ begun' \in 0..MaxPatches
  BY EnvIsServable DEF Ends, NoPatch, PatchInHand, Items, Settings, EnvRow, OverrideRow, ConfigIInv, ConfigTypeOK
<1>2. Sound(r)'
  BY <1>1, NoPatchIsSound
<1> QED
  BY <1>1, <1>2, OnlyInHand DEF Ends

LEMMA BeginPreserves ==
  ASSUME ConfigIInv, NEW r \in Operators, NEW p \in Processes, NEW q \in Processes,
         NEW w \in Wishes, NEW conditional \in BOOLEAN, BeginPatch(r, p, w, q, conditional)
  PROVE  ConfigIInv'
<1> DEFINE page == snapshot[q][w.item]
           what == [NoPatch EXCEPT !.stage = IF w.item \in Settings THEN "own" ELSE "settings", !.proc = p,
                       !.item = w.item, !.mine = [value |-> w.value, at |-> 0, by |-> 0],
                       !.page = IF conditional THEN page ELSE EnvRow]
<1>1. w.item \in Items /\ w.value \in ValuesOf(w.item) /\ page \in OverrideRow
  BY ConfigAssumption DEF ConfigIInv, ConfigTypeOK, Overlays
<1>2. ValuesOf(w.item) \subseteq Providers \cup {"on", "off", "key", "blank", Unset}
  BY <1>1 DEF ValuesOf, Items, Settings
<1>3. /\ what \in PatchInHand
      /\ what.item = w.item /\ what.proc = p /\ what.mine.value = w.value
      /\ what.page = (IF conditional THEN page ELSE EnvRow)
      /\ what.stage = (IF w.item \in Settings THEN "own" ELSE "settings")
  <2>1. [value |-> w.value, at |-> 0, by |-> 0] \in OverrideRow
    BY <1>1, <1>2 DEF OverrideRow
  <2> QED
    BY <1>1, <2>1, EnvIsServable DEF NoPatch, PatchInHand
<1>4. patch' = [patch EXCEPT ![r] = what] /\ patch'[r] = what
  BY DEF BeginPatch, ConfigIInv, ConfigTypeOK
<1> HIDE DEF what
<1>5. w.item \notin Settings => what.page.at = 0
  BY <1>3 DEF BeginPatch, EnvRow
<1>6. Sound(r)'
  BY <1>1, <1>3, <1>4, <1>5 DEF Sound, Asked, DecidedWell, SameVersion, Reloads, Settings, Providers
<1>7. begun' \in 0..MaxPatches /\ failures' \in 0..MaxFailures
  BY ConfigAssumption DEF BeginPatch, ConfigIInv, ConfigTypeOK
<1> QED
  BY <1>3, <1>4, <1>6, <1>7, OnlyInHand DEF BeginPatch

LEMMA ReadSettingPreserves ==
  ASSUME ConfigIInv, NEW r \in Operators, ReadSetting(r)
  PROVE  ConfigIInv'
<1> DEFINE what == [patch[r] EXCEPT !.stage = "settings", !.own = overlay[patch[r].item]]
<1>1. patch[r] \in PatchInHand /\ overlay[patch[r].item] \in OverrideRow /\ patch[r].item \in Settings
  BY DEF ConfigIInv, ConfigTypeOK, Overlays, PatchInHand, ReadSetting
<1>2. CASE Ends(r)
  BY <1>2, EndsPreserves DEF ReadSetting, Untouched, ConfigIInv, ConfigTypeOK
<1>3. CASE ~Ends(r)
  <2>1. patch' = [patch EXCEPT ![r] = what] /\ patch[r].page.at \in {0, overlay[patch[r].item].at}
    BY <1>3 DEF ReadSetting, VersionOf
  <2>2. what \in PatchInHand
    BY <1>1 DEF PatchInHand
  <2>3. patch'[r] = what
    BY <2>1 DEF ConfigIInv, ConfigTypeOK
  <2>4. Sound(r)'
    BY <1>1, <2>1, <2>3 DEF ReadSetting, ConfigIInv, Sound, Asked, DecidedWell, SameVersion, Reloads, PatchInHand, Settings, Providers
  <2> QED
    BY <2>1, <2>2, <2>4, OnlyInHand DEF ReadSetting, Untouched, ConfigIInv, ConfigTypeOK
<1> QED
  BY <1>2, <1>3

LEMMA ReadSettingsPreserves ==
  ASSUME ConfigIInv, NEW r \in Operators, ReadSettings(r)
  PROVE  ConfigIInv'
<1> DEFINE what == [patch[r] EXCEPT !.stage = "keys", !.view = Reading(r, Settings)]
<1>1. patch[r] \in PatchInHand /\ Reading(r, Settings) \in Overlays
  BY ReadingIsTyped DEF ConfigIInv, ConfigTypeOK
<1>2. what \in PatchInHand
  BY <1>1 DEF PatchInHand
<1>3. patch' = [patch EXCEPT ![r] = what] /\ patch'[r] = what
  BY DEF ReadSettings, ConfigIInv, ConfigTypeOK
<1>4. Sound(r)'
  BY <1>1, <1>3 DEF ReadSettings, ConfigIInv, Sound, Asked, DecidedWell, SameVersion, Reloads, PatchInHand
<1> QED
  BY <1>2, <1>3, <1>4, OnlyInHand DEF ReadSettings, Untouched, ConfigIInv, ConfigTypeOK

LEMMA ReadKeysPreserves ==
  ASSUME ConfigIInv, NEW r \in Operators, ReadKeys(r)
  PROVE  ConfigIInv'
<1> DEFINE i == patch[r].item
           view == Reading(r, Providers)
           date == IF i \in Settings THEN second ELSE 0
           what == [patch[r] EXCEPT !.stage = IF i \in Settings THEN "write" ELSE "own",
                                    !.view = view, !.mine.at = date]
<1>1. patch[r] \in PatchInHand /\ view \in Overlays /\ date \in Nat
  BY ReadingIsTyped DEF ConfigIInv, ConfigTypeOK
<1>2. CASE Ends(r)
  BY <1>2, EndsPreserves DEF ReadKeys, Untouched, ConfigIInv, ConfigTypeOK
<1>3. CASE ~Ends(r)
  <2>1. patch' = [patch EXCEPT ![r] = what] /\ Allowed(i, Patched(view, i, patch[r].mine.value))
    BY <1>3 DEF ReadKeys, Decided
  <2>2. what \in PatchInHand
    BY <1>1 DEF PatchInHand, OverrideRow
  <2>3. patch'[r] = what
    BY <2>1 DEF ConfigIInv, ConfigTypeOK
  <2>4. /\ what.stage \in {"write", "own"} /\ what.item = i /\ what.proc = patch[r].proc /\ what.view = view
        /\ what.page = patch[r].page /\ what.own = patch[r].own /\ what.mine.value = patch[r].mine.value
    BY <1>1 DEF PatchInHand, OverrideRow
  <2>5. Sound(r)'
    BY <2>1, <2>3, <2>4 DEF ReadKeys, ConfigIInv, Sound, Asked, DecidedWell, SameVersion, Reloads
  <2> QED
    BY <2>1, <2>2, <2>5, OnlyInHand DEF ReadKeys, Untouched, ConfigIInv, ConfigTypeOK
<1> QED
  BY <1>2, <1>3

LEMMA ReadCredentialPreserves ==
  ASSUME ConfigIInv, NEW r \in Operators, ReadCredential(r)
  PROVE  ConfigIInv'
<1> DEFINE what == [patch[r] EXCEPT !.stage = "write", !.own = overlay[patch[r].item]]
<1>1. patch[r] \in PatchInHand /\ overlay[patch[r].item] \in OverrideRow
  BY DEF ConfigIInv, ConfigTypeOK, Overlays, PatchInHand
<1>2. CASE Ends(r)
  BY <1>2, EndsPreserves DEF ReadCredential, Untouched, ConfigIInv, ConfigTypeOK
<1>3. CASE ~Ends(r)
  <2>1. patch' = [patch EXCEPT ![r] = what]
    BY <1>3 DEF ReadCredential
  <2>2. what \in PatchInHand
    BY <1>1 DEF PatchInHand
  <2>3. patch'[r] = what
    BY <2>1 DEF ConfigIInv, ConfigTypeOK
  <2>4. Sound(r)'
    BY <1>1, <2>3 DEF ReadCredential, ConfigIInv, Sound, Asked, DecidedWell, SameVersion, Reloads, PatchInHand
  <2> QED
    BY <2>1, <2>2, <2>4, OnlyInHand DEF ReadCredential, Untouched, ConfigIInv, ConfigTypeOK
<1> QED
  BY <1>2, <1>3

LEMMA RefreshKeysPreserves ==
  ASSUME ConfigIInv, NEW r \in Operators, RefreshKeys(r)
  PROVE  ConfigIInv'
<1> DEFINE what == [patch[r] EXCEPT !.stage = "reread", !.view = Reading(r, Providers)]
<1>1. /\ patch[r] \in PatchInHand /\ Reading(r, Providers) \in Overlays
      /\ \A i \in Providers : Reading(r, Providers)[i] = overlay[i]
  <2>1. ConfigTypeOK
    BY DEF ConfigIInv
  <2>2. patch[r] \in PatchInHand
    BY <2>1 DEF ConfigTypeOK
  <2>3. Providers \subseteq Items
    BY DEF Items
  <2>4. /\ Reading(r, Providers) \in Overlays
        /\ \A i \in Items : Reading(r, Providers)[i] = IF i \in Providers THEN overlay[i] ELSE patch[r].view[i]
    BY <2>1, ReadingIsTyped
  <2> QED
    BY <2>2, <2>3, <2>4
<1>2. what \in PatchInHand
  BY <1>1 DEF PatchInHand
<1>3. patch' = [patch EXCEPT ![r] = what] /\ patch'[r] = what
  BY DEF RefreshKeys, ConfigIInv, ConfigTypeOK
<1>4. Asked(r)' /\ DecidedWell(r)' /\ SameVersion(r)'
  BY <1>1, <1>3 DEF RefreshKeys, ConfigIInv, Sound, Asked, DecidedWell, SameVersion, PatchInHand
<1>5. Reloads(r)'
  <2>1. patch[r].proc \in Processes
    BY DEF RefreshKeys, ConfigIInv, Sound, Asked
  <2>2. \A j \in Providers : promised[patch[r].proc][j] <= overlay[j].by
    BY <2>1 DEF ConfigIInv, Promises, Items
  <2> QED
    BY <1>1, <1>3, <2>2 DEF RefreshKeys, Uncommitted, Untouched, ConfigIInv, Sound, Reloads, PatchInHand
<1> QED
  BY <1>2, <1>3, <1>4, <1>5, OnlyInHand DEF RefreshKeys, Untouched, ConfigIInv, ConfigTypeOK, Sound

-----------------------------------------------------------------------------
(* The commit of a patch.                                                  *)

LEMMA PatchedRows ==
  ASSUME NEW o \in Overlays, NEW i \in Items, NEW v
  PROVE  /\ DOMAIN Patched(o, i, v) = Items /\ Patched(o, i, v)[i].value = v
         /\ \A j \in Items \ {i} : Patched(o, i, v)[j] = o[j]
BY DEF Patched, Overlays, OverrideRow

LEMMA AllowedByValues ==
  ASSUME NEW i \in Items, NEW o, NEW n, Fitting(n),
         \A j \in Items : o[j].value = n[j].value
  PROVE  Allowed(i, o) <=> Allowed(i, n)
<1>1. \A q \in Providers : HasKey(o, q) <=> HasKey(n, q)
  BY DEF HasKey, Items
<1>2. Chosen(o) = Chosen(n) /\ (BothOffered(o) <=> BothOffered(n)) /\ o["dual"].value = n["dual"].value
  BY DEF Chosen, BothOffered, Items, Settings
<1>3. Chosen(n) \in Providers
  BY ConfigAssumption DEF Fitting, Chosen, ValuesOf, Items, Settings
<1>4. Other(Chosen(n)) \in Providers
  BY DEF Other, Providers
<1>5. Required(o) = Required(n)
  BY <1>2 DEF Required
<1>6. i \notin Settings => i \in Providers
  BY DEF Items
<1> QED
  BY <1>1, <1>2, <1>3, <1>4, <1>5, <1>6 DEF Allowed, Settings

LEMMA CommitPreserves ==
  ASSUME ConfigIInv, NEW r \in Operators, CommitPatch(r)
  PROVE  ConfigIInv'
<1> DEFINE i == patch[r].item
           row == [patch[r].mine EXCEPT !.by = commits + 1]
           date == IF row.at = patch[r].own.at THEN overlay[i].at ELSE row.at
           written == [row EXCEPT !.at = date]
           what == [NoPatch EXCEPT !.stage = "refresh", !.proc = patch[r].proc, !.item = i,
                                   !.mine = row, !.own = patch[r].own]
<1>1. /\ patch[r] \in PatchInHand /\ i \in Items /\ overlay[i] \in OverrideRow /\ patch[r].proc \in Processes
      /\ patch[r].mine.value \in ValuesOf(i) /\ commits + 1 \in Nat
  BY DEF ConfigIInv, ConfigTypeOK, Overlays, PatchInHand, Sound, Asked, CommitPatch
<1>2. row \in OverrideRow /\ row.value = patch[r].mine.value /\ row.by = commits + 1
  BY <1>1 DEF PatchInHand, OverrideRow
<1>3. written \in OverrideRow /\ written.value = patch[r].mine.value /\ written.by = commits + 1
  BY <1>1, <1>2 DEF OverrideRow
<1>4. overlay' = [overlay EXCEPT ![i] = written] /\ patch' = [patch EXCEPT ![r] = what]
  BY DEF CommitPatch
<1>5. /\ what \in PatchInHand /\ what.stage = "refresh" /\ what.proc = patch[r].proc /\ what.item = i
      /\ what.mine = row /\ what.page.at = 0 /\ what.crossed = FALSE
  BY <1>1, <1>2, EnvIsServable DEF NoPatch, EnvRow, PatchInHand
<1> HIDE DEF row, date, written, what
<1>6. overlay' \in Overlays /\ overlay'[i] = written /\ \A j \in Items \ {i} : overlay'[j] = overlay[j]
  BY <1>1, <1>3, <1>4 DEF ConfigIInv, ConfigTypeOK, Overlays
<1>7. patch' \in [Operators -> PatchInHand] /\ patch'[r] = what /\ \A s \in Operators \ {r} : patch'[s] = patch[s]
  BY <1>4, <1>5 DEF ConfigIInv, ConfigTypeOK
<1>8. Fitting(overlay')
  BY <1>1, <1>3, <1>6 DEF Fitting, ConfigIInv, ConfigTypeOK
<1>9. ~Blind(r)
  BY <1>1 DEF CommitPatch, Blind, ConfigIInv, Sound, SameVersion
<1>10. raced' \in BOOLEAN
  <2>1. raced \in BOOLEAN
    BY DEF ConfigIInv, ConfigTypeOK
  <2> QED
    BY <2>1, Zenon DEF CommitPatch
<1>11. ConfigTypeOK'
  BY <1>1, <1>6, <1>7, <1>8, <1>9, <1>10 DEF CommitPatch, Untouched, ConfigIInv, ConfigTypeOK
<1>12. Numbered'
  BY <1>1, <1>3, <1>6 DEF CommitPatch, Numbered, ConfigIInv, ConfigTypeOK, Overlays, OverrideRow
<1>13. \A j \in Items : overlay[j].by <= overlay'[j].by
  <2>1. \A j \in Items : overlay[j].by \in Nat /\ overlay[j].by <= commits /\ commits \in Nat
    BY DEF ConfigIInv, Numbered, ConfigTypeOK, Overlays, OverrideRow
  <2> QED
    BY <1>1, <1>3, <1>6, <2>1
<1>14. ASSUME NEW s \in Operators \ {r}
       PROVE  Sound(s)'
  <2>1. Sound(s) /\ patch'[s] = patch[s] /\ patch[s] \in PatchInHand
    BY <1>7 DEF ConfigIInv, ConfigTypeOK
  <2>2. Asked(s)' /\ DecidedWell(s)' /\ SameVersion(s)'
    BY <2>1 DEF Sound, Asked, DecidedWell, SameVersion
  <2>3. Reloads(s)'
    <3>1. patch[s].item \in Items /\ patch[s].mine.by \in Nat
      BY <2>1 DEF PatchInHand, OverrideRow
    <3>2. overlay[patch[s].item].by \in Nat /\ overlay'[patch[s].item].by \in Nat
      BY <3>1, <1>6 DEF ConfigIInv, ConfigTypeOK, Overlays, OverrideRow
    <3> QED
      BY <2>1, <3>1, <3>2, <1>13 DEF Sound, Reloads, CommitPatch, Untouched
  <2> QED
    BY <2>2, <2>3 DEF Sound
<1>15. ASSUME NEW p \in Processes, NEW j \in Items
       PROVE  promised[p][j] <= overlay'[j].by /\ promised[p][j] <= commits + 1
  <2>1. promised[p][j] <= overlay[j].by /\ overlay[j].by <= commits
    BY DEF ConfigIInv, Promises, Numbered
  <2>2. promised[p][j] \in Nat /\ overlay[j].by \in Nat /\ overlay'[j].by \in Nat /\ commits \in Nat
    BY <1>6 DEF ConfigIInv, ConfigTypeOK, Overlays, OverrideRow
  <2> QED
    BY <2>1, <2>2, <1>13
<1>16. Sound(r)'
  <2>1. Asked(r)' /\ DecidedWell(r)' /\ SameVersion(r)'
    BY <1>1, <1>2, <1>5, <1>7 DEF Asked, DecidedWell, SameVersion
  <2>2. Reloads(r)'
    BY <1>1, <1>2, <1>3, <1>5, <1>6, <1>7, <1>15 DEF Reloads, CommitPatch, Untouched
  <2> QED
    BY <2>1, <2>2 DEF Sound
<1>17. \A p \in Processes : Promises(p)'
  BY <1>15 DEF Promises, CommitPatch, Untouched, ConfigIInv
<1>18. ~raced' => Servable(overlay')
  <2> SUFFICES ASSUME ~raced' PROVE Servable(overlay')
    OBVIOUS
  <2>1. ~raced /\ \A j \in Items \ {i} : patch[r].view[j] = overlay[j]
    BY DEF CommitPatch
  <2>2. Allowed(i, Patched(patch[r].view, i, patch[r].mine.value))
    BY DEF CommitPatch, ConfigIInv, Sound, DecidedWell
  <2>3. patch[r].view \in Overlays
    BY <1>1 DEF PatchInHand
  <2>4. \A j \in Items : Patched(patch[r].view, i, patch[r].mine.value)[j].value = overlay'[j].value
    BY <1>1, <1>3, <1>6, <2>1, <2>3, PatchedRows
  <2>5. Allowed(i, overlay')
    BY <1>1, <1>8, <2>2, <2>4, AllowedByValues
  <2>6. Servable(overlay) /\ Fitting(overlay) /\ overlay \in Overlays
    BY <2>1 DEF ConfigIInv, ConfigTypeOK, ProvidersHaveKeys
  <2> QED
    BY <1>1, <1>3, <1>6, <2>5, <2>6, AllowedKeepsServable
<1>19. ProvidersHaveKeys'
  BY <1>18 DEF ProvidersHaveKeys, ConfigIInv, CommitPatch, Untouched
<1>20. OwnPatchIsSeen' /\ PatchesAreInformed'
  BY <1>9 DEF OwnPatchIsSeen, PatchesAreInformed, ConfigIInv, CommitPatch, Untouched
<1> QED
  BY <1>11, <1>12, <1>14, <1>16, <1>17, <1>19, <1>20 DEF ConfigIInv

-----------------------------------------------------------------------------
(* The reloads.                                                            *)

\* p gets a new snapshot, which keeps what p has promised unless it is crossed; every other
\* reload of p is from now on an older one.
Installed(p, f, rows, crossed) ==
  /\ p \in Processes /\ f \in [Operators -> PatchInHand] /\ rows \in Overlays /\ crossed \in BOOLEAN
  /\ \A s \in Operators : f[s] \in {patch[s], NoPatch}
  /\ Install(p, rows, crossed) /\ patch' = Crossed(p, f) /\ Uncommitted
  /\ promised' \in [Processes -> [Items -> Nat]] /\ \A q \in Processes \ {p} : promised'[q] = promised[q]
  /\ \A i \in Items : promised'[p][i] <= overlay[i].by
  /\ ~crossed => \A i \in Items : promised'[p][i] <= rows[i].by
  /\ reload' \in [Processes -> ReloadUnderWay] /\ \A q \in Processes \ {p} : reload'[q] = reload[q]
  /\ reload'[p].busy = FALSE \/ reload'[p].crossed = TRUE
  /\ serving' \subseteq Processes /\ UNCHANGED <<second, begun, failures>>

LEMMA InstalledPreserves ==
  ASSUME ConfigIInv, NEW p, NEW f, NEW rows, NEW crossed, Installed(p, f, rows, crossed)
  PROVE  ConfigIInv'
<1> USE DEF Installed
<1> DEFINE older(s) == f[s].proc = p /\ f[s].stage \in {"refresh", "reread"}
<1>1. /\ DOMAIN patch' = Operators /\ patch' = [s \in Operators |-> patch'[s]]
      /\ \A s \in Operators : older(s) => patch'[s] = [f[s] EXCEPT !.crossed = TRUE]
      /\ \A s \in Operators : ~older(s) => patch'[s] = f[s]
  BY DEF Crossed
<1>2. patch' \in [Operators -> PatchInHand]
  <2>1. ASSUME NEW s \in Operators
        PROVE  patch'[s] \in PatchInHand
    <3>1. f[s] \in PatchInHand
      OBVIOUS
    <3>2. [f[s] EXCEPT !.crossed = TRUE] \in PatchInHand
      BY <3>1 DEF PatchInHand
    <3> QED
      BY <1>1, <3>1, <3>2
  <2> QED
    BY <1>1, <2>1
<1>3. snapshot' = [snapshot EXCEPT ![p] = rows] /\ torn' \subseteq Processes /\ outrun' \subseteq Processes
  BY DEF Install, ConfigIInv, ConfigTypeOK
<1>4. ConfigTypeOK'
  BY <1>2, <1>3 DEF Uncommitted, ConfigIInv, ConfigTypeOK, Fitting
<1>5. ASSUME NEW s \in Operators
      PROVE  Sound(s)'
  <2>1. CASE f[s] = NoPatch
    <3>1. patch'[s] = NoPatch
      <4>1. ~older(s)
        BY <2>1 DEF NoPatch
      <4> QED
        BY <1>1, <2>1, <4>1
    <3> QED
      BY <3>1, NoPatchIsSound
  <2>2. CASE f[s] = patch[s]
    <3>1. patch[s] \in PatchInHand /\ Sound(s)
      BY DEF ConfigIInv, ConfigTypeOK
    <3>2. /\ patch'[s].stage = patch[s].stage /\ patch'[s].proc = patch[s].proc /\ patch'[s].item = patch[s].item
          /\ patch'[s].page = patch[s].page /\ patch'[s].own = patch[s].own /\ patch'[s].view = patch[s].view
          /\ patch'[s].mine = patch[s].mine
          /\ ~patch'[s].crossed /\ patch[s].stage \in {"refresh", "reread"} => ~patch[s].crossed /\ patch[s].proc # p
      <4>1. CASE older(s)
        BY <1>1, <2>2, <3>1, <4>1 DEF PatchInHand
      <4>2. CASE ~older(s)
        BY <1>1, <2>2, <4>2
      <4> QED
        BY <4>1, <4>2
    <3>3. Asked(s)' /\ DecidedWell(s)' /\ SameVersion(s)'
      BY <3>1, <3>2 DEF Sound, Asked, DecidedWell, SameVersion
    <3>4. Reloads(s)'
      BY <3>1, <3>2 DEF Sound, Asked, Reloads, Uncommitted
    <3> QED
      BY <3>3, <3>4 DEF Sound
  <2> QED
    BY <2>1, <2>2
<1>6. \A q \in Processes : Promises(q)'
  BY DEF ConfigIInv, Promises, Uncommitted
<1>7. \A q \in Processes \ {p} : snapshot'[q] = snapshot[q]
  BY <1>3 DEF ConfigIInv, ConfigTypeOK
<1>8. snapshot'[p] = rows
  BY <1>3 DEF ConfigIInv, ConfigTypeOK
<1>9. OwnPatchIsSeen'
  <2> SUFFICES ASSUME NEW q \in Processes \ outrun', NEW i \in Items
               PROVE  snapshot'[q][i].by >= promised'[q][i]
    BY DEF OwnPatchIsSeen
  <2>1. CASE q = p
    <3>1. ~crossed
      BY <2>1 DEF Install
    <3>2. rows[i].by \in Nat /\ promised'[p][i] \in Nat
      BY DEF Overlays, OverrideRow
    <3> QED
      BY <2>1, <3>1, <3>2, <1>8
  <2>2. CASE q # p
    <3>1. q \notin outrun
      BY <2>2 DEF Install
    <3> QED
      BY <2>2, <3>1, <1>7 DEF ConfigIInv, OwnPatchIsSeen
  <2> QED
    BY <2>1, <2>2
<1>10. ProvidersHaveKeys'
  <2> SUFFICES ASSUME ~raced PROVE Servable(overlay) /\ \A q \in Processes \ torn' : Servable(snapshot'[q])
    BY DEF ProvidersHaveKeys, Uncommitted
  <2>1. Servable(overlay) /\ \A q \in Processes \ torn : Servable(snapshot[q])
    BY DEF ConfigIInv, ProvidersHaveKeys
  <2>2. p \notin torn' => rows = overlay
    BY DEF Install
  <2>3. \A q \in Processes \ {p} : q \notin torn' => q \notin torn
    BY DEF Install
  <2> QED
    BY <2>1, <2>2, <2>3, <1>7, <1>8
<1>11. Numbered' /\ PatchesAreInformed'
  BY DEF ConfigIInv, Numbered, PatchesAreInformed, Uncommitted
<1> QED
  BY <1>4, <1>5, <1>6, <1>9, <1>10, <1>11 DEF ConfigIInv

LEMMA RefreshSettingsPreserves ==
  ASSUME ConfigIInv, NEW r \in Operators, RefreshSettings(r)
  PROVE  ConfigIInv'
<1> DEFINE i == patch[r].item
           p == patch[r].proc
           read == Reading(r, Settings)
           rows == Kept(r, read)
           f == [patch EXCEPT ![r] = NoPatch]
           seen == IF promised[p][i] < patch[r].mine.by THEN patch[r].mine.by ELSE promised[p][i]
<1>1. patch[r] \in PatchInHand /\ i \in Items /\ p \in Processes /\ Sound(r)
  BY DEF ConfigIInv, ConfigTypeOK, PatchInHand, Sound, Asked, RefreshSettings
<1>2. read \in Overlays /\ \A j \in Items : read[j] = IF j \in Settings THEN overlay[j] ELSE patch[r].view[j]
  BY ReadingIsTyped DEF ConfigIInv
<1>3. patch[r].mine \in OverrideRow /\ patch[r].view \in Overlays /\ patch[r].crossed \in BOOLEAN
  BY <1>1 DEF PatchInHand
<1>4. /\ rows \in Overlays
      /\ \A j \in Items \ {i} : rows[j] = read[j]
      /\ rows[i] \in {read[i], patch[r].mine}
  BY <1>1, <1>2, <1>3 DEF Kept, Overlays
<1>5. f \in [Operators -> PatchInHand] /\ \A s \in Operators : f[s] \in {patch[s], NoPatch}
  BY EnvIsServable DEF ConfigIInv, ConfigTypeOK, NoPatch, PatchInHand, Items, Settings
<1>6. Install(p, rows, patch[r].crossed) /\ patch' = Crossed(p, f)
  BY DEF RefreshSettings
<1>7. /\ promised[p] \in [Items -> Nat] /\ patch[r].mine.by \in Nat /\ seen \in Nat
      /\ \A j \in Items : overlay[j].by \in Nat /\ rows[j].by \in Nat /\ read[j].by \in Nat
  BY <1>1, <1>2, <1>3, <1>4 DEF ConfigIInv, ConfigTypeOK, Overlays, OverrideRow
<1>8. promised' = [promised EXCEPT ![p] = [promised[p] EXCEPT ![i] = seen]]
  BY DEF RefreshSettings
<1>9. /\ promised' \in [Processes -> [Items -> Nat]] /\ \A q \in Processes \ {p} : promised'[q] = promised[q]
      /\ promised'[p][i] = seen /\ \A j \in Items \ {i} : promised'[p][j] = promised[p][j]
  BY <1>1, <1>7, <1>8 DEF ConfigIInv, ConfigTypeOK
<1>10. /\ \A j \in Items : promised[p][j] <= overlay[j].by
       /\ patch[r].mine.by <= overlay[i].by
       /\ ~patch[r].crossed => promised[p][i] <= patch[r].mine.by
  BY <1>1 DEF RefreshSettings, ConfigIInv, Promises, Sound, Reloads
<1>11. \A j \in Items : promised'[p][j] <= overlay[j].by
  BY <1>1, <1>7, <1>9, <1>10
<1>12. ASSUME ~patch[r].crossed, NEW j \in Items
       PROVE  promised'[p][j] <= rows[j].by
  <2>1. promised[p][j] <= read[j].by
    <3>1. CASE j \in Settings
      BY <1>2, <1>10, <3>1
    <3>2. CASE j \notin Settings
      BY <1>1, <1>2, <1>12, <3>2 DEF RefreshSettings, Sound, Reloads, Items
    <3> QED
      BY <3>1, <3>2
  <2>2. CASE j # i
    BY <1>4, <1>9, <2>1, <2>2
  <2>3. CASE j = i
    <3>1. patch[r].mine.by <= read[i].by
      <4>1. CASE i \in Settings
        BY <1>1, <1>2, <1>10, <4>1
      <4>2. CASE i \notin Settings
        BY <1>1, <1>2, <4>2 DEF RefreshSettings, Sound, Reloads, Items
      <4> QED
        BY <4>1, <4>2
    <3>2. seen = patch[r].mine.by
      <4>1. promised[p][i] \in Nat /\ promised[p][i] <= patch[r].mine.by
        BY <1>1, <1>7, <1>10, <1>12
      <4> QED
        BY <1>7, <4>1
    <3> QED
      BY <1>4, <1>7, <1>9, <2>3, <3>1, <3>2
  <2> QED
    BY <2>2, <2>3
<1>13. /\ reload' \in [Processes -> ReloadUnderWay] /\ \A q \in Processes \ {p} : reload'[q] = reload[q]
       /\ reload'[p].busy = FALSE \/ reload'[p].crossed = TRUE
  <2>1. reload[p] \in ReloadUnderWay /\ reload[p].busy \in BOOLEAN
    BY <1>1 DEF ConfigIInv, ConfigTypeOK, ReloadUnderWay
  <2>2. [reload[p] EXCEPT !.crossed = reload[p].busy] \in ReloadUnderWay
    BY <2>1 DEF ReloadUnderWay
  <2>3. reload' = [reload EXCEPT ![p] = [reload[p] EXCEPT !.crossed = reload[p].busy]]
    BY DEF RefreshSettings
  <2> QED
    BY <1>1, <2>1, <2>2, <2>3 DEF ConfigIInv, ConfigTypeOK, ReloadUnderWay
<1>14. Uncommitted /\ UNCHANGED <<second, begun, failures>> /\ serving' \subseteq Processes
  BY DEF RefreshSettings, ConfigIInv, ConfigTypeOK
<1>15. ~patch[r].crossed => \A j \in Items : promised'[p][j] <= rows[j].by
  BY <1>12
<1> HIDE DEF i, p, read, rows, f, seen
<1>16. Installed(p, f, rows, patch[r].crossed)
  BY <1>1, <1>3, <1>4, <1>5, <1>6, <1>9, <1>11, <1>13, <1>14, <1>15 DEF Installed
<1> QED
  BY <1>16, InstalledPreserves

LEMMA LoadSettingsPreserves ==
  ASSUME ConfigIInv, NEW p \in Processes, LoadSettings(p)
  PROVE  ConfigIInv'
<1> DEFINE rows == [i \in Items |-> IF i \in Settings THEN overlay[i] ELSE reload[p].keys[i]]
<1>1. reload[p] \in ReloadUnderWay /\ reload[p].keys \in Overlays /\ reload[p].crossed \in BOOLEAN /\ reload[p].busy
  BY DEF LoadSettings, ConfigIInv, ConfigTypeOK, ReloadUnderWay
<1>2. rows \in Overlays
  BY <1>1 DEF ConfigIInv, ConfigTypeOK, Overlays
<1>3. \A i \in Items : promised[p][i] <= overlay[i].by
  BY DEF ConfigIInv, Promises
<1>4. ~reload[p].crossed => \A i \in Items : promised[p][i] <= rows[i].by
  BY <1>1, <1>3 DEF ConfigIInv, Promises, Items
<1>5. Rested \in ReloadUnderWay /\ Rested.busy = FALSE
  BY EnvIsServable DEF Rested, ReloadUnderWay
<1>6. /\ reload' \in [Processes -> ReloadUnderWay] /\ \A q \in Processes \ {p} : reload'[q] = reload[q]
      /\ reload'[p].busy = FALSE
  BY <1>5 DEF LoadSettings, ConfigIInv, ConfigTypeOK
<1>7. Install(p, rows, reload[p].crossed) /\ patch' = Crossed(p, patch) /\ Uncommitted
  BY DEF LoadSettings
<1>8. promised' = promised /\ promised \in [Processes -> [Items -> Nat]] /\ patch \in [Operators -> PatchInHand]
  BY DEF LoadSettings, ConfigIInv, ConfigTypeOK
<1>9. serving' \subseteq Processes /\ UNCHANGED <<second, begun, failures>>
  BY DEF LoadSettings, ConfigIInv, ConfigTypeOK
<1>10. /\ patch \in [Operators -> PatchInHand] /\ \A s \in Operators : patch[s] \in {patch[s], NoPatch}
       /\ promised' \in [Processes -> [Items -> Nat]] /\ \A q \in Processes \ {p} : promised'[q] = promised[q]
  BY <1>8
<1>11. /\ \A i \in Items : promised'[p][i] <= overlay[i].by
       /\ ~reload[p].crossed => \A i \in Items : promised'[p][i] <= rows[i].by
  BY <1>3, <1>4, <1>8
<1> HIDE DEF rows
<1>12. Installed(p, patch, rows, reload[p].crossed)
  BY <1>1, <1>2, <1>6, <1>7, <1>9, <1>10, <1>11 DEF Installed
<1> QED
  BY <1>12, InstalledPreserves

\* A reload begins or ends without a snapshot.
LEMMA OnlyReload ==
  ASSUME ConfigIInv, NEW p \in Processes, NEW rest \in ReloadUnderWay,
         reload' = [reload EXCEPT ![p] = rest],
         rest.busy = FALSE \/ \A i \in Providers : promised[p][i] <= rest.keys[i].by,
         failures' \in 0..MaxFailures, Uncommitted,
         serving' \subseteq Processes, UNCHANGED <<patch, snapshot, second, begun, promised, torn, outrun>>
  PROVE  ConfigIInv'
<1>1. ConfigTypeOK'
  BY DEF ConfigIInv, ConfigTypeOK, Uncommitted, Fitting
<1>2. \A r \in Operators : Sound(r)'
  BY DEF ConfigIInv, Sound, Asked, DecidedWell, SameVersion, Reloads, Uncommitted
<1>3. ASSUME NEW q \in Processes
      PROVE  Promises(q)'
  <2>1. Promises(q) /\ reload'[q] = IF q = p THEN rest ELSE reload[q]
    BY DEF ConfigIInv, ConfigTypeOK
  <2> QED
    BY <2>1 DEF Promises, Uncommitted
<1>4. Numbered' /\ OwnPatchIsSeen' /\ PatchesAreInformed'
  BY DEF ConfigIInv, Numbered, OwnPatchIsSeen, PatchesAreInformed, Uncommitted
<1>5. ProvidersHaveKeys'
  BY DEF ConfigIInv, ProvidersHaveKeys, Uncommitted
<1> QED
  BY <1>1, <1>2, <1>3, <1>4, <1>5 DEF ConfigIInv

LEMMA LoadKeysPreserves ==
  ASSUME ConfigIInv, NEW p \in Processes, LoadKeys(p)
  PROVE  ConfigIInv'
<1> DEFINE rest == [Rested EXCEPT !.busy = TRUE, !.keys = KeyRows]
<1>1. KeyRows \in Overlays /\ \A i \in Providers : KeyRows[i] = overlay[i]
  BY EnvIsServable DEF KeyRows, Overlays, ConfigIInv, ConfigTypeOK, Items
<1>2. rest \in ReloadUnderWay /\ rest.keys = KeyRows
  BY <1>1 DEF Rested, ReloadUnderWay
<1>3. \A i \in Providers : promised[p][i] <= KeyRows[i].by
  BY <1>1 DEF ConfigIInv, Promises, Items
<1>4. reload' = [reload EXCEPT ![p] = rest]
  BY DEF LoadKeys
<1> HIDE DEF rest
<1> QED
  BY <1>2, <1>3, <1>4, OnlyReload DEF LoadKeys, ConfigIInv, ConfigTypeOK

LEMMA LoadFailsPreserves ==
  ASSUME ConfigIInv, NEW p \in Processes, LoadFails(p)
  PROVE  ConfigIInv'
<1>1. Rested \in ReloadUnderWay /\ Rested.busy = FALSE
  BY EnvIsServable DEF Rested, ReloadUnderWay
<1>2. failures' \in 0..MaxFailures
  BY ConfigAssumption DEF LoadFails, ConfigIInv, ConfigTypeOK
<1>3. serving' \subseteq Processes
  BY DEF LoadFails, ConfigIInv, ConfigTypeOK
<1> QED
  BY <1>1, <1>2, <1>3, OnlyReload DEF LoadFails

LEMMA RestartPreserves ==
  ASSUME ConfigIInv, NEW p \in Processes, Restart(p)
  PROVE  ConfigIInv'
<1>1. Rested \in ReloadUnderWay /\ Rested.busy = FALSE /\ NoPatch \in PatchInHand
  BY EnvIsServable DEF Rested, ReloadUnderWay, NoPatch, PatchInHand, Items, Settings
<1>2. failures' \in 0..MaxFailures
  BY ConfigAssumption DEF Restart, ConfigIInv, ConfigTypeOK
<1>3. /\ patch' \in [Operators -> PatchInHand]
      /\ \A r \in Operators : patch'[r] = NoPatch \/ (patch'[r] = patch[r] /\ patch[r].proc # p)
  BY <1>1 DEF Restart, ConfigIInv, ConfigTypeOK
<1>4. /\ snapshot' = [snapshot EXCEPT ![p] = Env] /\ reload' = [reload EXCEPT ![p] = Rested]
      /\ promised' = [promised EXCEPT ![p] = [i \in Items |-> 0]]
  BY DEF Restart
<1>5. /\ snapshot' \in [Processes -> Overlays] /\ reload' \in [Processes -> ReloadUnderWay]
      /\ promised' \in [Processes -> [Items -> Nat]]
  BY <1>1, <1>4, EnvIsServable DEF ConfigIInv, ConfigTypeOK
<1>6. ConfigTypeOK'
  BY <1>2, <1>3, <1>5 DEF Restart, Uncommitted, ConfigIInv, ConfigTypeOK, Fitting
<1>7. /\ snapshot'[p] = Env /\ reload'[p] = Rested /\ \A i \in Items : promised'[p][i] = 0
      /\ \A q \in Processes \ {p} : snapshot'[q] = snapshot[q] /\ reload'[q] = reload[q] /\ promised'[q] = promised[q]
  BY <1>4 DEF ConfigIInv, ConfigTypeOK
<1>8. ASSUME NEW r \in Operators
      PROVE  Sound(r)'
  <2>1. CASE patch'[r] = NoPatch
    BY <2>1, NoPatchIsSound
  <2>2. CASE patch'[r] = patch[r] /\ patch[r].proc # p
    <3>1. Sound(r)
      BY DEF ConfigIInv
    <3>2. Asked(r)' /\ DecidedWell(r)' /\ SameVersion(r)'
      BY <2>2, <3>1 DEF Sound, Asked, DecidedWell, SameVersion
    <3>3. Reloads(r)'
      BY <1>7, <2>2, <3>1 DEF Sound, Asked, Reloads, Restart, Uncommitted
    <3> QED
      BY <3>2, <3>3 DEF Sound
  <2> QED
    BY <1>3, <2>1, <2>2
<1>9. ASSUME NEW q \in Processes
      PROVE  Promises(q)'
  <2>1. Promises(q) /\ overlay' = overlay /\ \A i \in Items : overlay[i].by \in Nat
    BY DEF ConfigIInv, ConfigTypeOK, Overlays, OverrideRow, Restart, Uncommitted
  <2>2. CASE q = p
    BY <1>1, <1>7, <2>1, <2>2 DEF Promises
  <2>3. CASE q # p
    BY <1>7, <2>1, <2>3 DEF Promises
  <2> QED
    BY <2>2, <2>3
<1>10. OwnPatchIsSeen'
  <2>1. \A i \in Items : Env[i].by = 0
    BY DEF Env, EnvRow
  <2>2. \A i \in Items : snapshot'[p][i].by >= promised'[p][i]
    BY <1>7, <2>1
  <2> QED
    BY <1>7, <2>2 DEF OwnPatchIsSeen, ConfigIInv, Restart
<1>11. ProvidersHaveKeys'
  BY <1>7, EnvIsServable DEF ProvidersHaveKeys, ConfigIInv, Restart, Uncommitted
<1>12. Numbered' /\ PatchesAreInformed'
  BY DEF ConfigIInv, Numbered, PatchesAreInformed, Restart, Uncommitted
<1> QED
  BY <1>6, <1>8, <1>9, <1>10, <1>11, <1>12 DEF ConfigIInv

\* Neither the clock nor a stutter says anything about patches.
LEMMA IdlePreserves ==
  ASSUME ConfigIInv, second' \in 2..MaxSeconds, Uncommitted,
         UNCHANGED <<patch, snapshot, reload, serving, begun, failures, promised, torn, outrun>>
  PROVE  ConfigIInv'
<1>1. ConfigTypeOK'
  BY DEF ConfigIInv, ConfigTypeOK, Uncommitted, Fitting
<1>2. \A r \in Operators : Sound(r)'
  BY DEF ConfigIInv, Sound, Asked, DecidedWell, SameVersion, Reloads, Uncommitted
<1>3. (\A p \in Processes : Promises(p)') /\ Numbered'
  BY DEF ConfigIInv, Promises, Numbered, Uncommitted
<1>4. OwnPatchIsSeen' /\ PatchesAreInformed' /\ ProvidersHaveKeys'
  BY DEF ConfigIInv, OwnPatchIsSeen, PatchesAreInformed, ProvidersHaveKeys, Uncommitted
<1> QED
  BY <1>1, <1>2, <1>3, <1>4 DEF ConfigIInv

-----------------------------------------------------------------------------

LEMMA ConfigStep == ConfigIInv /\ [ConfigNext]_configVars => ConfigIInv'
<1> SUFFICES ASSUME ConfigIInv, [ConfigNext]_configVars PROVE ConfigIInv'
  OBVIOUS
<1>1. CASE UNCHANGED configVars
  BY <1>1, IdlePreserves DEF configVars, Uncommitted, ConfigIInv, ConfigTypeOK
<1>2. CASE Elapse
  <2>1. second' \in 2..MaxSeconds
    BY <1>2, ConfigAssumption DEF Elapse, ConfigIInv, ConfigTypeOK
  <2> QED
    BY <1>2, <2>1, IdlePreserves DEF Elapse
<1>3. ASSUME NEW r \in Operators, NEW p \in Processes, NEW q \in Processes, NEW w \in Wishes,
             NEW conditional \in BOOLEAN, BeginPatch(r, p, w, q, conditional)
      PROVE  ConfigIInv'
  BY <1>3, BeginPreserves
<1>4. ASSUME NEW r \in Operators, Handle(r)
      PROVE  ConfigIInv'
  <2>1. CASE ReadSetting(r)
    BY <2>1, ReadSettingPreserves
  <2>2. CASE ReadSettings(r)
    BY <2>2, ReadSettingsPreserves
  <2>3. CASE ReadKeys(r)
    BY <2>3, ReadKeysPreserves
  <2>4. CASE ReadCredential(r)
    BY <2>4, ReadCredentialPreserves
  <2>5. CASE Collide(r)
    BY <2>5, EndsPreserves DEF Collide, Untouched, ConfigIInv, ConfigTypeOK
  <2>6. CASE CommitPatch(r)
    BY <2>6, CommitPreserves
  <2>7. CASE RefreshKeys(r)
    BY <2>7, RefreshKeysPreserves
  <2>8. CASE RefreshSettings(r)
    BY <2>8, RefreshSettingsPreserves
  <2> QED
    BY <1>4, <2>1, <2>2, <2>3, <2>4, <2>5, <2>6, <2>7, <2>8 DEF Handle
<1>5. ASSUME NEW r \in Operators, RefreshFails(r)
      PROVE  ConfigIInv'
  <2>1. failures' \in 0..MaxFailures
    BY <1>5, ConfigAssumption DEF RefreshFails, ConfigIInv, ConfigTypeOK
  <2> QED
    BY <1>5, <2>1, EndsPreserves DEF RefreshFails
<1>6. ASSUME NEW p \in Processes, Refresh(p) \/ LoadFails(p) \/ Restart(p)
      PROVE  ConfigIInv'
  BY <1>6, LoadKeysPreserves, LoadSettingsPreserves, LoadFailsPreserves, RestartPreserves DEF Refresh
<1> QED
  BY <1>1, <1>2, <1>3, <1>4, <1>5, <1>6 DEF ConfigNext

\* Everything this module proves, at once.
THEOREM ConfigInvariant == ConfigSpec => []ConfigIInv
<1> QED
  BY ConfigInitially, ConfigStep, PTL DEF ConfigSpec

\* Rows, snapshots and what requests have in hand stay well typed.
THEOREM ConfigIsTyped == ConfigSpec => []ConfigTypeOK
<1>1. ConfigIInv => ConfigTypeOK
  BY DEF ConfigIInv
<1> QED
  BY <1>1, ConfigInvariant, PTL

\* As long as patches do not overlap, the provider the tables choose has a key, and the one
\* each process serves with, unless its snapshot was read across a commit.
THEOREM ChosenKeepsItsKey == ConfigSpec => []ProvidersHaveKeys
<1>1. ConfigIInv => ProvidersHaveKeys
  BY DEF ConfigIInv
<1> QED
  BY <1>1, ConfigInvariant, PTL

\* A process serves from nothing older than the patches it has answered, unless a reload was
\* overtaken by another.
THEOREM AcceptedIsSeen == ConfigSpec => []OwnPatchIsSeen
<1>1. ConfigIInv => OwnPatchIsSeen
  BY DEF ConfigIInv
<1> QED
  BY <1>1, ConfigInvariant, PTL

\* The conditions of the operator's console hold together.
THEOREM ConfigStaysKept == ConfigSpec => []ConfigIsKept
<1>1. ConfigIInv => ConfigIsKept
  BY DEF ConfigIInv, ConfigIsKept
<1> QED
  BY <1>1, ConfigInvariant, PTL

===============================================================================
