--------------------------- MODULE ChatTurnProofs ---------------------------
(***************************************************************************)
(* Proofs about ChatTurn for any handlers and any bounds: a call has one    *)
(* result and it is its row's, the history that is sent fits together and,  *)
(* while requests keep their order, is one the provider takes, and a        *)
(* subscriber pays for answers, once, and only for answers.                 *)
(***************************************************************************)
EXTENDS ChatTurn, FiniteSetTheorems, WellFoundedInduction, TLAPS

-----------------------------------------------------------------------------
(* First and last of a finite set of numbers.                              *)

\* A set of subsets of a finite set has a smallest one.
LEMMA Smallest ==
  ASSUME NEW S, IsFiniteSet(S), NEW Odd \in SUBSET SUBSET S, Odd # {}
  PROVE  \E T \in Odd : \A U \in SUBSET T : U # T => U \notin Odd
<1>1. Odd \subseteq FiniteSubsetsOf(S)
  BY FS_Subset DEF FiniteSubsetsOf
<1>2. \E T \in Odd : \A U \in Odd : ~ (<<U, T>> \in StrictSubsetOrdering(S))
  BY <1>1, FS_StrictSubsetOrderingWellFounded, WFMin, Zenon
<1> QED
  BY <1>2 DEF StrictSubsetOrdering

\* A finite set of numbers that is not empty has a last element, and Max is it.
LEMMA MaxIs ==
  ASSUME NEW D \in SUBSET Nat, IsFiniteSet(D), D # {}
  PROVE  Max(D) \in D /\ \A y \in D : y <= Max(D)
<1> DEFINE Above(x) == {y \in D : x < y}
           Odd == {Above(x) : x \in D}
<1>1. Odd \in SUBSET SUBSET D /\ Odd # {}
  OBVIOUS
<1>2. PICK T \in Odd : \A U \in SUBSET T : U # T => U \notin Odd
  <2> HIDE DEF Odd
  <2> QED
    BY <1>1, Smallest
<1>3. PICK x \in D : T = Above(x)
  OBVIOUS
<1>4. T = {}
  <2> SUFFICES ASSUME NEW y \in T
               PROVE  FALSE
    OBVIOUS
  <2>1. Above(y) \in SUBSET T /\ Above(y) # T
    <3>1. y \in D /\ x < y
      BY <1>3
    <3>2. y \notin Above(y) /\ \A z \in Above(y) : z \in Above(x)
      BY <3>1
    <3> QED
      BY <1>3, <3>2
  <2>2. Above(y) \in Odd
    OBVIOUS
  <2> QED
    BY <1>2, <2>1, <2>2
<1>5. \A y \in D : x >= y
  BY <1>3, <1>4
<1> QED
  BY <1>5 DEF Max

\* It has a first, and Min is it.
LEMMA MinIs ==
  ASSUME NEW D \in SUBSET Nat, IsFiniteSet(D), D # {}
  PROVE  Min(D) \in D /\ \A y \in D : Min(D) <= y
<1> DEFINE Below(x) == {y \in D : y < x}
           Odd == {Below(x) : x \in D}
<1>1. Odd \in SUBSET SUBSET D /\ Odd # {}
  OBVIOUS
<1>2. PICK T \in Odd : \A U \in SUBSET T : U # T => U \notin Odd
  <2> HIDE DEF Odd
  <2> QED
    BY <1>1, Smallest
<1>3. PICK x \in D : T = Below(x)
  OBVIOUS
<1>4. T = {}
  <2> SUFFICES ASSUME NEW y \in T
               PROVE  FALSE
    OBVIOUS
  <2>1. Below(y) \in SUBSET T /\ Below(y) # T
    <3>1. y \in D /\ y < x
      BY <1>3
    <3>2. y \notin Below(y) /\ \A z \in Below(y) : z \in Below(x)
      BY <3>1
    <3> QED
      BY <1>3, <3>2
  <2>2. Below(y) \in Odd
    OBVIOUS
  <2> QED
    BY <1>2, <2>1, <2>2
<1>5. \A y \in D : x =< y
  BY <1>3, <1>4
<1> QED
  BY <1>5 DEF Min

-----------------------------------------------------------------------------
(* Steps are added at the end of the history.                              *)

\* Newest is not below any step.
LEMMA NewestIs ==
  ASSUME NEW S, DOMAIN S \subseteq Nat, IsFiniteSet(DOMAIN S)
  PROVE  Newest(S) \in Nat /\ \A i \in DOMAIN S : i <= Newest(S)
  BY MaxIs DEF Newest

\* The places of a history with new steps.
LEMMA ExtendedIs ==
  ASSUME NEW S, DOMAIN S \subseteq Nat, IsFiniteSet(DOMAIN S), NEW T, NEW new \in Seq(T),
         NEW E, E = Extended(S, new), NEW n, n = Newest(S)
  PROVE  /\ DOMAIN E = DOMAIN S \cup n + 1 .. n + Len(new)
         /\ n \in Nat /\ IsFiniteSet(DOMAIN E)
<1>1. n \in Nat
  BY NewestIs
<1>2. DOMAIN E = DOMAIN S \cup n + 1 .. n + Len(new)
  BY DEF Extended
<1>3. IsFiniteSet(n + 1 .. n + Len(new))
  BY <1>1, FS_Interval
<1>4. IsFiniteSet(DOMAIN S \cup n + 1 .. n + Len(new))
  BY <1>3, FS_Union
<1>5. IsFiniteSet(DOMAIN E)
  BY <1>2, <1>4, Zenon
<1> QED
  BY <1>1, <1>2, <1>5

\* What is at those places.
LEMMA ExtendedAt ==
  ASSUME NEW S, DOMAIN S \subseteq Nat, IsFiniteSet(DOMAIN S), NEW T, NEW new \in Seq(T),
         NEW E, E = Extended(S, new), NEW n, n = Newest(S)
  PROVE  /\ \A i \in DOMAIN S : i <= n /\ E[i] = S[i]
         /\ \A i \in n + 1 .. n + Len(new) : E[i] = new[i - n]
<1>1. n \in Nat /\ \A i \in DOMAIN S : i <= n
  BY NewestIs
<1> QED
  BY <1>1 DEF Extended

\* Step i is what it was, but for the marks of open transactions.
Stays(i) ==
  /\ steps'[i].role = steps[i].role /\ steps'[i].turn = steps[i].turn
  /\ steps'[i].uses = steps[i].uses /\ steps'[i].call = steps[i].call
  /\ steps'[i].mark = steps[i].mark

StepsTyped ==
  /\ steps \in [DOMAIN steps -> Step] /\ IsFiniteSet(DOMAIN steps)
  /\ DOMAIN steps \subseteq Nat \ {0}

\* What the fields of a step may be.
LEMMA StepFields ==
  ASSUME StepsTyped, NEW i \in DOMAIN steps
  PROVE  /\ steps[i] \in Step /\ i \in Nat
         /\ steps[i].role \in {"user", "assistant", "tool"} /\ steps[i].turn \in Turns
         /\ steps[i].uses \subseteq Calls /\ steps[i].call \in Calls \cup {0}
         /\ steps[i].mark \in {"none", "maxTokens", "turnFailed"}
         /\ steps[i].born \in Handlers \cup {Nobody} /\ steps[i].cut \in Handlers \cup {Nobody}
<1>1. steps[i] \in Step
  BY DEF StepsTyped
<1> QED
  BY <1>1 DEF StepsTyped, Step

\* What a commit leaves of the steps: those it did not delete, its own as everybody's, and
\* the new ones after them.
LEMMA CommitIs ==
  ASSUME StepsTyped, NEW h \in Handlers, NEW new \in Seq(Step), steps' = Committed(h, new)
  PROVE  /\ StepsTyped'
         /\ \E n \in Nat :
              /\ DOMAIN steps' = {i \in DOMAIN steps : steps[i].cut # h}
                                   \cup n + 1 .. n + Len(new)
              /\ \A i \in DOMAIN steps : steps[i].cut # h =>
                   /\ i <= n /\ Stays(i) /\ steps'[i].cut = steps[i].cut
                   /\ steps'[i].born = IF steps[i].born = h THEN Nobody ELSE steps[i].born
              /\ \A i \in n + 1 .. n + Len(new) : steps'[i] = new[i - n]
<1> DEFINE K == Kept(h)
           n == Newest(K)
<1>1. DOMAIN K = {i \in DOMAIN steps : steps[i].cut # h}
  BY DEF Kept
<1>2. IsFiniteSet(DOMAIN K) /\ DOMAIN K \subseteq Nat
  BY <1>1, FS_Subset DEF StepsTyped
<1>3. \A i \in DOMAIN K : K[i] \in Step
  <2> SUFFICES ASSUME NEW i \in DOMAIN K
               PROVE  K[i] \in Step
    OBVIOUS
  <2>1. steps[i] \in Step
    BY <1>1 DEF StepsTyped
  <2>2. [steps[i] EXCEPT !.born = Nobody] \in Step
    BY <2>1 DEF Step
  <2> QED
    BY <1>1, <2>1, <2>2 DEF Kept
<1>4. \A i \in DOMAIN K :
        /\ K[i].role = steps[i].role /\ K[i].turn = steps[i].turn /\ K[i].uses = steps[i].uses
        /\ K[i].call = steps[i].call /\ K[i].mark = steps[i].mark /\ K[i].cut = steps[i].cut
        /\ K[i].born = IF steps[i].born = h THEN Nobody ELSE steps[i].born
  <2> SUFFICES ASSUME NEW i \in DOMAIN K
               PROVE  <1>4!(i)
    OBVIOUS
  <2>1. steps[i] \in Step
    BY <1>1 DEF StepsTyped
  <2>2. K[i] = IF steps[i].born = h THEN [steps[i] EXCEPT !.born = Nobody] ELSE steps[i]
    BY <1>1 DEF Kept
  <2> QED
    BY <2>1, <2>2 DEF Step
<1> HIDE DEF K, n
<1>5. steps' = Extended(K, new)
  BY DEF Committed, K
<1>n. n = Newest(K)
  BY DEF n
<1>6. /\ DOMAIN steps' = DOMAIN K \cup n + 1 .. n + Len(new)
      /\ n \in Nat /\ IsFiniteSet(DOMAIN steps')
  BY <1>2, <1>5, <1>n, ExtendedIs, Zenon
<1>8. /\ \A i \in DOMAIN K : i <= n /\ steps'[i] = K[i]
      /\ \A i \in n + 1 .. n + Len(new) : steps'[i] = new[i - n]
  BY <1>2, <1>5, <1>n, ExtendedAt
<1>7. StepsTyped'
  <2>0. \A i \in DOMAIN K : i \in Nat \ {0}
    BY <1>1 DEF StepsTyped
  <2>3. \A i \in n + 1 .. n + Len(new) : i \in Nat \ {0}
    BY <1>6
  <2>1. \A i \in DOMAIN steps' : steps'[i] \in Step /\ i \in Nat \ {0}
    BY <1>3, <1>6, <1>8, <2>0, <2>3
  <2>2. steps' = [i \in DOMAIN steps' |-> steps'[i]]
    BY <1>5 DEF Extended
  <2> QED
    BY <1>6, <2>1, <2>2 DEF StepsTyped
<1>9. /\ DOMAIN steps' = {i \in DOMAIN steps : steps[i].cut # h} \cup n + 1 .. n + Len(new)
      /\ \A i \in n + 1 .. n + Len(new) : steps'[i] = new[i - n]
  BY <1>1, <1>6, <1>8
<1>10. \A i \in DOMAIN steps : steps[i].cut # h =>
         /\ i <= n /\ Stays(i) /\ steps'[i].cut = steps[i].cut
         /\ steps'[i].born = IF steps[i].born = h THEN Nobody ELSE steps[i].born
  BY <1>1, <1>4, <1>8 DEF Stays
<1> QED
  BY <1>6, <1>7, <1>9, <1>10, Zenon

\* What a rollback leaves of the steps.
LEMMA RollbackIs ==
  ASSUME StepsTyped, NEW h \in Handlers, steps' = RolledBackSteps(h)
  PROVE  /\ StepsTyped'
         /\ DOMAIN steps' = {i \in DOMAIN steps : steps[i].born # h}
         /\ \A i \in DOMAIN steps' :
              /\ Stays(i) /\ steps'[i].born = steps[i].born
              /\ steps'[i].cut = IF steps[i].cut = h THEN Nobody ELSE steps[i].cut
<1>1. DOMAIN steps' = {i \in DOMAIN steps : steps[i].born # h}
  BY DEF RolledBackSteps
<1>2. \A i \in DOMAIN steps' :
        /\ steps'[i] \in Step
        /\ Stays(i) /\ steps'[i].born = steps[i].born
        /\ steps'[i].cut = IF steps[i].cut = h THEN Nobody ELSE steps[i].cut
  <2> SUFFICES ASSUME NEW i \in DOMAIN steps'
               PROVE  <1>2!(i)
    OBVIOUS
  <2>1. steps[i] \in Step
    BY <1>1 DEF StepsTyped
  <2>2. steps'[i] = IF steps[i].cut = h THEN [steps[i] EXCEPT !.cut = Nobody] ELSE steps[i]
    BY <1>1 DEF RolledBackSteps
  <2> QED
    BY <2>1, <2>2 DEF Step, Stays
<1>3. StepsTyped'
  <2>1. IsFiniteSet(DOMAIN steps') /\ DOMAIN steps' \subseteq Nat \ {0}
    BY <1>1, FS_Subset DEF StepsTyped
  <2>2. steps' = [i \in DOMAIN steps' |-> steps'[i]]
    BY DEF RolledBackSteps
  <2> QED
    BY <1>2, <2>1, <2>2 DEF StepsTyped
<1> QED
  BY <1>1, <1>2, <1>3

\* An inserted step is the last.
LEMMA InsertIs ==
  ASSUME StepsTyped, NEW s \in Step, Insert(s)
  PROVE  /\ StepsTyped'
         /\ \E n \in Nat :
              /\ DOMAIN steps' = DOMAIN steps \cup {n} /\ n \notin DOMAIN steps
              /\ \A i \in DOMAIN steps : i < n /\ steps'[i] = steps[i]
              /\ steps'[n] = s
<1> DEFINE m == Newest(steps)
           new == <<s>>
<1>n. m = Newest(steps)
  OBVIOUS
<1>o. Len(new) = 1 /\ new[1] = s
  OBVIOUS
<1>0. DOMAIN steps \subseteq Nat /\ IsFiniteSet(DOMAIN steps)
  BY DEF StepsTyped
<1>5. new \in Seq(Step) /\ steps' = Extended(steps, new)
  BY DEF Insert
<1> HIDE DEF m, new
<1>6. /\ DOMAIN steps' = DOMAIN steps \cup m + 1 .. m + Len(new)
      /\ m \in Nat /\ IsFiniteSet(DOMAIN steps')
  BY <1>0, <1>5, <1>n, ExtendedIs, Zenon
<1>1. /\ \A i \in DOMAIN steps : i <= m /\ steps'[i] = steps[i]
      /\ \A i \in m + 1 .. m + Len(new) : steps'[i] = new[i - m]
  BY <1>0, <1>5, <1>n, ExtendedAt
<1>2. DOMAIN steps' = DOMAIN steps \cup {m + 1} /\ steps'[m + 1] = s /\ m + 1 \in Nat
  BY <1>o, <1>1, <1>6
<1>3. \A i \in DOMAIN steps : i < m + 1
  BY <1>1, <1>6 DEF StepsTyped
<1>4. StepsTyped'
  <2>0. m + 1 # 0
    BY <1>6
  <2>1. \A i \in DOMAIN steps' : steps'[i] \in Step /\ i \in Nat \ {0}
    BY <1>1, <1>2, <2>0 DEF StepsTyped
  <2>2. steps' = [i \in DOMAIN steps' |-> steps'[i]]
    BY DEF Insert, Extended
  <2> QED
    BY <1>6, <2>1, <2>2 DEF StepsTyped
<1> QED
  BY <1>1, <1>2, <1>3, <1>4

-----------------------------------------------------------------------------
(* A commit.                                                               *)

\* What a commit makes of a row.
LEMMA CommittedRowIs ==
  ASSUME NEW h \in Handlers, NEW c \in Calls, row[c] \in Row, NEW r, r = CommittedRow(h, c)
  PROVE  /\ r \in Row
         /\ row[c].by # h => r = row[c]
         /\ row[c].by = h /\ row[c].next = "none" => r = NoRow
         /\ row[c].by = h /\ row[c].next # "none" =>
              r.turn = row[c].turn /\ r.st = row[c].next /\ r.next = row[c].next /\ r.by = Nobody
<1>1. CASE row[c].by # h
  BY <1>1 DEF CommittedRow
<1>2. CASE row[c].by = h /\ row[c].next = "none"
  BY <1>2 DEF CommittedRow, NoRow, Row, Status
<1>3. CASE row[c].by = h /\ row[c].next # "none"
  <2>1. r = [row[c] EXCEPT !.st = row[c].next, !.by = Nobody]
    BY <1>3 DEF CommittedRow
  <2> QED
    BY <1>3, <2>1 DEF Row, Status
<1> QED
  BY <1>1, <1>2, <1>3

\* What a transaction adds as it commits: a step of the assistant with m new calls, and the
\* result of one of them that is not the device's.
Adds(new, m, device, t) ==
  /\ new \in Seq(Step) /\ Len(new) \in 0 .. 2 /\ device \subseteq Fresh(m)
  /\ Len(new) = 0 => m = 0
  /\ Len(new) >= 1 => /\ new[1].role = "assistant" /\ new[1].uses = Fresh(m) /\ new[1].turn = t
                      /\ new[1].born = Nobody /\ new[1].cut = Nobody
  /\ Len(new) = 2 => /\ new[2].role = "tool" /\ new[2].uses = {} /\ new[2].turn = t
                     /\ new[2].call \in Fresh(m) \ device
                     /\ new[2].born = Nobody /\ new[2].cut = Nobody

\* A commit, with all it adds, keeps steps and rows in agreement.
LEMMA CommitKeeps ==
  ASSUME ChatInv, UNCHANGED torn, NEW h \in Handlers, NEW new, NEW m \in Nat, NEW device, NEW t \in Turns,
         Adds(new, m, device, t), steps' = Committed(h, new),
         row' = [c \in Calls |-> IF c \in device THEN [turn |-> t, st |-> "pending",
                                                       next |-> "pending", by |-> Nobody]
                                 ELSE CommittedRow(h, c)],
         lastCall' = lastCall + m, lastCall + m <= MaxCalls,
         NEW r, req' = [req EXCEPT ![h] = r], r.todo = {}
  PROVE  StepsTyped' /\ StepsFit'
<1> DEFINE D == {i \in DOMAIN steps : steps[i].cut # h}
<1>1. StepsTyped /\ lastCall \in Nat /\ MaxCalls \in Nat /\ Nobody \notin Handlers
  BY ChatAssumption DEF ChatInv, TypeOK, StepsTyped
<1>2. StepsTyped'
  BY <1>1, CommitIs DEF Adds
<1>3. PICK n \in Nat :
        /\ DOMAIN steps' = D \cup n + 1 .. n + Len(new)
        /\ \A i \in DOMAIN steps : steps[i].cut # h =>
             /\ i <= n /\ Stays(i) /\ steps'[i].cut = steps[i].cut
             /\ steps'[i].born = IF steps[i].born = h THEN Nobody ELSE steps[i].born
        /\ \A i \in n + 1 .. n + Len(new) : steps'[i] = new[i - n]
  BY <1>1, CommitIs DEF Adds
<1>4. \A i \in DOMAIN steps' \ D :
        /\ i > n /\ steps'[i].born = Nobody /\ steps'[i].cut = Nobody /\ steps'[i].turn = t
        /\ \/ i = n + 1 /\ steps'[i].role = "assistant" /\ steps'[i].uses = Fresh(m)
           \/ /\ i = n + 2 /\ steps'[i].role = "tool" /\ steps'[i].uses = {}
              /\ steps'[i].call \in Fresh(m) \ device
  <2> SUFFICES ASSUME NEW i \in DOMAIN steps' \ D
               PROVE  <1>4!(i)
    OBVIOUS
  <2>1. i \in n + 1 .. n + Len(new) /\ Len(new) \in 0 .. 2
    BY <1>3 DEF Adds
  <2>2. \/ i = n + 1 /\ Len(new) >= 1 /\ i - n = 1
        \/ i = n + 2 /\ Len(new) = 2 /\ i - n = 2
    <3> DEFINE l == Len(new)
    <3>1. l \in {0, 1, 2} /\ i \in n + 1 .. n + l
      BY <2>1
    <3> HIDE DEF l
    <3>2. \/ i = n + 1 /\ l >= 1 /\ i - n = 1
          \/ i = n + 2 /\ l = 2 /\ i - n = 2
      BY <3>1
    <3> QED
      BY <3>2 DEF l
  <2> QED
    BY <1>3, <2>1, <2>2 DEF Adds
<1>5. \A i \in D : /\ i \in DOMAIN steps /\ i \in DOMAIN steps' /\ i <= n /\ i \in Nat
                   /\ steps'[i].role = steps[i].role /\ steps'[i].turn = steps[i].turn
                   /\ steps'[i].uses = steps[i].uses /\ steps'[i].call = steps[i].call
                   /\ steps'[i].cut = steps[i].cut /\ steps[i].cut # h
                   /\ steps'[i].born = IF steps[i].born = h THEN Nobody ELSE steps[i].born
  BY <1>1, <1>3 DEF Stays, StepsTyped
<1>6. (DOMAIN steps' \ D # {}) => n + 1 \in DOMAIN steps' \ D /\ steps'[n + 1].uses = Fresh(m)
  <2>1. ASSUME NEW i \in DOMAIN steps' \ D
        PROVE  Len(new) \in 1 .. 2
    BY <1>3 DEF Adds
  <2>2. ASSUME Len(new) \in 1 .. 2
        PROVE  n + 1 \in DOMAIN steps' /\ n + 1 \notin D
    <3> DEFINE l == Len(new)
    <3>1. l \in {1, 2}
      BY <2>2
    <3> HIDE DEF l
    <3>2. n + 1 \in n + 1 .. n + l
      BY <3>1
    <3>3. n + 1 \in n + 1 .. n + Len(new)
      BY <3>2, Zenon DEF l
    <3>4. n + 1 \notin D
      BY <1>5
    <3> QED
      BY <1>3, <3>3, <3>4
  <2> QED
    BY <1>4, <2>1, <2>2
<1>7. \A c \in Calls : /\ c \in Nat
                       /\ c <= lastCall => c \notin Fresh(m)
                       /\ c \in Fresh(m) => c > lastCall /\ c <= lastCall + m
  BY <1>1 DEF Fresh, Calls
<1>8. \A c \in Calls : /\ c \notin device => row'[c] = CommittedRow(h, c)
                       /\ c \in device => row'[c] = [turn |-> t, st |-> "pending",
                                                     next |-> "pending", by |-> Nobody]
  OBVIOUS
<1>9. device \subseteq Fresh(m) /\ (device # {} => n + 1 \in DOMAIN steps' \ D)
  <2>1. ASSUME device # {}
        PROVE  n + 1 \in DOMAIN steps' \ D
    <3>3. PICK x \in device : x \in lastCall + 1 .. lastCall + m
      BY <2>1 DEF Adds, Fresh
    <3>0. m # 0
      BY <1>1, <3>3
    <3>1. Len(new) \in 1 .. 2
      BY <3>0 DEF Adds
    <3> DEFINE l == Len(new)
    <3>5. l \in {1, 2}
      BY <3>1
    <3> HIDE DEF l
    <3>6. n + 1 \in n + 1 .. n + l
      BY <3>5
    <3>2. n + 1 \in n + 1 .. n + Len(new)
      BY <3>6, Zenon DEF l
    <3>4. n + 1 \notin D
      BY <1>5
    <3> QED
      BY <1>3, <3>2, <3>4
  <2> QED
    BY <2>1 DEF Adds
<1> HIDE DEF D
<1>10. DeletedOnceCommitted'
  BY <1>4, <1>5 DEF DeletedOnceCommitted, ChatInv, StepsFit
<1>11. AskedOnce'
  <2>1. AskedOnce
    BY DEF ChatInv, StepsFit
  <2>2. \A i \in DOMAIN steps' : steps'[i].role = "tool" => steps'[i].call # 0
    <3>1. 0 \notin Fresh(m)
      BY <1>1 DEF Fresh
    <3> QED
      BY <1>4, <1>5, <2>1, <3>1 DEF AskedOnce
  <2>3. \A i \in DOMAIN steps', c \in Calls :
          Asks(i, c)' => c <= lastCall' /\ steps'[i].role = "assistant"
    BY <1>1, <1>4, <1>5, <1>7, <2>1 DEF AskedOnce, Asks
  <2>4. \A i, j \in DOMAIN steps', c \in Calls : Asks(i, c)' /\ Asks(j, c)' => i = j
    BY <1>1, <1>4, <1>5, <1>7, <2>1 DEF AskedOnce, Asks
  <2> QED
    BY <2>2, <2>3, <2>4 DEF AskedOnce
<1>0. \A i \in DOMAIN steps : i \in D <=> steps[i].cut # h
  BY DEF D
<1>12. ASSUME NEW c \in Calls
       PROVE  RowLives(c)' /\ RowHasStep(c)'
  <2>1. RowLives(c) /\ RowHasStep(c) /\ row[c] \in Row /\ req' = [req EXCEPT ![h] = r]
        /\ req \in [Handlers -> Request]
    BY DEF ChatInv, StepsFit, TypeOK
  <2>2. CASE c \in device
    <3>1. row'[c] = [turn |-> t, st |-> "pending", next |-> "pending", by |-> Nobody]
          /\ c \in Fresh(m) /\ t # 0
      BY <1>8, <1>9, <2>2 DEF Turns
    <3>2. RowLives(c)'
      BY <1>7, <3>1 DEF RowLives
    <3>3. n + 1 \in DOMAIN steps' /\ c \in steps'[n + 1].uses /\ steps'[n + 1].turn = t
          /\ steps'[n + 1].born = Nobody /\ steps'[n + 1].cut = Nobody
      BY <1>4, <1>6, <1>9, <2>2, <3>1
    <3> QED
      BY <3>1, <3>2, <3>3 DEF RowHasStep, Asks
  <2>3. CASE c \notin device /\ row[c].by # h
    <3>1. row'[c] = row[c]
      BY <1>8, <2>3 DEF CommittedRow
    <3>2. RowLives(c)'
      <4>1. row[c].by # Nobody => req'[row[c].by] = req[row[c].by]
        BY <2>1, <2>3 DEF Row
      <4> QED
        BY <1>1, <2>1, <3>1, <4>1 DEF RowLives, Calls
    <3>3. RowHasStep(c)'
      <4> SUFFICES ASSUME row[c] # NoRow, c \notin torn
                   PROVE  RowHasStep(c)'
        BY <3>1 DEF RowHasStep
      <4>1. PICK i \in DOMAIN steps :
              /\ Asks(i, c) /\ steps[i].turn = row[c].turn
              /\ steps[i].born = IF row[c].st = "none" THEN row[c].by ELSE Nobody
              /\ steps[i].cut # Nobody => row[c].by = steps[i].cut /\ row[c].next = "none"
        BY <2>1 DEF RowHasStep
      <4>2. i \in D
        BY <1>0, <1>1, <2>3, <4>1
      <4> QED
        BY <1>1, <1>5, <2>3, <3>1, <4>1, <4>2 DEF RowHasStep, Asks
    <3> QED
      BY <3>2, <3>3
  <2>4. CASE c \notin device /\ row[c].by = h
    <3>1. row'[c] = CommittedRow(h, c)
      BY <1>8, <2>4
    <3>2. CASE row[c].next = "none"
      BY <2>1, <2>4, <3>1, <3>2, CommittedRowIs DEF RowLives, RowHasStep
    <3>3. CASE row[c].next # "none"
      <4>1. /\ row'[c].turn = row[c].turn /\ row'[c].st = row[c].next /\ row'[c].next = row[c].next
            /\ row'[c].by = Nobody
        BY <2>1, <2>4, <3>1, <3>3, CommittedRowIs
      <4>6. row[c] # NoRow
        BY <1>1, <2>4 DEF NoRow
      <4>7. row[c].turn # 0 /\ c <= lastCall /\ row[c].next \in {"pending", "done"}
        BY <1>1, <2>1, <2>4, <3>3, <4>6 DEF RowLives
      <4>8. c <= lastCall'
        BY <1>1, <1>7, <4>7
      <4>2. RowLives(c)'
        BY <4>1, <4>7, <4>8 DEF RowLives
      <4> SUFFICES ASSUME c \notin torn
                   PROVE  RowHasStep(c)'
        BY <4>2 DEF RowHasStep
      <4>3. PICK i \in DOMAIN steps :
              /\ Asks(i, c) /\ steps[i].turn = row[c].turn
              /\ steps[i].born = IF row[c].st = "none" THEN row[c].by ELSE Nobody
              /\ steps[i].cut # Nobody => row[c].by = steps[i].cut /\ row[c].next = "none"
        BY <2>1, <4>6 DEF RowHasStep
      <4>4. i \in D /\ steps[i].cut = Nobody
        BY <1>0, <1>1, <3>3, <4>3
      <4>5. row'[c].st # "none"
        BY <3>3, <4>1
      <4> QED
        BY <1>1, <1>5, <2>4, <4>1, <4>2, <4>3, <4>4, <4>5 DEF RowHasStep, Asks
    <3> QED
      BY <3>2, <3>3
  <2> QED
    BY <2>2, <2>3, <2>4
<1>13. ASSUME NEW c \in Calls, NEW k \in ResultsIn(steps, c)'
       PROVE  ResultsIn(steps, c)' = {k} /\ ResultFits(c, k)'
  <2>1. \A j \in DOMAIN steps : j \in ResultsIn(steps, c) <=> steps[j].role = "tool" /\ steps[j].call = c
    BY DEF ResultsIn, IndexesOf
  <2>2. \A j \in DOMAIN steps' :
          j \in ResultsIn(steps, c)' <=> steps'[j].role = "tool" /\ steps'[j].call = c
    BY DEF ResultsIn, IndexesOf
  <2>3. k \in DOMAIN steps' /\ ResultsIn(steps, c)' \subseteq DOMAIN steps'
    BY DEF ResultsIn, IndexesOf
  <2>4. CASE c <= lastCall
    <3>1. \A j \in ResultsIn(steps, c)' : j \in D /\ j \in ResultsIn(steps, c)
      BY <1>4, <1>5, <1>7, <2>1, <2>2, <2>3, <2>4
    <3>2. ResultsIn(steps, c) = {k} /\ ResultFits(c, k)
      BY <3>1 DEF ChatInv, StepsFit
    <3>3. ResultsIn(steps, c)' = {k} /\ k \in D
      BY <3>1, <3>2
    <3>4. ASSUME c \notin torn
          PROVE  \E i \in DOMAIN steps' : /\ i < k /\ Asks(i, c)'
                                         /\ steps'[i].born \in {Nobody, steps'[k].born}
                                         /\ steps'[i].cut \in {Nobody, steps'[k].cut}
      <4>1. PICK i \in DOMAIN steps : /\ i < k /\ Asks(i, c)
                                      /\ steps[i].born \in {Nobody, steps[k].born}
                                      /\ steps[i].cut \in {Nobody, steps[k].cut}
        BY <3>2, <3>4 DEF ResultFits
      <4>2. i \in D
        BY <1>0, <1>1, <1>5, <3>3, <4>1
      <4> QED
        BY <1>5, <3>3, <4>1, <4>2 DEF Asks
    <3>9. \A i \in DOMAIN steps' : Asks(i, c)' => i < k
      BY <1>4, <1>5, <1>7, <2>4, <3>2 DEF ResultFits, Asks
    <3>5. c \notin device
      BY <1>7, <1>9, <2>4
    <3>6. row[c] \in Row /\ row'[c] = CommittedRow(h, c)
      BY <1>8, <3>5 DEF ChatInv, TypeOK
    <3>7. steps[k].born \in Handlers \cup {Nobody}
      BY <1>1, <1>5, <3>3, StepFields
    <3>8. IF steps'[k].born = Nobody
          THEN row'[c].turn # 0 => row'[c].turn = steps'[k].turn /\ row'[c].st = "done"
          ELSE row'[c].by = steps'[k].born /\ row'[c].turn = steps'[k].turn
               /\ row'[c].st = "pending" /\ row'[c].next = "done"
      <4>1. steps[k].born # Nobody => steps[k].cut = Nobody
        BY <1>5, <3>3 DEF ChatInv, StepsFit, DeletedOnceCommitted
      <4>2. CASE steps[k].born # Nobody
        <5>1. /\ row[c].by = steps[k].born /\ row[c].turn = steps[k].turn
              /\ row[c].st = "pending" /\ row[c].next = "done"
          BY <3>2, <4>2 DEF ResultFits
        <5>2. CASE steps[k].born = h
          <6>1. row[c].by = h /\ row[c].next = "done"
            BY <5>1, <5>2
          <6>2. row'[c].st = "done" /\ row'[c].turn = row[c].turn
            BY <3>6, <6>1, CommittedRowIs
          <6>3. steps'[k].born = Nobody /\ steps'[k].cut = Nobody /\ steps'[k].turn = steps[k].turn
            BY <1>1, <1>5, <3>3, <4>1, <4>2, <5>2
          <6> QED
            BY <5>1, <6>2, <6>3
        <5>3. CASE steps[k].born # h
          <6>1. row'[c] = row[c]
            BY <3>6, <5>1, <5>3, CommittedRowIs
          <6>2. steps'[k].born = steps[k].born /\ steps'[k].turn = steps[k].turn
            BY <1>5, <3>3, <5>3
          <6> QED
            BY <4>2, <5>1, <6>1, <6>2
        <5> QED
          BY <5>2, <5>3
      <4>3. CASE steps[k].born = Nobody
        <5>1. steps'[k].born = Nobody /\ steps'[k].cut = steps[k].cut /\ steps'[k].cut # h
              /\ steps'[k].turn = steps[k].turn
          BY <1>1, <1>5, <3>3, <4>3
        <5>2. row[c].turn # 0 => row[c].turn = steps[k].turn /\ row[c].st = "done"
          BY <3>2, <4>3 DEF ResultFits
        <5>3. CASE row[c].by # h
          BY <3>6, <5>1, <5>2, <5>3, CommittedRowIs
        <5>4. CASE row[c].by = h /\ row[c].next = "none"
          BY <3>6, <5>1, <5>4, CommittedRowIs DEF NoRow
        <5>5. CASE row[c].by = h /\ row[c].next # "none"
          <6>1. row[c].next = "done" \/ row[c].st # "done" \/ row[c].turn = 0
            BY <1>1, <5>5 DEF ChatInv, StepsFit, RowLives, NoRow
          <6> QED
            BY <1>1, <3>6, <5>1, <5>2, <5>5, <6>1, CommittedRowIs
        <5> QED
          BY <5>3, <5>4, <5>5
      <4> QED
        BY <4>2, <4>3
    <3> QED
      BY <1>1, <2>4, <3>3, <3>4, <3>8, <3>9 DEF ResultFits, Calls
  <2>5. CASE ~ (c <= lastCall)
    <3>1. \A j \in ResultsIn(steps, c) : FALSE
      BY <2>5 DEF ChatInv, StepsFit, ResultFits
    <3>2. \A j \in ResultsIn(steps, c)' : j = n + 2 /\ j \notin D /\ c \in Fresh(m) \ device
      BY <1>4, <1>5, <2>1, <2>2, <2>3, <3>1
    <3>3. ResultsIn(steps, c)' = {k} /\ k = n + 2 /\ k \in DOMAIN steps' \ D
      BY <2>3, <3>2
    <3>4. row[c] = NoRow
      BY <2>5, <1>1, <1>7 DEF ChatInv, StepsFit, RowLives
    <3>5. row'[c] = NoRow
      <4>1. row'[c] = CommittedRow(h, c) /\ row[c] \in Row
        BY <1>8, <2>3, <3>2 DEF ChatInv, TypeOK
      <4> QED
        BY <1>1, <3>4, <4>1, CommittedRowIs DEF NoRow
    <3>6. n + 1 \in DOMAIN steps' /\ n + 1 < k /\ Asks(n + 1, c)' /\ steps'[n + 1].born = Nobody
          /\ steps'[n + 1].cut = Nobody
      BY <1>4, <1>6, <3>2, <3>3 DEF Asks
    <3>7. steps'[k].born = Nobody /\ row'[c].turn = 0 /\ c <= lastCall'
      BY <1>4, <1>7, <3>2, <3>3, <3>5 DEF NoRow
    <3>8. \A i \in DOMAIN steps' : Asks(i, c)' => i < k
      BY <1>11, <3>6 DEF AskedOnce
    <3> QED
      BY <3>3, <3>6, <3>7, <3>8 DEF ResultFits
  <2> QED
    BY <2>4, <2>5
<1>14. ASSUME NEW g \in Handlers
       PROVE  RestsClean(g)' /\ TodoFits(g)'
  <2>1. RestsClean(g) /\ TodoFits(g) /\ req \in [Handlers -> Request] /\ g # Nobody
    BY <1>1 DEF ChatInv, StepsFit, TypeOK
  <2>2. \A c \in Calls : row'[c].by = g => g # h /\ row[c].by = g
    <3> SUFFICES ASSUME NEW c \in Calls, row'[c].by = g
                 PROVE  g # h /\ row[c].by = g
      OBVIOUS
    <3>1. row'[c] = CommittedRow(h, c) /\ row[c] \in Row
      BY <1>8, <2>1 DEF ChatInv, TypeOK
    <3> QED
      BY <2>1, <3>1 DEF CommittedRow, Row, NoRow
  <2>3. \A i \in DOMAIN steps' : /\ steps'[i].born = g => i \in D /\ g # h /\ steps[i].born = g
                                 /\ steps'[i].cut = g => i \in D /\ g # h /\ steps[i].cut = g
    BY <1>4, <1>5, <2>1
  <2>4. g # h => req'[g] = req[g]
    BY <2>1
  <2>5. req'[h].todo = {}
    BY <2>1
  <2>6. RestsClean(g)'
    BY <1>5, <2>1, <2>2, <2>3, <2>4 DEF RestsClean
  <2>7. TodoFits(g)'
    <3> SUFFICES ASSUME NEW c \in req'[g].todo
                 PROVE  req'[g].pc = "apply" /\ c <= lastCall' /\ row'[c].turn \in {0, req'[g].turn}
      BY DEF TodoFits
    <3>1. g # h
      BY <2>5
    <3>2. c \in req[g].todo /\ c \in Calls /\ req'[g] = req[g]
      BY <2>1, <2>4, <3>1 DEF Request
    <3>3. c <= lastCall /\ req[g].pc = "apply" /\ row[c].turn \in {0, req[g].turn}
      BY <2>1, <3>2 DEF TodoFits
    <3>4. row'[c] = CommittedRow(h, c) /\ row[c] \in Row
      BY <1>7, <1>8, <1>9, <3>2, <3>3 DEF ChatInv, TypeOK
    <3>5. row'[c].turn \in {0, req[g].turn}
      BY <2>1, <3>2, <3>3, <3>4, CommittedRowIs DEF NoRow
    <3> QED
      BY <1>1, <1>7, <3>2, <3>3, <3>5
  <2> QED
    BY <2>6, <2>7
<1> QED
  BY <1>2, <1>10, <1>11, <1>12, <1>13, <1>14 DEF StepsFit

-----------------------------------------------------------------------------
(* A rollback.                                                             *)

\* What a rollback makes of a row.
LEMMA RolledBackRowIs ==
  ASSUME NEW h \in Handlers, NEW c \in Calls, row[c] \in Row, Rollback(h)
  PROVE  /\ row'[c] \in Row
         /\ row[c].by # h => row'[c] = row[c]
         /\ row[c].by = h /\ row[c].st = "none" => row'[c] = NoRow
         /\ row[c].by = h /\ row[c].st # "none" =>
              /\ row'[c].turn = row[c].turn /\ row'[c].st = row[c].st
              /\ row'[c].next = row[c].st /\ row'[c].by = Nobody
<1>0. row'[c] = IF row[c].by # h THEN row[c]
                ELSE IF row[c].st = "none" THEN NoRow
                ELSE [row[c] EXCEPT !.next = row[c].st, !.by = Nobody]
  BY DEF Rollback
<1>1. CASE row[c].by # h
  BY <1>0, <1>1
<1>2. CASE row[c].by = h /\ row[c].st = "none"
  BY <1>0, <1>2 DEF NoRow, Row, Status
<1>3. CASE row[c].by = h /\ row[c].st # "none"
  <2>1. row'[c] = [row[c] EXCEPT !.next = row[c].st, !.by = Nobody]
    BY <1>0, <1>3
  <2> QED
    BY <1>3, <2>1 DEF Row, Status
<1> QED
  BY <1>1, <1>2, <1>3

\* A rollback keeps steps and rows in agreement.
LEMMA RollbackKeeps ==
  ASSUME ChatInv, UNCHANGED torn, NEW h \in Handlers, Rollback(h), Done(h), lastCall' = lastCall
  PROVE  StepsTyped' /\ StepsFit'
<1>0. StepsTyped /\ lastCall \in Nat
  BY ChatAssumption DEF ChatInv, TypeOK, StepsTyped
<1>1. StepsTyped /\ lastCall \in Nat /\ Nobody \notin Handlers /\ steps' = RolledBackSteps(h)
  BY <1>0, ChatAssumption DEF Rollback
<1>2. StepsTyped' /\ DOMAIN steps' = {i \in DOMAIN steps : steps[i].born # h}
  BY <1>1, RollbackIs
<1>3. \A i \in DOMAIN steps' :
        /\ i \in DOMAIN steps /\ steps[i].born # h /\ Stays(i) /\ steps'[i].born = steps[i].born
        /\ steps'[i].cut = IF steps[i].cut = h THEN Nobody ELSE steps[i].cut
  BY <1>1, <1>2, RollbackIs
<1>4. \A i \in DOMAIN steps : steps[i].born # h => i \in DOMAIN steps'
  BY <1>2
<1>5. \A c \in Calls :
        /\ row[c] \in Row /\ row'[c] \in Row
        /\ row[c].by # h => row'[c] = row[c]
        /\ row[c].by = h /\ row[c].st = "none" => row'[c] = NoRow
        /\ row[c].by = h /\ row[c].st # "none" =>
             /\ row'[c].turn = row[c].turn /\ row'[c].st = row[c].st
             /\ row'[c].next = row[c].st /\ row'[c].by = Nobody
  BY RolledBackRowIs DEF ChatInv, TypeOK
<1>6. req \in [Handlers -> Request] /\ req' = [req EXCEPT ![h] = Idle]
  BY DEF ChatInv, TypeOK, Done
<1>10. DeletedOnceCommitted'
  BY <1>3 DEF DeletedOnceCommitted, ChatInv, StepsFit
<1>11. AskedOnce'
  BY <1>3 DEF AskedOnce, Asks, Stays, ChatInv, StepsFit
<1>12. ASSUME NEW c \in Calls
       PROVE  RowLives(c)' /\ RowHasStep(c)'
  <2>1. RowLives(c) /\ RowHasStep(c) /\ row[c] \in Row
    BY <1>5 DEF ChatInv, StepsFit
  <2>2. CASE row[c].by # h
    <3>1. row'[c] = row[c]
      BY <1>5, <2>2
    <3>2. RowLives(c)'
      <4>1. row[c].by # Nobody => req'[row[c].by] = req[row[c].by]
        BY <1>6, <2>1, <2>2 DEF Row
      <4> QED
        BY <2>1, <3>1, <4>1 DEF RowLives
    <3>3. RowHasStep(c)'
      <4> SUFFICES ASSUME row[c] # NoRow, c \notin torn
                   PROVE  RowHasStep(c)'
        BY <3>1 DEF RowHasStep
      <4>1. PICK i \in DOMAIN steps :
              /\ Asks(i, c) /\ steps[i].turn = row[c].turn
              /\ steps[i].born = IF row[c].st = "none" THEN row[c].by ELSE Nobody
              /\ steps[i].cut # Nobody => row[c].by = steps[i].cut /\ row[c].next = "none"
        BY <2>1 DEF RowHasStep
      <4>2. i \in DOMAIN steps'
        BY <1>1, <1>4, <2>2, <4>1
      <4> QED
        BY <1>1, <1>3, <2>2, <3>1, <4>1, <4>2 DEF RowHasStep, Asks, Stays
    <3> QED
      BY <3>2, <3>3
  <2>3. CASE row[c].by = h /\ row[c].st = "none"
    BY <1>5, <2>3 DEF RowLives, RowHasStep
  <2>4. CASE row[c].by = h /\ row[c].st # "none"
    <3>1. /\ row'[c].turn = row[c].turn /\ row'[c].st = row[c].st
          /\ row'[c].next = row[c].st /\ row'[c].by = Nobody
      BY <1>5, <2>4
    <3>2. row[c] # NoRow
      BY <2>4 DEF NoRow
    <3>3. RowLives(c)'
      BY <1>1, <2>1, <2>4, <3>1, <3>2 DEF RowLives
    <3> SUFFICES ASSUME c \notin torn
                 PROVE  RowHasStep(c)'
      BY <3>3 DEF RowHasStep
    <3>4. PICK i \in DOMAIN steps :
            /\ Asks(i, c) /\ steps[i].turn = row[c].turn
            /\ steps[i].born = IF row[c].st = "none" THEN row[c].by ELSE Nobody
            /\ steps[i].cut # Nobody => row[c].by = steps[i].cut /\ row[c].next = "none"
      BY <2>1, <3>2 DEF RowHasStep
    <3>5. i \in DOMAIN steps'
      BY <1>1, <1>4, <2>4, <3>4
    <3> QED
      BY <1>1, <1>3, <2>4, <3>1, <3>3, <3>4, <3>5 DEF RowHasStep, Asks, Stays
  <2> QED
    BY <2>2, <2>3, <2>4
<1>13. ASSUME NEW c \in Calls, NEW k \in ResultsIn(steps, c)'
       PROVE  ResultsIn(steps, c)' = {k} /\ ResultFits(c, k)'
  <2>1. \A j \in ResultsIn(steps, c)' : j \in DOMAIN steps' /\ j \in ResultsIn(steps, c)
    BY <1>3 DEF ResultsIn, IndexesOf, Stays
  <2>2. ResultsIn(steps, c) = {k} /\ ResultFits(c, k)
    BY <2>1 DEF ChatInv, StepsFit
  <2>3. ResultsIn(steps, c)' = {k} /\ k \in DOMAIN steps' /\ k \in DOMAIN steps
    BY <1>3, <2>1, <2>2
  <2>4. ASSUME c \notin torn
        PROVE  \E i \in DOMAIN steps' : /\ i < k /\ Asks(i, c)'
                                       /\ steps'[i].born \in {Nobody, steps'[k].born}
                                       /\ steps'[i].cut \in {Nobody, steps'[k].cut}
    <3>1. PICK i \in DOMAIN steps : /\ i < k /\ Asks(i, c)
                                    /\ steps[i].born \in {Nobody, steps[k].born}
                                    /\ steps[i].cut \in {Nobody, steps[k].cut}
      BY <2>2, <2>4 DEF ResultFits
    <3>2. i \in DOMAIN steps'
      BY <1>1, <1>3, <1>4, <2>3, <3>1
    <3> QED
      BY <1>3, <2>3, <3>1, <3>2 DEF Asks, Stays
  <2>5. IF steps'[k].born = Nobody
        THEN row'[c].turn # 0 => row'[c].turn = steps'[k].turn /\ row'[c].st = "done"
        ELSE row'[c].by = steps'[k].born /\ row'[c].turn = steps'[k].turn
             /\ row'[c].st = "pending" /\ row'[c].next = "done"
    <3>1. steps'[k].turn = steps[k].turn /\ steps'[k].born = steps[k].born /\ steps[k].born # h
          /\ steps'[k].cut = IF steps[k].cut = h THEN Nobody ELSE steps[k].cut
      BY <1>3, <2>3 DEF Stays
    <3>2. CASE row[c].by # h
      <4>1. row'[c] = row[c]
        BY <1>5, <3>2
      <4> QED
        BY <2>2, <3>1, <4>1 DEF ResultFits
    <3>3. CASE row[c].by = h /\ row[c].st = "none"
      <4>1. steps[k].born = Nobody /\ row'[c].turn = 0
        BY <1>5, <2>2, <3>1, <3>3 DEF ResultFits, NoRow
      <4> QED
        BY <3>1, <4>1
    <3>4. CASE row[c].by = h /\ row[c].st # "none"
      BY <1>5, <2>2, <3>1, <3>4 DEF ResultFits
    <3> QED
      BY <3>2, <3>3, <3>4
  <2>6. c <= lastCall' /\ \A i \in DOMAIN steps' : Asks(i, c)' => i < k
    BY <1>3, <2>2 DEF ResultFits, Asks, Stays
  <2> QED
    BY <2>3, <2>4, <2>5, <2>6 DEF ResultFits
<1>14. ASSUME NEW g \in Handlers
       PROVE  RestsClean(g)' /\ TodoFits(g)'
  <2>1. RestsClean(g) /\ TodoFits(g) /\ g # Nobody
    BY <1>1 DEF ChatInv, StepsFit
  <2>2. \A c \in Calls : row'[c].by = g => g # h /\ row[c].by = g
    BY <1>5, <2>1 DEF NoRow
  <2>3. \A i \in DOMAIN steps' : /\ steps'[i].born = g => i \in DOMAIN steps /\ g # h /\ steps[i].born = g
                                 /\ steps'[i].cut = g => i \in DOMAIN steps /\ g # h /\ steps[i].cut = g
    BY <1>3, <2>1
  <2>4. IF g = h THEN req'[g] = Idle ELSE req'[g] = req[g]
    BY <1>6
  <2>6. RestsClean(g)'
    BY <2>1, <2>2, <2>3, <2>4 DEF RestsClean
  <2>7. TodoFits(g)'
    <3> SUFFICES ASSUME NEW c \in req'[g].todo
                 PROVE  req'[g].pc = "apply" /\ c <= lastCall' /\ row'[c].turn \in {0, req'[g].turn}
      BY DEF TodoFits
    <3>1. req'[g] = req[g] /\ c \in Calls
      BY <1>6, <2>4 DEF Idle, Request
    <3>2. c <= lastCall /\ req[g].pc = "apply" /\ row[c].turn \in {0, req[g].turn}
      BY <2>1, <3>1 DEF TodoFits
    <3>3. row'[c].turn \in {0, req[g].turn}
      BY <1>5, <3>1, <3>2 DEF NoRow
    <3> QED
      BY <3>1, <3>2, <3>3
  <2> QED
    BY <2>6, <2>7
<1> QED
  BY <1>2, <1>10, <1>11, <1>12, <1>13, <1>14 DEF StepsFit

-----------------------------------------------------------------------------
(* Statements between a transaction's begin and its end.                   *)

\* The transaction of h inserts s and the request becomes r; with s come the rows of the m
\* calls it asks for, or the row of the call it answers is done.
RowWritten(h, s, r, c) ==
  \/ row'[c] = row[c] /\ (s.role = "tool" => s.call # c)
  \/ /\ c \in s.uses /\ s.role # "tool" /\ r.pc = "givenUp"
     /\ row'[c] = [turn |-> s.turn, st |-> "none", next |-> "pending", by |-> h]
  \/ /\ s.role = "tool" /\ s.call = c
     /\ row[c].st = "pending" /\ row[c].by = Nobody /\ row[c].turn = s.turn
     /\ row'[c] = [row[c] EXCEPT !.next = "done", !.by = h]
Writes(h, s, m, r) ==
  /\ s \in Step /\ s.born = h /\ s.cut = Nobody /\ Insert(s)
  /\ lastCall' = lastCall + m /\ lastCall + m <= MaxCalls
  /\ s.uses = Fresh(m) /\ (s.uses # {} => s.role = "assistant") /\ (s.role = "tool" => s.call # 0)
  /\ req' = [req EXCEPT ![h] = r] /\ req[h].pc # "givenUp" /\ r.pc \in {"policy", "apply", "givenUp"}
  /\ \A c \in r.todo : r.pc = "apply" /\ c \in req[h].todo /\ r.turn = req[h].turn
  /\ \A c \in Calls : RowWritten(h, s, r, c)

\* So does an insert with the rows that come with it.
LEMMA InsertKeeps ==
  ASSUME ChatInv, UNCHANGED torn, NEW h \in Handlers, NEW s, NEW m \in Nat, NEW r, Writes(h, s, m, r)
  PROVE  StepsTyped' /\ StepsFit'
<1>0. StepsTyped /\ lastCall \in Nat /\ MaxCalls \in Nat
  BY ChatAssumption DEF ChatInv, TypeOK, StepsTyped
<1>1. StepsTyped /\ lastCall \in Nat /\ MaxCalls \in Nat /\ Nobody \notin Handlers /\ h # Nobody
  BY <1>0, ChatAssumption
<1>a. /\ s \in Step /\ s.born = h /\ s.cut = Nobody /\ Insert(s)
      /\ s.role \in {"user", "assistant", "tool"} /\ s.turn # 0 /\ s.turn \in Nat
      /\ r.pc \in {"policy", "apply", "givenUp"} /\ req[h].pc # "givenUp"
  BY DEF Writes, Step, Turns
<1>b. lastCall <= lastCall' /\ lastCall' \in Nat
  BY <1>1 DEF Writes
<1>2. StepsTyped'
  BY <1>1, <1>a, InsertIs
<1>3. PICK n \in Nat : /\ DOMAIN steps' = DOMAIN steps \cup {n} /\ n \notin DOMAIN steps
                       /\ \A i \in DOMAIN steps : i < n /\ steps'[i] = steps[i]
                       /\ steps'[n] = s
  BY <1>1, <1>a, InsertIs
<1>4. \A c \in Calls : /\ c \in Nat
                       /\ c <= lastCall => c \notin s.uses
                       /\ c \in s.uses => /\ c > lastCall /\ c <= lastCall'
                                          /\ s.role = "assistant"
  <2>1. /\ s.uses = Fresh(m) /\ lastCall' = lastCall + m
        /\ s.uses # {} => s.role = "assistant"
    BY DEF Writes
  <2>2. \A c \in Calls : c \in Nat
    BY DEF Calls
  <2>3. \A c \in Fresh(m) : c > lastCall /\ c <= lastCall + m
    BY <1>1 DEF Fresh
  <2>4. \A c \in Nat : c <= lastCall => ~ (c > lastCall)
    BY <1>1
  <2> QED
    BY <2>1, <2>2, <2>3, <2>4
<1>5. \A c \in Calls : row[c] \in Row
  BY DEF ChatInv, TypeOK
<1>6. req \in [Handlers -> Request] /\ \A g \in Handlers : req'[g] = IF g = h THEN r ELSE req[g]
  BY DEF ChatInv, TypeOK, Writes
<1>7. ASSUME NEW c \in Calls
      PROVE  \/ row'[c] = row[c] /\ (s.role = "tool" => s.call # c)
             \/ /\ c \in s.uses /\ s.role = "assistant" /\ row[c] = NoRow /\ r.pc = "givenUp"
                /\ row'[c].turn = s.turn /\ row'[c].st = "none" /\ row'[c].next = "pending"
                /\ row'[c].by = h
             \/ /\ s.role = "tool" /\ s.call = c /\ c <= lastCall
                /\ row[c].st = "pending" /\ row[c].next = "pending" /\ row[c].by = Nobody
                /\ row[c].turn = s.turn /\ s.turn # 0
                /\ row'[c].turn = s.turn /\ row'[c].st = "pending" /\ row'[c].next = "done"
                /\ row'[c].by = h
  <2>1. RowLives(c) /\ row[c] \in Row /\ s.turn # 0
    BY <1>5, <1>a DEF ChatInv, StepsFit
  <2>2. CASE row'[c] = row[c] /\ (s.role = "tool" => s.call # c)
    BY <2>2
  <2>3. CASE /\ c \in s.uses /\ s.role # "tool" /\ r.pc = "givenUp"
             /\ row'[c] = [turn |-> s.turn, st |-> "none", next |-> "pending", by |-> h]
    <3>1. row[c] = NoRow
      BY <1>1, <1>4, <2>1, <2>3 DEF RowLives
    <3>2. s.role = "assistant"
      BY <1>4, <2>3
    <3> QED
      BY <2>3, <3>1, <3>2
  <2>4. CASE /\ s.role = "tool" /\ s.call = c
             /\ row[c].st = "pending" /\ row[c].by = Nobody /\ row[c].turn = s.turn
             /\ row'[c] = [row[c] EXCEPT !.next = "done", !.by = h]
    <3>1. row'[c].turn = row[c].turn /\ row'[c].st = row[c].st /\ row'[c].next = "done"
          /\ row'[c].by = h
      BY <2>1, <2>4 DEF Row
    <3>2. row[c] # NoRow
      BY <2>4 DEF NoRow
    <3>3. row[c].next = "pending" /\ c <= lastCall
      BY <2>1, <2>4, <3>2 DEF RowLives
    <3> QED
      BY <2>1, <2>4, <3>1, <3>3
  <2> QED
    BY <2>2, <2>3, <2>4 DEF Writes, RowWritten
<1>10. DeletedOnceCommitted'
  BY <1>3, <1>a DEF DeletedOnceCommitted, ChatInv, StepsFit
<1>11. AskedOnce'
  <2>1. AskedOnce
    BY DEF ChatInv, StepsFit
  <2>2. \A i \in DOMAIN steps', c \in Calls : Asks(i, c)' =>
          \/ i \in DOMAIN steps /\ Asks(i, c) /\ c <= lastCall /\ steps'[i] = steps[i]
          \/ i = n /\ c \in s.uses
    BY <1>3, <2>1 DEF AskedOnce, Asks
  <2>3. \A i \in DOMAIN steps', c \in Calls :
          Asks(i, c)' => c <= lastCall' /\ steps'[i].role = "assistant"
    <3> SUFFICES ASSUME NEW i \in DOMAIN steps', NEW c \in Calls, Asks(i, c)'
                 PROVE  c <= lastCall' /\ steps'[i].role = "assistant"
      OBVIOUS
    <3>1. CASE i \in DOMAIN steps /\ Asks(i, c) /\ c <= lastCall /\ steps'[i] = steps[i]
      BY <1>1, <1>4, <1>b, <2>1, <3>1 DEF AskedOnce
    <3>2. CASE i = n /\ c \in s.uses
      BY <1>3, <1>4, <3>2
    <3> QED
      BY <2>2, <3>1, <3>2
  <2>4. \A i, j \in DOMAIN steps', c \in Calls : Asks(i, c)' /\ Asks(j, c)' => i = j
    BY <1>4, <2>1, <2>2 DEF AskedOnce
  <2>5. \A i \in DOMAIN steps' : steps'[i].role = "tool" => steps'[i].call # 0
    BY <1>3, <2>1 DEF AskedOnce, Writes
  <2> QED
    BY <2>3, <2>4, <2>5 DEF AskedOnce
<1>12. ASSUME NEW c \in Calls
       PROVE  RowLives(c)' /\ RowHasStep(c)'
  <2>1. RowLives(c) /\ RowHasStep(c) /\ row[c] \in Row /\ c \in Nat
    BY <1>4, <1>5 DEF ChatInv, StepsFit
  <2>2. CASE row'[c] = row[c]
    <3>2. RowLives(c)'
      <4>1. row[c].by # Nobody => row[c].by \in Handlers
        BY <2>1 DEF Row
      <4>2. CASE row[c].by = Nobody
        BY <1>b, <1>0, <1>a, <1>6, <2>1, <2>2, <4>2 DEF RowLives
      <4>3. CASE row[c].by = h
        BY <1>b, <1>0, <1>a, <1>6, <2>1, <2>2, <4>3 DEF RowLives
      <4>4. CASE row[c].by \in Handlers \ {h}
        BY <1>b, <1>0, <1>6, <2>1, <2>2, <4>4 DEF RowLives
      <4> QED
        BY <4>1, <4>2, <4>3, <4>4
    <3>3. RowHasStep(c)'
      BY <1>3, <2>1, <2>2 DEF RowHasStep, Asks
    <3> QED
      BY <3>2, <3>3
  <2>3. CASE /\ c \in s.uses /\ row[c] = NoRow /\ r.pc = "givenUp"
             /\ row'[c].turn = s.turn /\ row'[c].st = "none" /\ row'[c].next = "pending"
             /\ row'[c].by = h
    <3>1. s.turn # 0 /\ c <= lastCall' /\ req'[h].pc = "givenUp"
      BY <1>4, <1>6, <1>a, <2>3
    <3>2. RowLives(c)'
      BY <1>1, <2>3, <3>1 DEF RowLives
    <3>3. n \in DOMAIN steps' /\ steps'[n] = s
      BY <1>3
    <3> QED
      BY <1>a, <2>3, <3>2, <3>3 DEF RowHasStep, Asks
  <2>4. CASE /\ c <= lastCall /\ row[c].st = "pending" /\ row[c].next = "pending"
             /\ row[c].by = Nobody /\ row[c].turn = s.turn /\ s.turn # 0
             /\ row'[c].turn = s.turn /\ row'[c].st = "pending" /\ row'[c].next = "done"
             /\ row'[c].by = h
    <3>1. RowLives(c)'
      BY <1>b, <1>0, <1>1, <2>1, <2>4 DEF RowLives
    <3>2. row[c] # NoRow
      BY <2>4 DEF NoRow
    <3> SUFFICES ASSUME c \notin torn
                 PROVE  RowHasStep(c)'
      BY <3>1 DEF RowHasStep
    <3>3. PICK i \in DOMAIN steps :
            /\ Asks(i, c) /\ steps[i].turn = row[c].turn
            /\ steps[i].born = IF row[c].st = "none" THEN row[c].by ELSE Nobody
            /\ steps[i].cut # Nobody => row[c].by = steps[i].cut /\ row[c].next = "none"
      BY <2>1, <3>2 DEF RowHasStep
    <3> QED
      BY <1>3, <2>4, <3>1, <3>3 DEF RowHasStep, Asks
  <2> QED
    BY <1>7, <2>2, <2>3, <2>4
<1>13. ASSUME NEW c \in Calls, NEW k \in ResultsIn(steps, c)'
       PROVE  ResultsIn(steps, c)' = {k} /\ ResultFits(c, k)'
  <2>1. \A j \in DOMAIN steps : j \in ResultsIn(steps, c) <=> steps[j].role = "tool" /\ steps[j].call = c
    BY DEF ResultsIn, IndexesOf
  <2>2. \A j \in DOMAIN steps' :
          j \in ResultsIn(steps, c)' <=> steps'[j].role = "tool" /\ steps'[j].call = c
    BY DEF ResultsIn, IndexesOf
  <2>3. k \in DOMAIN steps' /\ ResultsIn(steps, c)' \subseteq DOMAIN steps'
        /\ ResultsIn(steps, c) \subseteq DOMAIN steps
    BY DEF ResultsIn, IndexesOf
  <2>4. RowHasStep(c) /\ c \in Nat
    BY <1>4 DEF ChatInv, StepsFit
  <2>5. CASE s.role = "tool" /\ s.call = c
    <3>1. /\ c <= lastCall
          /\ row[c].st = "pending" /\ row[c].next = "pending" /\ row[c].by = Nobody
          /\ row[c].turn = s.turn /\ s.turn # 0
          /\ row'[c].turn = s.turn /\ row'[c].st = "pending" /\ row'[c].next = "done"
          /\ row'[c].by = h
      BY <1>7, <2>5
    <3>2. \A j \in ResultsIn(steps, c) : FALSE
      <4> SUFFICES ASSUME NEW j \in ResultsIn(steps, c)
                   PROVE  FALSE
        OBVIOUS
      <4>1. ResultFits(c, j) /\ steps[j].born \in Handlers \cup {Nobody}
        BY <1>1, <2>3, StepFields DEF ChatInv, StepsFit
      <4> QED
        BY <1>1, <3>1, <4>1 DEF ResultFits
    <3>3. ResultsIn(steps, c)' = {n} /\ k = n
      BY <1>3, <2>1, <2>2, <2>3, <2>5, <3>2
    <3>5. c \notin torn => \E i \in DOMAIN steps' : /\ i < n /\ Asks(i, c)'
                                                  /\ steps'[i].born = Nobody /\ steps'[i].cut = Nobody
      BY <1>3, <2>4, <3>1 DEF RowHasStep, NoRow, Asks
    <3>7. \A i \in DOMAIN steps' : Asks(i, c)' => i < n
      BY <1>3, <1>4, <2>5 DEF Asks
    <3>6. c <= lastCall'
      BY <1>b, <1>0, <2>4, <3>1
    <3> QED
      BY <1>1, <1>3, <1>a, <3>1, <3>3, <3>5, <3>6, <3>7 DEF ResultFits
  <2>6. CASE ~ (s.role = "tool" /\ s.call = c)
    <3>0. \A j : j \in ResultsIn(steps, c)' <=> j \in ResultsIn(steps, c)
      BY <1>3, <2>1, <2>2, <2>3, <2>6
    <3>1. ResultsIn(steps, c)' = ResultsIn(steps, c)
      BY <3>0, Zenon DEF ResultsIn
    <3>2. ResultsIn(steps, c) = {k} /\ ResultFits(c, k) /\ k \in DOMAIN steps
      BY <2>3, <3>1 DEF ChatInv, StepsFit
    <3>3. row'[c] = row[c]
      BY <1>4, <1>7, <2>6, <3>2 DEF ResultFits
    <3>4. c <= lastCall' /\ steps'[k] = steps[k]
      BY <1>b, <1>0, <1>3, <2>4, <3>2 DEF ResultFits
    <3>5. c \notin torn => \E i \in DOMAIN steps' :
                              /\ i < k /\ Asks(i, c)'
                              /\ steps'[i].born \in {Nobody, steps'[k].born}
                              /\ steps'[i].cut \in {Nobody, steps'[k].cut}
      BY <1>3, <3>2, <3>4 DEF ResultFits, Asks
    <3>6. \A i \in DOMAIN steps' : Asks(i, c)' => i < k
      BY <1>3, <1>4, <3>2 DEF ResultFits, Asks
    <3> QED
      BY <3>1, <3>2, <3>3, <3>4, <3>5, <3>6 DEF ResultFits, Asks
  <2> QED
    BY <2>5, <2>6
<1>14. ASSUME NEW g \in Handlers
       PROVE  RestsClean(g)' /\ TodoFits(g)'
  <2>1. RestsClean(g) /\ TodoFits(g) /\ TodoFits(h) /\ g # Nobody
    BY <1>1 DEF ChatInv, StepsFit
  <2>6. RestsClean(g)'
    <3>1. CASE g = h
      BY <1>6, <1>a, <3>1 DEF RestsClean
    <3>2. CASE g # h
      <4>1. req'[g] = req[g]
        BY <1>6, <3>2
      <4>2. \A c \in Calls : row'[c].by = g => row[c].by = g
        BY <1>7, <3>2
      <4>3. \A i \in DOMAIN steps' : steps'[i].born = g \/ steps'[i].cut = g =>
              i \in DOMAIN steps /\ steps'[i] = steps[i]
        BY <1>3, <1>a, <2>1, <3>2
      <4> QED
        BY <2>1, <4>1, <4>2, <4>3 DEF RestsClean
    <3> QED
      BY <3>1, <3>2
  <2>7. TodoFits(g)'
    <3> SUFFICES ASSUME NEW c \in req'[g].todo
                 PROVE  req'[g].pc = "apply" /\ c <= lastCall' /\ row'[c].turn \in {0, req'[g].turn}
      BY DEF TodoFits
    <3>1. c \in req[g].todo /\ req'[g].pc = "apply" /\ req'[g].turn = req[g].turn
          /\ req[g].pc = "apply" /\ c <= lastCall /\ row[c].turn \in {0, req[g].turn}
      BY <1>6, <2>1 DEF TodoFits, Writes
    <3>2. c \in Calls
      BY <1>6, <3>1 DEF Request
    <3>3. row'[c].turn = row[c].turn
      BY <1>4, <1>7, <3>1, <3>2
    <3> QED
      BY <1>b, <1>0, <1>4, <3>1, <3>2, <3>3
  <2> QED
    BY <2>6, <2>7
<1> QED
  BY <1>2, <1>10, <1>11, <1>12, <1>13, <1>14 DEF StepsFit

\* A step of a request that writes nothing.
LEMMA QuietKeeps ==
  ASSUME ChatInv, UNCHANGED torn, NEW h \in Handlers, UNCHANGED <<steps, row, lastCall>>,
         NEW r, req' = [req EXCEPT ![h] = r], req[h].pc # "givenUp",
         r.pc \in {"idle", "cutting", "llm", "failed"} => req[h].pc \in {"idle", "cutting", "llm", "failed"},
         \A c \in r.todo : /\ r.pc = "apply" /\ c \in Calls /\ c <= lastCall
                           /\ row[c].turn \in {0, r.turn}
  PROVE  StepsTyped' /\ StepsFit'
<1>1. StepsTyped /\ StepsFit /\ req \in [Handlers -> Request]
      /\ \A c \in Calls : row[c] \in Row
  BY DEF ChatInv, TypeOK, StepsTyped
<1>2. \A g \in Handlers : req'[g] = IF g = h THEN r ELSE req[g]
  BY <1>1
<1>3. StepsTyped'
  BY <1>1 DEF StepsTyped
<1>4. ASSUME NEW c \in Calls
      PROVE  RowLives(c)' /\ RowHasStep(c)'
  <2>1. RowLives(c) /\ RowHasStep(c) /\ row[c] \in Row
    BY <1>1 DEF StepsFit
  <2>2. row[c].by \in Handlers \ {h} => req'[row[c].by] = req[row[c].by]
    BY <1>2
  <2>3. RowLives(c)'
    BY <2>1, <2>2 DEF RowLives, Row
  <2> QED
    BY <2>1, <2>3 DEF RowHasStep, Asks
<1>5. ASSUME NEW g \in Handlers
      PROVE  RestsClean(g)' /\ TodoFits(g)'
  <2>1. RestsClean(g) /\ TodoFits(g)
    BY <1>1 DEF StepsFit
  <2>2. CASE g = h
    BY <1>2, <2>1, <2>2 DEF RestsClean, TodoFits
  <2>3. CASE g # h
    BY <1>2, <2>1, <2>3 DEF RestsClean, TodoFits
  <2> QED
    BY <2>2, <2>3
<1>6. DeletedOnceCommitted' /\ AskedOnce'
  BY <1>1 DEF StepsFit, DeletedOnceCommitted, AskedOnce, Asks
<1>7. ASSUME NEW c \in Calls, NEW k \in ResultsIn(steps, c)'
      PROVE  ResultsIn(steps, c)' = {k} /\ ResultFits(c, k)'
  <2>1. ResultsIn(steps, c)' = ResultsIn(steps, c)
    BY DEF ResultsIn, IndexesOf
  <2>2. ResultsIn(steps, c) = {k} /\ ResultFits(c, k)
    BY <1>1, <2>1 DEF StepsFit
  <2> QED
    BY <2>1, <2>2 DEF ResultFits, Asks
<1> QED
  BY <1>3, <1>4, <1>5, <1>6, <1>7 DEF StepsFit

\* An edit has found the rows to delete.
LEMMA EditKeeps ==
  ASSUME ChatInv, UNCHANGED torn, NEW h \in Handlers, NEW t \in Turns, Edit(h, t)
  PROVE  StepsTyped' /\ StepsFit'
<1> DEFINE from == FirstOf(h, t)
           items == {c \in Calls : row[c].st # "none" /\ row[c].turn \in TurnsFrom(h, from)}
           r == [Idle EXCEPT !.pc = "cutting", !.turn = turns + 1, !.from = from, !.items = items]
<1>1. req' = [req EXCEPT ![h] = r] /\ req[h].pc = "idle" /\ UNCHANGED <<steps, row, lastCall>>
  BY DEF Edit
<1> HIDE DEF from, items
<1>2. r.pc = "cutting" /\ r.todo = {}
  BY DEF Idle
<1> HIDE DEF r
<1> QED
  BY <1>1, <1>2, QuietKeeps

\* An edit deletes with a step what comes after it and with a call its result; a call keeps
\* its row without the step only if it is torn.
LEMMA CutKeeps ==
  ASSUME ChatInv, NEW h \in Handlers, CutHistory(h)
  PROVE  StepsTyped' /\ StepsFit'
<1> DEFINE from == req[h].from
           gone == StepsFrom(h, from)
           dead == {c \in req[h].items : row[c].st # "none"}
<1>0. StepsTyped /\ StepsFit /\ req \in [Handlers -> Request] /\ lastCall \in Nat
      /\ \A c \in Calls : row[c] \in Row /\ c \in Nat
  BY DEF ChatInv, TypeOK, StepsTyped, Calls
<1>1. Nobody \notin Handlers /\ h # Nobody /\ lastCall' = lastCall /\ req[h].pc = "cutting"
  BY ChatAssumption DEF CutHistory
<1>2. gone \subseteq DOMAIN steps /\ \A i \in gone : steps[i].born = Nobody /\ steps[i].cut = Nobody
  <2>1. \A i \in gone : steps[i].cut = Nobody
    BY DEF CutHistory
  <2>2. gone \subseteq Visible(h)
    BY DEF StepsFrom
  <2>3. \A i \in Visible(h) : i \in DOMAIN steps /\ steps[i].born = Nobody
    BY <1>0, <1>1 DEF Visible, StepsFit, RestsClean
  <2> QED
    BY <2>1, <2>2, <2>3
<1>3. \A i \in gone, k \in DOMAIN steps : i < k /\ steps[k].born = Nobody => k \in gone
  <2>3. from \in Nat
    BY <1>0 DEF Request
  <2>4. gone = {i \in Visible(h) : from <= i}
    BY DEF StepsFrom
  <2>5. \A k \in DOMAIN steps : steps[k].born = Nobody => k \in Visible(h) /\ k \in Nat
    BY <1>0, <1>1 DEF Visible, StepsFit, RestsClean, StepsTyped
  <2>6. \A i \in gone : i \in Nat
    BY <1>0, <1>2 DEF StepsTyped
  <2> HIDE DEF from, gone
  <2> QED
    BY <2>3, <2>4, <2>5, <2>6
<1>4. /\ dead \subseteq Calls
      /\ \A c \in dead : row[c].st # "none" /\ row[c].by = Nobody
  <2>1. req[h].items \subseteq Calls /\ \A c \in req[h].items : row[c].by = Nobody
    BY <1>0 DEF CutHistory, Request
  <2> QED
    BY <2>1
<1>9. /\ torn \subseteq torn'
      /\ \A c \in Calls, i \in gone : row[c].st # "none" /\ Asks(i, c) => c \in dead \/ c \in torn'
  BY DEF CutHistory, Asks
<1>5. /\ DOMAIN steps' = DOMAIN steps
      /\ \A i \in DOMAIN steps : /\ Stays(i) /\ steps'[i].born = steps[i].born
                                 /\ steps'[i].cut = IF i \in gone THEN h ELSE steps[i].cut
                                 /\ steps'[i] \in Step
      /\ steps' = [i \in DOMAIN steps' |-> steps'[i]]
  <2>1. steps' = [i \in DOMAIN steps |-> IF i \in gone THEN [steps[i] EXCEPT !.cut = h] ELSE steps[i]]
    BY DEF CutHistory
  <2>2. \A i \in DOMAIN steps : steps[i] \in Step
    BY <1>0 DEF StepsTyped
  <2> HIDE DEF gone, dead
  <2>3. ASSUME NEW i \in DOMAIN steps
        PROVE  /\ Stays(i) /\ steps'[i].born = steps[i].born
               /\ steps'[i].cut = IF i \in gone THEN h ELSE steps[i].cut
               /\ steps'[i] \in Step
    <3>1. steps[i] \in Step /\ steps'[i] = IF i \in gone THEN [steps[i] EXCEPT !.cut = h] ELSE steps[i]
      BY <2>1, <2>2
    <3> QED
      BY <3>1 DEF Step, Stays
  <2> QED
    BY <2>1, <2>3
<1>6. \A c \in Calls : /\ c \notin dead => row'[c] = row[c]
                       /\ c \in dead => /\ row'[c].turn = row[c].turn /\ row'[c].st = row[c].st
                                        /\ row'[c].next = "none" /\ row'[c].by = h
  <2>1. row' = [c \in Calls |->
                  IF c \in dead THEN [row[c] EXCEPT !.next = "none", !.by = h] ELSE row[c]]
    BY DEF CutHistory
  <2> HIDE DEF gone, dead
  <2> QED
    BY <1>0, <2>1 DEF Row
<1>7. \A g \in Handlers : IF g = h THEN req'[g].pc = "edited" /\ req'[g].todo = {} ELSE req'[g] = req[g]
  <2>1. req' = [req EXCEPT ![h].pc = "edited", ![h].items = {}, ![h].from = 0]
    BY DEF CutHistory
  <2>2. req[h].todo = {}
    BY <1>0, <1>1 DEF StepsFit, TodoFits
  <2> QED
    BY <1>0, <2>1, <2>2 DEF Request
<1> HIDE DEF gone, dead, from
<1>8. StepsTyped'
  BY <1>0, <1>5 DEF StepsTyped
<1>10. DeletedOnceCommitted'
  BY <1>0, <1>2, <1>5 DEF DeletedOnceCommitted, StepsFit
<1>11. AskedOnce'
  BY <1>0, <1>1, <1>5 DEF AskedOnce, Asks, Stays, StepsFit
<1>12. ASSUME NEW c \in Calls
       PROVE  RowLives(c)' /\ RowHasStep(c)'
  <2>1. RowLives(c) /\ RowHasStep(c) /\ row[c] \in Row /\ RestsClean(h)
    BY <1>0 DEF StepsFit
  <2>2. row[c].by # h
    BY <1>1, <2>1 DEF RestsClean
  <2>3. RowLives(c)'
    <3>1. CASE c \in dead
      <4>1. row[c] # NoRow
        BY <1>4, <3>1 DEF NoRow
      <4>2. row[c].turn # 0 /\ c <= lastCall /\ row[c].st \in {"pending", "done"}
        BY <1>4, <2>1, <3>1, <4>1 DEF RowLives
      <4> QED
        BY <1>1, <1>6, <3>1, <4>2 DEF RowLives
    <3>2. CASE c \notin dead
      <4>1. row[c].by \in Handlers \ {h} => req'[row[c].by] = req[row[c].by]
        BY <1>7
      <4> QED
        BY <1>1, <1>6, <2>1, <2>2, <3>2, <4>1 DEF RowLives, Row
    <3> QED
      BY <3>1, <3>2
  <2>4. RowHasStep(c)'
    <3> SUFFICES ASSUME row'[c] # NoRow, c \notin torn'
                 PROVE  RowHasStep(c)'
      BY DEF RowHasStep
    <3>1. row[c] # NoRow /\ c \notin torn
      BY <1>4, <1>6, <1>9 DEF NoRow
    <3>2. PICK i \in DOMAIN steps :
            /\ Asks(i, c) /\ steps[i].turn = row[c].turn
            /\ steps[i].born = IF row[c].st = "none" THEN row[c].by ELSE Nobody
            /\ steps[i].cut # Nobody => row[c].by = steps[i].cut /\ row[c].next = "none"
      BY <2>1, <3>1 DEF RowHasStep
    <3>3. CASE c \in dead
      BY <1>1, <1>4, <1>5, <1>6, <3>2, <3>3 DEF RowHasStep, Asks, Stays
    <3>4. CASE c \notin dead
      <4>1. row[c].st = "none" => row[c].by # Nobody
        BY <2>1, <3>1 DEF RowLives
      <4>2. i \notin gone
        BY <1>2, <1>9, <3>2, <3>4, <4>1
      <4> QED
        BY <1>5, <1>6, <3>2, <3>4, <4>2 DEF RowHasStep, Asks, Stays
    <3> QED
      BY <3>3, <3>4
  <2> QED
    BY <2>3, <2>4
<1>13. ASSUME NEW c \in Calls, NEW k \in ResultsIn(steps, c)'
       PROVE  ResultsIn(steps, c)' = {k} /\ ResultFits(c, k)'
  <2>0. \A j : j \in ResultsIn(steps, c)' <=> j \in ResultsIn(steps, c)
    BY <1>5 DEF ResultsIn, IndexesOf, Stays
  <2>1. ResultsIn(steps, c)' = ResultsIn(steps, c)
    BY <2>0, Zenon DEF ResultsIn
  <2>2. ResultsIn(steps, c) = {k} /\ ResultFits(c, k) /\ k \in DOMAIN steps
    BY <1>0, <2>1 DEF StepsFit, ResultsIn, IndexesOf
  <2>3. k \in gone => steps[k].cut = Nobody /\ steps[k].born = Nobody
    BY <1>2
  <2>4. ASSUME c \notin torn'
        PROVE  \E i \in DOMAIN steps' : /\ i < k /\ Asks(i, c)'
                                        /\ steps'[i].born \in {Nobody, steps'[k].born}
                                        /\ steps'[i].cut \in {Nobody, steps'[k].cut}
    <3>1. PICK i \in DOMAIN steps : /\ i < k /\ Asks(i, c)
                                    /\ steps[i].born \in {Nobody, steps[k].born}
                                    /\ steps[i].cut \in {Nobody, steps[k].cut}
      BY <1>9, <2>2, <2>4 DEF ResultFits
    <3>2. i \in gone => k \in gone
      <4> SUFFICES ASSUME i \in gone, k \notin gone
                   PROVE  FALSE
        OBVIOUS
      <4>1. steps[k].born # Nobody /\ steps[k].born \in Handlers
        BY <1>0, <1>3, <2>2, <3>1, StepFields
      <4>2. row[c].by # Nobody /\ row[c].st = "pending"
        BY <2>2, <4>1 DEF ResultFits
      <4> QED
        BY <1>4, <1>9, <2>4, <3>1, <4>2
    <3> QED
      BY <1>5, <2>2, <2>3, <3>1, <3>2 DEF Asks, Stays
  <2>5. /\ steps'[k].turn = steps[k].turn /\ steps'[k].born = steps[k].born
        /\ row'[c].turn = row[c].turn /\ row'[c].st = row[c].st
    BY <1>5, <1>6, <2>2 DEF Stays
  <2>6. IF steps'[k].born = Nobody
        THEN row'[c].turn # 0 => row'[c].turn = steps'[k].turn /\ row'[c].st = "done"
        ELSE row'[c].by = steps'[k].born /\ row'[c].turn = steps'[k].turn
             /\ row'[c].st = "pending" /\ row'[c].next = "done"
    BY <1>4, <1>6, <2>2, <2>5 DEF ResultFits
  <2>7. c <= lastCall' /\ \A i \in DOMAIN steps' : Asks(i, c)' => i < k
    BY <1>1, <1>5, <2>2 DEF ResultFits, Asks, Stays
  <2> QED
    BY <2>1, <2>2, <2>4, <2>6, <2>7 DEF ResultFits
<1>14. ASSUME NEW g \in Handlers
       PROVE  RestsClean(g)' /\ TodoFits(g)'
  <2>1. RestsClean(g) /\ TodoFits(g) /\ g # Nobody
    BY <1>0, <1>1 DEF StepsFit
  <2>2. CASE g = h
    BY <1>7, <2>2 DEF RestsClean, TodoFits
  <2>3. CASE g # h
    <3>1. req'[g] = req[g] /\ \A c \in req[g].todo : c \in Calls
      BY <1>0, <1>7, <2>3 DEF Request
    <3>2. \A c \in Calls : row'[c].turn = row[c].turn /\ (row'[c].by = g => row[c].by = g)
      BY <1>6, <2>3
    <3>3. RestsClean(g)'
      BY <1>5, <2>1, <2>3, <3>1, <3>2 DEF RestsClean
    <3>4. TodoFits(g)'
      BY <1>1, <2>1, <3>1, <3>2 DEF TodoFits
    <3> QED
      BY <3>3, <3>4
  <2> QED
    BY <2>2, <2>3
<1> QED
  BY <1>8, <1>10, <1>11, <1>12, <1>13, <1>14 DEF StepsFit

-----------------------------------------------------------------------------
(* Every action keeps the steps and the rows in agreement.                 *)

\* A commit that starts no call of the device.
LEMMA OnlyCommitKeeps ==
  ASSUME ChatInv, UNCHANGED torn, NEW h \in Handlers, NEW new, NEW m \in Nat, NEW t \in Turns,
         Adds(new, m, {}, t), Commit(h, new), lastCall' = lastCall + m, lastCall + m <= MaxCalls,
         NEW r, req' = [req EXCEPT ![h] = r], r.todo = {}
  PROVE  StepsTyped' /\ StepsFit'
<1>1. steps' = Committed(h, new)
  BY DEF Commit
<1>2. row' = [c \in Calls |-> IF c \in {} THEN [turn |-> t, st |-> "pending",
                                                next |-> "pending", by |-> Nobody]
                              ELSE CommittedRow(h, c)]
  BY DEF Commit
<1> QED
  BY <1>1, <1>2, CommitKeeps

\* The steps the code makes are steps.
LEMMA MadeSteps ==
  ASSUME NEW t \in Turns
  PROVE  /\ \A h \in Handlers : /\ [UserStep(t) EXCEPT !.born = h] \in Step
                                /\ [UserStep(t) EXCEPT !.born = h].born = h
                                /\ [UserStep(t) EXCEPT !.born = h].cut = Nobody
                                /\ [UserStep(t) EXCEPT !.born = h].uses = {}
                                /\ [UserStep(t) EXCEPT !.born = h].role = "user"
         /\ \A U \in SUBSET Calls :
              LET s == AssistantStep(t, U) IN
              /\ s \in Step /\ s.role = "assistant" /\ s.uses = U /\ s.turn = t
              /\ s.born = Nobody /\ s.cut = Nobody /\ s.call = 0 /\ s.mark = "none"
         /\ \A c \in Calls :
              LET s == ToolStep(t, c) IN
              /\ s \in Step /\ s.role = "tool" /\ s.uses = {} /\ s.turn = t
              /\ s.born = Nobody /\ s.cut = Nobody /\ s.call = c
  BY DEF UserStep, AssistantStep, ToolStep, Step

\* The same of a step whose transaction is open.
LEMMA Opened ==
  ASSUME NEW s \in Step, NEW h \in Handlers
  PROVE  LET b == [s EXCEPT !.born = h] IN
         /\ b \in Step /\ b.born = h /\ b.cut = s.cut /\ b.role = s.role /\ b.uses = s.uses
         /\ b.turn = s.turn /\ b.call = s.call /\ b.mark = s.mark
  BY DEF Step

\* What a request adds of its own: nothing, or one step of the assistant.
LEMMA NothingAdded ==
  ASSUME lastCall \in Nat, NEW t \in Turns
  PROVE  Adds(<<>>, 0, {}, t)
  BY DEF Adds

\* One step of the assistant, with the m calls it asks for.
LEMMA OneAdded ==
  ASSUME NEW t \in Turns, NEW m \in Nat, NEW s \in Step, s.role = "assistant", s.uses = Fresh(m),
         s.turn = t, s.born = Nobody, s.cut = Nobody
  PROVE  Adds(<<s>>, m, {}, t)
<1> DEFINE new == <<s>>
<1>1. new \in Seq(Step) /\ Len(new) = 1 /\ new[1] = s
  OBVIOUS
<1> HIDE DEF new
<1>2. Adds(new, m, {}, t)
  BY <1>1 DEF Adds
<1> QED
  BY <1>2 DEF new

\* New calls are calls.
LEMMA FreshIs ==
  ASSUME lastCall \in Nat, NEW m \in Nat, lastCall + m <= MaxCalls, MaxCalls \in Nat
  PROVE  Fresh(m) \subseteq Calls /\ (m # 0 => Fresh(m) # {}) /\ Fresh(0) = {}
<1>1. m # 0 => lastCall + 1 \in Fresh(m)
  BY DEF Fresh
<1> QED
  BY <1>1 DEF Fresh, Calls

\* What a turn with tool calls adds: one step that asks for them all, and a result for the
\* server's.
LEMMA AskToolsAdds ==
  ASSUME ChatInv, NEW h \in Handlers, NEW d \in 0 .. 2, NEW n \in 0 .. 1, d + n >= 1, AskTools(h, d, n),
         req[h].turn \in Turns
  PROVE  \E new : /\ Adds(new, d + n, Fresh(d), req[h].turn) /\ steps' = Committed(h, new)
                  /\ Len(new) = 1 + n /\ new[1].mark = "none"
                  /\ n = 1 => new[2].call = lastCall + d + 1
<1> DEFINE t == req[h].turn
           device == Fresh(d)
           server == Fresh(d + n) \ device
           results == [i \in 1 .. n |-> ToolStep(t, lastCall + d + i)]
           first == AssistantStep(t, device \cup server)
           new == <<first>> \o results
<1>1. lastCall \in Nat /\ MaxCalls \in Nat /\ t \in Turns /\ d \in Nat /\ n \in Nat /\ d + n \in Nat
      /\ lastCall + (d + n) <= MaxCalls
  <2>1. MaxCalls \in Nat
    BY ChatAssumption
  <2>2. lastCall \in Nat
    BY <2>1 DEF ChatInv, TypeOK
  <2>3. d \in Nat /\ n \in Nat
    OBVIOUS
  <2>4. lastCall + (d + n) <= MaxCalls
    BY <2>1, <2>2, <2>3 DEF AskTools
  <2> QED
    BY <2>1, <2>2, <2>3, <2>4
<1>2. device \cup server = Fresh(d + n) /\ device \subseteq Fresh(d + n) /\ Fresh(d + n) \subseteq Calls
  BY <1>1 DEF Fresh, Calls
<1>3. first \in Step /\ first.role = "assistant" /\ first.uses = Fresh(d + n) /\ first.turn = t
      /\ first.born = Nobody /\ first.cut = Nobody /\ first.mark = "none"
  <2>1. AssistantStep(t, Fresh(d + n)) \in Step
    BY <1>1, <1>2, MadeSteps
  <2>2. first = AssistantStep(t, Fresh(d + n))
    BY <1>2
  <2>3. first.role = "assistant" /\ first.uses = Fresh(d + n) /\ first.turn = t
        /\ first.born = Nobody /\ first.cut = Nobody /\ first.mark = "none"
    BY <2>2 DEF AssistantStep, UserStep
  <2> QED
    BY <2>1, <2>2, <2>3
<1>4. ASSUME n = 1
      PROVE  lastCall + d + 1 \in Fresh(d + n) \ device /\ lastCall + d + 1 \in Calls
  BY <1>1, <1>4 DEF Fresh, Calls
<1>5. results \in Seq(Step) /\ Len(results) = n
      /\ (n = 1 => results[1] = ToolStep(t, lastCall + d + 1))
  <2>1. \A i \in 1 .. n : i = 1 /\ n = 1
    BY <1>1
  <2>2. \A i \in 1 .. n : ToolStep(t, lastCall + d + i) \in Step
    BY <1>1, <1>4, <2>1, MadeSteps
  <2>3. results \in [1 .. n -> Step]
    BY <2>2
  <2> QED
    BY <1>1, <2>3
<1> HIDE DEF first, results, t
<1>6. new \in Seq(Step) /\ Len(new) = 1 + n /\ new[1] = first
      /\ (n = 1 => new[2] = ToolStep(t, lastCall + d + 1))
  BY <1>1, <1>3, <1>5
<1>7. Adds(new, d + n, device, t)
  <2>1. n = 1 => /\ new[2].role = "tool" /\ new[2].uses = {} /\ new[2].turn = t
                 /\ new[2].call \in Fresh(d + n) \ device
                 /\ new[2].born = Nobody /\ new[2].cut = Nobody
    BY <1>1, <1>4, <1>6, MadeSteps
  <2> HIDE DEF new, device, server
  <2> QED
    BY <1>1, <1>2, <1>3, <1>6, <2>1 DEF Adds
<1>8. steps' = Committed(h, new)
  BY DEF AskTools, first, results, t
<1>9. n = 1 => new[2].call = lastCall + d + 1
  BY <1>1, <1>4, <1>6, MadeSteps DEF Calls
<1> HIDE DEF new, server
<1> QED
  BY <1>3, <1>6, <1>7, <1>8, <1>9 DEF t

\* The step of a turn with tool calls, the device's rows and the server's results.
LEMMA AskToolsKeeps ==
  ASSUME ChatInv, UNCHANGED torn, NEW h \in Handlers, NEW d \in 0 .. 2, NEW n \in 0 .. 1, d + n >= 1, AskTools(h, d, n),
         NEW r, req' = [req EXCEPT ![h] = r], r.todo = {}, req[h].turn \in Turns
  PROVE  StepsTyped' /\ StepsFit'
<1> DEFINE t == req[h].turn
           device == Fresh(d)
<1>1. d + n \in Nat /\ lastCall + (d + n) <= MaxCalls
  BY ChatAssumption DEF ChatInv, TypeOK, AskTools
<1>2. PICK new : Adds(new, d + n, device, t) /\ steps' = Committed(h, new)
  BY AskToolsAdds
<1>3. row' = [c \in Calls |-> IF c \in device THEN [turn |-> t, st |-> "pending",
                                                    next |-> "pending", by |-> Nobody]
                              ELSE CommittedRow(h, c)]
  BY DEF AskTools
<1>4. lastCall' = lastCall + (d + n)
  BY <1>1 DEF AskTools, ChatInv, TypeOK
<1> HIDE DEF device
<1> QED
  BY <1>1, <1>2, <1>3, <1>4, CommitKeeps

\* The result of a call is inserted and its row done, if the row is still pending.
LEMMA ApplyKeeps ==
  ASSUME ChatInv, UNCHANGED torn, NEW h \in Handlers, NEW c \in Calls, Apply(h, c)
  PROVE  StepsTyped' /\ StepsFit'
<1> DEFINE r == [req[h] EXCEPT !.todo = @ \ {c}]
<1>1. /\ req \in [Handlers -> Request] /\ lastCall \in Nat /\ lastCall <= MaxCalls /\ MaxCalls \in Nat
      /\ RowLives(c) /\ row \in [Calls -> Row]
  BY ChatAssumption DEF ChatInv, TypeOK, StepsFit
<1>2. req' = [req EXCEPT ![h] = r] /\ req[h].pc = "apply" /\ c \in req[h].todo
      /\ lastCall' = lastCall /\ row[c].by \in {Nobody, h}
  BY <1>1 DEF Apply
<1>3. r.pc = "apply" /\ r.todo = req[h].todo \ {c} /\ r.turn = req[h].turn
  BY <1>1, <1>2 DEF Request
<1>4. req[h].turn \in Turns
  BY <1>1, <1>2 DEF ChatInv, Serves, Request
<1>5. row[c].turn \in {0, req[h].turn}
  BY <1>2 DEF ChatInv, StepsFit, TodoFits
<1>7. CASE StatusFor(h, c) # "pending"
  <2>1. UNCHANGED <<steps, row, lastCall>>
    BY <1>2, <1>7 DEF Apply
  <2>2. \A e \in r.todo : /\ r.pc = "apply" /\ e \in Calls /\ e <= lastCall
                          /\ row[e].turn \in {0, r.turn}
    BY <1>1, <1>3 DEF ChatInv, StepsFit, TodoFits, Request
  <2> HIDE DEF r
  <2> QED
    BY <1>2, <1>3, <2>1, <2>2, QuietKeeps
<1>8. CASE StatusFor(h, c) = "pending"
  <2> DEFINE s == [ToolStep(req[h].turn, c) EXCEPT !.born = h]
  <2>1. row' = [row EXCEPT ![c].next = "done", ![c].by = h] /\ Insert(s)
    BY <1>8 DEF Apply
  <2>2. s \in Step /\ s.born = h /\ s.cut = Nobody /\ s.role = "tool" /\ s.uses = {} /\ s.call = c
        /\ s.turn = req[h].turn
    BY <1>4, MadeSteps, Opened
  <2>9. c # 0
    BY DEF Calls
  <2>3. row[c].by = Nobody /\ row[c].st = "pending"
    <3>1. h # Nobody
      BY ChatAssumption
    <3>2. CASE row[c].by = h
      BY <1>1, <1>2, <1>8, <3>1, <3>2 DEF StatusFor, RowLives, NoRow
    <3>3. CASE row[c].by = Nobody
      BY <1>8, <3>1, <3>3 DEF StatusFor
    <3> QED
      BY <1>2, <3>2, <3>3
  <2>4. row[c].turn = s.turn
    <3>1. row[c].turn # 0
      BY <1>1, <2>3 DEF RowLives, NoRow
    <3> QED
      BY <1>5, <2>2, <3>1
  <2>5. \A e \in Calls : row'[e] = IF e = c THEN [row[c] EXCEPT !.next = "done", !.by = h] ELSE row[e]
    BY <1>1, <2>1
  <2>6. ASSUME NEW e \in Calls
        PROVE  RowWritten(h, s, r, e)
    <3>1. CASE e = c
      BY <2>2, <2>3, <2>4, <2>5, <3>1 DEF RowWritten
    <3>2. CASE e # c
      BY <2>2, <2>5, <3>2 DEF RowWritten
    <3> QED
      BY <3>1, <3>2
  <2>7. Fresh(0) = {} /\ lastCall' = lastCall + 0 /\ lastCall + 0 <= MaxCalls
    BY <1>1, <1>2, FreshIs
  <2> HIDE DEF s, r
  <2>8. Writes(h, s, 0, r)
    BY <1>2, <1>3, <2>1, <2>2, <2>6, <2>7, <2>9 DEF Writes
  <2> QED
    BY <2>8, InsertKeeps
<1> QED
  BY <1>7, <1>8

\* The user step of a turn is inserted.
LEMMA UserStepKeeps ==
  ASSUME ChatInv, UNCHANGED torn, NEW h \in Handlers, NEW t \in Turns, Insert([UserStep(t) EXCEPT !.born = h]),
         UNCHANGED <<row, lastCall>>, req[h].pc # "givenUp",
         NEW r, req' = [req EXCEPT ![h] = r], r.pc = "policy", r.todo = {}
  PROVE  StepsTyped' /\ StepsFit'
<1> DEFINE s == [UserStep(t) EXCEPT !.born = h]
<1>1. lastCall \in Nat /\ lastCall <= MaxCalls /\ MaxCalls \in Nat
  BY ChatAssumption DEF ChatInv, TypeOK
<1>2. s \in Step /\ s.born = h /\ s.cut = Nobody /\ s.role = "user" /\ s.uses = {}
  BY MadeSteps
<1>3. Fresh(0) = {} /\ lastCall' = lastCall + 0 /\ lastCall + 0 <= MaxCalls
  BY <1>1, FreshIs
<1>4. \A c \in Calls : RowWritten(h, s, r, c)
  BY <1>2 DEF RowWritten
<1> HIDE DEF s
<1>5. Writes(h, s, 0, r)
  BY <1>2, <1>3, <1>4 DEF Writes, s
<1> QED
  BY <1>5, InsertKeeps

\* The step and the rows of a turn that is given up amid its tool calls are inserted.
LEMMA BadToolsKeeps ==
  ASSUME ChatInv, UNCHANGED torn, NEW h \in Handlers, BadTools(h)
  PROVE  StepsTyped' /\ StepsFit'
<1> DEFINE t == req[h].turn
           r == [req[h] EXCEPT !.pc = "givenUp"]
           s(d) == [AssistantStep(t, Fresh(d + 1)) EXCEPT !.born = h]
<1>1. lastCall \in Nat /\ lastCall <= MaxCalls /\ MaxCalls \in Nat /\ req \in [Handlers -> Request]
      /\ row \in [Calls -> Row] /\ Serves(h)
  BY ChatAssumption DEF ChatInv, TypeOK
<1>2. PICK d \in 0 .. 1 :
        /\ d < MaxCalls - lastCall
        /\ Insert(s(d))
        /\ row' = [c \in Calls |->
                     IF c \in Fresh(d) THEN [turn |-> t, st |-> "none",
                                             next |-> "pending", by |-> h]
                     ELSE row[c]]
        /\ lastCall' = lastCall + d + 1
  BY DEF BadTools
<1>3. req[h].pc = "llm" /\ req' = [req EXCEPT ![h] = r]
  BY <1>1 DEF BadTools, Goto
<1>4. t \in Turns /\ r.pc = "givenUp" /\ r.todo = req[h].todo /\ req[h].todo = {}
  BY <1>1, <1>3 DEF Serves, Request, ChatInv, StepsFit, TodoFits
<1>5. /\ d + 1 \in Nat /\ lastCall + (d + 1) <= MaxCalls /\ lastCall' = lastCall + (d + 1)
      /\ Fresh(d + 1) \subseteq Calls /\ Fresh(d) \subseteq Fresh(d + 1)
  BY <1>1, <1>2 DEF Fresh, Calls
<1>6. /\ s(d) \in Step /\ s(d).born = h /\ s(d).cut = Nobody /\ s(d).role = "assistant"
      /\ s(d).uses = Fresh(d + 1) /\ s(d).turn = t
  BY <1>4, <1>5, MadeSteps, Opened
<1> HIDE DEF s, r, t
<1>7. \A c \in Calls : RowWritten(h, s(d), r, c)
  BY <1>2, <1>4, <1>5, <1>6 DEF RowWritten
<1>8. Writes(h, s(d), d + 1, r)
  BY <1>2, <1>3, <1>4, <1>5, <1>6, <1>7 DEF Writes
<1> QED
  BY <1>5, <1>8, InsertKeeps

\* Results arrive: the request notes what it has to write.
LEMMA ToolResultKeeps ==
  ASSUME ChatInv, UNCHANGED torn, NEW h \in Handlers, NEW t \in Turns, NEW items, NEW a, ToolResult(h, t, items, a)
  PROVE  StepsTyped' /\ StepsFit'
<1> DEFINE todo == items \cap PendingOf(h, t)
           r == [Idle EXCEPT !.pc = "apply", !.turn = t, !.items = items, !.anchor = a,
                             !.todo = todo, !.open = PendingOf(h, t) # {}]
<1>1. req' = [req EXCEPT ![h] = r] /\ req[h].pc = "idle" /\ UNCHANGED <<steps, row, lastCall>>
  BY DEF ToolResult, chatVars
<1>2. r.pc = "apply" /\ r.todo = todo /\ r.turn = t
  BY DEF Idle
<1>3. ASSUME NEW c \in todo
      PROVE  c \in Calls /\ c <= lastCall /\ row[c].turn = t
  <2>1. c \in Calls /\ StatusFor(h, c) # "none" /\ row[c].turn = t
    BY DEF PendingOf, CallsOf
  <2>2. row[c] # NoRow /\ RowLives(c)
    BY <2>1, ChatAssumption DEF NoRow, StatusFor, ChatInv, StepsFit
  <2> QED
    BY <2>1, <2>2 DEF RowLives
<1> HIDE DEF r, todo
<1> QED
  BY <1>1, <1>2, <1>3, QuietKeeps

\* A message of the user, the first of its turn.
LEMMA RunKeeps ==
  ASSUME ChatInv, UNCHANGED torn, NEW h \in Handlers, Run(h) \/ EditRun(h)
  PROVE  StepsTyped' /\ StepsFit'
<1>1. req \in [Handlers -> Request] /\ turns \in Nat /\ MaxTurns \in Nat
  BY ChatAssumption DEF ChatInv, TypeOK
<1>2. CASE Run(h)
  <2> DEFINE r == [Idle EXCEPT !.pc = "policy", !.turn = turns + 1]
  <2>1. turns + 1 \in Turns /\ r.pc = "policy" /\ r.todo = {}
    BY <1>1, <1>2 DEF Run, Turns, Idle
  <2>2. Insert([UserStep(turns + 1) EXCEPT !.born = h]) /\ req' = [req EXCEPT ![h] = r]
        /\ UNCHANGED <<row, lastCall>> /\ req[h].pc = "idle"
    BY <1>2 DEF Run
  <2> HIDE DEF r
  <2> QED
    BY <2>1, <2>2, UserStepKeeps
<1>3. CASE EditRun(h)
  <2> DEFINE r == [req[h] EXCEPT !.pc = "policy"]
             t == req[h].turn
  <2>1. req[h].pc = "edited" /\ UNCHANGED <<row, lastCall>> /\ Insert([UserStep(t) EXCEPT !.born = h])
    BY <1>3 DEF EditRun
  <2>2. req' = [req EXCEPT ![h] = r]
    BY <1>1, <1>3 DEF EditRun, Goto
  <2>3. r.pc = "policy" /\ r.todo = {} /\ t \in Turns
    BY <1>1, <2>1 DEF Request, ChatInv, StepsFit, TodoFits, Serves
  <2> HIDE DEF r, t
  <2> QED
    BY <2>1, <2>2, <2>3, UserStepKeeps
<1> QED
  BY <1>2, <1>3

\* A request that commits what it has written and nothing else.
LEMMA PlainCommitKeeps ==
  ASSUME ChatInv, UNCHANGED torn, NEW h \in Handlers, Commit(h, <<>>), lastCall' = lastCall, req[h].turn \in Turns,
         NEW r, req' = [req EXCEPT ![h] = r], r.todo = {}
  PROVE  StepsTyped' /\ StepsFit'
<1>1. lastCall \in Nat /\ lastCall' = lastCall + 0 /\ lastCall + 0 <= MaxCalls /\ 0 \in Nat
  BY ChatAssumption DEF ChatInv, TypeOK
<1>2. Adds(<<>>, 0, {}, req[h].turn)
  BY <1>1, NothingAdded
<1> QED
  BY <1>1, <1>2, OnlyCommitKeeps

\* A request that commits with one more step of the assistant.
LEMMA StepCommitKeeps ==
  ASSUME ChatInv, UNCHANGED torn, NEW h \in Handlers, NEW m \in Nat, NEW s \in Step, Commit(h, <<s>>),
         s.role = "assistant", s.uses = Fresh(m), s.turn = req[h].turn, s.born = Nobody,
         s.cut = Nobody, req[h].turn \in Turns,
         lastCall' = lastCall + m, lastCall + m <= MaxCalls, Done(h)
  PROVE  StepsTyped' /\ StepsFit'
<1>1. Adds(<<s>>, m, {}, req[h].turn)
  BY OneAdded
<1>2. req' = [req EXCEPT ![h] = Idle] /\ Idle.todo = {}
  BY DEF Done, Idle
<1> QED
  BY <1>1, <1>2, OnlyCommitKeeps

\* What a request does once it has arrived.
LEMMA ServeKeeps ==
  ASSUME ChatInv, UNCHANGED torn, NEW h \in Handlers, Serve(h)
  PROVE  StepsTyped' /\ StepsFit'
<1> DEFINE t == req[h].turn
<1>1. /\ req \in [Handlers -> Request] /\ lastCall \in Nat /\ lastCall <= MaxCalls /\ MaxCalls \in Nat
      /\ req[h] \in Request /\ Idle.todo = {} /\ Fresh(0) = {}
  BY ChatAssumption DEF ChatInv, TypeOK, Idle, Fresh
<1>2. req[h].pc # "idle" => t \in Turns
  BY <1>1 DEF ChatInv, Serves, Request
<1>3. req[h].pc # "apply" => req[h].todo = {}
  BY DEF ChatInv, StepsFit, TodoFits
<1>4. CASE EditRun(h)
  BY <1>4, RunKeeps
<1>5. CASE Policy(h)
  <2>1. req[h].pc = "policy" /\ lastCall' = lastCall
    BY <1>5 DEF Policy
  <2>2. CASE Allowed
    <3> DEFINE r == [req[h] EXCEPT !.pc = "build"]
    <3>1. req' = [req EXCEPT ![h] = r] /\ UNCHANGED <<steps, row, lastCall>>
      BY <1>1, <1>5, <2>2 DEF Policy, Goto
    <3>2. r.pc = "build" /\ r.todo = {}
      BY <1>1, <1>3, <2>1 DEF Request
    <3> HIDE DEF r
    <3> QED
      BY <2>1, <3>1, <3>2, QuietKeeps
  <2>3. CASE ~Allowed
    <3>1. Commit(h, <<>>) /\ req' = [req EXCEPT ![h] = Idle]
      BY <1>5, <2>3 DEF Policy, Done
    <3> QED
      BY <1>1, <1>2, <2>1, <3>1, PlainCommitKeeps
  <2> QED
    BY <2>2, <2>3
<1>6. CASE Build(h)
  <2> DEFINE r == [req[h] EXCEPT !.pc = "llm"]
  <2>1. req[h].pc = "build" /\ lastCall' = lastCall /\ Commit(h, <<>>)
    BY <1>6 DEF Build
  <2>2. req' = [req EXCEPT ![h] = r] /\ r.todo = {}
    BY <1>1, <1>3, <1>6, <2>1 DEF Build, Goto, Request
  <2> HIDE DEF r
  <2> QED
    BY <1>2, <2>1, <2>2, PlainCommitKeeps
<1>7. CASE Final(h)
  <2>1. req[h].pc = "llm" /\ lastCall' = lastCall /\ Done(h)
    BY <1>7 DEF Final
  <2>2. CASE active /\ credits = 0 /\ t \notin ledger
    BY <1>7, <2>1, <2>2, RollbackKeeps DEF Final
  <2>3. CASE ~ (active /\ credits = 0 /\ t \notin ledger)
    <3>1. Commit(h, <<AssistantStep(t, {})>>)
      BY <1>7, <2>3 DEF Final
    <3> DEFINE s == AssistantStep(t, {})
    <3>2. s \in Step /\ s.role = "assistant" /\ s.uses = {} /\ s.turn = t
          /\ s.born = Nobody /\ s.cut = Nobody
      BY <1>2, <2>1, MadeSteps
    <3>3. Commit(h, <<s>>)
      BY <3>1
    <3> HIDE DEF s
    <3>4. lastCall' = lastCall + 0 /\ lastCall + 0 <= MaxCalls /\ 0 \in Nat
      BY <1>1, <2>1
    <3> QED
      BY <1>1, <1>2, <2>1, <3>2, <3>3, <3>4, StepCommitKeeps
  <2> QED
    BY <2>2, <2>3
<1>8. CASE Truncated(h)
  <2>1. req[h].pc = "llm" /\ Done(h)
    BY <1>8 DEF Truncated
  <2>2. PICK n \in 0 .. MaxCalls - lastCall :
          /\ Commit(h, <<[AssistantStep(t, Fresh(n)) EXCEPT !.mark = "maxTokens"]>>)
          /\ lastCall' = lastCall + n
    BY <1>8 DEF Truncated
  <2> DEFINE s == [AssistantStep(t, Fresh(n)) EXCEPT !.mark = "maxTokens"]
  <2>3. n \in Nat /\ lastCall + n <= MaxCalls /\ Fresh(n) \subseteq Calls
    BY <1>1 DEF Fresh, Calls
  <2>4. s \in Step /\ s.role = "assistant" /\ s.uses = Fresh(n) /\ s.turn = t
        /\ s.born = Nobody /\ s.cut = Nobody
    <3>1. t \in Turns /\ Fresh(n) \in SUBSET Calls /\ "maxTokens" \in {"maxTokens", "turnFailed"}
      BY <1>2, <2>1, <2>3
    <3> HIDE DEF t
    <3> QED
      BY <3>1 DEF AssistantStep, UserStep, Step
  <2>5. Commit(h, <<s>>)
    BY <2>2
  <2> HIDE DEF s
  <2> QED
    BY <1>2, <2>1, <2>2, <2>3, <2>4, <2>5, StepCommitKeeps
<1>9. CASE DeviceTools(h)
  <2>1. PICK d \in 1 .. 2, n \in 0 .. 1 : AskTools(h, d, n)
    BY <1>9 DEF DeviceTools
  <2>2. d \in 0 .. 2 /\ d + n >= 1
    OBVIOUS
  <2>3. req' = [req EXCEPT ![h] = Idle] /\ req[h].pc = "llm"
    BY <1>9, <2>1 DEF DeviceTools, Done, AskTools
  <2> QED
    BY <1>1, <1>2, <2>1, <2>2, <2>3, AskToolsKeeps
<1>10. CASE ServerTools(h)
  <2> DEFINE r == [req[h] EXCEPT !.rounds = @ + 1,
                                 !.pc = IF req[h].rounds < MaxRounds THEN "build" ELSE "failed"]
  <2>1. AskTools(h, 0, 1) /\ req[h].pc = "llm"
    BY <1>10 DEF ServerTools, AskTools
  <2>2. req' = [req EXCEPT ![h] = r]
    BY <1>1, <1>10 DEF ServerTools
  <2>3. r.todo = {}
    BY <1>1, <1>3, <2>1 DEF Request
  <2> HIDE DEF r
  <2>4. 0 \in 0 .. 2 /\ 1 \in 0 .. 1 /\ 0 + 1 >= 1
    OBVIOUS
  <2> QED
    BY <1>2, <2>1, <2>2, <2>3, <2>4, AskToolsKeeps
<1>12. CASE BadTools(h)
  BY <1>12, BadToolsKeeps
<1>13. CASE MarkTurnFailed(h)
  <2>1. req[h].pc \in {"llm", "failed", "givenUp"} /\ Done(h) /\ lastCall' = lastCall
    BY <1>13 DEF MarkTurnFailed
  <2>2. CASE Rollback(h)
    BY <2>1, <2>2, RollbackKeeps
  <2>3. CASE Commit(h, <<Marked(t, "turnFailed")>>)
    <3> DEFINE s == Marked(t, "turnFailed")
    <3>1. s \in Step /\ s.role = "assistant" /\ s.uses = {} /\ s.turn = t
          /\ s.born = Nobody /\ s.cut = Nobody
      <4>1. t \in Turns /\ {} \in SUBSET Calls /\ "turnFailed" \in {"maxTokens", "turnFailed"}
        BY <1>2, <2>1
      <4> HIDE DEF t
      <4> QED
        BY <4>1 DEF Marked, AssistantStep, UserStep, Step
    <3>2. Commit(h, <<s>>)
      BY <2>3
    <3> HIDE DEF s
    <3>3. lastCall' = lastCall + 0 /\ lastCall + 0 <= MaxCalls /\ 0 \in Nat
      BY <1>1, <2>1
    <3> QED
      BY <1>1, <1>2, <2>1, <3>1, <3>2, <3>3, StepCommitKeeps
  <2> QED
    BY <1>13, <2>2, <2>3 DEF MarkTurnFailed
<1>14. CASE \E c \in Calls : Apply(h, c)
  BY <1>14, ApplyKeeps
<1>15. CASE Barrier(h)
  <2>1. req[h].pc = "apply" /\ req[h].todo = {} /\ lastCall' = lastCall
    BY <1>15 DEF Barrier
  <2>2. CASE Commit(h, <<>>) /\ Done(h)
    BY <1>1, <1>2, <2>1, <2>2, PlainCommitKeeps DEF Done
  <2>3. CASE Rollback(h) /\ Done(h)
    BY <2>1, <2>3, RollbackKeeps
  <2>4. CASE GoOn(h) /\ UNCHANGED <<steps, row>>
    <3> DEFINE r == [req[h] EXCEPT !.pc = "build", !.anchor = 0, !.open = FALSE]
    <3>1. req' = [req EXCEPT ![h] = r] /\ UNCHANGED <<steps, row, lastCall>>
      BY <1>1, <2>1, <2>4 DEF GoOn
    <3>2. r.pc = "build" /\ r.todo = {}
      BY <1>1, <2>1 DEF Request
    <3> HIDE DEF r
    <3> QED
      BY <2>1, <3>1, <3>2, QuietKeeps
  <2> QED
    BY <1>15, <2>2, <2>3, <2>4 DEF Barrier
<1> QED
  BY <1>4, <1>5, <1>6, <1>7, <1>8, <1>9, <1>10, <1>12, <1>13, <1>14, <1>15 DEF Serve

\* Whatever a handler does.
LEMMA StepsKept ==
  ASSUME ChatInv, NEW h \in Handlers, Acts(h)
  PROVE  StepsTyped' /\ StepsFit'
<1>0. CASE CutHistory(h)
  BY <1>0, CutKeeps
<1> SUFFICES ASSUME Arrive(h) \/ Serve(h) \/ Abort(h), UNCHANGED torn
             PROVE  StepsTyped' /\ StepsFit'
  BY <1>0 DEF Acts
<1>1. CASE Run(h)
  BY <1>1, RunKeeps
<1>2. CASE \E t \in Turns : Edit(h, t)
  BY <1>2, EditKeeps
<1>3. CASE \E t \in Turns, items \in SUBSET Calls : \E a \in items : ToolResult(h, t, items, a)
  BY <1>3, ToolResultKeeps
<1>4. CASE Serve(h)
  BY <1>4, ServeKeeps
<1>5. CASE Abort(h)
  BY <1>5, RollbackKeeps DEF Abort
<1> QED
  BY <1>1, <1>2, <1>3, <1>4, <1>5 DEF Arrive

-----------------------------------------------------------------------------
(* Types.                                                                  *)

\* Rows stay rows.
LEMMA RowsTyped ==
  ASSUME ChatInv, NEW h \in Handlers, Acts(h)
  PROVE  row' \in [Calls -> Row]
<1>1. row \in [Calls -> Row] /\ req \in [Handlers -> Request] /\ lastCall \in Nat /\ MaxCalls \in Nat
  BY ChatAssumption DEF ChatInv, TypeOK
<1>2. req[h].pc # "idle" => req[h].turn \in Turns
  BY <1>1 DEF ChatInv, Serves, Request
<1>3. ASSUME NEW new, Commit(h, new)
      PROVE  row' \in [Calls -> Row]
  <2>1. \A c \in Calls : CommittedRow(h, c) \in Row
    BY <1>1, CommittedRowIs
  <2> QED
    BY <1>3, <2>1 DEF Commit
<1>4. ASSUME Rollback(h)
      PROVE  row' \in [Calls -> Row]
  <2>1. \A c \in Calls : row'[c] \in Row
    BY <1>1, <1>4, RolledBackRowIs
  <2>2. row' = [c \in Calls |-> row'[c]]
    BY <1>4 DEF Rollback
  <2> QED
    BY <2>1, <2>2
<1>5. CASE row' = row
  BY <1>1, <1>5
<1>6. CASE CutHistory(h)
  <2> DEFINE dead == {c \in req[h].items : row[c].st # "none"}
  <2>1. row' = [c \in Calls |->
                  IF c \in dead THEN [row[c] EXCEPT !.next = "none", !.by = h] ELSE row[c]]
    BY <1>6 DEF CutHistory
  <2> HIDE DEF dead
  <2>2. \A c \in Calls : [row[c] EXCEPT !.next = "none", !.by = h] \in Row
    BY <1>1 DEF Row, Status
  <2> QED
    BY <1>1, <2>1, <2>2
<1>7. ASSUME NEW c \in Calls, Apply(h, c)
      PROVE  row' \in [Calls -> Row]
  <2>1. row' = row \/ row' = [row EXCEPT ![c].next = "done", ![c].by = h]
    BY <1>7 DEF Apply
  <2> QED
    BY <1>1, <2>1 DEF Row, Status
<1>8. ASSUME NEW d \in Nat, NEW n \in Nat, AskTools(h, d, n)
      PROVE  row' \in [Calls -> Row]
  <2> DEFINE t == req[h].turn
  <2>1. \A c \in Calls : CommittedRow(h, c) \in Row
    BY <1>1, CommittedRowIs
  <2>2. t \in Turns
    BY <1>2, <1>8 DEF AskTools
  <2>3. row' = [c \in Calls |->
                  IF c \in Fresh(d) THEN [turn |-> t, st |-> "pending", next |-> "pending",
                                          by |-> Nobody]
                  ELSE CommittedRow(h, c)]
    BY <1>8 DEF AskTools
  <2>4. [turn |-> t, st |-> "pending", next |-> "pending", by |-> Nobody] \in Row
    BY <2>2 DEF Row, Status
  <2> HIDE DEF t
  <2> QED
    BY <2>1, <2>3, <2>4
<1>9. CASE BadTools(h)
  <2> DEFINE t == req[h].turn
  <2>1. PICK d \in 0 .. 1 :
          row' = [c \in Calls |->
                    IF c \in Fresh(d) THEN [turn |-> t, st |-> "none", next |-> "pending", by |-> h]
                    ELSE row[c]]
    BY <1>9 DEF BadTools
  <2>2. t \in Turns
    BY <1>2, <1>9 DEF BadTools
  <2>3. [turn |-> t, st |-> "none", next |-> "pending", by |-> h] \in Row
    BY <2>2 DEF Row, Status
  <2> HIDE DEF t
  <2> QED
    BY <1>1, <2>1, <2>3
<1>10. CASE DeviceTools(h) \/ ServerTools(h)
  <2>1. \E d, n \in Nat : AskTools(h, d, n)
    BY <1>10 DEF DeviceTools, ServerTools
  <2> QED
    BY <1>8, <2>1
<1>11. CASE Run(h) \/ EditRun(h)
  BY <1>5, <1>11 DEF Run, EditRun
<1>12. CASE \/ \E t \in Turns : Edit(h, t)
           \/ \E t \in Turns, items \in SUBSET Calls : \E a \in items : ToolResult(h, t, items, a)
  BY <1>5, <1>12 DEF Edit, ToolResult, chatVars
<1>13. CASE Policy(h) \/ Build(h)
  BY <1>3, <1>5, <1>13 DEF Policy, Build
<1>14. CASE Final(h) \/ Truncated(h)
  BY <1>3, <1>4, <1>14 DEF Final, Truncated
<1>15. CASE MarkTurnFailed(h) \/ Barrier(h) \/ Abort(h)
  BY <1>3, <1>4, <1>5, <1>15 DEF MarkTurnFailed, Barrier, Abort
<1> QED
  BY <1>6, <1>7, <1>9, <1>10, <1>11, <1>12, <1>13, <1>14, <1>15 DEF Acts, Arrive, Serve

\* Every request is one, has its turn and is within its rounds.
RequestsOK == req \in [Handlers -> Request] /\ \A h \in Handlers : Serves(h)

\* The step of one request, if the request it becomes is one.
LEMMA RequestTyped ==
  ASSUME RequestsOK, NEW h \in Handlers, NEW r \in Request, req' = [req EXCEPT ![h] = r],
         r.pc # "idle" => r.turn # 0, r.pc # "failed" => r.rounds <= MaxRounds
  PROVE  RequestsOK'
<1>1. req' \in [Handlers -> Request]
  BY DEF RequestsOK
<1>2. \A g \in Handlers : req'[g] = IF g = h THEN r ELSE req[g]
  BY DEF RequestsOK
<1> QED
  BY <1>1, <1>2 DEF RequestsOK, Serves

\* The user step an edit starts from is the first of its turn that is seen.
LEMMA FirstOfIs ==
  ASSUME StepsTyped, NEW h, NEW t, \E i \in Visible(h) : steps[i].role = "user" /\ steps[i].turn = t
  PROVE  /\ FirstOf(h, t) \in Visible(h) /\ FirstOf(h, t) \in Nat
         /\ steps[FirstOf(h, t)].role = "user" /\ steps[FirstOf(h, t)].turn = t
<1> DEFINE U == {i \in Visible(h) : steps[i].role = "user" /\ steps[i].turn = t}
<1>1. U # {} /\ U \subseteq DOMAIN steps
  BY DEF Visible
<1>2. U \in SUBSET Nat /\ IsFiniteSet(U)
  BY <1>1, FS_Subset DEF StepsTyped
<1>3. Min(U) \in U
  <2> HIDE DEF U
  <2> QED
    BY <1>1, <1>2, MinIs
<1> QED
  BY <1>2, <1>3 DEF FirstOf

\* Requests stay requests, with their turn and within their rounds.
LEMMA RequestsTyped ==
  ASSUME ChatInv, NEW h \in Handlers, Acts(h)
  PROVE  RequestsOK'
<1>1. /\ RequestsOK /\ req[h] \in Request /\ MaxRounds \in Nat /\ turns \in Nat /\ MaxTurns \in Nat
      /\ req \in [Handlers -> Request] /\ turns \in 0 .. MaxTurns
  BY ChatAssumption DEF ChatInv, TypeOK, RequestsOK
<1>2. req[h].pc # "idle" => req[h].turn # 0
  BY DEF ChatInv, Serves
<1>3. req[h].pc # "failed" => req[h].rounds <= MaxRounds
  BY DEF ChatInv, Serves
<1>0. Idle \in Request /\ Idle.pc = "idle" /\ Idle.rounds = 0
  BY <1>1 DEF Idle, Request
<1>4. ASSUME Done(h)
      PROVE  RequestsOK'
  <2>1. Idle.rounds <= MaxRounds /\ req' = [req EXCEPT ![h] = Idle]
    BY <1>0, <1>1, <1>4 DEF Done
  <2> QED
    BY <1>0, <1>1, <2>1, RequestTyped
<1>5. ASSUME NEW where \in {"policy", "build", "llm", "failed", "givenUp"}, Goto(h, where),
             req[h].pc \notin {"idle", "failed"}
      PROVE  RequestsOK'
  <2> DEFINE r == [req[h] EXCEPT !.pc = where]
  <2>1. r \in Request /\ r.turn = req[h].turn /\ r.rounds = req[h].rounds
    BY <1>1 DEF Request
  <2>2. req' = [req EXCEPT ![h] = r]
    BY <1>1, <1>5 DEF Goto
  <2> HIDE DEF r
  <2> QED
    BY <1>1, <1>2, <1>3, <1>5, <2>1, <2>2, RequestTyped
<1>6. ASSUME turns < MaxTurns
      PROVE  turns + 1 \in Turns /\ turns + 1 # 0
  BY <1>1, <1>6 DEF Turns
<1>14. ASSUME Run(h)
       PROVE  RequestsOK'
  <2> DEFINE r == [Idle EXCEPT !.pc = "policy", !.turn = turns + 1]
  <2>1. turns < MaxTurns /\ req' = [req EXCEPT ![h] = r]
    BY <1>14 DEF Run
  <2>2. r \in Request /\ r.turn = turns + 1 /\ r.rounds = 0
    BY <1>0, <1>6, <2>1 DEF Request
  <2> HIDE DEF r
  <2>5. r.turn # 0 /\ r.rounds <= MaxRounds
    BY <1>1, <1>6, <2>1, <2>2
  <2> QED
    BY <1>1, <2>1, <2>2, <2>5, RequestTyped
<1>17. StepsTyped
  BY DEF ChatInv, TypeOK, StepsTyped
<1>15. ASSUME NEW t \in Turns, Edit(h, t)
       PROVE  RequestsOK'
  <2> DEFINE from == FirstOf(h, t)
             items == {c \in Calls : row[c].st # "none" /\ row[c].turn \in TurnsFrom(h, from)}
             r == [Idle EXCEPT !.pc = "cutting", !.turn = turns + 1, !.from = from, !.items = items]
  <2>1. turns < MaxTurns /\ req' = [req EXCEPT ![h] = r]
    BY <1>15 DEF Edit
  <2>2. from \in Nat
    BY <1>15, <1>17, FirstOfIs DEF Edit
  <2> HIDE DEF from
  <2>3. items \in SUBSET Calls
    OBVIOUS
  <2> HIDE DEF items
  <2>4. r \in Request /\ r.turn = turns + 1 /\ r.rounds = 0
    BY <1>0, <1>6, <2>1, <2>2, <2>3 DEF Request
  <2> HIDE DEF r
  <2>5. r.turn # 0 /\ r.rounds <= MaxRounds
    BY <1>1, <1>6, <2>1, <2>4
  <2> QED
    BY <1>1, <2>1, <2>4, <2>5, RequestTyped
<1>16. ASSUME CutHistory(h)
       PROVE  RequestsOK'
  <2> DEFINE r == [req[h] EXCEPT !.pc = "edited", !.items = {}, !.from = 0]
  <2>1. req[h].pc = "cutting" /\ req' = [req EXCEPT ![h].pc = "edited", ![h].items = {}, ![h].from = 0]
    BY <1>16 DEF CutHistory
  <2>2. req' = [req EXCEPT ![h] = r]
    BY <1>1, <2>1
  <2>3. r \in Request /\ r.turn = req[h].turn /\ r.rounds = req[h].rounds /\ r.pc = "edited"
    BY <1>1 DEF Request
  <2> HIDE DEF r
  <2> QED
    BY <1>1, <1>2, <1>3, <2>1, <2>2, <2>3, RequestTyped
<1>7. ASSUME NEW t \in Turns, NEW items \in SUBSET Calls, NEW a \in items, ToolResult(h, t, items, a)
      PROVE  RequestsOK'
  <2> DEFINE r == [Idle EXCEPT !.pc = "apply", !.turn = t, !.items = items, !.anchor = a,
                               !.todo = items \cap PendingOf(h, t), !.open = PendingOf(h, t) # {}]
  <2>1. req' = [req EXCEPT ![h] = r]
    BY <1>7 DEF ToolResult
  <2>2. items \cap PendingOf(h, t) \in SUBSET Calls /\ (PendingOf(h, t) # {}) \in BOOLEAN
    OBVIOUS
  <2>3. r \in Request /\ r.turn # 0 /\ r.rounds <= MaxRounds
    <3>1. t # 0 /\ a \in Calls
      BY DEF Turns
    <3>2. r \in Request /\ r.turn = t /\ r.rounds = 0
      BY <1>0, <2>2, <3>1 DEF Request
    <3> QED
      BY <1>1, <3>1, <3>2
  <2> HIDE DEF r
  <2> QED
    BY <1>1, <2>1, <2>3, RequestTyped
<1>8. ASSUME NEW c \in Calls, Apply(h, c)
      PROVE  RequestsOK'
  <2> DEFINE r == [req[h] EXCEPT !.todo = @ \ {c}]
  <2>1. req' = [req EXCEPT ![h] = r] /\ req[h].pc = "apply"
    BY <1>1, <1>8 DEF Apply
  <2>2. r \in Request /\ r.turn = req[h].turn /\ r.rounds = req[h].rounds /\ r.pc = req[h].pc
    BY <1>1 DEF Request
  <2> HIDE DEF r
  <2> QED
    BY <1>1, <1>2, <1>3, <2>1, <2>2, RequestTyped
<1>9. ASSUME GoOn(h), req[h].pc = "apply"
      PROVE  RequestsOK'
  <2> DEFINE r == [req[h] EXCEPT !.pc = "build", !.anchor = 0, !.open = FALSE]
  <2>1. req' = [req EXCEPT ![h] = r]
    BY <1>1, <1>9 DEF GoOn
  <2>2. r \in Request /\ r.turn = req[h].turn /\ r.rounds = req[h].rounds
    BY <1>1 DEF Request
  <2> HIDE DEF r
  <2> QED
    BY <1>1, <1>2, <1>3, <1>9, <2>1, <2>2, RequestTyped
<1>10. ASSUME ServerTools(h)
       PROVE  RequestsOK'
  <2> DEFINE where == IF req[h].rounds < MaxRounds THEN "build" ELSE "failed"
             r == [req[h] EXCEPT !.rounds = @ + 1, !.pc = where]
  <2>0. req[h].pc = "llm"
    BY <1>10 DEF ServerTools, AskTools
  <2>1. req' = [req EXCEPT ![h] = r]
    BY <1>1, <1>10 DEF ServerTools
  <2>2. /\ req[h].rounds \in Nat /\ req[h].rounds <= MaxRounds
        /\ (where = "build" /\ req[h].rounds + 1 <= MaxRounds) \/ where = "failed"
    BY <1>1, <1>3, <2>0 DEF Request
  <2>3. r \in Request /\ r.turn = req[h].turn /\ r.rounds = req[h].rounds + 1 /\ r.pc = where
    <3>1. r.turn = req[h].turn /\ r.rounds = req[h].rounds + 1 /\ r.pc = where
      BY <1>1 DEF Request
    <3>2. req[h].rounds + 1 \in 0 .. MaxRounds + 1 /\ where \in {"build", "failed"}
      BY <1>1, <2>2
    <3>3. r \in Request
      <4> HIDE DEF where
      <4> QED
        BY <1>1, <3>2 DEF Request
    <3> QED
      BY <3>1, <3>3
  <2> HIDE DEF r, where
  <2> QED
    BY <1>1, <1>2, <2>0, <2>1, <2>2, <2>3, RequestTyped
<1>11. CASE EditRun(h) \/ Policy(h) \/ Build(h) \/ BadTools(h)
  BY <1>4, <1>5, <1>11 DEF EditRun, Policy, Build, BadTools
<1>12. CASE Final(h) \/ Truncated(h) \/ DeviceTools(h) \/ MarkTurnFailed(h) \/ Abort(h)
  BY <1>4, <1>12 DEF Final, Truncated, DeviceTools, MarkTurnFailed, Abort
<1>13. CASE Barrier(h)
  BY <1>4, <1>9, <1>13 DEF Barrier
<1> QED
  BY <1>7, <1>8, <1>10, <1>11, <1>12, <1>13, <1>14, <1>15, <1>16 DEF Acts, Arrive, Serve

\* Turns and calls stay within their bounds.
LEMMA CountersTyped ==
  ASSUME ChatInv, NEW h \in Handlers, Acts(h)
  PROVE  turns' \in 0 .. MaxTurns /\ lastCall' \in 0 .. MaxCalls
<1>1. /\ turns \in 0 .. MaxTurns /\ lastCall \in 0 .. MaxCalls /\ turns \in Nat /\ lastCall \in Nat
      /\ MaxTurns \in Nat /\ MaxCalls \in Nat
  BY ChatAssumption DEF ChatInv, TypeOK
<1>2. ASSUME NEW d \in Nat, NEW n \in Nat, AskTools(h, d, n)
      PROVE  turns' = turns /\ lastCall' \in 0 .. MaxCalls
  BY <1>1, <1>2 DEF AskTools
<1>3. CASE DeviceTools(h) \/ ServerTools(h)
  <2>1. \E d, n \in Nat : AskTools(h, d, n)
    BY <1>3 DEF DeviceTools, ServerTools
  <2> QED
    BY <1>1, <1>2, <2>1
<1>4. CASE Truncated(h)
  BY <1>1, <1>4 DEF Truncated
<1>5. CASE BadTools(h)
  BY <1>1, <1>5 DEF BadTools
<1>6. CASE Run(h) \/ \E t \in Turns : Edit(h, t)
  <2>1. turns' = turns + 1 /\ turns < MaxTurns /\ lastCall' = lastCall
    BY <1>6 DEF Run, Edit
  <2> QED
    BY <1>1, <2>1
<1>7. CASE \E t \in Turns, items \in SUBSET Calls : \E a \in items : ToolResult(h, t, items, a)
  BY <1>1, <1>7 DEF ToolResult, chatVars
<1>8. CASE \/ EditRun(h) \/ Policy(h) \/ Build(h) \/ Final(h) \/ MarkTurnFailed(h)
           \/ (\E c \in Calls : Apply(h, c)) \/ Barrier(h) \/ Abort(h) \/ CutHistory(h)
  <2>1. turns' = turns /\ lastCall' = lastCall
    BY <1>8 DEF CutHistory, EditRun, Policy, Build, Final, MarkTurnFailed, Apply, Barrier, Abort, chatVars
  <2> QED
    BY <1>1, <2>1
<1> QED
  BY <1>3, <1>4, <1>5, <1>6, <1>7, <1>8 DEF Acts, Arrive, Serve

-----------------------------------------------------------------------------
(* Answers and payments.                                                   *)

\* Each answer of the next state is of a turn of T or there already.
AnswersWithin(T) ==
  \A i \in DOMAIN steps' : IsAnswer(steps'[i]) =>
    \/ steps'[i].turn \in T
    \/ \E j \in DOMAIN steps : IsAnswer(steps[j]) /\ steps[j].turn = steps'[i].turn

\* A commit adds the answers among its new steps.
LEMMA CommitAnswers ==
  ASSUME StepsTyped, NEW h \in Handlers, NEW new \in Seq(Step), steps' = Committed(h, new),
         NEW T, \A i \in 1 .. Len(new) : IsAnswer(new[i]) => new[i].turn \in T
  PROVE  AnswersWithin(T)
<1>1. PICK n \in Nat :
        /\ DOMAIN steps' = {i \in DOMAIN steps : steps[i].cut # h} \cup n + 1 .. n + Len(new)
        /\ \A i \in DOMAIN steps : steps[i].cut # h => Stays(i)
        /\ \A i \in n + 1 .. n + Len(new) : steps'[i] = new[i - n]
  BY CommitIs
<1>2. ASSUME NEW i \in DOMAIN steps', IsAnswer(steps'[i])
      PROVE  \/ steps'[i].turn \in T
             \/ \E j \in DOMAIN steps : IsAnswer(steps[j]) /\ steps[j].turn = steps'[i].turn
  <2>1. CASE i \in DOMAIN steps /\ Stays(i)
    BY <1>2, <2>1 DEF Stays, IsAnswer
  <2>2. CASE i \in n + 1 .. n + Len(new)
    <3> DEFINE l == Len(new)
    <3>1. l \in Nat /\ i \in n + 1 .. n + l
      BY <2>2
    <3> HIDE DEF l
    <3>2. i - n \in 1 .. l
      BY <3>1
    <3>3. i - n \in 1 .. Len(new)
      BY <3>2 DEF l
    <3> QED
      BY <1>1, <1>2, <2>2, <3>3
  <2> QED
    BY <1>1, <2>1, <2>2
<1> QED
  BY <1>2 DEF AnswersWithin

\* If there is one new step, that one at most.
LEMMA OneAnswer ==
  ASSUME StepsTyped, NEW h \in Handlers, NEW s \in Step, steps' = Committed(h, <<s>>),
         NEW T, IsAnswer(s) => s.turn \in T
  PROVE  AnswersWithin(T)
<1> DEFINE new == <<s>>
<1>1. new \in Seq(Step) /\ Len(new) = 1 /\ new[1] = s /\ steps' = Committed(h, new)
  OBVIOUS
<1> HIDE DEF new
<1>2. \A i \in 1 .. Len(new) : new[i] = s
  BY <1>1
<1> QED
  BY <1>1, <1>2, CommitAnswers

\* An insert of what is no answer adds none.
LEMMA InsertAnswers ==
  ASSUME StepsTyped, NEW s \in Step, Insert(s), ~IsAnswer(s)
  PROVE  AnswersWithin({})
<1>1. PICK n \in Nat :
        /\ DOMAIN steps' = DOMAIN steps \cup {n}
        /\ \A i \in DOMAIN steps : steps'[i] = steps[i]
        /\ steps'[n] = s
  BY InsertIs
<1> QED
  BY <1>1 DEF AnswersWithin

\* A rollback adds none.
LEMMA RollbackAnswers ==
  ASSUME StepsTyped, NEW h \in Handlers, Rollback(h)
  PROVE  AnswersWithin({})
<1>1. DOMAIN steps' \subseteq DOMAIN steps /\ \A i \in DOMAIN steps' : Stays(i)
  BY RollbackIs DEF Rollback
<1> QED
  BY <1>1 DEF AnswersWithin, Stays, IsAnswer

\* The steps of tool calls are no answers.
LEMMA ToolsAnswers ==
  ASSUME ChatInv, NEW h \in Handlers, NEW d \in 0 .. 2, NEW n \in 0 .. 1, d + n >= 1, AskTools(h, d, n)
  PROVE  AnswersWithin({})
<1> DEFINE t == req[h].turn
           device == Fresh(d)
           server == Fresh(d + n) \ device
           results == [i \in 1 .. n |-> ToolStep(t, lastCall + d + i)]
           first == AssistantStep(t, device \cup server)
           new == <<first>> \o results
<1>1. lastCall \in Nat /\ MaxCalls \in Nat /\ d \in Nat /\ n \in Nat /\ d + n \in Nat
      /\ lastCall + (d + n) <= MaxCalls /\ StepsTyped
  <2>1. MaxCalls \in Nat
    BY ChatAssumption
  <2>2. lastCall \in Nat /\ StepsTyped
    BY <2>1 DEF ChatInv, TypeOK, StepsTyped
  <2>3. d \in Nat /\ n \in Nat
    OBVIOUS
  <2>4. d + n <= MaxCalls - lastCall
    BY DEF AskTools
  <2> QED
    BY <2>1, <2>2, <2>3, <2>4
<1>0. t \in Turns
  BY DEF AskTools, ChatInv, Serves, TypeOK, Request
<1>2. device \cup server # {} /\ device \cup server \subseteq Calls
  <2>1. lastCall + 1 \in Fresh(d + n) /\ Fresh(d) \subseteq Fresh(d + n)
    BY <1>1 DEF Fresh
  <2>2. Fresh(d + n) \subseteq Calls
    BY <1>1, FreshIs
  <2> QED
    BY <2>1, <2>2
<1>3. first \in Step /\ ~IsAnswer(first)
  <2>1. first \in Step /\ first.uses = device \cup server
    BY <1>0, <1>2, MadeSteps
  <2> QED
    BY <1>2, <2>1 DEF IsAnswer
<1>4. results \in Seq(Step) /\ Len(results) = n /\ \A i \in 1 .. n : ~IsAnswer(results[i])
  <2>1. \A i \in 1 .. n : lastCall + d + i \in Calls
    BY <1>1 DEF Calls
  <2>2. \A i \in 1 .. n : ToolStep(t, lastCall + d + i) \in Step
                          /\ ToolStep(t, lastCall + d + i).role = "tool"
    BY <1>0, <2>1, MadeSteps
  <2>3. results \in [1 .. n -> Step] /\ \A i \in 1 .. n : results[i].role = "tool"
    BY <2>2
  <2> QED
    BY <1>1, <2>3 DEF IsAnswer
<1> HIDE DEF first, results
<1>5. new \in Seq(Step) /\ \A i \in 1 .. Len(new) : ~IsAnswer(new[i])
  <2>1. \A i \in 1 .. 1 + n : new[i] = IF i = 1 THEN first ELSE results[i - 1]
    BY <1>1, <1>3, <1>4
  <2>2. new \in Seq(Step) /\ Len(new) = 1 + n
    BY <1>1, <1>3, <1>4
  <2>3. \A i \in 1 .. 1 + n : i = 1 \/ i - 1 \in 1 .. n
    BY <1>1
  <2> QED
    BY <1>3, <1>4, <2>1, <2>2, <2>3
<1>6. steps' = Committed(h, new)
  BY DEF AskTools, first, results
<1> HIDE DEF new
<1> QED
  BY <1>1, <1>5, <1>6, CommitAnswers

\* No action but Final adds an answer, and none but it moves money.
LEMMA NoNewAnswers ==
  ASSUME ChatInv, NEW h \in Handlers, Acts(h), ~Final(h)
  PROVE  AnswersWithin({}) /\ UNCHANGED moneyVars
<1>1. StepsTyped /\ lastCall \in Nat /\ MaxCalls \in Nat /\ turns \in Nat /\ MaxTurns \in Nat
  BY ChatAssumption DEF ChatInv, TypeOK, StepsTyped
<1>2. req[h].pc # "idle" => req[h].turn \in Turns
  BY DEF ChatInv, Serves, TypeOK, Request
<1>3. ASSUME UNCHANGED steps
      PROVE  AnswersWithin({})
  BY <1>3 DEF AnswersWithin
<1>4. ASSUME Commit(h, <<>>)
      PROVE  AnswersWithin({})
  <2> DEFINE new == <<>>
  <2>1. new \in Seq(Step) /\ steps' = Committed(h, new) /\ \A i \in 1 .. Len(new) : FALSE
    BY <1>4 DEF Commit
  <2> HIDE DEF new
  <2> QED
    BY <1>1, <2>1, CommitAnswers
<1>5. Rollback(h) => AnswersWithin({})
  BY <1>1, RollbackAnswers
<1>6. ASSUME CutHistory(h)
      PROVE  AnswersWithin({})
  <2>1. DOMAIN steps' = DOMAIN steps /\ \A i \in DOMAIN steps : Stays(i)
    <3> DEFINE gone == StepsFrom(h, req[h].from)
    <3>1. steps' = [i \in DOMAIN steps |-> IF i \in gone THEN [steps[i] EXCEPT !.cut = h] ELSE steps[i]]
      BY <1>6 DEF CutHistory
    <3>2. \A i \in DOMAIN steps : steps[i] \in Step
      BY <1>1 DEF StepsTyped
    <3> HIDE DEF gone
    <3> QED
      BY <3>1, <3>2 DEF Stays, Step
  <2> QED
    BY <2>1 DEF AnswersWithin, Stays, IsAnswer
<1>7. ASSUME NEW t \in Turns, Insert([UserStep(t) EXCEPT !.born = h])
      PROVE  AnswersWithin({})
  <2> DEFINE s == [UserStep(t) EXCEPT !.born = h]
  <2>1. s \in Step /\ ~IsAnswer(s)
    BY MadeSteps DEF IsAnswer
  <2> HIDE DEF s
  <2> QED
    BY <1>1, <1>7, <2>1, InsertAnswers DEF s
<1>8. ASSUME NEW c \in Calls, Apply(h, c)
      PROVE  AnswersWithin({}) /\ UNCHANGED moneyVars
  <2> DEFINE s == [ToolStep(req[h].turn, c) EXCEPT !.born = h]
  <2>1. s \in Step /\ ~IsAnswer(s)
    BY <1>2, <1>8, MadeSteps, Opened DEF Apply, IsAnswer
  <2>2. Insert(s) \/ UNCHANGED steps
    BY <1>8 DEF Apply
  <2> HIDE DEF s
  <2> QED
    BY <1>1, <1>3, <1>8, <2>1, <2>2, InsertAnswers DEF Apply
<1>9. ASSUME BadTools(h)
      PROVE  AnswersWithin({})
  <2>1. PICK d \in 0 .. 1 :
          d < MaxCalls - lastCall /\ Insert([AssistantStep(req[h].turn, Fresh(d + 1)) EXCEPT !.born = h])
    BY <1>9 DEF BadTools
  <2> DEFINE t == req[h].turn
             s == [AssistantStep(t, Fresh(d + 1)) EXCEPT !.born = h]
  <2>2. Fresh(d + 1) \in SUBSET Calls /\ Fresh(d + 1) # {} /\ t \in Turns
    <3>1. d + 1 \in Nat /\ lastCall + (d + 1) <= MaxCalls /\ d + 1 # 0
      BY <1>1, <2>1
    <3> QED
      BY <1>1, <1>2, <1>9, <3>1, FreshIs DEF BadTools
  <2>3. s \in Step /\ s.uses = Fresh(d + 1)
    BY <2>2, MadeSteps, Opened
  <2>4. Insert(s)
    BY <2>1
  <2> HIDE DEF s
  <2> QED
    BY <1>1, <2>2, <2>3, <2>4, InsertAnswers DEF IsAnswer
<1>10. ASSUME NEW U \in SUBSET Calls, NEW m \in {"maxTokens", "turnFailed"}, req[h].turn \in Turns,
              NEW s, s = [AssistantStep(req[h].turn, U) EXCEPT !.mark = m], Commit(h, <<s>>)
       PROVE  AnswersWithin({})
  <2>1. s \in Step /\ s.mark = m
    <3> DEFINE t == req[h].turn
    <3>1. t \in Turns /\ s = [AssistantStep(t, U) EXCEPT !.mark = m]
      BY <1>10
    <3> HIDE DEF t
    <3> QED
      BY <3>1 DEF AssistantStep, UserStep, Step
  <2>2. ~IsAnswer(s) /\ steps' = Committed(h, <<s>>)
    BY <1>10, <2>1 DEF IsAnswer, Commit
  <2> QED
    BY <1>1, <2>1, <2>2, OneAnswer
<1>11. CASE Run(h)
  <2>1. turns + 1 \in Turns
    BY <1>1, <1>11 DEF Run, Turns
  <2> QED
    BY <1>7, <1>11, <2>1 DEF Run
<1>12. CASE CutHistory(h) \/ \E t \in Turns : Edit(h, t)
  BY <1>3, <1>6, <1>12 DEF CutHistory, Edit
<1>13. CASE \E t \in Turns, items \in SUBSET Calls : \E a \in items : ToolResult(h, t, items, a)
  BY <1>3, <1>13 DEF ToolResult, chatVars
<1>14. CASE EditRun(h)
  BY <1>2, <1>7, <1>14 DEF EditRun
<1>15. CASE Policy(h) \/ Build(h) \/ Barrier(h) \/ Abort(h)
  BY <1>3, <1>4, <1>5, <1>15 DEF Policy, Build, Barrier, Abort
<1>16. CASE Truncated(h)
  <2>1. PICK n \in 0 .. MaxCalls - lastCall :
          Commit(h, <<[AssistantStep(req[h].turn, Fresh(n)) EXCEPT !.mark = "maxTokens"]>>)
    BY <1>16 DEF Truncated
  <2>2. Fresh(n) \in SUBSET Calls
    BY <1>1 DEF Fresh, Calls
  <2> QED
    BY <1>2, <1>10, <1>16, <2>1, <2>2 DEF Truncated
<1>17. CASE MarkTurnFailed(h)
  <2>1. CASE Commit(h, <<Marked(req[h].turn, "turnFailed")>>)
    <3>1. {} \in SUBSET Calls /\ req[h].turn \in Turns
      BY <1>2, <1>17 DEF MarkTurnFailed
    <3> QED
      BY <1>10, <1>17, <2>1, <3>1 DEF MarkTurnFailed, Marked
  <2> QED
    BY <1>5, <1>17, <2>1 DEF MarkTurnFailed
<1>18. CASE DeviceTools(h) \/ ServerTools(h)
  <2>1. \E d \in 0 .. 2, n \in 0 .. 1 : d + n >= 1 /\ AskTools(h, d, n)
    BY <1>18 DEF DeviceTools, ServerTools
  <2> QED
    BY <2>1, ToolsAnswers DEF AskTools
<1>19. CASE BadTools(h)
  BY <1>9, <1>19 DEF BadTools
<1> QED
  BY <1>8, <1>11, <1>12, <1>13, <1>14, <1>15, <1>16, <1>17, <1>18, <1>19 DEF Acts, Arrive, Serve

\* The wallet, the trial and the ledger have their types.
MoneyTyped ==
  /\ active \in BOOLEAN /\ trialUsed \in BOOLEAN /\ credits \in 0 .. MaxCredits
  /\ ledger \subseteq Turns /\ answered \subseteq Turns

\* Whatever a handler does, only answers are paid.
LEMMA MoneyKept ==
  ASSUME ChatInv, NEW h \in Handlers, Acts(h)
  PROVE  MoneyTyped' /\ OnlyAnswersArePaid'
<1>1. MoneyTyped /\ OnlyAnswersArePaid /\ StepsTyped /\ MaxCredits \in Nat
  BY ChatAssumption DEF ChatInv, TypeOK, MoneyTyped, StepsTyped
<1>2. CASE ~Final(h) \/ (Final(h) /\ Rollback(h) /\ UNCHANGED moneyVars)
  <2>1. AnswersWithin({}) /\ UNCHANGED moneyVars
    BY <1>1, <1>2, NoNewAnswers, RollbackAnswers
  <2>2. OnlyAnswersArePaid'
    <3>1. ASSUME active', NEW i \in DOMAIN steps', IsAnswer(steps'[i])
          PROVE  steps'[i].turn \in ledger'
      <4>1. PICK j \in DOMAIN steps : IsAnswer(steps[j]) /\ steps[j].turn = steps'[i].turn
        BY <2>1, <3>1 DEF AnswersWithin
      <4> QED
        BY <1>1, <2>1, <3>1, <4>1 DEF OnlyAnswersArePaid, moneyVars
    <3> QED
      BY <1>1, <2>1, <3>1 DEF OnlyAnswersArePaid, moneyVars, IsAnswer
  <2> QED
    BY <1>1, <2>1, <2>2 DEF MoneyTyped, moneyVars
<1>3. CASE Final(h) /\ ~ (active /\ credits = 0 /\ req[h].turn \notin ledger)
  <2> DEFINE t == req[h].turn
             s == AssistantStep(t, {})
  <2>1. Commit(h, <<s>>) /\ Pay(t) /\ answered' = answered \cup {t}
    BY <1>3 DEF Final
  <2>2. t \in Turns
    BY <1>3 DEF ChatInv, Serves, TypeOK, Request, Final
  <2>3. s \in Step /\ s.turn = t
    BY <2>2, MadeSteps
  <2> HIDE DEF s
  <2>4. AnswersWithin({t})
    BY <1>1, <2>1, <2>3, OneAnswer DEF Commit
  <2>5. MoneyTyped'
    <3>1. active /\ t \notin ledger => credits # 0
      BY <1>3
    <3>2. credits' \in 0 .. MaxCredits
      BY <1>1, <2>1, <3>1 DEF Pay, MoneyTyped
    <3>3. trialUsed' \in BOOLEAN /\ active' \in BOOLEAN
      BY <1>1, <2>1 DEF Pay, MoneyTyped
    <3> QED
      BY <1>1, <2>1, <2>2, <3>2, <3>3 DEF Pay, MoneyTyped
  <2>6. OnlyAnswersArePaid'
    <3>1. ASSUME active', NEW i \in DOMAIN steps', IsAnswer(steps'[i])
          PROVE  steps'[i].turn \in ledger'
      <4>0. active /\ ledger' = ledger \cup {t}
        BY <2>1, <3>1 DEF Pay
      <4>1. CASE \E j \in DOMAIN steps : IsAnswer(steps[j]) /\ steps[j].turn = steps'[i].turn
        BY <1>1, <4>0, <4>1 DEF OnlyAnswersArePaid
      <4> QED
        BY <2>4, <3>1, <4>0, <4>1 DEF AnswersWithin
    <3>2. ledger' \subseteq answered'
      BY <1>1, <2>1 DEF OnlyAnswersArePaid, Pay
    <3>3. trialUsed' => ~active' /\ answered' # {}
      BY <1>1, <2>1 DEF OnlyAnswersArePaid, Pay, MoneyTyped
    <3> QED
      BY <3>1, <3>2, <3>3 DEF OnlyAnswersArePaid, IsAnswer
  <2> QED
    BY <2>5, <2>6
<1> QED
  BY <1>2, <1>3 DEF Final

-----------------------------------------------------------------------------
(* The invariant.                                                          *)

\* The initial state has its type.
LEMMA InitTyped ==
  ASSUME Init
  PROVE  TypeOK /\ DOMAIN steps = {}
<1>1. steps \in [DOMAIN steps -> Step] /\ IsFiniteSet(DOMAIN steps) /\ DOMAIN steps = {}
  <2>1. DOMAIN steps = {}
    BY DEF Init
  <2>2. steps = [i \in DOMAIN steps |-> steps[i]]
    BY DEF Init
  <2> QED
    BY <2>1, <2>2, FS_EmptySet
<1>2. NoRow \in Row /\ Idle \in Request
  BY ChatAssumption DEF NoRow, Row, Status, Idle, Request
<1>3. credits \in 0 .. MaxCredits /\ active \in BOOLEAN
  BY ChatAssumption DEF Init
<1>4. row \in [Calls -> Row] /\ req \in [Handlers -> Request]
  BY <1>2 DEF Init
<1>5. turns \in 0 .. MaxTurns /\ lastCall \in 0 .. MaxCalls
  BY ChatAssumption DEF Init
<1>6. /\ trialUsed \in BOOLEAN /\ orderly \in BOOLEAN /\ ledger \subseteq Turns
      /\ answered \subseteq Turns /\ torn \subseteq Calls
  BY DEF Init
<1> QED
  BY <1>1, <1>3, <1>4, <1>5, <1>6 DEF TypeOK

\* The inductive invariant: the steps, the rows and the ledger agree in every state.
THEOREM ChatInvariant == Spec => []ChatInv
<1>1. Init => ChatInv
  <2> SUFFICES ASSUME Init
               PROVE  ChatInv
    OBVIOUS
  <2>1. TypeOK /\ DOMAIN steps = {}
    BY InitTyped
  <2>2. \A h \in Handlers : req[h] = Idle
    BY DEF Init
  <2>3. \A c \in Calls : row[c] = NoRow
    BY DEF Init
  <2>4. OnlyAnswersArePaid
    BY <2>1 DEF Init, OnlyAnswersArePaid
  <2>5. \A h \in Handlers : Serves(h) /\ RestsClean(h) /\ TodoFits(h)
    BY <2>1, <2>2, <2>3, ChatAssumption DEF Serves, RestsClean, TodoFits, Idle, NoRow
  <2>6. DeletedOnceCommitted /\ AskedOnce /\ \A c \in Calls : ResultsIn(steps, c) = {}
    BY <2>1 DEF DeletedOnceCommitted, AskedOnce, ResultsIn, IndexesOf
  <2>7. \A c \in Calls : RowLives(c) /\ RowHasStep(c)
    BY <2>3 DEF RowLives, RowHasStep
  <2> QED
    BY <2>1, <2>4, <2>5, <2>6, <2>7 DEF ChatInv, StepsFit
<1>2. ChatInv /\ [Next]_vars => ChatInv'
  <2> SUFFICES ASSUME ChatInv, [Next]_vars
               PROVE  ChatInv'
    OBVIOUS
  <2>1. CASE UNCHANGED vars
    <3>1. UNCHANGED <<steps, row, req, turns, lastCall, active, trialUsed, credits, ledger, answered,
                      orderly, torn>>
      BY <2>1 DEF vars, chatVars, moneyVars
    <3>2. TypeOK' /\ OnlyAnswersArePaid' /\ \A h \in Handlers : Serves(h)'
      BY <3>1 DEF ChatInv, TypeOK, OnlyAnswersArePaid, IsAnswer, Serves
    <3>3. DeletedOnceCommitted' /\ AskedOnce' /\ \A h \in Handlers : RestsClean(h)' /\ TodoFits(h)'
      BY <3>1 DEF ChatInv, StepsFit, DeletedOnceCommitted, AskedOnce, Asks, RestsClean, TodoFits
    <3>4. \A c \in Calls : RowLives(c)' /\ RowHasStep(c)'
      BY <3>1 DEF ChatInv, StepsFit, RowLives, RowHasStep, Asks
    <3>5. \A c \in Calls : \A k \in ResultsIn(steps, c)' : ResultsIn(steps, c)' = {k} /\ ResultFits(c, k)'
      BY <3>1 DEF ChatInv, StepsFit, ResultsIn, IndexesOf, ResultFits, Asks
    <3> QED
      BY <3>2, <3>3, <3>4, <3>5 DEF ChatInv, StepsFit
  <2>2. CASE Next
    <3>1. PICK h \in Handlers : Acts(h) /\ KeepOrder
      BY <2>2 DEF Next
    <3>2. StepsTyped' /\ StepsFit'
      BY <3>1, StepsKept
    <3>3. row' \in [Calls -> Row]
      BY <3>1, RowsTyped
    <3>4. RequestsOK'
      BY <3>1, RequestsTyped
    <3>5. turns' \in 0 .. MaxTurns /\ lastCall' \in 0 .. MaxCalls
      BY <3>1, CountersTyped
    <3>6. MoneyTyped' /\ OnlyAnswersArePaid'
      BY <3>1, MoneyKept
    <3>7. orderly' \in BOOLEAN /\ torn' \subseteq Calls
      BY <3>1 DEF KeepOrder, Acts, CutHistory, ChatInv, TypeOK
    <3>8. TypeOK'
      BY <3>2, <3>3, <3>4, <3>5, <3>6, <3>7 DEF TypeOK, StepsTyped, RequestsOK, MoneyTyped
    <3> QED
      BY <3>2, <3>4, <3>6, <3>8 DEF ChatInv, RequestsOK
  <2> QED
    BY <2>1, <2>2
<1> QED
  BY <1>1, <1>2, PTL DEF Spec

\* Types: in particular, no wallet is overdrawn and no request exceeds its rounds.
THEOREM ChatTyped == Spec => []TypeOK
<1>1. ChatInv => TypeOK
  BY DEF ChatInv
<1> QED
  BY <1>1, ChatInvariant, PTL

\* A subscriber's answers are paid for, once, and only they, however the requests of a turn
\* overlap, are retried or die (_finalize_assistant, _debit).
THEOREM AnswersArePaid == Spec => []OnlyAnswersArePaid
<1>1. ChatInv => OnlyAnswersArePaid
  BY DEF ChatInv
<1> QED
  BY <1>1, ChatInvariant, PTL

\* A call has at most one result, and it is one transaction's with the call's status
\* (_apply_tool_result, update_tool_call_result).
THEOREM OneResult == Spec => []OneResultPerCall
<1>1. ChatInv => OneResultPerCall
  <2> SUFFICES ASSUME ChatInv, NEW c \in Calls, NEW k \in ResultsIn(steps, c)
               PROVE  /\ ResultsIn(steps, c) = {k}
                      /\ row[c].turn # 0 /\ steps[k].cut = Nobody =>
                           /\ row[c].next \in {"done", "none"}
                           /\ steps[k].born = Nobody <=> row[c].st = "done"
    BY DEF OneResultPerCall
  <2>1. ResultsIn(steps, c) = {k} /\ ResultFits(c, k) /\ RowLives(c)
    BY DEF ChatInv, StepsFit
  <2>2. row[c].turn # 0 => row[c] # NoRow
    BY DEF NoRow
  <2> QED
    BY <2>1, <2>2 DEF ResultFits, RowLives
<1> QED
  BY <1>1, ChatInvariant, PTL

-----------------------------------------------------------------------------
(* What is sent fits together.                                             *)

\* Steps in which every result has its call before it, unless that was torn from it, and no
\* other result shares it.
Coherent(S) ==
  /\ DOMAIN S \subseteq Nat \ {0} /\ IsFiniteSet(DOMAIN S)
  /\ \A i \in DOMAIN S : S[i].uses \subseteq Calls /\ (S[i].uses # {} => S[i].role = "assistant")
  /\ \A i, j \in DOMAIN S : \A c \in S[i].uses : c \in S[j].uses => i = j
  /\ \A k \in DOMAIN S : S[k].role = "tool" =>
       /\ S[k].call \in Calls /\ \A i \in DOMAIN S : S[k].call \in S[i].uses => i < k
       /\ S[k].call \notin torn => \E i \in DOMAIN S : i < k /\ S[k].call \in S[i].uses
  /\ \A j, k \in DOMAIN S :
       S[j].role = "tool" /\ S[k].role = "tool" /\ S[j].call = S[k].call => j = k

\* Every transaction sees such steps: with a result it sees the call, which may not be
\* deleted, and inserted, but together with it.
LEMMA ViewIsCoherent ==
  ASSUME ChatInv, NEW h \in Handlers, NEW S, S = View(h)
  PROVE  Coherent(S)
<1>1. DOMAIN S = Visible(h) /\ \A i \in DOMAIN S : S[i] = steps[i]
  BY DEF View, Restrict
<1>2. StepsTyped /\ AskedOnce /\ Nobody # h
  BY ChatAssumption DEF ChatInv, TypeOK, StepsFit, StepsTyped
<1>3. \A i \in DOMAIN S : /\ i \in DOMAIN steps /\ S[i] = steps[i]
                          /\ steps[i].born \in {Nobody, h} /\ steps[i].cut # h
  BY <1>1 DEF Visible
<1>4. \A i \in DOMAIN steps : steps[i].born \in {Nobody, h} /\ steps[i].cut # h => i \in DOMAIN S
  BY <1>1 DEF Visible
<1>5. DOMAIN S \subseteq Nat \ {0} /\ IsFiniteSet(DOMAIN S)
  BY <1>2, <1>3, FS_Subset DEF StepsTyped
<1>6. \A i \in DOMAIN steps : /\ steps[i].uses \subseteq Calls
                              /\ steps[i].role = "tool" => steps[i].call \in Calls
  BY <1>2, StepFields DEF AskedOnce
<1>7. \A i \in DOMAIN S : S[i].uses \subseteq Calls /\ (S[i].uses # {} => S[i].role = "assistant")
  BY <1>2, <1>3, <1>6 DEF AskedOnce, Asks
<1>8. \A i, j \in DOMAIN S : \A c \in S[i].uses : c \in S[j].uses => i = j
  BY <1>2, <1>3, <1>6 DEF AskedOnce, Asks
<1>9. ASSUME NEW k \in DOMAIN S, S[k].role = "tool"
      PROVE  /\ S[k].call \in Calls /\ \A i \in DOMAIN S : S[k].call \in S[i].uses => i < k
             /\ S[k].call \notin torn => \E i \in DOMAIN S : i < k /\ S[k].call \in S[i].uses
  <2> DEFINE c == S[k].call
  <2>1. c \in Calls /\ k \in ResultsIn(steps, c)
    BY <1>3, <1>6, <1>9 DEF ResultsIn, IndexesOf
  <2>4. ResultFits(c, k)
    BY <2>1 DEF ChatInv, StepsFit
  <2>5. \A i \in DOMAIN S : c \in S[i].uses => i < k
    BY <1>3, <2>4 DEF ResultFits, Asks
  <2> SUFFICES ASSUME c \notin torn
               PROVE  \E i \in DOMAIN S : i < k /\ c \in S[i].uses
    BY <2>1, <2>5
  <2>2. PICK i \in DOMAIN steps : /\ i < k /\ Asks(i, c)
                                  /\ steps[i].born \in {Nobody, steps[k].born}
                                  /\ steps[i].cut \in {Nobody, steps[k].cut}
    BY <2>4 DEF ResultFits
  <2>3. i \in DOMAIN S
    BY <1>2, <1>3, <1>4, <2>2
  <2> QED
    BY <1>3, <2>2, <2>3 DEF Asks
<1>10. ASSUME NEW j \in DOMAIN S, NEW k \in DOMAIN S, S[j].role = "tool", S[k].role = "tool",
              S[j].call = S[k].call
       PROVE  j = k
  <2> DEFINE c == S[k].call
  <2>1. c \in Calls /\ k \in ResultsIn(steps, c) /\ j \in ResultsIn(steps, c)
    BY <1>3, <1>6, <1>10 DEF ResultsIn, IndexesOf
  <2> QED
    BY <2>1 DEF ChatInv, StepsFit
<1> QED
  BY <1>5, <1>7, <1>8, <1>9, <1>10 DEF Coherent

\* NextUser is the first user step from j on.
LEMMA NextUserIs ==
  ASSUME NEW S, Coherent(S), NEW j \in DOMAIN S
  PROVE  /\ NextUser(S, j) \in Nat
         /\ NextUser(S, j) # 0 =>
              /\ NextUser(S, j) \in DOMAIN S /\ S[NextUser(S, j)].role = "user"
              /\ j <= NextUser(S, j)
         /\ \A u \in DOMAIN S : S[u].role = "user" /\ j <= u =>
              NextUser(S, j) # 0 /\ NextUser(S, j) <= u
<1> DEFINE U == {u \in IndexesOf(S, "user") : u >= j}
<1>1. NextUser(S, j) = IF U = {} THEN 0 ELSE Min(U)
  BY DEF NextUser
<1>2. U \in SUBSET Nat /\ IsFiniteSet(U) /\ 0 \notin U /\ j \in Nat /\ DOMAIN S \subseteq Nat
  BY FS_Subset DEF Coherent, IndexesOf
<1>3. \A u : u \in U <=> u \in DOMAIN S /\ S[u].role = "user" /\ j <= u
  BY <1>2 DEF IndexesOf
<1> HIDE DEF U
<1>4. CASE U = {}
  BY <1>1, <1>3, <1>4
<1>5. CASE U # {}
  <2>1. Min(U) \in U /\ \A u \in U : Min(U) <= u
    BY <1>2, <1>5, MinIs
  <2>2. NextUser(S, j) = Min(U)
    BY <1>1, <1>5
  <2> QED
    BY <1>2, <1>3, <2>1, <2>2
<1> QED
  BY <1>4, <1>5

\* A call is closed at the first step that closes it.
LEMMA ClosedAtIs ==
  ASSUME NEW S, Coherent(S), NEW c
  PROVE  /\ ClosedAt(S, c) \in Nat
         /\ ClosedAt(S, c) # 0 => ClosedAt(S, c) \in Closers(S, c)
         /\ \A j \in Closers(S, c) : ClosedAt(S, c) # 0 /\ ClosedAt(S, c) <= j
<1> DEFINE C == Closers(S, c)
<1>1. C \in SUBSET Nat /\ IsFiniteSet(C) /\ 0 \notin C
  BY FS_Subset DEF Coherent, Closers
<1>2. ClosedAt(S, c) = IF C = {} THEN 0 ELSE Min(C)
  BY DEF ClosedAt
<1> HIDE DEF C
<1>3. CASE C = {}
  BY <1>2, <1>3 DEF C
<1>4. CASE C # {}
  <2>1. Min(C) \in C /\ \A j \in C : Min(C) <= j
    BY <1>1, <1>4, MinIs
  <2> QED
    BY <1>1, <1>2, <1>4, <2>1 DEF C
<1> QED
  BY <1>3, <1>4

\* The messages of coherent steps.
LEMMA MessagesAre ==
  ASSUME NEW S, Coherent(S), NEW M, M = History(S)
  PROVE  /\ \A j \in DOMAIN S : ~Late(S, j) =>
              /\ <<j, 0>> \in DOMAIN M /\ M[<<j, 0>>].role = S[j].role
              /\ M[<<j, 0>>].uses = S[j].uses /\ M[<<j, 0>>].call = S[j].call
         /\ \A c \in Calls : ClosedAt(S, c) # 0 =>
              /\ <<ClosedAt(S, c), c>> \in DOMAIN M
              /\ Answers(M, <<ClosedAt(S, c), c>>, c)
         /\ \A p \in DOMAIN M :
              \/ \E j \in DOMAIN S :
                   /\ ~Late(S, j) /\ p = <<j, 0>> /\ M[p].role = S[j].role
                   /\ M[p].uses = S[j].uses /\ M[p].call = S[j].call
              \/ \E c \in Calls :
                   /\ ClosedAt(S, c) # 0 /\ p = <<ClosedAt(S, c), c>>
                   /\ M[p].role = "tool" /\ M[p].uses = {} /\ M[p].call = c
<1>1. DOMAIN M = Places(S)
  BY DEF History
<1>2. \A p \in Places(S) : M[p] = IF p[2] = 0 THEN Message(S[p[1]]) ELSE Missing(p[2])
  BY DEF History
<1>3. ASSUME NEW j \in DOMAIN S, ~Late(S, j)
      PROVE  /\ <<j, 0>> \in DOMAIN M /\ M[<<j, 0>>].role = S[j].role
             /\ M[<<j, 0>>].uses = S[j].uses /\ M[<<j, 0>>].call = S[j].call
  <2>1. <<j, 0>> \in Places(S)
    BY <1>3 DEF Places
  <2>2. M[<<j, 0>>] = Message(S[j])
    BY <1>2, <2>1
  <2> QED
    BY <1>1, <2>1, <2>2 DEF Message
<1>4. ASSUME NEW c \in Calls, ClosedAt(S, c) # 0
      PROVE  /\ <<ClosedAt(S, c), c>> \in DOMAIN M /\ M[<<ClosedAt(S, c), c>>].role = "tool"
             /\ M[<<ClosedAt(S, c), c>>].uses = {} /\ M[<<ClosedAt(S, c), c>>].call = c
  <2>1. <<ClosedAt(S, c), c>> \in Places(S)
    BY <1>4 DEF Places
  <2>2. M[<<ClosedAt(S, c), c>>] = Missing(c)
    <3>1. c # 0
      BY DEF Calls
    <3> QED
      BY <1>2, <2>1, <3>1
  <2> QED
    BY <1>1, <2>1, <2>2 DEF Missing
<1>5. \A p \in DOMAIN M : \/ \E j \in DOMAIN S : ~Late(S, j) /\ p = <<j, 0>>
                          \/ \E c \in Calls : ClosedAt(S, c) # 0 /\ p = <<ClosedAt(S, c), c>>
  BY <1>1 DEF Places
<1> QED
  BY <1>3, <1>4, <1>5 DEF Answers

\* The history made of coherent steps fits together.
LEMMA HistoryFits ==
  ASSUME NEW S, Coherent(S)
  PROVE  FitsTogether(History(S))
<1> DEFINE M == History(S)
           cl(c) == ClosedAt(S, c)
<1>0. DOMAIN S \subseteq Nat \ {0}
  BY DEF Coherent
<1>1. \A j \in DOMAIN S : ~Late(S, j) =>
        /\ <<j, 0>> \in DOMAIN M /\ M[<<j, 0>>].role = S[j].role
        /\ M[<<j, 0>>].uses = S[j].uses /\ M[<<j, 0>>].call = S[j].call
  BY MessagesAre
<1>2. \A c \in Calls : cl(c) # 0 => <<cl(c), c>> \in DOMAIN M /\ Answers(M, <<cl(c), c>>, c)
  BY MessagesAre
<1>3. \A p \in DOMAIN M :
        \/ \E j \in DOMAIN S :
             /\ ~Late(S, j) /\ p = <<j, 0>> /\ M[p].role = S[j].role
             /\ M[p].uses = S[j].uses /\ M[p].call = S[j].call
        \/ \E c \in Calls :
             /\ cl(c) # 0 /\ p = <<cl(c), c>>
             /\ M[p].role = "tool" /\ M[p].uses = {} /\ M[p].call = c
  BY MessagesAre
<1>4. \A c \in Calls :
        /\ cl(c) \in Nat
        /\ cl(c) # 0 => /\ cl(c) \in DOMAIN S /\ S[cl(c)].role # "tool"
                        /\ \E i \in DOMAIN S : i < cl(c) /\ c \in S[i].uses
                        /\ NextUser(S, cl(c)) # 0
                        /\ \A k \in ResultsIn(S, c) : k > NextUser(S, cl(c))
        /\ \A j \in Closers(S, c) : cl(c) # 0 /\ cl(c) <= j
  <2>1. \A c \in Calls : /\ cl(c) \in Nat /\ (cl(c) # 0 => cl(c) \in Closers(S, c))
                         /\ \A j \in Closers(S, c) : cl(c) # 0 /\ cl(c) <= j
    BY ClosedAtIs
  <2> HIDE DEF cl
  <2> QED
    BY <2>1 DEF Closers
<1> HIDE DEF M, cl
<1>5. \A j \in DOMAIN S : Late(S, j) <=> S[j].role = "tool" /\ cl(S[j].call) \in 1 .. j
  BY DEF Late, cl
<1>6. \A i \in DOMAIN S : \A c \in S[i].uses :
        /\ c \in Calls /\ S[i].role = "assistant" /\ ~Late(S, i)
        /\ <<i, 0>> \in DOMAIN M /\ c \in M[<<i, 0>>].uses
  BY <1>1, <1>5 DEF Coherent
<1>7. \A i, j \in DOMAIN S, b, c \in Calls \cup {0} :
        i < j => Before(<<i, b>>, <<j, c>>)
  BY DEF Before
<1>8. ASSUME NEW p \in DOMAIN M, M[p].role = "tool"
      PROVE  /\ M[p].call \notin torn => \E i \in DOMAIN M : Before(i, p) /\ M[p].call \in M[i].uses
             /\ \A q \in DOMAIN M : Answers(M, q, M[p].call) => q = p
  <2> DEFINE c == M[p].call
  <2>1. \/ \E j \in DOMAIN S : /\ p = <<j, 0>> /\ S[j].role = "tool" /\ S[j].call = c /\ ~Late(S, j)
        \/ c \in Calls /\ cl(c) # 0 /\ p = <<cl(c), c>>
    BY <1>3, <1>8
  <2>2. \A q \in DOMAIN M : Answers(M, q, c) =>
           \/ \E j \in DOMAIN S : /\ q = <<j, 0>> /\ S[j].role = "tool" /\ S[j].call = c /\ ~Late(S, j)
           \/ c \in Calls /\ cl(c) # 0 /\ q = <<cl(c), c>>
    BY <1>3 DEF Answers
  <2> HIDE DEF c
  <2>6. c \in Calls
    BY <2>1 DEF Coherent
  <2>3. ASSUME c \notin torn
        PROVE  \E i \in DOMAIN M : Before(i, p) /\ c \in M[i].uses
    <3>1. CASE \E j \in DOMAIN S : /\ p = <<j, 0>> /\ S[j].role = "tool" /\ S[j].call = c
      <4>1. PICK j \in DOMAIN S : /\ p = <<j, 0>> /\ S[j].role = "tool" /\ S[j].call = c
        BY <3>1
      <4>2. PICK i \in DOMAIN S : i < j /\ c \in S[i].uses
        BY <2>3, <4>1 DEF Coherent
      <4> QED
        BY <1>6, <1>7, <4>1, <4>2
    <3>2. CASE c \in Calls /\ cl(c) # 0 /\ p = <<cl(c), c>>
      <4>1. PICK i \in DOMAIN S : i < cl(c) /\ c \in S[i].uses
        BY <1>4, <3>2
      <4> QED
        BY <1>4, <1>6, <1>7, <3>2, <4>1
    <3> QED
      BY <2>1, <3>1, <3>2
  <2>4. ASSUME NEW j \in DOMAIN S, S[j].role = "tool", S[j].call = c, ~Late(S, j)
        PROVE  cl(c) = 0
    <3> SUFFICES ASSUME cl(c) # 0
                 PROVE  FALSE
      OBVIOUS
    <3>1. cl(c) \in Nat /\ cl(c) \in DOMAIN S /\ j > NextUser(S, cl(c)) /\ NextUser(S, cl(c)) # 0
      BY <1>4, <2>4, <2>6 DEF ResultsIn, IndexesOf
    <3>2. NextUser(S, cl(c)) \in Nat /\ cl(c) <= NextUser(S, cl(c))
      BY <3>1, NextUserIs
    <3>3. cl(c) \in 1 .. j
      BY <1>0, <3>1, <3>2
    <3> QED
      BY <1>5, <2>4, <3>3
  <2>5. ASSUME NEW q \in DOMAIN M, Answers(M, q, c)
        PROVE  q = p
    <3>1. CASE \E j \in DOMAIN S : /\ p = <<j, 0>> /\ S[j].role = "tool" /\ S[j].call = c /\ ~Late(S, j)
      <4>1. cl(c) = 0
        BY <2>4, <3>1
      <4>2. PICK j \in DOMAIN S : p = <<j, 0>> /\ S[j].role = "tool" /\ S[j].call = c
        BY <3>1
      <4>3. PICK k \in DOMAIN S : q = <<k, 0>> /\ S[k].role = "tool" /\ S[k].call = c
        BY <2>2, <2>5, <4>1
      <4> QED
        BY <4>2, <4>3 DEF Coherent
    <3>2. CASE cl(c) # 0 /\ p = <<cl(c), c>>
      BY <2>2, <2>4, <2>5, <3>2
    <3> QED
      BY <2>1, <3>1, <3>2
  <2> QED
    BY <2>3, <2>5 DEF c
<1>9. ASSUME NEW p \in DOMAIN M, NEW q \in DOMAIN M, M[q].role = "user", Before(p, q),
             NEW c \in M[p].uses
      PROVE  \E k \in Between(M, p, q) : Answers(M, k, c)
  <2>1. PICK i \in DOMAIN S : p = <<i, 0>> /\ c \in S[i].uses
    BY <1>3
  <2>2. PICK u \in DOMAIN S : q = <<u, 0>> /\ S[u].role = "user"
    BY <1>3, <1>9
  <2>3. i < u /\ c \in Calls /\ i \in Nat /\ u \in Nat
    BY <1>0, <1>6, <1>9, <2>1, <2>2 DEF Before
  <2> DEFINE J == {j \in DOMAIN S : i < j /\ j <= u /\ S[j].role # "tool"}
             f == Min(J)
  <2>4. u \in J /\ J \in SUBSET Nat /\ IsFiniteSet(J)
    BY <1>0, <2>2, <2>3, FS_Subset DEF Coherent
  <2>5. f \in J /\ \A j \in J : f <= j
    <3> HIDE DEF J
    <3> QED
      BY <2>4, MinIs
  <2>6. f \in DOMAIN S /\ f \in Nat /\ i < f /\ f <= u /\ S[f].role # "tool"
    BY <1>0, <2>5
  <2>7. NextUser(S, f) \in Nat /\ NextUser(S, f) # 0 /\ NextUser(S, f) <= u
    BY <2>2, <2>6, NextUserIs
  <2>8. \A j \in DOMAIN S : i < j /\ S[j].role # "tool" /\ j <= u => f <= j
    BY <2>5
  <2> HIDE DEF J, f
  <2>9. CASE \A k \in ResultsIn(S, c) : k > NextUser(S, f)
    <3>1. f \in Closers(S, c)
      BY <2>1, <2>6, <2>7, <2>9 DEF Closers
    <3>2. cl(c) # 0 /\ cl(c) <= f /\ cl(c) \in DOMAIN S
      BY <1>4, <2>3, <3>1
    <3>3. PICK e \in DOMAIN S : e < cl(c) /\ c \in S[e].uses
      BY <1>4, <2>3, <3>2
    <3>4. e = i
      BY <2>1, <3>3 DEF Coherent
    <3>5. Before(p, <<cl(c), c>>)
      BY <2>1, <3>3, <3>4 DEF Before
    <3>6. Before(<<cl(c), c>>, q)
      <4>1. 0 < c /\ cl(c) \in Nat /\ cl(c) <= u
        BY <1>4, <2>3, <2>6, <3>2 DEF Calls
      <4> QED
        BY <2>2, <2>3, <4>1 DEF Before
    <3> QED
      BY <1>2, <2>3, <3>2, <3>5, <3>6 DEF Between
  <2>10. CASE \E k \in ResultsIn(S, c) : ~ (k > NextUser(S, f))
    <3>1. PICK k \in ResultsIn(S, c) : ~ (k > NextUser(S, f))
      BY <2>10
    <3>2. k \in DOMAIN S /\ S[k].role = "tool" /\ S[k].call = c /\ k \in Nat
      BY <1>0 DEF ResultsIn, IndexesOf
    <3>3. i < k
      BY <2>1, <3>2 DEF Coherent
    <3>4. k < u
      <4>1. k <= u
        BY <2>3, <2>7, <3>1, <3>2
      <4>2. k # u
        BY <2>2, <3>2
      <4> QED
        BY <2>3, <3>2, <4>1, <4>2
    <3>5. ~Late(S, k)
      <4> SUFFICES ASSUME cl(c) \in 1 .. k
                   PROVE  FALSE
        BY <1>5, <3>2
      <4>1. cl(c) \in DOMAIN S /\ S[cl(c)].role # "tool" /\ NextUser(S, cl(c)) # 0
            /\ k > NextUser(S, cl(c)) /\ cl(c) \in Nat
        BY <1>4, <2>3, <3>2
      <4>2. PICK e \in DOMAIN S : e < cl(c) /\ c \in S[e].uses
        BY <1>4, <2>3
      <4>3. e = i
        BY <2>1, <4>2 DEF Coherent
      <4>4. f <= cl(c)
        BY <2>3, <2>8, <3>2, <3>4, <4>1, <4>2, <4>3
      <4>5. /\ NextUser(S, cl(c)) \in DOMAIN S /\ S[NextUser(S, cl(c))].role = "user"
            /\ cl(c) <= NextUser(S, cl(c)) /\ NextUser(S, cl(c)) \in Nat
        BY <4>1, NextUserIs
      <4>6. f <= NextUser(S, cl(c))
        BY <2>6, <4>1, <4>4, <4>5
      <4>7. NextUser(S, f) <= NextUser(S, cl(c))
        BY <2>6, <4>5, <4>6, NextUserIs
      <4> QED
        BY <2>7, <3>1, <3>2, <4>1, <4>5, <4>7
    <3>6. <<k, 0>> \in DOMAIN M /\ Answers(M, <<k, 0>>, c)
      BY <1>1, <3>2, <3>5 DEF Answers
    <3>7. Before(p, <<k, 0>>) /\ Before(<<k, 0>>, q)
      BY <2>1, <2>2, <3>3, <3>4 DEF Before
    <3> QED
      BY <3>6, <3>7 DEF Between
  <2> QED
    BY <2>9, <2>10
<1> QED
  BY <1>8, <1>9 DEF FitsTogether, Answered, M

\* What is sent to the model fits together, whatever else is going on: every result answers
\* a call before it, no call has two, and the calls before a user's message are all answered
\* (_neutral_history_from_steps, ADR-114).
THEOREM SentFitsTogether == Spec => []ResultsFit
<1>1. ChatInv => ResultsFit
  <2> SUFFICES ASSUME ChatInv, NEW h \in Handlers
               PROVE  FitsTogether(Input(h))
    BY DEF ResultsFit
  <2>1. Coherent(View(h))
    BY ViewIsCoherent
  <2> QED
    BY <2>1, HistoryFits DEF Input
<1> QED
  BY <1>1, ChatInvariant, PTL

-----------------------------------------------------------------------------
(* Open calls, as the steps grow.                                          *)

\* T is S with more steps, which ask for nothing.
More(S, T) ==
  /\ DOMAIN S \subseteq DOMAIN T
  /\ \A i \in DOMAIN S : /\ T[i].role = S[i].role /\ T[i].turn = S[i].turn
                         /\ T[i].uses = S[i].uses /\ T[i].call = S[i].call
                         /\ T[i].mark = S[i].mark
  /\ \A i \in DOMAIN T : i \notin DOMAIN S => T[i].role # "assistant" /\ T[i].uses = {}

\* What was not open stays so.
LEMMA OpenShrinks ==
  ASSUME NEW S, NEW T, More(S, T)
  PROVE  Open(T) \subseteq Open(S)
  BY DEF More, Open, ResultsIn, IndexesOf

\* No call was open when the assistant spoke, if none was in fewer steps.
LEMMA TidyGrows ==
  ASSUME NEW S, NEW T, More(S, T), Tidy(S)
  PROVE  Tidy(T)
<1> SUFFICES ASSUME NEW j \in IndexesOf(T, "assistant")
             PROVE  Open(Upto(T, j)) = {}
  BY DEF Tidy
<1>1. j \in IndexesOf(S, "assistant")
  BY DEF More, IndexesOf
<1>2. More(Upto(S, j), Upto(T, j))
  BY DEF More, Upto, Restrict
<1> QED
  BY <1>1, <1>2, OpenShrinks DEF Tidy

\* When none is open the assistant may speak: step j, and what follows it is not the
\* assistant's.
LEMMA TidySpeaks ==
  ASSUME NEW S, NEW T, DOMAIN T \subseteq Nat, NEW j \in DOMAIN T, Tidy(S), Open(S) = {},
         DOMAIN S \subseteq DOMAIN T, \A i \in DOMAIN S : i < j,
         \A i \in DOMAIN S : /\ T[i].role = S[i].role /\ T[i].turn = S[i].turn
                             /\ T[i].uses = S[i].uses /\ T[i].call = S[i].call
                             /\ T[i].mark = S[i].mark,
         \A i \in DOMAIN T : i \notin DOMAIN S /\ i # j => j < i /\ T[i].role # "assistant"
  PROVE  Tidy(T)
<1> SUFFICES ASSUME NEW a \in IndexesOf(T, "assistant")
             PROVE  Open(Upto(T, a)) = {}
  BY DEF Tidy
<1>1. CASE a = j
  <2>1. \A i \in DOMAIN T : i < j => i \in DOMAIN S
    OBVIOUS
  <2>2. DOMAIN Upto(T, j) = DOMAIN S
    BY <2>1 DEF Upto, Restrict
  <2>3. More(S, Upto(T, j))
    BY <2>2 DEF More, Upto, Restrict
  <2> QED
    BY <1>1, <2>3, OpenShrinks
<1>2. CASE a # j
  <2>1. a \in IndexesOf(S, "assistant") /\ a < j
    BY <1>2 DEF IndexesOf
  <2>2. \A i \in DOMAIN T : i < a => i \in DOMAIN S
    BY <2>1 DEF IndexesOf
  <2>3. DOMAIN Upto(T, a) = DOMAIN Upto(S, a)
    BY <2>1, <2>2 DEF Upto, Restrict
  <2>4. More(Upto(S, a), Upto(T, a))
    BY <2>3 DEF More, Upto, Restrict
  <2> QED
    BY <2>1, <2>4, OpenShrinks DEF Tidy
<1> QED
  BY <1>1, <1>2

\* A beginning of tidy steps is tidy.
LEMMA TidyBegins ==
  ASSUME NEW S, DOMAIN S \subseteq Nat, NEW f \in Nat, Tidy(S)
  PROVE  Tidy(Upto(S, f))
<1> SUFFICES ASSUME NEW j \in IndexesOf(Upto(S, f), "assistant")
             PROVE  Open(Upto(Upto(S, f), j)) = {}
  BY DEF Tidy
<1>1. j \in IndexesOf(S, "assistant") /\ j < f
  BY DEF IndexesOf, Upto, Restrict
<1>2. j \in Nat
  BY <1>1 DEF IndexesOf
<1>3. DOMAIN Upto(Upto(S, f), j) = DOMAIN Upto(S, j)
  BY <1>1, <1>2 DEF Upto, Restrict
<1>4. More(Upto(S, j), Upto(Upto(S, f), j))
  BY <1>3 DEF More, Upto, Restrict
<1> QED
  BY <1>1, <1>4, OpenShrinks DEF Tidy

-----------------------------------------------------------------------------
(* What is sent is accepted.                                               *)

\* In tidy steps a result follows its call at once, or after a user step.
LEMMA AnswersFollow ==
  ASSUME NEW S, Coherent(S), Tidy(S), NEW i \in DOMAIN S, NEW k \in DOMAIN S, i < k,
         S[k].role = "tool", S[k].call \in S[i].uses,
         NEW j \in DOMAIN S, S[j].role \in {"user", "assistant"}, i < j, j < k
  PROVE  \E u \in IndexesOf(S, "user") : i < u /\ u < k
<1> DEFINE c == S[k].call
<1>0. DOMAIN S \subseteq Nat /\ c \in Calls
  BY DEF Coherent
<1>1. CASE S[j].role = "user"
  BY <1>1 DEF IndexesOf
<1>2. CASE S[j].role = "assistant"
  <2>1. c \notin Open(Upto(S, j))
    BY <1>2 DEF Tidy, IndexesOf
  <2>2. ResultsIn(Upto(S, j), c) = {}
    <3> SUFFICES ASSUME NEW l \in ResultsIn(Upto(S, j), c)
                 PROVE  FALSE
      OBVIOUS
    <3>1. l \in DOMAIN S /\ l < j /\ S[l].role = "tool" /\ S[l].call = S[k].call
      BY DEF ResultsIn, IndexesOf, Upto, Restrict
    <3>2. l = k
      BY <3>1 DEF Coherent
    <3> QED
      BY <1>0, <3>1, <3>2
  <2>3. i \in DOMAIN Upto(S, j) /\ c \in Upto(S, j)[i].uses
    BY DEF Upto, Restrict
  <2>4. PICK u \in IndexesOf(Upto(S, j), "user") : ~ (u <= i)
    BY <1>0, <2>1, <2>2, <2>3 DEF Open
  <2>5. u \in IndexesOf(S, "user") /\ u < j /\ u \in Nat
    BY <1>0, <2>4 DEF IndexesOf, Upto, Restrict
  <2> QED
    BY <1>0, <2>4, <2>5
<1> QED
  BY <1>1, <1>2

\* The first step after i that is not a result.
LEMMA NextSpeaker ==
  ASSUME NEW S, Coherent(S), NEW i \in DOMAIN S, NEW u \in DOMAIN S, i < u, S[u].role = "user"
  PROVE  \E b \in DOMAIN S : /\ i < b /\ b <= u /\ S[b].role # "tool"
                             /\ \A j \in DOMAIN S : i < j /\ j < b => S[j].role = "tool"
<1> DEFINE D == {j \in DOMAIN S : i < j /\ S[j].role # "tool"}
<1>1. D \in SUBSET Nat /\ IsFiniteSet(D) /\ u \in D
  BY FS_Subset DEF Coherent
<1>2. PICK b \in D : \A j \in D : b <= j
  BY <1>1, MinIs
<1>3. \A j \in DOMAIN S : j \in Nat /\ (j < b => ~ (b <= j))
  BY DEF Coherent
<1> QED
  BY <1>1, <1>2, <1>3

\* The history made of tidy steps without open calls is one a provider accepts: a call has
\* its result at once, or is closed by the first step after it that is not a result.
LEMMA HistoryAccepted ==
  ASSUME NEW S, Coherent(S), Tidy(S), Open(S) = {},
         \A i \in DOMAIN S : S[i].role \in {"user", "assistant", "tool"}
  PROVE  Accepted(History(S))
<1> DEFINE M == History(S)
<1>0. \A i \in DOMAIN S : i \in Nat \ {0}
  BY DEF Coherent
<1>1. \A j \in DOMAIN S : ~Late(S, j) =>
        /\ <<j, 0>> \in DOMAIN M /\ M[<<j, 0>>].role = S[j].role
        /\ M[<<j, 0>>].uses = S[j].uses /\ M[<<j, 0>>].call = S[j].call
  BY MessagesAre
<1>2. \A c \in Calls : ClosedAt(S, c) # 0 =>
        <<ClosedAt(S, c), c>> \in DOMAIN M /\ Answers(M, <<ClosedAt(S, c), c>>, c)
  BY MessagesAre
<1>3. \A p \in DOMAIN M :
        \/ \E j \in DOMAIN S : p = <<j, 0>> /\ M[p].role = S[j].role /\ M[p].uses = S[j].uses
        \/ M[p].role = "tool" /\ M[p].uses = {}
  BY MessagesAre
<1> HIDE DEF M
<1>4. SUFFICES ASSUME NEW p \in DOMAIN M, NEW c \in M[p].uses
               PROVE  \E q \in DOMAIN M : /\ Before(p, q) /\ Answers(M, q, c)
                                          /\ \A l \in Between(M, p, q) : M[l].role = "tool"
  BY DEF Accepted, M
<1>5. PICK i \in DOMAIN S : p = <<i, 0>> /\ c \in S[i].uses
  BY <1>3, <1>4
<1>6. c \in Calls /\ c # 0 /\ S[i].role = "assistant"
  BY <1>5 DEF Coherent, Calls
\* A result, or the missing one, at place q with only results of steps between.
<1>7. ASSUME NEW b \in DOMAIN S, i < b, \A j \in DOMAIN S : i < j /\ j < b => S[j].role = "tool",
             NEW d \in Nat, <<b, d>> \in DOMAIN M, Answers(M, <<b, d>>, c)
      PROVE  \E q \in DOMAIN M : /\ Before(p, q) /\ Answers(M, q, c)
                                 /\ \A l \in Between(M, p, q) : M[l].role = "tool"
  <2> DEFINE q == <<b, d>>
  <2>1. Before(p, q)
    BY <1>5, <1>7 DEF Before
  <2>2. ASSUME NEW l \in Between(M, p, q), M[l].role # "tool"
        PROVE  FALSE
    <3>1. PICK j \in DOMAIN S : l = <<j, 0>> /\ M[l].role = S[j].role
      BY <1>3, <2>2 DEF Between
    <3>2. i < j /\ j < b
      BY <1>0, <1>5, <2>2, <3>1 DEF Between, Before
    <3> QED
      BY <1>7, <2>2, <3>1, <3>2
  <2> QED
    BY <1>7, <2>1, <2>2
<1>8. CASE \E u \in DOMAIN S : /\ S[u].role = "user" /\ i < u
                               /\ \A k \in ResultsIn(S, c) : u < k
  <2>1. PICK u \in DOMAIN S : S[u].role = "user" /\ i < u /\ \A k \in ResultsIn(S, c) : u < k
    BY <1>8
  <2>2. PICK b \in DOMAIN S : /\ i < b /\ b <= u /\ S[b].role # "tool"
                              /\ \A j \in DOMAIN S : i < j /\ j < b => S[j].role = "tool"
    BY <2>1, NextSpeaker
  <2>3. NextUser(S, b) # 0 /\ NextUser(S, b) <= u /\ NextUser(S, b) \in Nat
    BY <2>1, <2>2, NextUserIs
  <2>4. \A k \in ResultsIn(S, c) : k > NextUser(S, b)
    BY <1>0, <2>1, <2>3 DEF ResultsIn, IndexesOf
  <2>5. b \in Closers(S, c)
    BY <1>5, <2>2, <2>3, <2>4 DEF Closers
  <2>6. ClosedAt(S, c) # 0 /\ ClosedAt(S, c) <= b /\ ClosedAt(S, c) \in Closers(S, c)
    BY <2>5, ClosedAtIs
  <2>7. ClosedAt(S, c) = b
    <3> DEFINE a == ClosedAt(S, c)
    <3>1. a \in DOMAIN S /\ S[a].role # "tool"
      BY <2>6 DEF Closers
    <3>2. PICK j \in DOMAIN S : j < a /\ c \in S[j].uses
      BY <2>6 DEF Closers
    <3>3. j = i
      BY <1>5, <3>2 DEF Coherent
    <3> QED
      BY <1>0, <2>2, <2>6, <3>1, <3>2, <3>3
  <2>8. <<b, c>> \in DOMAIN M /\ Answers(M, <<b, c>>, c) /\ c \in Nat
    BY <1>2, <1>6, <2>6, <2>7 DEF Calls
  <2> QED
    BY <1>7, <2>2, <2>8
<1>9. CASE ~ \E u \in DOMAIN S : /\ S[u].role = "user" /\ i < u
                                 /\ \A k \in ResultsIn(S, c) : u < k
  <2>1. ResultsIn(S, c) # {}
    <3> SUFFICES ASSUME ResultsIn(S, c) = {}
                 PROVE  FALSE
      OBVIOUS
    <3>1. \A u \in IndexesOf(S, "user") : u <= i
      BY <1>0, <1>9 DEF IndexesOf
    <3> QED
      BY <1>5, <1>6, <3>1 DEF Open
  <2>2. PICK k \in DOMAIN S : S[k].role = "tool" /\ S[k].call = c
    BY <2>1 DEF ResultsIn, IndexesOf
  <2>3. \A l \in ResultsIn(S, c) : l = k
    BY <2>2 DEF ResultsIn, IndexesOf, Coherent
  <2>4. i < k
    BY <1>5, <2>2 DEF Coherent
  <2>5. ASSUME NEW j \in DOMAIN S, i < j, j < k, S[j].role # "tool"
        PROVE  FALSE
    <3>1. \E u \in IndexesOf(S, "user") : i < u /\ u < k
      BY <1>5, <2>2, <2>4, <2>5, AnswersFollow
    <3> QED
      BY <1>9, <2>3, <3>1 DEF IndexesOf
  <2>6. ~Late(S, k)
    <3> SUFFICES ASSUME Late(S, k)
                 PROVE  FALSE
      OBVIOUS
    <3> DEFINE a == ClosedAt(S, c)
    <3>1. a \in 1 .. k /\ a \in Closers(S, c)
      BY <2>2, ClosedAtIs DEF Late
    <3>2. a \in DOMAIN S /\ S[a].role # "tool" /\ \E j \in DOMAIN S : j < a /\ c \in S[j].uses
      BY <3>1 DEF Closers
    <3>3. i < a
      BY <1>5, <3>2 DEF Coherent
    <3>4. a # k /\ a < k
      BY <1>0, <2>2, <3>1, <3>2
    <3> QED
      BY <2>5, <3>2, <3>3, <3>4
  <2>7. <<k, 0>> \in DOMAIN M /\ Answers(M, <<k, 0>>, c)
    BY <1>1, <2>2, <2>6 DEF Answers
  <2> QED
    BY <1>7, <2>4, <2>5, <2>7
<1> QED
  BY <1>8, <1>9

-----------------------------------------------------------------------------
(* What each transaction sees, as the others go on.                        *)

\* T is S with more results.
WithResults(S, T) ==
  /\ DOMAIN S \subseteq DOMAIN T
  /\ \A i \in DOMAIN S : /\ T[i].role = S[i].role /\ T[i].turn = S[i].turn
                         /\ T[i].uses = S[i].uses /\ T[i].call = S[i].call
                         /\ T[i].mark = S[i].mark
  /\ \A i \in DOMAIN T : i \notin DOMAIN S => T[i].role = "tool" /\ T[i].uses = {}

LEMMA ResultsAreMore ==
  ASSUME NEW S, NEW T, WithResults(S, T)
  PROVE  More(S, T)
  BY DEF WithResults, More

LEMMA ResultsAdd ==
  ASSUME NEW S, NEW T, NEW R, WithResults(S, T), WithResults(T, R)
  PROVE  WithResults(S, R)
  BY DEF WithResults

\* The latest turn is the same with more results.
LEMMA LastTurnStays ==
  ASSUME NEW S, NEW T, WithResults(S, T), NEW t
  PROVE  LastTurn(S, t) <=> LastTurn(T, t)
<1>1. IndexesOf(S, "user") = IndexesOf(T, "user")
  BY DEF WithResults, IndexesOf
<1>2. \A u \in IndexesOf(S, "user") : S[u].turn = T[u].turn
  BY DEF WithResults, IndexesOf
<1> QED
  BY <1>1, <1>2 DEF LastTurn

LEMMA SeenIs ==
  ASSUME NEW h
  PROVE  /\ \A i : i \in DOMAIN View(h) <=>
              i \in DOMAIN steps /\ steps[i].born \in {Nobody, h} /\ steps[i].cut # h
         /\ \A i \in DOMAIN View(h) : View(h)[i] = steps[i]
         /\ \A i : i \in DOMAIN View(h)' <=>
              i \in DOMAIN steps' /\ steps'[i].born \in {Nobody, h} /\ steps'[i].cut # h
         /\ \A i \in DOMAIN View(h)' : View(h)'[i] = steps'[i]
  BY DEF View, Visible, Restrict

LEMMA StoredIs ==
  /\ \A i : i \in DOMAIN Stored <=> i \in DOMAIN steps /\ steps[i].born = Nobody
  /\ \A i \in DOMAIN Stored : Stored[i] = steps[i]
  /\ \A i : i \in DOMAIN Stored' <=> i \in DOMAIN steps' /\ steps'[i].born = Nobody
  /\ \A i \in DOMAIN Stored' : Stored'[i] = steps'[i]
  BY DEF Stored, Restrict

\* A request that has started no turn has only results of its own.
LEMMA OnlyResults ==
  ASSUME ChatInv, InOrder, NEW h \in Handlers, ~NewTurn(h), req[h].pc # "givenUp",
         NEW i \in DOMAIN steps
  PROVE  /\ steps[i].cut # h
         /\ steps[i].born = h => steps[i].role = "tool" /\ steps[i].uses = {} /\ steps[i].cut = Nobody
<1>1. h # Nobody /\ Writer(h) /\ StepsTyped /\ AskedOnce /\ DeletedOnceCommitted
  BY ChatAssumption DEF InOrder, ChatInv, TypeOK, StepsFit, StepsTyped
<1>2. steps[i].cut # h
  BY <1>1 DEF Writer
<1>3. steps[i].born = h => steps[i].role = "tool"
  BY <1>1 DEF Writer, NewTurn, IndexesOf
<1>4. steps[i].role = "tool" => steps[i].uses = {}
  BY <1>1, StepFields DEF AskedOnce, Asks
<1> QED
  BY <1>1, <1>2, <1>3, <1>4 DEF DeletedOnceCommitted

\* It sees what is committed, and those results.
LEMMA SeesStored ==
  ASSUME ChatInv, InOrder, NEW h \in Handlers, ~NewTurn(h), req[h].pc # "givenUp"
  PROVE  WithResults(Stored, View(h))
  BY OnlyResults, SeenIs, StoredIs DEF WithResults

\* An inserted step is seen by its transaction only.
LEMMA InsertSees ==
  ASSUME StepsTyped, NEW h \in Handlers, h # Nobody, NEW s \in Step, Insert(s), s.born = h, s.cut = Nobody
  PROVE  /\ WithResults(Stored, Stored')
         /\ \A g \in Handlers \ {h} : WithResults(View(g), View(g)')
         /\ s.role = "tool" /\ s.uses = {} => WithResults(View(h), View(h)')
         /\ s.role = "user" /\ s.uses = {} => More(View(h), View(h)')
<1>1. PICK n \in Nat : /\ DOMAIN steps' = DOMAIN steps \cup {n} /\ n \notin DOMAIN steps
                       /\ \A i \in DOMAIN steps : i < n /\ steps'[i] = steps[i]
                       /\ steps'[n] = s
  BY InsertIs
<1>2. WithResults(Stored, Stored')
  BY <1>1, StoredIs DEF WithResults
<1>3. ASSUME NEW g \in Handlers \ {h}
      PROVE  WithResults(View(g), View(g)')
  BY <1>1, SeenIs DEF WithResults
<1>4. /\ DOMAIN View(h)' = DOMAIN View(h) \cup {n}
      /\ \A i \in DOMAIN View(h) : View(h)'[i] = View(h)[i]
      /\ View(h)'[n] = s
  <2>1. ASSUME NEW i
        PROVE  i \in DOMAIN View(h)' <=> i \in DOMAIN View(h) \cup {n}
    <3>1. CASE i = n
      BY <1>1, <3>1, SeenIs
    <3>2. CASE i # n
      BY <1>1, <3>2, SeenIs
    <3> QED
      BY <3>1, <3>2
  <2>2. ASSUME NEW i \in DOMAIN View(h)
        PROVE  View(h)'[i] = View(h)[i]
    <3>1. i \in DOMAIN steps /\ View(h)[i] = steps[i]
      BY SeenIs
    <3>2. View(h)'[i] = steps'[i]
      BY <2>1, SeenIs
    <3> QED
      BY <1>1, <3>1, <3>2
  <2>3. View(h)'[n] = s
    BY <1>1, <2>1, SeenIs
  <2> QED
    BY <2>1, <2>2, <2>3
<1> QED
  BY <1>2, <1>3, <1>4 DEF WithResults, More

\* After a rollback all is as if the transaction had not been.
LEMMA RollbackSees ==
  ASSUME ChatInv, NEW h \in Handlers, steps' = RolledBackSteps(h)
  PROVE  /\ WithResults(Stored, Stored') /\ WithResults(Stored', View(h)')
         /\ \A g \in Handlers \ {h} : WithResults(View(g), View(g)')
<1>1. h # Nobody /\ StepsTyped
  BY ChatAssumption DEF ChatInv, TypeOK, StepsTyped
<1>2. /\ DOMAIN steps' = {i \in DOMAIN steps : steps[i].born # h}
      /\ \A i \in DOMAIN steps' :
           /\ Stays(i) /\ steps'[i].born = steps[i].born
           /\ steps'[i].cut = IF steps[i].cut = h THEN Nobody ELSE steps[i].cut
  BY <1>1, RollbackIs
<1>3. WithResults(Stored, Stored')
  BY <1>1, <1>2, StoredIs DEF WithResults, Stays
<1>4. WithResults(Stored', View(h)')
  BY <1>1, <1>2, StoredIs, SeenIs DEF WithResults
<1>5. ASSUME NEW g \in Handlers \ {h}
      PROVE  WithResults(View(g), View(g)')
  <2>1. g # Nobody
    BY ChatAssumption
  <2> QED
    BY <1>1, <1>2, <2>1, SeenIs DEF WithResults, Stays
<1> QED
  BY <1>3, <1>4, <1>5

\* A commit shows everybody what its transaction saw.
LEMMA CommitSees ==
  ASSUME ChatInv, NEW h \in Handlers, steps' = Committed(h, <<>>)
  PROVE  /\ WithResults(View(h), Stored') /\ WithResults(Stored', View(h)')
         /\ WithResults(Stored', View(h))
<1>1. h # Nobody /\ StepsTyped
  BY ChatAssumption DEF ChatInv, TypeOK, StepsTyped
<1> DEFINE new == <<>>
<1>2. new \in Seq(Step) /\ Len(new) = 0
  OBVIOUS
<1> HIDE DEF new
<1>3. PICK n \in Nat :
        /\ DOMAIN steps' = {i \in DOMAIN steps : steps[i].cut # h} \cup n + 1 .. n + Len(new)
        /\ \A i \in DOMAIN steps : steps[i].cut # h =>
             /\ i <= n /\ Stays(i) /\ steps'[i].cut = steps[i].cut
             /\ steps'[i].born = IF steps[i].born = h THEN Nobody ELSE steps[i].born
        /\ \A i \in n + 1 .. n + Len(new) : steps'[i] = new[i - n]
  BY <1>1, <1>2, CommitIs DEF new
<1>4. \A i : i \in DOMAIN steps' <=> i \in DOMAIN steps /\ steps[i].cut # h
  <2>1. n + 1 .. n + Len(new) = {}
    BY <1>2
  <2> QED
    BY <1>3, <2>1
<1>5. \A i : i \in DOMAIN Stored' <=> i \in DOMAIN View(h)
  BY <1>1, <1>3, <1>4, StoredIs, SeenIs
<1>6. \A i \in DOMAIN Stored' : Stays(i) /\ Stored'[i] = steps'[i] /\ View(h)[i] = steps[i]
  BY <1>3, <1>4, <1>5, StoredIs, SeenIs
<1>7. WithResults(View(h), Stored') /\ WithResults(Stored', View(h))
  BY <1>5, <1>6 DEF WithResults, Stays
<1>8. WithResults(Stored', View(h)')
  BY <1>1, <1>3, <1>4, StoredIs, SeenIs DEF WithResults
<1> QED
  BY <1>7, <1>8

\* When a request without a new turn commits, the others see its results too.
LEMMA OthersSee ==
  ASSUME ChatInv, InOrder, NEW h \in Handlers, ~NewTurn(h), req[h].pc # "givenUp",
         steps' = Committed(h, <<>>), NEW g \in Handlers
  PROVE  WithResults(View(g), View(g)')
<1>1. /\ h # Nobody /\ g # Nobody /\ StepsTyped /\ DeletedOnceCommitted
  BY ChatAssumption DEF ChatInv, TypeOK, StepsFit, StepsTyped
<1> DEFINE new == <<>>
<1>2. new \in Seq(Step) /\ Len(new) = 0
  OBVIOUS
<1> HIDE DEF new
<1>3. PICK n \in Nat :
        /\ DOMAIN steps' = {i \in DOMAIN steps : steps[i].cut # h} \cup n + 1 .. n + Len(new)
        /\ \A i \in DOMAIN steps : steps[i].cut # h =>
             /\ i <= n /\ Stays(i) /\ steps'[i].cut = steps[i].cut
             /\ steps'[i].born = IF steps[i].born = h THEN Nobody ELSE steps[i].born
        /\ \A i \in n + 1 .. n + Len(new) : steps'[i] = new[i - n]
  BY <1>1, <1>2, CommitIs DEF new
<1>4. \A i : i \in DOMAIN steps' <=> i \in DOMAIN steps
  <2>1. n + 1 .. n + Len(new) = {}
    BY <1>2
  <2> QED
    BY <1>3, <2>1, OnlyResults
<1>5. \A i \in DOMAIN steps :
        /\ Stays(i) /\ steps'[i].cut = steps[i].cut
        /\ steps'[i].born = IF steps[i].born = h THEN Nobody ELSE steps[i].born
        /\ steps[i].born = h => steps[i].role = "tool" /\ steps[i].uses = {}
  BY <1>3, OnlyResults
<1> QED
  BY <1>1, <1>4, <1>5, SeenIs DEF WithResults, Stays

\* A new turn's request sees its user step last, so it sees no open call.
LEMMA NewTurnIsClosed ==
  ASSUME ChatInv, InOrder, NEW h \in Handlers,
         NEW u \in DOMAIN steps, steps[u].role = "user", steps[u].born = h
  PROVE  /\ Open(View(h)) = {} /\ LastTurn(View(h), steps[u].turn)
         /\ \A i \in IndexesOf(View(h), "assistant") : \E v \in IndexesOf(View(h), "user") : i < v
<1>1. /\ h # Nobody /\ NewUserIsLast /\ StepsTyped /\ AskedOnce /\ DeletedOnceCommitted
  BY ChatAssumption DEF InOrder, ChatInv, TypeOK, StepsFit, StepsTyped
<1>2. u \in IndexesOf(View(h), "user") /\ View(h)[u].turn = steps[u].turn /\ u \in Nat
  BY <1>1, SeenIs DEF IndexesOf, DeletedOnceCommitted, StepsTyped
<1>3. ASSUME NEW i \in DOMAIN View(h), View(h)[i].role # "tool"
      PROVE  i <= u /\ i \in Nat /\ (View(h)[i].role = "assistant" => i < u)
  BY <1>1, <1>3, SeenIs DEF NewUserIsLast, StepsTyped
<1>4. LastTurn(View(h), steps[u].turn)
  BY <1>2, <1>3 DEF LastTurn, IndexesOf
<1>5. Open(View(h)) = {}
  <2> SUFFICES ASSUME NEW c \in Calls, NEW i \in DOMAIN View(h), c \in View(h)[i].uses, u <= i
               PROVE  FALSE
    BY <1>2 DEF Open
  <2>1. View(h)[i].role = "assistant"
    BY <1>1, SeenIs DEF AskedOnce, Asks
  <2> QED
    BY <1>2, <1>3, <2>1
<1> QED
  BY <1>2, <1>3, <1>4, <1>5 DEF IndexesOf

\* What the others see after any commit, when they have started no turn.
LEMMA OthersAfter ==
  ASSUME ChatInv, InOrder, NEW h \in Handlers, NEW new \in Seq(Step), steps' = Committed(h, new),
         \A i \in 1 .. Len(new) : new[i].born = Nobody /\ new[i].cut = Nobody,
         NEW g \in Handlers, g # h, ~NewTurn(g), req[g].pc # "givenUp"
  PROVE  WithResults(Stored', View(g)')
<1>1. h # Nobody /\ g # Nobody /\ StepsTyped
  BY ChatAssumption DEF ChatInv, TypeOK, StepsTyped
<1>3. PICK n \in Nat :
        /\ DOMAIN steps' = {i \in DOMAIN steps : steps[i].cut # h} \cup n + 1 .. n + Len(new)
        /\ \A i \in DOMAIN steps : steps[i].cut # h =>
             /\ i <= n /\ Stays(i) /\ steps'[i].cut = steps[i].cut
             /\ steps'[i].born = IF steps[i].born = h THEN Nobody ELSE steps[i].born
        /\ \A i \in n + 1 .. n + Len(new) : steps'[i] = new[i - n]
  BY <1>1, CommitIs
<1>4. \A i \in n + 1 .. n + Len(new) : steps'[i].born = Nobody /\ steps'[i].cut = Nobody
  <2> SUFFICES ASSUME NEW i \in n + 1 .. n + Len(new)
               PROVE  steps'[i].born = Nobody /\ steps'[i].cut = Nobody
    OBVIOUS
  <2>1. i - n \in 1 .. Len(new)
    BY <1>3
  <2> QED
    BY <1>3, <2>1
<1>5. \A i \in DOMAIN steps' : /\ steps'[i].cut # g
                               /\ steps'[i].born = g => steps'[i].role = "tool" /\ steps'[i].uses = {}
  BY <1>1, <1>3, <1>4, OnlyResults DEF Stays
<1>6. ASSUME NEW i \in DOMAIN Stored'
      PROVE  i \in DOMAIN View(g)' /\ View(g)'[i] = Stored'[i]
  <2>1. i \in DOMAIN steps' /\ steps'[i].born = Nobody /\ Stored'[i] = steps'[i]
    BY StoredIs
  <2>2. steps'[i].cut # g
    BY <1>5, <2>1
  <2>3. i \in DOMAIN View(g)'
    BY <2>1, <2>2, SeenIs
  <2> QED
    BY <2>1, <2>3, SeenIs
<1>7. \A i \in DOMAIN View(g)' : i \notin DOMAIN Stored' =>
        View(g)'[i].role = "tool" /\ View(g)'[i].uses = {}
  BY <1>1, <1>5, SeenIs, StoredIs
<1> QED
  BY <1>6, <1>7 DEF WithResults

\* A user step after every call closes them.
LEMMA ClosedByUser ==
  ASSUME NEW S, NEW u \in IndexesOf(S, "user"),
         \A i \in DOMAIN S : S[i].uses # {} => ~ (u <= i)
  PROVE  Open(S) = {}
  BY DEF Open

\* The open calls, and who speaks, when there are only more results.
LEMMA StoredStays ==
  ASSUME WithResults(Stored, Stored'), OpenCalls, LatestSpeaks,
         \A c \in Calls : row[c].st = "pending" =>
            row'[c].st = "pending" \/ ResultsIn(Stored', c) # {}
  PROVE  OpenCalls' /\ LatestSpeaks'
<1>1. ASSUME NEW c \in Open(Stored')
      PROVE  \/ row'[c].st = "pending"
             \/ \E i \in DOMAIN Stored' : c \in Stored'[i].uses /\ Stored'[i].mark = "maxTokens"
  <2>1. c \in Open(Stored) /\ c \in Calls /\ ResultsIn(Stored', c) = {}
    BY ResultsAreMore, OpenShrinks DEF Open
  <2>2. CASE row[c].st = "pending"
    BY <2>1, <2>2
  <2>3. CASE \E i \in DOMAIN Stored : c \in Stored[i].uses /\ Stored[i].mark = "maxTokens"
    BY <2>3 DEF WithResults
  <2> QED
    BY <2>1, <2>2, <2>3 DEF OpenCalls
<1>2. ASSUME NEW i \in IndexesOf(Stored', "assistant")
      PROVE  LastTurn(Stored', Stored'[i].turn) \/ \E u \in IndexesOf(Stored', "user") : i < u
  <2>1. i \in IndexesOf(Stored, "assistant") /\ Stored'[i].turn = Stored[i].turn
    BY DEF WithResults, IndexesOf
  <2>2. \A u \in IndexesOf(Stored, "user") : u \in IndexesOf(Stored', "user")
    BY DEF WithResults, IndexesOf
  <2> QED
    BY <2>1, <2>2, LastTurnStays DEF LatestSpeaks
<1> QED
  BY <1>1, <1>2 DEF OpenCalls, LatestSpeaks

-----------------------------------------------------------------------------
(* What the others have written stays as it is.                            *)

\* What g has not committed is as it was.
Holds(g) ==
  /\ req'[g] = req[g]
  /\ \A i \in DOMAIN steps : steps[i].born = g => i \in DOMAIN steps' /\ Stays(i) /\ steps'[i].born = g
  /\ \A i \in DOMAIN steps' : steps'[i].born = g => i \in DOMAIN steps /\ Stays(i) /\ steps[i].born = g
  /\ \A i \in DOMAIN steps' : steps'[i].cut = g => i \in DOMAIN steps /\ steps[i].cut = g
  /\ \A c \in Calls : row'[c].by = g => row'[c] = row[c]

LEMMA WriterHolds ==
  ASSUME NEW g, Holds(g), Writer(g)
  PROVE  Writer(g)' /\ (NewTurn(g)' <=> NewTurn(g))
<1>1. NewTurn(g)' <=> NewTurn(g)
  BY DEF Holds, NewTurn, IndexesOf, Stays
<1>2. \A i \in DOMAIN steps' : steps'[i].born = g =>
        \/ steps'[i].role = "user" /\ steps'[i].turn = req'[g].turn /\ req'[g].pc \in {"policy", "build"}
        \/ steps'[i].role = "tool" /\ req'[g].pc \in {"apply", "build"}
        \/ steps'[i].role = "assistant" /\ req'[g].pc = "givenUp"
  BY DEF Holds, Writer, Stays
<1>3. \A i \in DOMAIN steps' : steps'[i].cut = g => NewTurn(g)'
  BY <1>1 DEF Holds, Writer
<1>4. ASSUME NEW c \in Calls, row'[c].by = g
      PROVE  /\ row'[c].next = "none" => NewTurn(g)'
             /\ row'[c].next = "done" => \E k \in ResultsIn(steps', c) : steps'[k].born = g
  <2>1. row'[c] = row[c]
    BY <1>4 DEF Holds
  <2>2. \A k \in ResultsIn(steps, c) : steps[k].born = g => k \in ResultsIn(steps', c) /\ steps'[k].born = g
    BY DEF Holds, ResultsIn, IndexesOf, Stays
  <2> QED
    BY <1>1, <1>4, <2>1, <2>2 DEF Writer
<1> QED
  BY <1>1, <1>2, <1>3, <1>4 DEF Writer

LEMMA InsertHolds ==
  ASSUME StepsTyped, NEW h \in Handlers, NEW s \in Step, Insert(s), s.born = h, s.cut = Nobody,
         NEW g \in Handlers, g # h, req'[g] = req[g],
         \A c \in Calls : row'[c].by = g => row'[c] = row[c]
  PROVE  Holds(g)
<1>1. PICK n \in Nat : /\ DOMAIN steps' = DOMAIN steps \cup {n} /\ n \notin DOMAIN steps
                       /\ \A i \in DOMAIN steps : i < n /\ steps'[i] = steps[i]
                       /\ steps'[n] = s
  BY InsertIs
<1> QED
  BY <1>1, ChatAssumption DEF Holds, Stays

LEMMA CommitHolds ==
  ASSUME StepsTyped, DeletedOnceCommitted, NEW h \in Handlers, NEW new \in Seq(Step), steps' = Committed(h, new),
         \A i \in 1 .. Len(new) : new[i].born = Nobody /\ new[i].cut = Nobody,
         NEW g \in Handlers, g # h, req'[g] = req[g],
         \A c \in Calls : row'[c].by = g => row'[c] = row[c]
  PROVE  Holds(g)
<1>1. PICK n \in Nat :
        /\ DOMAIN steps' = {i \in DOMAIN steps : steps[i].cut # h} \cup n + 1 .. n + Len(new)
        /\ \A i \in DOMAIN steps : steps[i].cut # h =>
             /\ i <= n /\ Stays(i) /\ steps'[i].cut = steps[i].cut
             /\ steps'[i].born = IF steps[i].born = h THEN Nobody ELSE steps[i].born
        /\ \A i \in n + 1 .. n + Len(new) : steps'[i] = new[i - n]
  BY CommitIs
<1>2. \A i \in n + 1 .. n + Len(new) : steps'[i].born = Nobody /\ steps'[i].cut = Nobody
  <2> SUFFICES ASSUME NEW i \in n + 1 .. n + Len(new)
               PROVE  steps'[i].born = Nobody /\ steps'[i].cut = Nobody
    OBVIOUS
  <2>1. i - n \in 1 .. Len(new)
    BY <1>1
  <2> QED
    BY <1>1, <2>1
<1>3. g # Nobody /\ h # Nobody
  BY ChatAssumption
<1> QED
  BY <1>1, <1>2, <1>3 DEF Holds, DeletedOnceCommitted

LEMMA RollbackHolds ==
  ASSUME StepsTyped, DeletedOnceCommitted, NEW h \in Handlers, steps' = RolledBackSteps(h),
         NEW g \in Handlers, g # h, req'[g] = req[g],
         \A c \in Calls : row'[c].by = g => row'[c] = row[c]
  PROVE  Holds(g)
<1>1. /\ DOMAIN steps' = {i \in DOMAIN steps : steps[i].born # h}
      /\ \A i \in DOMAIN steps' :
           /\ Stays(i) /\ steps'[i].born = steps[i].born
           /\ steps'[i].cut = IF steps[i].cut = h THEN Nobody ELSE steps[i].cut
  BY RollbackIs
<1>2. g # Nobody /\ h # Nobody
  BY ChatAssumption
<1> QED
  BY <1>1, <1>2 DEF Holds

-----------------------------------------------------------------------------
(* The order of steps and calls is kept: an inserted step.                 *)

RequestIs(h, r) == req' = [req EXCEPT ![h] = r]

LEMMA RequestsAre ==
  ASSUME ChatInv, NEW h \in Handlers, NEW r, RequestIs(h, r)
  PROVE  \A g \in Handlers : req'[g] = IF g = h THEN r ELSE req[g]
  BY DEF ChatInv, TypeOK, RequestIs

\* A user step starts a turn that is nobody else's.
LEMMA UserStepOrder ==
  ASSUME ChatInv, InOrder, Orderly', NEW h \in Handlers, NEW t \in Turns,
         NEW s \in Step, Insert(s), s.role = "user", s.turn = t, s.uses = {}, s.born = h, s.cut = Nobody,
         NEW r, RequestIs(h, r), r.pc = "policy", r.turn = t, req[h].pc \in {"idle", "edited"},
         UNCHANGED row, turns' \in Nat, turns <= turns', t <= turns',
         \A i \in DOMAIN steps : steps[i].turn # t,
         \A g \in Handlers \ {h} : req[g].turn # t
  PROVE  InOrder'
<1>1. /\ h # Nobody /\ StepsTyped /\ AskedOnce /\ DeletedOnceCommitted /\ StepsTyped'
      /\ TurnsAreNew /\ NewUserIsLast /\ TruncatedHasNoRow /\ turns \in Nat
      /\ \A g \in Handlers : Writer(g)
  BY ChatAssumption, InsertIs DEF InOrder, ChatInv, TypeOK, StepsFit, StepsTyped
<1>2. PICK n \in Nat : /\ DOMAIN steps' = DOMAIN steps \cup {n} /\ n \notin DOMAIN steps
                       /\ \A i \in DOMAIN steps : i < n /\ steps'[i] = steps[i]
                       /\ steps'[n] = s
  BY <1>1, InsertIs
<1>3. \A g \in Handlers : req'[g] = IF g = h THEN r ELSE req[g]
  BY RequestsAre
<1>4. NewTurn(h)' /\ \A i \in DOMAIN steps : steps[i].born # h
  <2>1. n \in IndexesOf(steps', "user") /\ steps'[n].born = h
    BY <1>2 DEF IndexesOf
  <2>2. NewTurn(h)'
    BY <1>3, <2>1 DEF NewTurn
  <2> QED
    BY <1>1, <2>2 DEF Writer
<1>5. ASSUME NEW g \in Handlers, g # h
      PROVE  Writer(g)' /\ (NewTurn(g)' <=> NewTurn(g))
  <2>1. Holds(g)
    BY <1>1, <1>3, <1>5, InsertHolds
  <2> QED
    BY <1>1, <2>1, WriterHolds
<1>6. Writer(h)'
  <2>1. \A i \in DOMAIN steps' : steps'[i].born = h => i = n
    BY <1>2, <1>4
  <2>2. ASSUME NEW c \in Calls, row'[c].by = h
        PROVE  row'[c].next # "done"
    <3>1. row'[c].next = "done" => \E k \in ResultsIn(steps, c) : steps[k].born = h
      BY <1>1, <2>2 DEF Writer
    <3> QED
      BY <1>4, <3>1 DEF ResultsIn, IndexesOf
  <2> QED
    BY <1>2, <1>3, <1>4, <2>1, <2>2 DEF Writer
<1>7. TurnsAreNew'
  <2>1. ASSUME NEW g \in Handlers, NewTurn(g)'
        PROVE  /\ \A f \in Handlers : req'[f].turn = req'[g].turn => f = g
               /\ \A i \in DOMAIN steps' : steps'[i].turn = req'[g].turn =>
                    steps'[i].role = "user" /\ steps'[i].born = g
    <3>1. CASE g = h
      BY <1>2, <1>3, <3>1
    <3>2. CASE g # h
      BY <1>1, <1>2, <1>3, <1>5, <2>1, <3>2 DEF TurnsAreNew
    <3> QED
      BY <3>1, <3>2
  <2>2. \A u, i \in DOMAIN steps' : steps'[u].role = "user" /\ steps'[i].turn = steps'[u].turn => u <= i
    BY <1>1, <1>2 DEF TurnsAreNew
  <2>3. \A i \in DOMAIN steps' : steps'[i].turn <= turns'
    <3>1. \A i \in DOMAIN steps : steps[i].turn \in Nat /\ steps[i].turn <= turns
      BY <1>1, StepFields DEF TurnsAreNew, Turns
    <3> QED
      BY <1>1, <1>2, <3>1
  <2>4. \A g \in Handlers : req'[g].turn <= turns'
    <3>1. \A g \in Handlers : req[g].turn \in Nat /\ req[g].turn <= turns
      BY <1>1 DEF TurnsAreNew, ChatInv, TypeOK, Request, Turns
    <3> QED
      BY <1>1, <1>3, <3>1
  <2> QED
    BY <2>1, <2>2, <2>3, <2>4 DEF TurnsAreNew
<1>8. /\ WithResults(Stored, Stored') /\ More(View(h), View(h)')
      /\ \A g \in Handlers \ {h} : WithResults(View(g), View(g)')
  BY <1>1, InsertSees
<1>9. Tidy(Stored)' /\ \A g \in Handlers : Tidy(View(g))'
  <2>1. Tidy(Stored)'
    BY <1>8, ResultsAreMore, TidyGrows DEF InOrder
  <2>2. \A g \in Handlers : More(View(g), View(g)')
    BY <1>8, ResultsAreMore
  <2>3. \A g \in Handlers : Tidy(View(g))'
    BY <2>2, TidyGrows DEF InOrder
  <2> QED
    BY <2>1, <2>3
<1>10. ASSUME NEW g \in Handlers, Generating(g)'
       PROVE  Open(View(g))' = {}
  <2>1. g = h
    BY <1>3, <1>10 DEF Orderly, Working, Generating
  <2>2. n \in IndexesOf(View(h)', "user")
    BY <1>1, <1>2, SeenIs DEF IndexesOf
  <2>3. \A i \in DOMAIN View(h)' : View(h)'[i].uses # {} => ~ (n <= i)
    BY <1>1, <1>2, SeenIs DEF StepsTyped
  <2> QED
    BY <2>1, <2>2, <2>3, ClosedByUser
<1>11. OpenCalls' /\ LatestSpeaks'
  BY <1>8, StoredStays DEF InOrder
<1>12. TruncatedHasNoRow'
  BY <1>1, <1>2 DEF TruncatedHasNoRow, Asks
<1>13. NewUserIsLast'
  <2> SUFFICES ASSUME NEW u \in DOMAIN steps', NEW i \in DOMAIN steps',
                      steps'[u].role = "user", steps'[u].born # Nobody,
                      steps'[i].role # "tool" \/ steps'[i].cut # Nobody
               PROVE  i <= u
    BY DEF NewUserIsLast
  <2>1. CASE u = n
    BY <1>1, <1>2, <2>1 DEF StepsTyped
  <2>2. CASE u # n
    <3>1. u \in DOMAIN steps /\ steps'[u] = steps[u] /\ steps[u].born \in Handlers \ {h}
      BY <1>1, <1>2, <1>4, <2>2, StepFields
    <3>3. req[steps[u].born].pc \in {"policy", "build"}
      BY <1>1, <3>1 DEF Writer
    <3>4. Working(steps[u].born)' /\ Working(h)'
      BY <1>3, <3>1, <3>3 DEF Working
    <3> QED
      BY <3>1, <3>4 DEF Orderly
  <2> QED
    BY <2>1, <2>2
<1>14. ASSUME NEW g \in Handlers
       PROVE  ItemsFit(g)'
  <2>1. CASE g = h
    BY <1>3, <2>1 DEF ItemsFit
  <2>2. CASE g # h
    <3>1. ItemsFit(g)
      BY DEF InOrder
    <3>2. \A a : LastTurn(Stored, a) <=> LastTurn(Stored', a)
      BY <1>8, LastTurnStays
    <3> QED
      BY <1>3, <2>2, <3>1, <3>2 DEF ItemsFit
  <2> QED
    BY <2>1, <2>2
<1> QED
  BY <1>5, <1>6, <1>7, <1>9, <1>10, <1>11, <1>12, <1>13, <1>14 DEF InOrder

-----------------------------------------------------------------------------
(* The order is kept: nothing written.                                     *)

LEMMA QuietOrder ==
  ASSUME ChatInv, InOrder, Orderly', NEW h \in Handlers, NEW r, RequestIs(h, r),
         UNCHANGED <<steps, row, turns>>, r.turn <= turns,
         \A g \in Handlers \ {h} : NewTurn(g) => req[g].turn # r.turn,
         NewTurn(h)' => NewTurn(h) /\ r.turn = req[h].turn,
         Writer(h)', ItemsFit(h)', Generating(h)' => Open(View(h)) = {}
  PROVE  InOrder'
<1>1. StepsTyped /\ DeletedOnceCommitted /\ TurnsAreNew /\ \A g \in Handlers : Writer(g)
  BY DEF InOrder, ChatInv, TypeOK, StepsFit, StepsTyped
<1>2. \A g \in Handlers : req'[g] = IF g = h THEN r ELSE req[g]
  BY RequestsAre
<1>3. Stored' = Stored /\ \A g \in Handlers : View(g)' = View(g)
  BY DEF Stored, View, Visible
<1>4. ASSUME NEW g \in Handlers, g # h
      PROVE  /\ Writer(g)' /\ (NewTurn(g)' <=> NewTurn(g)) /\ ItemsFit(g)'
             /\ Generating(g)' => Open(View(g))' = {}
  <2>1. Holds(g)
    BY <1>2, <1>4 DEF Holds, Stays
  <2>2. Writer(g)' /\ (NewTurn(g)' <=> NewTurn(g))
    BY <1>1, <2>1, WriterHolds
  <2>3. ItemsFit(g) /\ (Generating(g) => Open(View(g)) = {}) /\ req'[g] = req[g]
    BY <1>2, <1>4 DEF InOrder
  <2>4. ItemsFit(g)'
    BY <1>3, <2>3 DEF ItemsFit
  <2>5. Generating(g)' => Open(View(g))' = {}
    BY <1>3, <2>3 DEF Generating, Working
  <2> QED
    BY <2>2, <2>4, <2>5
<1>5. TurnsAreNew'
  <2>1. ASSUME NEW g \in Handlers, NewTurn(g)'
        PROVE  /\ \A f \in Handlers : req'[f].turn = req'[g].turn => f = g
               /\ \A i \in DOMAIN steps' : steps'[i].turn = req'[g].turn =>
                    steps'[i].role = "user" /\ steps'[i].born = g
    BY <1>1, <1>2, <1>4, <2>1 DEF TurnsAreNew
  <2>2. \A g \in Handlers : req'[g].turn <= turns'
    BY <1>1, <1>2 DEF TurnsAreNew
  <2>3. /\ \A u, i \in DOMAIN steps' : steps'[u].role = "user" /\ steps'[i].turn = steps'[u].turn => u <= i
        /\ \A i \in DOMAIN steps' : steps'[i].turn <= turns'
    BY <1>1 DEF TurnsAreNew
  <2> QED
    BY <2>1, <2>2, <2>3 DEF TurnsAreNew
<1>6. /\ Tidy(Stored)' /\ OpenCalls' /\ LatestSpeaks' /\ TruncatedHasNoRow' /\ NewUserIsLast'
      /\ \A g \in Handlers : Tidy(View(g))'
  BY <1>3 DEF InOrder, OpenCalls, LatestSpeaks, TruncatedHasNoRow, Asks, NewUserIsLast
<1>7. Generating(h)' => Open(View(h))' = {}
  BY <1>3
<1> QED
  BY <1>4, <1>5, <1>6, <1>7 DEF InOrder

-----------------------------------------------------------------------------
(* The order is kept: a result.                                            *)

LEMMA ApplyOrder ==
  ASSUME ChatInv, InOrder, Orderly', NEW h \in Handlers, NEW c \in Calls, req[h].pc = "apply",
         NEW r, RequestIs(h, r), r.pc = "apply", r.turn = req[h].turn, r.items = req[h].items,
         r.anchor = req[h].anchor, row[c].by \in {Nobody, h}, row[c].st = "pending",
         row' = [row EXCEPT ![c].next = "done", ![c].by = h],
         NEW s \in Step, Insert(s), s.role = "tool", s.turn = req[h].turn, s.call = c, s.uses = {},
         s.born = h, s.cut = Nobody, UNCHANGED turns
  PROVE  InOrder'
<1>1. /\ h # Nobody /\ StepsTyped /\ AskedOnce /\ DeletedOnceCommitted
      /\ TurnsAreNew /\ NewUserIsLast /\ TruncatedHasNoRow /\ turns \in Nat
      /\ \A g \in Handlers : Writer(g) /\ ItemsFit(g)
  BY ChatAssumption DEF InOrder, ChatInv, TypeOK, StepsFit, StepsTyped
<1>2. PICK n \in Nat : /\ DOMAIN steps' = DOMAIN steps \cup {n} /\ n \notin DOMAIN steps
                       /\ \A i \in DOMAIN steps : i < n /\ steps'[i] = steps[i]
                       /\ steps'[n] = s
  BY <1>1, InsertIs
<1>3. \A g \in Handlers : req'[g] = IF g = h THEN r ELSE req[g]
  BY RequestsAre
<1>4. \A d \in Calls : /\ row'[d].turn = row[d].turn /\ row'[d].st = row[d].st
                       /\ d # c => row'[d] = row[d]
                       /\ row'[c].by = h /\ row'[c].next = "done"
  BY DEF ChatInv, TypeOK, Row
<1>5. /\ WithResults(Stored, Stored')
      /\ \A g \in Handlers : WithResults(View(g), View(g)')
  BY <1>1, InsertSees
<1>6. ~NewTurn(h) /\ ~NewTurn(h)'
  <2>1. \A u \in IndexesOf(steps, "user") : steps[u].born # h
    BY <1>1 DEF Writer, IndexesOf
  <2> QED
    BY <1>3, <2>1 DEF NewTurn
<1>7. ASSUME NEW g \in Handlers, g # h
      PROVE  Writer(g)' /\ (NewTurn(g)' <=> NewTurn(g))
  <2>1. ASSUME NEW d \in Calls, row'[d].by = g
        PROVE  row'[d] = row[d]
    <3>1. d # c
      BY <1>4, <1>7, <2>1
    <3> QED
      BY <1>4, <3>1
  <2>2. Holds(g)
    BY <1>1, <1>3, <1>7, <2>1, InsertHolds
  <2> QED
    BY <1>1, <2>2, WriterHolds
<1>8. Writer(h)'
  <2>1. ASSUME NEW i \in DOMAIN steps', steps'[i].born = h
        PROVE  steps'[i].role = "tool" /\ req'[h].pc = "apply"
    BY <1>1, <1>2, <1>3, <2>1 DEF Writer
  <2>2. \A i \in DOMAIN steps' : steps'[i].cut # h
    BY <1>1, <1>2, <1>6 DEF Writer
  <2>3. ASSUME NEW d \in Calls, row'[d].by = h
        PROVE  /\ row'[d].next # "none"
               /\ row'[d].next = "done" => \E k \in ResultsIn(steps', d) : steps'[k].born = h
    <3>1. CASE d = c
      <4>1. n \in ResultsIn(steps', c) /\ steps'[n].born = h
        BY <1>2 DEF ResultsIn, IndexesOf
      <4> QED
        BY <1>4, <3>1, <4>1
    <3>2. CASE d # c
      <4>1. row'[d] = row[d]
        BY <1>4, <3>2
      <4>2. \A k \in ResultsIn(steps, d) : k \in ResultsIn(steps', d) /\ steps'[k] = steps[k]
        BY <1>2 DEF ResultsIn, IndexesOf
      <4>3. row[d].by = h
        BY <2>3, <4>1
      <4>4. /\ row[d].next = "none" => NewTurn(h)
            /\ row[d].next = "done" => \E k \in ResultsIn(steps, d) : steps[k].born = h
        BY <1>1, <4>3 DEF Writer
      <4> QED
        BY <1>6, <4>1, <4>2, <4>4
    <3> QED
      BY <3>1, <3>2
  <2> QED
    BY <2>1, <2>2, <2>3 DEF Writer
<1>9. TurnsAreNew'
  <2>1. ASSUME NEW g \in Handlers, NewTurn(g)'
        PROVE  /\ \A f \in Handlers : req'[f].turn = req'[g].turn => f = g
               /\ \A i \in DOMAIN steps' : steps'[i].turn = req'[g].turn =>
                    steps'[i].role = "user" /\ steps'[i].born = g
    <3>1. g # h /\ NewTurn(g) /\ req'[g] = req[g]
      BY <1>3, <1>6, <1>7, <2>1
    <3>2. \A f \in Handlers : req'[f].turn = req[f].turn
      BY <1>3
    <3>3. s.turn # req[g].turn
      BY <1>1, <3>1 DEF TurnsAreNew
    <3> QED
      BY <1>1, <1>2, <3>1, <3>2, <3>3 DEF TurnsAreNew
  <2>2. \A g \in Handlers : req'[g].turn <= turns'
    BY <1>1, <1>3 DEF TurnsAreNew
  <2>3. /\ \A u, i \in DOMAIN steps' : steps'[u].role = "user" /\ steps'[i].turn = steps'[u].turn => u <= i
        /\ \A i \in DOMAIN steps' : steps'[i].turn <= turns'
    <3>1. \A i \in DOMAIN steps : i \in Nat
      BY <1>1 DEF StepsTyped
    <3> QED
      BY <1>1, <1>2, <3>1 DEF TurnsAreNew
  <2> QED
    BY <2>1, <2>2, <2>3 DEF TurnsAreNew
<1>10. Tidy(Stored)' /\ \A g \in Handlers : Tidy(View(g))'
  <2>1. Tidy(Stored)'
    BY <1>5, ResultsAreMore, TidyGrows DEF InOrder
  <2>2. \A g \in Handlers : Tidy(View(g)')
    BY <1>5, ResultsAreMore, TidyGrows DEF InOrder
  <2> QED
    BY <2>1, <2>2
<1>11. ASSUME NEW g \in Handlers, Generating(g)'
       PROVE  Open(View(g))' = {}
  <2>1. g # h /\ Generating(g)
    BY <1>3, <1>11 DEF Working, Generating
  <2>2. Open(View(g)) = {} /\ Open(View(g)') \subseteq Open(View(g))
    BY <1>5, <2>1, ResultsAreMore, OpenShrinks DEF InOrder
  <2> QED
    BY <2>2
<1>12. OpenCalls' /\ LatestSpeaks'
  BY <1>4, <1>5, StoredStays DEF InOrder
<1>13. TruncatedHasNoRow'
  <2> SUFFICES ASSUME NEW i \in DOMAIN steps', NEW d \in Calls, d \in steps'[i].uses,
                      steps'[i].mark = "maxTokens"
               PROVE  row'[d] = NoRow
    BY DEF TruncatedHasNoRow, Asks
  <2>1. row[d] = NoRow
    BY <1>1, <1>2 DEF TruncatedHasNoRow, Asks
  <2>2. d # c
    BY <2>1 DEF NoRow
  <2> QED
    BY <1>4, <2>1, <2>2
<1>14. NewUserIsLast'
  BY <1>1, <1>2 DEF NewUserIsLast
<1>15. ASSUME NEW g \in Handlers
       PROVE  ItemsFit(g)'
  <2>1. \A a : LastTurn(Stored, a) <=> LastTurn(Stored', a)
    BY <1>5, LastTurnStays
  <2>2. /\ req'[g].pc = req[g].pc /\ req'[g].items = req[g].items /\ req'[g].turn = req[g].turn
        /\ req'[g].anchor = req[g].anchor /\ req[g].items \subseteq Calls
    BY <1>3 DEF ChatInv, TypeOK, Request
  <2>3. \A d \in req[g].items : row'[d].turn = row[d].turn /\ row'[d].st = row[d].st
    BY <1>4, <2>2
  <2>4. ItemsFit(g)
    BY <1>1
  <2> SUFFICES ASSUME req'[g].pc = "apply"
               PROVE  /\ req'[g].anchor \in req'[g].items
                      /\ \A d \in req'[g].items :
                           \/ row'[d].turn = req'[g].turn /\ row'[d].st # "none"
                           \/ \E a \in Turns \ {req'[g].turn} : LastTurn(Stored, a)'
    BY DEF ItemsFit
  <2>5. req[g].pc = "apply"
    BY <2>2
  <2>6. req[g].anchor \in req[g].items
    BY <2>4, <2>5 DEF ItemsFit
  <2>7. ASSUME NEW d \in req[g].items
        PROVE  \/ row'[d].turn = req[g].turn /\ row'[d].st # "none"
               \/ \E a \in Turns \ {req[g].turn} : LastTurn(Stored, a)'
    <3>1. CASE row[d].turn = req[g].turn /\ row[d].st # "none"
      BY <2>3, <3>1
    <3>2. CASE \E a \in Turns \ {req[g].turn} : LastTurn(Stored, a)
      BY <2>1, <3>2
    <3> QED
      BY <2>4, <2>5, <3>1, <3>2 DEF ItemsFit
  <2> QED
    BY <2>2, <2>6, <2>7
<1> QED
  BY <1>7, <1>8, <1>9, <1>10, <1>11, <1>12, <1>13, <1>14, <1>15 DEF InOrder

-----------------------------------------------------------------------------
(* The order is kept: a transaction undone, or with no step of its own to add. *)

\* The turns when no step is added.
LEMMA TurnsStay ==
  ASSUME ChatInv, TurnsAreNew, UNCHANGED turns, \A i \in DOMAIN steps' : i \in DOMAIN steps /\ Stays(i),
         \A g \in Handlers : req'[g].turn \in {0, req[g].turn},
         \A g \in Handlers : NewTurn(g)' =>
           /\ NewTurn(g) /\ req'[g].turn = req[g].turn
           /\ \A i \in DOMAIN steps' : steps[i].born = g => steps'[i].born = g
  PROVE  TurnsAreNew'
<1>1. turns \in Nat /\ \A g \in Handlers : NewTurn(g) => req[g].turn # 0
  BY DEF ChatInv, TypeOK, Serves, NewTurn
<1>2. ASSUME NEW g \in Handlers, NewTurn(g)'
      PROVE  /\ \A f \in Handlers : req'[f].turn = req'[g].turn => f = g
             /\ \A i \in DOMAIN steps' : steps'[i].turn = req'[g].turn =>
                  steps'[i].role = "user" /\ steps'[i].born = g
  BY <1>1, <1>2 DEF TurnsAreNew, Stays
<1>3. \A g \in Handlers : req'[g].turn <= turns'
  BY <1>1 DEF TurnsAreNew
<1>4. /\ \A u, i \in DOMAIN steps' : steps'[u].role = "user" /\ steps'[i].turn = steps'[u].turn => u <= i
      /\ \A i \in DOMAIN steps' : steps'[i].turn <= turns'
  BY DEF TurnsAreNew, Stays
<1> QED
  BY <1>2, <1>3, <1>4 DEF TurnsAreNew

\* The results a request has come for, when the last turn is the same.
LEMMA ItemsStay ==
  ASSUME ChatInv, NEW g \in Handlers, ItemsFit(g), req'[g] = req[g], WithResults(Stored, Stored'),
         \A c \in Calls : row[c].st # "none" /\ row[c].turn = req[g].turn =>
           row'[c].st # "none" /\ row'[c].turn = row[c].turn
  PROVE  ItemsFit(g)'
<1>1. \A a : LastTurn(Stored, a) <=> LastTurn(Stored', a)
  BY LastTurnStays
<1>2. req[g].items \subseteq Calls
  BY DEF ChatInv, TypeOK, Request
<1> QED
  BY <1>1, <1>2 DEF ItemsFit

LEMMA IdleIs == Idle.pc = "idle" /\ Idle.turn = 0 /\ Idle.items = {} /\ Idle.todo = {}
  BY DEF Idle

LEMMA RollbackOrder ==
  ASSUME ChatInv, InOrder, Orderly', NEW h \in Handlers, Rollback(h), RequestIs(h, Idle), UNCHANGED turns
  PROVE  InOrder'
<1>0. steps' = RolledBackSteps(h)
  BY DEF Rollback
<1>1. /\ h # Nobody /\ StepsTyped /\ AskedOnce /\ DeletedOnceCommitted
      /\ TurnsAreNew /\ NewUserIsLast /\ TruncatedHasNoRow /\ turns \in Nat
      /\ \A g \in Handlers : Writer(g) /\ ItemsFit(g) /\ Tidy(View(g))
  BY ChatAssumption DEF InOrder, ChatInv, TypeOK, StepsFit, StepsTyped
<1>2. /\ DOMAIN steps' = {i \in DOMAIN steps : steps[i].born # h}
      /\ \A i \in DOMAIN steps' :
           /\ Stays(i) /\ steps'[i].born = steps[i].born
           /\ steps'[i].cut = IF steps[i].cut = h THEN Nobody ELSE steps[i].cut
  BY <1>0, <1>1, RollbackIs
<1>3. \A g \in Handlers : req'[g] = IF g = h THEN Idle ELSE req[g]
  BY RequestsAre
<1>4. \A c \in Calls : /\ row[c].by # h => row'[c] = row[c]
                       /\ row[c].by = h => row'[c].by = Nobody
                       /\ row'[c].st = row[c].st
                       /\ row[c].st # "none" => row'[c].turn = row[c].turn
  <2>1. \A c \in Calls : row[c] \in Row
    BY DEF ChatInv, TypeOK
  <2> QED
    BY <2>1, RolledBackRowIs DEF NoRow
<1>5. /\ WithResults(Stored, Stored') /\ WithResults(Stored', View(h)')
      /\ \A g \in Handlers \ {h} : WithResults(View(g), View(g)')
  BY <1>0, RollbackSees
<1>6. ASSUME NEW g \in Handlers, g # h
      PROVE  Writer(g)' /\ (NewTurn(g)' <=> NewTurn(g)) /\ ItemsFit(g)'
  <2>1. \A c \in Calls : row'[c].by = g => row'[c] = row[c]
    BY <1>4, <1>6, ChatAssumption
  <2>2. Holds(g)
    BY <1>0, <1>1, <1>3, <1>6, <2>1, RollbackHolds
  <2>3. ItemsFit(g)'
    BY <1>1, <1>3, <1>4, <1>5, <1>6, ItemsStay
  <2> QED
    BY <1>1, <2>2, <2>3, WriterHolds
<1>7. Writer(h)' /\ ~NewTurn(h)' /\ ItemsFit(h)'
  <2>1. req'[h].pc = "idle"
    BY <1>3, IdleIs
  <2>2. \A i \in DOMAIN steps' : steps'[i].born # h /\ steps'[i].cut # h
    BY <1>1, <1>2
  <2>3. \A c \in Calls : row'[c].by # h
    BY <1>1, <1>4
  <2> QED
    BY <2>1, <2>2, <2>3 DEF Writer, NewTurn, ItemsFit
<1>8. TurnsAreNew'
  <2>1. \A g \in Handlers : req'[g].turn \in {0, req[g].turn}
    BY <1>3, IdleIs
  <2>2. \A i \in DOMAIN steps' : i \in DOMAIN steps /\ Stays(i)
    BY <1>2
  <2>3. ASSUME NEW g \in Handlers, NewTurn(g)'
        PROVE  /\ NewTurn(g) /\ req'[g].turn = req[g].turn
               /\ \A i \in DOMAIN steps' : steps[i].born = g => steps'[i].born = g
    BY <1>2, <1>3, <1>6, <1>7, <2>3
  <2> QED
    BY <1>1, <2>1, <2>2, <2>3, TurnsStay
<1>9. Tidy(Stored') /\ \A g \in Handlers : Tidy(View(g)')
  <2>1. Tidy(Stored')
    BY <1>5, ResultsAreMore, TidyGrows DEF InOrder
  <2>2. Tidy(View(h)')
    BY <1>5, <2>1, ResultsAreMore, TidyGrows
  <2>3. \A g \in Handlers \ {h} : Tidy(View(g)')
    BY <1>1, <1>5, ResultsAreMore, TidyGrows
  <2> QED
    BY <2>1, <2>2, <2>3
<1>10. ASSUME NEW g \in Handlers, Generating(g)'
       PROVE  Open(View(g)') = {}
  <2>1. g # h /\ Generating(g)
    BY <1>3, <1>10, IdleIs DEF Working, Generating
  <2>2. Open(View(g)) = {} /\ Open(View(g)') \subseteq Open(View(g))
    BY <1>5, <2>1, ResultsAreMore, OpenShrinks DEF InOrder
  <2> QED
    BY <2>2
<1>11. OpenCalls' /\ LatestSpeaks'
  BY <1>4, <1>5, StoredStays DEF InOrder
<1>12. TruncatedHasNoRow'
  <2> SUFFICES ASSUME NEW i \in DOMAIN steps', NEW d \in Calls, d \in steps'[i].uses,
                      steps'[i].mark = "maxTokens"
               PROVE  row'[d] = NoRow
    BY DEF TruncatedHasNoRow, Asks
  <2>1. row[d] = NoRow
    BY <1>1, <1>2 DEF TruncatedHasNoRow, Asks, Stays
  <2>2. row[d].by # h
    BY <1>1, <2>1 DEF NoRow
  <2> QED
    BY <1>4, <2>1, <2>2
<1>13. NewUserIsLast'
  BY <1>1, <1>2 DEF NewUserIsLast, Stays
<1> QED
  BY <1>6, <1>7, <1>8, <1>9, <1>10, <1>11, <1>12, <1>13 DEF InOrder

-----------------------------------------------------------------------------
(* The order is kept: an edit.                                             *)

\* The edit begins: nothing is written yet, and its turn is new.
LEMMA EditOrder ==
  ASSUME ChatInv, InOrder, Orderly', NEW h \in Handlers, NEW t \in Turns, Edit(h, t)
  PROVE  InOrder'
<1> DEFINE r == req'[h]
<1>1. /\ StepsTyped /\ TurnsAreNew /\ turns \in Nat
      /\ \A g \in Handlers : Writer(g) /\ ItemsFit(g)
  BY DEF InOrder, ChatInv, TypeOK, StepsFit, StepsTyped
<1>2. req[h].pc = "idle" /\ turns' = turns + 1 /\ UNCHANGED <<steps, row>>
  BY DEF Edit, chatVars
<1>3. r.pc = "cutting" /\ r.turn = turns + 1 /\ \A g \in Handlers \ {h} : req'[g] = req[g]
  BY DEF Edit, Idle, ChatInv, TypeOK
<1> HIDE DEF r
<1>4. \A g \in Handlers : req'[g] = IF g = h THEN r ELSE req[g]
  BY <1>3 DEF r
<1>5. \A i \in DOMAIN steps : steps[i].born # h /\ steps[i].cut # h
  BY <1>2 DEF ChatInv, StepsFit, RestsClean
<1>6. Stored' = Stored /\ \A g \in Handlers : View(g)' = View(g)
  BY <1>2 DEF Stored, View, Visible
<1>7. NewTurn(h)' /\ Working(h)' /\ ~Generating(h)'
  BY <1>3, <1>4 DEF NewTurn, Working, Generating
<1>8. ASSUME NEW g \in Handlers, g # h
      PROVE  Writer(g)' /\ (NewTurn(g)' <=> NewTurn(g)) /\ ItemsFit(g)' /\ ~Working(g)'
  <2>1. DeletedOnceCommitted /\ Holds(g)
    BY <1>2, <1>4, <1>8 DEF Holds, Stays, ChatInv, StepsFit
  <2>2. ItemsFit(g)'
    BY <1>1, <1>2, <1>4, <1>6, <1>8 DEF ItemsFit
  <2>3. ~Working(g)'
    BY <1>7, <1>8 DEF Orderly
  <2> QED
    BY <1>1, <2>1, <2>2, <2>3, WriterHolds
<1>9. Writer(h)' /\ ItemsFit(h)'
  <2>1. \A c \in Calls : row'[c].by # h
    BY <1>2 DEF ChatInv, StepsFit, RestsClean
  <2> QED
    BY <1>2, <1>3, <1>4, <1>5, <2>1 DEF Writer, ItemsFit
<1>10. TurnsAreNew'
  <2>1. \A i \in DOMAIN steps : steps[i].turn \in Nat /\ steps[i].turn <= turns
    BY <1>1, StepFields DEF TurnsAreNew, Turns
  <2>2. \A g \in Handlers : req[g].turn \in Nat /\ req[g].turn <= turns
    BY <1>1 DEF TurnsAreNew, ChatInv, TypeOK, Request, Turns
  <2>3. ASSUME NEW g \in Handlers, NewTurn(g)'
        PROVE  /\ \A f \in Handlers : req'[f].turn = req'[g].turn => f = g
               /\ \A i \in DOMAIN steps' : steps'[i].turn = req'[g].turn =>
                    steps'[i].role = "user" /\ steps'[i].born = g
    <3>1. CASE g = h
      BY <1>1, <1>2, <1>3, <1>4, <2>1, <2>2, <3>1
    <3>2. CASE g # h
      BY <1>1, <1>2, <1>3, <1>4, <1>8, <2>1, <2>2, <2>3, <3>2 DEF TurnsAreNew
    <3> QED
      BY <3>1, <3>2
  <2>4. \A g \in Handlers : req'[g].turn <= turns'
    BY <1>1, <1>2, <1>3, <1>4, <2>2
  <2>5. /\ \A u, i \in DOMAIN steps' : steps'[u].role = "user" /\ steps'[i].turn = steps'[u].turn => u <= i
        /\ \A i \in DOMAIN steps' : steps'[i].turn <= turns'
    BY <1>1, <1>2, <2>1 DEF TurnsAreNew
  <2> QED
    BY <2>3, <2>4, <2>5 DEF TurnsAreNew
<1>11. \A g \in Handlers : ~Generating(g)'
  BY <1>7, <1>8 DEF Generating
<1>12. /\ Tidy(Stored)' /\ OpenCalls' /\ LatestSpeaks' /\ TruncatedHasNoRow' /\ NewUserIsLast'
       /\ \A g \in Handlers : Tidy(View(g))'
  BY <1>2, <1>6 DEF InOrder, OpenCalls, LatestSpeaks, TruncatedHasNoRow, Asks, NewUserIsLast
<1> QED
  BY <1>8, <1>9, <1>10, <1>11, <1>12 DEF InOrder

\* The history is cut.
LEMMA CutOrder ==
  ASSUME ChatInv, InOrder, Orderly', NEW h \in Handlers, CutHistory(h)
  PROVE  InOrder'
<1> DEFINE first == req[h].from
           gone == StepsFrom(h, first)
           dead == {c \in req[h].items : row[c].st # "none"}
           r == [req[h] EXCEPT !.pc = "edited", !.items = {}, !.from = 0]
<1>1. /\ h # Nobody /\ StepsTyped /\ AskedOnce /\ DeletedOnceCommitted
      /\ TurnsAreNew /\ NewUserIsLast /\ TruncatedHasNoRow /\ turns \in Nat
      /\ \A g \in Handlers : Writer(g) /\ ItemsFit(g) /\ Tidy(View(g))
  BY ChatAssumption DEF InOrder, ChatInv, TypeOK, StepsFit, StepsTyped
<1>2. /\ req[h].pc = "cutting" /\ RequestIs(h, r) /\ turns' = turns
      /\ req[h] \in Request
      /\ \A i \in gone : steps[i].cut = Nobody
      /\ \A c \in dead : row[c].by = Nobody
      /\ steps' = [i \in DOMAIN steps |-> IF i \in gone THEN [steps[i] EXCEPT !.cut = h] ELSE steps[i]]
      /\ row' = [c \in Calls |-> IF c \in dead THEN [row[c] EXCEPT !.next = "none", !.by = h] ELSE row[c]]
  BY DEF CutHistory, RequestIs, ChatInv, TypeOK
<1>3. r.pc = "edited" /\ r.turn = req[h].turn /\ NewTurn(h)
  BY <1>2 DEF Request, NewTurn
<1>4. first \in Nat /\ gone = {i \in Visible(h) : first <= i} /\ gone \subseteq DOMAIN steps
  BY <1>2 DEF Request, StepsFrom, Visible
<1> HIDE DEF r, first
<1>5. \A i \in DOMAIN steps : steps[i].born # h /\ steps[i].cut # h
  BY <1>1, <1>2 DEF ChatInv, StepsFit, RestsClean
<1>6. /\ DOMAIN steps' = DOMAIN steps
      /\ \A i \in DOMAIN steps : /\ Stays(i) /\ steps'[i].born = steps[i].born
                                 /\ i \in gone => steps'[i].cut = h /\ steps[i].cut = Nobody
                                 /\ i \notin gone => steps'[i].cut = steps[i].cut
  <2> HIDE DEF gone, dead
  <2>1. \A i \in DOMAIN steps : steps[i] \in Step
    BY <1>1 DEF StepsTyped
  <2> QED
    BY <1>2, <2>1 DEF Stays, Step
<1>7. \A c \in Calls : /\ row'[c].st = row[c].st /\ row'[c].turn = row[c].turn
                       /\ row'[c] # row[c] => row'[c].by = h /\ row[c].by = Nobody
                                              /\ row'[c].next = "none" /\ row[c].st # "none"
  <2>1. \A c \in Calls : row[c] \in Row /\ (c \in dead => row[c].st # "none")
    BY DEF ChatInv, TypeOK
  <2> HIDE DEF gone, dead
  <2> QED
    BY <1>2, <2>1 DEF Row
<1>8. \A g \in Handlers : req'[g] = IF g = h THEN r ELSE req[g]
  BY <1>2, RequestsAre
<1>9. WithResults(Stored, Stored') /\ \A g \in Handlers \ {h} : WithResults(View(g), View(g)')
  <2>1. WithResults(Stored, Stored')
    BY <1>6, StoredIs DEF WithResults, Stays
  <2>2. ASSUME NEW g \in Handlers, g # h
        PROVE  WithResults(View(g), View(g)')
    <3>1. g # Nobody
      BY ChatAssumption
    <3>2. \A i \in DOMAIN steps : steps'[i].cut = g <=> steps[i].cut = g
      BY <1>6, <2>2, <3>1
    <3> QED
      BY <1>6, <3>2, SeenIs DEF WithResults, Stays
  <2> QED
    BY <2>1, <2>2
<1>10. NewTurn(h)' /\ Working(h)' /\ ~Generating(h)'
  BY <1>3, <1>8 DEF NewTurn, Working, Generating
<1>11. ASSUME NEW g \in Handlers, g # h
       PROVE  Writer(g)' /\ (NewTurn(g)' <=> NewTurn(g)) /\ ItemsFit(g)' /\ ~Working(g)'
  <2>1. \A c \in Calls : row'[c].by = g => row'[c] = row[c]
    BY <1>7, <1>11
  <2>2. Holds(g)
    BY <1>6, <1>8, <1>11, <2>1 DEF Holds
  <2>3. ItemsFit(g)'
    BY <1>1, <1>7, <1>8, <1>9, <1>11, ItemsStay
  <2>4. ~Working(g)'
    BY <1>10, <1>11 DEF Orderly
  <2> QED
    BY <1>1, <2>2, <2>3, <2>4, WriterHolds
<1>12. Writer(h)' /\ ItemsFit(h)'
  <2>1. \A i \in DOMAIN steps' : steps'[i].born # h
    BY <1>5, <1>6
  <2>2. ASSUME NEW c \in Calls, row'[c].by = h
        PROVE  row'[c].next = "none"
    <3>1. row[c].by # h
      BY <1>2 DEF ChatInv, StepsFit, RestsClean
    <3> QED
      BY <1>7, <2>2, <3>1
  <2> QED
    BY <1>3, <1>8, <1>10, <2>1, <2>2 DEF Writer, ItemsFit
<1>13. TurnsAreNew'
  <2>1. \A g \in Handlers : req'[g].turn \in {0, req[g].turn}
    BY <1>3, <1>8
  <2>2. \A i \in DOMAIN steps' : i \in DOMAIN steps /\ Stays(i)
    BY <1>6
  <2>3. ASSUME NEW g \in Handlers, NewTurn(g)'
        PROVE  /\ NewTurn(g) /\ req'[g].turn = req[g].turn
               /\ \A i \in DOMAIN steps' : steps[i].born = g => steps'[i].born = g
    BY <1>3, <1>6, <1>8, <1>11, <2>3
  <2> QED
    BY <1>1, <1>2, <2>1, <2>2, <2>3, TurnsStay
<1>14. Tidy(Stored') /\ \A g \in Handlers : Tidy(View(g)')
  <2>1. Tidy(Stored')
    BY <1>9, ResultsAreMore, TidyGrows DEF InOrder
  <2>2. \A g \in Handlers \ {h} : Tidy(View(g)')
    BY <1>1, <1>9, ResultsAreMore, TidyGrows
  <2>3. Tidy(Upto(View(h), first))
    <3>1. DOMAIN View(h) \subseteq Nat
      BY <1>1, SeenIs DEF StepsTyped
    <3> QED
      BY <1>1, <1>4, <3>1, TidyBegins
  <2>4. WithResults(Upto(View(h), first), View(h)')
    <3>1. \A i \in DOMAIN View(h) : i \in DOMAIN steps /\ i \in Visible(h) /\ i \in Nat
      BY <1>1, SeenIs DEF View, Restrict, StepsTyped
    <3>2. \A i \in Visible(h) : i \in DOMAIN View(h)
      BY DEF View, Restrict
    <3>3. \A i \in DOMAIN View(h) : i \in DOMAIN View(h)' <=> i < first
      BY <1>1, <1>4, <1>6, <3>1, SeenIs
    <3>4. \A i \in DOMAIN View(h)' : i \in DOMAIN View(h)
      BY <1>1, <1>4, <1>6, SeenIs
    <3>5. \A i : i \in DOMAIN Upto(View(h), first) <=> i \in DOMAIN View(h) /\ i < first
      BY DEF Upto, Restrict
    <3>6. \A i \in DOMAIN Upto(View(h), first) : Upto(View(h), first)[i] = steps[i]
      BY <3>5, SeenIs DEF Upto, Restrict
    <3> QED
      BY <1>6, <3>1, <3>3, <3>4, <3>5, <3>6, SeenIs DEF WithResults, Stays
  <2>5. Tidy(View(h)')
    BY <2>3, <2>4, ResultsAreMore, TidyGrows
  <2> QED
    BY <2>1, <2>2, <2>5
<1>15. \A g \in Handlers : ~Generating(g)'
  BY <1>10, <1>11 DEF Generating
<1>16. OpenCalls' /\ LatestSpeaks'
  BY <1>7, <1>9, StoredStays DEF InOrder
<1>17. TruncatedHasNoRow'
  <2> SUFFICES ASSUME NEW i \in DOMAIN steps', NEW d \in Calls, d \in steps'[i].uses,
                      steps'[i].mark = "maxTokens"
               PROVE  row'[d] = NoRow
    BY DEF TruncatedHasNoRow, Asks
  <2>1. row[d] = NoRow
    BY <1>1, <1>6 DEF TruncatedHasNoRow, Asks, Stays
  <2> QED
    BY <1>7, <2>1 DEF NoRow
<1>18. NewUserIsLast'
  <2> SUFFICES ASSUME NEW u \in DOMAIN steps', steps'[u].role = "user", steps'[u].born # Nobody
               PROVE  FALSE
    BY DEF NewUserIsLast
  <2>1. PICK g \in Handlers \ {h} : u \in DOMAIN steps /\ steps[u].role = "user" /\ steps[u].born = g
    BY <1>1, <1>5, <1>6, StepFields DEF Stays
  <2>2. req[g].pc \in {"policy", "build"}
    BY <1>1, <2>1 DEF Writer
  <2>3. Working(g)'
    BY <1>8, <2>1, <2>2 DEF Working
  <2> QED
    BY <1>11, <2>1, <2>3
<1> QED
  BY <1>11, <1>12, <1>13, <1>14, <1>15, <1>16, <1>17, <1>18 DEF InOrder

-----------------------------------------------------------------------------
(* The order is kept: a commit without a step of its own to add.           *)

LEMMA CommitOrder ==
  ASSUME ChatInv, InOrder, Orderly', NEW h \in Handlers, Commit(h, <<>>), UNCHANGED turns,
         NEW r, RequestIs(h, r), r.turn \in {0, req[h].turn},
         \/ r.pc = "idle" /\ req[h].pc \in {"policy", "apply"}
         \/ r.pc = "llm" /\ req[h].pc = "build"
  PROVE  InOrder'
<1>0. steps' = Committed(h, <<>>)
  BY DEF Commit
<1>1. /\ h # Nobody /\ StepsTyped /\ AskedOnce /\ DeletedOnceCommitted
      /\ TurnsAreNew /\ NewUserIsLast /\ TruncatedHasNoRow /\ turns \in Nat
      /\ \A g \in Handlers : Writer(g) /\ ItemsFit(g) /\ Tidy(View(g))
  BY ChatAssumption DEF InOrder, ChatInv, TypeOK, StepsFit, StepsTyped
<1> DEFINE new == <<>>
<1>2. new \in Seq(Step) /\ Len(new) = 0 /\ steps' = Committed(h, new)
  BY <1>0
<1> HIDE DEF new
<1>3. /\ DOMAIN steps' = {i \in DOMAIN steps : steps[i].cut # h}
      /\ \A i \in DOMAIN steps' :
           /\ Stays(i) /\ steps'[i].cut = steps[i].cut
           /\ steps'[i].born = IF steps[i].born = h THEN Nobody ELSE steps[i].born
  <2>1. PICK n \in Nat :
          /\ DOMAIN steps' = {i \in DOMAIN steps : steps[i].cut # h} \cup n + 1 .. n + Len(new)
          /\ \A i \in DOMAIN steps : steps[i].cut # h =>
               /\ i <= n /\ Stays(i) /\ steps'[i].cut = steps[i].cut
               /\ steps'[i].born = IF steps[i].born = h THEN Nobody ELSE steps[i].born
    BY <1>1, <1>2, CommitIs
  <2>2. n + 1 .. n + Len(new) = {}
    BY <1>2
  <2> QED
    BY <2>1, <2>2
<1>4. \A g \in Handlers : req'[g] = IF g = h THEN r ELSE req[g]
  BY RequestsAre
<1>5. \A c \in Calls :
        /\ row[c].by # h => row'[c] = row[c]
        /\ row[c].by = h /\ row[c].next = "none" => row'[c] = NoRow
        /\ row[c].by = h /\ row[c].next # "none" =>
             row'[c].turn = row[c].turn /\ row'[c].st = row[c].next /\ row'[c].by = Nobody
  <2>1. \A c \in Calls : row[c] \in Row /\ row'[c] = CommittedRow(h, c)
    BY DEF ChatInv, TypeOK, Commit
  <2> QED
    BY <2>1, CommittedRowIs
<1>6. req[h].pc # "givenUp" /\ req[h].pc # "edited"
  OBVIOUS
<1>7. /\ WithResults(View(h), Stored') /\ WithResults(Stored', View(h)') /\ WithResults(View(h), View(h)')
  BY <1>0, CommitSees, ResultsAdd
<1>8. ~NewTurn(h) => /\ WithResults(Stored, Stored')
                     /\ \A g \in Handlers : WithResults(View(g), View(g)')
  BY <1>0, <1>6, <1>7, SeesStored, ResultsAdd, OthersSee
\* A new turn is the last, and all before it is closed.
<1>9. ASSUME NewTurn(h)
      PROVE  /\ LastTurn(Stored', req[h].turn) /\ req[h].turn \in Turns /\ Open(Stored') = {}
             /\ \A i \in IndexesOf(Stored', "assistant") : \E v \in IndexesOf(Stored', "user") : i < v
             /\ \A g \in Handlers \ {h} : req[g].pc \in {"idle", "apply"} /\ ~NewTurn(g)
                                          /\ req[g].turn # req[h].turn
  <2>1. PICK u \in IndexesOf(steps, "user") : steps[u].born = h
    BY <1>6, <1>9 DEF NewTurn
  <2>2. u \in DOMAIN steps /\ steps[u].role = "user" /\ steps[u].turn = req[h].turn
    BY <1>1, <2>1 DEF Writer, IndexesOf
  <2>3. /\ Open(View(h)) = {} /\ LastTurn(View(h), req[h].turn)
        /\ \A i \in IndexesOf(View(h), "assistant") : \E v \in IndexesOf(View(h), "user") : i < v
    BY <2>1, <2>2, NewTurnIsClosed
  <2>4. Open(Stored') = {}
    BY <1>7, <2>3, ResultsAreMore, OpenShrinks
  <2>5. LastTurn(Stored', req[h].turn)
    BY <1>7, <2>3, LastTurnStays
  <2>6. \A i \in IndexesOf(Stored', "assistant") : \E v \in IndexesOf(Stored', "user") : i < v
    BY <1>7, <2>3 DEF WithResults, IndexesOf
  <2>7. req[h].turn \in Turns
    BY <1>1, <2>2, StepFields
  <2>8. Working(h)
    BY <1>6, <1>9 DEF NewTurn, Working
  <2>9. ASSUME NEW g \in Handlers \ {h}
        PROVE  req[g].pc \in {"idle", "apply"} /\ ~NewTurn(g) /\ req[g].turn # req[h].turn
    <3>1. req[g].pc \in {"idle", "apply"}
      BY <2>8 DEF InOrder, Orderly, Working
    <3>2. ~NewTurn(g)
      BY <3>1 DEF NewTurn
    <3>3. req[g].turn # req[h].turn
      BY <1>1, <1>9 DEF TurnsAreNew
    <3> QED
      BY <3>1, <3>2, <3>3
  <2> QED
    BY <2>4, <2>5, <2>6, <2>7, <2>9
<1>10. ASSUME NEW g \in Handlers, g # h
       PROVE  Writer(g)' /\ (NewTurn(g)' <=> NewTurn(g))
  <2>1. \A c \in Calls : row'[c].by = g => row'[c] = row[c]
    BY <1>5, <1>10, ChatAssumption DEF NoRow
  <2>2. \A i \in 1 .. Len(new) : new[i].born = Nobody /\ new[i].cut = Nobody
    BY <1>2
  <2>3. Holds(g)
    BY <1>1, <1>2, <1>4, <1>10, <2>1, <2>2, CommitHolds
  <2> QED
    BY <1>1, <2>3, WriterHolds
<1>11. Writer(h)' /\ ~NewTurn(h)' /\ ItemsFit(h)'
  <2>1. req'[h].pc \in {"idle", "llm"}
    BY <1>4
  <2>2. \A i \in DOMAIN steps' : steps'[i].born # h /\ steps'[i].cut # h
    BY <1>1, <1>3
  <2>3. \A c \in Calls : row'[c].by # h
    BY <1>1, <1>5 DEF NoRow
  <2> QED
    BY <2>1, <2>2, <2>3 DEF Writer, NewTurn, ItemsFit
<1>12. TurnsAreNew'
  <2>1. \A g \in Handlers : req'[g].turn \in {0, req[g].turn}
    BY <1>4
  <2>2. \A i \in DOMAIN steps' : i \in DOMAIN steps /\ Stays(i)
    BY <1>3
  <2>3. ASSUME NEW g \in Handlers, NewTurn(g)'
        PROVE  /\ NewTurn(g) /\ req'[g].turn = req[g].turn
               /\ \A i \in DOMAIN steps' : steps[i].born = g => steps'[i].born = g
    BY <1>3, <1>4, <1>10, <1>11, <2>3
  <2> QED
    BY <1>1, <2>1, <2>2, <2>3, TurnsStay
<1>13. Tidy(Stored') /\ \A g \in Handlers : Tidy(View(g)')
  <2>1. Tidy(Stored')
    BY <1>1, <1>7, ResultsAreMore, TidyGrows
  <2>2. Tidy(View(h)')
    BY <1>7, <2>1, ResultsAreMore, TidyGrows
  <2>3. ASSUME NEW g \in Handlers \ {h}
        PROVE  Tidy(View(g)')
    <3>1. CASE NewTurn(h)
      <4>1. ~NewTurn(g) /\ req[g].pc # "givenUp"
        BY <1>9, <3>1
      <4>2. \A i \in 1 .. Len(new) : new[i].born = Nobody /\ new[i].cut = Nobody
        BY <1>2
      <4>3. WithResults(Stored', View(g)')
        BY <1>2, <4>1, <4>2, OthersAfter
      <4> QED
        BY <2>1, <4>3, ResultsAreMore, TidyGrows
    <3>2. CASE ~NewTurn(h)
      BY <1>1, <1>8, <3>2, ResultsAreMore, TidyGrows
    <3> QED
      BY <3>1, <3>2
  <2> QED
    BY <2>1, <2>2, <2>3
<1>14. ASSUME NEW g \in Handlers, Generating(g)'
       PROVE  Open(View(g)') = {}
  <2>1. Generating(g) /\ WithResults(View(g), View(g)')
    <3>1. CASE g = h
      <4>1. req[h].pc = "build"
        BY <1>4, <1>14, <3>1 DEF Generating, Working
      <4> QED
        BY <1>7, <3>1, <4>1 DEF Generating, Working
    <3>2. CASE g # h
      <4>1. Generating(g) /\ req[g].pc \notin {"idle", "apply"}
        BY <1>4, <1>14, <3>2 DEF Generating, Working
      <4>2. ~NewTurn(h)
        BY <1>9, <3>2, <4>1
      <4> QED
        BY <1>8, <4>1, <4>2
    <3> QED
      BY <3>1, <3>2
  <2> QED
    BY <2>1, ResultsAreMore, OpenShrinks DEF InOrder
<1>15. OpenCalls' /\ LatestSpeaks'
  <2>1. CASE NewTurn(h)
    BY <1>9, <2>1 DEF OpenCalls, LatestSpeaks
  <2>2. CASE ~NewTurn(h)
    <3>1. ASSUME NEW c \in Calls, row[c].st = "pending"
          PROVE  row'[c].st = "pending" \/ ResultsIn(Stored', c) # {}
      <4>1. CASE row[c].by # h
        BY <1>5, <3>1, <4>1
      <4>2. CASE row[c].by = h
        <5>1. row[c].next # "none" /\ row[c].next \in Status
          BY <1>1, <2>2, <4>2 DEF Writer, ChatInv, TypeOK, Row
        <5>2. CASE row[c].next = "pending"
          BY <1>5, <4>2, <5>2
        <5>3. CASE row[c].next = "done"
          <6>1. PICK k \in ResultsIn(steps, c) : steps[k].born = h
            BY <1>1, <4>2, <5>3 DEF Writer
          <6>2. k \in DOMAIN steps /\ steps[k].role = "tool" /\ steps[k].call = c /\ steps[k].cut # h
            BY <1>1, <6>1 DEF ResultsIn, IndexesOf, DeletedOnceCommitted
          <6>3. k \in DOMAIN steps' /\ steps'[k].born = Nobody /\ Stays(k)
            BY <1>3, <6>1, <6>2
          <6>4. k \in ResultsIn(Stored', c)
            BY <6>2, <6>3, StoredIs DEF ResultsIn, IndexesOf, Stays
          <6> QED
            BY <6>4
        <5> QED
          BY <5>1, <5>2, <5>3 DEF Status
      <4> QED
        BY <4>1, <4>2
    <3> QED
      BY <1>8, <2>2, <3>1, StoredStays DEF InOrder
  <2> QED
    BY <2>1, <2>2
<1>16. TruncatedHasNoRow'
  <2> SUFFICES ASSUME NEW i \in DOMAIN steps', NEW d \in Calls, d \in steps'[i].uses,
                      steps'[i].mark = "maxTokens"
               PROVE  row'[d] = NoRow
    BY DEF TruncatedHasNoRow, Asks
  <2>1. row[d] = NoRow
    BY <1>1, <1>3 DEF TruncatedHasNoRow, Asks, Stays
  <2>2. row[d].by # h
    BY <1>1, <2>1 DEF NoRow
  <2> QED
    BY <1>5, <2>1, <2>2
<1>17. NewUserIsLast'
  BY <1>1, <1>3 DEF NewUserIsLast, Stays
<1>18. ASSUME NEW g \in Handlers, g # h
       PROVE  ItemsFit(g)'
  <2>1. req'[g] = req[g] /\ ItemsFit(g)
    BY <1>1, <1>4, <1>18
  <2>2. CASE NewTurn(h)
    <3>1. \E t \in Turns \ {req[g].turn} : LastTurn(Stored', t)
      BY <1>9, <1>18, <2>2
    <3> QED
      BY <2>1, <3>1 DEF ItemsFit
  <2>3. CASE ~NewTurn(h)
    <3>1. ASSUME NEW c \in Calls, row[c].st # "none"
          PROVE  row'[c].st # "none" /\ row'[c].turn = row[c].turn
      <4>1. CASE row[c].by # h
        BY <1>5, <3>1, <4>1
      <4>2. CASE row[c].by = h
        <5>1. row[c].next # "none"
          BY <1>1, <2>3, <4>2 DEF Writer
        <5> QED
          BY <1>5, <4>2, <5>1
      <4> QED
        BY <4>1, <4>2
    <3> QED
      BY <1>8, <2>1, <2>3, <3>1, ItemsStay
  <2> QED
    BY <2>2, <2>3
<1> QED
  BY <1>10, <1>11, <1>12, <1>13, <1>14, <1>15, <1>16, <1>17, <1>18 DEF InOrder

-----------------------------------------------------------------------------
(* The order is kept: the assistant speaks.                                *)

LEMMA SpeakOrder ==
  ASSUME ChatInv, InOrder, Orderly', NEW h \in Handlers, req[h].pc \in {"llm", "failed"}, UNCHANGED turns,
         NEW new, NEW m \in Nat, NEW device, Adds(new, m, device, req[h].turn), Len(new) >= 1,
         steps' = Committed(h, new), req[h].turn \in Turns,
         row' = [c \in Calls |-> IF c \in device THEN [turn |-> req[h].turn, st |-> "pending",
                                                       next |-> "pending", by |-> Nobody]
                                 ELSE CommittedRow(h, c)],
         NEW r, RequestIs(h, r), r.turn \in {0, req[h].turn}, r.pc \in {"idle", "build", "failed"},
         \A c \in Fresh(m) : c \in device \/ new[1].mark = "maxTokens" \/ (Len(new) = 2 /\ new[2].call = c),
         new[1].mark = "maxTokens" => device = {},
         r.pc # "idle" => \A c \in Fresh(m) : Len(new) = 2 /\ new[2].call = c
  PROVE  InOrder'
<1> DEFINE t == req[h].turn
<1>1. /\ h # Nobody /\ StepsTyped /\ AskedOnce /\ DeletedOnceCommitted
      /\ TurnsAreNew /\ NewUserIsLast /\ TruncatedHasNoRow /\ turns \in Nat /\ lastCall \in Nat
      /\ LatestSpeaks
  BY ChatAssumption DEF InOrder, ChatInv, TypeOK, StepsFit, StepsTyped
<1>2. \A g \in Handlers : Writer(g) /\ ItemsFit(g) /\ Tidy(View(g)) /\ (Generating(g) => Open(View(g)) = {})
  BY DEF InOrder
<1>3. /\ new \in Seq(Step) /\ Len(new) \in 1 .. 2 /\ device \subseteq Fresh(m)
      /\ new[1].role = "assistant" /\ new[1].uses = Fresh(m) /\ new[1].turn = t
      /\ new[1].born = Nobody /\ new[1].cut = Nobody
      /\ Len(new) = 2 => /\ new[2].role = "tool" /\ new[2].uses = {} /\ new[2].turn = t
                         /\ new[2].born = Nobody /\ new[2].cut = Nobody
  BY DEF Adds
<1>4. \A i \in 1 .. Len(new) : new[i].born = Nobody /\ new[i].cut = Nobody
  <2> DEFINE l == Len(new)
  <2>1. l = 1 \/ l = 2
    BY <1>3
  <2> HIDE DEF l
  <2>2. \A i \in 1 .. l : i = 1 \/ (i = 2 /\ l = 2)
    BY <2>1
  <2> QED
    BY <1>3, <2>2 DEF l
<1>5. /\ \A i \in DOMAIN steps : steps[i].born # h /\ steps[i].cut # h
      /\ \A c \in Calls : row[c].by # h
  BY DEF ChatInv, StepsFit, RestsClean
\* Step a is the assistant's, and what follows it a result.
<1>6. PICK a \in Nat :
        /\ a \in DOMAIN steps' /\ a \notin DOMAIN steps /\ steps'[a] = new[1]
        /\ DOMAIN steps \subseteq DOMAIN steps'
        /\ \A i \in DOMAIN steps : /\ i < a /\ Stays(i) /\ steps'[i].cut = steps[i].cut
                                   /\ steps'[i].born = steps[i].born
        /\ \A i \in DOMAIN steps' : i \in DOMAIN steps \/ i = a
             \/ (a < i /\ Len(new) = 2 /\ steps'[i] = new[2])
        /\ Len(new) = 2 => \E i \in DOMAIN steps' : a < i /\ i \notin DOMAIN steps /\ steps'[i] = new[2]
  <2>1. PICK n \in Nat :
          /\ DOMAIN steps' = {i \in DOMAIN steps : steps[i].cut # h} \cup n + 1 .. n + Len(new)
          /\ \A i \in DOMAIN steps : steps[i].cut # h =>
               /\ i <= n /\ Stays(i) /\ steps'[i].cut = steps[i].cut
               /\ steps'[i].born = IF steps[i].born = h THEN Nobody ELSE steps[i].born
          /\ \A i \in n + 1 .. n + Len(new) : steps'[i] = new[i - n]
    BY <1>1, <1>3, CommitIs
  <2> DEFINE l == Len(new)
  <2>2. (l = 1 \/ l = 2) /\ (n + 1) - n = 1 /\ (n + 2) - n = 2 /\ n + 1 \in Nat
    BY <1>3
  <2> HIDE DEF l
  <2>3. /\ n + 1 \in n + 1 .. n + l /\ (l = 2 => n + 2 \in n + 1 .. n + l)
        /\ \A i \in n + 1 .. n + l : i = n + 1 \/ (l = 2 /\ i = n + 2)
    BY <2>2
  <2>4. \A i \in DOMAIN steps : i \in Nat /\ i <= n
    BY <1>1, <1>5, <2>1 DEF StepsTyped
  <2>5. /\ DOMAIN steps' = {i \in DOMAIN steps : steps[i].cut # h} \cup n + 1 .. n + l
        /\ \A i \in n + 1 .. n + l : steps'[i] = new[i - n]
    BY <2>1 DEF l
  <2>6. /\ n + 1 \in DOMAIN steps' /\ n + 1 \notin DOMAIN steps /\ steps'[n + 1] = new[1]
        /\ l = 2 => n + 2 \in DOMAIN steps' /\ n + 2 \notin DOMAIN steps /\ steps'[n + 2] = new[2] /\ n + 1 < n + 2
    BY <2>2, <2>3, <2>4, <2>5
  <2>7. \A i \in DOMAIN steps : i < n + 1 /\ i \in DOMAIN steps'
    BY <1>5, <2>1, <2>4
  <2>8. \A i \in DOMAIN steps' : i \in DOMAIN steps \/ i = n + 1 \/ (l = 2 /\ i = n + 2)
    BY <2>3, <2>5
  <2>9. \A i \in DOMAIN steps : Stays(i) /\ steps'[i].cut = steps[i].cut /\ steps'[i].born = steps[i].born
    BY <1>5, <2>1
  <2> QED
    BY <2>2, <2>6, <2>7, <2>8, <2>9 DEF l
<1>7. \A i \in DOMAIN steps' : i \notin DOMAIN steps =>
        /\ a <= i /\ steps'[i].turn = t /\ steps'[i].born = Nobody /\ steps'[i].cut = Nobody
        /\ steps'[i].role # "user" /\ (i # a => a < i /\ steps'[i].role = "tool" /\ steps'[i].uses = {})
  <2>1. ASSUME NEW i \in DOMAIN steps', i \notin DOMAIN steps
        PROVE  i = a \/ (a < i /\ Len(new) = 2 /\ steps'[i] = new[2])
    BY <1>6, <2>1
  <2>2. \A i \in DOMAIN steps' : i = a \/ a < i => a <= i
    <3>1. DOMAIN steps' \subseteq Nat /\ a \in Nat
      BY <1>1, <1>3, CommitIs DEF StepsTyped
    <3> QED
      BY <3>1
  <2> QED
    BY <1>3, <1>6, <2>1, <2>2
<1>8. \A g \in Handlers : req'[g] = IF g = h THEN r ELSE req[g]
  BY RequestsAre
\* The device's calls are new, and the other rows as they were.
<1>9. /\ \A c \in Fresh(m) \cap Calls : row[c] = NoRow
      /\ \A c \in Calls : c \in device => row'[c].st = "pending" /\ row'[c].by = Nobody
      /\ \A c \in Calls : c \notin device => row'[c] = row[c]
      /\ \A c \in Calls : row[c].st # "none" => c \notin device
  <2>1. \A c \in Fresh(m) \cap Calls : row[c] = NoRow
    <3>1. \A c \in Fresh(m) : ~ (c <= lastCall)
      BY <1>1 DEF Fresh
    <3> QED
      BY <3>1 DEF ChatInv, StepsFit, RowLives
  <2>2. \A c \in Calls : c \notin device => row'[c] = row[c]
    BY <1>5 DEF CommittedRow
  <2>3. \A c \in Calls : row[c].st # "none" => c \notin device
    BY <1>3, <2>1 DEF NoRow
  <2> QED
    BY <2>1, <2>2, <2>3
<1>10. Generating(h) /\ Working(h) /\ \A g \in Handlers : g # h => req[g].pc \in {"idle", "apply"}
  <2>1. Generating(h) /\ Working(h)
    BY DEF Generating, Working
  <2> QED
    BY <2>1 DEF InOrder, Orderly, Working
<1>11. \A g \in Handlers : ~NewTurn(g)
  <2>1. ~NewTurn(h)
    BY DEF NewTurn
  <2> QED
    BY <1>10, <2>1 DEF NewTurn
<1>12. ASSUME NEW g \in Handlers, g # h
       PROVE  Writer(g)' /\ ~NewTurn(g)'
  <2>1. \A c \in Calls : row'[c].by = g => row'[c] = row[c]
    BY <1>9, <1>12, ChatAssumption
  <2>2. Holds(g)
    BY <1>1, <1>3, <1>4, <1>8, <1>12, <2>1, CommitHolds
  <2> QED
    BY <1>2, <1>11, <2>2, WriterHolds
<1>13. Writer(h)' /\ ~NewTurn(h)' /\ ItemsFit(h)'
  <2>1. req'[h].pc \in {"idle", "build", "failed"}
    BY <1>8
  <2>2. \A i \in DOMAIN steps' : steps'[i].born # h /\ steps'[i].cut # h
    BY <1>1, <1>5, <1>6, <1>7
  <2>3. \A c \in Calls : row'[c].by # h
    BY <1>1, <1>5, <1>9
  <2> QED
    BY <2>1, <2>2, <2>3 DEF Writer, NewTurn, ItemsFit, IndexesOf
<1>14. TurnsAreNew'
  <2>1. \A g \in Handlers : ~NewTurn(g)'
    BY <1>12, <1>13
  <2>2. \A g \in Handlers : req[g].turn <= turns /\ 0 <= turns
    BY <1>1 DEF TurnsAreNew
  <2>3. \A g \in Handlers : req'[g].turn <= turns'
    BY <1>8, <2>2
  <2>4. \A i \in DOMAIN steps : i \in Nat /\ steps[i].turn <= turns
    BY <1>1 DEF StepsTyped, TurnsAreNew
  <2>5. \A i \in DOMAIN steps' : steps'[i].turn <= turns'
    BY <1>6, <1>7, <2>2, <2>4 DEF Stays
  <2>6. ASSUME NEW u \in DOMAIN steps', NEW i \in DOMAIN steps', steps'[u].role = "user",
               steps'[i].turn = steps'[u].turn
        PROVE  u <= i
    <3>1. u \in DOMAIN steps /\ steps[u].role = "user" /\ steps[u].turn = steps'[u].turn
      BY <1>6, <1>7, <2>6 DEF Stays
    <3>2. CASE i \in DOMAIN steps
      BY <1>1, <1>6, <2>6, <3>1, <3>2 DEF TurnsAreNew, Stays
    <3>3. CASE i \notin DOMAIN steps
      <4>1. a <= i /\ u < a /\ u \in Nat /\ (i = a \/ a < i) /\ i \in Nat
        <5>1. DOMAIN steps' \subseteq Nat
          BY <1>1, <1>3, CommitIs DEF StepsTyped
        <5> QED
          BY <1>6, <1>7, <2>4, <3>1, <3>3, <5>1
      <4> QED
        BY <4>1
    <3> QED
      BY <3>2, <3>3
  <2> QED
    BY <2>1, <2>3, <2>5, <2>6 DEF TurnsAreNew
\* Of the history, the transaction sees what is committed.
<1>15. /\ WithResults(View(h), Stored) /\ WithResults(Stored, View(h)) /\ WithResults(Stored', View(h)')
  <2>1. \A i : i \in DOMAIN Stored <=> i \in DOMAIN View(h)
    BY <1>5, StoredIs, SeenIs
  <2>2. \A i \in DOMAIN steps' : steps'[i].born # h /\ steps'[i].cut # h
    BY <1>1, <1>5, <1>6, <1>7
  <2>3. \A i : i \in DOMAIN Stored' <=> i \in DOMAIN View(h)'
    BY <2>2, StoredIs, SeenIs
  <2> QED
    BY <2>1, <2>3, StoredIs, SeenIs DEF WithResults
<1>16. Open(Stored) = {}
  BY <1>2, <1>10, <1>15, ResultsAreMore, OpenShrinks
<1>17. /\ a \in DOMAIN Stored' /\ DOMAIN Stored \subseteq DOMAIN Stored'
       /\ \A i \in DOMAIN Stored :
            /\ i < a /\ Stored'[i].role = Stored[i].role /\ Stored'[i].turn = Stored[i].turn
            /\ Stored'[i].uses = Stored[i].uses /\ Stored'[i].call = Stored[i].call
            /\ Stored'[i].mark = Stored[i].mark
       /\ \A i \in DOMAIN Stored' : i \notin DOMAIN Stored /\ i # a =>
            a < i /\ Stored'[i].role = "tool" /\ Stored'[i].uses = {}
       /\ Stored'[a].role = "assistant" /\ Stored'[a].uses = Fresh(m) /\ Stored'[a].turn = t
       /\ Stored'[a].mark = new[1].mark
  <2>1. \A i \in DOMAIN Stored' : i \notin DOMAIN Stored => i \in DOMAIN steps' /\ i \notin DOMAIN steps
    BY <1>6, StoredIs
  <2>2. a \in DOMAIN Stored' /\ Stored'[a] = new[1]
    BY <1>3, <1>6, StoredIs
  <2>3. \A i \in DOMAIN Stored : i \in DOMAIN Stored' /\ i < a /\ i \in DOMAIN steps /\ Stays(i)
    BY <1>6, StoredIs
  <2> QED
    BY <1>3, <1>7, <2>1, <2>2, <2>3, StoredIs DEF Stays
<1>18. Tidy(Stored')
  <2>1. DOMAIN Stored' \subseteq Nat
    BY <1>1, <1>3, CommitIs, StoredIs DEF StepsTyped
  <2>2. Tidy(Stored)
    BY DEF InOrder
  <2> QED
    BY <1>16, <1>17, <2>1, <2>2, TidySpeaks
<1>19. \A g \in Handlers : Tidy(View(g)')
  <2>1. ASSUME NEW g \in Handlers, g # h
        PROVE  WithResults(Stored', View(g)')
    <3>1. ~NewTurn(g) /\ req[g].pc # "givenUp"
      BY <1>10, <1>11, <2>1
    <3> QED
      BY <1>3, <1>4, <2>1, <3>1, OthersAfter
  <2> QED
    BY <1>15, <1>18, <2>1, ResultsAreMore, TidyGrows
<1>20. /\ IndexesOf(Stored', "user") = IndexesOf(Stored, "user")
       /\ \A b : LastTurn(Stored', b) <=> LastTurn(Stored, b)
  <2>1. IndexesOf(Stored', "user") = IndexesOf(Stored, "user")
    BY <1>17 DEF IndexesOf
  <2>2. \A u \in IndexesOf(Stored, "user") : Stored'[u].turn = Stored[u].turn
    BY <1>17 DEF IndexesOf
  <2> QED
    BY <2>1, <2>2 DEF LastTurn
\* Only calls of the new step are open.
<1>21. ASSUME NEW c \in Open(Stored')
       PROVE  c \in Calls /\ c \in Fresh(m) /\ ~ (Len(new) = 2 /\ new[2].call = c)
  <2>1. c \in Calls /\ ResultsIn(Stored', c) = {}
    BY DEF Open
  <2>2. PICK i \in DOMAIN Stored' : c \in Stored'[i].uses /\ \A u \in IndexesOf(Stored', "user") : u <= i
    BY DEF Open
  <2>3. i \notin DOMAIN Stored
    <3> SUFFICES ASSUME i \in DOMAIN Stored
                 PROVE  FALSE
      OBVIOUS
    <3>1. ResultsIn(Stored, c) = {}
      BY <1>17, <2>1 DEF ResultsIn, IndexesOf
    <3>2. c \in Stored[i].uses /\ \A u \in IndexesOf(Stored, "user") : u <= i
      BY <1>17, <1>20, <2>2
    <3> QED
      BY <1>16, <2>1, <3>1, <3>2 DEF Open
  <2>4. c \in Fresh(m)
    BY <1>17, <2>2, <2>3
  <2>5. ASSUME Len(new) = 2, new[2].call = c
        PROVE  FALSE
    <3>1. PICK k \in DOMAIN steps' : steps'[k] = new[2]
      BY <1>6, <2>5
    <3>2. k \in ResultsIn(Stored', c)
      BY <1>3, <2>5, <3>1, StoredIs DEF ResultsIn, IndexesOf
    <3> QED
      BY <2>1, <3>2
  <2> QED
    BY <2>1, <2>4, <2>5
<1>22. OpenCalls'
  <2> SUFFICES ASSUME NEW c \in Open(Stored')
               PROVE  \/ row'[c].st = "pending"
                      \/ \E i \in DOMAIN Stored' : c \in Stored'[i].uses /\ Stored'[i].mark = "maxTokens"
    BY DEF OpenCalls
  <2> QED
    BY <1>9, <1>17, <1>21
<1>23. ASSUME NEW g \in Handlers, Generating(g)'
       PROVE  Open(View(g)') = {}
  <2>1. g = h /\ r.pc # "idle"
    BY <1>8, <1>10, <1>23 DEF Generating, Working
  <2>2. Open(Stored') = {}
    BY <1>21, <2>1
  <2> QED
    BY <1>15, <2>1, <2>2, ResultsAreMore, OpenShrinks
<1>24. LatestSpeaks'
  <2>1. LastTurn(Stored, t)
    <3> DEFINE U == IndexesOf(View(h), "user")
    <3>1. U # {} /\ View(h)[Max(U)].turn = t
      BY <1>10 DEF InOrder, Orderly, IsLatest
    <3>2. U \in SUBSET Nat /\ IsFiniteSet(U)
      <4>1. U \subseteq DOMAIN steps /\ \A i \in DOMAIN steps : i \in Nat
        BY <1>1, SeenIs DEF IndexesOf, StepsTyped
      <4> QED
        BY <1>1, <4>1, FS_Subset DEF StepsTyped
    <3>3. Max(U) \in U /\ \A u \in U : u <= Max(U)
      <4> HIDE DEF U
      <4> QED
        BY <3>1, <3>2, MaxIs
    <3>4. LastTurn(View(h), t)
      BY <3>1, <3>3 DEF LastTurn
    <3> QED
      BY <1>15, <3>4, LastTurnStays
  <2>2. ASSUME NEW i \in IndexesOf(Stored', "assistant")
        PROVE  LastTurn(Stored', Stored'[i].turn) \/ \E u \in IndexesOf(Stored', "user") : i < u
    <3>1. CASE i = a
      BY <1>17, <1>20, <2>1, <3>1
    <3>2. CASE i # a
      <4>1. i \in IndexesOf(Stored, "assistant") /\ Stored'[i].turn = Stored[i].turn
        BY <1>17, <3>2 DEF IndexesOf
      <4> QED
        BY <1>1, <1>20, <4>1 DEF LatestSpeaks
    <3> QED
      BY <3>1, <3>2
  <2> QED
    BY <2>2 DEF LatestSpeaks
<1>25. TruncatedHasNoRow'
  <2> SUFFICES ASSUME NEW i \in DOMAIN steps', NEW d \in Calls, d \in steps'[i].uses,
                      steps'[i].mark = "maxTokens"
               PROVE  row'[d] = NoRow
    BY DEF TruncatedHasNoRow, Asks
  <2>1. CASE i \in DOMAIN steps
    <3>1. row[d] = NoRow /\ d <= lastCall
      BY <1>1, <1>6, <2>1 DEF TruncatedHasNoRow, AskedOnce, Asks, Stays
    <3>2. d \notin device
      <4>1. d \in Nat /\ ~ (lastCall < d) /\ \A c \in Fresh(m) : lastCall < c
        BY <1>1, <3>1 DEF Fresh, Calls
      <4> QED
        BY <1>3, <4>1
    <3> QED
      BY <1>9, <3>1, <3>2
  <2>2. CASE i \notin DOMAIN steps
    <3>1. steps'[i] = new[1] /\ d \in Fresh(m) /\ device = {}
      BY <1>3, <1>6, <1>7, <2>2
    <3> QED
      BY <1>9, <3>1
  <2> QED
    BY <2>1, <2>2
<1>26. NewUserIsLast'
  <2> SUFFICES ASSUME NEW u \in DOMAIN steps', steps'[u].role = "user", steps'[u].born # Nobody
               PROVE  FALSE
    BY DEF NewUserIsLast
  <2>1. u \in DOMAIN steps /\ steps[u].role = "user" /\ steps[u].born # Nobody
    BY <1>6, <1>7 DEF Stays
  <2>2. PICK g \in Handlers : g # h /\ steps[u].born = g
    BY <1>1, <1>5, <2>1, StepFields
  <2> QED
    BY <1>2, <1>10, <2>1, <2>2 DEF Writer
<1>27. ASSUME NEW g \in Handlers, g # h
       PROVE  ItemsFit(g)'
  <2>1. req'[g] = req[g] /\ ItemsFit(g) /\ req[g].items \subseteq Calls
    BY <1>2, <1>8, <1>27 DEF ChatInv, TypeOK, Request
  <2> QED
    BY <1>9, <1>20, <2>1 DEF ItemsFit
<1> QED
  BY <1>12, <1>13, <1>14, <1>18, <1>19, <1>22, <1>23, <1>24, <1>25, <1>26, <1>27 DEF InOrder

-----------------------------------------------------------------------------
(* The order is kept: every step.                                          *)

\* A request with results that writes nothing new.
LEMMA WriterGoes ==
  ASSUME NEW h, Writer(h), UNCHANGED <<steps, row>>, req[h].pc = "apply", req'[h].pc \in {"apply", "build"}
  PROVE  Writer(h)' /\ ~NewTurn(h)'
<1>1. ~NewTurn(h) /\ \A i \in DOMAIN steps : steps[i].born = h => steps[i].role = "tool"
  BY DEF NewTurn, Writer
<1>2. ~NewTurn(h)'
  BY <1>1 DEF NewTurn, IndexesOf
<1> QED
  BY <1>1, <1>2 DEF Writer, ResultsIn, IndexesOf

\* One user step at most is the last.
LEMMA OneLastTurn ==
  ASSUME NEW S, DOMAIN S \subseteq Nat, NEW a, NEW b, LastTurn(S, a), LastTurn(S, b)
  PROVE  a = b
<1>1. PICK u \in IndexesOf(S, "user") : S[u].turn = a /\ \A v \in IndexesOf(S, "user") : v <= u
  BY DEF LastTurn
<1>2. PICK v \in IndexesOf(S, "user") : S[v].turn = b /\ \A w \in IndexesOf(S, "user") : w <= v
  BY DEF LastTurn
<1>3. u <= v /\ v <= u /\ u \in Nat /\ v \in Nat
  BY <1>1, <1>2 DEF IndexesOf
<1> QED
  BY <1>1, <1>2, <1>3

LEMMA LatestIsLast ==
  ASSUME StepsTyped, NEW h \in Handlers, IsLatest(h)
  PROVE  LastTurn(View(h), req[h].turn)
<1> DEFINE U == IndexesOf(View(h), "user")
<1>1. U # {} /\ View(h)[Max(U)].turn = req[h].turn
  BY DEF IsLatest
<1>2. U \in SUBSET Nat /\ IsFiniteSet(U)
  <2>1. U \subseteq DOMAIN steps /\ \A i \in DOMAIN steps : i \in Nat
    BY SeenIs DEF IndexesOf, StepsTyped
  <2> QED
    BY <2>1, FS_Subset DEF StepsTyped
<1>3. Max(U) \in U /\ \A u \in U : u <= Max(U)
  <2> HIDE DEF U
  <2> QED
    BY <1>1, <1>2, MaxIs
<1> QED
  BY <1>1, <1>3 DEF LastTurn

\* The barrier lets a turn go on only when no call is open: one that is pending is seen to
\* be; one of a truncated step is the turn's last word, said after the results that came.
LEMMA BarrierCloses ==
  ASSUME ChatInv, InOrder, torn = {}, NEW h \in Handlers, req[h].pc = "apply",
         LastTurn(View(h), req[h].turn), PendingOf(h, req[h].turn) = {},
         ~ (SavedStep(h, req[h].turn, req[h].anchor) /\ req[h].items \subseteq CallsOf(h, req[h].turn))
  PROVE  Open(View(h)) = {}
<1> DEFINE t == req[h].turn
           S == View(h)
           b == req[h].anchor
<1> SUFFICES ASSUME NEW c \in Calls, ResultsIn(S, c) = {},
                    NEW i \in DOMAIN S, c \in S[i].uses, \A u \in IndexesOf(S, "user") : u <= i
             PROVE  FALSE
  BY DEF Open
<1>1. /\ h # Nobody /\ StepsTyped /\ AskedOnce /\ TurnsAreNew /\ TruncatedHasNoRow /\ Writer(h) /\ Tidy(S)
      /\ OpenCalls /\ LatestSpeaks /\ ItemsFit(h) /\ Coherent(S)
      /\ \A d \in Calls : RowHasStep(d) /\ row[d] \in Row
  BY ChatAssumption, ViewIsCoherent DEF InOrder, ChatInv, TypeOK, StepsFit, StepsTyped
<1>2. ~NewTurn(h) /\ WithResults(Stored, S)
  BY SeesStored DEF NewTurn
<1>3. /\ DOMAIN S \subseteq Nat \ {0} /\ \A j \in DOMAIN S : S[j] = steps[j] /\ j \in DOMAIN steps
      /\ DOMAIN Stored \subseteq Nat
  BY <1>1, StoredIs, SeenIs DEF StepsTyped
\* The call is one of the turn.
<1>4. i \in DOMAIN Stored /\ S[i].turn = t /\ S[i].role = "assistant"
  <2>1. i \in DOMAIN Stored /\ S[i].role = "assistant" /\ Stored[i].role = "assistant"
        /\ Stored[i].turn = S[i].turn
    BY <1>1, <1>2 DEF WithResults, Coherent
  <2>2. \A u \in IndexesOf(Stored, "user") : u \in IndexesOf(S, "user") /\ ~ (i < u)
    BY <1>2, <1>3 DEF WithResults, IndexesOf
  <2>3. LastTurn(Stored, Stored[i].turn)
    BY <1>1, <2>1, <2>2 DEF LatestSpeaks, IndexesOf
  <2>4. LastTurn(Stored, t)
    BY <1>2, LastTurnStays
  <2> QED
    BY <1>3, <2>1, <2>3, <2>4, OneLastTurn
\* Rows are of the turn, and seen, and so are the steps that ask for them.
<1>5. ASSUME NEW d \in Calls, row[d].st # "none"
      PROVE  /\ StatusFor(h, d) # "none"
             /\ \E j \in DOMAIN S : d \in S[j].uses /\ S[j].turn = row[d].turn
  <2>1. StatusFor(h, d) # "none"
    BY <1>1, <1>2, <1>5 DEF StatusFor, Writer
  <2>2. PICK j \in DOMAIN steps : /\ Asks(j, d) /\ steps[j].turn = row[d].turn /\ steps[j].born = Nobody
    BY <1>1, <1>5 DEF RowHasStep, NoRow
  <2>3. j \in DOMAIN S
    BY <1>1, <1>2, <2>2, SeenIs DEF Writer
  <2> QED
    BY <1>3, <2>1, <2>2, <2>3 DEF Asks
<1>6. CASE row[c].st = "pending"
  <2>1. PICK j \in DOMAIN S : c \in S[j].uses /\ S[j].turn = row[c].turn
    BY <1>5, <1>6
  <2>2. row[c].turn = t
    BY <1>1, <1>4, <2>1 DEF Coherent
  <2>3. StatusFor(h, c) = "pending"
    <3>1. CASE row[c].by # h
      BY <1>6, <3>1 DEF StatusFor
    <3>2. CASE row[c].by = h
      <4>1. row[c].next # "done"
        <5> SUFFICES ASSUME row[c].next = "done"
                     PROVE  FALSE
          OBVIOUS
        <5>1. PICK k \in ResultsIn(steps, c) : steps[k].born = h
          BY <1>1, <3>2 DEF Writer
        <5>2. k \in DOMAIN S
          BY <1>1, <1>2, <5>1, SeenIs DEF Writer, ResultsIn, IndexesOf
        <5> QED
          BY <1>3, <5>1, <5>2 DEF ResultsIn, IndexesOf
      <4>2. row[c].next # "none" /\ row[c].next \in Status
        BY <1>1, <1>2, <3>2 DEF Writer, Row
      <4> QED
        BY <3>2, <4>1, <4>2 DEF StatusFor, Status
    <3> QED
      BY <3>1, <3>2
  <2> QED
    BY <2>2, <2>3 DEF PendingOf, CallsOf
<1>7. CASE \E j \in DOMAIN Stored : c \in Stored[j].uses /\ Stored[j].mark = "maxTokens"
  <2>1. S[i].mark = "maxTokens" /\ steps[i].mark = "maxTokens"
    BY <1>1, <1>2, <1>3, <1>4, <1>7 DEF WithResults, Coherent
  \* The items are the turn's, for it is the last.
  <2>2. b \in req[h].items /\ \A d \in req[h].items : d \in Calls /\ row[d].turn = t /\ row[d].st # "none"
    <3>1. \A a \in Turns : LastTurn(Stored, a) => a = t
      <4>1. LastTurn(Stored, t)
        BY <1>2, LastTurnStays
      <4> QED
        BY <1>3, <4>1, OneLastTurn
    <3>2. req[h].items \subseteq Calls
      BY DEF ChatInv, TypeOK, Request
    <3> QED
      BY <1>1, <3>1, <3>2 DEF ItemsFit
  <2>3. req[h].items \subseteq CallsOf(h, t)
    BY <1>5, <2>2 DEF CallsOf
  <2>4. PICK j \in DOMAIN S : b \in S[j].uses /\ S[j].turn = t
    BY <1>5, <2>2
  <2>5. j # i
    BY <1>1, <1>3, <2>1, <2>2, <2>4 DEF TruncatedHasNoRow, Asks, NoRow
  <2>6. S[j].role = "assistant" /\ i \in Nat \ {0} /\ j \in Nat
    BY <1>1, <1>3, <2>4 DEF Coherent
  <2>7. j < i
    <3> SUFFICES ASSUME i < j
                 PROVE  FALSE
      BY <2>5, <2>6
    <3>1. c \notin Open(Upto(S, j))
      BY <1>1, <2>6 DEF Tidy, IndexesOf
    <3>2. ResultsIn(Upto(S, j), c) = {}
      BY DEF ResultsIn, IndexesOf, Upto, Restrict
    <3>3. i \in DOMAIN Upto(S, j) /\ c \in Upto(S, j)[i].uses
      BY DEF Upto, Restrict
    <3>4. \A u \in IndexesOf(Upto(S, j), "user") : u \in IndexesOf(S, "user")
      BY DEF IndexesOf, Upto, Restrict
    <3> QED
      BY <3>1, <3>2, <3>3, <3>4 DEF Open
  <2>8. ASSUME NEW k \in ResultsIn(S, b)
        PROVE  k < i
    <3>1. k \in DOMAIN S /\ S[k].role = "tool" /\ S[k].call = b /\ k \in Nat /\ k # i
      BY <1>3, <1>4 DEF ResultsIn, IndexesOf
    <3> SUFFICES ASSUME i < k
                 PROVE  FALSE
      BY <2>6, <3>1
    <3>2. b \notin Open(Upto(S, i)) /\ b \in Calls
      BY <1>1, <1>4, <2>2 DEF Tidy, IndexesOf
    <3>3. ResultsIn(Upto(S, i), b) = {}
      <4> SUFFICES ASSUME NEW l \in ResultsIn(Upto(S, i), b)
                   PROVE  FALSE
        OBVIOUS
      <4>1. l \in DOMAIN S /\ l < i /\ S[l].role = "tool" /\ S[l].call = b
        BY DEF ResultsIn, IndexesOf, Upto, Restrict
      <4>2. l = k
        BY <1>1, <3>1, <4>1 DEF Coherent
      <4> QED
        BY <2>6, <3>1, <4>1, <4>2
    <3>4. j \in DOMAIN Upto(S, i) /\ b \in Upto(S, i)[j].uses
      BY <2>4, <2>7 DEF Upto, Restrict
    <3>5. PICK u \in IndexesOf(Upto(S, i), "user") : ~ (u <= j)
      BY <3>2, <3>3, <3>4 DEF Open
    <3>6. u \in IndexesOf(S, "user") /\ u \in Nat
      BY <1>3, <3>5 DEF IndexesOf, Upto, Restrict
    <3>7. PICK v \in IndexesOf(S, "user") : S[v].turn = t /\ \A w \in IndexesOf(S, "user") : w <= v
      BY DEF LastTurn
    <3>8. v <= j /\ v \in Nat
      BY <1>1, <1>3, <2>4, <3>7 DEF TurnsAreNew, IndexesOf
    <3> QED
      BY <2>6, <3>5, <3>6, <3>7, <3>8
  <2>9. SavedStep(h, t, b)
    <3> DEFINE R == ResultsIn(S, b)
               from == IF R = {} THEN 0 ELSE Min(R)
    <3>1. i > from
      <4>1. CASE R = {}
        BY <2>6, <4>1
      <4>2. CASE R # {}
        <5>1. R \in SUBSET Nat /\ IsFiniteSet(R)
          BY <1>1, <1>3, FS_Subset DEF ResultsIn, IndexesOf, Coherent
        <5>2. Min(R) \in R
          <6> HIDE DEF R
          <6> QED
            BY <4>2, <5>1, MinIs
        <5> QED
          BY <1>3, <2>6, <2>8, <4>2, <5>2 DEF ResultsIn, IndexesOf
      <4> QED
        BY <4>1, <4>2
    <3>2. S[i].mark # "turnFailed"
      BY <2>1
    <3> HIDE DEF S
    <3> QED
      BY <1>4, <3>1, <3>2 DEF SavedStep, S
  <2> QED
    BY <2>3, <2>9
<1> QED
  <2>1. c \in Open(Stored)
    <3>1. c \in Open(S)
      BY DEF Open
    <3> QED
      BY <1>2, <3>1, ResultsAreMore, OpenShrinks
  <2> QED
    BY <1>1, <1>6, <1>7, <2>1 DEF OpenCalls

\* The assistant's step with all it asks for: the calls of the device are pending, that of
\* the server has its result.
LEMMA AskToolsOrder ==
  ASSUME ChatInv, InOrder, Orderly', NEW h \in Handlers, NEW d \in 0 .. 2, NEW n \in 0 .. 1, d + n >= 1,
         AskTools(h, d, n), NEW r, RequestIs(h, r), r.turn \in {0, req[h].turn},
         r.pc \in {"idle", "build", "failed"}, r.pc # "idle" => d = 0
  PROVE  InOrder'
<1>1. req[h].pc = "llm" /\ req[h].turn \in Turns /\ lastCall \in Nat /\ d \in Nat /\ n \in Nat /\ UNCHANGED turns
  BY DEF AskTools, ChatInv, TypeOK, Serves, Request
<1>2. PICK new : /\ Adds(new, d + n, Fresh(d), req[h].turn) /\ steps' = Committed(h, new)
                 /\ Len(new) = 1 + n /\ new[1].mark = "none"
                 /\ n = 1 => new[2].call = lastCall + d + 1
  BY <1>1, AskToolsAdds
<1>3. n = 0 \/ n = 1
  BY <1>1
<1>4. d + n \in Nat /\ Len(new) >= 1 /\ (n = 1 => Len(new) = 2)
  BY <1>1, <1>2, <1>3
<1>5. \A c \in Fresh(d + n) : c \in Fresh(d) \/ (n = 1 /\ c = lastCall + d + 1)
  BY <1>1, <1>3 DEF Fresh
<1>6. d = 0 => Fresh(d) = {}
  BY <1>1 DEF Fresh
<1>7. row' = [c \in Calls |-> IF c \in Fresh(d) THEN [turn |-> req[h].turn, st |-> "pending",
                                                      next |-> "pending", by |-> Nobody]
                              ELSE CommittedRow(h, c)]
  BY DEF AskTools
<1> DEFINE m == d + n
           device == Fresh(d)
<1>8. /\ m \in Nat /\ Adds(new, m, device, req[h].turn)
      /\ \A c \in Fresh(m) : c \in device \/ new[1].mark = "maxTokens" \/ (Len(new) = 2 /\ new[2].call = c)
      /\ r.pc # "idle" => \A c \in Fresh(m) : Len(new) = 2 /\ new[2].call = c
      /\ new[1].mark = "maxTokens" => device = {}
  BY <1>2, <1>4, <1>5, <1>6
<1>9. row' = [c \in Calls |-> IF c \in device THEN [turn |-> req[h].turn, st |-> "pending",
                                                    next |-> "pending", by |-> Nobody]
                              ELSE CommittedRow(h, c)]
  BY <1>7
<1> HIDE DEF m, device
<1> QED
  BY <1>1, <1>2, <1>4, <1>8, <1>9, SpeakOrder

\* One step more, and the request is over.
LEMMA StepOrder ==
  ASSUME ChatInv, InOrder, Orderly', NEW h \in Handlers, req[h].pc \in {"llm", "failed"}, UNCHANGED turns,
         NEW m \in Nat, NEW s \in Step, Commit(h, <<s>>), s.role = "assistant", s.uses = Fresh(m),
         s.turn = req[h].turn, s.born = Nobody, s.cut = Nobody, Fresh(m) = {} \/ s.mark = "maxTokens",
         RequestIs(h, Idle)
  PROVE  InOrder'
<1> DEFINE new == <<s>>
<1>1. req[h].turn \in Turns
  BY DEF ChatInv, TypeOK, Serves, Request
<1>2. Adds(new, m, {}, req[h].turn)
  BY <1>1, OneAdded
<1>3. Len(new) >= 1 /\ new[1] = s /\ steps' = Committed(h, new)
  BY DEF Commit
<1>4. row' = [c \in Calls |-> IF c \in {} THEN [turn |-> req[h].turn, st |-> "pending",
                                                next |-> "pending", by |-> Nobody]
                              ELSE CommittedRow(h, c)]
  BY DEF Commit
<1> HIDE DEF new
<1> QED
  BY <1>1, <1>2, <1>3, <1>4, IdleIs, SpeakOrder

\* A result that comes when its row is pending no longer.
LEMMA ApplyOrders ==
  ASSUME ChatInv, InOrder, Orderly', NEW h \in Handlers, NEW c \in Calls, Apply(h, c)
  PROVE  InOrder'
<1> DEFINE r == [req[h] EXCEPT !.todo = @ \ {c}]
<1>1. /\ req[h] \in Request /\ req[h].turn \in Turns /\ Writer(h) /\ ItemsFit(h) /\ TurnsAreNew /\ RowLives(c)
      /\ row[c] \in Row
  BY DEF ChatInv, TypeOK, Serves, Request, InOrder, StepsFit, Apply
<1>2. RequestIs(h, r) /\ req[h].pc = "apply" /\ UNCHANGED turns /\ row[c].by \in {Nobody, h}
  BY DEF Apply, RequestIs
<1>3. r.pc = "apply" /\ r.turn = req[h].turn /\ r.items = req[h].items /\ r.anchor = req[h].anchor
  BY <1>1, <1>2 DEF Request
<1>4. ~NewTurn(h)
  BY <1>2 DEF NewTurn
<1>5. CASE StatusFor(h, c) = "pending"
  <2> DEFINE s == [ToolStep(req[h].turn, c) EXCEPT !.born = h]
  <2>1. /\ s \in Step /\ s.role = "tool" /\ s.turn = req[h].turn /\ s.call = c /\ s.uses = {}
        /\ s.born = h /\ s.cut = Nobody
    BY <1>1, MadeSteps, Opened
  <2>2. Insert(s) /\ row' = [row EXCEPT ![c].next = "done", ![c].by = h]
    BY <1>5 DEF Apply
  <2>3. row[c].st = "pending"
    <3>1. req[h].pc # "givenUp" /\ h # Nobody
      BY <1>2, ChatAssumption
    <3> QED
      BY <1>1, <1>2, <1>5, <3>1 DEF StatusFor, RowLives, NoRow
  <2> HIDE DEF s, r
  <2> QED
    BY <1>2, <1>3, <2>1, <2>2, <2>3, ApplyOrder
<1>6. CASE StatusFor(h, c) # "pending"
  <2>1. UNCHANGED <<steps, row, turns>>
    BY <1>6 DEF Apply
  <2>2. req'[h] = r
    BY <1>2, RequestsAre
  <2>3. Writer(h)' /\ ~NewTurn(h)'
    BY <1>1, <1>2, <1>3, <2>1, <2>2, WriterGoes
  <2>4. ItemsFit(h)'
    BY <1>1, <1>2, <1>3, <2>1, <2>2 DEF ItemsFit, Stored
  <2>5. ~Generating(h)'
    BY <1>3, <2>2 DEF Generating, Working
  <2>6. r.turn <= turns /\ \A g \in Handlers \ {h} : NewTurn(g) => req[g].turn # r.turn
    BY <1>1, <1>3 DEF TurnsAreNew
  <2> HIDE DEF r
  <2> QED
    BY <1>2, <2>1, <2>3, <2>4, <2>5, <2>6, QuietOrder
<1> QED
  BY <1>5, <1>6

\* Results arrive for calls of a turn that is no new one.
LEMMA ToolResultOrder ==
  ASSUME ChatInv, InOrder, torn = {}, Orderly', NEW h \in Handlers, NEW t \in Turns,
         NEW items \in SUBSET Calls, NEW a \in items, ToolResult(h, t, items, a)
  PROVE  InOrder'
<1> DEFINE r == [Idle EXCEPT !.pc = "apply", !.turn = t, !.items = items, !.anchor = a,
                             !.todo = items \cap PendingOf(h, t), !.open = PendingOf(h, t) # {}]
<1>1. RequestIs(h, r) /\ req[h].pc = "idle" /\ UNCHANGED <<steps, row, turns>> /\ items \subseteq CallsOf(h, t)
  BY DEF ToolResult, RequestIs, chatVars
<1>2. r.pc = "apply" /\ r.turn = t /\ r.items = items /\ r.anchor = a
  BY DEF Idle
<1> HIDE DEF r
<1>3. req'[h] = r
  BY <1>1, RequestsAre
<1>4. /\ \A i \in DOMAIN steps : steps[i].born # h /\ steps[i].cut # h
      /\ \A c \in Calls : row[c].by # h /\ RowHasStep(c)
      /\ TurnsAreNew
  BY <1>1 DEF ChatInv, StepsFit, RestsClean, InOrder
<1>5. \A c \in items : c \in Calls /\ row[c].turn = t /\ row[c].st # "none"
  BY <1>1, <1>4 DEF CallsOf, StatusFor
<1>6. PICK i \in DOMAIN steps : Asks(i, a) /\ steps[i].turn = t
  BY <1>4, <1>5 DEF RowHasStep, NoRow
<1>7. steps[i].role = "assistant"
  BY <1>5, <1>6 DEF ChatInv, StepsFit, AskedOnce
<1>8. t <= turns /\ \A g \in Handlers : NewTurn(g) => req[g].turn # t
  BY <1>4, <1>6, <1>7 DEF TurnsAreNew
<1>9. Writer(h)' /\ ~NewTurn(h)' /\ ~Generating(h)'
  BY <1>1, <1>2, <1>3, <1>4 DEF Writer, NewTurn, Generating, Working
<1>10. ItemsFit(h)'
  BY <1>1, <1>2, <1>3, <1>5 DEF ItemsFit
<1> QED
  BY <1>1, <1>2, <1>8, <1>9, <1>10, QuietOrder

\* The barrier: the request is over, is undone, or goes on with no call open.
LEMMA BarrierOrder ==
  ASSUME ChatInv, InOrder, torn = {}, Orderly', NEW h \in Handlers, Barrier(h)
  PROVE  InOrder'
<1>1. /\ req[h].pc = "apply" /\ UNCHANGED turns /\ StepsTyped /\ req[h] \in Request /\ Writer(h) /\ TurnsAreNew
  BY DEF Barrier, InOrder, ChatInv, TypeOK, StepsTyped
<1>2. CASE Commit(h, <<>>) /\ Done(h)
  <2>1. RequestIs(h, Idle)
    BY <1>2 DEF Done, RequestIs
  <2> QED
    BY <1>1, <1>2, <2>1, IdleIs, CommitOrder
<1>3. CASE Rollback(h) /\ Done(h)
  <2>1. RequestIs(h, Idle)
    BY <1>3 DEF Done, RequestIs
  <2> QED
    BY <1>1, <1>3, <2>1, RollbackOrder
<1>4. CASE /\ GoOn(h) /\ UNCHANGED <<steps, row>> /\ PendingOf(h, req[h].turn) = {}
           /\ ~ (SavedStep(h, req[h].turn, req[h].anchor) /\ req[h].items \subseteq CallsOf(h, req[h].turn))
  <2> DEFINE r == [req[h] EXCEPT !.pc = "build", !.anchor = 0, !.open = FALSE]
  <2>1. RequestIs(h, r) /\ r.pc = "build" /\ r.turn = req[h].turn
    <3>1. req' = [req EXCEPT ![h] = r]
      BY <1>4 DEF GoOn, ChatInv, TypeOK
    <3> QED
      BY <1>1, <3>1 DEF RequestIs, Request
  <2> HIDE DEF r
  <2>2. req'[h] = r /\ View(h)' = View(h)
    BY <1>4, <2>1, RequestsAre DEF View, Visible
  <2>3. Writer(h)' /\ ~NewTurn(h)'
    BY <1>1, <1>4, <2>1, <2>2, WriterGoes
  <2>4. ItemsFit(h)' /\ Generating(h)'
    BY <2>1, <2>2 DEF ItemsFit, Generating, Working
  <2>5. IsLatest(h)
    BY <2>1, <2>2, <2>4 DEF Orderly, IsLatest
  <2>6. Open(View(h)) = {}
    BY <1>1, <1>4, <2>5, LatestIsLast, BarrierCloses
  <2>7. r.turn <= turns /\ \A g \in Handlers \ {h} : NewTurn(g) => req[g].turn # r.turn
    BY <1>1, <2>1 DEF TurnsAreNew
  <2> QED
    BY <1>1, <1>4, <2>1, <2>3, <2>4, <2>6, <2>7, QuietOrder
<1> QED
  BY <1>2, <1>3, <1>4 DEF Barrier

\* A user step is inserted.
LEMMA RunOrder ==
  ASSUME ChatInv, InOrder, Orderly', NEW h \in Handlers, Run(h) \/ EditRun(h)
  PROVE  InOrder'
<1> DEFINE t == IF req[h].pc = "idle" THEN turns + 1 ELSE req[h].turn
           r == IF req[h].pc = "idle" THEN [Idle EXCEPT !.pc = "policy", !.turn = turns + 1]
                ELSE [req[h] EXCEPT !.pc = "policy"]
           s == [UserStep(t) EXCEPT !.born = h]
<1>1. /\ turns \in Nat /\ MaxTurns \in Nat /\ req[h] \in Request /\ TurnsAreNew /\ Writer(h) /\ StepsTyped
      /\ req \in [Handlers -> Request]
  BY ChatAssumption DEF ChatInv, TypeOK, InOrder, StepsTyped
<1>2. \A i \in DOMAIN steps : steps[i].turn \in Nat /\ steps[i].turn <= turns
  BY <1>1, StepFields DEF TurnsAreNew, Turns
<1>3. \A g \in Handlers : req[g].turn \in Nat /\ req[g].turn <= turns
  BY <1>1 DEF TurnsAreNew, Request, Turns
<1>4. /\ t \in Turns /\ turns' \in Nat /\ turns <= turns' /\ t <= turns' /\ UNCHANGED row
      /\ RequestIs(h, r) /\ r.pc = "policy" /\ r.turn = t /\ req[h].pc \in {"idle", "edited"} /\ Insert(s)
      /\ \A i \in DOMAIN steps : steps[i].turn # t
      /\ \A g \in Handlers \ {h} : req[g].turn # t
  <2>1. CASE Run(h)
    <3>1. /\ req[h].pc = "idle" /\ t = turns + 1 /\ turns' = turns + 1 /\ turns < MaxTurns /\ UNCHANGED row
          /\ RequestIs(h, r) /\ Insert(s)
      BY <2>1 DEF Run, RequestIs
    <3>2. r.pc = "policy" /\ r.turn = t
      BY <3>1 DEF Idle
    <3> HIDE DEF t, r, s
    <3>3. t \in Turns /\ turns <= turns' /\ t <= turns' /\ turns' \in Nat
      BY <1>1, <3>1 DEF Turns
    <3>4. \A n \in Nat : n <= turns => n # t
      BY <1>1, <3>1
    <3> QED
      BY <1>2, <1>3, <3>1, <3>2, <3>3, <3>4
  <2>2. CASE EditRun(h)
    <3>1. req[h].pc = "edited" /\ t = req[h].turn /\ turns' = turns /\ UNCHANGED row /\ RequestIs(h, r) /\ Insert(s)
      BY <1>1, <2>2 DEF EditRun, Goto, RequestIs
    <3>2. r.pc = "policy" /\ r.turn = t
      BY <1>1, <3>1 DEF Request
    <3> HIDE DEF t, r, s
    <3>3. NewTurn(h) /\ t \in Turns
      BY <3>1 DEF NewTurn, ChatInv, TypeOK, Serves, Request
    <3>4. \A i \in DOMAIN steps : steps[i].turn = t => steps[i].role = "user" /\ steps[i].born = h
      BY <1>1, <3>1, <3>3 DEF TurnsAreNew
    <3>5. \A i \in DOMAIN steps : steps[i].turn # t
      BY <1>1, <3>1, <3>4 DEF Writer
    <3>6. \A g \in Handlers \ {h} : req[g].turn # t
      BY <1>1, <3>1, <3>3 DEF TurnsAreNew
    <3>7. turns <= turns
      BY <1>1
    <3> QED
      BY <1>1, <1>3, <3>1, <3>2, <3>3, <3>5, <3>6, <3>7
  <2> QED
    BY <2>1, <2>2
<1>5. s \in Step /\ s.role = "user" /\ s.uses = {} /\ s.born = h /\ s.cut = Nobody /\ s.turn = t
  <2> HIDE DEF t
  <2> QED
    BY <1>4, MadeSteps DEF UserStep
<1> HIDE DEF t, r, s
<1> QED
  BY <1>4, <1>5, UserStepOrder

\* A request goes on with what it has written.
LEMMA GoesOrder ==
  ASSUME ChatInv, InOrder, Orderly', NEW h \in Handlers, UNCHANGED <<steps, row, turns>>,
         NEW where, Goto(h, where), \/ req[h].pc = "policy" /\ where = "build"
                                    \/ req[h].pc = "llm" /\ where = "failed"
  PROVE  InOrder'
<1> DEFINE r == [req[h] EXCEPT !.pc = where]
<1>1. req[h] \in Request /\ Writer(h) /\ TurnsAreNew /\ (Generating(h) => Open(View(h)) = {})
  BY DEF ChatInv, TypeOK, InOrder
<1>2. RequestIs(h, r) /\ r.pc = where /\ r.turn = req[h].turn
  <2>1. req' = [req EXCEPT ![h] = r]
    BY DEF Goto, ChatInv, TypeOK
  <2> QED
    BY <1>1, <2>1 DEF RequestIs, Request
<1> HIDE DEF r
<1>3. req'[h] = r
  BY <1>2, RequestsAre
<1>4. NewTurn(h)' <=> NewTurn(h)
  <2>1. CASE req[h].pc = "policy"
    BY <1>2, <1>3, <2>1 DEF NewTurn, IndexesOf
  <2>2. CASE req[h].pc = "llm"
    BY <1>2, <1>3, <2>2 DEF NewTurn
  <2> QED
    BY <2>1, <2>2
<1>5. Writer(h)'
  <2>1. \A i \in DOMAIN steps' : steps'[i].born = h =>
          \/ steps'[i].role = "user" /\ steps'[i].turn = req'[h].turn /\ req'[h].pc \in {"policy", "build"}
          \/ steps'[i].role = "tool" /\ req'[h].pc \in {"apply", "build"}
          \/ steps'[i].role = "assistant" /\ req'[h].pc = "givenUp"
    BY <1>1, <1>2, <1>3 DEF Writer
  <2>2. \A i \in DOMAIN steps' : steps'[i].cut = h => NewTurn(h)'
    BY <1>1, <1>4 DEF Writer
  <2>3. \A c \in Calls : row'[c].by = h =>
          /\ row'[c].next = "none" => NewTurn(h)'
          /\ row'[c].next = "done" => \E k \in ResultsIn(steps', c) : steps'[k].born = h
    BY <1>1, <1>4 DEF Writer
  <2> QED
    BY <2>1, <2>2, <2>3 DEF Writer
<1>6. Generating(h) /\ ItemsFit(h)'
  BY <1>2, <1>3 DEF Generating, Working, ItemsFit
<1>7. r.turn <= turns /\ \A g \in Handlers \ {h} : NewTurn(g) => req[g].turn # r.turn
  BY <1>1, <1>2 DEF TurnsAreNew
<1> QED
  BY <1>1, <1>2, <1>4, <1>5, <1>6, <1>7, QuietOrder

LEMMA ServeOrder ==
  ASSUME ChatInv, InOrder, torn = {}, Orderly', NEW h \in Handlers, Serve(h)
  PROVE  InOrder'
<1> DEFINE t == req[h].turn
<1>1. /\ req[h] \in Request /\ lastCall \in Nat /\ MaxCalls \in Nat /\ req \in [Handlers -> Request]
      /\ Fresh(0) = {} /\ 0 \in Nat
  BY ChatAssumption DEF ChatInv, TypeOK, Fresh
<1>2. req[h].pc # "idle" => t \in Turns
  BY <1>1 DEF ChatInv, Serves, Request
<1>3. Done(h) <=> RequestIs(h, Idle)
  BY DEF Done, RequestIs
<1>4. ASSUME NEW s \in Step, Commit(h, <<s>>), Done(h), UNCHANGED turns, req[h].pc \in {"llm", "failed"},
             s.role = "assistant", s.uses = {}, s.turn = t, s.born = Nobody, s.cut = Nobody
      PROVE  InOrder'
  BY <1>1, <1>3, <1>4, StepOrder
<1>5. CASE Policy(h)
  <2>1. req[h].pc = "policy" /\ UNCHANGED turns
    BY <1>5 DEF Policy
  <2>2. CASE Allowed
    BY <1>5, <2>1, <2>2, GoesOrder DEF Policy
  <2>3. CASE ~Allowed
    BY <1>3, <1>5, <2>1, <2>3, IdleIs, CommitOrder DEF Policy
  <2> QED
    BY <2>2, <2>3
<1>6. CASE Build(h)
  <2> DEFINE r == [req[h] EXCEPT !.pc = "llm"]
  <2>1. req[h].pc = "build" /\ UNCHANGED turns /\ Commit(h, <<>>) /\ RequestIs(h, r)
    BY <1>1, <1>6 DEF Build, Goto, RequestIs
  <2>2. r.pc = "llm" /\ r.turn = req[h].turn
    BY <1>1 DEF Request
  <2> HIDE DEF r
  <2> QED
    BY <2>1, <2>2, CommitOrder
<1>7. CASE Final(h)
  <2>1. req[h].pc = "llm" /\ UNCHANGED turns /\ Done(h)
    BY <1>7 DEF Final
  <2>2. CASE Rollback(h)
    BY <1>3, <2>1, <2>2, RollbackOrder
  <2>3. CASE Commit(h, <<AssistantStep(t, {})>>)
    <3> DEFINE s == AssistantStep(t, {})
    <3>1. s \in Step /\ s.role = "assistant" /\ s.uses = {} /\ s.turn = t /\ s.born = Nobody /\ s.cut = Nobody
      BY <1>2, <2>1, MadeSteps
    <3>2. Commit(h, <<s>>)
      BY <2>3
    <3> HIDE DEF s
    <3> QED
      BY <1>4, <2>1, <3>1, <3>2
  <2> QED
    BY <1>7, <2>2, <2>3 DEF Final
<1>8. CASE Truncated(h)
  <2>1. req[h].pc = "llm" /\ Done(h) /\ UNCHANGED turns
    BY <1>8 DEF Truncated
  <2>2. PICK n \in 0 .. MaxCalls - lastCall :
          Commit(h, <<[AssistantStep(t, Fresh(n)) EXCEPT !.mark = "maxTokens"]>>)
    BY <1>8 DEF Truncated
  <2> DEFINE s == [AssistantStep(t, Fresh(n)) EXCEPT !.mark = "maxTokens"]
  <2>3. n \in Nat /\ Fresh(n) \in SUBSET Calls
    BY <1>1 DEF Fresh, Calls
  <2>4. /\ s \in Step /\ s.role = "assistant" /\ s.uses = Fresh(n) /\ s.turn = t /\ s.mark = "maxTokens"
        /\ s.born = Nobody /\ s.cut = Nobody
    <3>1. t \in Turns
      BY <1>2, <2>1
    <3> HIDE DEF t
    <3> QED
      BY <2>3, <3>1 DEF AssistantStep, UserStep, Step
  <2>5. Commit(h, <<s>>)
    BY <2>2
  <2> HIDE DEF s
  <2> QED
    BY <1>3, <2>1, <2>3, <2>4, <2>5, StepOrder
<1>9. CASE DeviceTools(h)
  <2>1. PICK d \in 0 .. 2, n \in 0 .. 1 : d + n >= 1 /\ AskTools(h, d, n)
    BY <1>9 DEF DeviceTools
  <2> QED
    BY <1>3, <1>9, <2>1, IdleIs, AskToolsOrder DEF DeviceTools
<1>10. CASE ServerTools(h)
  <2> DEFINE where == IF req[h].rounds < MaxRounds THEN "build" ELSE "failed"
             r == [req[h] EXCEPT !.rounds = @ + 1, !.pc = where]
  <2>1. RequestIs(h, r) /\ AskTools(h, 0, 1)
    BY <1>1, <1>10 DEF ServerTools, RequestIs
  <2>2. r.pc = where /\ r.turn = req[h].turn /\ where \in {"build", "failed"}
    BY <1>1 DEF Request
  <2> HIDE DEF r, where
  <2> QED
    BY <2>1, <2>2, AskToolsOrder
<1>12. CASE BadTools(h)
  <2>1. req'[h].pc = "givenUp"
    BY <1>1, <1>12 DEF BadTools, Goto
  <2> QED
    BY <2>1 DEF Orderly, Generating, Working
<1>13. CASE MarkTurnFailed(h)
  <2>1. req[h].pc \in {"llm", "failed"} /\ UNCHANGED turns /\ Done(h)
    BY <1>13 DEF MarkTurnFailed, InOrder, Orderly, Generating, Working
  <2>2. CASE Rollback(h)
    BY <1>3, <2>1, <2>2, RollbackOrder
  <2>3. CASE Commit(h, <<Marked(t, "turnFailed")>>)
    <3> DEFINE s == Marked(t, "turnFailed")
    <3>1. s \in Step /\ s.role = "assistant" /\ s.uses = {} /\ s.turn = t /\ s.born = Nobody /\ s.cut = Nobody
      <4>1. t \in Turns
        BY <1>2, <2>1
      <4> HIDE DEF t
      <4> QED
        BY <4>1 DEF Marked, AssistantStep, UserStep, Step
    <3>2. Commit(h, <<s>>)
      BY <2>3
    <3> HIDE DEF s
    <3> QED
      BY <1>4, <2>1, <3>1, <3>2
  <2> QED
    BY <1>13, <2>2, <2>3 DEF MarkTurnFailed
<1>14. CASE EditRun(h)
  BY <1>14, RunOrder
<1>15. CASE \E c \in Calls : Apply(h, c)
  BY <1>15, ApplyOrders
<1>16. CASE Barrier(h)
  BY <1>16, BarrierOrder
<1> QED
  BY <1>5, <1>6, <1>7, <1>8, <1>9, <1>10, <1>12, <1>13, <1>14, <1>15, <1>16 DEF Serve

-----------------------------------------------------------------------------
(* The order is kept: no call is torn from its step.                       *)

\* Who acts leaves the requests of the others alone.
LEMMA ActsAlone ==
  ASSUME ChatInv, NEW h \in Handlers, Acts(h), NEW g \in Handlers, g # h
  PROVE  req'[g] = req[g]
<1>0. req \in [Handlers -> Request]
  BY DEF ChatInv, TypeOK
<1>1. Done(h) => req'[g] = req[g]
  BY <1>0 DEF Done
<1>2. \A where : Goto(h, where) => req'[g] = req[g]
  BY <1>0 DEF Goto
<1>3. GoOn(h) => req'[g] = req[g]
  BY <1>0 DEF GoOn
<1>4. \/ Abort(h) \/ Final(h) \/ Truncated(h) \/ DeviceTools(h) \/ MarkTurnFailed(h) => req'[g] = req[g]
  BY <1>1 DEF Abort, Final, Truncated, DeviceTools, MarkTurnFailed
<1>5. EditRun(h) \/ Policy(h) \/ Build(h) \/ BadTools(h) => req'[g] = req[g]
  BY <1>1, <1>2 DEF EditRun, Policy, Build, BadTools
<1>6. ServerTools(h) => req'[g] = req[g]
  BY <1>0 DEF ServerTools
<1>7. Barrier(h) => req'[g] = req[g]
  BY <1>1, <1>3 DEF Barrier
<1>8. (\E c \in Calls : Apply(h, c)) => req'[g] = req[g]
  BY <1>0 DEF Apply
<1>9. Run(h) \/ (\E t \in Turns : Edit(h, t)) => req'[g] = req[g]
  BY <1>0 DEF Run, Edit
<1>10. (\E t \in Turns, items \in SUBSET Calls : \E a \in items : ToolResult(h, t, items, a))
         => req'[g] = req[g]
  BY <1>0 DEF ToolResult
<1>11. CutHistory(h) => req'[g] = req[g]
  BY <1>0 DEF CutHistory
<1> QED
  BY <1>4, <1>5, <1>6, <1>7, <1>8, <1>9, <1>10, <1>11 DEF Acts, Arrive, Serve

\* An edit finds the rows of all the calls that it is to delete the steps of.
LEMMA EditSeesAll ==
  ASSUME ChatInv, torn = {}, NEW h \in Handlers, NEW t \in Turns, Edit(h, t)
  PROVE  EditSees(h)'
<1>1. /\ \A i \in DOMAIN steps : steps[i].cut # h
      /\ AskedOnce /\ \A c \in Calls : RowHasStep(c)
  BY DEF Edit, ChatInv, StepsFit, RestsClean
<1>2. /\ UNCHANGED <<steps, row>> /\ req'[h].from = FirstOf(h, t)
      /\ req'[h].items = {c \in Calls : row[c].st # "none" /\ row[c].turn \in TurnsFrom(h, FirstOf(h, t))}
  BY DEF Edit, Idle, ChatInv, TypeOK
<1> SUFFICES ASSUME NEW c \in Calls, NEW i \in DOMAIN steps, Asks(i, c), FirstOf(h, t) <= i,
                    row[c].st # "none"
             PROVE  row[c].turn \in TurnsFrom(h, FirstOf(h, t))
  BY <1>2 DEF EditSees, Asks
<1>3. PICK j \in DOMAIN steps : Asks(j, c) /\ steps[j].turn = row[c].turn /\ steps[j].born = Nobody
  BY <1>1 DEF RowHasStep, NoRow
<1>4. j = i
  BY <1>1, <1>3 DEF AskedOnce
<1>5. i \in StepsFrom(h, FirstOf(h, t))
  BY <1>1, <1>3, <1>4 DEF StepsFrom, Visible
<1> QED
  BY <1>3, <1>4, <1>5 DEF TurnsFrom

\* So it tears none.
LEMMA CutTearsNone ==
  ASSUME ChatInv, torn = {}, NEW h \in Handlers, EditSees(h), CutHistory(h)
  PROVE  torn' = {} /\ EditSees(h)'
<1> DEFINE gone == StepsFrom(h, req[h].from)
           dead == {c \in req[h].items : row[c].st # "none"}
<1>1. req[h].pc = "cutting" /\ req'[h].pc = "edited"
  BY DEF CutHistory, ChatInv, TypeOK, Request
<1>2. \A c \in Calls, i \in gone : c \in steps[i].uses /\ row[c].st # "none" => c \in dead
  BY <1>1 DEF EditSees, StepsFrom, Visible, Asks
<1>3. torn' = torn \cup {c \in Calls \ dead : row[c].st # "none" /\ \E i \in gone : c \in steps[i].uses}
  BY DEF CutHistory
<1> HIDE DEF gone, dead
<1>4. torn' = {}
  BY <1>2, <1>3
<1> QED
  BY <1>1, <1>4 DEF EditSees

\* An edit begins in one way.
LEMMA CuttingBegins ==
  ASSUME ChatInv, NEW h \in Handlers, Arrive(h) \/ Serve(h) \/ Abort(h), req'[h].pc = "cutting"
  PROVE  \E t \in Turns : Edit(h, t)
<1>1. req \in [Handlers -> Request] /\ req[h] \in Request
  BY DEF ChatInv, TypeOK
<1>2. ~Done(h)
  BY IdleIs, <1>1 DEF Done
<1>3. \A where : Goto(h, where) => where = "cutting"
  BY <1>1 DEF Goto, Request
<1>4. ~GoOn(h)
  BY <1>1 DEF GoOn, Request
<1>5. ~Abort(h) /\ ~Final(h) /\ ~Truncated(h) /\ ~DeviceTools(h) /\ ~MarkTurnFailed(h)
  BY <1>2 DEF Abort, Final, Truncated, DeviceTools, MarkTurnFailed
<1>6. ~EditRun(h) /\ ~Policy(h) /\ ~Build(h) /\ ~BadTools(h)
  BY <1>2, <1>3 DEF EditRun, Policy, Build, BadTools
<1>7. ~ServerTools(h)
  BY <1>1 DEF ServerTools, Request
<1>8. ~Barrier(h)
  BY <1>2, <1>4 DEF Barrier
<1>9. \A c \in Calls : ~Apply(h, c)
  BY <1>1 DEF Apply, Request
<1>10. ~Run(h)
  BY <1>1 DEF Run, Idle
<1>11. \A t \in Turns, items \in SUBSET Calls : \A a \in items : ~ToolResult(h, t, items, a)
  <2> SUFFICES ASSUME NEW t \in Turns, NEW items \in SUBSET Calls, NEW a \in items, ToolResult(h, t, items, a)
               PROVE  FALSE
    OBVIOUS
  <2>1. req'[h].pc = "apply"
    BY <1>1 DEF ToolResult, Idle
  <2> QED
    BY <2>1
<1> QED
  BY <1>5, <1>6, <1>7, <1>8, <1>9, <1>10, <1>11 DEF Arrive, Serve

\* What no edit does adds no call to the rows and steps while another is about to cut: the
\* requests beside it only write results.
LEMMA OthersAskNothing ==
  ASSUME ChatInv, Orderly, Orderly', NEW h \in Handlers, NEW g \in Handlers \ {h}, req[g].pc = "cutting",
         (Arrive(h) \/ Serve(h) \/ Abort(h)) /\ UNCHANGED torn
  PROVE  /\ req'[g] = req[g]
         /\ \A i \in DOMAIN steps', c \in Calls : Asks(i, c)' => i \in DOMAIN steps /\ Asks(i, c)
         /\ \A c \in Calls : row'[c].st # "none" => row[c].st # "none"
<1>1. /\ req \in [Handlers -> Request] /\ row \in [Calls -> Row] /\ StepsTyped /\ h # Nobody
      /\ DeletedOnceCommitted /\ \A c \in Calls : RowLives(c)
  BY ChatAssumption DEF ChatInv, TypeOK, StepsFit, StepsTyped
<1>2. req[h].pc \in {"idle", "apply"}
  BY DEF Orderly, Working
<1>3. req'[g] = req[g]
  BY ActsAlone DEF Acts
<1>4. req'[h].pc \in {"idle", "apply"}
  BY <1>3 DEF Orderly, Working
<1>5. ASSUME Rollback(h)
      PROVE  /\ \A i \in DOMAIN steps', c \in Calls : Asks(i, c)' => i \in DOMAIN steps /\ Asks(i, c)
             /\ \A c \in Calls : row'[c].st # "none" => row[c].st # "none"
  <2>1. \A i \in DOMAIN steps' : i \in DOMAIN steps /\ Stays(i)
    <3>1. steps' = RolledBackSteps(h)
      BY <1>5 DEF Rollback
    <3> QED
      BY <1>1, <3>1, RollbackIs
  <2>2. \A c \in Calls : row'[c].st # "none" => row[c].st # "none"
    BY <1>1, <1>5, RolledBackRowIs DEF NoRow
  <2> QED
    BY <2>1, <2>2 DEF Asks, Stays
<1>6. ASSUME Commit(h, <<>>)
      PROVE  /\ \A i \in DOMAIN steps', c \in Calls : Asks(i, c)' => i \in DOMAIN steps /\ Asks(i, c)
             /\ \A c \in Calls : row'[c].st # "none" => row[c].st # "none"
  <2>0. steps' = Committed(h, <<>>) /\ StepsTyped
    BY <1>1, <1>6 DEF Commit
  <2> DEFINE new == <<>>
  <2>1. new \in Seq(Step) /\ Len(new) = 0 /\ steps' = Committed(h, new)
    BY <2>0
  <2> HIDE DEF new
  <2>2. \A i \in DOMAIN steps' : i \in DOMAIN steps /\ Stays(i)
    <3>1. PICK n \in Nat :
            /\ DOMAIN steps' = {i \in DOMAIN steps : steps[i].cut # h} \cup n + 1 .. n + Len(new)
            /\ \A i \in DOMAIN steps : steps[i].cut # h =>
                 /\ i <= n /\ Stays(i) /\ steps'[i].cut = steps[i].cut
                 /\ steps'[i].born = IF steps[i].born = h THEN Nobody ELSE steps[i].born
      BY <2>0, <2>1, CommitIs
    <3>2. n + 1 .. n + Len(new) = {}
      BY <2>1
    <3> QED
      BY <3>1, <3>2
  <2>3. ASSUME NEW c \in Calls, row'[c].st # "none"
        PROVE  row[c].st # "none"
    <3>1. row[c] \in Row /\ row'[c] = CommittedRow(h, c) /\ RowLives(c)
      BY <1>1, <1>6 DEF Commit
    <3> QED
      BY <1>1, <1>2, <2>3, <3>1 DEF CommittedRow, RowLives, NoRow
  <2> QED
    BY <2>2, <2>3 DEF Asks, Stays
<1>7. CASE Abort(h)
  BY <1>3, <1>5, <1>7 DEF Abort
<1>8. CASE Arrive(h)
  <2>1. ~Run(h)
    BY <1>1, <1>4 DEF Run, Idle
  <2>2. \A t \in Turns : ~Edit(h, t)
    BY <1>1, <1>4 DEF Edit, Idle
  <2>3. UNCHANGED <<steps, row>>
    BY <1>8, <2>1, <2>2 DEF Arrive, ToolResult, chatVars
  <2> QED
    BY <1>3, <2>3 DEF Asks
<1>9. CASE Serve(h)
  <2>1. Barrier(h) \/ \E c \in Calls : Apply(h, c)
    <3>1. /\ ~EditRun(h) /\ ~Policy(h) /\ ~Build(h) /\ ~Final(h) /\ ~Truncated(h)
          /\ ~BadTools(h) /\ ~MarkTurnFailed(h)
      BY <1>2 DEF EditRun, Policy, Build, Final, Truncated, BadTools, MarkTurnFailed
    <3>2. ~DeviceTools(h) /\ ~ServerTools(h)
      BY <1>2 DEF DeviceTools, ServerTools, AskTools
    <3> QED
      BY <1>9, <3>1, <3>2 DEF Serve
  <2>2. CASE Barrier(h)
    <3>1. ~GoOn(h)
      BY <1>1, <1>4 DEF GoOn, Request
    <3>2. Commit(h, <<>>) \/ Rollback(h)
      BY <2>2, <3>1 DEF Barrier
    <3> QED
      BY <1>3, <1>5, <1>6, <3>2
  <2>3. CASE \E c \in Calls : Apply(h, c)
    <3>1. PICK c \in Calls : Apply(h, c)
      BY <2>3
    <3>2. CASE StatusFor(h, c) = "pending"
      <4> DEFINE s == [ToolStep(req[h].turn, c) EXCEPT !.born = h]
      <4>1. req[h].pc = "apply" /\ Insert(s) /\ row' = [row EXCEPT ![c].next = "done", ![c].by = h]
        BY <3>1, <3>2 DEF Apply
      <4>2. req[h].turn \in Turns
        BY <4>1 DEF ChatInv, TypeOK, Serves, Request
      <4>3. s \in Step /\ s.uses = {}
        BY <4>2, MadeSteps, Opened
      <4> HIDE DEF s
      <4>4. PICK n \in Nat : /\ DOMAIN steps' = DOMAIN steps \cup {n} /\ n \notin DOMAIN steps
                             /\ \A i \in DOMAIN steps : i < n /\ steps'[i] = steps[i]
                             /\ steps'[n] = s
        BY <1>1, <4>1, <4>3, InsertIs
      <4>5. \A d \in Calls : row'[d].st = row[d].st
        BY <1>1, <4>1 DEF Row
      <4> QED
        BY <1>3, <4>3, <4>4, <4>5 DEF Asks
    <3>3. CASE StatusFor(h, c) # "pending"
      <4>1. UNCHANGED <<steps, row>>
        BY <3>1, <3>3 DEF Apply
      <4> QED
        BY <1>3, <4>1 DEF Asks
    <3> QED
      BY <3>2, <3>3
  <2> QED
    BY <2>1, <2>2, <2>3
<1> QED
  BY <1>7, <1>8, <1>9

LEMMA TearsNone ==
  ASSUME ChatInv, InOrder, NothingTorn, Orderly', NEW h \in Handlers, Acts(h)
  PROVE  NothingTorn'
<1>1. CASE CutHistory(h)
  <2>1. torn' = {} /\ EditSees(h)'
    BY <1>1, CutTearsNone DEF NothingTorn
  <2>2. ASSUME NEW g \in Handlers, g # h
        PROVE  EditSees(g)'
    <3>1. req'[g] = req[g]
      BY <1>1, <2>2, ActsAlone
    <3>2. Working(h)
      BY <1>1 DEF CutHistory, Working
    <3>3. ~Working(g)
      BY <2>2, <3>2 DEF InOrder, Orderly
    <3> QED
      BY <3>1, <3>3 DEF EditSees, Working
  <2> QED
    BY <2>1, <2>2 DEF NothingTorn
<1>2. CASE (Arrive(h) \/ Serve(h) \/ Abort(h)) /\ UNCHANGED torn
  <2>1. EditSees(h)'
    <3>1. CASE req'[h].pc = "cutting"
      BY <1>2, <3>1, CuttingBegins, EditSeesAll DEF NothingTorn
    <3>2. CASE req'[h].pc # "cutting"
      BY <3>2 DEF EditSees
    <3> QED
      BY <3>1, <3>2
  <2>2. ASSUME NEW g \in Handlers, g # h
        PROVE  EditSees(g)'
    <3>0. req'[g] = req[g]
      BY <1>2, <2>2, ActsAlone
    <3>1. CASE req[g].pc = "cutting"
      <4>1. /\ \A i \in DOMAIN steps', c \in Calls : Asks(i, c)' => i \in DOMAIN steps /\ Asks(i, c)
            /\ \A c \in Calls : row'[c].st # "none" => row[c].st # "none"
        BY <1>2, <2>2, <3>1, OthersAskNothing DEF InOrder
      <4>2. EditSees(g)
        BY DEF NothingTorn
      <4> QED
        BY <3>0, <3>1, <4>1, <4>2 DEF EditSees
    <3>2. CASE req[g].pc # "cutting"
      BY <3>0, <3>2 DEF EditSees
    <3> QED
      BY <3>1, <3>2
  <2>3. torn' = {}
    BY <1>2 DEF NothingTorn
  <2> QED
    BY <2>1, <2>2, <2>3 DEF NothingTorn
<1> QED
  BY <1>1, <1>2 DEF Acts

\* The calls of what is stored and seen stay in order as long as requests do.
THEOREM OrderInvariant == Spec => [](ChatInv /\ OrderInv)
<1>1. Init => OrderInv
  <2> SUFFICES ASSUME Init
               PROVE  InOrder /\ NothingTorn
    BY DEF OrderInv
  <2>1. /\ DOMAIN steps = {} /\ turns = 0
        /\ \A h \in Handlers : req[h] = Idle
        /\ \A c \in Calls : row[c] = NoRow
    BY DEF Init
  <2>2. DOMAIN Stored = {} /\ \A h \in Handlers : DOMAIN View(h) = {}
    BY <2>1, StoredIs, SeenIs
  <2>3. \A h \in Handlers : ~NewTurn(h) /\ ~Working(h) /\ ~Generating(h) /\ ItemsFit(h) /\ Nobody # h
    BY <2>1, IdleIs, ChatAssumption DEF NewTurn, Working, Generating, ItemsFit
  <2>4. Tidy(Stored) /\ OpenCalls /\ LatestSpeaks /\ \A h \in Handlers : Tidy(View(h))
    BY <2>2 DEF Tidy, OpenCalls, Open, LatestSpeaks, IndexesOf
  <2>5. TurnsAreNew /\ TruncatedHasNoRow /\ NewUserIsLast
    BY <2>1, <2>3, IdleIs DEF TurnsAreNew, TruncatedHasNoRow, NewUserIsLast
  <2>6. \A h \in Handlers : Writer(h)
    BY <2>1, <2>3 DEF Writer, NoRow
  <2>7. NothingTorn
    BY <2>1, IdleIs DEF NothingTorn, EditSees, Init
  <2> QED
    BY <2>3, <2>4, <2>5, <2>6, <2>7 DEF InOrder, Orderly
<1>2. ChatInv /\ OrderInv /\ [Next]_vars => OrderInv'
  <2>1. ASSUME ChatInv, OrderInv, NEW h \in Handlers, Acts(h), KeepOrder
        PROVE  OrderInv'
    <3> SUFFICES ASSUME orderly'
                 PROVE  InOrder' /\ NothingTorn'
      BY DEF OrderInv
    <3>1. InOrder /\ NothingTorn /\ torn = {} /\ Orderly'
      BY <2>1 DEF OrderInv, KeepOrder, NothingTorn
    <3>7. NothingTorn'
      BY <2>1, <3>1, TearsNone
    <3>8. CASE CutHistory(h)
      BY <2>1, <3>1, <3>7, <3>8, CutOrder
    <3>2. CASE Run(h)
      BY <2>1, <3>1, <3>2, <3>7, RunOrder
    <3>3. CASE \E t \in Turns : Edit(h, t)
      BY <2>1, <3>1, <3>3, <3>7, EditOrder
    <3>4. CASE \E t \in Turns, items \in SUBSET Calls : \E a \in items : ToolResult(h, t, items, a)
      BY <2>1, <3>1, <3>4, <3>7, ToolResultOrder
    <3>5. CASE Serve(h)
      BY <2>1, <3>1, <3>5, <3>7, ServeOrder
    <3>6. CASE Abort(h)
      BY <2>1, <3>1, <3>6, <3>7, RollbackOrder DEF Abort, Done, RequestIs
    <3> QED
      BY <2>1, <3>2, <3>3, <3>4, <3>5, <3>6, <3>8 DEF Acts, Arrive
  <2>2. ASSUME OrderInv, UNCHANGED vars
        PROVE  OrderInv'
    <3>1. UNCHANGED <<steps, row, req, turns, orderly, torn>>
      BY <2>2 DEF vars, chatVars
    <3>2. Stored' = Stored /\ \A h \in Handlers : View(h)' = View(h)
      BY <3>1 DEF Stored, View, Visible
    <3>3. \A h \in Handlers : /\ NewTurn(h)' <=> NewTurn(h)
                              /\ Working(h)' <=> Working(h)
                              /\ Generating(h)' <=> Generating(h)
                              /\ IsLatest(h)' <=> IsLatest(h)
      <4> TAKE h \in Handlers
      <4>1. NewTurn(h)' <=> NewTurn(h)
        BY <3>1 DEF NewTurn
      <4>2. Working(h)' <=> Working(h)
        BY <3>1 DEF Working
      <4>3. Generating(h)' <=> Generating(h)
        BY <3>1, <4>2 DEF Generating
      <4>4. IsLatest(h)' <=> IsLatest(h)
        BY <3>1, <3>2 DEF IsLatest
      <4> QED
        BY <4>1, <4>2, <4>3, <4>4
    <3>4. \A h \in Handlers : (Writer(h)' <=> Writer(h)) /\ (ItemsFit(h)' <=> ItemsFit(h))
      <4> TAKE h \in Handlers
      <4>1. Writer(h)' <=> Writer(h)
        BY <3>1, <3>3 DEF Writer
      <4>2. ItemsFit(h)' <=> ItemsFit(h)
        BY <3>1, <3>2 DEF ItemsFit
      <4> QED
        BY <4>1, <4>2
    <3>5. (Orderly' <=> Orderly) /\ (TurnsAreNew' <=> TurnsAreNew)
      <4>1. Orderly' <=> Orderly
        BY <3>1, <3>3 DEF Orderly
      <4>2. TurnsAreNew' <=> TurnsAreNew
        BY <3>1, <3>3 DEF TurnsAreNew
      <4> QED
        BY <4>1, <4>2
    <3>6. /\ OpenCalls' <=> OpenCalls
          /\ LatestSpeaks' <=> LatestSpeaks
          /\ TruncatedHasNoRow' <=> TruncatedHasNoRow
          /\ NewUserIsLast' <=> NewUserIsLast
      BY <3>1, <3>2 DEF OpenCalls, LatestSpeaks, TruncatedHasNoRow, Asks, NewUserIsLast
    <3>7. InOrder => InOrder'
      BY <3>2, <3>3, <3>4, <3>5, <3>6 DEF InOrder
    <3>8. NothingTorn => NothingTorn'
      BY <3>1 DEF NothingTorn, EditSees, Asks
    <3> QED
      BY <2>2, <3>1, <3>7, <3>8 DEF OrderInv
  <2> QED
    BY <2>1, <2>2 DEF Next
<1> QED
  BY <1>1, <1>2, ChatInvariant, PTL DEF Spec

\* While requests generate one at a time, each for the latest message, and none was given up
\* amid its tool calls, the provider takes all it is sent (the barrier, ADR-025, and the
\* closing of superseded calls, ADR-114).
THEOREM SentIsTaken == Spec => []SentIsAccepted
<1>1. ChatInv /\ OrderInv => SentIsAccepted
  <2> SUFFICES ASSUME ChatInv, InOrder, NEW h \in Handlers, req[h].pc = "build"
               PROVE  Accepted(Input(h))
    BY DEF OrderInv, SentIsAccepted, Sending
  <2>1. Coherent(View(h))
    BY ViewIsCoherent
  <2>2. Tidy(View(h)) /\ Open(View(h)) = {}
    BY DEF InOrder, Generating, Working
  <2>3. \A i \in DOMAIN View(h) : View(h)[i].role \in {"user", "assistant", "tool"}
    <3>1. StepsTyped
      BY DEF ChatInv, TypeOK, StepsTyped
    <3> QED
      BY <3>1, SeenIs, StepFields
  <2> QED
    BY <2>1, <2>2, <2>3, HistoryAccepted DEF Input
<1> QED
  BY <1>1, OrderInvariant, PTL

-----------------------------------------------------------------------------
(* The wallet's promise (WalletPromise): an answer that is paid is a transaction *)
(* of the wallet, every other step leaves it alone.  A step posts one row at     *)
(* most, so that sums over no row and over one are all it takes.                 *)

Start(s) == CHOOSE x \in s : TRUE
IsLoop(f, S, g) ==
  g = [s \in SUBSET S |-> IF s = {} THEN 0 ELSE f[Start(s)] + g[s \ {Start(s)}]]
Loop(f, S) == CHOOSE g : IsLoop(f, S, g)

\* The library's sum takes one element of its index set after the other.
LEMMA SumIsLoop ==
  ASSUME NEW f, NEW S PROVE Wallet!SumFunctionOnSet(f, S) = Loop(f, S)[S]
  BY Zenon DEF Wallet!SumFunctionOnSet, Wallet!FoldFunctionOnSet, Wallet!MapThenFoldSet,
               Loop, IsLoop, Start

\* Whatever computes the sums of the subsets of S, the library's sum does.
LEMMA LoopExists ==
  ASSUME NEW f, NEW S, NEW g, IsLoop(f, S, g)
  PROVE  IsLoop(f, S, Loop(f, S))
  BY Zenon DEF Loop

\* No rows are worth nothing.
LEMMA WorthOfNone == Wallet!Worth({}) = 0
<1> DEFINE f == [s \in {} |-> Wallet!Signed(ledger'[s])]
           g == [s \in SUBSET {} |-> 0]
<1>1. ASSUME NEW d PROVE Wallet!SumFunctionOnSet(d, {}) = 0
  <2>1. IsLoop(d, {}, g)
    BY DEF IsLoop
  <2>2. IsLoop(d, {}, Loop(d, {}))
    <3> HIDE DEF g
    <3> QED
      BY <2>1, LoopExists
  <2>3. Loop(d, {})[{}] = 0
    BY <2>2 DEF IsLoop
  <2> QED
    BY <2>3, SumIsLoop
<1> QED
  BY <1>1 DEF Wallet!Worth, Wallet!SumFunction

\* One row is worth what it says.
LEMMA SumOfOne ==
  ASSUME NEW f, NEW x, f[x] \in Int
  PROVE  Wallet!SumFunctionOnSet(f, {x}) = f[x]
<1> DEFINE g == [s \in SUBSET {x} |-> IF s = {} THEN 0 ELSE f[x]]
<1>1. Start({x}) = x /\ {x} \ {x} = {} /\ SUBSET {x} = {{}, {x}} /\ {x} # {}
  BY DEF Start
<1>2. IsLoop(f, {x}, g)
  <2>1. g = [s \in SUBSET {x} |-> IF s = {} THEN 0 ELSE f[Start(s)] + g[s \ {Start(s)}]]
    <3> SUFFICES ASSUME NEW s \in SUBSET {x}
                 PROVE  g[s] = IF s = {} THEN 0 ELSE f[Start(s)] + g[s \ {Start(s)}]
      OBVIOUS
    <3>1. CASE s = {}
      BY <3>1
    <3>2. CASE s = {x}
      <4>1. g[s \ {Start(s)}] = 0 /\ g[s] = f[x] /\ Start(s) = x /\ s # {}
        BY <1>1, <3>2
      <4>2. f[x] + 0 = f[x]
        OBVIOUS
      <4> HIDE DEF g
      <4> QED
        BY <4>1, <4>2
    <3> QED
      BY <1>1, <3>1, <3>2
  <2> HIDE DEF g
  <2> QED
    BY <2>1, Zenon DEF IsLoop
<1>3. IsLoop(f, {x}, Loop(f, {x}))
  <2> HIDE DEF g
  <2> QED
    BY <1>2, LoopExists
<1>4. Loop(f, {x})[{x}] = f[x] + Loop(f, {x})[{}] /\ Loop(f, {x})[{}] = 0
  BY <1>1, <1>3 DEF IsLoop
<1> QED
  BY <1>4, SumIsLoop

\* The rows a paid answer adds to the ledger, and what they are worth.
LEMMA AnswerPays ==
  ASSUME MoneyTyped, NEW t \in Turns, Pay(t)
  PROVE  Balances'["owner"] = Balances["owner"] + Wallet!Worth(Wallet!NewRows("owner"))
<1> DEFINE q == <<"owner", t>>
           f == [s \in {q} |-> Wallet!Signed(Booked'[s])]
<1>1. Balances'["owner"] = credits' /\ Balances["owner"] = credits /\ credits \in Int
  BY DEF Balances, MoneyTyped
<1>2. Debit # NoDebit /\ Wallet!Signed(Debit) = -1
  BY DEF Debit, NoDebit, Wallet!Signed
<1>3. \A s \in {"owner"} \X Turns :
        /\ Booked[s] = IF s[2] \in ledger THEN Debit ELSE NoDebit
        /\ Booked'[s] = IF s[2] \in ledger' THEN Debit ELSE NoDebit
  BY DEF Booked
<1>4. CASE active /\ t \notin ledger
  <2>1. credits' = credits - 1 /\ ledger' = ledger \cup {t}
    BY <1>4 DEF Pay
  <2>2. q \in {"owner"} \X Turns /\ \A s \in {"owner"} \X Turns : s[2] = t <=> s = q
    OBVIOUS
  <2>3. Wallet!NewRows("owner") = {q}
    <3>1. \A s \in {"owner"} \X Turns : (Booked[s] = NoDebit /\ Booked'[s] # NoDebit) <=> s = q
      BY <1>2, <1>3, <1>4, <2>1, <2>2
    <3> HIDE DEF q
    <3> QED
      BY <2>2, <3>1 DEF Wallet!NewRows
  <2>4. f[q] = -1 /\ -1 \in Int
    BY <1>2, <1>3, <2>1, <2>2
  <2>5. Wallet!SumFunctionOnSet(f, {q}) = -1
    <3> HIDE DEF f, q
    <3> QED
      BY <2>4, SumOfOne
  <2>6. Wallet!Worth({q}) = -1
    BY <2>5 DEF Wallet!Worth, Wallet!SumFunction
  <2> HIDE DEF q
  <2> QED
    BY <1>1, <2>1, <2>3, <2>6
<1>5. CASE ~ (active /\ t \notin ledger)
  <2>1. credits' = credits /\ ledger' = ledger
    BY <1>5 DEF Pay
  <2>2. Wallet!NewRows("owner") = {}
    BY <1>3, <2>1 DEF Wallet!NewRows
  <2> QED
    BY <1>1, <2>1, <2>2, WorthOfNone
<1> QED
  BY <1>4, <1>5

\* An answer that is paid is a transaction of the wallet: it serves the subscriber's call.
LEMMA AnswerIsTransaction ==
  ASSUME MoneyTyped, MoneyTyped', NEW t \in Turns, Pay(t), answered' = answered \cup {t}
  PROVE  Wallet!Next
<1> DEFINE C == IF active THEN {DebitOf(t)} ELSE {}
<1>1. Debit # NoDebit
  BY DEF Debit, NoDebit
<1>2. active' = active /\ (active => ledger' = ledger \cup {t}) /\ (~active => ledger' = ledger)
  BY DEF Pay
<1>3. Succeeded' = Succeeded \cup C
  BY <1>2 DEF Succeeded
<1>4. \A s \in {"owner"} \X Turns :
        /\ Booked[s] = IF s[2] \in ledger THEN Debit ELSE NoDebit
        /\ Booked'[s] = IF s[2] \in ledger' THEN Debit ELSE NoDebit
  BY DEF Booked
<1>5. ASSUME NEW s \in {"owner"} \X Turns
      PROVE  Wallet!Posts(C, s)
  <2>1. CASE s[2] \in ledger \/ s[2] \notin ledger'
    BY <1>2, <1>4, <2>1 DEF Wallet!Posts
  <2>2. CASE s[2] \notin ledger /\ s[2] \in ledger'
    <3>1. active /\ s[2] = t /\ s = <<"owner", t>>
      BY <1>2, <2>2
    <3>2. DebitOf(t) \in C /\ DebitOf(t).slot = s /\ DebitOf(t).entry = Debit
      BY <3>1 DEF DebitOf
    <3> HIDE DEF C
    <3> QED
      BY <1>4, <2>2, <3>2 DEF Wallet!Posts
  <2> QED
    BY <2>1, <2>2
<1>6. ASSUME NEW c \in C
      PROVE  Wallet!Answers(Booked'[c.slot], c)
  <2>1. active /\ c = DebitOf(t) /\ c.slot = <<"owner", t>> /\ c.entry = Debit
    BY <1>6 DEF DebitOf
  <2>2. Booked'[c.slot] = Debit
    BY <1>2, <1>4, <2>1
  <2> QED
    BY <1>1, <2>1, <2>2 DEF Wallet!Answers
<1>7. \A u \in {"owner"} : Balances'[u] = Balances[u] + Wallet!Worth(Wallet!NewRows(u))
  BY AnswerPays
<1>8. Balances' \in [{"owner"} -> Nat]
  BY ChatAssumption DEF Balances, MoneyTyped
<1>9. Booked' \in [{"owner"} \X Turns -> {Debit} \cup {NoDebit}]
  BY DEF Booked
<1>10. C \in SUBSET {DebitOf(x) : x \in Turns}
  OBVIOUS
<1>11. Wallet!Transaction(C)
  <2> HIDE DEF C
  <2> QED
    BY <1>3, <1>5, <1>6, <1>7 DEF Wallet!Transaction, Wallet!Slots
<1> QED
  BY <1>8, <1>9, <1>10, <1>11 DEF Wallet!Next, Wallet!Slots

\* Every step is a transaction of the wallet or leaves it alone.
LEMMA StepPays ==
  ChatInv /\ [Next]_vars => [Wallet!Next]_<<Balances, Booked, Succeeded>>
<1> SUFFICES ASSUME ChatInv, [Next]_vars, ~ UNCHANGED <<Balances, Booked, Succeeded>>
             PROVE  Wallet!Next
  OBVIOUS
<1>1. ~ UNCHANGED moneyVars
  BY DEF moneyVars, Balances, Booked, Succeeded
<1>2. PICK h \in Handlers : Acts(h)
  BY <1>1 DEF Next, vars
<1>3. Final(h)
  BY <1>1, <1>2, NoNewAnswers
<1>4. Pay(req[h].turn) /\ answered' = answered \cup {req[h].turn}
  BY <1>1, <1>3 DEF Final
<1>5. req[h].turn \in Turns
  BY <1>3 DEF ChatInv, Serves, TypeOK, Request, Final
<1>6. MoneyTyped
  BY DEF ChatInv, TypeOK, MoneyTyped
<1>7. MoneyTyped'
  BY <1>2, MoneyKept
<1> QED
  BY <1>4, <1>5, <1>6, <1>7, AnswerIsTransaction

\* Nothing is booked at the start, whatever the wallet holds.
LEMMA NothingBooked == Init => Wallet!Init
<1> SUFFICES ASSUME Init
             PROVE  Wallet!Init
  OBVIOUS
<1>1. Balances \in [{"owner"} -> Nat]
  BY ChatAssumption DEF Init, Balances
<1>2. Booked = [s \in {"owner"} \X Turns |-> NoDebit] /\ Succeeded = {}
  BY DEF Init, Booked, Succeeded
<1> QED
  BY <1>1, <1>2 DEF Wallet!Init, Wallet!Slots

\* Chat turns are calls of the wallet: a subscriber's turn succeeds with one debit under its
\* key, in the same step, and no request of it, late, repeated or dying, debits anything else
\* (_finalize_assistant, _debit).
THEOREM TurnsArePaidByTheWallet == Spec => PaidByTheWallet
  BY ChatInvariant, NothingBooked, StepPays, PTL DEF Spec, PaidByTheWallet, Wallet!Spec

=============================================================================
