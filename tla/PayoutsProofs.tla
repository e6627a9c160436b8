--------------------------- MODULE PayoutsProofs ---------------------------
(***************************************************************************)
(* Proofs about Payouts, for any miners, child chains and amounts and any   *)
(* number of shares, templates and solves: no line of the share log is lost *)
(* unless it is counted or its write failed; rewards add up; and a child    *)
(* block is accounted once unless a read cut its solve in two.              *)
(***************************************************************************)
EXTENDS Payouts, DataLemmas, SequenceTheorems, TLAPS

-----------------------------------------------------------------------------
\* The inductive invariant of the share log: the lines that are written, about to
\* be written and still queued are in the order in which the shares came, each
\* sequence by itself and one behind the other, and none of them is lost.

Line == [n : Nat, user : Users, work : Works]

Ascends(s) == \A i, j \in 1 .. Len(s) : i < j => s[i].n < s[j].n
Behind(s, t) == \A i \in 1 .. Len(s), j \in 1 .. Len(t) : s[i].n < t[j].n
UpTo(s, m) == \A i \in 1 .. Len(s) : s[i].n <= m
NoneOf(s, S) == \A i \in 1 .. Len(s) : s[i] \notin S
Joined(r, s, t) == \A i \in 1 .. Len(r) : \/ i \in 1 .. Len(s) /\ r[i] = s[i]
                                          \/ i - Len(s) \in 1 .. Len(t) /\ r[i] = t[i - Len(s)]
CutAt(s, k, a, b) == /\ \A i \in 1 .. Len(a) : a[i] = s[i] /\ i \in 1 .. Len(s)
                     /\ \A i \in 1 .. Len(b) : b[i] = s[k + i] /\ k + i \in 1 .. Len(s)
Added(T, S, s) == \A line \in T : line \in S \/ \E i \in 1 .. Len(s) : line = s[i]

LogType ==
  /\ logged \in Nat /\ dropped \in Nat
  /\ queue \in Seq(Line) /\ lines \in Seq(Line) /\ file \in Seq(Line)
  /\ lost \in SUBSET Line /\ IsFiniteSet(lost)
LinesInOrder ==
  /\ Ascends(file) /\ Ascends(lines) /\ Ascends(queue)
  /\ Behind(file, lines) /\ Behind(file, queue) /\ Behind(lines, queue)
  /\ UpTo(file, logged) /\ UpTo(lines, logged) /\ UpTo(queue, logged)
  /\ \A line \in lost : line.n <= logged
NoneIsLost == NoneOf(file, lost) /\ NoneOf(lines, lost) /\ NoneOf(queue, lost)
LinesAddUp == Len(file) + Len(lines) + Len(queue) + Cardinality(lost) + dropped = logged

LogInv == LogType /\ LinesInOrder /\ NoneIsLost /\ LinesAddUp

-----------------------------------------------------------------------------
\* Sequences of lines

\* So many lines as there are are different.
LEMMA LinesOf ==
  ASSUME NEW s \in Seq(Line), Ascends(s)
  PROVE  IsFiniteSet(ToSet(s)) /\ Cardinality(ToSet(s)) = Len(s)
<1>1. Len(s) \in Nat /\ s \in [1 .. Len(s) -> Line]
  OBVIOUS
<1>2. ToSet(s) = {s[i] : i \in 1 .. Len(s)}
  BY <1>1 DEF ToSet
<1>3. PICK f : f = [i \in 1 .. Len(s) |-> s[i]]
  OBVIOUS
<1>4. f \in [1 .. Len(s) -> ToSet(s)] /\ \A i \in 1 .. Len(s) : f[i] = s[i]
  BY <1>2, <1>3
<1>5. \A i, j \in 1 .. Len(s) : f[i] = f[j] => i = j
  <2>1. \A i \in 1 .. Len(s) : s[i].n \in Nat
    BY <1>1 DEF Line
  <2> QED
    BY <1>1, <1>4, <2>1 DEF Ascends
<1>6. \A line \in ToSet(s) : \E i \in 1 .. Len(s) : f[i] = line
  BY <1>2, <1>4
<1>7. f \in Bijection(1 .. Len(s), ToSet(s))
  BY <1>4, <1>5, <1>6 DEF Bijection, Injection, Surjection, IsInjective
<1>8. IsFiniteSet(1 .. Len(s)) /\ Cardinality(1 .. Len(s)) = Len(s)
  BY <1>1, FS_Interval
<1> QED
  BY <1>7, <1>8, FS_Bijection, FS_Surjection DEF Bijection

LEMMA Cutting ==
  ASSUME NEW s \in Seq(Line), NEW k \in Nat, k <= Len(s), Ascends(s),
         NEW a, a = SubSeq(s, 1, k), NEW b, b = SubSeq(s, k + 1, Len(s))
  PROVE  /\ a \in Seq(Line) /\ b \in Seq(Line) /\ Len(a) = k /\ Len(b) = Len(s) - k
         /\ CutAt(s, k, a, b) /\ Ascends(a) /\ Ascends(b) /\ Behind(a, b)
<1>1. Len(s) \in Nat /\ \A i \in 1 .. Len(s) : s[i] \in Line
  OBVIOUS
<1>2. /\ a \in Seq(Line) /\ Len(a) = k /\ \A i \in 1 .. Len(a) : a[i] = s[i] /\ i \in 1 .. Len(s)
  <2>1. \A i \in 1 .. k : s[i] \in Line
    BY <1>1
  <2> QED
    BY <1>1, <2>1, SubSeqProperties
<1>3. /\ b \in Seq(Line) /\ Len(b) = Len(s) - k
      /\ \A i \in 1 .. Len(b) : b[i] = s[k + i] /\ k + i \in 1 .. Len(s)
  <2>1. \A i \in k + 1 .. Len(s) : s[i] \in Line
    BY <1>1
  <2>2. /\ b \in Seq(Line) /\ Len(b) = IF k + 1 <= Len(s) THEN Len(s) - (k + 1) + 1 ELSE 0
        /\ \A i \in 1 .. Len(s) - (k + 1) + 1 : b[i] = s[k + 1 + i - 1]
    BY <1>1, <2>1, SubSeqProperties
  <2>3. Len(b) = Len(s) - k
    BY <1>1, <2>2
  <2>4. \A i \in 1 .. Len(b) : k + 1 + i - 1 = k + i /\ k + i \in 1 .. Len(s)
    BY <1>1, <2>3
  <2> QED
    BY <1>1, <2>2, <2>3, <2>4
<1>4. Ascends(a)
  BY <1>2 DEF Ascends
<1>5. Ascends(b)
  BY <1>3 DEF Ascends
<1>6. Behind(a, b)
  BY <1>2, <1>3 DEF Ascends, Behind
<1> QED
  BY <1>2, <1>3, <1>4, <1>5, <1>6 DEF CutAt

LEMMA NoLine ==
  /\ <<>> \in Seq(Line) /\ Len(<<>>) = 0 /\ Ascends(<<>>)
  /\ \A s \in Seq(Line) : Behind(<<>>, s) /\ Behind(s, <<>>)
  /\ \A m : UpTo(<<>>, m) /\ NoneOf(<<>>, m)
<1>1. <<>> \in Seq(Line) /\ Len(<<>>) = 0
  BY EmptySeq
<1>2. 1 .. 0 = {}
  OBVIOUS
<1> QED
  BY <1>1, <1>2 DEF Ascends, Behind, UpTo, NoneOf

\* A queue with one line more, the latest, and one without its oldest.
LEMMA Adding ==
  ASSUME NEW q \in Seq(Line), Ascends(q), NEW line \in Line,
         \A i \in 1 .. Len(q) : q[i].n < line.n, NEW r, r = Append(q, line)
  PROVE  /\ r \in Seq(Line) /\ Len(r) = Len(q) + 1 /\ Ascends(r) /\ UpTo(r, line.n)
         /\ \A i \in 1 .. Len(r) : r[i] = line \/ (i \in 1 .. Len(q) /\ r[i] = q[i])
<1>1. Len(q) \in Nat /\ \A i \in 1 .. Len(q) : q[i] \in Line /\ q[i].n \in Nat
  <2>1. Len(q) \in Nat /\ \A i \in 1 .. Len(q) : q[i] \in Line
    OBVIOUS
  <2> QED
    BY <2>1 DEF Line
<1>2. /\ r \in Seq(Line) /\ Len(r) = Len(q) + 1
      /\ \A i \in 1 .. Len(q) : r[i] = q[i]
      /\ r[Len(q) + 1] = line
  BY AppendProperties
<1>3. \A i \in 1 .. Len(r) : i \in 1 .. Len(q) \/ i = Len(q) + 1
  BY <1>1, <1>2
<1>4. Ascends(r)
  <2> SUFFICES ASSUME NEW i \in 1 .. Len(r), NEW j \in 1 .. Len(r), i < j
               PROVE  r[i].n < r[j].n
    BY DEF Ascends
  <2>1. i \in 1 .. Len(q) /\ r[i] = q[i] /\ q[i].n < line.n
    BY <1>1, <1>2, <1>3
  <2>2. CASE j \in 1 .. Len(q)
    BY <1>2, <2>1, <2>2 DEF Ascends
  <2>3. CASE j = Len(q) + 1
    BY <1>1, <1>2, <2>1, <2>3
  <2> QED
    BY <1>3, <2>2, <2>3
<1>5. UpTo(r, line.n)
  <2> SUFFICES ASSUME NEW i \in 1 .. Len(r)
               PROVE  r[i].n <= line.n
    BY DEF UpTo
  <2>1. line.n \in Nat
    BY DEF Line
  <2>2. CASE i \in 1 .. Len(q)
    BY <1>1, <1>2, <2>1, <2>2
  <2>3. CASE i = Len(q) + 1
    BY <1>2, <2>1, <2>3
  <2> QED
    BY <1>3, <2>2, <2>3
<1> QED
  BY <1>2, <1>3, <1>4, <1>5

LEMMA Dropping ==
  ASSUME NEW q \in Seq(Line), q # <<>>, Ascends(q), NEW m \in Nat, UpTo(q, m),
         NEW t, t = Tail(q)
  PROVE  /\ t \in Seq(Line) /\ Len(t) = Len(q) - 1 /\ Ascends(t) /\ UpTo(t, m)
         /\ \A i \in 1 .. Len(t) : i + 1 \in 1 .. Len(q) /\ t[i] = q[i + 1]
<1>1. Len(q) \in Nat
  OBVIOUS
<1>2. /\ t \in Seq(Line) /\ Len(t) = Len(q) - 1
      /\ \A i \in 1 .. Len(t) : t[i] = q[i + 1]
  BY HeadTailProperties
<1>3. \A i \in 1 .. Len(t) : i + 1 \in 1 .. Len(q)
  BY <1>1, <1>2
<1>4. Ascends(t)
  <2> SUFFICES ASSUME NEW i \in 1 .. Len(t), NEW j \in 1 .. Len(t), i < j
               PROVE  t[i].n < t[j].n
    BY DEF Ascends
  <2>1. i + 1 < j + 1
    OBVIOUS
  <2> QED
    BY <1>2, <1>3, <2>1 DEF Ascends
<1>5. UpTo(t, m)
  BY <1>2, <1>3 DEF UpTo
<1> QED
  BY <1>2, <1>3, <1>4, <1>5

\* One sequence behind another.
LEMMA Joining ==
  ASSUME NEW s \in Seq(Line), NEW t \in Seq(Line), Ascends(s), Ascends(t), Behind(s, t),
         NEW r, r = s \o t
  PROVE  r \in Seq(Line) /\ Len(r) = Len(s) + Len(t) /\ Ascends(r) /\ Joined(r, s, t)
<1>1. Len(s) \in Nat /\ Len(t) \in Nat
  OBVIOUS
<1>2. /\ r \in Seq(Line) /\ Len(r) = Len(s) + Len(t)
      /\ \A i \in 1 .. Len(r) : r[i] = IF i <= Len(s) THEN s[i] ELSE t[i - Len(s)]
  BY ConcatProperties
<1>3. \A i \in 1 .. Len(r) : \/ i <= Len(s) /\ i \in 1 .. Len(s)
                             \/ ~ i <= Len(s) /\ i - Len(s) \in 1 .. Len(t)
  BY <1>1, <1>2
<1>4. Ascends(r)
  <2> SUFFICES ASSUME NEW i \in 1 .. Len(r), NEW j \in 1 .. Len(r), i < j
               PROVE  r[i].n < r[j].n
    BY DEF Ascends
  <2>1. CASE i <= Len(s) /\ j <= Len(s)
    <3>1. r[i] = s[i] /\ r[j] = s[j] /\ i \in 1 .. Len(s) /\ j \in 1 .. Len(s)
      BY <1>2, <1>3, <2>1
    <3> QED
      BY <3>1 DEF Ascends
  <2>2. CASE i <= Len(s) /\ ~ j <= Len(s)
    <3>1. r[i] = s[i] /\ r[j] = t[j - Len(s)] /\ i \in 1 .. Len(s) /\ j - Len(s) \in 1 .. Len(t)
      BY <1>2, <1>3, <2>2
    <3> QED
      BY <3>1 DEF Behind
  <2>3. CASE ~ i <= Len(s) /\ ~ j <= Len(s)
    <3>1. /\ r[i] = t[i - Len(s)] /\ r[j] = t[j - Len(s)]
          /\ i - Len(s) \in 1 .. Len(t) /\ j - Len(s) \in 1 .. Len(t)
      BY <1>2, <1>3, <2>3
    <3>2. i - Len(s) < j - Len(s)
      BY <1>1
    <3> QED
      BY <3>1, <3>2 DEF Ascends
  <2>4. i <= Len(s) \/ ~ j <= Len(s)
    BY <1>1
  <2> QED
    BY <2>1, <2>2, <2>3, <2>4
<1>5. Joined(r, s, t)
  BY <1>2, <1>3 DEF Joined
<1> QED
  BY <1>2, <1>4, <1>5

\* Lines that are lost and lines that were not are different.
LEMMA Losing ==
  ASSUME NEW S \in SUBSET Line, IsFiniteSet(S), NEW s \in Seq(Line), Ascends(s), NoneOf(s, S),
         NEW T, T = S \cup ToSet(s)
  PROVE  /\ T \in SUBSET Line /\ IsFiniteSet(T)
         /\ Cardinality(T) = Cardinality(S) + Len(s) /\ Added(T, S, s)
<1>1. Len(s) \in Nat /\ DOMAIN s = 1 .. Len(s) /\ \A i \in 1 .. Len(s) : s[i] \in Line
  OBVIOUS
<1>2. IsFiniteSet(ToSet(s)) /\ Cardinality(ToSet(s)) = Len(s)
  BY LinesOf
<1>3. \A line \in ToSet(s) : line \in Line /\ \E i \in 1 .. Len(s) : line = s[i]
  BY <1>1 DEF ToSet
<1>4. S \cap ToSet(s) = {}
  BY <1>3 DEF NoneOf
<1>5. Cardinality({}) = 0 /\ Cardinality(S) \in Nat
  BY FS_EmptySet, FS_CardinalityType
<1>6. IsFiniteSet(T) /\ Cardinality(T) = Cardinality(S) + Len(s) - 0
  <2>1. PICK U : U = ToSet(s)
    OBVIOUS
  <2>2. /\ IsFiniteSet(S \cup U)
        /\ Cardinality(S \cup U) = Cardinality(S) + Cardinality(U) - Cardinality(S \cap U)
    BY <1>2, <2>1, FS_Union
  <2>3. Cardinality(U) = Len(s) /\ S \cap U = {} /\ T = S \cup U
    BY <1>2, <1>4, <2>1
  <2>4. Cardinality(S \cap U) = 0
    BY <1>5, <2>3
  <2> QED
    BY <2>2, <2>3, <2>4
<1>7. Cardinality(T) = Cardinality(S) + Len(s)
  BY <1>1, <1>5, <1>6
<1>8. \A line \in T : line \in S \/ (line \in Line /\ \E i \in 1 .. Len(s) : line = s[i])
  BY <1>3
<1>9. T \in SUBSET Line
  BY <1>8
<1> QED
  BY <1>6, <1>7, <1>8, <1>9 DEF Added

-----------------------------------------------------------------------------
\* The steps

LEMMA LogInit == Init => LogInv
<1> SUFFICES ASSUME Init PROVE LogInv
  OBVIOUS
<1>1. logged = 0 /\ queue = <<>> /\ lines = <<>> /\ dropped = 0 /\ lost = {} /\ file = <<>>
  BY DEF Init
<1>2. IsFiniteSet(lost) /\ Cardinality(lost) = 0
  BY <1>1, FS_EmptySet
<1>3. LogType
  BY <1>1, <1>2, NoLine DEF LogType
<1>4. LinesInOrder
  BY <1>1, NoLine DEF LinesInOrder
<1>5. NoneIsLost
  BY <1>1, NoLine DEF NoneIsLost
<1>6. LinesAddUp
  BY <1>1, <1>2, NoLine DEF LinesAddUp
<1> QED
  BY <1>3, <1>4, <1>5, <1>6 DEF LogInv

LEMMA LogStays == LogInv /\ UNCHANGED logVars => LogInv'
BY DEF LogInv, logVars, LogType, LinesInOrder, NoneIsLost, LinesAddUp,
       Ascends, Behind, UpTo, NoneOf

\* A share comes: its line is the latest; with a full queue the oldest goes.
LEMMA LogShareKeeps ==
  ASSUME MaxQueue \in Nat \ {0}, LogInv,
         NEW user \in Users, NEW work \in Works, LogShare(user, work)
  PROVE  LogInv'
<1> DEFINE line == [n |-> logged + 1, user |-> user, work |-> work]
<1>1. /\ LogType /\ LinesInOrder /\ NoneIsLost /\ LinesAddUp
      /\ logged \in Nat /\ dropped \in Nat /\ queue \in Seq(Line)
      /\ Len(queue) \in Nat /\ Len(lines) \in Nat /\ Len(file) \in Nat /\ Cardinality(lost) \in Nat
  BY FS_CardinalityType DEF LogInv, LogType
<1>2. logged' = logged + 1 /\ QueueShare(line) /\ lines' = lines /\ lost' = lost /\ file' = file
  BY DEF LogShare, chainVars, dashVars
<1>3. PICK new : new = line
  OBVIOUS
<1>4. new \in Line /\ new.n = logged + 1
  BY <1>1, <1>3 DEF Line
\* q: the queue without the line it drops.
<1>5. PICK q : q = IF Len(queue) >= MaxQueue THEN Tail(queue) ELSE queue
  OBVIOUS
<1>6. /\ q \in Seq(Line) /\ Ascends(q) /\ UpTo(q, logged)
      /\ queue' = Append(q, new) /\ Len(q) + dropped' = Len(queue) + dropped /\ dropped' \in Nat
      /\ \A i \in 1 .. Len(q) : \E j \in 1 .. Len(queue) : q[i] = queue[j]
  <2>1. CASE Len(queue) >= MaxQueue
    <3>1. queue # <<>>
      BY <1>1, <2>1, NoLine
    <3>2. q = Tail(queue) /\ queue' = Append(q, new) /\ dropped' = dropped + 1
      BY <1>2, <1>3, <1>5, <2>1 DEF QueueShare
    <3>3. /\ q \in Seq(Line) /\ Len(q) = Len(queue) - 1 /\ Ascends(q) /\ UpTo(q, logged)
          /\ \A i \in 1 .. Len(q) : i + 1 \in 1 .. Len(queue) /\ q[i] = queue[i + 1]
      BY <1>1, <3>1, <3>2, Dropping, ZenonT(30) DEF LinesInOrder
    <3>4. Len(q) + dropped' = Len(queue) + dropped /\ dropped' \in Nat
      <4>1. Len(q) = Len(queue) - 1 /\ dropped' = dropped + 1
        BY <3>2, <3>3
      <4>2. Len(queue) \in Nat /\ dropped \in Nat
        BY <1>1
      <4> QED
        BY <4>1, <4>2
    <3> QED
      BY <3>2, <3>3, <3>4
  <2>2. CASE ~ Len(queue) >= MaxQueue
    <3>1. q = queue /\ queue' = Append(q, new) /\ dropped' = dropped
      BY <1>2, <1>3, <1>5, <2>2 DEF QueueShare
    <3> QED
      BY <1>1, <3>1 DEF LinesInOrder
  <2> QED
    BY <2>1, <2>2
<1>7. PICK r : r = Append(q, new)
  OBVIOUS
<1>8. /\ queue' = r /\ r \in Seq(Line) /\ Len(r) = Len(q) + 1 /\ Ascends(r) /\ UpTo(r, logged + 1)
      /\ \A i \in 1 .. Len(r) : r[i] = new \/ (i \in 1 .. Len(q) /\ r[i] = q[i])
  <2>1. queue' = r
    BY <1>6, <1>7
  <2>2. q \in Seq(Line) /\ Ascends(q) /\ UpTo(q, logged) /\ logged \in Nat
    BY <1>1, <1>6
  <2>3. new \in Line /\ new.n = logged + 1
    BY <1>4
  <2>4. \A i \in 1 .. Len(q) : q[i].n < new.n
    <3>1. \A i \in 1 .. Len(q) : q[i] \in Line
      BY <2>2
    <3>2. \A x \in Line : x.n \in Nat
      BY DEF Line
    <3> QED
      BY <2>2, <2>3, <3>1, <3>2 DEF UpTo
  <2>5. /\ r \in Seq(Line) /\ Len(r) = Len(q) + 1 /\ Ascends(r) /\ UpTo(r, new.n)
        /\ \A i \in 1 .. Len(r) : r[i] = new \/ (i \in 1 .. Len(q) /\ r[i] = q[i])
    BY <1>7, <2>2, <2>3, <2>4, Adding
  <2> QED
    BY <2>1, <2>3, <2>5
<1>9. \A i \in 1 .. Len(r) : r[i] = new \/ \E j \in 1 .. Len(queue) : r[i] = queue[j]
  BY <1>6, <1>8
<1>10. LogType'
  BY <1>1, <1>2, <1>6, <1>8 DEF LogType
<1>11. LinesInOrder'
  <2>1. \A i \in 1 .. Len(file) : file[i] \in Line /\ file[i].n <= logged
    BY <1>1 DEF LogType, LinesInOrder, UpTo
  <2>2. \A i \in 1 .. Len(lines) : lines[i] \in Line /\ lines[i].n <= logged
    BY <1>1 DEF LogType, LinesInOrder, UpTo
  <2>3. \A x \in Line : x.n \in Nat
    BY DEF Line
  <2>4. Behind(file, r)
    <3> SUFFICES ASSUME NEW i \in 1 .. Len(file), NEW j \in 1 .. Len(r)
                 PROVE  file[i].n < r[j].n
      BY DEF Behind
    <3>1. CASE r[j] = new
      BY <1>1, <1>4, <2>1, <2>3, <3>1
    <3>2. CASE \E k \in 1 .. Len(queue) : r[j] = queue[k]
      BY <1>1, <3>2 DEF Behind, LinesInOrder
    <3> QED
      BY <1>9, <3>1, <3>2
  <2>5. Behind(lines, r)
    <3> SUFFICES ASSUME NEW i \in 1 .. Len(lines), NEW j \in 1 .. Len(r)
                 PROVE  lines[i].n < r[j].n
      BY DEF Behind
    <3>1. CASE r[j] = new
      BY <1>1, <1>4, <2>2, <2>3, <3>1
    <3>2. CASE \E k \in 1 .. Len(queue) : r[j] = queue[k]
      BY <1>1, <3>2 DEF Behind, LinesInOrder
    <3> QED
      BY <1>9, <3>1, <3>2
  <2>6. UpTo(file, logged + 1) /\ UpTo(lines, logged + 1)
    BY <1>1, <2>1, <2>2, <2>3 DEF UpTo
  <2>7. \A x \in lost : x.n <= logged + 1
    BY <1>1, <2>3 DEF LinesInOrder, LogType
  <2>8. Ascends(file) /\ Ascends(lines) /\ Behind(file, lines)
    BY <1>1 DEF LinesInOrder
  <2> QED
    BY <1>2, <1>8, <2>4, <2>5, <2>6, <2>7, <2>8 DEF LinesInOrder, Ascends, Behind, UpTo
<1>12. NoneIsLost'
  <2>1. new \notin lost
    BY <1>1, <1>4 DEF LinesInOrder
  <2>2. NoneOf(r, lost)
    BY <1>1, <1>9, <2>1 DEF NoneOf, NoneIsLost
  <2> QED
    BY <1>1, <1>2, <1>8, <2>2 DEF NoneOf, NoneIsLost
<1>13. LinesAddUp'
  <2>1. Len(queue') = Len(q) + 1 /\ Len(q) \in Nat
    BY <1>6, <1>8
  <2>2. Len(file) + Len(lines) + Len(queue) + Cardinality(lost) + dropped = logged
    BY <1>1 DEF LinesAddUp
  <2>3. Len(file) + Len(lines) + Len(queue') + Cardinality(lost) + dropped' = logged + 1
    <3>1. Len(q) + dropped' = Len(queue) + dropped /\ dropped' \in Nat
      BY <1>6
    <3>2. PICK f, l, u, c, v, w : /\ f = Len(file) /\ l = Len(lines) /\ u = Len(queue)
                                  /\ c = Cardinality(lost) /\ v = Len(q) /\ w = Len(queue')
      OBVIOUS
    <3>3. f \in Nat /\ l \in Nat /\ u \in Nat /\ c \in Nat /\ dropped \in Nat /\ logged \in Nat
      BY <1>1, <3>2
    <3>4. w = v + 1 /\ v \in Nat /\ w \in Nat /\ f + l + u + c + dropped = logged
      BY <2>1, <2>2, <3>2
    <3>5. v + dropped' = u + dropped /\ dropped' \in Nat
      BY <3>1, <3>2
    <3>6. PICK d, e, g : d = dropped /\ e = dropped' /\ g = logged
      OBVIOUS
    <3>7. d \in Nat /\ e \in Nat /\ g \in Nat /\ f + l + u + c + d = g /\ v + e = u + d
      BY <3>3, <3>4, <3>5, <3>6
    <3>8. e = u + d - v
      BY <3>3, <3>4, <3>7
    <3>9. f + l + (v + 1) + c + (u + d - v) = (f + l + u + c + d) + 1
      BY <3>3, <3>4, <3>7
    <3>10. f + l + w + c + e = g + 1
      BY <3>4, <3>7, <3>8, <3>9
    <3> QED
      BY <3>2, <3>6, <3>10
  <2> QED
    BY <1>2, <2>3 DEF LinesAddUp
<1> QED
  BY <1>10, <1>11, <1>12, <1>13 DEF LogInv

LEMMA FlushKeeps ==
  ASSUME LogInv, Flush
  PROVE  LogInv'
<1>1. /\ LogType /\ LinesInOrder /\ NoneIsLost /\ LinesAddUp
      /\ logged \in Nat /\ dropped \in Nat /\ queue \in Seq(Line) /\ file \in Seq(Line)
      /\ Len(queue) \in Nat /\ Len(file) \in Nat /\ Cardinality(lost) \in Nat
  BY FS_CardinalityType DEF LogInv, LogType
<1>2. /\ lines = <<>> /\ lines' = queue /\ queue' = <<>>
      /\ logged' = logged /\ dropped' = dropped /\ lost' = lost /\ file' = file
  BY DEF Flush, TakeQueue, chainVars, dashVars
<1>3. LogType'
  BY <1>1, <1>2, NoLine DEF LogType
<1>4. LinesInOrder'
  <2>1. /\ Ascends(<<>>) /\ Behind(file, <<>>) /\ Behind(queue, <<>>) /\ UpTo(<<>>, logged)
    BY <1>1, NoLine
  <2> QED
    BY <1>1, <1>2, <2>1 DEF LinesInOrder, Ascends, Behind, UpTo
<1>5. NoneIsLost'
  <2>1. NoneOf(<<>>, lost)
    BY NoLine
  <2> QED
    BY <1>1, <1>2, <2>1 DEF NoneIsLost, NoneOf
<1>6. LinesAddUp'
  BY <1>1, <1>2, NoLine DEF LinesAddUp
<1> QED
  BY <1>3, <1>4, <1>5, <1>6 DEF LogInv

\* The first k lines are written, in their order; those behind are lost.
LEMMA WriteKeeps ==
  ASSUME LogInv, NEW k \in Nat, Write(k)
  PROVE  LogInv'
<1>1. /\ LogType /\ LinesInOrder /\ NoneIsLost /\ LinesAddUp
      /\ logged \in Nat /\ dropped \in Nat /\ queue \in Seq(Line) /\ file \in Seq(Line)
      /\ lines \in Seq(Line) /\ lost \in SUBSET Line /\ IsFiniteSet(lost)
      /\ Len(queue) \in Nat /\ Len(file) \in Nat /\ Len(lines) \in Nat /\ Cardinality(lost) \in Nat
  BY FS_CardinalityType DEF LogInv, LogType
<1>2. PICK a, b : a = SubSeq(lines, 1, k) /\ b = SubSeq(lines, k + 1, Len(lines))
  OBVIOUS
<1>3. /\ file' = file \o a /\ lost' = lost \cup ToSet(b) /\ lines' = <<>> /\ k \in 0 .. Len(lines)
      /\ logged' = logged /\ queue' = queue /\ dropped' = dropped
  BY <1>2 DEF Write, chainVars, dashVars
<1>4. Ascends(lines) /\ Ascends(file) /\ Ascends(queue)
  BY <1>1 DEF LinesInOrder
<1>5. PICK s : s = lines
  OBVIOUS
<1>6. s \in Seq(Line) /\ k <= Len(s) /\ Ascends(s)
      /\ a = SubSeq(s, 1, k) /\ b = SubSeq(s, k + 1, Len(s))
  BY <1>1, <1>2, <1>3, <1>4, <1>5
<1>7. /\ a \in Seq(Line) /\ b \in Seq(Line) /\ Len(a) = k /\ Len(b) = Len(s) - k
      /\ CutAt(s, k, a, b) /\ Ascends(a) /\ Ascends(b) /\ Behind(a, b)
  BY <1>6, Cutting, ZenonT(60)
<1>8. /\ \A i \in 1 .. Len(a) : \E j \in 1 .. Len(lines) : a[i] = lines[j]
      /\ \A i \in 1 .. Len(b) : \E j \in 1 .. Len(lines) : b[i] = lines[j]
  BY <1>5, <1>7 DEF CutAt
<1>9. /\ Behind(file, a) /\ Behind(file, b) /\ Behind(a, queue) /\ Behind(b, queue)
      /\ UpTo(a, logged) /\ UpTo(b, logged) /\ NoneOf(a, lost) /\ NoneOf(b, lost)
  <2>1. /\ Behind(file, lines) /\ Behind(lines, queue) /\ UpTo(lines, logged) /\ NoneOf(lines, lost)
    BY <1>1 DEF LinesInOrder, NoneIsLost
  <2>2. Behind(file, a) /\ Behind(file, b)
    BY <1>8, <2>1 DEF Behind
  <2>3. Behind(a, queue) /\ Behind(b, queue)
    BY <1>8, <2>1 DEF Behind
  <2>4. UpTo(a, logged) /\ UpTo(b, logged) /\ NoneOf(a, lost) /\ NoneOf(b, lost)
    BY <1>8, <2>1 DEF UpTo, NoneOf
  <2> QED
    BY <2>2, <2>3, <2>4
\* The file with the lines that were written.
<1>10. PICK f, g : f = file /\ g = file \o a
  OBVIOUS
<1>11. /\ f \in Seq(Line) /\ Ascends(f) /\ Behind(f, a) /\ g = f \o a
  BY <1>1, <1>4, <1>9, <1>10
<1>12. g \in Seq(Line) /\ Len(g) = Len(f) + Len(a) /\ Ascends(g) /\ Joined(g, f, a)
  BY <1>7, <1>11, Joining
<1>13. \A i \in 1 .. Len(g) : \/ \E j \in 1 .. Len(file) : g[i] = file[j]
                              \/ \E j \in 1 .. Len(a) : g[i] = a[j]
  BY <1>10, <1>12 DEF Joined
<1>14. file' = g
  BY <1>3, <1>10
\* The lines that are lost with those that were not written.
<1>15. PICK S, T : S = lost /\ T = lost \cup ToSet(b)
  OBVIOUS
<1>16. S \in SUBSET Line /\ IsFiniteSet(S) /\ NoneOf(b, S) /\ T = S \cup ToSet(b) /\ lost' = T
  BY <1>1, <1>3, <1>9, <1>15
<1>17. /\ T \in SUBSET Line /\ IsFiniteSet(T) /\ Cardinality(T) = Cardinality(S) + Len(b)
       /\ Added(T, S, b)
  BY <1>7, <1>16, Losing
<1>18. \A i \in 1 .. Len(g) : g[i].n <= logged
  <2>1. UpTo(file, logged)
    BY <1>1 DEF LinesInOrder
  <2> QED
    BY <1>9, <1>13, <2>1 DEF UpTo
<1>19. \A line \in T : line.n <= logged
  <2>1. \A line \in S : line.n <= logged
    BY <1>1, <1>15 DEF LinesInOrder
  <2>2. \A i \in 1 .. Len(b) : b[i].n <= logged
    BY <1>9 DEF UpTo
  <2> QED
    BY <1>17, <2>1, <2>2 DEF Added
<1>20. \A x \in Line : x.n \in Nat
  BY DEF Line
<1>21. LogType'
  BY <1>1, <1>3, <1>12, <1>14, <1>16, <1>17, NoLine DEF LogType
<1>22. LinesInOrder'
  <2>1. Behind(g, queue)
    BY <1>1, <1>9, <1>13 DEF Behind, LinesInOrder
  <2>2. Behind(g, <<>>) /\ Behind(<<>>, queue) /\ Ascends(<<>>) /\ UpTo(<<>>, logged)
    BY <1>1, <1>12, NoLine
  <2>3. UpTo(queue, logged)
    BY <1>1 DEF LinesInOrder
  <2> QED
    BY <1>3, <1>4, <1>12, <1>14, <1>16, <1>18, <1>19, <2>1, <2>2, <2>3
       DEF LinesInOrder, Ascends, Behind, UpTo
<1>23. NoneIsLost'
  <2>1. NoneOf(file, lost) /\ NoneOf(queue, lost)
    BY <1>1 DEF NoneIsLost
  <2>2. NoneOf(g, S)
    BY <1>9, <1>13, <1>15, <2>1 DEF NoneOf
  <2>3. NoneOf(g, T)
    <3> SUFFICES ASSUME NEW i \in 1 .. Len(g), NEW j \in 1 .. Len(b), g[i] = b[j]
                 PROVE  FALSE
      BY <1>17, <2>2 DEF NoneOf, Added
    <3>1. g[i].n < b[j].n
      BY <1>7, <1>9, <1>13 DEF Behind
    <3>2. b[j].n \in Nat
      BY <1>7, <1>20
    <3> QED
      BY <3>1, <3>2
  <2>4. NoneOf(queue, T)
    <3> SUFFICES ASSUME NEW i \in 1 .. Len(queue), NEW j \in 1 .. Len(b), queue[i] = b[j]
                 PROVE  FALSE
      BY <1>15, <1>17, <2>1 DEF NoneOf, Added
    <3>1. b[j].n < queue[i].n
      BY <1>9 DEF Behind
    <3>2. b[j].n \in Nat
      BY <1>7, <1>20
    <3> QED
      BY <3>1, <3>2
  <2>5. NoneOf(<<>>, T)
    BY NoLine
  <2> QED
    BY <1>3, <1>14, <1>16, <2>3, <2>4, <2>5 DEF NoneIsLost, NoneOf
<1>24. LinesAddUp'
  <2>1. PICK x, l, u, c, d : /\ x = Len(file) /\ l = Len(lines) /\ u = Len(queue)
                             /\ c = Cardinality(lost) /\ d = dropped
    OBVIOUS
  <2>2. x \in Nat /\ l \in Nat /\ u \in Nat /\ c \in Nat /\ d \in Nat /\ x + l + u + c + d = logged
    BY <1>1, <2>1 DEF LinesAddUp
  <2>3. (x + k) + 0 + u + (c + (l - k)) + d = x + l + u + c + d
    BY <2>2
  <2>4. Len(g) = x + k /\ Cardinality(T) = c + (l - k) /\ Len(<<>>) = 0
    BY <1>5, <1>7, <1>10, <1>12, <1>15, <1>17, <2>1, NoLine
  <2> QED
    BY <1>3, <1>14, <1>16, <2>1, <2>2, <2>3, <2>4 DEF LinesAddUp
<1> QED
  BY <1>21, <1>22, <1>23, <1>24 DEF LogInv

\* The pool stops with lines it has not written.
LEMMA PoolStopsKeeps ==
  ASSUME LogInv, PoolStops
  PROVE  LogInv'
<1>1. /\ LogType /\ LinesInOrder /\ NoneIsLost /\ LinesAddUp
      /\ logged \in Nat /\ dropped \in Nat /\ queue \in Seq(Line) /\ file \in Seq(Line)
      /\ lines \in Seq(Line) /\ lost \in SUBSET Line /\ IsFiniteSet(lost)
      /\ Len(queue) \in Nat /\ Len(file) \in Nat /\ Len(lines) \in Nat /\ Cardinality(lost) \in Nat
  BY FS_CardinalityType DEF LogInv, LogType
<1>2. PICK l, q, S, R, T : /\ l = lines /\ q = queue /\ S = lost
                           /\ R = lost \cup ToSet(lines) /\ T = lost \cup ToSet(lines) \cup ToSet(queue)
  OBVIOUS
<1>3. /\ l \in Seq(Line) /\ q \in Seq(Line) /\ S \in SUBSET Line /\ IsFiniteSet(S)
      /\ Ascends(l) /\ Ascends(q) /\ Behind(l, q) /\ NoneOf(l, S) /\ NoneOf(q, S)
      /\ R = S \cup ToSet(l) /\ T = R \cup ToSet(q)
  BY <1>1, <1>2 DEF LinesInOrder, NoneIsLost
<1>4. /\ lost' = T /\ queue' = <<>> /\ lines' = <<>>
      /\ logged' = logged /\ dropped' = dropped /\ file' = file
  <2>1. lost' = lost \cup ToSet(queue \o lines) /\ queue' = <<>> /\ lines' = <<>>
        /\ logged' = logged /\ dropped' = dropped /\ file' = file
    BY DEF PoolStops, chainVars, dashVars
  <2>2. PICK b : b = q \o l
    OBVIOUS
  <2>3. Len(q) \in Nat /\ Len(l) \in Nat /\ DOMAIN q = 1 .. Len(q) /\ DOMAIN l = 1 .. Len(l)
    BY <1>3
  <2>4. /\ b \in Seq(Line) /\ Len(b) = Len(q) + Len(l) /\ DOMAIN b = 1 .. Len(b)
        /\ \A i \in 1 .. Len(q) + Len(l) : b[i] = IF i <= Len(q) THEN q[i] ELSE l[i - Len(q)]
    BY <1>3, <2>2, ConcatProperties
  <2>5. ToSet(b) \subseteq ToSet(l) \cup ToSet(q)
    <3> SUFFICES ASSUME NEW i \in 1 .. Len(b)
                 PROVE  b[i] \in ToSet(l) \cup ToSet(q)
      BY <2>4 DEF ToSet
    <3>1. CASE i <= Len(q)
      <4>1. b[i] = q[i] /\ i \in DOMAIN q
        BY <2>3, <2>4, <3>1
      <4> QED
        BY <4>1 DEF ToSet
    <3>2. CASE ~ i <= Len(q)
      <4>1. b[i] = l[i - Len(q)] /\ i - Len(q) \in DOMAIN l
        BY <2>3, <2>4, <3>2
      <4> QED
        BY <4>1 DEF ToSet
    <3> QED
      BY <3>1, <3>2
  <2>6. ToSet(q) \subseteq ToSet(b)
    <3> SUFFICES ASSUME NEW i \in 1 .. Len(q)
                 PROVE  q[i] \in ToSet(b)
      BY <2>3 DEF ToSet
    <3>1. i \in DOMAIN b /\ b[i] = q[i]
      BY <2>3, <2>4
    <3> QED
      BY <3>1 DEF ToSet
  <2>7. ToSet(l) \subseteq ToSet(b)
    <3> SUFFICES ASSUME NEW i \in 1 .. Len(l)
                 PROVE  l[i] \in ToSet(b)
      BY <2>3 DEF ToSet
    <3>1. i + Len(q) \in DOMAIN b /\ ~ i + Len(q) <= Len(q) /\ i + Len(q) - Len(q) = i
      BY <2>3, <2>4
    <3>2. b[i + Len(q)] = l[i]
      BY <2>4, <3>1
    <3> QED
      BY <3>1, <3>2 DEF ToSet
  <2> QED
    BY <1>2, <2>1, <2>2, <2>5, <2>6, <2>7
<1>5. /\ R \in SUBSET Line /\ IsFiniteSet(R) /\ Cardinality(R) = Cardinality(S) + Len(l)
      /\ Added(R, S, l)
  BY <1>3, Losing
<1>6. \A x \in Line : x.n \in Nat
  BY DEF Line
<1>7. NoneOf(q, R)
  <2> SUFFICES ASSUME NEW i \in 1 .. Len(q), NEW j \in 1 .. Len(l), q[i] = l[j]
               PROVE  FALSE
    BY <1>3, <1>5 DEF NoneOf, Added
  <2>1. l[j].n < q[i].n /\ l[j] \in Line
    BY <1>3 DEF Behind
  <2> QED
    BY <1>6, <2>1
<1>8. /\ T \in SUBSET Line /\ IsFiniteSet(T) /\ Cardinality(T) = Cardinality(R) + Len(q)
      /\ Added(T, R, q)
  BY <1>3, <1>5, <1>7, Losing
<1>9. LogType'
  BY <1>1, <1>4, <1>8, NoLine DEF LogType
<1>10. LinesInOrder'
  <2>1. \A line \in T : line.n <= logged
    <3>1. /\ \A line \in S : line.n <= logged
          /\ \A i \in 1 .. Len(l) : l[i].n <= logged
          /\ \A i \in 1 .. Len(q) : q[i].n <= logged
      BY <1>1, <1>2 DEF LinesInOrder, UpTo
    <3>2. \A line \in R : line.n <= logged
      BY <1>5, <3>1 DEF Added
    <3> QED
      BY <1>8, <3>1, <3>2 DEF Added
  <2>2. Behind(file, <<>>) /\ Behind(<<>>, <<>>) /\ Ascends(<<>>) /\ UpTo(<<>>, logged)
    BY <1>1, NoLine
  <2>3. Ascends(file) /\ UpTo(file, logged)
    BY <1>1 DEF LinesInOrder
  <2> QED
    BY <1>4, <2>1, <2>2, <2>3 DEF LinesInOrder, Ascends, Behind, UpTo
<1>11. NoneIsLost'
  <2>1. NoneOf(file, T)
    <3>1. /\ NoneOf(file, S) /\ Behind(file, l) /\ Behind(file, q)
          /\ \A i \in 1 .. Len(file) : file[i] \in Line /\ file[i].n \in Nat
      BY <1>1, <1>2, <1>6 DEF NoneIsLost, LinesInOrder
    <3>2. \A i \in 1 .. Len(file), j \in 1 .. Len(l) : file[i] # l[j]
      BY <3>1 DEF Behind
    <3>3. \A i \in 1 .. Len(file), j \in 1 .. Len(q) : file[i] # q[j]
      BY <3>1 DEF Behind
    <3> QED
      BY <1>5, <1>8, <3>1, <3>2, <3>3 DEF NoneOf, Added
  <2>2. NoneOf(<<>>, T)
    BY NoLine
  <2> QED
    BY <1>4, <2>1, <2>2 DEF NoneIsLost, NoneOf
<1>12. LinesAddUp'
  <2>1. PICK x, m, u, c, d : /\ x = Len(file) /\ m = Len(lines) /\ u = Len(queue)
                             /\ c = Cardinality(lost) /\ d = dropped
    OBVIOUS
  <2>2. x \in Nat /\ m \in Nat /\ u \in Nat /\ c \in Nat /\ d \in Nat /\ x + m + u + c + d = logged
    BY <1>1, <2>1 DEF LinesAddUp
  <2>3. x + 0 + 0 + ((c + m) + u) + d = x + m + u + c + d
    BY <2>2
  <2>4. Cardinality(T) = (c + m) + u /\ Len(<<>>) = 0
    BY <1>2, <1>5, <1>8, <2>1, NoLine
  <2> QED
    BY <1>4, <2>1, <2>2, <2>3, <2>4 DEF LinesAddUp
<1> QED
  BY <1>9, <1>10, <1>11, <1>12 DEF LogInv

LEMMA LogKept ==
  ASSUME LogInv, [Next]_vars
  PROVE  LogInv'
<1>1. ASSUME NEW user \in Users, NEW work \in Works, LogShare(user, work)
      PROVE  LogInv'
  BY <1>1, LogShareKeeps, LimitsAssumption DEF LimitsAssumption
<1>2. CASE Flush
  BY <1>2, FlushKeeps
<1>3. ASSUME NEW k \in 0 .. MaxQueue, Write(k)
      PROVE  LogInv'
  BY <1>3, WriteKeeps
<1>4. CASE PoolStops
  BY <1>4, PoolStopsKeeps
<1>5. ASSUME NEW value \in Rewards, NEW outcome \in {"read", "garbled", "not_run"},
             NewTemplate(value, outcome)
      PROVE  LogInv'
  BY <1>5, LogStays DEF NewTemplate
<1>6. ASSUME NEW t \in DOMAIN templates, NEW at \in t - 1 .. Len(templates),
             NEW kids \in SUBSET Kids, Solve(t, at, kids)
      PROVE  LogInv'
  BY <1>6, LogStays DEF Solve
<1>7. CASE NewBlockLogged
  BY <1>7, LogStays DEF NewBlockLogged
<1>8. ASSUME NEW k \in 0 .. Len(ProxyLog), ApiState(k)
      PROVE  LogInv'
  BY <1>8, LogStays DEF ApiState
<1>9. ASSUME NEW up \in BOOLEAN, Warm(up)
      PROVE  LogInv'
  BY <1>9, LogStays DEF Warm
<1>10. CASE DashboardRestarts
  BY <1>10, LogStays DEF DashboardRestarts
<1>11. CASE UNCHANGED vars
  BY <1>11, LogStays DEF vars
<1> QED
  BY <1>1, <1>2, <1>3, <1>4, <1>5, <1>6, <1>7, <1>8, <1>9, <1>10, <1>11 DEF Next

\* What the invariant says of the file, what is written and the queue together.
LEMMA LinesAreThere == LogInv => NoLineLostSilently
<1> SUFFICES ASSUME LogInv PROVE NoLineLostSilently
  OBVIOUS
<1>1. PICK f, l, q, S : f = file /\ l = lines /\ q = queue /\ S = lost
  OBVIOUS
<1>2. /\ f \in Seq(Line) /\ l \in Seq(Line) /\ q \in Seq(Line)
      /\ Len(f) \in Nat /\ Len(l) \in Nat /\ Len(q) \in Nat
      /\ Ascends(f) /\ Ascends(l) /\ Ascends(q) /\ Behind(f, l) /\ Behind(f, q) /\ Behind(l, q)
      /\ NoneOf(f, S) /\ NoneOf(l, S) /\ NoneOf(q, S)
  BY <1>1 DEF LogInv, LogType, LinesInOrder, NoneIsLost
<1>3. PICK written : written = f \o l
  OBVIOUS
<1>4. /\ written \in Seq(Line) /\ Len(written) = Len(f) + Len(l) /\ Ascends(written)
      /\ Joined(written, f, l)
  BY <1>2, <1>3, Joining
<1>5. Behind(written, q) /\ NoneOf(written, S)
  BY <1>2, <1>4 DEF Behind, NoneOf, Joined
<1>6. PICK there : there = written \o q
  OBVIOUS
<1>7. /\ there \in Seq(Line) /\ Len(there) = Len(written) + Len(q) /\ Ascends(there)
      /\ Joined(there, written, q)
  BY <1>2, <1>4, <1>5, <1>6, Joining
<1>8. NoneOf(there, S)
  BY <1>2, <1>5, <1>7 DEF NoneOf, Joined
<1>9. there = file \o lines \o queue /\ DOMAIN there = 1 .. Len(there)
  BY <1>1, <1>3, <1>6, <1>7
<1>10. Len(there) + Cardinality(lost) + dropped = logged
  <2>1. Len(there) = Len(file) + Len(lines) + Len(queue)
    BY <1>1, <1>2, <1>4, <1>7
  <2> QED
    BY <2>1 DEF LogInv, LinesAddUp
<1> QED
  BY <1>1, <1>7, <1>8, <1>9, <1>10 DEF NoLineLostSilently, Ascends, NoneOf

-----------------------------------------------------------------------------
\* Every share that was logged is in the share log, once and in its place, or
\* waits for it, or was dropped from a full queue and counted, or was in a
\* write that failed or left behind by a stop: queueshare, flushlog, and the
\* logger that has no stop(), for any users, any works and any number of shares,
\* whatever the coinbaser and the dashboard do meanwhile.
THEOREM LinesAreKept == Spec => []NoLineLostSilently
<1>1. Init => LogInv
  BY LogInit
<1>2. LogInv /\ [Next]_vars => LogInv'
  BY LogKept
<1>3. LogInv => NoLineLostSilently
  BY LinesAreThere
<1> QED
  BY <1>1, <1>2, <1>3, PTL DEF Spec

-----------------------------------------------------------------------------
\* The division of a reward

LEMMA Quotient ==
  ASSUME NEW n \in Nat, NEW m \in Nat \ {0}
  PROVE  n \div m \in Nat /\ m * (n \div m) <= n
OBVIOUS

LEMMA Distributed ==
  ASSUME NEW w \in Nat, NEW p \in Nat, NEW x \in Nat, NEW y \in Nat, NEW r \in Nat, NEW v \in Nat,
         w * x <= p * y, w * r <= p * v
  PROVE  w * (x + r) <= p * (y + v)
<1>1. w * (x + r) = w * x + w * r
  OBVIOUS
<1>2. p * (y + v) = p * y + p * v
  OBVIOUS
<1>3. w * x \in Nat /\ w * r \in Nat /\ p * y \in Nat /\ p * v \in Nat
  OBVIOUS
<1> QED
  BY <1>1, <1>2, <1>3

\* Rounded down, the parts of a set of payees are at most its part of the work.
LEMMA PartOfWork ==
  ASSUME NEW work, NEW S, IsFiniteSet(S), NatOn(work, S), NEW p \in Nat, NEW w \in Nat \ {0},
         NEW rows, \A a \in S : rows[a] = (p * work[a]) \div w
  PROVE  NatOn(rows, S) /\ w * SumFunctionOnSet(rows, S) <= p * SumFunctionOnSet(work, S)
<1>1. \A a \in S : work[a] \in Nat /\ p * work[a] \in Nat /\ rows[a] \in Nat /\ w * rows[a] <= p * work[a]
  <2> SUFFICES ASSUME NEW a \in S
               PROVE  work[a] \in Nat /\ p * work[a] \in Nat /\ rows[a] \in Nat /\ w * rows[a] <= p * work[a]
    OBVIOUS
  <2>1. work[a] \in Nat
    BY DEF NatOn
  <2>2. PICK n \in Nat : n = p * work[a]
    BY <2>1
  <2>3. rows[a] = n \div w
    BY <2>2
  <2>4. rows[a] \in Nat /\ w * rows[a] <= n
    BY <2>3, Quotient
  <2> QED
    BY <2>1, <2>2, <2>4
<1>2. NatOn(rows, S)
  BY <1>1 DEF NatOn
<1>3. PICK C : C = {U \in SUBSET S : w * SumFunctionOnSet(rows, U) <= p * SumFunctionOnSet(work, U)}
  OBVIOUS
<1>4. ASSUME NEW U \in SUBSET S, \A a \in U : U \ {a} \in C PROVE U \in C
  <2>1. CASE U = {}
    BY <1>3, <2>1, SumEmpty
  <2>2. CASE U # {}
    <3>1. PICK a \in U : TRUE
      BY <2>2
    <3>2. /\ IsFiniteSet(U) /\ IsFiniteSet(U \ {a})
          /\ IntOn(rows, U) /\ IntOn(work, U) /\ NatOn(rows, U \ {a}) /\ NatOn(work, U \ {a})
      BY <1>1, FS_Subset DEF IntOn, NatOn
    <3>3. PICK r : r = SumFunctionOnSet(rows, U \ {a})
      OBVIOUS
    <3>4. PICK v : v = SumFunctionOnSet(work, U \ {a})
      OBVIOUS
    <3>5. r \in Nat /\ v \in Nat
      BY <3>2, <3>3, <3>4, SumNat
    <3>6. w * r <= p * v
      BY <1>3, <1>4, <3>1, <3>3, <3>4
    <3>7. SumFunctionOnSet(rows, U) = rows[a] + r
      BY <3>1, <3>2, <3>3, SumAny
    <3>8. SumFunctionOnSet(work, U) = work[a] + v
      BY <3>1, <3>2, <3>4, SumAny
    <3>20. work[a] \in Nat /\ rows[a] \in Nat /\ w * rows[a] <= p * work[a]
      BY <1>1, <3>1
    <3>21. PICK x : x = rows[a]
      OBVIOUS
    <3>22. PICK y : y = work[a]
      OBVIOUS
    <3>9. x \in Nat /\ y \in Nat /\ x = rows[a] /\ y = work[a] /\ w * x <= p * y
      BY <3>20, <3>21, <3>22
    <3>12. w * (x + r) <= p * (y + v)
      BY <3>5, <3>6, <3>9, Distributed
    <3>13. SumFunctionOnSet(rows, U) = x + r /\ SumFunctionOnSet(work, U) = y + v
      BY <3>7, <3>8, <3>9
    <3>14. w * SumFunctionOnSet(rows, U) <= p * SumFunctionOnSet(work, U)
      BY <3>12, <3>13
    <3> QED
      BY <1>3, <3>14
  <2> QED
    BY <2>1, <2>2
<1>5. SUBSET S \subseteq C
  BY <1>4, Subsets
<1> QED
  BY <1>2, <1>3, <1>5

PosOn(f, S) == \A x \in S : f[x] \in Nat \ {0}

\* The work of those who are paid, as the coinbaser reads them.
Worked(work) == IsFiniteSet(DOMAIN work) /\ PosOn(work, DOMAIN work)

LEMMA SmallestOf ==
  ASSUME NEW work, Worked(work), DOMAIN work # {}
  PROVE  Smallest(work) \in DOMAIN work
<1>1. PICK T : T = {work[a] : a \in DOMAIN work}
  OBVIOUS
<1>2. T \in SUBSET Nat /\ T # {}
  BY <1>1 DEF Worked, PosOn
<1>3. PICK x \in T : \A y \in T : x <= y
  BY <1>2, Least
<1>4. PICK a \in DOMAIN work : x = work[a]
  BY <1>1
<1>5. \A b \in DOMAIN work : work[a] <= work[b]
  BY <1>1, <1>3, <1>4
<1> QED
  BY <1>5 DEF Smallest

LEMMA Multiplied ==
  ASSUME NEW w \in Nat \ {0}, NEW p \in Nat \ {0}, NEW r \in Nat, NEW v \in Nat, w * r <= p * v, v < w
  PROVE  r < p
<1> SUFFICES ASSUME r >= p PROVE FALSE
  OBVIOUS
<1>1. w * r >= w * p
  OBVIOUS
<1>2. p * v < p * w
  OBVIOUS
<1>3. p * w = w * p /\ w * p \in Nat /\ w * r \in Nat /\ p * v \in Nat
  OBVIOUS
<1> QED
  BY <1>1, <1>2, <1>3

\* Everybody's share, the last one's included, is what adds up to the payable
\* reward; rounding down leaves something for the last one.
LEMMA SharesAddUp ==
  ASSUME NEW work, Worked(work), DOMAIN work # {}, NEW p \in Nat \ {0}
  PROVE  /\ DOMAIN Shares(work, p) = DOMAIN work
         /\ NatOn(Shares(work, p), DOMAIN work)
         /\ Shares(work, p)[Smallest(work)] > 0
         /\ SumFunctionOnSet(Shares(work, p), DOMAIN work) = p
<1>1. PICK D : D = DOMAIN work
  OBVIOUS
<1>2. PICK s \in D : s = Smallest(work)
  BY <1>1, SmallestOf
<1>3. PICK E : E = D \ {s}
  OBVIOUS
<1>4. PICK rows : rows = RoundedDown(work, p)
  OBVIOUS
<1>5. PICK w : w = SumFunction(work)
  OBVIOUS
<1>6. PICK v : v = SumFunctionOnSet(work, E)
  OBVIOUS
<1>7. PICK r : r = SumFunctionOnSet(rows, E)
  OBVIOUS
<1>8. IsFiniteSet(D) /\ IsFiniteSet(E) /\ NatOn(work, D) /\ NatOn(work, E) /\ IntOn(work, D)
  BY <1>1, <1>3, FS_Subset DEF Worked, PosOn, NatOn, IntOn
<1>9. v \in Nat /\ w \in Nat \ {0} /\ v < w
  <2>1. w = work[s] + v
    BY <1>1, <1>3, <1>5, <1>6, <1>8, SumAny DEF SumFunction
  <2>2. work[s] \in Nat \ {0}
    BY <1>1 DEF Worked, PosOn
  <2>3. v \in Nat
    BY <1>6, <1>8, SumNat
  <2> QED
    BY <2>1, <2>2, <2>3
<1>10. DOMAIN rows = E /\ \A a \in E : rows[a] = (p * work[a]) \div w
  BY <1>1, <1>2, <1>3, <1>4, <1>5 DEF RoundedDown
<1>11. NatOn(rows, E) /\ w * r <= p * v
  BY <1>6, <1>7, <1>8, <1>9, <1>10, PartOfWork
<1>12. r \in Nat
  BY <1>7, <1>8, <1>11, SumNat
<1>13. r < p
  BY <1>9, <1>11, <1>12, Multiplied
<1>14. PICK shares : shares = Shares(work, p)
  OBVIOUS
<1>15. shares = [a \in D |-> IF a = s THEN p - r ELSE rows[a]]
  BY <1>1, <1>2, <1>4, <1>7, <1>10, <1>14 DEF Shares, SumFunction
<1>16. shares[s] = p - r /\ \A a \in E : shares[a] = rows[a]
  BY <1>3, <1>15
<1>17. NatOn(shares, D) /\ shares[s] > 0
  <2>1. p - r \in Nat /\ p - r > 0
    BY <1>12, <1>13
  <2> QED
    BY <1>3, <1>11, <1>16, <2>1 DEF NatOn
<1>18. SumFunctionOnSet(shares, D) = p
  <2>1. SumFunctionOnSet(shares, E) = r
    BY <1>7, <1>8, <1>16, SumSame
  <2>2. IntOn(shares, D)
    BY <1>17 DEF NatOn, IntOn
  <2>3. SumFunctionOnSet(shares, D) = shares[s] + SumFunctionOnSet(shares, E)
    BY <1>3, <1>8, <2>2, SumAny
  <2> QED
    BY <1>12, <1>16, <2>1, <2>3
<1> QED
  BY <1>1, <1>2, <1>14, <1>15, <1>17, <1>18

LEMMA AllPaid ==
  ASSUME NEW total \in Nat, NEW bps \in Nat
  PROVE  Payable(total, bps) \in Int /\ Payable(total, bps) <= total
<1>1. PICK k : k = 10000 - bps
  OBVIOUS
<1>2. PICK n : n = total * k
  OBVIOUS
<1>3. k \in Int /\ k <= 10000 /\ n \in Int /\ n <= total * 10000
  BY <1>1, <1>2
<1>4. n \div 10000 \in Int /\ 10000 * (n \div 10000) <= n
  BY <1>3
<1>5. Payable(total, bps) = n \div 10000
  BY <1>1, <1>2 DEF Payable
<1> QED
  BY <1>3, <1>4, <1>5

\* A division hands out whole positive amounts to some of those who worked, and
\* less than the total.
LEMMA Divided ==
  ASSUME NEW work, Worked(work), NEW total \in Nat, NEW bps \in Nat,
         NEW split, split = Split(total, bps, work)
  PROVE  /\ Worked(split) /\ DOMAIN split \subseteq DOMAIN work /\ split = [a \in DOMAIN split |-> split[a]]
         /\ SumFunction(split) \in Nat /\ SumFunction(split) <= total
         /\ total > 0 => SumFunction(split) < total
<1>20. Payable(total, bps) \in Int /\ Payable(total, bps) <= total
  BY AllPaid
<1>21. PICK p : p = Payable(total, bps)
  OBVIOUS
<1>1. p \in Int /\ p = Payable(total, bps) /\ p <= total
  BY <1>20, <1>21
<1>2. CASE DOMAIN work = {} \/ p <= 0
  <2>1. split = [a \in {} |-> 0]
    BY <1>1, <1>2 DEF Split, Nobody
  <2>2. DOMAIN split = {}
    BY <2>1
  <2>3. SumFunction(split) = 0
    BY <2>2, SumEmpty DEF SumFunction
  <2> QED
    BY <2>1, <2>2, <2>3, FS_EmptySet DEF Worked, PosOn
<1>3. CASE DOMAIN work # {} /\ p > 0
  <2>1. PICK D : D = DOMAIN work
    OBVIOUS
  <2>2. PICK s \in D : s = Smallest(work)
    BY <1>3, <2>1, SmallestOf
  <2>3. PICK shares : shares = Shares(work, p)
    OBVIOUS
  <2>4. /\ DOMAIN shares = D /\ NatOn(shares, D) /\ shares[s] > 0 /\ SumFunctionOnSet(shares, D) = p
        /\ shares = [a \in D |-> shares[a]]
    <3>1. p \in Nat \ {0} /\ s = Smallest(work)
      BY <1>1, <1>3, <2>2
    <3>2. /\ DOMAIN shares = D /\ NatOn(shares, D) /\ shares[s] > 0 /\ SumFunctionOnSet(shares, D) = p
      BY <1>3, <2>1, <2>3, <3>1, SharesAddUp
    <3>3. shares = [a \in D |-> shares[a]]
      BY <2>1, <2>3 DEF Shares
    <3> QED
      BY <3>2, <3>3
  <2>5. PICK given : given = StrictlyLess(shares, s, total)
    OBVIOUS
  <2>6. split = Positive(given)
    BY <1>1, <1>3, <2>1, <2>2, <2>3, <2>5 DEF Split
  <2>22. PICK over : over = p - total + 1
    OBVIOUS
  <2>7. over = p - total + 1 /\ over \in Int /\ over <= 1
    BY <1>1, <2>22
  <2>8. given = IF over > 0 THEN [shares EXCEPT ![s] = @ - over] ELSE shares
    <3>1. SumFunction(shares) = p
      BY <2>4 DEF SumFunction
    <3> QED
      BY <2>5, <2>7, <3>1 DEF StrictlyLess
  <2>9. IsFiniteSet(D)
    BY <2>1 DEF Worked
  <2>10. DOMAIN given = D /\ NatOn(given, D) /\ SumFunctionOnSet(given, D) \in Nat /\ SumFunctionOnSet(given, D) < total
    <3>1. CASE over > 0
      <4>1. over = 1 /\ p = total
        BY <1>1, <2>7, <3>1
      <4>2. given = [shares EXCEPT ![s] = shares[s] - 1]
        BY <2>8, <3>1, <4>1
      <4>3. DOMAIN given = D /\ given[s] = shares[s] - 1 /\ \A a \in D \ {s} : given[a] = shares[a]
        BY <2>4, <4>2
      <4>4. shares[s] \in Nat \ {0} /\ NatOn(given, D)
        BY <2>4, <4>3 DEF NatOn
      <4>5. PICK r : r = SumFunctionOnSet(shares, D \ {s})
        OBVIOUS
      <4>6. IntOn(shares, D) /\ IntOn(given, D) /\ IsFiniteSet(D \ {s}) /\ NatOn(shares, D \ {s})
        BY <2>4, <2>9, <4>4, FS_Subset DEF NatOn, IntOn
      <4>7. p = shares[s] + r
        BY <2>4, <2>9, <4>5, <4>6, SumAny
      <4>8. SumFunctionOnSet(given, D \ {s}) = r
        BY <4>3, <4>5, <4>6, SumSame
      <4>9. SumFunctionOnSet(given, D) = given[s] + r
        BY <2>9, <4>6, <4>8, SumAny
      <4>10. r \in Nat
        BY <4>5, <4>6, SumNat
      <4> QED
        BY <4>1, <4>3, <4>4, <4>7, <4>9, <4>10
    <3>2. CASE ~ (over > 0)
      <4>1. given = shares
        BY <2>7, <2>8, <3>2
      <4>2. p < total /\ p \in Nat
        BY <1>1, <1>3, <2>7, <3>2
      <4>3. SumFunctionOnSet(given, D) = p /\ DOMAIN given = D /\ NatOn(given, D)
        BY <2>4, <4>1
      <4> QED
        BY <4>2, <4>3
    <3> QED
      BY <3>1, <3>2
  <2> DEFINE P == {a \in D : given[a] > 0}
  <2>11. P = {a \in D : given[a] > 0}
    OBVIOUS
  <2> HIDE DEF P
  <2>12. split = [a \in P |-> given[a]]
    BY <2>6, <2>10, <2>11 DEF Positive, Restrict
  <2>13. DOMAIN split = P /\ P \subseteq D /\ \A a \in P : split[a] = given[a] /\ given[a] \in Nat \ {0}
    BY <2>10, <2>11, <2>12 DEF NatOn
  <2>14. IsFiniteSet(P) /\ IsFiniteSet(D \ P) /\ P \cup (D \ P) = D /\ P \cap (D \ P) = {}
    BY <2>9, <2>13, FS_Subset
  <2>15. SumFunctionOnSet(given, D) = SumFunctionOnSet(given, P) + SumFunctionOnSet(given, D \ P)
    <3>1. IntOn(given, P) /\ IntOn(given, D \ P)
      BY <2>10, <2>13 DEF NatOn, IntOn
    <3> QED
      BY <2>14, <3>1, SumParts
  <2>16. SumFunctionOnSet(given, D \ P) = 0
    <3>1. \A a \in D \ P : given[a] = 0
      BY <2>10, <2>11 DEF NatOn
    <3> QED
      BY <2>14, <3>1, SumZero
  <2>17. SumFunction(split) = SumFunctionOnSet(given, P)
    BY <2>13, <2>14, SumSame DEF SumFunction
  <2>18. SumFunctionOnSet(given, P) \in Nat
    BY <2>13, <2>14, SumNat DEF NatOn
  <2>19. SumFunction(split) = SumFunctionOnSet(given, D)
    BY <2>15, <2>16, <2>17, <2>18
  <2>20. Worked(split)
    BY <2>13, <2>14 DEF Worked, PosOn
  <2>21. split = [a \in DOMAIN split |-> split[a]]
    BY <2>12
  <2> QED
    BY <2>1, <2>10, <2>13, <2>19, <2>20, <2>21
<1> QED
  <2>1. p <= 0 \/ p > 0
    <3>1. p \in Int
      BY <1>1
    <3> QED
      BY <3>1
  <2> QED
    BY <1>2, <1>3, <2>1

\* A coinbase made from it pays what the block earns and keeps something for the pool.
LEMMA CoinbaseAddsUp ==
  ASSUME NEW work, Worked(work), NEW value \in Nat, NEW bps \in Nat,
         NEW split, split = Split(value, bps, work), NEW txn, txn = CoinbaseTxn(value, split)
  PROVE  /\ txn.to = split
         /\ SumFunction(txn.to) + txn.tracker = value
         /\ \A a \in DOMAIN txn.to : txn.to[a] > 0
         /\ value > 0 => txn.tracker > 0
<1>1. PICK n : n = SumFunction(split)
  OBVIOUS
<1>2. n \in Nat /\ (value > 0 => n < value) /\ (value = 0 => n = 0) /\ Worked(split)
  <2>1. PICK s : s = Split(value, bps, work)
    OBVIOUS
  <2>2. Worked(s) /\ SumFunction(s) \in Nat /\ SumFunction(s) <= value /\ (value > 0 => SumFunction(s) < value)
    BY <2>1, Divided
  <2> QED
    BY <1>1, <2>1, <2>2
<1>3. Acceptable(value, split)
  BY <1>1, <1>2 DEF Acceptable
<1>4. txn.to = split /\ txn.tracker = value - n
  BY <1>1, <1>3 DEF CoinbaseTxn
<1>5. \A a \in DOMAIN split : split[a] > 0
  BY <1>2 DEF Worked, PosOn
<1> QED
  BY <1>1, <1>2, <1>4, <1>5

\* The reward of a child block is accounted in full.
LEMMA AccountedAddsUp ==
  ASSUME NEW work, Worked(work), NEW reward \in Nat \ {0}, NEW bps \in Nat, NEW Derivable, NEW block,
         NEW row, row = Accounted(block, reward, bps, work, Derivable)
  PROVE  /\ row = [block |-> block, reward |-> reward, to |-> row.to, keep |-> row.keep]
         /\ Worked(row.to) /\ DOMAIN row.to \subseteq DOMAIN work
         /\ row.to = [a \in DOMAIN row.to |-> row.to[a]]
         /\ SumFunction(row.to) + row.keep = reward /\ row.keep \in Nat \ {0}
<1>1. PICK split : split = Split(reward, bps, work)
  OBVIOUS
<1>2. PICK n : n = SumFunction(split)
  OBVIOUS
<1>3. Worked(split) /\ n \in Nat /\ n < reward /\ DOMAIN split \subseteq DOMAIN work
  <2>1. reward \in Nat /\ reward > 0
    OBVIOUS
  <2>2. /\ Worked(split) /\ DOMAIN split \subseteq DOMAIN work
        /\ SumFunction(split) \in Nat /\ (reward > 0 => SumFunction(split) < reward)
    BY <1>1, <2>1, Divided
  <2> QED
    BY <1>2, <2>1, <2>2
<1>4. PICK D : D = DOMAIN split
  OBVIOUS
<1> DEFINE P == D \cap Derivable
           Q == D \ Derivable
<1>5. P = D \cap Derivable
  OBVIOUS
<1>6. Q = D \ Derivable
  OBVIOUS
<1> HIDE DEF P, Q
<1>7. IsFiniteSet(P) /\ IsFiniteSet(Q) /\ P \cup Q = D /\ P \cap Q = {}
  <2>1. IsFiniteSet(D)
    BY <1>3, <1>4 DEF Worked
  <2> QED
    BY <1>5, <1>6, <2>1, FS_Subset
<1>8. PICK a : a = SumFunctionOnSet(split, P)
  OBVIOUS
<1>9. PICK b : b = SumFunctionOnSet(split, Q)
  OBVIOUS
<1>10. NatOn(split, P) /\ NatOn(split, Q) /\ IntOn(split, P) /\ IntOn(split, Q)
  BY <1>3, <1>4, <1>7 DEF Worked, PosOn, NatOn, IntOn
<1>11. n = a + b /\ a \in Nat /\ b \in Nat
  <2>1. n = SumFunctionOnSet(split, P \cup Q)
    BY <1>2, <1>4, <1>7 DEF SumFunction
  <2>2. SumFunctionOnSet(split, P \cup Q) = a + b
    BY <1>7, <1>8, <1>9, <1>10, SumParts
  <2>3. a \in Nat
    BY <1>7, <1>8, <1>10, SumNat
  <2>4. b \in Nat
    BY <1>7, <1>9, <1>10, SumNat
  <2> QED
    BY <2>1, <2>2, <2>3, <2>4
<1>12. PICK to : to = Restrict(split, P)
  OBVIOUS
<1>13. DOMAIN to = P /\ (\A x \in P : to[x] = split[x]) /\ to = [x \in DOMAIN to |-> to[x]]
  BY <1>12 DEF Restrict
<1>14. SumFunction(to) = a
  BY <1>7, <1>8, <1>13, SumSame DEF SumFunction
<1>15. SumFunction(Restrict(split, Q)) = b
  <2>1. PICK other : other = Restrict(split, Q)
    OBVIOUS
  <2>2. DOMAIN other = Q /\ \A x \in Q : other[x] = split[x]
    BY <2>1 DEF Restrict
  <2> QED
    BY <1>7, <1>9, <2>1, <2>2, SumSame DEF SumFunction
<1>16. row = [block |-> block, reward |-> reward, to |-> to, keep |-> (reward - n) + b]
  BY <1>1, <1>2, <1>4, <1>5, <1>6, <1>12, <1>15 DEF Accounted
<1>17. Worked(to) /\ DOMAIN to \subseteq DOMAIN work
  BY <1>3, <1>4, <1>5, <1>7, <1>13 DEF Worked, PosOn
<1>18. a + ((reward - n) + b) = reward /\ (reward - n) + b \in Nat \ {0}
  BY <1>3, <1>11
<1> QED
  BY <1>13, <1>14, <1>16, <1>17, <1>18

-----------------------------------------------------------------------------
\* The work in the share log, from which a division is made.

\* What a sequence of finite length enumerates is finite.
LEMMA Enumerated ==
  ASSUME NEW n \in Nat, NEW f, f = [i \in 1 .. n |-> f[i]], NEW S, \A x \in S : \E i \in 1 .. n : f[i] = x
  PROVE  IsFiniteSet(S)
<1>1. CASE S = {}
  BY <1>1, FS_EmptySet
<1>2. CASE S # {}
  <2>1. PICK x \in S : TRUE
    BY <1>2
  <2>2. PICK g : g = [i \in 1 .. n |-> IF f[i] \in S THEN f[i] ELSE x]
    OBVIOUS
  <2>3. g \in [1 .. n -> S]
    BY <2>1, <2>2
  <2>4. \A y \in S : \E i \in 1 .. n : g[i] = y
    BY <2>2
  <2>5. g \in Surjection(1 .. n, S)
    BY <2>3, <2>4 DEF Surjection
  <2>6. IsFiniteSet(1 .. n)
    BY FS_Interval
  <2> QED
    BY <2>5, <2>6, FS_Surjection
<1> QED
  BY <1>1, <1>2

Parts == UNION {[S -> Nat \ {0}] : S \in {T \in SUBSET Payees : IsFiniteSet(T)}}

\* What Parts holds is work, or amounts, of payees, and each is more than nothing.
LEMMA PartsWorked == ASSUME NEW w \in Parts PROVE Worked(w) /\ DOMAIN w \subseteq Payees
BY DEF Parts, Worked, PosOn

\* ... and whatever is such is in Parts.
LEMMA WorkedParts ==
  ASSUME NEW w, w = [a \in DOMAIN w |-> w[a]], Worked(w), DOMAIN w \subseteq Payees
  PROVE  w \in Parts
<1>1. w \in [DOMAIN w -> Nat \ {0}] /\ IsFiniteSet(DOMAIN w)
  BY DEF Worked, PosOn
<1> QED
  BY <1>1 DEF Parts

\* The last lines of the share log are lines.
LEMMA LastLines ==
  ASSUME LogType, NEW last, last = SubSeq(file, IF Len(file) > LastShares THEN Len(file) - LastShares + 1 ELSE 1, Len(file))
  PROVE  last \in Seq(Line)
<1>1. Len(file) \in Nat /\ \A i \in 1 .. Len(file) : file[i] \in Line
  BY DEF LogType
<1>2. PICK m : m = (IF Len(file) > LastShares THEN Len(file) - LastShares + 1 ELSE 1)
  OBVIOUS
<1>3. m \in Int /\ m >= 1
  BY <1>1, <1>2, LimitsAssumption
<1>4. \A i \in m .. Len(file) : file[i] \in Line
  BY <1>1, <1>3
<1> QED
  BY <1>1, <1>2, <1>3, <1>4, SubSeqProperties

\* What the coinbaser divides by.
LEMMA WindowWork == LogType => WorkInWindow \in Parts
<1> SUFFICES ASSUME LogType PROVE WorkInWindow \in Parts
  OBVIOUS
<1>1. PICK last : last = SubSeq(file, IF Len(file) > LastShares THEN Len(file) - LastShares + 1 ELSE 1, Len(file))
  OBVIOUS
<1>2. last \in Seq(Line) /\ Len(last) \in Nat /\ DOMAIN last = 1 .. Len(last)
  <2>1. last \in Seq(Line)
    BY <1>1, LastLines
  <2> QED
    BY <2>1
<1> DEFINE of(user) == {i \in DOMAIN last : last[i].user = user /\ last[i].work > 0}
           paid == {user \in Payees : of(user) # {}}
           num == [i \in DOMAIN last |-> last[i].work]
<1>3. PICK w : w = WorkInWindow
  OBVIOUS
<1>4. w = [user \in paid |-> SumFunction(Restrict(num, of(user)))]
  BY <1>1, <1>3 DEF WorkInWindow
<1>5. IsFiniteSet(paid)
  <2>1. PICK f : f = [i \in 1 .. Len(last) |-> last[i].user]
    OBVIOUS
  <2>2. \A user \in paid : \E i \in 1 .. Len(last) : f[i] = user
    BY <1>2, <2>1
  <2>3. f = [i \in 1 .. Len(last) |-> f[i]]
    BY <2>1
  <2> HIDE DEF paid
  <2> QED
    BY <1>2, <2>2, <2>3, Enumerated
<1>6. ASSUME NEW user \in paid PROVE SumFunction(Restrict(num, of(user))) \in Nat \ {0}
  <2>1. PICK S : S = of(user)
    OBVIOUS
  <2>2. S \subseteq 1 .. Len(last) /\ S # {} /\ \A i \in S : last[i].work \in Nat \ {0}
    <3>1. \A i \in 1 .. Len(last) : last[i] \in Line
      BY <1>2
    <3>2. \A line \in Line : line.work \in Nat
      BY AmountsAssumption DEF Line
    <3> QED
      BY <1>2, <1>6, <2>1, <3>1, <3>2
  <2>3. IsFiniteSet(S)
    <3>1. IsFiniteSet(1 .. Len(last))
      BY <1>2, FS_Interval
    <3> QED
      BY <2>2, <3>1, FS_Subset
  <2>4. PICK f : f = Restrict(num, S)
    OBVIOUS
  <2>5. DOMAIN f = S /\ \A i \in S : f[i] = last[i].work
    BY <1>2, <2>2, <2>4 DEF Restrict
  <2>6. PICK i \in S : TRUE
    BY <2>2
  <2>7. SumFunctionOnSet(f, S) \in Nat /\ f[i] <= SumFunctionOnSet(f, S)
    BY <2>2, <2>3, <2>5, SumNat DEF NatOn
  <2>8. f[i] \in Nat \ {0}
    BY <2>2, <2>5
  <2>9. SumFunctionOnSet(f, S) # 0
    BY <2>7, <2>8
  <2> QED
    BY <2>1, <2>4, <2>5, <2>7, <2>9 DEF SumFunction
<1>7. DOMAIN w = paid /\ paid \subseteq Payees /\ Worked(w) /\ w = [user \in DOMAIN w |-> w[user]]
  <2> HIDE DEF of, num
  <2>1. DOMAIN w = paid /\ \A user \in paid : w[user] \in Nat \ {0}
    BY <1>4, <1>6
  <2>2. w = [user \in DOMAIN w |-> w[user]]
    BY <1>4
  <2> QED
    BY <1>5, <2>1, <2>2 DEF Worked, PosOn
<1> QED
  BY <1>3, <1>7, WorkedParts

-----------------------------------------------------------------------------
\* Sequences of sequences, and FlattenSeq, which puts them one behind another.
\* The function that is its definition exists, and says the same of the first
\* sequences as of all.

LastPut(S, s, n) == \E r \in Seq(S) : \E x \in S : Len(r) = n /\ s = Append(r, x)

\* A sequence that is not empty has a last element put behind the others.
LEMMA LastOf ==
  ASSUME NEW S, NEW s \in Seq(S), NEW n \in Nat, Len(s) = n + 1
  PROVE  LastPut(S, s, n)
<1>1. PICK r : r = SubSeq(s, 1, n)
  OBVIOUS
<1>2. r \in Seq(S) /\ Len(r) = n /\ \A i \in 1 .. n : r[i] = s[i]
  <2>1. \A i \in 1 .. n : s[i] \in S
    OBVIOUS
  <2> QED
    BY <1>1, <2>1, SubSeqProperties
<1>3. PICK x \in S : x = s[n + 1]
  OBVIOUS
<1>4. s = Append(r, x)
  BY <1>2, <1>3
<1> QED
  BY <1>2, <1>4 DEF LastPut

Flat(ss, f, i) == IF i = 1 THEN ss[i] ELSE f[i - 1] \o ss[i]
Flattening(ss, n, f) == f = [i \in 1 .. n |-> Flat(ss, f, i)]

\* FlattenSeq, of what is not empty, is the last of the stages it defines ...
LEMMA FlattenIs ==
  ASSUME NEW ss, Len(ss) # 0
  PROVE  FlattenSeq(ss) = (CHOOSE f : Flattening(ss, Len(ss), f))[Len(ss)]
BY DEF FlattenSeq, Flattening, Flat

\* ... which there are, as each is given by the one before ...
LEMMA FlattenExists ==
  ASSUME NEW ss, NEW n \in Nat
  PROVE  \E f : Flattening(ss, n, f)
<1> DEFINE Upto(f, k) == /\ f = [i \in 1 .. n |-> f[i]]
                         /\ \A i \in 1 .. n : i <= k => f[i] = Flat(ss, f, i)
<1>1. PICK N : N = {k \in Nat : \E f : Upto(f, k)}
  OBVIOUS
<1>2. 0 \in N
  <2>1. PICK f : f = [i \in 1 .. n |-> 0]
    OBVIOUS
  <2>2. Upto(f, 0)
    BY <2>1
  <2> HIDE DEF Upto
  <2> QED
    BY <1>1, <2>2
<1>3. ASSUME NEW k \in Nat, k \in N PROVE k + 1 \in N
  <2>1. PICK f : /\ f = [i \in 1 .. n |-> f[i]]
                 /\ \A i \in 1 .. n : i <= k => f[i] = Flat(ss, f, i)
    BY <1>1, <1>3
  <2>2. PICK g : g = [i \in 1 .. n |-> Flat(ss, f, i)]
    OBVIOUS
  <2>3. g = [i \in 1 .. n |-> g[i]] /\ \A i \in 1 .. n : g[i] = Flat(ss, f, i)
    BY <2>2
  <2>4. ASSUME NEW i \in 1 .. n, i <= k + 1 PROVE g[i] = Flat(ss, g, i)
    <3>1. CASE i = 1
      BY <2>3, <3>1 DEF Flat
    <3>2. CASE i # 1
      <4>1. i - 1 \in 1 .. n /\ i - 1 <= k
        BY <2>4, <3>2
      <4>2. g[i - 1] = f[i - 1]
        BY <2>1, <2>3, <4>1
      <4> QED
        BY <2>3, <3>2, <4>2 DEF Flat
    <3> QED
      BY <3>1, <3>2
  <2>5. Upto(g, k + 1)
    BY <2>3, <2>4
  <2> HIDE DEF Upto
  <2> QED
    BY <1>1, <2>5
<1>4. Nat \subseteq N
  BY <1>2, <1>3, NatSet
<1>5. n \in N
  BY <1>4
<1>6. PICK f : /\ f = [i \in 1 .. n |-> f[i]]
               /\ \A i \in 1 .. n : i <= n => f[i] = Flat(ss, f, i)
  BY <1>1, <1>5
<1>7. \A i \in 1 .. n : f[i] = Flat(ss, f, i)
  BY <1>6
<1>8. f = [i \in 1 .. n |-> Flat(ss, f, i)]
  BY <1>6, <1>7
<1> QED
  BY <1>8 DEF Flattening

Agree(f, g, n) == \A i \in 1 .. n : f[i] = g[i]

\* ... and which agree as far as the sequences do.
LEMMA FlattenUnique ==
  ASSUME NEW ss, NEW tt, NEW n \in Nat, NEW m \in Nat, n <= m, Agree(ss, tt, n),
         NEW f, NEW g, Flattening(ss, n, f), Flattening(tt, m, g)
  PROVE  Agree(f, g, n)
<1>1. PICK N : N = {k \in Nat : \A i \in 1 .. n : i <= k => f[i] = g[i]}
  OBVIOUS
<1>2. \A i \in 1 .. n : i \in 1 .. m /\ f[i] = Flat(ss, f, i) /\ g[i] = Flat(tt, g, i)
  <2>1. \A i \in 1 .. n : i \in 1 .. m
    OBVIOUS
  <2>2. \A i \in 1 .. n : f[i] = Flat(ss, f, i)
    BY DEF Flattening
  <2>3. \A i \in 1 .. m : g[i] = Flat(tt, g, i)
    BY DEF Flattening
  <2> QED
    BY <2>1, <2>2, <2>3
<1>3. 0 \in N
  BY <1>1
<1>4. ASSUME NEW k \in Nat, k \in N PROVE k + 1 \in N
  <2>1. ASSUME NEW i \in 1 .. n, i <= k + 1 PROVE f[i] = g[i]
    <3>1. CASE i = 1
      BY <1>2, <3>1 DEF Flat, Agree
    <3>2. CASE i # 1
      <4>1. i - 1 \in 1 .. n /\ i - 1 <= k
        BY <2>1, <3>2
      <4>2. f[i - 1] = g[i - 1]
        BY <1>1, <1>4, <4>1
      <4> QED
        BY <1>2, <3>2, <4>2 DEF Flat, Agree
    <3> QED
      BY <3>1, <3>2
  <2> QED
    BY <1>1, <2>1
<1>5. Nat \subseteq N
  BY <1>3, <1>4, NatSet
<1> QED
  BY <1>1, <1>5 DEF Agree

LEMMA FlattenEmpty == FlattenSeq(<<>>) = <<>>
BY DEF FlattenSeq

\* The equation of FlattenSeq.
LEMMA FlattenStep ==
  ASSUME NEW S, NEW ss \in Seq(Seq(S)), NEW s \in Seq(S)
  PROVE  FlattenSeq(Append(ss, s)) = FlattenSeq(ss) \o s
<1>1. PICK n \in Nat : n = Len(ss)
  OBVIOUS
<1>2. PICK tt : tt = Append(ss, s)
  OBVIOUS
<1>3. tt \in Seq(Seq(S)) /\ Len(tt) = n + 1 /\ tt[n + 1] = s /\ \A i \in 1 .. n : ss[i] = tt[i]
  BY <1>1, <1>2
<1>4. \A uu, k : k \in Nat => Flattening(uu, k, CHOOSE f : Flattening(uu, k, f))
  <2> SUFFICES ASSUME NEW uu, NEW k \in Nat PROVE Flattening(uu, k, CHOOSE f : Flattening(uu, k, f))
    OBVIOUS
  <2>1. \E f : Flattening(uu, k, f)
    BY FlattenExists
  <2> QED
    BY <2>1
<1>5. PICK g : g = (CHOOSE f : Flattening(tt, n + 1, f))
  OBVIOUS
<1>6. Flattening(tt, n + 1, g)
  <2>1. n + 1 \in Nat
    OBVIOUS
  <2> QED
    BY <1>4, <1>5, <2>1
<1>7. FlattenSeq(tt) = g[n + 1]
  BY <1>3, <1>5, FlattenIs
<1>8. g[n + 1] = Flat(tt, g, n + 1)
  <2>1. \A i \in 1 .. n + 1 : g[i] = Flat(tt, g, i)
    BY <1>6 DEF Flattening
  <2> QED
    BY <2>1
<1>9. CASE n = 0
  <2>1. ss = <<>>
    <3>1. Len(ss) = 0
      BY <1>1, <1>9
    <3> QED
      BY <3>1, EmptySeq
  <2>2. g[n + 1] = s
    BY <1>3, <1>8, <1>9 DEF Flat
  <2>3. <<>> \o s = s
    OBVIOUS
  <2> QED
    BY <1>2, <1>7, <2>1, <2>2, <2>3, FlattenEmpty
<1>10. CASE n # 0
  <2>1. PICK f : f = (CHOOSE h : Flattening(ss, n, h))
    OBVIOUS
  <2>2. Flattening(ss, n, f)
    BY <1>4, <2>1
  <2>3. FlattenSeq(ss) = f[n]
    BY <1>1, <1>10, <2>1, FlattenIs
  <2>4. \A i \in 1 .. n : f[i] = g[i]
    <3>1. PICK m : m = n + 1
      OBVIOUS
    <3>2. m \in Nat /\ n <= m /\ Flattening(tt, m, g)
      BY <1>6, <3>1
    <3>3. Agree(ss, tt, n)
      BY <1>3 DEF Agree
    <3> QED
      <4>1. Agree(f, g, n)
        BY <2>2, <3>2, <3>3, FlattenUnique
      <4> QED
        BY <4>1 DEF Agree
  <2>5. f[n] = g[n]
    BY <1>10, <2>4
  <2>6. n + 1 # 1 /\ (n + 1) - 1 = n
    BY <1>10
  <2>7. g[n + 1] = g[n] \o s
    BY <1>3, <1>8, <2>6 DEF Flat
  <2> QED
    BY <1>2, <1>7, <2>3, <2>5, <2>7
<1> QED
  BY <1>9, <1>10

\* What is in the sequence is in one of those it is made from.
LEMMA FlattenMembers ==
  ASSUME NEW S, NEW ss \in Seq(Seq(S))
  PROVE  /\ FlattenSeq(ss) \in Seq(S)
         /\ \A p \in 1 .. Len(FlattenSeq(ss)) : \E e \in 1 .. Len(ss) : \E i \in 1 .. Len(ss[e]) :
              FlattenSeq(ss)[p] = ss[e][i]
<1> DEFINE Members(tt) ==
      /\ FlattenSeq(tt) \in Seq(S)
      /\ \A p \in 1 .. Len(FlattenSeq(tt)) : \E e \in 1 .. Len(tt) : \E i \in 1 .. Len(tt[e]) :
           FlattenSeq(tt)[p] = tt[e][i]
<1>1. PICK N : N = {n \in Nat : \A tt \in Seq(Seq(S)) : Len(tt) = n => Members(tt)}
  OBVIOUS
<1>2. 0 \in N
  <2>1. ASSUME NEW tt \in Seq(Seq(S)), Len(tt) = 0 PROVE Members(tt)
    <3>1. tt = <<>>
      BY <2>1
    <3>2. FlattenSeq(tt) = <<>>
      BY <3>1, FlattenEmpty
    <3>3. Len(<<>>) = 0 /\ 1 .. 0 = {} /\ <<>> \in Seq(S)
      OBVIOUS
    <3> QED
      BY <3>2, <3>3
  <2> HIDE DEF Members
  <2> QED
    BY <1>1, <2>1
<1>3. ASSUME NEW n \in Nat, n \in N PROVE n + 1 \in N
  <2>1. ASSUME NEW tt \in Seq(Seq(S)), Len(tt) = n + 1 PROVE Members(tt)
    <3>20. Len(tt) = n + 1
      BY <2>1
    <3>1. PICK rr \in Seq(Seq(S)), s \in Seq(S) : Len(rr) = n /\ tt = Append(rr, s)
      <4>1. LastPut(Seq(S), tt, n)
        BY <3>20, LastOf
      <4> QED
        BY <4>1 DEF LastPut
    <3>2. Members(rr)
      <4> HIDE DEF Members
      <4> QED
        BY <1>1, <1>3, <3>1
    <3>3. PICK a : a = FlattenSeq(rr)
      OBVIOUS
    <3>4. PICK b : b = FlattenSeq(tt)
      OBVIOUS
    <3>5. b = a \o s
      BY <3>1, <3>3, <3>4, FlattenStep
    <3>6. /\ a \in Seq(S)
          /\ \A p \in 1 .. Len(a) : \E e \in 1 .. Len(rr) : \E i \in 1 .. Len(rr[e]) : a[p] = rr[e][i]
      BY <3>2, <3>3
    <3>7. /\ b \in Seq(S) /\ Len(b) = Len(a) + Len(s) /\ Len(a) \in Nat /\ Len(s) \in Nat
          /\ \A p \in 1 .. Len(b) : b[p] = IF p <= Len(a) THEN a[p] ELSE s[p - Len(a)]
      BY <3>5, <3>6, ConcatProperties
    <3>8. tt[n + 1] = s /\ \A e \in 1 .. n : tt[e] = rr[e] /\ e \in 1 .. n + 1
      BY <3>1
    <3>9. ASSUME NEW p \in 1 .. Len(b)
          PROVE  \E e \in 1 .. Len(tt) : \E i \in 1 .. Len(tt[e]) : b[p] = tt[e][i]
      <4>1. CASE p <= Len(a)
        <5>1. p \in 1 .. Len(a) /\ b[p] = a[p]
          BY <3>7, <4>1
        <5>2. PICK e \in 1 .. n : \E i \in 1 .. Len(rr[e]) : a[p] = rr[e][i]
          BY <3>1, <3>6, <5>1
        <5> QED
          BY <2>1, <3>8, <5>1, <5>2
      <4>2. CASE ~ (p <= Len(a))
        <5>1. p - Len(a) \in 1 .. Len(s) /\ b[p] = s[p - Len(a)]
          BY <3>7, <4>2
        <5>2. n + 1 \in 1 .. Len(tt)
          BY <2>1
        <5> QED
          BY <3>8, <5>1, <5>2
      <4> QED
        BY <4>1, <4>2
    <3> QED
      BY <3>4, <3>7, <3>9
  <2> HIDE DEF Members
  <2> QED
    BY <1>1, <2>1
<1>4. Nat \subseteq N
  <2> HIDE DEF Members
  <2> QED
    BY <1>2, <1>3, NatSet
<1>5. Members(ss)
  <2> HIDE DEF Members
  <2> QED
    BY <1>1, <1>4
<1> QED
  BY <1>5

\* What is not alike within one of them, nor in two of them, is not alike in the
\* sequence.
Unlike(s, t, R) == \A i \in 1 .. Len(s), j \in 1 .. Len(t) : <<s[i], t[j]>> \notin R
Apart(s, R) == \A i, j \in 1 .. Len(s) : i # j => <<s[i], s[j]>> \notin R

\* No two elements of the whole are related if none are within a part or of two parts.
LEMMA FlattenApart ==
  ASSUME NEW S, NEW R, NEW ss \in Seq(Seq(S)),
         \A e \in 1 .. Len(ss) : Apart(ss[e], R),
         \A e, f \in 1 .. Len(ss) : e # f => Unlike(ss[e], ss[f], R)
  PROVE  Apart(FlattenSeq(ss), R)
<1> DEFINE Given(tt) == /\ \A e \in 1 .. Len(tt) : Apart(tt[e], R)
                        /\ \A e, f \in 1 .. Len(tt) : e # f => Unlike(tt[e], tt[f], R)
<1>1. PICK N : N = {n \in Nat : \A tt \in Seq(Seq(S)) :
                                  Len(tt) = n /\ Given(tt) => Apart(FlattenSeq(tt), R)}
  OBVIOUS
<1>2. 0 \in N
  <2>1. ASSUME NEW tt \in Seq(Seq(S)), Len(tt) = 0 PROVE Apart(FlattenSeq(tt), R)
    <3>1. tt = <<>>
      BY <2>1
    <3>2. FlattenSeq(tt) = <<>>
      BY <3>1, FlattenEmpty
    <3>3. Len(<<>>) = 0 /\ 1 .. 0 = {}
      OBVIOUS
    <3> QED
      BY <3>2, <3>3 DEF Apart
  <2> HIDE DEF Given
  <2> QED
    BY <1>1, <2>1
<1>3. ASSUME NEW n \in Nat, n \in N PROVE n + 1 \in N
  <2>1. ASSUME NEW tt \in Seq(Seq(S)), Len(tt) = n + 1, Given(tt) PROVE Apart(FlattenSeq(tt), R)
    <3>20. Len(tt) = n + 1
      BY <2>1
    <3>1. PICK rr \in Seq(Seq(S)), s \in Seq(S) : Len(rr) = n /\ tt = Append(rr, s)
      <4>1. LastPut(Seq(S), tt, n)
        BY <3>20, LastOf
      <4> QED
        BY <4>1 DEF LastPut
    <3>2. tt[n + 1] = s /\ n + 1 \in 1 .. Len(tt) /\ \A e \in 1 .. n : tt[e] = rr[e] /\ e \in 1 .. Len(tt) /\ e # n + 1
      BY <2>1, <3>1
    <3>3. Given(rr) /\ Apart(s, R) /\ \A e \in 1 .. n : Unlike(rr[e], s, R) /\ Unlike(s, rr[e], R)
      BY <2>1, <3>1, <3>2
    <3>4. Apart(FlattenSeq(rr), R)
      <4> HIDE DEF Given
      <4> QED
        BY <1>1, <1>3, <3>1, <3>3
    <3>5. PICK a : a = FlattenSeq(rr)
      OBVIOUS
    <3>6. PICK b : b = FlattenSeq(tt)
      OBVIOUS
    <3>7. b = a \o s
      BY <3>1, <3>5, <3>6, FlattenStep
    <3>8. /\ a \in Seq(S)
          /\ \A p \in 1 .. Len(a) : \E e \in 1 .. Len(rr) : \E i \in 1 .. Len(rr[e]) : a[p] = rr[e][i]
      BY <3>5, FlattenMembers
    <3>9. Unlike(a, s, R) /\ Unlike(s, a, R)
      <4>1. ASSUME NEW i \in 1 .. Len(a), NEW j \in 1 .. Len(s)
            PROVE  <<a[i], s[j]>> \notin R /\ <<s[j], a[i]>> \notin R
        <5>1. PICK e \in 1 .. Len(rr) : \E m \in 1 .. Len(rr[e]) : a[i] = rr[e][m]
          BY <3>8
        <5>2. PICK m \in 1 .. Len(rr[e]) : a[i] = rr[e][m]
          BY <5>1
        <5>3. Unlike(rr[e], s, R) /\ Unlike(s, rr[e], R)
          BY <3>1, <3>3
        <5> QED
          BY <5>2, <5>3 DEF Unlike
      <4> QED
        BY <4>1 DEF Unlike
    <3>10. /\ Len(b) = Len(a) + Len(s) /\ Len(a) \in Nat /\ Len(s) \in Nat
           /\ \A p \in 1 .. Len(b) : b[p] = IF p <= Len(a) THEN a[p] ELSE s[p - Len(a)]
      BY <3>7, <3>8, ConcatProperties
    <3>11. \A p \in 1 .. Len(b) : \/ p \in 1 .. Len(a) /\ b[p] = a[p]
                                  \/ p - Len(a) \in 1 .. Len(s) /\ b[p] = s[p - Len(a)]
      BY <3>10
    <3>12. ASSUME NEW p \in 1 .. Len(b), NEW q \in 1 .. Len(b), p # q
           PROVE  <<b[p], b[q]>> \notin R
      <4>1. CASE p \in 1 .. Len(a) /\ b[p] = a[p] /\ q \in 1 .. Len(a) /\ b[q] = a[q]
        BY <3>4, <3>5, <3>12, <4>1 DEF Apart
      <4>2. CASE p \in 1 .. Len(a) /\ b[p] = a[p] /\ q - Len(a) \in 1 .. Len(s) /\ b[q] = s[q - Len(a)]
        BY <3>9, <4>2 DEF Unlike
      <4>3. CASE q \in 1 .. Len(a) /\ b[q] = a[q] /\ p - Len(a) \in 1 .. Len(s) /\ b[p] = s[p - Len(a)]
        BY <3>9, <4>3 DEF Unlike
      <4>4. CASE p - Len(a) \in 1 .. Len(s) /\ b[p] = s[p - Len(a)] /\ q - Len(a) \in 1 .. Len(s) /\ b[q] = s[q - Len(a)]
        <5>1. p - Len(a) # q - Len(a)
          BY <3>10, <3>12
        <5> QED
          BY <3>3, <4>4, <5>1 DEF Apart
      <4> QED
        BY <3>11, <4>1, <4>2, <4>3, <4>4
    <3> QED
      BY <3>6, <3>12 DEF Apart
  <2> HIDE DEF Given
  <2> QED
    BY <1>1, <2>1
<1>4. Nat \subseteq N
  <2> HIDE DEF Given
  <2> QED
    BY <1>2, <1>3, NatSet
<1>5. Given(ss)
  OBVIOUS
<1> HIDE DEF Given
<1> QED
  BY <1>1, <1>4, <1>5

\* A finite set as a sequence has each element of the set once.
LEMMA SetToSeqIs ==
  ASSUME NEW S, IsFiniteSet(S)
  PROVE  /\ SetToSeq(S) \in Seq(S) /\ Len(SetToSeq(S)) = Cardinality(S)
         /\ \A i, j \in 1 .. Len(SetToSeq(S)) : SetToSeq(S)[i] = SetToSeq(S)[j] => i = j
<1>1. PICK n \in Nat : n = Cardinality(S)
  BY FS_CardinalityType
<1>2. \E f : f \in Bijection(1 .. n, S)
  BY <1>1, FS_CardinalityType DEF ExistsBijection
<1>3. PICK f \in [1 .. n -> S] : IsInjective(f)
  BY <1>2 DEF Bijection, Injection
<1>4. PICK s : s = SetToSeq(S)
  OBVIOUS
<1>5. s \in [1 .. n -> S] /\ IsInjective(s)
  BY <1>1, <1>3, <1>4 DEF SetToSeq
<1>6. s \in Seq(S) /\ Len(s) = n
  BY <1>5
<1>7. \A i, j \in 1 .. n : s[i] = s[j] => i = j
  BY <1>5 DEF IsInjective
<1> QED
  BY <1>1, <1>4, <1>6, <1>7

-----------------------------------------------------------------------------
\* The proxy's log: what its lines say, and where those that make a solve are.

Gotwork == [template : Nat, at : Nat, found : Nat, parent : BOOLEAN, kids : SUBSET Kids]
Kinds == {"aux_hash", "accepted", "solve", "solve_status", "solve_detail"}
LogLine == [kind : Kinds, n : Nat, kid : Kids \cup {""}]

OfChild(line) == line.kind \in {"aux_hash", "accepted"}
OfSolve(line) == line.kind \in {"solve", "solve_status"}
SolveLine(n) == [kind |-> "solve", n |-> n, kid |-> ""]

\* A line of a child names it; a solve line is like any other of its gotwork.
WellWritten(line) ==
  /\ OfChild(line) => line.kid \in Kids
  /\ line.kind = "solve" => line = SolveLine(line.n)
\* Two lines that make a solve are about two gotworks, or are a solve and the
\* status right behind it.
SolvesApart(s) ==
  \A p, q \in 1 .. Len(s) :
    p < q /\ OfSolve(s[p]) /\ OfSolve(s[q]) /\ s[p].n = s[q].n =>
      s[p].kind = "solve" /\ s[q].kind = "solve_status" /\ q = p + 1

Written(s, S) ==
  /\ s \in Seq(LogLine)
  /\ \A p \in 1 .. Len(s) : s[p].n \in S /\ WellWritten(s[p])
  /\ SolvesApart(s)

\* What the proxy writes of one gotwork.
LEMMA LinesOfOne ==
  ASSUME NEW n \in Nat, NEW w \in Gotwork
  PROVE  Written(Lines(n, w), {n})
<1>1. PICK A : A = {line \in LogLine : OfChild(line) /\ line.n = n /\ line.kid \in Kids}
  OBVIOUS
<1>2. PICK K : K = w.kids
  OBVIOUS
<1>3. IsFiniteSet(K) /\ K \subseteq Kids
  <2>1. K \subseteq Kids
    BY <1>2 DEF Gotwork
  <2> QED
    BY <2>1, KidsAssumption, FS_Subset DEF KidsAssumption
<1>4. PICK m \in Nat : m = Cardinality(K)
  BY <1>3, FS_CardinalityType
<1>5. PICK accepted : accepted =
        [i \in 1 .. m |-> <<[kind |-> "aux_hash", n |-> n, kid |-> SetToSeq(K)[i]],
                            [kind |-> "accepted", n |-> n, kid |-> SetToSeq(K)[i]]>>]
  OBVIOUS
<1>6. accepted \in Seq(Seq(A))
  <2>1. ASSUME NEW i \in 1 .. m
        PROVE  accepted[i] \in Seq(A)
    <3>1. SetToSeq(K)[i] \in Kids
      <4>1. SetToSeq(K) \in Seq(K) /\ Len(SetToSeq(K)) = m
        BY <1>3, <1>4, SetToSeqIs
      <4> QED
        BY <1>3, <4>1
    <3>2. PICK kid \in Kids : kid = SetToSeq(K)[i]
      BY <3>1
    <3>3. PICK x : x = [kind |-> "aux_hash", n |-> n, kid |-> kid]
      OBVIOUS
    <3>4. PICK y : y = [kind |-> "accepted", n |-> n, kid |-> kid]
      OBVIOUS
    <3>5. x \in A /\ y \in A
      <4>1. x \in LogLine /\ y \in LogLine
        BY <3>3, <3>4 DEF LogLine, Kinds
      <4>2. /\ x.kind = "aux_hash" /\ x.n = n /\ x.kid \in Kids
            /\ y.kind = "accepted" /\ y.n = n /\ y.kid \in Kids
        BY <3>3, <3>4
      <4> QED
        BY <1>1, <4>1, <4>2 DEF OfChild
    <3>6. accepted[i] = <<x, y>>
      BY <1>5, <3>2, <3>3, <3>4
    <3> QED
      BY <3>5, <3>6
  <2>2. accepted = [i \in 1 .. m |-> accepted[i]]
    BY <1>5
  <2> QED
    BY <2>1, <2>2
<1>7. PICK a : a = FlattenSeq(accepted)
  OBVIOUS
<1>8. a \in Seq(A)
  BY <1>6, <1>7, FlattenMembers
<1>9. PICK b : b = IF w.parent \/ w.kids # {} THEN <<[kind |-> "solve_status", n |-> n, kid |-> ""]>> ELSE <<>>
  OBVIOUS
<1>10. PICK c : c = IF w.kids # {} THEN <<[kind |-> "solve_detail", n |-> n, kid |-> ""]>> ELSE <<>>
  OBVIOUS
<1>11. PICK s : s = ((a \o <<SolveLine(n)>>) \o b) \o c
  OBVIOUS
<1>12. Lines(n, w) = s
  BY <1>2, <1>4, <1>5, <1>7, <1>9, <1>10, <1>11 DEF Lines, SolveLine
<1>13. PICK x : x = SolveLine(n)
  OBVIOUS
<1>14. PICK y : y = [kind |-> "solve_status", n |-> n, kid |-> ""]
  OBVIOUS
<1>15. PICK z : z = [kind |-> "solve_detail", n |-> n, kid |-> ""]
  OBVIOUS
<1>16. /\ x \in LogLine /\ x.n = n /\ WellWritten(x) /\ x.kind = "solve"
       /\ y \in LogLine /\ y.n = n /\ WellWritten(y) /\ y.kind = "solve_status"
       /\ z \in LogLine /\ z.n = n /\ WellWritten(z) /\ ~ OfSolve(z)
  <2>1. x \in LogLine /\ y \in LogLine /\ z \in LogLine
    BY <1>13, <1>14, <1>15 DEF LogLine, SolveLine, Kinds
  <2>2. /\ x.n = n /\ x.kind = "solve" /\ y.n = n /\ y.kind = "solve_status"
        /\ z.n = n /\ z.kind = "solve_detail"
    BY <1>13, <1>14, <1>15 DEF SolveLine
  <2>3. WellWritten(x)
    BY <1>13, <2>2 DEF WellWritten, OfChild
  <2>4. WellWritten(y) /\ WellWritten(z) /\ ~ OfSolve(z)
    BY <2>2 DEF WellWritten, OfChild, OfSolve
  <2> QED
    BY <2>1, <2>2, <2>3, <2>4
<1>17. \A line \in A : line \in LogLine /\ line.n = n /\ WellWritten(line) /\ ~ OfSolve(line)
  BY <1>1 DEF WellWritten, OfChild, OfSolve
<1>18. a \in Seq(LogLine) /\ Len(a) \in Nat /\ \A p \in 1 .. Len(a) : a[p] \in A
  <2>1. A \subseteq LogLine
    BY <1>17
  <2> QED
    BY <1>8, <2>1
<1>19. /\ b \in Seq(LogLine) /\ Len(b) \in 0 .. 1 /\ \A p \in 1 .. Len(b) : b[p] = y
       /\ c \in Seq(LogLine) /\ Len(c) \in 0 .. 1 /\ \A p \in 1 .. Len(c) : c[p] = z
  <2>1. \A t \in LogLine : <<t>> \in Seq(LogLine) /\ Len(<<t>>) = 1 /\ \A p \in 1 .. 1 : <<t>>[p] = t
    OBVIOUS
  <2>2. <<>> \in Seq(LogLine) /\ Len(<<>>) = 0 /\ 1 .. 0 = {}
    OBVIOUS
  <2>3. 0 \in 0 .. 1 /\ 1 \in 0 .. 1
    OBVIOUS
  <2>4. b \in Seq(LogLine) /\ Len(b) \in 0 .. 1 /\ \A p \in 1 .. Len(b) : b[p] = y
    <3>1. b = <<y>> \/ b = <<>>
      BY <1>9, <1>14
    <3>2. CASE b = <<y>>
      BY <1>16, <2>1, <2>3, <3>2
    <3>3. CASE b = <<>>
      BY <2>2, <2>3, <3>3
    <3> QED
      BY <3>1, <3>2, <3>3
  <2>5. c \in Seq(LogLine) /\ Len(c) \in 0 .. 1 /\ \A p \in 1 .. Len(c) : c[p] = z
    <3>1. c = <<z>> \/ c = <<>>
      BY <1>10, <1>15
    <3>2. CASE c = <<z>>
      BY <1>16, <2>1, <2>3, <3>2
    <3>3. CASE c = <<>>
      BY <2>2, <2>3, <3>3
    <3> QED
      BY <3>1, <3>2, <3>3
  <2> QED
    BY <2>4, <2>5
<1>20. PICK d : d = a \o <<x>>
  OBVIOUS
<1>21. /\ d \in Seq(LogLine) /\ Len(d) = Len(a) + 1 /\ d[Len(a) + 1] = x
       /\ \A p \in 1 .. Len(a) : d[p] = a[p]
  BY <1>16, <1>18, <1>20
<1>22. PICK e : e = d \o b
  OBVIOUS
<1>23. /\ e \in Seq(LogLine) /\ Len(e) = Len(a) + 1 + Len(b)
       /\ \A p \in 1 .. Len(e) : IF p <= Len(a) + 1 THEN e[p] = d[p] ELSE e[p] = y /\ p = Len(a) + 2
  <2>1. /\ e \in Seq(LogLine) /\ Len(e) = Len(d) + Len(b)
        /\ \A p \in 1 .. Len(e) : e[p] = IF p <= Len(d) THEN d[p] ELSE b[p - Len(d)]
    <3>1. d \in Seq(LogLine) /\ b \in Seq(LogLine)
      BY <1>19, <1>21
    <3> QED
      BY <1>22, <3>1, ConcatProperties
  <2>2. ASSUME NEW p \in 1 .. Len(e), ~ (p <= Len(a) + 1)
        PROVE  e[p] = y /\ p = Len(a) + 2
    <3>1. p - Len(d) \in 1 .. Len(b) /\ p = Len(a) + 2
      <4>1. PICK i, j, k, l : i = Len(a) /\ j = Len(b) /\ k = Len(d) /\ l = Len(e)
        OBVIOUS
      <4>2. i \in Nat /\ j \in 0 .. 1 /\ k = i + 1 /\ l = k + j /\ p \in 1 .. l /\ ~ (p <= i + 1)
        BY <1>18, <1>19, <1>21, <2>1, <2>2, <4>1
      <4>3. p - k \in 1 .. j /\ p = i + 2
        BY <4>2
      <4> QED
        BY <4>1, <4>3
    <3> QED
      BY <1>19, <1>21, <2>1, <2>2, <3>1
  <2>3. Len(e) = Len(a) + 1 + Len(b)
    BY <1>18, <1>19, <1>21, <2>1
  <2> QED
    BY <1>21, <2>1, <2>2, <2>3
<1>24. /\ s \in Seq(LogLine) /\ Len(s) = Len(e) + Len(c)
       /\ \A p \in 1 .. Len(s) : s[p] = IF p <= Len(e) THEN e[p] ELSE c[p - Len(e)]
  <2>1. e \in Seq(LogLine) /\ c \in Seq(LogLine)
    BY <1>19, <1>23
  <2>2. s = e \o c
    BY <1>11, <1>13, <1>20, <1>22
  <2> QED
    BY <2>1, <2>2, ConcatProperties
<1>25. ASSUME NEW p \in 1 .. Len(s)
       PROVE  \/ s[p] \in A
              \/ p = Len(a) + 1 /\ s[p] = x
              \/ p = Len(a) + 2 /\ s[p] = y
              \/ s[p] = z
  <2>1. CASE p <= Len(a)
    <3>1. p <= Len(e) /\ p \in 1 .. Len(a) /\ p \in 1 .. Len(e) /\ p <= Len(a) + 1
      BY <1>18, <1>19, <1>23, <2>1
    <3> QED
      BY <1>18, <1>21, <1>23, <1>24, <3>1
  <2>2. CASE p = Len(a) + 1
    <3>1. p <= Len(e) /\ p \in 1 .. Len(e) /\ p <= Len(a) + 1
      BY <1>18, <1>19, <1>23, <2>2
    <3> QED
      BY <1>21, <1>23, <1>24, <2>2, <3>1
  <2>3. CASE p > Len(a) + 1 /\ p <= Len(e)
    <3>1. p \in 1 .. Len(e) /\ ~ (p <= Len(a) + 1)
      BY <1>18, <1>19, <1>23, <2>3
    <3> QED
      BY <1>23, <1>24, <2>3, <3>1
  <2>4. CASE p > Len(e)
    <3>1. ~ (p <= Len(e)) /\ p - Len(e) \in 1 .. Len(c)
      BY <1>18, <1>19, <1>23, <1>24, <2>4
    <3> QED
      BY <1>19, <1>24, <3>1
  <2> QED
    <3>1. p \in Nat /\ Len(a) \in Nat /\ Len(e) \in Nat
      BY <1>18, <1>23
    <3>2. p <= Len(a) \/ p = Len(a) + 1 \/ (p > Len(a) + 1 /\ p <= Len(e)) \/ p > Len(e)
      BY <3>1
    <3> QED
      BY <2>1, <2>2, <2>3, <2>4, <3>2
<1>26. \A p \in 1 .. Len(s) : s[p].n = n /\ WellWritten(s[p])
  BY <1>16, <1>17, <1>25
<1>27. SolvesApart(s)
  <2> SUFFICES ASSUME NEW p \in 1 .. Len(s), NEW q \in 1 .. Len(s), p < q, OfSolve(s[p]), OfSolve(s[q])
               PROVE  s[p].kind = "solve" /\ s[q].kind = "solve_status" /\ q = p + 1
    BY DEF SolvesApart
  <2>1. (p = Len(a) + 1 /\ s[p] = x) \/ (p = Len(a) + 2 /\ s[p] = y)
    BY <1>16, <1>17, <1>25
  <2>2. (q = Len(a) + 1 /\ s[q] = x) \/ (q = Len(a) + 2 /\ s[q] = y)
    BY <1>16, <1>17, <1>25
  <2>3. p = Len(a) + 1 /\ q = Len(a) + 2 /\ s[p] = x /\ s[q] = y
    BY <1>18, <2>1, <2>2
  <2> QED
    BY <1>16, <1>18, <2>3
<1> QED
  BY <1>12, <1>24, <1>26, <1>27 DEF Written

\* The log of one more gotwork.
LogOf(ws) == FlattenSeq([n \in DOMAIN ws |-> Lines(n, ws[n])])

\* The next gotwork puts its lines behind those of the others.
LEMMA LogStep ==
  ASSUME NEW ws \in Seq(Gotwork), NEW w \in Gotwork
  PROVE  LogOf(Append(ws, w)) = LogOf(ws) \o Lines(Len(ws) + 1, w)
<1>1. PICK m \in Nat : m = Len(ws)
  OBVIOUS
<1>2. PICK vs : vs = Append(ws, w)
  OBVIOUS
<1>3. /\ DOMAIN vs = 1 .. m + 1 /\ vs[m + 1] = w /\ DOMAIN ws = 1 .. m
      /\ \A n \in 1 .. m : vs[n] = ws[n] /\ ws[n] \in Gotwork
  BY <1>1, <1>2
<1>4. PICK a : a = [n \in 1 .. m |-> Lines(n, ws[n])]
  OBVIOUS
<1>5. PICK b : b = [n \in 1 .. m + 1 |-> Lines(n, vs[n])]
  OBVIOUS
<1>6. a \in Seq(Seq(LogLine)) /\ Len(a) = m /\ \A n \in 1 .. m : a[n] = Lines(n, ws[n])
  <2>1. \A n \in 1 .. m : Lines(n, ws[n]) \in Seq(LogLine)
    BY <1>3, LinesOfOne DEF Written
  <2>2. PICK T : T = Seq(LogLine)
    OBVIOUS
  <2>3. a \in [1 .. m -> T]
    BY <1>4, <2>1, <2>2
  <2> QED
    BY <1>4, <2>2, <2>3
<1>7. Lines(m + 1, w) \in Seq(LogLine)
  BY LinesOfOne DEF Written
<1>8. b = Append(a, Lines(m + 1, w))
  <2>1. PICK l : l = Lines(m + 1, w)
    OBVIOUS
  <2>2. b[m + 1] = l /\ \A n \in 1 .. m : b[n] = a[n]
    BY <1>3, <1>5, <1>6, <2>1
  <2>3. b = [n \in 1 .. m + 1 |-> b[n]]
    BY <1>5
  <2>4. PICK c : c = Append(a, l)
    OBVIOUS
  <2>5. PICK T : T = Seq(LogLine)
    OBVIOUS
  <2>6. a \in Seq(T) /\ l \in T
    BY <1>6, <1>7, <2>1, <2>5
  <2>7. c = [n \in 1 .. m + 1 |-> c[n]] /\ c[m + 1] = l /\ \A n \in 1 .. m : c[n] = a[n]
    <3>1. c \in Seq(T) /\ Len(c) = Len(a) + 1
      BY <2>4, <2>6
    <3>2. c[Len(a) + 1] = l /\ \A n \in 1 .. Len(a) : c[n] = a[n]
      BY <2>4, <2>6, AppendProperties
    <3>3. c = [n \in 1 .. Len(c) |-> c[n]]
      BY <3>1
    <3> QED
      BY <1>6, <3>1, <3>2, <3>3
  <2>8. \A n \in 1 .. m + 1 : b[n] = c[n]
    <3>1. \A n \in 1 .. m + 1 : n \in 1 .. m \/ n = m + 1
      OBVIOUS
    <3> QED
      BY <2>2, <2>7, <3>1
  <2>9. b = c
    BY <2>3, <2>7, <2>8
  <2> QED
    BY <2>1, <2>4, <2>9
<1>9. FlattenSeq(b) = FlattenSeq(a) \o Lines(m + 1, w)
  BY <1>6, <1>7, <1>8, FlattenStep
<1>10. LogOf(vs) = FlattenSeq(b) /\ LogOf(ws) = FlattenSeq(a)
  BY <1>3, <1>4, <1>5 DEF LogOf
<1> QED
  BY <1>1, <1>2, <1>9, <1>10

\* Two logs one behind the other, of different gotworks.
LEMMA WrittenBehind ==
  ASSUME NEW s, NEW t, NEW S, NEW T, Written(s, S), Written(t, T), S \cap T = {},
         NEW r, r = s \o t
  PROVE  /\ Written(r, S \cup T) /\ Len(r) = Len(s) + Len(t)
         /\ \A p \in 1 .. Len(s) : r[p] = s[p]
         /\ \A p \in 1 .. Len(t) : r[Len(s) + p] = t[p]
<1>1. /\ s \in Seq(LogLine) /\ t \in Seq(LogLine) /\ Len(s) \in Nat /\ Len(t) \in Nat
      /\ \A p \in 1 .. Len(s) : s[p].n \in S /\ WellWritten(s[p])
      /\ \A p \in 1 .. Len(t) : t[p].n \in T /\ WellWritten(t[p])
      /\ SolvesApart(s) /\ SolvesApart(t)
  BY DEF Written
<1>2. /\ r \in Seq(LogLine) /\ Len(r) = Len(s) + Len(t)
      /\ \A p \in 1 .. Len(r) : r[p] = IF p <= Len(s) THEN s[p] ELSE t[p - Len(s)]
  BY <1>1, ConcatProperties
<1>3. \A p \in 1 .. Len(s) : r[p] = s[p]
  BY <1>1, <1>2
<1>4. \A p \in 1 .. Len(t) : r[Len(s) + p] = t[p]
  <2> SUFFICES ASSUME NEW p \in 1 .. Len(t) PROVE r[Len(s) + p] = t[p]
    OBVIOUS
  <2>1. Len(s) + p \in 1 .. Len(r) /\ ~ (Len(s) + p <= Len(s)) /\ (Len(s) + p) - Len(s) = p
    BY <1>1, <1>2
  <2> QED
    BY <1>2, <2>1
<1>5. \A p \in 1 .. Len(r) : \/ p \in 1 .. Len(s) /\ r[p] = s[p]
                             \/ p - Len(s) \in 1 .. Len(t) /\ r[p] = t[p - Len(s)] /\ p > Len(s)
  BY <1>1, <1>2
<1>6. \A p \in 1 .. Len(r) : r[p].n \in S \cup T /\ WellWritten(r[p])
  BY <1>1, <1>5
<1>7. SolvesApart(r)
  <2> SUFFICES ASSUME NEW p \in 1 .. Len(r), NEW q \in 1 .. Len(r), p < q,
                      OfSolve(r[p]), OfSolve(r[q]), r[p].n = r[q].n
               PROVE  r[p].kind = "solve" /\ r[q].kind = "solve_status" /\ q = p + 1
    BY DEF SolvesApart
  <2>1. CASE p \in 1 .. Len(s) /\ r[p] = s[p]
    <3>1. q \in 1 .. Len(s) /\ r[q] = s[q]
      BY <1>1, <1>5, <2>1
    <3> QED
      BY <1>1, <2>1, <3>1 DEF SolvesApart
  <2>2. CASE p - Len(s) \in 1 .. Len(t) /\ r[p] = t[p - Len(s)] /\ p > Len(s)
    <3>1. q - Len(s) \in 1 .. Len(t) /\ r[q] = t[q - Len(s)]
      BY <1>1, <1>5, <2>2
    <3>2. PICK i \in 1 .. Len(t) : i = p - Len(s)
      BY <2>2
    <3>3. PICK j \in 1 .. Len(t) : j = q - Len(s)
      BY <3>1
    <3>4. i < j
      BY <1>1, <3>2, <3>3
    <3>5. t[i].kind = "solve" /\ t[j].kind = "solve_status" /\ j = i + 1
      <4>1. r[p] = t[i] /\ r[q] = t[j]
        BY <2>2, <3>1, <3>2, <3>3
      <4>2. OfSolve(t[i]) /\ OfSolve(t[j]) /\ t[i].n = t[j].n
        BY <4>1
      <4> QED
        BY <1>1, <3>4, <4>2 DEF SolvesApart
    <3> QED
      BY <1>1, <2>2, <3>1, <3>2, <3>3, <3>5
  <2> QED
    BY <1>5, <2>1, <2>2
<1> QED
  BY <1>2, <1>3, <1>4, <1>6, <1>7 DEF Written

\* What the proxy's log holds, by induction over the gotworks.
LEMMA LogWritten ==
  ASSUME NEW ws \in Seq(Gotwork)
  PROVE  Written(LogOf(ws), 1 .. Len(ws))
<1>1. PICK N : N = {k \in Nat : \A vs \in Seq(Gotwork) : Len(vs) = k => Written(LogOf(vs), 1 .. k)}
  OBVIOUS
<1>2. 0 \in N
  <2>1. ASSUME NEW vs \in Seq(Gotwork), Len(vs) = 0 PROVE Written(LogOf(vs), 1 .. 0)
    <3>1. DOMAIN vs = {}
      BY <2>1
    <3>2. PICK a : a = [n \in DOMAIN vs |-> Lines(n, vs[n])]
      OBVIOUS
    <3>3. a = <<>>
      BY <3>1, <3>2
    <3>4. LogOf(vs) = <<>>
      BY <3>2, <3>3, FlattenEmpty DEF LogOf
    <3>5. <<>> \in Seq(LogLine) /\ Len(<<>>) = 0 /\ 1 .. 0 = {}
      OBVIOUS
    <3> QED
      BY <3>4, <3>5 DEF Written, SolvesApart
  <2> QED
    BY <1>1, <2>1
<1>3. ASSUME NEW k \in Nat, k \in N PROVE k + 1 \in N
  <2>1. ASSUME NEW vs \in Seq(Gotwork), Len(vs) = k + 1 PROVE Written(LogOf(vs), 1 .. k + 1)
    <3>1. LastPut(Gotwork, vs, k)
      BY <2>1, LastOf
    <3>2. PICK us \in Seq(Gotwork) : \E w \in Gotwork : Len(us) = k /\ vs = Append(us, w)
      BY <3>1 DEF LastPut
    <3>3. PICK w \in Gotwork : Len(us) = k /\ vs = Append(us, w)
      BY <3>2
    <3>4. Written(LogOf(us), 1 .. k)
      BY <1>1, <1>3, <3>3
    <3>5. Written(Lines(k + 1, w), {k + 1})
      <4>1. k + 1 \in Nat
        OBVIOUS
      <4> QED
        BY <4>1, LinesOfOne
    <3>6. LogOf(vs) = LogOf(us) \o Lines(k + 1, w)
      BY <3>3, LogStep
    <3>7. (1 .. k) \cap {k + 1} = {} /\ (1 .. k) \cup {k + 1} = 1 .. k + 1
      OBVIOUS
    <3>8. Written(LogOf(vs), (1 .. k) \cup {k + 1})
      <4>1. PICK S : S = 1 .. k
        OBVIOUS
      <4>2. PICK T : T = {k + 1}
        OBVIOUS
      <4>3. Written(LogOf(us), S) /\ Written(Lines(k + 1, w), T) /\ S \cap T = {}
        BY <3>4, <3>5, <3>7, <4>1, <4>2
      <4>4. Written(LogOf(vs), S \cup T)
        BY <3>6, <4>3, WrittenBehind
      <4> QED
        BY <4>1, <4>2, <4>4
    <3> QED
      BY <3>7, <3>8
  <2> QED
    BY <1>1, <2>1
<1>4. Nat \subseteq N
  BY <1>2, <1>3, NatSet
<1>5. Len(ws) \in Nat
  OBVIOUS
<1> QED
  BY <1>1, <1>4, <1>5

-----------------------------------------------------------------------------
\* What the dashboard reads: a part of the log ...

PartOf(log, S, o, k, chunk) ==
  /\ Written(chunk, S) /\ Len(chunk) = k - o
  /\ \A p \in 1 .. Len(chunk) : chunk[p] = log[o + p] /\ o + p \in 1 .. Len(log)
LEMMA ChunkOf ==
  ASSUME NEW log, NEW S, Written(log, S), NEW o \in Nat, NEW k \in Nat, o <= k, k <= Len(log),
         NEW chunk, chunk = SubSeq(log, o + 1, k)
  PROVE  PartOf(log, S, o, k, chunk)
<1>1. /\ log \in Seq(LogLine) /\ Len(log) \in Nat /\ SolvesApart(log)
      /\ \A p \in 1 .. Len(log) : log[p] \in LogLine /\ log[p].n \in S /\ WellWritten(log[p])
  BY DEF Written
<1>2. /\ chunk \in Seq(LogLine) /\ Len(chunk) = k - o
      /\ \A p \in 1 .. k - o : chunk[p] = log[o + 1 + p - 1]
  <2>1. \A p \in o + 1 .. k : log[p] \in LogLine
    BY <1>1
  <2>2. o + 1 \in Nat \ {0} /\ (IF o + 1 <= k THEN k - (o + 1) + 1 ELSE 0) = k - o
    OBVIOUS
  <2>3. k - (o + 1) + 1 = k - o
    OBVIOUS
  <2> QED
    BY <2>1, <2>2, <2>3, SubSeqProperties
<1>3. \A p \in 1 .. Len(chunk) : chunk[p] = log[o + p] /\ o + p \in 1 .. Len(log)
  <2>1. \A p \in 1 .. k - o : o + 1 + p - 1 = o + p /\ o + p \in 1 .. Len(log)
    BY <1>1
  <2> QED
    BY <1>2, <2>1
<1>4. SolvesApart(chunk)
  <2> SUFFICES ASSUME NEW p \in 1 .. Len(chunk), NEW q \in 1 .. Len(chunk), p < q,
                      OfSolve(chunk[p]), OfSolve(chunk[q]), chunk[p].n = chunk[q].n
               PROVE  chunk[p].kind = "solve" /\ chunk[q].kind = "solve_status" /\ q = p + 1
    BY DEF SolvesApart
  <2>1. PICK i \in 1 .. Len(log) : i = o + p /\ chunk[p] = log[i]
    BY <1>3
  <2>2. PICK j \in 1 .. Len(log) : j = o + q /\ chunk[q] = log[j]
    BY <1>3
  <2>3. i < j
    BY <1>2, <2>1, <2>2
  <2>4. log[i].kind = "solve" /\ log[j].kind = "solve_status" /\ j = i + 1
    BY <1>1, <2>1, <2>2, <2>3 DEF SolvesApart
  <2> QED
    BY <1>2, <2>1, <2>2, <2>4
<1> QED
  BY <1>1, <1>2, <1>3, <1>4 DEF Written, PartOf

\* ... from which it takes the lines that make a solve ...
Solved == [n : Nat, status : BOOLEAN, details : SUBSET Kids]
SolveLines(chunk) == {i \in DOMAIN chunk : chunk[i].kind \in {"solve", "solve_status"}}

\* The accepted lines before a solve line name child chains.
LEMMA WindowIs ==
  ASSUME NEW chunk, NEW S, Written(chunk, S), NEW from \in Nat, NEW to \in 1 .. Len(chunk)
  PROVE  Window(chunk, from, to) \in SUBSET Kids
<1>1. Len(chunk) \in Nat /\ \A k \in 1 .. Len(chunk) : chunk[k].kind = "accepted" => chunk[k].kid \in Kids
  BY DEF Written, WellWritten, OfChild
<1>2. \A k \in from + 1 .. to - 1 : k \in 1 .. Len(chunk)
  BY <1>1
<1> QED
  BY <1>1, <1>2 DEF Window

\* The numbers of a set, as Sorted lists them, ascend.
LEMMA SortedAscends ==
  ASSUME NEW S, Finite(S), NEW at, at = Sorted(S)
  PROVE  \A i, j \in 1 .. Len(at) : i < j => at[i] < at[j]
<1>1. /\ Len(at) = Cardinality(S) /\ S \subseteq Nat /\ at \in Seq(Nat)
      /\ \A k \in 1 .. Len(at) : at[k] \in S /\ Rank(S, at[k]) = k
  BY SortedIs DEF Finite
<1>2. \A m, n \in S : m < n => Rank(S, m) < Rank(S, n)
  BY RankIn
<1> SUFFICES ASSUME NEW i \in 1 .. Len(at), NEW j \in 1 .. Len(at), i < j PROVE at[i] < at[j]
  OBVIOUS
<1>3. PICK m \in S : m = at[i] /\ Rank(S, m) = i
  BY <1>1
<1>4. PICK n \in S : n = at[j] /\ Rank(S, n) = j
  BY <1>1
<1>5. m \in Nat /\ n \in Nat /\ i \in Nat /\ j \in Nat
  BY <1>1
<1>6. m # n /\ ~ (n < m)
  BY <1>2, <1>3, <1>4, <1>5
<1> QED
  BY <1>3, <1>4, <1>5, <1>6

\* One candidate per line of a solve, in the order of the lines.
LEMMA CandidatesAre ==
  ASSUME NEW ws \in Seq(Gotwork), NEW chunk, Written(chunk, 1 .. Len(ws)),
         NEW cs, cs = Candidates(chunk, ws), NEW at, at = Sorted(SolveLines(chunk))
  PROVE  /\ cs \in Seq(Solved) /\ Len(cs) = Len(at) /\ Len(at) \in Nat
         /\ \A c \in 1 .. Len(at) : at[c] \in 1 .. Len(chunk) /\ OfSolve(chunk[at[c]])
         /\ \A c, d \in 1 .. Len(at) : c < d => at[c] < at[d]
         /\ \A c \in 1 .. Len(cs) : /\ cs[c].n = chunk[at[c]].n
                                    /\ cs[c].status => chunk[at[c]].kind = "solve_status"
                                    /\ chunk[at[c]].kind = "solve_status" => cs[c].status
<1>1. /\ chunk \in Seq(LogLine) /\ Len(chunk) \in Nat /\ DOMAIN chunk = 1 .. Len(chunk)
      /\ \A p \in 1 .. Len(chunk) : chunk[p] \in LogLine /\ chunk[p].n \in 1 .. Len(ws)
  BY DEF Written
<1>2. Finite(SolveLines(chunk)) /\ SolveLines(chunk) \subseteq 1 .. Len(chunk)
  <2>1. IsFiniteSet(1 .. Len(chunk)) /\ 1 .. Len(chunk) \subseteq Nat
    <3>1. Len(chunk) \in Nat
      BY <1>1
    <3>2. IsFiniteSet(1 .. Len(chunk))
      BY <3>1, FS_Interval
    <3> QED
      BY <3>1, <3>2
  <2>2. SolveLines(chunk) \subseteq 1 .. Len(chunk)
    BY <1>1 DEF SolveLines
  <2> QED
    BY <2>1, <2>2, FS_Subset DEF Finite
<1>3. /\ at \in Seq(Nat) /\ Len(at) \in Nat /\ DOMAIN at = 1 .. Len(at)
      /\ \A c \in 1 .. Len(at) : at[c] \in SolveLines(chunk)
  <2>1. /\ at \in Seq(Nat) /\ Len(at) = Cardinality(SolveLines(chunk)) /\ Len(at) \in Nat
        /\ \A c \in 1 .. Cardinality(SolveLines(chunk)) : at[c] \in SolveLines(chunk)
    BY <1>2, SortedIs
  <2> QED
    BY <2>1
<1>4. \A c, d \in 1 .. Len(at) : c < d => at[c] < at[d]
  BY <1>2, SortedAscends
<1>5. \A c \in 1 .. Len(at) : at[c] \in 1 .. Len(chunk) /\ at[c] \in Nat /\ OfSolve(chunk[at[c]])
  BY <1>1, <1>2, <1>3 DEF SolveLines, OfSolve
<1> DEFINE detailed(n) == \E i \in DOMAIN chunk : chunk[i].kind = "solve_detail" /\ chunk[i].n = n
           details(c) == IF chunk[at[c]].kind = "solve_status" /\ detailed(chunk[at[c]].n)
                         THEN ws[chunk[at[c]].n].kids
                         ELSE Window(chunk, IF c = 1 THEN 0 ELSE at[c - 1], at[c])
<1>6. cs = [c \in 1 .. Len(at) |-> [n |-> chunk[at[c]].n,
                                    status |-> chunk[at[c]].kind = "solve_status",
                                    details |-> details(c)]]
  BY <1>3 DEF Candidates, SolveLines
<1>7. \A c \in 1 .. Len(at) : details(c) \in SUBSET Kids
  <2> SUFFICES ASSUME NEW c \in 1 .. Len(at) PROVE details(c) \in SUBSET Kids
    OBVIOUS
  <2>1. at[c] \in 1 .. Len(chunk)
    BY <1>5
  <2>2. ws[chunk[at[c]].n].kids \in SUBSET Kids
    <3>1. PICK n \in 1 .. Len(ws) : n = chunk[at[c]].n
      BY <1>1, <2>1
    <3>2. ws[n] \in Gotwork
      OBVIOUS
    <3> QED
      BY <3>1, <3>2 DEF Gotwork
  <2>3. PICK from : from = (IF c = 1 THEN 0 ELSE at[c - 1])
    OBVIOUS
  <2>4. from \in Nat
    <3>1. c # 1 => c - 1 \in 1 .. Len(at)
      BY <1>3
    <3> QED
      BY <1>5, <2>3, <3>1
  <2>5. Window(chunk, from, at[c]) \in SUBSET Kids
    BY <2>1, <2>4, WindowIs
  <2> QED
    BY <2>2, <2>3, <2>5
<1> HIDE DEF details
<1>8. \A c \in 1 .. Len(at) : cs[c] \in Solved
  <2> SUFFICES ASSUME NEW c \in 1 .. Len(at) PROVE cs[c] \in Solved
    OBVIOUS
  <2>1. chunk[at[c]].n \in Nat
    BY <1>1, <1>5
  <2>2. PICK b \in BOOLEAN : b = (chunk[at[c]].kind = "solve_status")
    OBVIOUS
  <2>3. cs[c] = [n |-> chunk[at[c]].n, status |-> b, details |-> details(c)]
    BY <1>6, <2>2, Zenon
  <2> QED
    BY <1>7, <2>1, <2>3 DEF Solved
<1>9. cs \in Seq(Solved) /\ Len(cs) = Len(at)
  <2>1. cs = [c \in 1 .. Len(at) |-> cs[c]]
    BY <1>6
  <2> QED
    BY <1>3, <1>8, <2>1
<1>10. \A c \in 1 .. Len(cs) : /\ cs[c].n = chunk[at[c]].n
                               /\ cs[c].status => chunk[at[c]].kind = "solve_status"
                               /\ chunk[at[c]].kind = "solve_status" => cs[c].status
  <2> SUFFICES ASSUME NEW c \in 1 .. Len(cs)
               PROVE  /\ cs[c].n = chunk[at[c]].n
                      /\ cs[c].status => chunk[at[c]].kind = "solve_status"
                      /\ chunk[at[c]].kind = "solve_status" => cs[c].status
    OBVIOUS
  <2>1. PICK b \in BOOLEAN : b = (chunk[at[c]].kind = "solve_status")
    OBVIOUS
  <2>2. c \in 1 .. Len(at)
    BY <1>9
  <2>3. cs[c] = [n |-> chunk[at[c]].n, status |-> b, details |-> details(c)]
    BY <1>6, <2>1, <2>2, Zenon
  <2>4. cs[c].n = chunk[at[c]].n /\ cs[c].status = b
    BY <2>3
  <2> QED
    BY <2>1, <2>4, Zenon
<1> QED
  BY <1>3, <1>4, <1>5, <1>9, <1>10

\* ... and merges a solve line with the status behind it.
First(cs, c) == ~ cs[c].status /\ c < Len(cs) /\ cs[c + 1].status

MergedFrom(cs, ms, kept) ==
  /\ ms \in Seq(Solved) /\ Len(ms) = Len(kept) /\ Len(kept) \in Nat
  /\ \A i \in 1 .. Len(kept) : kept[i] \in 1 .. Len(cs) /\ ~ First(cs, kept[i])
  /\ \A i, j \in 1 .. Len(kept) : i < j => kept[i] < kept[j]
  /\ \A i \in 1 .. Len(ms) : ms[i].n = cs[kept[i]].n

\* What is left when a solve line is merged with the status behind it.
LEMMA MergedAre ==
  ASSUME NEW cs \in Seq(Solved), NEW ms, ms = Merged(cs),
         NEW kept, kept = Sorted({c \in DOMAIN cs : ~ First(cs, c)})
  PROVE  MergedFrom(cs, ms, kept)
<1>1. Len(cs) \in Nat /\ DOMAIN cs = 1 .. Len(cs) /\ \A c \in 1 .. Len(cs) : cs[c] \in Solved
  OBVIOUS
<1>2. PICK S : S = {c \in DOMAIN cs : ~ First(cs, c)}
  OBVIOUS
<1>3. Finite(S) /\ kept = Sorted(S) /\ \A c \in S : c \in 1 .. Len(cs) /\ ~ First(cs, c)
  <2>1. S \subseteq 1 .. Len(cs)
    BY <1>1, <1>2
  <2>2. IsFiniteSet(1 .. Len(cs)) /\ 1 .. Len(cs) \subseteq Nat
    BY <1>1, FS_Interval
  <2> QED
    BY <1>1, <1>2, <2>1, <2>2, FS_Subset DEF Finite
<1>4. /\ kept \in Seq(Nat) /\ Len(kept) \in Nat /\ DOMAIN kept = 1 .. Len(kept)
      /\ \A i \in 1 .. Len(kept) : kept[i] \in S
  <2>1. /\ kept \in Seq(Nat) /\ Len(kept) = Cardinality(S) /\ Len(kept) \in Nat
        /\ \A i \in 1 .. Cardinality(S) : kept[i] \in S
    <3>1. /\ Sorted(S) \in Seq(Nat) /\ Len(Sorted(S)) = Cardinality(S) /\ Cardinality(S) \in Nat
          /\ \A k \in 1 .. Cardinality(S) : Sorted(S)[k] \in S
      BY <1>3, SortedIs
    <3> QED
      BY <1>3, <3>1
  <2>2. DOMAIN kept = 1 .. Len(kept)
    BY <2>1
  <2> QED
    BY <2>1, <2>2
<1>5. \A i, j \in 1 .. Len(kept) : i < j => kept[i] < kept[j]
  BY <1>3, SortedAscends
<1> DEFINE one(c) == IF (c > 1 /\ First(cs, c - 1)) /\ cs[c].details = {}
                     THEN [cs[c] EXCEPT !.details = cs[c - 1].details] ELSE cs[c]
<1>6. ms = [i \in 1 .. Len(kept) |-> one(kept[i])]
  BY <1>2, <1>3, <1>4 DEF Merged, First
<1>7. \A c \in 1 .. Len(cs) : one(c) \in Solved /\ one(c).n = cs[c].n
  <2> SUFFICES ASSUME NEW c \in 1 .. Len(cs) PROVE one(c) \in Solved /\ one(c).n = cs[c].n
    OBVIOUS
  <2>1. CASE c > 1
    <3>1. cs[c] \in Solved /\ cs[c - 1] \in Solved
      BY <1>1, <2>1
    <3>2. [cs[c] EXCEPT !.details = cs[c - 1].details] \in Solved
      BY <3>1 DEF Solved
    <3>3. [cs[c] EXCEPT !.details = cs[c - 1].details].n = cs[c].n
      BY <3>1 DEF Solved
    <3> QED
      BY <3>1, <3>2, <3>3
  <2>2. CASE ~ (c > 1)
    BY <1>1, <2>2
  <2> QED
    BY <2>1, <2>2
<1> HIDE DEF one
<1>8. ms \in Seq(Solved) /\ Len(ms) = Len(kept)
  <2>1. \A i \in 1 .. Len(kept) : one(kept[i]) \in Solved
    BY <1>3, <1>4, <1>7
  <2> QED
    BY <1>4, <1>6, <2>1
<1>9. \A i \in 1 .. Len(ms) : ms[i].n = cs[kept[i]].n
  BY <1>3, <1>4, <1>6, <1>7, <1>8
<1> QED
  BY <1>3, <1>4, <1>5, <1>8, <1>9 DEF MergedFrom

\* Of one read, no two solves are about the same gotwork.
ParsedFrom(chunk, ms) ==
  /\ ms \in Seq(Solved)
  /\ \A i \in 1 .. Len(ms) : \E p \in 1 .. Len(chunk) : OfSolve(chunk[p]) /\ ms[i].n = chunk[p].n
  /\ \A i, j \in 1 .. Len(ms) : ms[i].n = ms[j].n => i = j
LEMMA ParsedAre ==
  ASSUME NEW ws \in Seq(Gotwork), NEW chunk, Written(chunk, 1 .. Len(ws)),
         NEW ms, ms = ParseProxySolves(chunk, ws)
  PROVE  ParsedFrom(chunk, ms)
<1>1. PICK cs : cs = Candidates(chunk, ws)
  OBVIOUS
<1>2. PICK at : at = Sorted(SolveLines(chunk))
  OBVIOUS
<1>3. /\ cs \in Seq(Solved) /\ Len(cs) = Len(at) /\ Len(at) \in Nat
      /\ \A c \in 1 .. Len(at) : at[c] \in 1 .. Len(chunk) /\ OfSolve(chunk[at[c]])
      /\ \A c, d \in 1 .. Len(at) : c < d => at[c] < at[d]
      /\ \A c \in 1 .. Len(cs) : /\ cs[c].n = chunk[at[c]].n
                                 /\ cs[c].status => chunk[at[c]].kind = "solve_status"
                                 /\ chunk[at[c]].kind = "solve_status" => cs[c].status
  BY <1>1, <1>2, CandidatesAre
<1>4. PICK kept : kept = Sorted({c \in DOMAIN cs : ~ First(cs, c)})
  OBVIOUS
<1>5. /\ ms \in Seq(Solved) /\ Len(ms) = Len(kept) /\ Len(kept) \in Nat
      /\ \A i \in 1 .. Len(kept) : kept[i] \in 1 .. Len(cs) /\ ~ First(cs, kept[i])
      /\ \A i, j \in 1 .. Len(kept) : i < j => kept[i] < kept[j]
      /\ \A i \in 1 .. Len(ms) : ms[i].n = cs[kept[i]].n
  <2>1. ms = Merged(cs)
    BY <1>1 DEF ParseProxySolves
  <2> QED
    <3>1. cs \in Seq(Solved)
      BY <1>3
    <3>2. MergedFrom(cs, ms, kept)
      BY <1>4, <2>1, <3>1, MergedAre
    <3> QED
      BY <3>2 DEF MergedFrom
<1>6. \A i \in 1 .. Len(ms) : \E p \in 1 .. Len(chunk) : OfSolve(chunk[p]) /\ ms[i].n = chunk[p].n
  <2> SUFFICES ASSUME NEW i \in 1 .. Len(ms)
               PROVE  \E p \in 1 .. Len(chunk) : OfSolve(chunk[p]) /\ ms[i].n = chunk[p].n
    OBVIOUS
  <2>1. PICK c \in 1 .. Len(cs) : ms[i].n = cs[c].n
    BY <1>5
  <2>2. PICK p \in 1 .. Len(chunk) : p = at[c] /\ OfSolve(chunk[p]) /\ cs[c].n = chunk[p].n
    BY <1>3
  <2> QED
    BY <2>1, <2>2
<1>7. ASSUME NEW i \in 1 .. Len(ms), NEW j \in 1 .. Len(ms), i < j, ms[i].n = ms[j].n
      PROVE  FALSE
  <2>1. PICK c \in 1 .. Len(cs) : c = kept[i] /\ ~ First(cs, c) /\ ms[i].n = cs[c].n
    BY <1>5
  <2>2. PICK d \in 1 .. Len(cs) : d = kept[j] /\ ms[j].n = cs[d].n
    BY <1>5
  <2>3. c < d
    BY <1>5, <1>7, <2>1, <2>2
  <2>4. PICK p \in 1 .. Len(chunk) : p = at[c] /\ OfSolve(chunk[p]) /\ cs[c].n = chunk[p].n
    BY <1>3
  <2>5. PICK q \in 1 .. Len(chunk) : q = at[d] /\ OfSolve(chunk[q]) /\ cs[d].n = chunk[q].n
    BY <1>3
  <2>6. p < q
    BY <1>3, <2>3, <2>4, <2>5
  <2>7. chunk[p].kind = "solve" /\ chunk[q].kind = "solve_status" /\ q = p + 1
    <3>1. chunk[p].n = chunk[q].n /\ SolvesApart(chunk)
      BY <1>7, <2>1, <2>2, <2>4, <2>5 DEF Written
    <3> QED
      BY <2>4, <2>5, <2>6, <3>1 DEF SolvesApart
  <2>8. d = c + 1
    <3>1. c + 1 \in 1 .. Len(at) /\ c < c + 1 /\ (c + 1 = d \/ c + 1 < d)
      BY <1>3, <2>3
    <3>2. at[c + 1] \in 1 .. Len(chunk) /\ at[c] < at[c + 1] /\ (c + 1 < d => at[c + 1] < at[d])
      BY <1>3, <3>1
    <3>3. PICK r \in Nat : r = at[c + 1]
      BY <3>2
    <3>4. p < r /\ (c + 1 < d => r < p + 1) /\ p \in Nat
      BY <2>4, <2>5, <2>7, <3>2, <3>3
    <3> QED
      BY <3>1, <3>4
  <2>9. c < Len(cs) /\ cs[c + 1].status /\ ~ cs[c].status
    <3>1. c < Len(cs)
      BY <1>3, <2>3
    <3>2. cs[c + 1].status
      BY <1>3, <2>5, <2>7, <2>8
    <3>3. ~ cs[c].status
      <4>1. cs[c].status => chunk[p].kind = "solve_status"
        BY <1>3, <2>4
      <4> QED
        BY <2>7, <4>1
    <3> QED
      BY <3>1, <3>2, <3>3
  <2> QED
    BY <2>1, <2>9 DEF First
<1>8. ASSUME NEW i \in 1 .. Len(ms), NEW j \in 1 .. Len(ms), ms[i].n = ms[j].n
      PROVE  i = j
  <2>1. i \in Nat /\ j \in Nat
    BY <1>5
  <2>2. ~ (i < j) /\ ~ (j < i)
    BY <1>7, <1>8
  <2> QED
    BY <2>1, <2>2
<1> QED
  BY <1>5, <1>6, <1>8 DEF ParsedFrom

-----------------------------------------------------------------------------
\* Events: each block takes a solve that none before it took, and what is left
\* makes events of its own.

Detail == [n : Nat, kid : Kids]
Event == {event \in [block : Nat, n : Nat, details : SUBSET Detail] : IsFiniteSet(event.details)}
DetailsOf(ss, i) == {[n |-> ss[i].n, kid |-> k] : k \in ss[i].details}

\* The gotworks of which two solves were read.
Twice(ss) == {n \in Nat : \E i, j \in 1 .. Len(ss) : i # j /\ ss[i].n = n /\ ss[j].n = n}
TakenFrom(es, ss, used) == \A e \in 1 .. Len(es) : \A d \in es[e].details : \E i \in used : d.n = ss[i].n
OnceEach(es, ss) == \A e, f \in 1 .. Len(es) : e # f =>
                      \A c \in es[e].details : \A d \in es[f].details : c.n = d.n => c.n \in Twice(ss)

\* The least and the greatest of some numbers are among them.
LEMMA MinIn == ASSUME NEW T \in SUBSET Nat, T # {} PROVE Min(T) \in T
<1>1. PICK x \in T : \A y \in T : x <= y
  BY Least
<1> QED
  BY <1>1 DEF Min

LEMMA MaxIn ==
  ASSUME NEW T \in SUBSET Nat, IsFiniteSet(T), T # {}
  PROVE  Max(T) \in T /\ \A y \in T : y <= Max(T)
<1>1. Finite(T)
  BY DEF Finite
<1>2. PICK m \in Nat : m = Cardinality(T)
  BY FS_CardinalityType
<1>3. m # 0
  BY <1>2, FS_EmptySet
<1>4. m \in 1 .. Cardinality(T)
  BY <1>2, <1>3
<1>5. PICK x \in T : Rank(T, x) = m
  BY <1>1, <1>4, Ranked
<1>6. \A y \in T : y <= x
  <2> SUFFICES ASSUME NEW y \in T PROVE y <= x
    OBVIOUS
  <2>1. Rank(T, y) \in 1 .. m /\ (x < y => Rank(T, x) < Rank(T, y))
    BY <1>1, <1>2, RankIn
  <2>2. ~ (x < y)
    BY <1>5, <2>1
  <2> QED
    BY <2>2
<1>7. \A y \in T : x >= y
  BY <1>6
<1>8. PICK z : z = Max(T)
  OBVIOUS
<1>9. z \in T /\ \A y \in T : z >= y
  BY <1>7, <1>8 DEF Max
<1> QED
  BY <1>8, <1>9

\* What the blocks take, one after the other.
LEMMA TakenIs ==
  ASSUME NEW ss \in Seq(Solved), NEW ws, NEW gap, NEW block \in Nat, NEW used,
         NEW t, t = Taken(ss, ws, gap, block, used)
  PROVE  t = {} \/ \E i \in 1 .. Len(ss) : i \notin used /\ t = {i}
<1>1. DOMAIN ss = 1 .. Len(ss) /\ \A i \in 1 .. Len(ss) : ss[i].n \in Nat
  <2>1. DOMAIN ss = 1 .. Len(ss) /\ \A i \in 1 .. Len(ss) : ss[i] \in Solved
    OBVIOUS
  <2> QED
    BY <2>1 DEF Solved
<1> DEFINE free == {i \in DOMAIN ss \ used : ~ (ss[i].status /\ ~ ws[ss[i].n].parent)}
           far(i) == IF ss[i].n > block THEN ss[i].n - block ELSE block - ss[i].n
           same == {i \in free : ss[i].status /\ ss[i].n = block}
           near == {i \in free : far(i) <= gap}
           nearest == {i \in near : \A j \in near : far(i) <= far(j)}
<1>2. /\ same \subseteq 1 .. Len(ss) /\ nearest \subseteq 1 .. Len(ss) /\ near \subseteq 1 .. Len(ss)
      /\ \A i \in same : i \notin used
      /\ \A i \in nearest : i \notin used
  BY <1>1
<1>3. 1 .. Len(ss) \subseteq Nat
  OBVIOUS
<1>4. \A i \in 1 .. Len(ss) : far(i) \in Nat
  BY <1>1
<1>5. t = IF same # {} THEN {Min(same)} ELSE IF near = {} THEN {} ELSE {Min(nearest)}
  BY DEF Taken
<1>6. near # {} => nearest # {}
  <2> SUFFICES ASSUME near # {} PROVE nearest # {}
    OBVIOUS
  <2>1. PICK T : T = {far(i) : i \in near}
    OBVIOUS
  <2>2. T \in SUBSET Nat /\ T # {}
    BY <1>2, <1>4, <2>1
  <2>3. PICK x \in T : \A y \in T : x <= y
    BY <2>2, Least
  <2>4. PICK i \in near : x = far(i)
    BY <2>1
  <2>5. \A j \in near : far(j) \in T
    BY <2>1
  <2>6. \A j \in near : far(i) <= far(j)
    BY <2>3, <2>4, <2>5
  <2> QED
    BY <2>4, <2>6
<1>7. same # {} => Min(same) \in same
  BY <1>2, <1>3, MinIn
<1>8. nearest # {} => Min(nearest) \in nearest
  BY <1>2, <1>3, MinIn
<1> HIDE DEF same, near, nearest
<1> QED
  BY <1>2, <1>5, <1>6, <1>7, <1>8

\* The details of a solve.
LEMMA DetailsAre ==
  ASSUME NEW ss \in Seq(Solved), NEW i \in 1 .. Len(ss)
  PROVE  /\ DetailsOf(ss, i) \in SUBSET Detail /\ IsFiniteSet(DetailsOf(ss, i))
         /\ \A d \in DetailsOf(ss, i) : d.n = ss[i].n
<1>1. ss[i].n \in Nat /\ ss[i].details \in SUBSET Kids
  <2>1. ss[i] \in Solved
    OBVIOUS
  <2> QED
    BY <2>1 DEF Solved
<1>2. PICK K : K = ss[i].details
  OBVIOUS
<1>3. IsFiniteSet(K)
  BY <1>1, <1>2, KidsAssumption, FS_Subset DEF KidsAssumption
<1>4. PICK D : D = DetailsOf(ss, i)
  OBVIOUS
<1>5. PICK f : f = [k \in K |-> [n |-> ss[i].n, kid |-> k]]
  OBVIOUS
<1>6. D = {f[k] : k \in K}
  BY <1>2, <1>4, <1>5 DEF DetailsOf
<1>7. f \in Surjection(K, D)
  <2>1. f \in [K -> D]
    BY <1>5, <1>6
  <2>2. \A d \in D : \E k \in K : f[k] = d
    BY <1>6
  <2> QED
    BY <2>1, <2>2 DEF Surjection
<1>8. IsFiniteSet(D)
  BY <1>3, <1>7, FS_Surjection
<1>9. D \in SUBSET Detail /\ \A d \in D : d.n = ss[i].n
  BY <1>1, <1>2, <1>4 DEF DetailsOf, Detail
<1> QED
  BY <1>4, <1>8, <1>9

\* One block more.
Attach(done, block, ss, ws, gap) ==
  LET t == Taken(ss, ws, gap, block, done.used)
  IN [used |-> done.used \cup t,
      events |-> Append(done.events,
        [block |-> block, n |-> block, details |-> UNION {DetailsOf(ss, i) : i \in t}])]
Attached(done, ss) ==
  /\ done.used \subseteq 1 .. Len(ss) /\ done.events \in Seq(Event)
  /\ TakenFrom(done.events, ss, done.used) /\ OnceEach(done.events, ss)

\* An event more, of a solve that was not taken.
LEMMA OneMore ==
  ASSUME NEW ss \in Seq(Solved), NEW used, used \subseteq 1 .. Len(ss), NEW es \in Seq(Event),
         TakenFrom(es, ss, used), OnceEach(es, ss),
         NEW t, t = {} \/ \E i \in 1 .. Len(ss) : i \notin used /\ t = {i},
         NEW event \in Event, \A d \in event.details : \E i \in t : d.n = ss[i].n
  PROVE  /\ used \cup t \subseteq 1 .. Len(ss) /\ Append(es, event) \in Seq(Event)
         /\ TakenFrom(Append(es, event), ss, used \cup t) /\ OnceEach(Append(es, event), ss)
<1>1. PICK fs : fs = Append(es, event)
  OBVIOUS
<1>2. /\ fs \in Seq(Event) /\ Len(fs) = Len(es) + 1 /\ Len(es) \in Nat /\ fs[Len(es) + 1] = event
      /\ \A e \in 1 .. Len(es) : fs[e] = es[e]
  BY <1>1
<1>3. \A e \in 1 .. Len(fs) : (e \in 1 .. Len(es) /\ fs[e] = es[e]) \/ (e = Len(es) + 1 /\ fs[e] = event)
  BY <1>2
<1>4. used \cup t \subseteq 1 .. Len(ss)
  OBVIOUS
<1>5. TakenFrom(fs, ss, used \cup t)
  <2> SUFFICES ASSUME NEW e \in 1 .. Len(fs), NEW d \in fs[e].details PROVE \E i \in used \cup t : d.n = ss[i].n
    BY DEF TakenFrom
  <2>1. CASE e \in 1 .. Len(es) /\ fs[e] = es[e]
    BY <2>1 DEF TakenFrom
  <2>2. CASE fs[e] = event
    BY <2>2
  <2> QED
    BY <1>3, <2>1, <2>2
<1>6. ASSUME NEW e \in 1 .. Len(es), NEW c \in es[e].details, NEW d \in event.details, c.n = d.n
      PROVE  c.n \in Twice(ss)
  <2>1. PICK i \in used : c.n = ss[i].n
    BY DEF TakenFrom
  <2>2. PICK j \in t : d.n = ss[j].n
    OBVIOUS
  <2>3. i # j /\ i \in 1 .. Len(ss) /\ j \in 1 .. Len(ss)
    BY <2>1, <2>2
  <2>4. ss[i] \in Solved
    BY <2>3
  <2>5. ss[i].n \in Nat
    BY <2>4 DEF Solved
  <2> QED
    BY <1>6, <2>1, <2>2, <2>3, <2>5 DEF Twice
<1>7. OnceEach(fs, ss)
  <2> SUFFICES ASSUME NEW e \in 1 .. Len(fs), NEW f \in 1 .. Len(fs), e # f,
                      NEW c \in fs[e].details, NEW d \in fs[f].details, c.n = d.n
               PROVE  c.n \in Twice(ss)
    BY DEF OnceEach
  <2>1. CASE e \in 1 .. Len(es) /\ fs[e] = es[e] /\ f \in 1 .. Len(es) /\ fs[f] = es[f]
    BY <2>1 DEF OnceEach
  <2>2. CASE e \in 1 .. Len(es) /\ fs[e] = es[e] /\ fs[f] = event
    BY <1>6, <2>2
  <2>3. CASE f \in 1 .. Len(es) /\ fs[f] = es[f] /\ fs[e] = event
    <3>1. d.n \in Twice(ss)
      BY <1>6, <2>3
    <3> QED
      BY <3>1
  <2>4. ~ (e = Len(es) + 1 /\ f = Len(es) + 1)
    OBVIOUS
  <2> QED
    BY <1>3, <2>1, <2>2, <2>3, <2>4
<1> QED
  BY <1>1, <1>2, <1>4, <1>5, <1>7

\* A block takes a solve that none took before it, or none.
LEMMA AttachKeeps ==
  ASSUME NEW ss \in Seq(Solved), NEW ws, NEW gap, NEW block \in Nat,
         NEW done, Attached(done, ss), NEW next, next = Attach(done, block, ss, ws, gap)
  PROVE  Attached(next, ss)
<1>1. PICK used : used = done.used
  OBVIOUS
<1>2. PICK es : es = done.events
  OBVIOUS
<1>3. used \subseteq 1 .. Len(ss) /\ es \in Seq(Event) /\ TakenFrom(es, ss, used) /\ OnceEach(es, ss)
  BY <1>1, <1>2 DEF Attached
<1>4. PICK t : t = Taken(ss, ws, gap, block, used)
  OBVIOUS
<1>5. t = {} \/ \E i \in 1 .. Len(ss) : i \notin used /\ t = {i}
  BY <1>4, TakenIs
<1>6. PICK D : D = UNION {DetailsOf(ss, i) : i \in t}
  OBVIOUS
<1>7. D \in SUBSET Detail /\ IsFiniteSet(D) /\ \A d \in D : \E i \in t : d.n = ss[i].n
  <2>1. CASE t = {}
    <3>1. D = {}
      BY <1>6, <2>1
    <3> QED
      BY <3>1, FS_EmptySet
  <2>2. CASE t # {}
    <3>1. PICK i \in 1 .. Len(ss) : t = {i}
      BY <1>5, <2>2
    <3>2. D = DetailsOf(ss, i)
      BY <1>6, <3>1
    <3> QED
      BY <3>1, <3>2, DetailsAre
  <2> QED
    BY <2>1, <2>2
<1>8. PICK event : event = [block |-> block, n |-> block, details |-> D]
  OBVIOUS
<1>9. event \in Event /\ \A d \in event.details : \E i \in t : d.n = ss[i].n
  BY <1>7, <1>8 DEF Event
<1>10. next.used = used \cup t /\ next.events = Append(es, event)
  BY <1>1, <1>2, <1>4, <1>6, <1>8 DEF Attach
<1>11. /\ used \cup t \subseteq 1 .. Len(ss) /\ Append(es, event) \in Seq(Event)
       /\ TakenFrom(Append(es, event), ss, used \cup t) /\ OnceEach(Append(es, event), ss)
  BY <1>3, <1>5, <1>9, OneMore
<1> QED
  BY <1>10, <1>11 DEF Attached

\* All blocks: the fold exists, and keeps it.
Nothing == [used |-> {}, events |-> <<>>]
Folded(s, g, blocks, ss, ws, gap) ==
  IF s = {} THEN Nothing ELSE Attach(g[s \ {Max(s)}], blocks[Max(s)], ss, ws, gap)
Folding(g, blocks, ss, ws, gap) ==
  g = [s \in SUBSET DOMAIN blocks |-> Folded(s, g, blocks, ss, ws, gap)]

\* The stages of the fold over the blocks exist ...
LEMMA FoldingExists ==
  ASSUME NEW blocks \in Seq(Nat), NEW ss, NEW ws, NEW gap
  PROVE  \E g : Folding(g, blocks, ss, ws, gap)
<1>1. PICK S : S = DOMAIN blocks
  OBVIOUS
<1>2. IsFiniteSet(S) /\ S \subseteq Nat
  <2>1. S = 1 .. Len(blocks) /\ Len(blocks) \in Nat
    BY <1>1
  <2> QED
    BY <2>1, FS_Interval
<1>3. PICK b : b = blocks
  OBVIOUS
<1> HIDE <1>1
<1> DEFINE Upto(g, n) ==
      /\ g = [s \in SUBSET S |-> g[s]]
      /\ \A s \in SUBSET S : Cardinality(s) <= n => g[s] = Folded(s, g, b, ss, ws, gap)
<1>4. PICK N : N = {n \in Nat : \E g : Upto(g, n)}
  OBVIOUS
<1>5. \A s \in SUBSET S : IsFiniteSet(s) /\ Cardinality(s) \in Nat
  BY <1>2, FS_Subset, FS_CardinalityType
<1>6. 0 \in N
  <2>1. PICK g : g = [s \in SUBSET S |-> Nothing]
    OBVIOUS
  <2>2. g = [s \in SUBSET S |-> g[s]]
    BY <2>1
  <2>3. ASSUME NEW s \in SUBSET S, Cardinality(s) <= 0 PROVE g[s] = Folded(s, g, b, ss, ws, gap)
    <3>1. s = {}
      BY <1>5, <2>3, FS_EmptySet
    <3> QED
      BY <2>1, <3>1 DEF Folded
  <2>4. Upto(g, 0)
    BY <2>2, <2>3
  <2> HIDE DEF Upto
  <2> QED
    BY <1>4, <2>4
<1>7. ASSUME NEW n \in Nat, n \in N PROVE n + 1 \in N
  <2>1. PICK g : /\ g = [s \in SUBSET S |-> g[s]]
                 /\ \A s \in SUBSET S : Cardinality(s) <= n => g[s] = Folded(s, g, b, ss, ws, gap)
    BY <1>4, <1>7
  <2>2. PICK h : h = [s \in SUBSET S |-> Folded(s, g, b, ss, ws, gap)]
    OBVIOUS
  <2>3. h = [s \in SUBSET S |-> h[s]] /\ \A s \in SUBSET S : h[s] = Folded(s, g, b, ss, ws, gap)
    BY <2>2
  <2>4. ASSUME NEW s \in SUBSET S, Cardinality(s) <= n + 1 PROVE h[s] = Folded(s, h, b, ss, ws, gap)
    <3>1. CASE s = {}
      BY <2>3, <3>1 DEF Folded
    <3>2. CASE s # {}
      <4>1. PICK t : t = s \ {Max(s)}
        OBVIOUS
      <4>2. Max(s) \in s /\ t \in SUBSET S
        <5>1. s \in SUBSET Nat /\ IsFiniteSet(s)
          BY <1>2, <1>5
        <5> QED
          BY <3>2, <4>1, <5>1, MaxIn
      <4>3. Cardinality(t) <= n
        <5>1. Cardinality(t) = Cardinality(s) - 1
          BY <1>5, <4>1, <4>2, FS_RemoveElement
        <5>2. PICK m \in Nat : m = Cardinality(s)
          BY <1>5
        <5>3. m <= n + 1
          BY <2>4, <5>2
        <5>4. m - 1 <= n
          BY <5>3
        <5> QED
          BY <5>1, <5>2, <5>4
      <4>4. h[t] = g[t]
        BY <2>1, <2>3, <4>2, <4>3
      <4>5. h[s] = Folded(s, g, b, ss, ws, gap)
        BY <2>3
      <4> QED
        BY <3>2, <4>1, <4>4, <4>5 DEF Folded
    <3> QED
      BY <3>1, <3>2
  <2>5. Upto(h, n + 1)
    BY <2>3, <2>4
  <2> HIDE DEF Upto
  <2> QED
    BY <1>4, <2>5
<1>8. Nat \subseteq N
  <2> HIDE DEF Upto
  <2> QED
    BY <1>6, <1>7, NatSet
<1>9. PICK n \in Nat : n = Cardinality(S)
  BY <1>2, FS_CardinalityType
<1>10. n \in N
  BY <1>8
<1>11. PICK g : /\ g = [s \in SUBSET S |-> g[s]]
                /\ \A s \in SUBSET S : Cardinality(s) <= n => g[s] = Folded(s, g, b, ss, ws, gap)
  BY <1>4, <1>10
<1>12. \A s \in SUBSET S : g[s] = Folded(s, g, b, ss, ws, gap)
  <2>1. \A s \in SUBSET S : Cardinality(s) <= n
    BY <1>2, <1>9, FS_Subset
  <2> QED
    BY <1>11, <2>1
<1>13. g = [s \in SUBSET S |-> Folded(s, g, b, ss, ws, gap)]
  BY <1>11, <1>12
<1>14. Folding(g, blocks, ss, ws, gap)
  BY <1>1, <1>3, <1>13 DEF Folding
<1> QED
  BY <1>14

\* ... and each keeps what Attached says, by induction over the blocks.
LEMMA FoldingKeeps ==
  ASSUME NEW blocks \in Seq(Nat), NEW ss \in Seq(Solved), NEW ws, NEW gap,
         NEW g, Folding(g, blocks, ss, ws, gap)
  PROVE  Attached(g[DOMAIN blocks], ss)
<1>1. PICK S : S = DOMAIN blocks
  OBVIOUS
<1>2. IsFiniteSet(S) /\ S \subseteq Nat /\ \A i \in S : blocks[i] \in Nat
  <2>1. S = 1 .. Len(blocks) /\ Len(blocks) \in Nat
    BY <1>1
  <2>2. \A i \in 1 .. Len(blocks) : blocks[i] \in Nat
    OBVIOUS
  <2> QED
    BY <2>1, <2>2, FS_Interval
<1>3. \A s \in SUBSET S : g[s] = Folded(s, g, blocks, ss, ws, gap)
  BY <1>1 DEF Folding
<1>4. PICK C : C = {s \in SUBSET S : Attached(g[s], ss)}
  OBVIOUS
<1>5. ASSUME NEW s \in SUBSET S, \A x \in s : s \ {x} \in C PROVE s \in C
  <2>1. CASE s = {}
    <3>1. g[s] = Nothing
      BY <1>3, <2>1 DEF Folded
    <3>2. <<>> \in Seq(Event) /\ Len(<<>>) = 0 /\ 1 .. 0 = {}
      OBVIOUS
    <3>3. Attached(Nothing, ss)
      BY <3>2 DEF Attached, Nothing, TakenFrom, OnceEach
    <3> QED
      BY <1>4, <3>1, <3>3
  <2>2. CASE s # {}
    <3>1. PICK x : x = Max(s)
      OBVIOUS
    <3>2. x \in s
      <4>1. s \in SUBSET Nat /\ IsFiniteSet(s)
        BY <1>2, FS_Subset
      <4> QED
        BY <2>2, <3>1, <4>1, MaxIn
    <3>3. Attached(g[s \ {x}], ss)
      BY <1>4, <1>5, <3>2
    <3>4. g[s] = Attach(g[s \ {x}], blocks[x], ss, ws, gap)
      BY <1>3, <2>2, <3>1 DEF Folded
    <3>5. Attached(g[s], ss)
      <4>1. PICK done : done = g[s \ {x}]
        OBVIOUS
      <4>2. PICK block \in Nat : block = blocks[x]
        BY <1>2, <3>2
      <4> QED
        BY <3>3, <3>4, <4>1, <4>2, AttachKeeps
    <3> QED
      BY <1>4, <3>5
  <2> QED
    BY <2>1, <2>2
<1>6. SUBSET S \subseteq C
  BY <1>2, <1>5, Subsets
<1> QED
  BY <1>1, <1>4, <1>6

EventsOf(attached, ss, ws) ==
  LET rest == Sorted({i \in DOMAIN ss : /\ i \notin attached.used /\ ws[ss[i].n].kids # {}
                                        /\ ss[i].status => ~ ws[ss[i].n].parent})
  IN attached.events \o [r \in DOMAIN rest |->
       [block |-> 0, n |-> ss[rest[r]].n, details |-> DetailsOf(ss, rest[r])]]

\* The events are those of the blocks and behind them those of the solves left.
LEMMA EventsIs ==
  ASSUME NEW blocks, NEW ss, NEW ws, NEW gap
  PROVE  Events(blocks, ss, ws, gap) =
           EventsOf((CHOOSE g : Folding(g, blocks, ss, ws, gap))[DOMAIN blocks], ss, ws)
BY DEF Events, EventsOf, FoldLeft, MapThenFoldSet, Folding, Folded, Attach, Nothing, DetailsOf

\* No two events know of the same child block unless a solve was read twice.
LEMMA EventsAre ==
  ASSUME NEW blocks \in Seq(Nat), NEW ss \in Seq(Solved), NEW ws, NEW gap,
         NEW es, es = Events(blocks, ss, ws, gap)
  PROVE  es \in Seq(Event) /\ OnceEach(es, ss)
<1>1. PICK g : g = (CHOOSE h : Folding(h, blocks, ss, ws, gap))
  OBVIOUS
<1>2. Folding(g, blocks, ss, ws, gap)
  <2>1. \E h : Folding(h, blocks, ss, ws, gap)
    BY FoldingExists
  <2> QED
    BY <1>1, <2>1
<1>3. PICK done : done = g[DOMAIN blocks]
  OBVIOUS
<1>4. Attached(done, ss)
  BY <1>2, <1>3, FoldingKeeps
<1>5. PICK S : S = {i \in DOMAIN ss : /\ i \notin done.used /\ ws[ss[i].n].kids # {}
                                      /\ ss[i].status => ~ ws[ss[i].n].parent}
  OBVIOUS
<1>6. PICK rest : rest = Sorted(S)
  OBVIOUS
<1>7. PICK a : a = done.events
  OBVIOUS
<1>8. PICK b : b = [r \in DOMAIN rest |-> [block |-> 0, n |-> ss[rest[r]].n, details |-> DetailsOf(ss, rest[r])]]
  OBVIOUS
<1>9. es = a \o b
  <2>1. es = EventsOf(done, ss, ws)
    BY <1>1, <1>3, EventsIs
  <2> QED
    BY <1>5, <1>6, <1>7, <1>8, <2>1 DEF EventsOf
<1>10. /\ a \in Seq(Event) /\ Len(a) \in Nat /\ TakenFrom(a, ss, done.used) /\ OnceEach(a, ss)
       /\ done.used \subseteq 1 .. Len(ss)
  BY <1>4, <1>7 DEF Attached
<1>11. S \subseteq 1 .. Len(ss) /\ Finite(S) /\ S \cap done.used = {}
  <2>1. DOMAIN ss = 1 .. Len(ss) /\ Len(ss) \in Nat
    OBVIOUS
  <2>2. S \subseteq 1 .. Len(ss) /\ S \cap done.used = {}
    BY <1>5, <2>1
  <2>3. IsFiniteSet(1 .. Len(ss)) /\ 1 .. Len(ss) \subseteq Nat
    BY <2>1, FS_Interval
  <2> QED
    BY <2>2, <2>3, FS_Subset DEF Finite
<1>12. PICK m : m = Len(rest)
  OBVIOUS
<1>13. m \in Nat /\ DOMAIN rest = 1 .. m /\ \A r \in 1 .. m : rest[r] \in S
  <2>1. /\ Sorted(S) \in Seq(Nat) /\ Len(Sorted(S)) = Cardinality(S) /\ Cardinality(S) \in Nat
        /\ \A k \in 1 .. Cardinality(S) : Sorted(S)[k] \in S
    BY <1>11, SortedIs
  <2> QED
    BY <1>6, <1>12, <2>1
<1>14. \A q, r \in 1 .. m : q # r => rest[q] # rest[r]
  <2>1. \A q, r \in 1 .. m : q < r => rest[q] < rest[r]
    BY <1>6, <1>11, <1>12, SortedAscends
  <2>2. \A r \in 1 .. m : rest[r] \in Nat
    BY <1>11, <1>13 DEF Finite
  <2> QED
    BY <1>13, <2>1, <2>2
<1>15. \A r \in 1 .. m : /\ b[r] \in Event /\ b[r].details = DetailsOf(ss, rest[r])
                         /\ rest[r] \in 1 .. Len(ss) /\ rest[r] \notin done.used
  <2> SUFFICES ASSUME NEW r \in 1 .. m
               PROVE  /\ b[r] \in Event /\ b[r].details = DetailsOf(ss, rest[r])
                      /\ rest[r] \in 1 .. Len(ss) /\ rest[r] \notin done.used
    OBVIOUS
  <2>1. rest[r] \in 1 .. Len(ss) /\ rest[r] \notin done.used
    BY <1>11, <1>13
  <2>2. PICK i \in 1 .. Len(ss) : i = rest[r]
    BY <2>1
  <2>3. ss[i].n \in Nat
    <3>1. ss[i] \in Solved
      OBVIOUS
    <3> QED
      BY <3>1 DEF Solved
  <2>4. b[r] = [block |-> 0, n |-> ss[i].n, details |-> DetailsOf(ss, i)]
    BY <1>8, <1>13, <2>2
  <2>5. DetailsOf(ss, i) \in SUBSET Detail /\ IsFiniteSet(DetailsOf(ss, i))
    BY DetailsAre
  <2>6. b[r] \in Event /\ b[r].details = DetailsOf(ss, i)
    BY <2>3, <2>4, <2>5 DEF Event
  <2> QED
    BY <2>1, <2>2, <2>6
<1>16. b \in Seq(Event) /\ Len(b) = m
  <2>1. b = [r \in 1 .. m |-> b[r]]
    BY <1>8, <1>13
  <2>2. m \in Nat /\ \A r \in 1 .. m : b[r] \in Event
    BY <1>13, <1>15
  <2>3. b \in [1 .. m -> Event]
    BY <2>1, <2>2
  <2> QED
    BY <2>2, <2>3
<1>17. /\ es \in Seq(Event) /\ Len(es) = Len(a) + m
       /\ \A e \in 1 .. Len(es) : es[e] = IF e <= Len(a) THEN a[e] ELSE b[e - Len(a)]
  <2>1. a \in Seq(Event) /\ b \in Seq(Event)
    BY <1>10, <1>16
  <2>2. /\ es \in Seq(Event) /\ Len(es) = Len(a) + Len(b)
        /\ \A e \in 1 .. Len(es) : es[e] = IF e <= Len(a) THEN a[e] ELSE b[e - Len(a)]
    BY <1>9, <2>1, ConcatProperties
  <2> QED
    BY <1>16, <2>2
<1>18. \A e \in 1 .. Len(es) : \/ e \in 1 .. Len(a) /\ es[e] = a[e]
                               \/ e - Len(a) \in 1 .. m /\ es[e] = b[e - Len(a)]
  BY <1>10, <1>13, <1>17
<1>19. ASSUME NEW i \in 1 .. Len(ss), NEW j \in 1 .. Len(ss), i # j, ss[i].n = ss[j].n
       PROVE  ss[i].n \in Twice(ss)
  <2>1. ss[i] \in Solved
    OBVIOUS
  <2>2. ss[i].n \in Nat
    BY <2>1 DEF Solved
  <2> QED
    BY <1>19, <2>2 DEF Twice
<1>20. ASSUME NEW e \in 1 .. Len(a), NEW r \in 1 .. m, NEW c \in a[e].details, NEW d \in b[r].details, c.n = d.n
       PROVE  c.n \in Twice(ss)
  <2>1. PICK i \in done.used : c.n = ss[i].n
    BY <1>10 DEF TakenFrom
  <2>2. PICK j \in 1 .. Len(ss) : j = rest[r] /\ j \notin done.used /\ d \in DetailsOf(ss, j)
    BY <1>15
  <2>3. d.n = ss[j].n
    BY <2>2, DetailsAre
  <2>4. i \in 1 .. Len(ss) /\ i # j
    BY <1>10, <2>1, <2>2
  <2> QED
    BY <1>19, <1>20, <2>1, <2>3, <2>4
<1>21. OnceEach(es, ss)
  <2> SUFFICES ASSUME NEW e \in 1 .. Len(es), NEW f \in 1 .. Len(es), e # f,
                      NEW c \in es[e].details, NEW d \in es[f].details, c.n = d.n
               PROVE  c.n \in Twice(ss)
    BY DEF OnceEach
  <2>1. CASE e \in 1 .. Len(a) /\ es[e] = a[e] /\ f \in 1 .. Len(a) /\ es[f] = a[f]
    BY <1>10, <2>1 DEF OnceEach
  <2>2. CASE e \in 1 .. Len(a) /\ es[e] = a[e] /\ f - Len(a) \in 1 .. m /\ es[f] = b[f - Len(a)]
    BY <1>20, <2>2
  <2>3. CASE f \in 1 .. Len(a) /\ es[f] = a[f] /\ e - Len(a) \in 1 .. m /\ es[e] = b[e - Len(a)]
    <3>1. d.n \in Twice(ss)
      BY <1>20, <2>3
    <3> QED
      BY <3>1
  <2>4. CASE e - Len(a) \in 1 .. m /\ es[e] = b[e - Len(a)] /\ f - Len(a) \in 1 .. m /\ es[f] = b[f - Len(a)]
    <3>1. PICK q \in 1 .. m : q = e - Len(a) /\ es[e] = b[q]
      BY <2>4
    <3>2. PICK r \in 1 .. m : r = f - Len(a) /\ es[f] = b[r]
      BY <2>4
    <3>3. q # r
      BY <1>10, <1>17, <3>1, <3>2
    <3>4. PICK i \in 1 .. Len(ss) : i = rest[q] /\ c \in DetailsOf(ss, i)
      BY <1>15, <3>1
    <3>5. PICK j \in 1 .. Len(ss) : j = rest[r] /\ d \in DetailsOf(ss, j)
      BY <1>15, <3>2
    <3>6. i # j /\ c.n = ss[i].n /\ d.n = ss[j].n
      BY <1>14, <3>3, <3>4, <3>5, DetailsAre
    <3> QED
      BY <1>19, <3>6
  <2> QED
    BY <1>18, <2>1, <2>2, <2>3, <2>4
<1> QED
  BY <1>17, <1>21

-----------------------------------------------------------------------------
\* The invariant of the payouts.  Of the chain: what a coinbase and the record of
\* a division hold.  Of the dashboard: where the solves it read come from, and
\* that only a solve whose lines a read cut apart was read, handed on or
\* accounted twice.

Coinbase == {txn \in [prev : Nat, value : Nat, to : Parts, tracker : Nat, refused : {FALSE}] :
               /\ SumFunction(txn.to) + txn.tracker = txn.value
               /\ txn.value > 0 => txn.tracker > 0}
Division == [at : Nat, prev : Nat, works : Parts]
Row == {row \in [block : Detail, reward : Nat, to : Parts, keep : Nat \ {0}] :
          SumFunction(row.to) + row.keep = row.reward}

TipOf(ws) == Cardinality({n \in DOMAIN ws : ws[n].parent})
ChainType ==
  /\ keepBps \in Nat /\ templates \in Seq(Coinbase) /\ debug \in Seq(Division)
  /\ works \in Seq(Gotwork) /\ shown \in Nat /\ shown <= TipOf(works)
DashType ==
  /\ offset \in Nat /\ offset <= Len(LogOf(works))
  /\ solves \in Seq(Solved) /\ handed \in Seq(Event) /\ account \in Seq(Row)

\* A gotwork whose solve line is the last that was read, its status the next.
Parted(log, k) == {n \in Nat : /\ k \in 1 .. Len(log) /\ k + 1 \in 1 .. Len(log)
                               /\ log[k] = SolveLine(n) /\ log[k + 1].n = n}
ReadSoFar(ss, log, k) == \A i \in 1 .. Len(ss) : \E p \in 1 .. k : OfSolve(log[p]) /\ log[p].n = ss[i].n
Overlaps(es) == {n \in Nat : \E e, f \in 1 .. Len(es) : e # f /\
                    \E c \in es[e].details : \E d \in es[f].details : c.n = n /\ d.n = n}
Doubled(rows) == {n \in Nat : \E i, j \in 1 .. Len(rows) : i # j /\ rows[i].block = rows[j].block /\ rows[i].block.n = n}

OnlyWhenCut ==
  /\ ReadSoFar(solves, LogOf(works), offset)
  /\ Parted(LogOf(works), offset) \subseteq cut
  /\ Twice(solves) \subseteq cut /\ Overlaps(handed) \subseteq cut /\ Doubled(account) \subseteq cut

PayInv == LogInv /\ ChainType /\ DashType /\ OnlyWhenCut

-----------------------------------------------------------------------------
\* The steps

\* A division that gives nobody anything.
LEMMA NoOne == Nobody \in Parts /\ SumFunction(Nobody) = 0
<1>1. PICK f : f = Nobody
  OBVIOUS
<1>2. DOMAIN f = {} /\ f = [a \in DOMAIN f |-> f[a]]
  BY <1>1 DEF Nobody
<1>3. Worked(f)
  BY <1>2, FS_EmptySet DEF Worked, PosOn
<1>4. f \in Parts
  BY <1>2, <1>3, WorkedParts
<1>5. SumFunction(f) = 0
  BY <1>2, SumEmpty DEF SumFunction
<1> QED
  BY <1>1, <1>4, <1>5

\* The parent's height.
LEMMA TipIs ==
  ASSUME NEW ws \in Seq(Gotwork)
  PROVE  TipOf(ws) \in Nat /\ Finite({n \in DOMAIN ws : ws[n].parent})
<1>1. DOMAIN ws = 1 .. Len(ws) /\ Len(ws) \in Nat
  OBVIOUS
<1>2. PICK S : S = {n \in DOMAIN ws : ws[n].parent}
  OBVIOUS
<1>3. S \subseteq 1 .. Len(ws) /\ S \subseteq Nat
  BY <1>1, <1>2
<1>4. IsFiniteSet(1 .. Len(ws))
  BY <1>1, FS_Interval
<1>5. IsFiniteSet(S) /\ Cardinality(S) \in Nat
  BY <1>3, <1>4, FS_Subset, FS_CardinalityType
<1> QED
  BY <1>2, <1>3, <1>5 DEF TipOf, Finite

\* It never goes back.
LEMMA TipGrows ==
  ASSUME NEW ws \in Seq(Gotwork), NEW w \in Gotwork
  PROVE  TipOf(ws) <= TipOf(Append(ws, w))
<1>1. PICK vs : vs = Append(ws, w)
  OBVIOUS
<1>2. PICK S : S = {n \in DOMAIN ws : ws[n].parent}
  OBVIOUS
<1>3. PICK T : T = {n \in DOMAIN vs : vs[n].parent}
  OBVIOUS
<1>4. \A n \in DOMAIN ws : n \in DOMAIN vs /\ vs[n] = ws[n]
  BY <1>1
<1>5. S \subseteq T
  BY <1>2, <1>3, <1>4
<1>6. vs \in Seq(Gotwork)
  BY <1>1
<1>7. IsFiniteSet(T)
  BY <1>3, <1>6, TipIs DEF Finite
<1>8. Cardinality(S) <= Cardinality(T)
  BY <1>5, <1>7, FS_Subset
<1> QED
  BY <1>1, <1>2, <1>3, <1>8 DEF TipOf

\* A coinbase is made, and the division recorded.
LEMMA TemplateKeeps ==
  ASSUME LogType, ChainType, NEW value \in Rewards, NEW outcome, NewTemplate(value, outcome)
  PROVE  templates' \in Seq(Coinbase) /\ debug' \in Seq(Division)
<1>1. PICK work : work = WorkInWindow
  OBVIOUS
<1>2. work \in Parts /\ Worked(work) /\ DOMAIN work \subseteq Payees
  BY <1>1, WindowWork, PartsWorked
<1>3. PICK bps : bps = keepBps
  OBVIOUS
<1>4. value \in Nat /\ bps \in Nat
  BY <1>3, AmountsAssumption DEF AmountsAssumption, ChainType
<1>5. PICK split : split = Split(value, bps, work)
  OBVIOUS
<1>6. /\ Worked(split) /\ DOMAIN split \subseteq DOMAIN work
      /\ split = [a \in DOMAIN split |-> split[a]] /\ SumFunction(split) \in Nat
  BY <1>2, <1>4, <1>5, Divided
<1>7. split \in Parts
  BY <1>2, <1>6, WorkedParts
<1>8. PICK tip \in Nat : tip = Tip
  BY TipIs DEF ChainType, TipOf, Tip
<1>9. PICK txn : txn = IF outcome = "read" THEN CoinbaseTxn(value, split) ELSE [to |-> Nobody, tracker |-> value]
  OBVIOUS
<1>10. /\ txn.to \in Parts /\ txn.tracker \in Nat /\ SumFunction(txn.to) + txn.tracker = value
       /\ value > 0 => txn.tracker > 0
       /\ outcome = "read" => txn.to = split
  <2>1. CASE outcome = "read"
    <3>1. txn = CoinbaseTxn(value, split)
      BY <1>9, <2>1
    <3>2. /\ txn.to = split /\ SumFunction(txn.to) + txn.tracker = value
          /\ value > 0 => txn.tracker > 0
      BY <1>2, <1>4, <1>5, <3>1, CoinbaseAddsUp
    <3>3. txn.tracker \in Nat
      <4>1. txn.tracker \in Int
        BY <1>4, <1>6, <3>1, NoOne DEF CoinbaseTxn
      <4>2. value = 0 => txn.tracker \in Nat
        BY <1>2, <1>4, <1>5, <1>6, <3>2, <4>1, Divided
      <4> QED
        BY <1>4, <3>2, <4>1, <4>2
    <3> QED
      BY <1>7, <3>2, <3>3
  <2>2. CASE outcome # "read"
    <3>1. txn.to = Nobody /\ txn.tracker = value
      BY <1>9, <2>2
    <3> QED
      BY <1>4, <2>2, <3>1, NoOne
  <2> QED
    BY <2>1, <2>2
<1>11. PICK t : t = [prev |-> tip, value |-> value, to |-> txn.to, tracker |-> txn.tracker,
                     refused |-> outcome = "read" /\ txn.to # split]
  OBVIOUS
<1>12. t \in Coinbase
  <2>1. t = [prev |-> tip, value |-> value, to |-> txn.to, tracker |-> txn.tracker, refused |-> FALSE]
    BY <1>10, <1>11
  <2> QED
    BY <1>4, <1>8, <1>10, <2>1 DEF Coinbase
<1>13. templates' = Append(templates, t)
  BY <1>1, <1>3, <1>5, <1>8, <1>9, <1>11 DEF NewTemplate
<1>14. PICK part : part = Restrict(work, DOMAIN split)
  OBVIOUS
<1>15. part \in Parts
  <2>1. DOMAIN part = DOMAIN split /\ (\A a \in DOMAIN split : part[a] = work[a]) /\ part = [a \in DOMAIN part |-> part[a]]
    BY <1>14 DEF Restrict
  <2>2. IsFiniteSet(DOMAIN split)
    BY <1>6 DEF Worked
  <2>3. Worked(part) /\ DOMAIN part \subseteq Payees
    BY <1>2, <1>6, <2>1, <2>2 DEF Worked, PosOn
  <2> QED
    BY <2>1, <2>3, WorkedParts
<1>16. PICK d : d = [at |-> Len(templates) + 1, prev |-> tip, works |-> part]
  OBVIOUS
<1>17. d \in Division
  <2>1. Len(templates) + 1 \in Nat
    BY DEF ChainType
  <2> QED
    BY <1>8, <1>15, <1>16, <2>1 DEF Division
<1>18. debug' = debug \/ debug' = Append(debug, d)
  BY <1>1, <1>3, <1>5, <1>8, <1>14, <1>16 DEF NewTemplate
<1>19. templates \in Seq(Coinbase) /\ debug \in Seq(Division)
  BY DEF ChainType
<1>20. templates' \in Seq(Coinbase)
  BY <1>12, <1>13, <1>19
<1>21. debug' \in Seq(Division)
  <2>1. Append(debug, d) \in Seq(Division)
    BY <1>17, <1>19
  <2> QED
    BY <1>18, <1>19, <2>1
<1> QED
  BY <1>20, <1>21

\* A template: a coinbase and perhaps a record more.
LEMMA NewTemplateKeeps ==
  ASSUME PayInv, NEW value \in Rewards, NEW outcome, NewTemplate(value, outcome)
  PROVE  PayInv'
<1>1. LogType /\ ChainType
  BY DEF PayInv, LogInv
<1>2. templates' \in Seq(Coinbase) /\ debug' \in Seq(Division)
  BY <1>1, TemplateKeeps
<1>3. /\ UNCHANGED logVars /\ keepBps' = keepBps /\ works' = works /\ shown' = shown /\ UNCHANGED dashVars
  BY DEF NewTemplate
<1>4. LogInv'
  BY <1>3, LogStays DEF PayInv
<1>5. ChainType'
  BY <1>1, <1>2, <1>3 DEF ChainType
<1>6. DashType' /\ OnlyWhenCut'
  BY <1>3 DEF PayInv, DashType, OnlyWhenCut, dashVars
<1> QED
  BY <1>4, <1>5, <1>6 DEF PayInv

\* The log grows behind what was read.
LEMMA LogGrows ==
  ASSUME NEW ws \in Seq(Gotwork), NEW w \in Gotwork, NEW k \in Nat, k <= Len(LogOf(ws)),
         NEW log, log = LogOf(ws), NEW more, more = LogOf(Append(ws, w))
  PROVE  /\ k <= Len(more)
         /\ \A p \in 1 .. k : more[p] = log[p]
         /\ Parted(more, k) \subseteq Parted(log, k)
<1>1. PICK m \in Nat : m = Len(ws)
  OBVIOUS
<1>2. Written(log, 1 .. m)
  BY <1>1, LogWritten
<1>3. PICK t : t = Lines(m + 1, w)
  OBVIOUS
<1>4. Written(t, {m + 1})
  <2>1. m + 1 \in Nat
    OBVIOUS
  <2> QED
    BY <1>3, <2>1, LinesOfOne
<1>5. more = log \o t
  BY <1>1, <1>3, LogStep
<1>6. PICK S : S = 1 .. m
  OBVIOUS
<1>7. PICK T : T = {m + 1}
  OBVIOUS
<1>8. S \cap T = {} /\ Written(log, S) /\ Written(t, T)
  BY <1>2, <1>4, <1>6, <1>7
<1>9. /\ Len(more) = Len(log) + Len(t)
      /\ \A p \in 1 .. Len(log) : more[p] = log[p]
      /\ \A p \in 1 .. Len(t) : more[Len(log) + p] = t[p]
  BY <1>5, <1>8, WrittenBehind
<1>10. /\ Len(log) \in Nat /\ Len(t) \in Nat
       /\ \A p \in 1 .. Len(log) : log[p].n \in S
       /\ \A p \in 1 .. Len(t) : t[p].n \in T
  BY <1>8 DEF Written
<1>11. k <= Len(more) /\ \A p \in 1 .. k : more[p] = log[p]
  BY <1>9, <1>10
<1>12. ASSUME NEW n \in Parted(more, k) PROVE n \in Parted(log, k)
  <2>1. n \in Nat /\ k \in 1 .. Len(more) /\ k + 1 \in 1 .. Len(more) /\ more[k] = SolveLine(n) /\ more[k + 1].n = n
    BY <1>12 DEF Parted
  <2>2. k \in 1 .. Len(log) /\ more[k] = log[k]
    BY <1>9, <1>10, <2>1
  <2>3. n \in S
    <3>1. log[k].n = n
      <4>1. SolveLine(n).n = n
        BY DEF SolveLine
      <4> QED
        BY <2>1, <2>2, <4>1
    <3> QED
      BY <1>10, <2>2, <3>1
  <2>4. CASE k + 1 \in 1 .. Len(log)
    <3>1. more[k + 1] = log[k + 1]
      BY <1>9, <2>4
    <3> QED
      BY <2>1, <2>2, <2>4, <3>1 DEF Parted
  <2>5. CASE k + 1 \notin 1 .. Len(log)
    <3>1. k = Len(log) /\ 1 \in 1 .. Len(t)
      BY <1>9, <1>10, <2>1, <2>2, <2>5
    <3>2. more[k + 1] = t[1]
      BY <1>9, <3>1
    <3>3. n \in T
      BY <1>10, <2>1, <3>1, <3>2
    <3> QED
      BY <1>8, <2>3, <3>3
  <2> QED
    BY <2>4, <2>5
<1> QED
  BY <1>11, <1>12

\* A solve: a gotwork more, its lines behind those that were there.
LEMMA SolveKeeps ==
  ASSUME PayInv, NEW t \in DOMAIN templates, NEW at \in t - 1 .. Len(templates),
         NEW kids \in SUBSET Kids, Solve(t, at, kids)
  PROVE  PayInv'
<1>1. ChainType /\ DashType /\ OnlyWhenCut
  BY DEF PayInv
<1>2. templates \in Seq(Coinbase) /\ works \in Seq(Gotwork)
  BY <1>1 DEF ChainType
<1>3. PICK b \in BOOLEAN : b = (templates[t].prev = Tip)
  OBVIOUS
<1>4. PICK w : w = [template |-> t, at |-> at, found |-> Len(templates), parent |-> b, kids |-> kids]
  OBVIOUS
<1>5. w \in Gotwork
  <2>1. t \in 1 .. Len(templates) /\ Len(templates) \in Nat
    BY <1>2
  <2>2. t \in Nat /\ at \in Nat
    BY <2>1
  <2> QED
    BY <1>3, <1>4, <2>1, <2>2 DEF Gotwork
<1>6. works' = Append(works, w)
  <2>1. works' = Append(works, [template |-> t, at |-> at, found |-> Len(templates),
                                parent |-> templates[t].prev = Tip, kids |-> kids])
    BY DEF Solve
  <2> QED
    BY <1>3, <1>4, <2>1, Zenon
<1>7. /\ UNCHANGED logVars /\ keepBps' = keepBps /\ templates' = templates /\ debug' = debug /\ shown' = shown
      /\ offset' = offset /\ solves' = solves /\ cut' = cut /\ handed' = handed /\ account' = account
  BY DEF Solve, dashVars
<1>8. LogInv'
  BY <1>7, LogStays DEF PayInv
<1>9. ChainType'
  <2>1. TipOf(works) <= TipOf(works') /\ TipOf(works) \in Nat /\ TipOf(works') \in Nat /\ works' \in Seq(Gotwork)
    <3>1. works' \in Seq(Gotwork)
      BY <1>2, <1>5, <1>6
    <3> QED
      BY <1>2, <1>5, <1>6, <3>1, TipGrows, TipIs
  <2> QED
    BY <1>1, <1>7, <2>1 DEF ChainType
<1>10. PICK k : k = offset
  OBVIOUS
<1>11. PICK log : log = LogOf(works)
  OBVIOUS
<1>12. PICK more : more = LogOf(works')
  OBVIOUS
<1>13. /\ k \in Nat /\ k <= Len(more) /\ \A p \in 1 .. k : more[p] = log[p]
       /\ Parted(more, k) \subseteq Parted(log, k)
  <2>1. k \in Nat /\ k <= Len(log) /\ more = LogOf(Append(works, w))
    BY <1>1, <1>6, <1>10, <1>11, <1>12 DEF DashType
  <2> QED
    BY <1>2, <1>5, <1>11, <2>1, LogGrows
<1>14. DashType'
  BY <1>1, <1>7, <1>10, <1>12, <1>13 DEF DashType
<1>15. OnlyWhenCut'
  <2>1. ReadSoFar(solves, log, k) /\ Parted(log, k) \subseteq cut
    BY <1>1, <1>10, <1>11 DEF OnlyWhenCut
  <2>2. ReadSoFar(solves, more, k)
    BY <1>13, <2>1 DEF ReadSoFar
  <2>3. Parted(more, k) \subseteq cut
    BY <1>13, <2>1
  <2>4. Twice(solves) \subseteq cut /\ Overlaps(handed) \subseteq cut /\ Doubled(account) \subseteq cut
    BY <1>1 DEF OnlyWhenCut
  <2> QED
    BY <1>7, <1>10, <1>12, <2>2, <2>3, <2>4 DEF OnlyWhenCut
<1> QED
  BY <1>8, <1>9, <1>14, <1>15 DEF PayInv

\* A block more in the pool's log.
LEMMA NewBlockLoggedKeeps == PayInv /\ NewBlockLogged => PayInv'
<1> SUFFICES ASSUME PayInv, NewBlockLogged PROVE PayInv'
  OBVIOUS
<1>1. /\ UNCHANGED logVars /\ UNCHANGED dashVars /\ shown < Tip /\ shown' = shown + 1
      /\ keepBps' = keepBps /\ templates' = templates /\ debug' = debug /\ works' = works
  BY DEF NewBlockLogged
<1>2. LogInv'
  BY <1>1, LogStays DEF PayInv
<1>3. ChainType'
  <2>1. ChainType
    BY DEF PayInv
  <2>2. PICK m \in Nat : m = TipOf(works) /\ m = Tip
    BY <2>1, TipIs DEF ChainType, TipOf, Tip
  <2>3. shown + 1 \in Nat /\ shown + 1 <= m
    BY <1>1, <2>1, <2>2 DEF ChainType
  <2> QED
    BY <1>1, <2>1, <2>2, <2>3 DEF ChainType
<1>4. DashType' /\ OnlyWhenCut'
  BY <1>1 DEF PayInv, DashType, OnlyWhenCut, dashVars
<1> QED
  BY <1>2, <1>3, <1>4 DEF PayInv

\* A dashboard that starts has read nothing; cut remembers.
LEMMA RestartKeeps == PayInv /\ DashboardRestarts => PayInv'
<1> SUFFICES ASSUME PayInv, DashboardRestarts PROVE PayInv'
  OBVIOUS
<1>1. /\ UNCHANGED logVars /\ UNCHANGED chainVars /\ cut' = cut
      /\ offset' = 0 /\ solves' = <<>> /\ handed' = <<>> /\ account' = <<>>
  BY DEF DashboardRestarts
<1>2. works' = works
  BY <1>1 DEF chainVars
<1>3. LogInv'
  BY <1>1, LogStays DEF PayInv
<1>4. ChainType'
  BY <1>1 DEF PayInv, ChainType, chainVars
<1>5. Len(LogOf(works)) \in Nat
  BY LogWritten DEF PayInv, ChainType, Written
<1>6. <<>> \in Seq(Solved) /\ <<>> \in Seq(Event) /\ <<>> \in Seq(Row) /\ Len(<<>>) = 0 /\ 1 .. 0 = {}
  OBVIOUS
<1>7. DashType'
  BY <1>1, <1>2, <1>5, <1>6 DEF DashType
<1>8. OnlyWhenCut'
  <2>1. /\ ReadSoFar(<<>>, LogOf(works), 0) /\ Parted(LogOf(works), 0) = {}
        /\ Twice(<<>>) = {} /\ Overlaps(<<>>) = {} /\ Doubled(<<>>) = {}
    BY <1>6 DEF ReadSoFar, Parted, Twice, Overlaps, Doubled
  <2> QED
    BY <1>1, <1>2, <2>1 DEF OnlyWhenCut
<1> QED
  BY <1>3, <1>4, <1>7, <1>8 DEF PayInv

\* The blocks that the dashboard knows are gotworks.
LEMMA RecentAre ==
  ASSUME ChainType
  PROVE  RecentBlocks \in Seq(Nat)
<1>1. works \in Seq(Gotwork) /\ shown \in Nat /\ shown <= TipOf(works)
  BY DEF ChainType
<1>2. PICK S : S = {n \in DOMAIN works : works[n].parent}
  OBVIOUS
<1>3. Finite(S) /\ Cardinality(S) = TipOf(works)
  BY <1>1, <1>2, TipIs DEF TipOf
<1>4. PICK mined : mined = Sorted(S)
  OBVIOUS
<1>5. mined \in Seq(Nat) /\ Len(mined) \in Nat /\ shown <= Len(mined)
  <2>1. Sorted(S) \in Seq(Nat) /\ Len(Sorted(S)) = Cardinality(S) /\ Cardinality(S) \in Nat
    BY <1>3, SortedIs
  <2> QED
    BY <1>1, <1>3, <1>4, <2>1
<1>6. PICK from : from = IF shown > Recent THEN shown - Recent + 1 ELSE 1
  OBVIOUS
<1>7. from \in Int /\ from >= 1
  <2>1. Recent \in Nat
    BY LimitsAssumption DEF LimitsAssumption
  <2> QED
    BY <1>1, <1>6, <2>1
<1>8. \A i \in from .. shown : mined[i] \in Nat
  <2>1. \A i \in 1 .. Len(mined) : mined[i] \in Nat
    BY <1>5
  <2> QED
    BY <1>1, <1>5, <1>7, <2>1
<1>9. PICK last : last = SubSeq(mined, from, shown)
  OBVIOUS
<1>10. last \in Seq(Nat)
  BY <1>1, <1>5, <1>7, <1>8, <1>9, SubSeqProperties
<1>11. RecentBlocks = last
  BY <1>2, <1>4, <1>6, <1>9 DEF RecentBlocks
<1> QED
  BY <1>10, <1>11

\* An element of one sequence behind another is in either.
LEMMA JoinedAt ==
  ASSUME NEW T, NEW a \in Seq(T), NEW b \in Seq(T), NEW c, c = a \o b
  PROVE  /\ c \in Seq(T) /\ Len(c) = Len(a) + Len(b)
         /\ \A i \in 1 .. Len(c) : \/ i \in 1 .. Len(a) /\ c[i] = a[i]
                                   \/ i - Len(a) \in 1 .. Len(b) /\ c[i] = b[i - Len(a)]
<1>1. c \in Seq(T) /\ Len(c) = Len(a) + Len(b) /\ Len(a) \in Nat /\ Len(b) \in Nat
  OBVIOUS
<1> SUFFICES ASSUME NEW i \in 1 .. Len(c)
             PROVE  \/ i \in 1 .. Len(a) /\ c[i] = a[i]
                    \/ i - Len(a) \in 1 .. Len(b) /\ c[i] = b[i - Len(a)]
  BY <1>1
<1>2. CASE i <= Len(a)
  BY <1>1, <1>2
<1>3. CASE i > Len(a)
  <2>1. i - Len(a) \in 1 .. Len(b)
    BY <1>1, <1>3
  <2>2. c[i] = b[i - Len(a)]
    BY <1>1, <1>3
  <2> QED
    BY <2>1, <2>2
<1> QED
  BY <1>1, <1>2, <1>3

\* (Twice, as the steps below take it apart.)
IsTwice(n, ss) ==
  n \in Nat /\ \E i \in 1 .. Len(ss) : \E j \in 1 .. Len(ss) : i # j /\ ss[i].n = n /\ ss[j].n = n
\* (Two of its places.)
LEMMA TwiceIn ==
  ASSUME NEW ss, NEW n, n \in Twice(ss)
  PROVE  IsTwice(n, ss)
BY DEF Twice, IsTwice

\* What is known after a read up to line k.
ReadOn(ss, old, log, o, k) ==
  /\ ss \in Seq(Solved) /\ ReadSoFar(ss, log, k)
  /\ Twice(ss) \subseteq Twice(old) \cup Parted(log, o)
\* What one read adds.
LEMMA ReadKeeps ==
  ASSUME NEW ws \in Seq(Gotwork), NEW log, log = LogOf(ws), NEW o \in Nat, NEW k \in Nat, o <= k, k <= Len(log),
         NEW old \in Seq(Solved), ReadSoFar(old, log, o),
         NEW chunk, chunk = SubSeq(log, o + 1, k), NEW ss, ss = old \o ParseProxySolves(chunk, ws)
  PROVE  ReadOn(ss, old, log, o, k)
<1>1. Written(log, 1 .. Len(ws))
  BY LogWritten
<1>2. /\ Len(log) \in Nat /\ SolvesApart(log)
      /\ \A p \in 1 .. Len(log) : WellWritten(log[p]) /\ log[p].n \in 1 .. Len(ws)
  BY <1>1 DEF Written
<1>3. PICK ms : ms = ParseProxySolves(chunk, ws)
  OBVIOUS
<1>4. /\ Written(chunk, 1 .. Len(ws)) /\ Len(chunk) = k - o
      /\ \A p \in 1 .. Len(chunk) : chunk[p] = log[o + p] /\ o + p \in 1 .. Len(log)
  <2>1. PICK S : S = 1 .. Len(ws)
    OBVIOUS
  <2>2. Written(log, S)
    BY <1>1, <2>1
  <2>3. PartOf(log, S, o, k, chunk)
    BY <2>2, ChunkOf
  <2> QED
    BY <2>1, <2>3 DEF PartOf
<1>5. /\ ms \in Seq(Solved)
      /\ \A i \in 1 .. Len(ms) : \E p \in 1 .. Len(chunk) : OfSolve(chunk[p]) /\ ms[i].n = chunk[p].n
      /\ \A i, j \in 1 .. Len(ms) : ms[i].n = ms[j].n => i = j
  <2>1. Written(chunk, 1 .. Len(ws))
    BY <1>4
  <2>2. ParsedFrom(chunk, ms)
    BY <1>3, <2>1, ParsedAre
  <2> QED
    BY <2>2 DEF ParsedFrom
<1>6. \A i \in 1 .. Len(ms) : \E p \in 1 .. Len(log) : p > o /\ p <= k /\ OfSolve(log[p]) /\ ms[i].n = log[p].n
  <2> SUFFICES ASSUME NEW i \in 1 .. Len(ms)
               PROVE  \E p \in 1 .. Len(log) : p > o /\ p <= k /\ OfSolve(log[p]) /\ ms[i].n = log[p].n
    OBVIOUS
  <2>1. PICK r \in 1 .. Len(chunk) : OfSolve(chunk[r]) /\ ms[i].n = chunk[r].n
    BY <1>5
  <2>2. PICK p \in 1 .. Len(log) : p = o + r /\ chunk[r] = log[p]
    BY <1>4
  <2>3. p > o /\ p <= k
    <3>1. Len(chunk) = k - o
      BY <1>4
    <3>2. r \in 1 .. k - o
      BY <3>1
    <3> QED
      BY <2>2, <3>2
  <2> QED
    BY <2>1, <2>2, <2>3
<1>7. \A i \in 1 .. Len(old) : \E p \in 1 .. Len(log) : p <= o /\ OfSolve(log[p]) /\ old[i].n = log[p].n
  <2> SUFFICES ASSUME NEW i \in 1 .. Len(old)
               PROVE  \E p \in 1 .. Len(log) : p <= o /\ OfSolve(log[p]) /\ old[i].n = log[p].n
    OBVIOUS
  <2>1. PICK p \in 1 .. o : OfSolve(log[p]) /\ log[p].n = old[i].n
    BY DEF ReadSoFar
  <2>2. p \in 1 .. Len(log) /\ p <= o
    BY <1>2, <2>1
  <2> QED
    BY <2>1, <2>2
<1>8. ss \in Seq(Solved) /\ Len(ss) = Len(old) + Len(ms) /\ Len(old) \in Nat /\ Len(ms) \in Nat
  BY <1>3, <1>5
<1>9. \A i \in 1 .. Len(ss) : \/ i \in 1 .. Len(old) /\ ss[i] = old[i]
                              \/ i - Len(old) \in 1 .. Len(ms) /\ ss[i] = ms[i - Len(old)]
  <2>1. ms \in Seq(Solved) /\ ss = old \o ms
    BY <1>3, <1>5
  <2>2. PICK T : T = Solved
    OBVIOUS
  <2>3. old \in Seq(T) /\ ms \in Seq(T)
    BY <2>1, <2>2
  <2> QED
    BY <2>1, <2>3, JoinedAt
<1>10. ReadSoFar(ss, log, k)
  <2> SUFFICES ASSUME NEW i \in 1 .. Len(ss) PROVE \E p \in 1 .. k : OfSolve(log[p]) /\ log[p].n = ss[i].n
    BY DEF ReadSoFar
  <2>1. PICK p \in 1 .. Len(log) : p <= k /\ OfSolve(log[p]) /\ ss[i].n = log[p].n
    <3>1. CASE i \in 1 .. Len(old) /\ ss[i] = old[i]
      <4>1. PICK p \in 1 .. Len(log) : p <= o /\ OfSolve(log[p]) /\ old[i].n = log[p].n
        BY <1>7, <3>1
      <4>2. p <= k
        BY <1>2, <4>1
      <4> QED
        BY <3>1, <4>1, <4>2
    <3>2. CASE i - Len(old) \in 1 .. Len(ms) /\ ss[i] = ms[i - Len(old)]
      BY <1>6, <3>2
    <3> QED
      BY <1>9, <3>1, <3>2
  <2>2. p \in 1 .. k
    BY <1>2, <2>1
  <2> QED
    BY <2>1, <2>2
\* One that was read before and one that was read now.
<1>11. ASSUME NEW i \in 1 .. Len(old), NEW j \in 1 .. Len(ms), old[i].n = ms[j].n
       PROVE  old[i].n \in Parted(log, o)
  <2>1. PICK p \in 1 .. Len(log) : p <= o /\ OfSolve(log[p]) /\ old[i].n = log[p].n
    BY <1>7
  <2>2. PICK q \in 1 .. Len(log) : q > o /\ OfSolve(log[q]) /\ ms[j].n = log[q].n
    BY <1>6
  <2>3. p < q
    BY <1>2, <2>1, <2>2
  <2>4. log[p].kind = "solve" /\ q = p + 1
    BY <1>2, <1>11, <2>1, <2>2, <2>3 DEF SolvesApart
  <2>5. p = o /\ q = o + 1
    BY <1>2, <2>1, <2>2, <2>4
  <2>6. log[o] = SolveLine(log[o].n) /\ log[o].n \in Nat
    <3>1. p \in 1 .. Len(log) /\ WellWritten(log[p]) /\ log[p].n \in 1 .. Len(ws)
      BY <1>2
    <3>2. log[p] = SolveLine(log[p].n)
      BY <2>4, <3>1 DEF WellWritten
    <3>3. log[p].n \in Nat
      BY <3>1
    <3>4. p = o
      BY <2>5
    <3> QED
      BY <3>2, <3>3, <3>4
  <2> QED
    BY <1>11, <2>1, <2>2, <2>5, <2>6 DEF Parted
<1>12. Twice(ss) \subseteq Twice(old) \cup Parted(log, o)
  <2> SUFFICES ASSUME NEW n, n \in Twice(ss) PROVE n \in Twice(old) \cup Parted(log, o)
    OBVIOUS
  <2>6. IsTwice(n, ss)
    BY TwiceIn
  <2>0. PICK i \in 1 .. Len(ss) : n \in Nat /\ \E j \in 1 .. Len(ss) : i # j /\ ss[i].n = n /\ ss[j].n = n
    BY <2>6 DEF IsTwice
  <2>5. PICK j \in 1 .. Len(ss) : n \in Nat /\ i # j /\ ss[i].n = n /\ ss[j].n = n
    BY <2>0
  <2>1. CASE i \in 1 .. Len(old) /\ ss[i] = old[i] /\ j \in 1 .. Len(old) /\ ss[j] = old[j]
    BY <2>5, <2>1 DEF Twice
  <2>2. CASE i \in 1 .. Len(old) /\ ss[i] = old[i] /\ j - Len(old) \in 1 .. Len(ms) /\ ss[j] = ms[j - Len(old)]
    BY <1>11, <2>5, <2>2
  <2>3. CASE j \in 1 .. Len(old) /\ ss[j] = old[j] /\ i - Len(old) \in 1 .. Len(ms) /\ ss[i] = ms[i - Len(old)]
    BY <1>11, <2>5, <2>3
  <2>4. CASE i - Len(old) \in 1 .. Len(ms) /\ ss[i] = ms[i - Len(old)] /\ j - Len(old) \in 1 .. Len(ms) /\ ss[j] = ms[j - Len(old)]
    <3>1. PICK q \in 1 .. Len(ms) : q = i - Len(old) /\ ss[i] = ms[q]
      BY <2>4
    <3>2. PICK r \in 1 .. Len(ms) : r = j - Len(old) /\ ss[j] = ms[r]
      BY <2>4
    <3>3. q = r
      <4>1. ms[q].n = ms[r].n
        BY <2>5, <3>1, <3>2
      <4> QED
        BY <1>5, <4>1
    <3>4. i \in Int /\ j \in Int /\ Len(old) \in Int
      BY <1>8
    <3> QED
      BY <2>5, <3>1, <3>2, <3>3, <3>4
  <2> QED
    BY <1>9, <2>1, <2>2, <2>3, <2>4
<1> QED
  BY <1>8, <1>10, <1>12 DEF ReadOn

\* A read: solves more, and events made anew of all of them.
LEMMA ApiStateKeeps ==
  ASSUME PayInv, NEW k, ApiState(k)
  PROVE  PayInv'
<1>1. ChainType /\ DashType /\ OnlyWhenCut /\ works \in Seq(Gotwork)
  BY DEF PayInv, ChainType
<1>2. PICK log : log = LogOf(works)
  OBVIOUS
<1>3. ProxyLog = log
  BY <1>2 DEF ProxyLog, LogOf
<1>4. PICK o \in Nat : o = offset
  BY <1>1 DEF DashType
<1>5. Written(log, 1 .. Len(works)) /\ Len(log) \in Nat /\ Len(works) \in Nat
  BY <1>1, <1>2, LogWritten DEF Written
<1>6. k \in Nat /\ o <= k /\ k <= Len(log)
  <2>1. k \in o .. Len(log)
    BY <1>3, <1>4 DEF ApiState
  <2> QED
    BY <1>5, <2>1
<1>7. PICK old : old = solves
  OBVIOUS
<1>8. old \in Seq(Solved) /\ ReadSoFar(old, log, o) /\ Twice(old) \subseteq cut /\ Parted(log, o) \subseteq cut
  BY <1>1, <1>2, <1>4, <1>7 DEF DashType, OnlyWhenCut
<1>9. PICK chunk : chunk = SubSeq(log, o + 1, k)
  OBVIOUS
<1>10. PICK ss : ss = old \o ParseProxySolves(chunk, works)
  OBVIOUS
<1>11. ss \in Seq(Solved) /\ ReadSoFar(ss, log, k) /\ Twice(ss) \subseteq cut
  <2>1. /\ ss \in Seq(Solved) /\ ReadSoFar(ss, log, k)
        /\ Twice(ss) \subseteq Twice(old) \cup Parted(log, o)
    <3>1. ReadOn(ss, old, log, o, k)
      BY <1>1, <1>2, <1>6, <1>8, <1>9, <1>10, ReadKeeps
    <3> QED
      BY <3>1 DEF ReadOn
  <2> QED
    BY <1>8, <2>1
<1>12. PICK es : es = Events(RecentBlocks, ss, works, MaxGap)
  OBVIOUS
<1>13. es \in Seq(Event) /\ OnceEach(es, ss)
  <2>1. PICK blocks \in Seq(Nat) : blocks = RecentBlocks
    BY <1>1, RecentAre
  <2> QED
    BY <1>11, <1>12, <2>1, EventsAre
<1>14. Overlaps(es) \subseteq cut
  <2>1. Overlaps(es) \subseteq Twice(ss)
    BY <1>13 DEF Overlaps, OnceEach
  <2> QED
    BY <1>11, <2>1
<1>15. /\ UNCHANGED logVars /\ UNCHANGED chainVars /\ account' = account
       /\ offset' = k /\ solves' = ss /\ handed' = es
  <2>1. /\ UNCHANGED logVars /\ UNCHANGED chainVars /\ account' = account
        /\ offset' = k /\ solves' = ss
    BY <1>3, <1>4, <1>7, <1>9, <1>10 DEF ApiState, ReadUpTo
  <2>2. handed' = Events(RecentBlocks, solves', works, MaxGap)
    BY DEF ApiState
  <2> QED
    BY <1>12, <2>1, <2>2
<1>16. cut \subseteq cut' /\ Parted(log, k) \subseteq cut'
  <2>1. cut' = cut \cup {n \in DOMAIN works : /\ k < Len(log) /\ k > 0
                                              /\ log[k] = [kind |-> "solve", n |-> n, kid |-> ""]
                                              /\ log[k + 1].n = n}
    BY <1>3 DEF ApiState
  <2>2. ASSUME NEW n \in Parted(log, k) PROVE n \in cut'
    <3>1. k \in 1 .. Len(log) /\ k + 1 \in 1 .. Len(log) /\ log[k] = SolveLine(n) /\ log[k + 1].n = n
      BY <2>2 DEF Parted
    <3>2. k < Len(log) /\ k > 0
      BY <1>5, <1>6, <3>1
    <3>3. n \in DOMAIN works
      <4>1. SolveLine(n).n = n
        BY DEF SolveLine
      <4>2. log[k].n \in 1 .. Len(works)
        BY <1>5, <3>1 DEF Written
      <4> QED
        BY <1>1, <3>1, <4>1, <4>2
    <3> QED
      BY <2>1, <3>1, <3>2, <3>3 DEF SolveLine
  <2> QED
    BY <2>1, <2>2
<1>17. LogInv'
  BY <1>15, LogStays DEF PayInv
<1>18. ChainType'
  BY <1>1, <1>15 DEF ChainType, chainVars
<1>19. works' = works
  BY <1>15 DEF chainVars
<1>20. DashType'
  BY <1>1, <1>2, <1>6, <1>11, <1>13, <1>15, <1>19 DEF DashType
<1>21. Doubled(account) \subseteq cut
  BY <1>1 DEF OnlyWhenCut
<1>22. OnlyWhenCut'
  <2>1. ReadSoFar(ss, log, k) /\ Parted(log, k) \subseteq cut' /\ Twice(ss) \subseteq cut'
        /\ Overlaps(es) \subseteq cut' /\ Doubled(account) \subseteq cut'
    BY <1>11, <1>14, <1>16, <1>21
  <2> QED
    BY <1>2, <1>15, <1>19, <2>1 DEF OnlyWhenCut
<1> QED
  BY <1>17, <1>18, <1>20, <1>22 DEF PayInv

\* The entry the warmer finds is one the coinbaser recorded.
LEMMA BeforeIn ==
  ASSUME debug \in Seq(Division), NEW S, S \subseteq DOMAIN debug, S # {}, NEW time
  PROVE  Before(S, time) \in Division
<1>1. DOMAIN debug = 1 .. Len(debug) /\ Len(debug) \in Nat
  OBVIOUS
<1>2. ASSUME NEW T, T \subseteq S, T # {} PROVE debug[Max(T)] \in Division
  <2>1. T \in SUBSET Nat /\ T \subseteq 1 .. Len(debug)
    BY <1>1, <1>2
  <2>5. IsFiniteSet(1 .. Len(debug))
    BY <1>1, FS_Interval
  <2>2. IsFiniteSet(T)
    BY <2>1, <2>5, FS_Subset
  <2>3. Max(T) \in T
    BY <1>2, <2>1, <2>2, MaxIn
  <2>4. PICK i \in 1 .. Len(debug) : i = Max(T)
    BY <2>1, <2>3
  <2> QED
    BY <2>4
<1>3. PICK older : older = {i \in S : debug[i].at <= time}
  OBVIOUS
<1>4. Before(S, time) = IF older = {} THEN debug[Max(S)] ELSE debug[Max(older)]
  BY <1>3 DEF Before
<1>5. older \subseteq S
  BY <1>3
<1> QED
  BY <1>2, <1>4, <1>5

\* ... and so is the one _find_coinbaser_entry returns ...
LEMMA FoundIn ==
  ASSUME debug \in Seq(Division), debug # <<>>, NEW time, NEW prev
  PROVE  FindEntry(time, prev) \in Division
<1>1. PICK S : S = DOMAIN debug
  OBVIOUS
<1>2. S # {}
  <2>1. Len(debug) \in Nat /\ Len(debug) # 0 /\ DOMAIN debug = 1 .. Len(debug)
    BY EmptySeq
  <2>2. 1 \in DOMAIN debug
    BY <2>1
  <2> QED
    BY <1>1, <2>2
<1>3. PICK same : same = {i \in DOMAIN debug : debug[i].prev = prev}
  OBVIOUS
<1>4. FindEntry(time, prev) = IF same # {} THEN Before(same, time) ELSE Before(S, time)
  BY <1>1, <1>3 DEF FindEntry
<1>5. Before(S, time) \in Division
  BY <1>1, <1>2, BeforeIn
<1>6. same # {} => Before(same, time) \in Division
  <2>1. same \subseteq DOMAIN debug
    BY <1>3
  <2> QED
    BY <2>1, BeforeIn
<1> QED
  BY <1>4, <1>5, <1>6

\* ... whose works can be divided by.
LEMMA EntryWorks ==
  ASSUME debug \in Seq(Division), debug # <<>>, NEW event, NEW up
  PROVE  EntryOf(event, up).works \in Parts
<1>1. PICK d : d = EntryOf(event, up)
  OBVIOUS
<1>2. d \in Division
  BY <1>1, FoundIn DEF EntryOf
<1> QED
  BY <1>1, <1>2 DEF Division

\* What is accounted for one event: a row of each of its child blocks.
RowsFor(details, bps, w) == [i \in DOMAIN details |-> Accounted(details[i], KidReward, bps, w, Keys)]
RowsOver(rows, D) ==
  /\ rows \in Seq(Row)
  /\ \A i \in 1 .. Len(rows) : rows[i].block \in D
  /\ \A i, j \in 1 .. Len(rows) : rows[i].block = rows[j].block => i = j

\* A row accounts its reward in full.
LEMMA RowIs ==
  ASSUME NEW d \in Detail, NEW bps \in Nat, NEW w \in Parts, NEW row, row = Accounted(d, KidReward, bps, w, Keys)
  PROVE  row \in Row /\ row.block = d
<1>1. PICK reward \in Nat \ {0} : reward = KidReward
  BY AmountsAssumption DEF AmountsAssumption
<1>2. Worked(w) /\ DOMAIN w \subseteq Payees
  BY PartsWorked
<1>3. row = Accounted(d, reward, bps, w, Keys)
  BY <1>1
<1>4. /\ row = [block |-> d, reward |-> reward, to |-> row.to, keep |-> row.keep]
      /\ Worked(row.to) /\ DOMAIN row.to \subseteq DOMAIN w
      /\ row.to = [a \in DOMAIN row.to |-> row.to[a]]
      /\ SumFunction(row.to) + row.keep = reward /\ row.keep \in Nat \ {0}
  BY <1>2, <1>3, AccountedAddsUp
<1>5. PICK to : to = row.to
  OBVIOUS
<1>6. to \in Parts
  <2>1. to = [a \in DOMAIN to |-> to[a]] /\ Worked(to) /\ DOMAIN to \subseteq Payees
    BY <1>2, <1>4, <1>5
  <2> QED
    BY <2>1, WorkedParts
<1>7. PICK keep : keep = row.keep
  OBVIOUS
<1>8. row = [block |-> d, reward |-> reward, to |-> to, keep |-> keep] /\ keep \in Nat \ {0}
  BY <1>4, <1>5, <1>7
<1>9. row \in [block : Detail, reward : Nat, to : Parts, keep : Nat \ {0}]
  BY <1>6, <1>8
<1>10. row.block = d /\ row.reward = reward
  BY <1>8
<1> QED
  BY <1>4, <1>9, <1>10 DEF Row

\* The rows of one event are about blocks of it, each about another.
LEMMA RowsAre ==
  ASSUME NEW D \in SUBSET Detail, IsFiniteSet(D), NEW bps \in Nat, NEW w \in Parts,
         NEW rows, rows = RowsFor(SetToSeq(D), bps, w)
  PROVE  RowsOver(rows, D)
<1>1. PICK s : s = SetToSeq(D)
  OBVIOUS
<1>2. s \in Seq(D) /\ \A i, j \in 1 .. Len(s) : s[i] = s[j] => i = j
  BY <1>1, SetToSeqIs
<1>3. DOMAIN s = 1 .. Len(s) /\ Len(s) \in Nat /\ \A i \in 1 .. Len(s) : s[i] \in D /\ s[i] \in Detail
  BY <1>2
<1>4. rows = [i \in 1 .. Len(s) |-> Accounted(s[i], KidReward, bps, w, Keys)]
  BY <1>1, <1>3 DEF RowsFor
<1>5. \A i \in 1 .. Len(s) : rows[i] \in Row /\ rows[i].block = s[i]
  <2> SUFFICES ASSUME NEW i \in 1 .. Len(s) PROVE rows[i] \in Row /\ rows[i].block = s[i]
    OBVIOUS
  <2>1. PICK d \in Detail : d = s[i]
    BY <1>3
  <2>2. rows[i] = Accounted(d, KidReward, bps, w, Keys)
    BY <1>4, <2>1
  <2> QED
    BY <2>1, <2>2, RowIs
<1>6. rows \in Seq(Row) /\ Len(rows) = Len(s)
  <2>1. rows = [i \in 1 .. Len(s) |-> rows[i]]
    BY <1>4
  <2> QED
    BY <1>3, <1>5, <2>1
<1> QED
  BY <1>2, <1>3, <1>5, <1>6 DEF RowsOver

\* Two rows of one block, unless a read cut the block's solve apart.
SameBlock(C) == {pair \in Row \X Row : pair[1].block = pair[2].block /\ pair[1].block.n \notin C}

\* The rows of all events.
LEMMA AllRowsAre ==
  ASSUME NEW es \in Seq(Event), NEW C, Overlaps(es) \subseteq C,
         NEW ss, ss = [e \in 1 .. Len(es) |-> ss[e]], \A e \in 1 .. Len(es) : RowsOver(ss[e], es[e].details)
  PROVE  FlattenSeq(ss) \in Seq(Row) /\ Doubled(FlattenSeq(ss)) \subseteq C
<1>1. Len(es) \in Nat /\ \A e \in 1 .. Len(es) : es[e] \in Event /\ es[e].details \subseteq Detail
  BY DEF Event
<1>2. ss \in Seq(Seq(Row)) /\ Len(ss) = Len(es)
  <2>1. \A e \in 1 .. Len(es) : ss[e] \in Seq(Row)
    BY DEF RowsOver
  <2> QED
    BY <1>1, <2>1
<1>3. PICK R : R = SameBlock(C)
  OBVIOUS
<1>4. \A e \in 1 .. Len(ss) : Apart(ss[e], R)
  <2> SUFFICES ASSUME NEW e \in 1 .. Len(ss), NEW i \in 1 .. Len(ss[e]), NEW j \in 1 .. Len(ss[e]), i # j,
                      <<ss[e][i], ss[e][j]>> \in R
               PROVE  FALSE
    BY DEF Apart
  <2>1. ss[e][i].block = ss[e][j].block
    BY <1>3 DEF SameBlock
  <2>2. RowsOver(ss[e], es[e].details)
    BY <1>2
  <2> QED
    BY <2>1, <2>2 DEF RowsOver
<1>5. \A e, f \in 1 .. Len(ss) : e # f => Unlike(ss[e], ss[f], R)
  <2> SUFFICES ASSUME NEW e \in 1 .. Len(ss), NEW f \in 1 .. Len(ss), e # f,
                      NEW i \in 1 .. Len(ss[e]), NEW j \in 1 .. Len(ss[f]),
                      <<ss[e][i], ss[f][j]>> \in R
               PROVE  FALSE
    BY DEF Unlike
  <2>1. ss[e][i].block = ss[f][j].block /\ ss[e][i].block.n \notin C
    BY <1>3 DEF SameBlock
  <2>2. RowsOver(ss[e], es[e].details) /\ RowsOver(ss[f], es[f].details) /\ e \in 1 .. Len(es) /\ f \in 1 .. Len(es)
    BY <1>2
  <2>3. PICK c \in es[e].details : c = ss[e][i].block
    BY <2>2 DEF RowsOver
  <2>4. PICK d \in es[f].details : d = ss[f][j].block
    BY <2>2 DEF RowsOver
  <2>5. c = d /\ c \in Detail
    BY <1>1, <2>1, <2>2, <2>3, <2>4
  <2>6. c.n \in Nat
    BY <2>5 DEF Detail
  <2>7. c.n \in Overlaps(es)
    BY <2>2, <2>3, <2>4, <2>5, <2>6 DEF Overlaps
  <2> QED
    BY <2>1, <2>3, <2>7
<1>6. PICK S : S = Row
  OBVIOUS
<1>7. ss \in Seq(Seq(S))
  BY <1>2, <1>6
<1>8. PICK rows : rows = FlattenSeq(ss)
  OBVIOUS
<1>9. rows \in Seq(S)
  BY <1>7, <1>8, FlattenMembers
<1>10. Apart(rows, R)
  BY <1>4, <1>5, <1>7, <1>8, FlattenApart
<1>11. ASSUME NEW n, n \in Doubled(rows) PROVE n \in C
  <2>1. PICK i \in 1 .. Len(rows) : \E j \in 1 .. Len(rows) : i # j /\ rows[i].block = rows[j].block /\ rows[i].block.n = n
    BY <1>11 DEF Doubled
  <2>2. PICK j \in 1 .. Len(rows) : i # j /\ rows[i].block = rows[j].block /\ rows[i].block.n = n
    BY <2>1
  <2>3. rows[i] \in Row /\ rows[j] \in Row
    BY <1>6, <1>9
  <2>4. <<rows[i], rows[j]>> \notin R
    BY <1>10, <2>2 DEF Apart
  <2> QED
    BY <1>3, <2>2, <2>3, <2>4 DEF SameBlock
<1> QED
  BY <1>6, <1>8, <1>9, <1>11

\* The warmer: the account is made anew of the events handed on.
LEMMA WarmKeeps ==
  ASSUME PayInv, NEW up, Warm(up)
  PROVE  PayInv'
<1>1. ChainType /\ DashType /\ OnlyWhenCut
  BY DEF PayInv
<1>2. /\ UNCHANGED logVars /\ UNCHANGED chainVars
      /\ offset' = offset /\ solves' = solves /\ cut' = cut /\ handed' = handed
  BY DEF Warm
<1>3. PICK bps \in Nat : bps = keepBps
  BY <1>1 DEF ChainType
<1>4. PICK es \in Seq(Event) : es = handed
  BY <1>1 DEF DashType
<1>5. PICK C : C = cut
  OBVIOUS
<1>6. Overlaps(es) \subseteq C
  BY <1>1, <1>4, <1>5 DEF OnlyWhenCut
<1>7. account' \in Seq(Row) /\ Doubled(account') \subseteq C
  <2>1. CASE debug = <<>>
    <3>1. account' = <<>>
      BY <2>1 DEF Warm
    <3>2. <<>> \in Seq(Row) /\ Len(<<>>) = 0 /\ 1 .. 0 = {}
      OBVIOUS
    <3>3. Doubled(<<>>) = {}
      BY <3>2 DEF Doubled
    <3> QED
      BY <3>1, <3>2, <3>3
  <2>2. CASE debug # <<>>
    <3>1. PICK ss : ss = [e \in 1 .. Len(es) |-> RowsFor(SetToSeq(es[e].details), bps, EntryOf(es[e], up).works)]
      OBVIOUS
    <3>2. account' = FlattenSeq(ss)
      <4>1. DOMAIN es = 1 .. Len(es)
        OBVIOUS
      <4> QED
        BY <1>3, <1>4, <2>2, <3>1, <4>1 DEF Warm, RowsFor
    <3>3. \A e \in 1 .. Len(es) : RowsOver(ss[e], es[e].details)
      <4> SUFFICES ASSUME NEW e \in 1 .. Len(es) PROVE RowsOver(ss[e], es[e].details)
        OBVIOUS
      <4>1. es[e] \in Event
        OBVIOUS
      <4>2. PICK D : D = es[e].details
        OBVIOUS
      <4>3. D \in SUBSET Detail /\ IsFiniteSet(D)
        BY <4>1, <4>2 DEF Event
      <4>4. PICK w \in Parts : w = EntryOf(es[e], up).works
        BY <1>1, <2>2, EntryWorks DEF ChainType
      <4>5. ss[e] = RowsFor(SetToSeq(D), bps, w)
        BY <3>1, <4>2, <4>4
      <4> QED
        BY <4>2, <4>3, <4>5, RowsAre
    <3>4. ss = [e \in 1 .. Len(es) |-> ss[e]]
      BY <3>1
    <3>5. FlattenSeq(ss) \in Seq(Row) /\ Doubled(FlattenSeq(ss)) \subseteq C
      BY <1>6, <3>3, <3>4, AllRowsAre
    <3> QED
      BY <3>2, <3>5
  <2> QED
    BY <2>1, <2>2
<1>8. LogInv'
  BY <1>2, LogStays DEF PayInv
<1>9. ChainType'
  BY <1>1, <1>2 DEF ChainType, chainVars
<1>10. works' = works
  BY <1>2 DEF chainVars
<1>11. DashType'
  BY <1>1, <1>2, <1>7, <1>10 DEF DashType
<1>12. OnlyWhenCut'
  BY <1>1, <1>2, <1>5, <1>7, <1>10 DEF OnlyWhenCut
<1> QED
  BY <1>8, <1>9, <1>11, <1>12 DEF PayInv

-----------------------------------------------------------------------------
\* The invariant holds at first, and each step keeps it.

\* Nothing is there at first.
LEMMA PayInit == Init => PayInv
<1> SUFFICES ASSUME Init PROVE PayInv
  OBVIOUS
<1>1. LogInv
  BY LogInit
<1>2. /\ keepBps \in KeepRates /\ templates = <<>> /\ debug = <<>> /\ works = <<>> /\ shown = 0
      /\ offset = 0 /\ solves = <<>> /\ cut = {} /\ handed = <<>> /\ account = <<>>
  BY DEF Init
<1>3. /\ <<>> \in Seq(Coinbase) /\ <<>> \in Seq(Division) /\ <<>> \in Seq(Gotwork) /\ <<>> \in Seq(Solved)
      /\ <<>> \in Seq(Event) /\ <<>> \in Seq(Row) /\ Len(<<>>) = 0 /\ 1 .. 0 = {}
  OBVIOUS
<1>4. PICK ws \in Seq(Gotwork) : ws = works
  BY <1>2, <1>3
<1>5. PICK log : log = LogOf(ws)
  OBVIOUS
<1>6. TipOf(ws) \in Nat /\ Len(log) \in Nat
  <2>1. Written(log, 1 .. Len(ws))
    BY <1>5, LogWritten
  <2>2. Len(log) \in Nat
    BY <2>1 DEF Written
  <2>3. TipOf(ws) \in Nat
    BY TipIs
  <2> QED
    BY <2>2, <2>3
<1>7. ChainType
  <2>1. keepBps \in Nat
    BY <1>2, AmountsAssumption DEF AmountsAssumption
  <2>2. shown \in Nat /\ shown <= TipOf(works)
    BY <1>2, <1>4, <1>6
  <2> QED
    BY <1>2, <1>3, <2>1, <2>2 DEF ChainType
<1>8. DashType
  <2>1. offset \in Nat /\ offset <= Len(LogOf(works))
    BY <1>2, <1>4, <1>5, <1>6
  <2> QED
    BY <1>2, <1>3, <2>1 DEF DashType
<1>9. OnlyWhenCut
  <2>1. /\ ReadSoFar(<<>>, log, 0) /\ Parted(log, 0) = {}
        /\ Twice(<<>>) = {} /\ Overlaps(<<>>) = {} /\ Doubled(<<>>) = {}
    BY <1>3 DEF ReadSoFar, Parted, Twice, Overlaps, Doubled
  <2>2. ReadSoFar(solves, LogOf(works), offset) /\ Parted(LogOf(works), offset) = {}
    BY <1>2, <1>4, <1>5, <2>1
  <2>3. Twice(solves) = {} /\ Overlaps(handed) = {} /\ Doubled(account) = {}
    BY <1>2, <2>1
  <2> QED
    BY <2>2, <2>3 DEF OnlyWhenCut
<1> QED
  BY <1>1, <1>7, <1>8, <1>9 DEF PayInv

\* The steps of the share log leave the chain and the dashboard alone.
LEMMA ShareLogKeeps == PayInv /\ LogInv' /\ UNCHANGED <<chainVars, dashVars>> => PayInv'
<1> SUFFICES ASSUME PayInv, LogInv', UNCHANGED <<chainVars, dashVars>> PROVE PayInv'
  OBVIOUS
<1>1. ChainType /\ DashType /\ OnlyWhenCut
  BY DEF PayInv
<1>2. ChainType'
  BY <1>1 DEF ChainType, chainVars
<1>3. DashType'
  BY <1>1 DEF DashType, chainVars, dashVars
<1>4. OnlyWhenCut'
  BY <1>1 DEF OnlyWhenCut, chainVars, dashVars
<1> QED
  BY <1>2, <1>3, <1>4 DEF PayInv

\* Each step keeps the invariant.
LEMMA PayKept == PayInv /\ [Next]_vars => PayInv'
<1> SUFFICES ASSUME PayInv, [Next]_vars PROVE PayInv'
  OBVIOUS
<1>0. LogInv'
  BY LogKept DEF PayInv
<1>1. ASSUME NEW user \in Users, NEW work \in Works, LogShare(user, work)
      PROVE  PayInv'
  BY <1>0, <1>1, ShareLogKeeps DEF LogShare
<1>2. CASE Flush
  BY <1>0, <1>2, ShareLogKeeps DEF Flush
<1>3. ASSUME NEW k \in 0 .. MaxQueue, Write(k)
      PROVE  PayInv'
  BY <1>0, <1>3, ShareLogKeeps DEF Write
<1>4. CASE PoolStops
  BY <1>0, <1>4, ShareLogKeeps DEF PoolStops
<1>5. ASSUME NEW value \in Rewards, NEW outcome \in {"read", "garbled", "not_run"},
             NewTemplate(value, outcome)
      PROVE  PayInv'
  BY <1>5, NewTemplateKeeps
<1>6. ASSUME NEW t \in DOMAIN templates, NEW at \in t - 1 .. Len(templates),
             NEW kids \in SUBSET Kids, Solve(t, at, kids)
      PROVE  PayInv'
  BY <1>6, SolveKeeps
<1>7. CASE NewBlockLogged
  BY <1>7, NewBlockLoggedKeeps
<1>8. ASSUME NEW k \in 0 .. Len(ProxyLog), ApiState(k)
      PROVE  PayInv'
  BY <1>8, ApiStateKeeps
<1>9. ASSUME NEW up \in BOOLEAN, Warm(up)
      PROVE  PayInv'
  BY <1>9, WarmKeeps
<1>10. CASE DashboardRestarts
  BY <1>10, RestartKeeps
<1>11. CASE UNCHANGED vars
  BY <1>0, <1>11, ShareLogKeeps DEF vars
<1> QED
  BY <1>1, <1>2, <1>3, <1>4, <1>5, <1>6, <1>7, <1>8, <1>9, <1>10, <1>11 DEF Next

\* The two properties are parts of it.
LEMMA AddsUp == PayInv => RewardsAddUp
<1> SUFFICES ASSUME PayInv PROVE RewardsAddUp
  OBVIOUS
<1>1. templates \in Seq(Coinbase) /\ account \in Seq(Row)
  BY DEF PayInv, ChainType, DashType
<1>2. \A to \in Parts : \A a \in DOMAIN to : to[a] > 0
  BY PartsWorked DEF Worked, PosOn
<1>3. ASSUME NEW t \in DOMAIN templates
      PROVE  /\ SumFunction(templates[t].to) + templates[t].tracker = templates[t].value
             /\ \A a \in DOMAIN templates[t].to : templates[t].to[a] > 0
             /\ templates[t].value > 0 => templates[t].tracker > 0
             /\ ~ templates[t].refused
  <2>1. PICK txn \in Coinbase : txn = templates[t]
    BY <1>1
  <2>2. txn.to \in Parts /\ txn.refused = FALSE
    BY DEF Coinbase
  <2> QED
    BY <1>2, <2>1, <2>2 DEF Coinbase
<1>4. ASSUME NEW i \in DOMAIN account
      PROVE  /\ SumFunction(account[i].to) + account[i].keep = account[i].reward
             /\ \A a \in DOMAIN account[i].to : account[i].to[a] > 0
             /\ account[i].keep > 0
  <2>1. PICK row \in Row : row = account[i]
    BY <1>1
  <2>2. row.to \in Parts /\ row.keep \in Nat \ {0}
    BY DEF Row
  <2>3. row.keep > 0
    BY <2>2
  <2> QED
    BY <1>2, <2>1, <2>2, <2>3 DEF Row
<1> QED
  BY <1>3, <1>4 DEF RewardsAddUp

LEMMA OnceUnlessCut == PayInv => CountedTwiceOnlyWhenCut
<1> SUFFICES ASSUME PayInv, NEW i \in DOMAIN account, NEW j \in DOMAIN account,
                    i # j, account[i].block = account[j].block
             PROVE  account[i].block.n \in cut
  BY DEF CountedTwiceOnlyWhenCut
<1>1. account \in Seq(Row) /\ Doubled(account) \subseteq cut
  BY DEF PayInv, DashType, OnlyWhenCut
<1>2. i \in 1 .. Len(account) /\ j \in 1 .. Len(account)
  BY <1>1
<1>3. account[i].block.n \in Nat
  <2>1. account[i] \in Row
    BY <1>1
  <2>2. account[i].block \in Detail
    BY <2>1 DEF Row
  <2> QED
    BY <2>2 DEF Detail
<1>4. account[i].block.n \in Doubled(account)
  BY <1>2, <1>3 DEF Doubled
<1> QED
  BY <1>1, <1>4

\* (PayKept, PayInit.)
LEMMA PayHolds == Spec => []PayInv
<1>1. Init => PayInv
  BY PayInit
<1>2. PayInv /\ [Next]_vars => PayInv'
  BY PayKept
<1> QED
  BY <1>1, <1>2, PTL DEF Spec

\* RewardsAddUp: whatever was logged as shares and however a coinbaser run
\* ended, a coinbase pays out exactly what its block earns, each output is more
\* than nothing, the pool keeps something of a reward, and no division that the
\* coinbaser printed is refused by makeCoinbaseTxn; and the dashboard accounts a
\* child block's reward in full, whichever record of a division it found.
THEOREM RewardsAreDivided == Spec => []RewardsAddUp
<1>1. Spec => []PayInv
  BY PayHolds
<1>2. PayInv => RewardsAddUp
  BY AddsUp
<1> QED
  BY <1>1, <1>2, PTL

\* CountedTwiceOnlyWhenCut: in the payout snapshot two rows are about one child
\* block only if a read of the proxy's log once ended between the solve line and
\* the status line of the gotwork: everything else that api_state, the pairing of
\* solves with blocks and the warmer do leaves each block one row.
THEOREM CountedTwiceIsCut == Spec => []CountedTwiceOnlyWhenCut
<1>1. Spec => []PayInv
  BY PayHolds
<1>2. PayInv => CountedTwiceOnlyWhenCut
  BY OnceUnlessCut
<1> QED
  BY <1>1, <1>2, PTL

=============================================================================
