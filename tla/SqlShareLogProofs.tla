------------------------- MODULE SqlShareLogProofs -------------------------
(***************************************************************************)
(* Proofs about SqlShareLog for every set of chains, every size of batch   *)
(* and queue, every number of attempts and every behaviour of the          *)
(* database: no row is forgotten, a graceful stop leaves none behind, and  *)
(* the logger implements the promise of ShareLog.                          *)
(***************************************************************************)
EXTENDS SqlShareLog, DataLemmas, SequenceTheorems, TLAPS

-----------------------------------------------------------------------------
\* What the operations on a sequence do to the set of its elements.

LEMMA AppendRange ==
  ASSUME NEW S, NEW s \in Seq(S), NEW e \in S
  PROVE  /\ Append(s, e) \in Seq(S) /\ Append(s, e) # <<>>
         /\ Range(Append(s, e)) = Range(s) \cup {e}
         /\ DOMAIN Append(s, e) = 1 .. Len(s) + 1
         /\ Append(s, e)[Len(s) + 1] = e
         /\ \A i \in DOMAIN s : Append(s, e)[i] = s[i]
<1>1. /\ Append(s, e) \in Seq(S) /\ Len(Append(s, e)) = Len(s) + 1
      /\ Append(s, e)[Len(s) + 1] = e
      /\ \A i \in 1 .. Len(s) : Append(s, e)[i] = s[i]
  BY AppendProperties
<1>2. DOMAIN Append(s, e) = 1 .. Len(s) + 1 /\ DOMAIN s = 1 .. Len(s) /\ Len(s) \in Nat
  BY <1>1, LenProperties
<1>3. Range(Append(s, e)) = Range(s) \cup {e}
  BY <1>1, <1>2 DEF Range
<1>4. Append(s, e) # <<>>
  BY <1>1, <1>2, EmptySeq
<1>5. QED  BY <1>1, <1>2, <1>3, <1>4

LEMMA TailRange ==
  ASSUME NEW S, NEW s \in Seq(S), s # <<>>
  PROVE  /\ Head(s) \in S /\ Tail(s) \in Seq(S) /\ Head(s) = s[1] /\ 1 \in DOMAIN s
         /\ Range(s) = {Head(s)} \cup Range(Tail(s))
         /\ \A i \in DOMAIN Tail(s) : i \in Nat /\ i + 1 \in DOMAIN s /\ Tail(s)[i] = s[i + 1]
         /\ IsInjective(s) => IsInjective(Tail(s)) /\ Head(s) \notin Range(Tail(s))
<1>1. /\ Head(s) = s[1] /\ Head(s) \in S /\ Tail(s) \in Seq(S) /\ Len(Tail(s)) = Len(s) - 1
      /\ \A i \in 1 .. Len(Tail(s)) : Tail(s)[i] = s[i + 1]
  BY HeadTailProperties
<1>2. /\ DOMAIN s = 1 .. Len(s) /\ Len(s) \in Nat /\ Len(s) >= 1
      /\ DOMAIN Tail(s) = 1 .. Len(s) - 1
  BY <1>1, LenProperties, EmptySeq
<1>3. \A i \in DOMAIN Tail(s) : i \in Nat /\ i + 1 \in DOMAIN s /\ Tail(s)[i] = s[i + 1]
  BY <1>1, <1>2
<1>4. Range(s) = {Head(s)} \cup Range(Tail(s))
  <2>1. Range(s) \subseteq {Head(s)} \cup Range(Tail(s))
    <3>1. SUFFICES ASSUME NEW i \in DOMAIN s
                   PROVE  s[i] \in {Head(s)} \cup Range(Tail(s))
      BY DEF Range
    <3>2. CASE i = 1
      BY <1>1, <3>2
    <3>3. CASE i # 1
      <4>1. i - 1 \in DOMAIN Tail(s) /\ Tail(s)[i - 1] = s[i]
        BY <1>2, <1>3, <3>3
      <4>2. QED  BY <4>1 DEF Range
    <3>4. QED  BY <3>2, <3>3
  <2>2. {Head(s)} \cup Range(Tail(s)) \subseteq Range(s)
    BY <1>1, <1>2, <1>3 DEF Range
  <2>3. QED  BY <2>1, <2>2
<1>5. ASSUME IsInjective(s)
      PROVE  IsInjective(Tail(s)) /\ Head(s) \notin Range(Tail(s))
  BY <1>1, <1>2, <1>3, <1>5 DEF IsInjective, Range
<1>6. QED  BY <1>1, <1>2, <1>3, <1>4, <1>5

LEMMA TailEmpty ==
  ASSUME NEW S, NEW s \in Seq(S), s # <<>>
  PROVE  Tail(s) # <<>> <=> Len(s) > 1
<1>1. ASSUME NEW n \in Nat, NEW m \in Int, m = n - 1, n # 0
      PROVE  m # 0 <=> n > 1
  BY <1>1
<1>2. /\ Tail(s) \in Seq(S) /\ Len(Tail(s)) = Len(s) - 1
      /\ Len(s) \in Nat /\ Len(s) # 0 /\ Len(Tail(s)) \in Nat
  BY HeadTailProperties, LenProperties, EmptySeq
<1>3. Tail(s) # <<>> <=> Len(Tail(s)) # 0
  BY <1>2, EmptySeq
<1>4. Len(Tail(s)) # 0 <=> Len(s) > 1
  BY <1>1, <1>2
<1>5. QED  BY <1>3, <1>4

LEMMA AppendInjection ==
  ASSUME NEW S, NEW s \in Seq(S), NEW e \in S, IsInjective(s), e \notin Range(s)
  PROVE  IsInjective(Append(s, e))
<1>1. /\ DOMAIN Append(s, e) = 1 .. Len(s) + 1 /\ DOMAIN s = 1 .. Len(s) /\ Len(s) \in Nat
      /\ Append(s, e)[Len(s) + 1] = e
      /\ \A i \in DOMAIN s : Append(s, e)[i] = s[i]
  BY AppendRange, LenProperties
<1>2. QED  BY <1>1 DEF IsInjective, Range

-----------------------------------------------------------------------------
\* A row stays somewhere when each of its places is kept or exchanged for another.
Somewhere(c, n) ==
  LET r == Row(c, n) IN r \in dropped \/ Queued(r) \/ Held(r) \/ Kept(r) \/ r \in lost

LEMMA Conserve ==
  ASSUME NothingForgotten, logged' = logged, logged \in [Chains -> Nat],
         \A c \in Chains : \A n \in Nat : Somewhere(c, n) => Somewhere(c, n)'
  PROVE  NothingForgotten'
<1>1. \A c \in Chains : 1 .. logged[c] \subseteq Nat
  OBVIOUS
<1>2. QED  BY <1>1 DEF NothingForgotten, Somewhere

LEMMA Places ==
  ASSUME NEW c, NEW n
  PROVE  /\ Row(c, n).chain = c /\ Row(c, n).n = n
         /\ Held(Row(c, n)) <=> n \in Range(batch[c])
         /\ Kept(Row(c, n)) <=> n \in Range(table[c])
         /\ Held(Row(c, n))' <=> n \in Range(batch[c])'
         /\ Kept(Row(c, n))' <=> n \in Range(table[c])'
  BY DEF Row, Held, Kept, HeldOf

\* Leaving the batch, the queue and the table as they are, nothing is forgotten.
LEMMA Unmoved ==
  ASSUME IInv, UNCHANGED <<logged, batch, queue, table>>,
         dropped \subseteq dropped', lost \subseteq lost'
  PROVE  NothingForgotten'
<1>1. \A c \in Chains : \A n \in Nat : Somewhere(c, n) => Somewhere(c, n)'
  BY Places DEF Somewhere, Queued
<1>2. QED  BY <1>1, Conserve DEF IInv, TypeOK

-----------------------------------------------------------------------------
\* The chain being flushed

Flushing == {"insert", "wait", "reach", "single"}

LEMMA ChainInBatch ==
  ASSUME IInv, writer \in Flushing
  PROVE  /\ order # <<>> /\ Chain \in Chains
         /\ batch[Chain] \in Seq(Nat) /\ batch[Chain] # <<>>
<1>1. order # <<>> /\ order \in Seq(Chains)
  BY DEF IInv, OrderOK, TypeOK, Flushing
<1>2. Chain \in Chains /\ Chain \in Range(order)
  BY <1>1, TailRange DEF Chain
<1>3. QED  BY <1>1, <1>2 DEF IInv, OrderOK, TypeOK

\* After the last row of a chain the batch is still in order.
LEMMA NextChainOK ==
  ASSUME IInv, writer \in Flushing, NextChain(Chain)
  PROVE  /\ batch' \in [Chains -> Seq(Nat)] /\ taken' \in Nat /\ order' \in Seq(Chains)
         /\ attempts' \in Nat /\ leaving' \in BOOLEAN /\ leaving' = leaving
         /\ \A c \in Chains : c # Chain => batch'[c] = batch[c]
         /\ OrderOK'
         /\ writer' \in {"insert", "stopped", "collect"}
         /\ writer' = "stopped" => leaving /\ order' = <<>>
         /\ leaving => writer' # "collect"
<1>1. /\ order # <<>> /\ Chain \in Chains /\ order \in Seq(Chains)
      /\ batch \in [Chains -> Seq(Nat)] /\ taken \in Nat /\ leaving \in BOOLEAN
  BY ChainInBatch DEF IInv, TypeOK
<1>2. /\ Tail(order) \in Seq(Chains) /\ Range(order) = {Chain} \cup Range(Tail(order))
      /\ IsInjective(Tail(order)) /\ Chain \notin Range(Tail(order))
  BY <1>1, TailRange DEF IInv, OrderOK, Chain
<1>3. <<>> \in Seq(Nat)
  OBVIOUS
<1>4. /\ batch' \in [Chains -> Seq(Nat)] /\ batch'[Chain] = <<>>
      /\ \A c \in Chains : c # Chain => batch'[c] = batch[c]
  BY <1>1, <1>3 DEF NextChain
<1>5. order' = Tail(order) /\ taken' = (IF Tail(order) = <<>> THEN 0 ELSE taken)
  BY DEF NextChain, TakenAfter
<1>6. OrderOK'
  <2>1. IsInjective(order')
    BY <1>2, <1>5
  <2>2. \A c \in Chains : batch'[c] # <<>> <=> c \in Range(order')
    BY <1>1, <1>2, <1>4, <1>5 DEF IInv, OrderOK
  <2>3. taken' > 0 <=> order' # <<>>
    BY <1>1, <1>5 DEF IInv, OrderOK
  <2>4. writer' \in Flushing => order' # <<>>
    BY <1>5 DEF NextChain, Flushing
  <2>5. QED  BY <2>1, <2>2, <2>3, <2>4 DEF OrderOK, Flushing
<1>7. attempts' \in Nat /\ leaving' = leaving
  BY DEF NextChain
<1>8. /\ writer' \in {"insert", "stopped", "collect"}
      /\ writer' = "stopped" => leaving /\ order' = <<>>
      /\ leaving => writer' # "collect"
  BY <1>5 DEF NextChain
<1>9. QED  BY <1>1, <1>2, <1>4, <1>5, <1>6, <1>7, <1>8

\* A step of the writer that does not touch the queue keeps what there is to
\* say of the None.
LEMMA CloseKept ==
  ASSUME IInv, UNCHANGED <<queue, stopping, running, closed, logged, leaving>>,
         writer \notin Stopped,
         writer' \in Stopped => writer' = "stopped" /\ leaving /\ order' = <<>>,
         leaving => writer' # "collect"
  PROVE  CloseOK'
<1>1. stopping # "done" /\ (leaving => stopping = "join")
  BY DEF IInv, CloseOK, TypeOK
<1>2. \A r : Late(r)' <=> Late(r)
  BY DEF Late
<1>3. CloseOK
  BY DEF IInv
<1>4. leaving => \A r \in Range(queue) : Late(r)'
  BY <1>2, <1>3 DEF CloseOK
<1>5. \A i \in DOMAIN queue : queue[i] = None =>
        ~leaving /\ \A j \in DOMAIN queue : i < j => Late(queue[j])'
  BY <1>2, <1>3 DEF CloseOK
<1>6. QED  BY <1>1, <1>3, <1>4, <1>5 DEF CloseOK, Stopped

\* The table of a chain grows by rows of the batch.
LEMMA CommitOK ==
  ASSUME IInv, writer \in Flushing, Commit(Chain)
  PROVE  /\ table' \in [Chains -> Seq(Nat)]
         /\ \A c \in Chains : Range(table[c]) \subseteq Range(table'[c])
         /\ Range(batch[Chain]) \subseteq Range(table'[Chain])
<1>1. Chain \in Chains /\ batch[Chain] \in Seq(Nat)
  BY ChainInBatch
<1>2. table \in [Chains -> Seq(Nat)] /\ table[Chain] \in Seq(Nat)
  BY <1>1 DEF IInv, TypeOK
<1>3. /\ table[Chain] \o batch[Chain] \in Seq(Nat)
      /\ Range(table[Chain] \o batch[Chain]) = Range(table[Chain]) \cup Range(batch[Chain])
  BY <1>1, <1>2, ConcatProperties, RangeConcatenation
<1>4. QED  BY <1>1, <1>2, <1>3 DEF Commit

LEMMA CommitOneOK ==
  ASSUME IInv, writer \in Flushing, CommitOne(Chain)
  PROVE  /\ table' \in [Chains -> Seq(Nat)]
         /\ \A c \in Chains : Range(table[c]) \subseteq Range(table'[c])
         /\ First(Chain) \in Range(table'[Chain])
<1>1. Chain \in Chains /\ batch[Chain] \in Seq(Nat) /\ First(Chain) \in Nat
  BY ChainInBatch, TailRange DEF First
<1>2. table \in [Chains -> Seq(Nat)] /\ table[Chain] \in Seq(Nat)
  BY <1>1 DEF IInv, TypeOK
<1>3. /\ Append(table[Chain], First(Chain)) \in Seq(Nat)
      /\ Range(Append(table[Chain], First(Chain))) = Range(table[Chain]) \cup {First(Chain)}
  BY <1>1, <1>2, AppendRange
<1>4. QED  BY <1>1, <1>2, <1>3 DEF CommitOne

-----------------------------------------------------------------------------
\* One lemma per action

LEMMA LogShareOK ==
  ASSUME IInv, NEW c \in Chains, LogShare(c)
  PROVE  IInv'
<1>. DEFINE r == Row(c, logged[c] + 1)
<1>1. /\ logged \in [Chains -> Nat] /\ logged[c] \in Nat /\ r \in Rows /\ r # None
      /\ queue \in Seq(Rows \cup {None}) /\ dropped \subseteq Rows
  <2>1. /\ logged \in [Chains -> Nat] /\ logged[c] \in Nat
        /\ queue \in Seq(Rows \cup {None}) /\ dropped \subseteq Rows
    BY DEF IInv, TypeOK
  <2>2. r \in Rows
    BY <2>1 DEF Rows, Row
  <2>3. QED  BY <2>1, <2>2, ChainsAssumption
<1>2. /\ logged' = [logged EXCEPT ![c] = @ + 1] /\ logged' \in [Chains -> Nat]
      /\ UNCHANGED <<running, stopping, closed, batch, taken, order, attempts, leaving,
                     writer, conn, link, up, table, unsure, lost>>
  BY <1>1 DEF LogShare, flush, database
<1>3. /\ queue' \in Seq(Rows \cup {None}) /\ dropped' \subseteq Rows
      /\ Range(queue) \subseteq Range(queue') /\ dropped \subseteq dropped'
      /\ r \in dropped' \/ r \in Range(queue')
      /\ Range(queue') \subseteq Range(queue) \cup {r}
      /\ DOMAIN queue \subseteq DOMAIN queue'
      /\ \A i \in DOMAIN queue : queue'[i] = queue[i]
      /\ \A i \in DOMAIN queue' : i \in DOMAIN queue \/ (queue'[i] = r /\ \A j \in DOMAIN queue : j < i)
  <2>1. CASE queue' = Append(queue, r) /\ dropped' = dropped
    <3>1. /\ queue' \in Seq(Rows \cup {None}) /\ Range(queue') = Range(queue) \cup {r}
          /\ DOMAIN queue' = 1 .. Len(queue) + 1 /\ queue'[Len(queue) + 1] = r
          /\ \A i \in DOMAIN queue : queue'[i] = queue[i]
      BY <1>1, <2>1, AppendRange
    <3>2. DOMAIN queue = 1 .. Len(queue) /\ Len(queue) \in Nat
      BY <1>1, LenProperties
    <3>3. \A i \in DOMAIN queue' : i \in DOMAIN queue \/ (queue'[i] = r /\ \A j \in DOMAIN queue : j < i)
      BY <3>1, <3>2
    <3>4. QED  BY <1>1, <2>1, <3>1, <3>2, <3>3
  <2>2. CASE queue' = queue /\ dropped' = dropped \cup {r}
    BY <1>1, <2>2
  <2>3. QED  BY <2>1, <2>2 DEF LogShare
<1>4. TypeOK'
  BY <1>2, <1>3 DEF IInv, TypeOK
<1>5. OrderOK'
  BY <1>2 DEF IInv, OrderOK
<1>6. Late(r) /\ \A x : Late(x)' <=> Late(x)
  <2>1. r.chain = c /\ r.n = logged[c] + 1 /\ closed[c] \in Nat /\ closed[c] <= logged[c]
    BY Places DEF IInv, CloseOK, TypeOK
  <2>2. QED  BY <1>1, <1>2, <2>1 DEF Late
<1>7. CloseOK'
  <2>1. \A d \in Chains : closed'[d] <= logged'[d]
    BY <1>1, <1>2 DEF IInv, CloseOK, TypeOK
  <2>2. ASSUME NEW i \in DOMAIN queue', queue'[i] = None
        PROVE  ~leaving' /\ \A j \in DOMAIN queue' : i < j => Late(queue[j])'
    <3>1. i \in DOMAIN queue /\ queue[i] = None
      BY <1>1, <1>3, <2>2
    <3>2. ~leaving /\ \A j \in DOMAIN queue : i < j => Late(queue[j])
      BY <3>1 DEF IInv, CloseOK
    <3>3. ASSUME NEW j \in DOMAIN queue', i < j
          PROVE  Late(queue[j])'
      BY <1>3, <1>6, <3>2, <3>3
    <3>4. QED  BY <1>2, <3>2, <3>3
  <2>3. \A x \in Range(queue') : x = r \/ x \in Range(queue)
    BY <1>3
  <2>4. (None \in Range(queue') => None \in Range(queue)) /\ stopping # "done"
    BY <1>1, <2>3 DEF LogShare
  <2>5. CloseOK
    BY DEF IInv
  <2>6. /\ leaving' => \A x \in Range(queue') : Late(x)'
        /\ writer' = "stopped" => \A x \in Range(queue') : Late(x)'
    BY <1>2, <1>6, <2>3, <2>5 DEF CloseOK
  <2>7. QED  BY <1>2, <2>1, <2>2, <2>4, <2>5, <2>6 DEF CloseOK
<1>8. NothingForgotten'
  <2>1. SUFFICES ASSUME NEW d \in Chains, NEW n \in 1 .. logged'[d]
                 PROVE  Somewhere(d, n)'
    BY DEF NothingForgotten, Somewhere
  <2>2. CASE d = c /\ n = logged[c] + 1
    BY <1>3, <2>2 DEF Somewhere, Queued
  <2>3. CASE ~(d = c /\ n = logged[c] + 1)
    <3>1. n \in 1 .. logged[d]
      BY <1>1, <1>2, <2>3
    <3>2. Somewhere(d, n)
      BY <3>1 DEF IInv, NothingForgotten, Somewhere
    <3>3. QED  BY <1>2, <1>3, <3>2, Places DEF Somewhere, Queued
  <2>4. QED  BY <2>2, <2>3
<1>9. QED  BY <1>4, <1>5, <1>7, <1>8 DEF IInv

LEMMA StopOK ==
  ASSUME IInv, NEW c \in Chains, Stop(c)
  PROVE  IInv'
<1>1. /\ running' = running \ {c} /\ c \in running
      /\ stopping' = (IF running = {c} THEN "signal" ELSE stopping)
      /\ UNCHANGED <<logged, dropped, closed, queue, batch, taken, order, attempts, leaving,
                     writer, conn, link, up, table, unsure, lost>>
  BY DEF Stop, Last, flush, database
<1>2. TypeOK'
  BY <1>1 DEF IInv, TypeOK
<1>3. OrderOK'
  BY <1>1 DEF IInv, OrderOK
<1>4. stopping = "no" /\ (running' = {} <=> running = {c})
  BY <1>1 DEF IInv, CloseOK
<1>5. CloseOK'
  <2>1. \A x : Late(x)' <=> Late(x)
    BY <1>1 DEF Late
  <2>2. ~leaving /\ writer \notin Stopped /\ None \notin Range(queue)
    BY <1>4 DEF IInv, CloseOK
  <2>3. stopping' \in {"no", "signal"} /\ (stopping' = "no" <=> running' # {})
    BY <1>1, <1>4
  <2>4. \A i \in DOMAIN queue : queue[i] # None
    BY <2>2 DEF Range
  <2>5. QED  BY <1>1, <2>2, <2>3, <2>4 DEF IInv, CloseOK, Stopped
<1>6. NothingForgotten'
  BY <1>1, Unmoved
<1>7. QED  BY <1>2, <1>3, <1>5, <1>6 DEF IInv

LEMMA SignalOK ==
  ASSUME IInv, Signal
  PROVE  IInv'
<1>1. /\ stopping = "signal" /\ stopping' = "join"
      /\ UNCHANGED <<logged, dropped, running, batch, taken, order, attempts, leaving,
                     writer, conn, link, up, table, unsure, lost>>
  BY DEF Signal, flush, database
<1>2. queue \in Seq(Rows \cup {None}) /\ logged \in [Chains -> Nat]
  BY DEF IInv, TypeOK
<1>3. /\ ~leaving /\ writer \notin Stopped
      /\ \A i \in DOMAIN queue : queue[i] # None
  BY <1>1 DEF IInv, CloseOK, Range
<1>4. OrderOK'
  BY <1>1 DEF IInv, OrderOK
<1>5. CASE queue' = queue /\ closed' = closed
  <2>1. TypeOK'
    BY <1>1, <1>5 DEF IInv, TypeOK
  <2>2. CloseOK'
    BY <1>1, <1>3, <1>5 DEF IInv, CloseOK, Stopped
  <2>3. NothingForgotten'
    BY <1>1, <1>5, Unmoved
  <2>4. QED  BY <1>4, <2>1, <2>2, <2>3 DEF IInv
<1>6. CASE queue' = Append(queue, None) /\ closed' = logged
  <2>1. /\ queue' \in Seq(Rows \cup {None}) /\ Range(queue') = Range(queue) \cup {None}
        /\ DOMAIN queue' = 1 .. Len(queue) + 1
        /\ \A i \in DOMAIN queue : queue'[i] = queue[i]
        /\ DOMAIN queue = 1 .. Len(queue) /\ Len(queue) \in Nat
    BY <1>2, <1>6, AppendRange, LenProperties
  <2>2. TypeOK'
    BY <1>1, <1>2, <1>6, <2>1 DEF IInv, TypeOK
  <2>3. \A i \in DOMAIN queue' : queue'[i] = None => \A j \in DOMAIN queue' : ~(i < j)
    BY <1>3, <2>1
  <2>4. \A d \in Chains : closed'[d] <= logged'[d]
    BY <1>1, <1>2, <1>6
  <2>5. CloseOK'
    BY <1>1, <1>3, <2>3, <2>4 DEF IInv, CloseOK, Stopped
  <2>6. \A d \in Chains : \A n \in Nat : Somewhere(d, n) => Somewhere(d, n)'
    BY <1>1, <2>1, Places DEF Somewhere, Queued
  <2>7. NothingForgotten'
    BY <1>1, <1>2, <2>6, Conserve DEF IInv
  <2>8. QED  BY <1>4, <2>2, <2>5, <2>7 DEF IInv
<1>7. QED  BY <1>5, <1>6 DEF Signal

\* What is given up is a set of rows, and none of it is forgotten.
LEMMA GiveUpOK ==
  ASSUME IInv, NEW R, GiveUp(R), R \subseteq Rows
  PROVE  /\ lost' \subseteq Rows /\ lost \subseteq lost'
         /\ \A r \in R : Kept(r) \/ r \in lost'
  BY DEF GiveUp, IInv, TypeOK

LEMMA HeldRows ==
  ASSUME IInv, NEW c \in Chains
  PROVE  /\ HeldOf(c) \subseteq Rows
         /\ \A n : n \in Range(batch[c]) => n \in Nat /\ Row(c, n) \in HeldOf(c)
<1>1. batch[c] \in Seq(Nat)
  BY DEF IInv, TypeOK
<1>2. Range(batch[c]) \subseteq Nat
  BY <1>1, RangeOfSeq
<1>3. QED  BY <1>2 DEF HeldOf, Row, Rows

LEMMA GoneOK ==
  ASSUME IInv, Gone
  PROVE  IInv'
<1>1. /\ stopping = "join" /\ stopping' = "done" /\ GiveUp(InMemory)
      /\ queue' = <<>> /\ batch' = [c \in Chains |-> <<>>] /\ taken' = 0 /\ order' = <<>>
      /\ attempts' = 0 /\ leaving' = FALSE /\ writer' \in Stopped
      /\ conn' = [c \in Chains |-> "none"] /\ link' = "none"
      /\ UNCHANGED <<logged, dropped, running, closed, up, table, unsure>>
  BY DEF Gone, database, Stopped
<1>2. queue \in Seq(Rows \cup {None}) /\ logged \in [Chains -> Nat]
  BY DEF IInv, TypeOK
<1>3. InMemory \subseteq Rows
  <2>1. Range(queue) \subseteq Rows \cup {None}
    BY <1>2, RangeOfSeq
  <2>2. QED  BY <2>1, HeldRows DEF InMemory
<1>4. /\ lost' \subseteq Rows /\ lost \subseteq lost'
      /\ \A r \in InMemory : Kept(r) \/ r \in lost'
  BY <1>1, <1>3, GiveUpOK
<1>5. <<>> \in Seq(Nat) /\ <<>> \in Seq(Chains) /\ <<>> \in Seq(Rows \cup {None})
      /\ Range(<<>>) = {} /\ IsInjective(<<>>)
  BY DEF Range, IsInjective
<1>6. TypeOK'
  BY <1>1, <1>4, <1>5 DEF IInv, TypeOK, Links
<1>7. OrderOK'
  BY <1>1, <1>5 DEF OrderOK, Stopped
<1>8. CloseOK'
  <2>1. CloseOK
    BY DEF IInv
  <2>2. DOMAIN queue' = {} /\ Range(queue)' = {}
    BY <1>1, <1>5
  <2>3. QED  BY <1>1, <2>1, <2>2 DEF CloseOK, Stopped
<1>9. NothingForgotten'
  <2>1. ASSUME NEW c \in Chains, NEW n \in Nat, Somewhere(c, n)
        PROVE  Somewhere(c, n)'
    <3>1. Row(c, n) # None
      BY ChainsAssumption DEF Rows, Row
    <3>2. Queued(Row(c, n)) \/ Held(Row(c, n)) => Row(c, n) \in InMemory
      BY <3>1, Places, HeldRows DEF InMemory, Queued
    <3>3. Kept(Row(c, n)) => Kept(Row(c, n))'
      BY <1>1, Places
    <3>4. QED  BY <1>1, <1>4, <2>1, <3>2, <3>3 DEF Somewhere
  <2>2. QED  BY <1>1, <1>2, <2>1, Conserve DEF IInv
<1>10. QED  BY <1>6, <1>7, <1>8, <1>9 DEF IInv

\* The first of the queue is gone from it, and the others keep their order.
LEMMA QueueTail ==
  ASSUME IInv, queue # <<>>, queue' = Tail(queue), closed' = closed
  PROVE  /\ Head(queue) \in Rows \cup {None} /\ queue' \in Seq(Rows \cup {None})
         /\ Range(queue) = {Head(queue)} \cup Range(queue')
         /\ \A r : Late(r)' <=> Late(r)
         /\ Head(queue) = None => \A r \in Range(queue') : Late(r)'
         /\ ~leaving => \A i \in DOMAIN queue' : queue'[i] = None =>
              \A j \in DOMAIN queue' : i < j => Late(queue[j])'
<1>1. queue \in Seq(Rows \cup {None}) /\ CloseOK
  BY DEF IInv, TypeOK
<1>2. /\ Head(queue) \in Rows \cup {None} /\ queue' \in Seq(Rows \cup {None})
      /\ Head(queue) = queue[1] /\ 1 \in DOMAIN queue
      /\ Range(queue) = {Head(queue)} \cup Range(queue')
      /\ \A i \in DOMAIN queue' : i \in Nat /\ i + 1 \in DOMAIN queue /\ queue'[i] = queue[i + 1]
  BY <1>1, TailRange
<1>3. \A r : Late(r)' <=> Late(r)
  BY DEF Late
<1>4. ASSUME Head(queue) = None
      PROVE  \A r \in Range(queue') : Late(r)'
  <2>1. \A j \in DOMAIN queue : 1 < j => Late(queue[j])
    BY <1>1, <1>2, <1>4 DEF CloseOK
  <2>2. DOMAIN queue' = 1 .. Len(queue')
    BY <1>2, LenProperties
  <2>3. \A i \in DOMAIN queue' : Late(queue'[i])
    BY <1>2, <2>1, <2>2
  <2>4. QED  BY <1>3, <2>3 DEF Range
<1>5. ASSUME ~leaving, NEW i \in DOMAIN queue', queue'[i] = None,
             NEW j \in DOMAIN queue', i < j
      PROVE  Late(queue[j])'
  <2>1. /\ i + 1 \in DOMAIN queue /\ queue[i + 1] = None
        /\ j + 1 \in DOMAIN queue /\ queue[j + 1] = queue'[j] /\ i + 1 < j + 1
    BY <1>2, <1>5
  <2>2. Late(queue[j + 1])
    BY <1>1, <2>1 DEF CloseOK
  <2>3. Late(queue'[j])
    BY <2>1, <2>2
  <2>4. QED  BY <2>3 DEF Late
<1>6. QED  BY <1>2, <1>3, <1>4, <1>5

LEMMA TakeOK ==
  ASSUME IInv, Take
  PROVE  IInv'
<1>1. /\ writer = "collect" /\ queue # <<>> /\ Head(queue) # None /\ queue' = Tail(queue)
      /\ Add(Head(queue).chain, Head(queue).n)
      /\ writer' \in {"collect", "insert"}
      /\ UNCHANGED <<logged, dropped, running, stopping, closed, attempts, leaving,
                     conn, link, up, table, unsure, lost>>
  BY DEF Take, logger, database
<1>2. /\ batch \in [Chains -> Seq(Nat)] /\ order \in Seq(Chains) /\ taken \in Nat
      /\ logged \in [Chains -> Nat] /\ OrderOK /\ CloseOK /\ NothingForgotten
  BY DEF IInv, TypeOK
<1>3. /\ Head(queue) \in Rows /\ queue' \in Seq(Rows \cup {None})
      /\ Range(queue) = {Head(queue)} \cup Range(queue')
  BY <1>1, QueueTail
<1>4. PICK c \in Chains, n \in Nat : Head(queue) = Row(c, n)
  BY <1>3 DEF Rows, Row
<1>14. /\ batch' = [batch EXCEPT ![c] = Append(@, n)]
       /\ taken' = taken + 1
       /\ order' = (IF batch[c] = <<>> THEN Append(order, c) ELSE order)
  <2>1. Head(queue).chain = c /\ Head(queue).n = n
    BY <1>4 DEF Row
  <2>2. QED  BY <1>1, <2>1 DEF Add
<1>5. /\ batch[c] \in Seq(Nat) /\ Append(batch[c], n) \in Seq(Nat) /\ Append(batch[c], n) # <<>>
      /\ Range(Append(batch[c], n)) = Range(batch[c]) \cup {n}
  <2>1. batch[c] \in Seq(Nat)
    BY <1>2, <1>4
  <2>2. QED  BY <1>4, <2>1, AppendRange
<1>6. /\ batch' \in [Chains -> Seq(Nat)] /\ batch'[c] = Append(batch[c], n)
      /\ \A d \in Chains : d # c => batch'[d] = batch[d]
  BY <1>2, <1>4, <1>5, <1>14
<1>7. /\ order' \in Seq(Chains) /\ IsInjective(order') /\ order' # <<>>
      /\ Range(order') = Range(order) \cup {c}
  <2>1. CASE batch[c] = <<>>
    <3>1. c \notin Range(order) /\ order' = Append(order, c)
      BY <1>2, <1>4, <1>14, <2>1 DEF OrderOK
    <3>2. QED  BY <1>2, <1>4, <3>1, AppendRange, AppendInjection, SMTT(30) DEF OrderOK
  <2>2. CASE batch[c] # <<>>
    <3>1. c \in Range(order) /\ order' = order
      BY <1>2, <1>4, <1>14, <2>2 DEF OrderOK
    <3>2. order # <<>>
      BY <3>1 DEF Range
    <3>3. QED  BY <1>2, <3>1, <3>2 DEF OrderOK
  <2>3. QED  BY <2>1, <2>2
<1>8. TypeOK'
  <2>1. taken' \in Nat
    BY <1>2, <1>14
  <2>2. QED  BY <1>1, <1>3, <1>6, <1>7, <2>1 DEF IInv, TypeOK
<1>9. OrderOK'
  <2>1. \A d \in Chains : batch'[d] # <<>> <=> d \in Range(order')
    BY <1>2, <1>4, <1>5, <1>6, <1>7 DEF OrderOK
  <2>2. taken' > 0
    BY <1>2, <1>14
  <2>3. QED  BY <1>7, <2>1, <2>2 DEF OrderOK
<1>10. CloseOK'
  <2>1. ~leaving /\ stopping # "done"
    BY <1>1, <1>2 DEF CloseOK, Stopped
  <2>2. \A i \in DOMAIN queue' : queue'[i] = None =>
          ~leaving' /\ \A j \in DOMAIN queue' : i < j => Late(queue[j])'
    BY <1>1, <2>1, QueueTail
  <2>3. QED  BY <1>1, <1>2, <1>3, <2>1, <2>2 DEF CloseOK, Stopped
<1>11. NothingForgotten'
  <2>1. ASSUME NEW d \in Chains, NEW m \in Nat, Somewhere(d, m)
        PROVE  Somewhere(d, m)'
    <3>1. CASE Row(d, m) = Row(c, n)
      <4>1. d = c /\ m = n
        BY <3>1 DEF Row
      <4>2. QED  BY <1>5, <1>6, <4>1, Places DEF Somewhere
    <3>2. CASE Row(d, m) # Row(c, n)
      <4>1. Queued(Row(d, m)) => Queued(Row(d, m))'
        BY <1>3, <1>4, <3>2 DEF Queued
      <4>2. Held(Row(d, m)) => Held(Row(d, m))'
        <5>1. Range(batch[d]) \subseteq Range(batch'[d])
          BY <1>4, <1>5, <1>6
        <5>2. QED  BY <5>1, Places
      <4>3. Kept(Row(d, m)) => Kept(Row(d, m))'
        BY <1>1, Places
      <4>4. QED  BY <1>1, <2>1, <4>1, <4>2, <4>3 DEF Somewhere
    <3>3. QED  BY <3>1, <3>2
  <2>2. QED  BY <1>1, <1>2, <2>1, Conserve
<1>12. QED  BY <1>8, <1>9, <1>10, <1>11 DEF IInv

LEMMA TakeNoneOK ==
  ASSUME IInv, TakeNone
  PROVE  IInv'
<1>1. /\ writer = "collect" /\ queue # <<>> /\ Head(queue) = None /\ queue' = Tail(queue)
      /\ leaving' = TRUE /\ writer' = (IF taken > 0 THEN "insert" ELSE "stopped")
      /\ UNCHANGED <<logged, dropped, running, stopping, closed, batch, taken, order, attempts,
                     conn, link, up, table, unsure, lost>>
  BY DEF TakeNone, logger, database
<1>2. /\ OrderOK /\ CloseOK /\ taken \in Nat /\ logged \in [Chains -> Nat]
      /\ queue \in Seq(Rows \cup {None})
  BY DEF IInv, TypeOK
<1>3. /\ queue' \in Seq(Rows \cup {None}) /\ Range(queue) = {None} \cup Range(queue')
      /\ \A r \in Range(queue') : Late(r)'
  BY <1>1, QueueTail
<1>4. TypeOK'
  BY <1>1, <1>3 DEF IInv, TypeOK, Stopped
<1>5. OrderOK'
  BY <1>1, <1>2 DEF OrderOK
<1>6. CloseOK'
  <2>1. None \in Range(queue) /\ writer \notin Stopped
    BY <1>1, <1>3 DEF Stopped
  <2>2. stopping = "join"
    BY <1>2, <2>1 DEF CloseOK, IInv, TypeOK
  <2>3. \A i \in DOMAIN queue' : queue'[i] # None
    BY <1>3 DEF Late, Range
  <2>4. writer' = "stopped" => order' = <<>>
    BY <1>1, <1>2 DEF OrderOK
  <2>5. QED  BY <1>1, <1>2, <1>3, <2>2, <2>3, <2>4 DEF CloseOK
<1>7. NothingForgotten'
  <2>1. ASSUME NEW d \in Chains, NEW m \in Nat, Somewhere(d, m)
        PROVE  Somewhere(d, m)'
    <3>1. Row(d, m) # None
      BY ChainsAssumption DEF Rows, Row
    <3>2. QED  BY <1>1, <1>3, <2>1, <3>1, Places DEF Somewhere, Queued
  <2>2. QED  BY <1>1, <1>2, <2>1, Conserve DEF IInv
<1>8. QED  BY <1>4, <1>5, <1>6, <1>7 DEF IInv

LEMMA IntervalOK ==
  ASSUME IInv, Interval
  PROVE  IInv'
<1>1. /\ writer = "collect" /\ taken > 0 /\ writer' = "insert"
      /\ UNCHANGED <<logged, dropped, running, stopping, closed, queue, batch, taken, order,
                     attempts, leaving, conn, link, up, table, unsure, lost>>
  BY DEF Interval, logger, flush, database
<1>2. TypeOK'
  BY <1>1 DEF IInv, TypeOK
<1>3. OrderOK'
  BY <1>1 DEF IInv, OrderOK
<1>4. CloseOK'
  BY <1>1, CloseKept DEF Stopped
<1>5. NothingForgotten'
  BY <1>1, Unmoved
<1>6. QED  BY <1>2, <1>3, <1>4, <1>5 DEF IInv

\* A step of a flush that ends with another chain or the end of the batch.
LEMMA ChainDone ==
  ASSUME IInv, writer \in Flushing, NextChain(Chain),
         UNCHANGED <<logged, dropped, running, stopping, closed, queue>>,
         conn' \in [Chains -> Links], link' \in Links, up' = up,
         table' \in [Chains -> Seq(Nat)], unsure' \in [Chains -> Nat],
         lost' \subseteq Rows, lost \subseteq lost',
         \A c \in Chains : Range(table[c]) \subseteq Range(table'[c]),
         \A n \in Range(batch[Chain]) :
           n \in Range(table'[Chain]) \/ Row(Chain, n) \in lost'
  PROVE  IInv'
<1>1. /\ batch' \in [Chains -> Seq(Nat)] /\ taken' \in Nat /\ order' \in Seq(Chains)
      /\ attempts' \in Nat /\ leaving' \in BOOLEAN /\ leaving' = leaving
      /\ \A c \in Chains : c # Chain => batch'[c] = batch[c]
      /\ OrderOK'
      /\ writer' \in {"insert", "stopped", "collect"}
      /\ writer' = "stopped" => leaving /\ order' = <<>>
      /\ leaving => writer' # "collect"
  BY NextChainOK
<1>2. TypeOK'
  BY <1>1 DEF IInv, TypeOK, Stopped
<1>3. CloseOK'
  BY <1>1, CloseKept DEF Stopped, Flushing
<1>4. NothingForgotten'
  <2>1. ASSUME NEW d \in Chains, NEW m \in Nat, Somewhere(d, m)
        PROVE  Somewhere(d, m)'
    <3>1. Kept(Row(d, m)) => Kept(Row(d, m))'
      BY Places
    <3>2. Held(Row(d, m)) => Held(Row(d, m))' \/ Kept(Row(d, m))' \/ Row(d, m) \in lost'
      <4>1. CASE d = Chain
        BY <4>1, Places
      <4>2. CASE d # Chain
        BY <1>1, <4>2, Places
      <4>3. QED  BY <4>1, <4>2
    <3>3. QED  BY <2>1, <3>1, <3>2 DEF Somewhere, Queued
  <2>2. logged \in [Chains -> Nat]
    BY DEF IInv, TypeOK
  <2>3. QED  BY <2>1, <2>2, Conserve DEF IInv
<1>5. QED  BY <1>1, <1>2, <1>3, <1>4 DEF IInv

\* A step of a flush that goes on with the same chain and the same rows.
LEMMA ChainGoesOn ==
  ASSUME IInv, writer \in Flushing, writer' \in Flushing,
         UNCHANGED <<logged, dropped, running, stopping, closed, queue,
                     batch, taken, order, leaving, lost>>,
         attempts' \in Nat,
         conn' \in [Chains -> Links], link' \in Links, up' \in BOOLEAN,
         table' \in [Chains -> Seq(Nat)], unsure' \in [Chains -> Nat],
         \A c \in Chains : Range(table[c]) \subseteq Range(table'[c])
  PROVE  IInv'
<1>1. TypeOK'
  BY DEF IInv, TypeOK, Flushing
<1>2. OrderOK'
  <2>1. order # <<>>
    BY ChainInBatch
  <2>2. QED  BY <2>1 DEF IInv, OrderOK
<1>3. CloseOK'
  BY CloseKept DEF Stopped, Flushing
<1>4. NothingForgotten'
  <2>1. ASSUME NEW d \in Chains, NEW m \in Nat, Somewhere(d, m)
        PROVE  Somewhere(d, m)'
    <3>1. Kept(Row(d, m)) => Kept(Row(d, m))'
      BY Places
    <3>2. QED  BY <2>1, <3>1, Places DEF Somewhere, Queued
  <2>2. logged \in [Chains -> Nat]
    BY DEF IInv, TypeOK
  <2>3. QED  BY <2>1, <2>2, Conserve DEF IInv
<1>5. QED  BY <1>1, <1>2, <1>3, <1>4 DEF IInv

\* The types that no step of a flush disturbs.
LEMMA FlushTypes ==
  ASSUME IInv
  PROVE  /\ conn \in [Chains -> Links] /\ link \in Links /\ up \in BOOLEAN
         /\ table \in [Chains -> Seq(Nat)] /\ unsure \in [Chains -> Nat]
         /\ lost \subseteq Rows /\ attempts \in Nat
         /\ Chain \in Chains => [unsure EXCEPT ![Chain] = @ + 1] \in [Chains -> Nat]
<1>1. /\ conn \in [Chains -> Links] /\ link \in Links /\ up \in BOOLEAN
      /\ table \in [Chains -> Seq(Nat)] /\ unsure \in [Chains -> Nat]
      /\ lost \subseteq Rows /\ attempts \in Nat
  BY DEF IInv, TypeOK
<1>2. QED  BY <1>1

LEMMA InsertOK ==
  ASSUME IInv, Insert
  PROVE  IInv'
<1>1. /\ writer \in Flushing /\ Commit(Chain) /\ NextChain(Chain)
      /\ conn' = [conn EXCEPT ![Chain] = "open"]
      /\ UNCHANGED <<logged, dropped, running, stopping, closed, queue, link, up, unsure, lost>>
  BY DEF Insert, logger, Flushing
<1>2. conn' \in [Chains -> Links]
  BY <1>1, FlushTypes DEF Links
<1>3. QED  BY <1>1, <1>2, FlushTypes, CommitOK, ChainDone

\* A failed attempt goes on with the same chain.
LEMMA FailedOK ==
  ASSUME IInv, Failed(Chain)
  PROVE  /\ attempts' \in Nat /\ conn' \in [Chains -> Links] /\ writer' \in Flushing
         /\ UNCHANGED <<batch, taken, order, leaving>>
<1>1. attempts' = attempts + 1 /\ conn' = [conn EXCEPT ![Chain] = "none"]
  BY DEF Failed
<1>2. attempts' \in Nat /\ conn' \in [Chains -> Links]
  <2>1. attempts \in Nat /\ conn \in [Chains -> Links] /\ "none" \in Links
    BY FlushTypes DEF Links
  <2>2. attempts' \in Nat
    BY <1>1, <2>1
  <2>3. conn' \in [Chains -> Links]
    BY <1>1, <2>1
  <2>4. QED  BY <2>2, <2>3
<1>3. writer' \in Flushing /\ UNCHANGED <<batch, taken, order, leaving>>
  BY DEF Failed, Flushing
<1>4. QED  BY <1>2, <1>3

LEMMA InsertFailsOK ==
  ASSUME IInv, InsertFails
  PROVE  IInv'
<1>1. /\ writer \in Flushing /\ Failed(Chain)
      /\ UNCHANGED <<logged, dropped, running, stopping, closed, queue, link, up, table, unsure, lost>>
  BY DEF InsertFails, logger, database, Flushing
<1>2. QED  BY <1>1, FailedOK, FlushTypes, ChainGoesOn

LEMMA InsertUnsureOK ==
  ASSUME IInv, InsertUnsure
  PROVE  IInv'
<1>1. /\ writer \in Flushing /\ Commit(Chain) /\ Failed(Chain)
      /\ unsure' = [unsure EXCEPT ![Chain] = @ + 1]
      /\ UNCHANGED <<logged, dropped, running, stopping, closed, queue, link, up, lost>>
  BY DEF InsertUnsure, logger, Flushing
<1>2. unsure' \in [Chains -> Nat]
  BY <1>1, ChainInBatch, FlushTypes
<1>3. QED  BY <1>1, <1>2, CommitOK, FailedOK, FlushTypes, ChainGoesOn

LEMMA ReconnectOK ==
  ASSUME IInv, Reconnect
  PROVE  IInv'
<1>1. /\ writer \in Flushing /\ writer' \in Flushing
      /\ conn' = [conn EXCEPT ![Chain] = IF up THEN "open" ELSE "none"]
      /\ UNCHANGED <<logged, dropped, running, stopping, closed, queue,
                     batch, taken, order, attempts, leaving, link, up, table, unsure, lost>>
  BY DEF Reconnect, logger, flush, database, Flushing
<1>2. conn' \in [Chains -> Links]
  BY <1>1, FlushTypes DEF Links
<1>3. QED  BY <1>1, <1>2, FlushTypes, ChainGoesOn

LEMMA ReachOK ==
  ASSUME IInv, Reach
  PROVE  IInv'
<1>1. /\ writer \in Flushing /\ writer' \in Flushing /\ link' \in Links
      /\ UNCHANGED <<logged, dropped, running, stopping, closed, queue,
                     batch, taken, order, attempts, leaving, conn, up, table, unsure, lost>>
  BY DEF Reach, logger, flush, database, Flushing, Links
<1>2. QED  BY <1>1, FlushTypes, ChainGoesOn

LEMMA ReachFailsOK ==
  ASSUME IInv, ReachFails
  PROVE  IInv'
<1>1. /\ writer \in Flushing /\ GiveUp(HeldOf(Chain)) /\ NextChain(Chain)
      /\ UNCHANGED <<logged, dropped, running, stopping, closed, queue, conn, link, up, table, unsure>>
  BY DEF ReachFails, logger, database, Flushing
<1>2. Chain \in Chains
  BY <1>1, ChainInBatch
<1>3. /\ lost' \subseteq Rows /\ lost \subseteq lost'
      /\ \A r \in HeldOf(Chain) : Kept(r) \/ r \in lost'
  BY <1>1, <1>2, HeldRows, GiveUpOK
<1>4. \A n \in Range(batch[Chain]) : n \in Range(table'[Chain]) \/ Row(Chain, n) \in lost'
  BY <1>1, <1>2, <1>3, HeldRows, Places
<1>5. QED  BY <1>1, <1>3, <1>4, FlushTypes, ChainDone

-----------------------------------------------------------------------------
\* The steps of the fallback, which all settle the first row of the batch.

LEMMA RowDone ==
  ASSUME IInv, writer = "single", NEW state \in Links, NextRow(Chain, state),
         UNCHANGED <<logged, dropped, running, stopping, closed, queue, conn, up>>,
         table' \in [Chains -> Seq(Nat)], unsure' \in [Chains -> Nat],
         lost' \subseteq Rows, lost \subseteq lost',
         \A c \in Chains : Range(table[c]) \subseteq Range(table'[c]),
         First(Chain) \in Range(table'[Chain]) \/ Row(Chain, First(Chain)) \in lost'
  PROVE  IInv'
<1>1. /\ writer \in Flushing /\ order # <<>> /\ Chain \in Chains
      /\ batch[Chain] \in Seq(Nat) /\ batch[Chain] # <<>>
  BY ChainInBatch DEF Flushing
<1>2. /\ First(Chain) \in Nat /\ Tail(batch[Chain]) \in Seq(Nat)
      /\ Range(batch[Chain]) = {First(Chain)} \cup Range(Tail(batch[Chain]))
      /\ Tail(batch[Chain]) # <<>> <=> Len(batch[Chain]) > 1
  <2>1. Tail(batch[Chain]) # <<>> <=> Len(batch[Chain]) > 1
    BY <1>1, TailEmpty
  <2>2. QED  BY <1>1, <2>1, TailRange DEF First
<1>3. CASE Len(batch[Chain]) > 1
  <2>1. /\ batch' = [batch EXCEPT ![Chain] = Tail(@)] /\ link' = state
        /\ UNCHANGED <<taken, order, attempts, leaving, writer>>
    BY <1>3 DEF NextRow
  <2>2. batch \in [Chains -> Seq(Nat)] /\ logged \in [Chains -> Nat]
    BY DEF IInv, TypeOK
  <2>3. /\ batch' \in [Chains -> Seq(Nat)] /\ batch'[Chain] = Tail(batch[Chain])
        /\ \A c \in Chains : c # Chain => batch'[c] = batch[c]
    BY <1>1, <1>2, <2>1, <2>2
  <2>4. batch'[Chain] # <<>>
    BY <1>2, <1>3, <2>3
  <2>5. TypeOK'
    BY <2>1, <2>3 DEF IInv, TypeOK
  <2>6. OrderOK'
    BY <1>1, <2>1, <2>3, <2>4 DEF IInv, OrderOK
  <2>7. CloseOK'
    BY <2>1, CloseKept DEF Stopped
  <2>8. ASSUME NEW d \in Chains, NEW m \in Nat, Somewhere(d, m)
        PROVE  Somewhere(d, m)'
    <3>1. Kept(Row(d, m)) => Kept(Row(d, m))'
      BY Places
    <3>2. Held(Row(d, m)) => Held(Row(d, m))' \/ Kept(Row(d, m))' \/ Row(d, m) \in lost'
      <4>1. CASE d = Chain
        BY <1>2, <2>3, <4>1, Places
      <4>2. CASE d # Chain
        BY <2>3, <4>2, Places
      <4>3. QED  BY <4>1, <4>2
    <3>3. QED  BY <2>8, <3>1, <3>2 DEF Somewhere, Queued
  <2>9. NothingForgotten'
    BY <2>2, <2>8, Conserve DEF IInv
  <2>10. QED  BY <2>5, <2>6, <2>7, <2>9 DEF IInv
<1>4. CASE ~(Len(batch[Chain]) > 1)
  <2>1. NextChain(Chain) /\ link' = "none"
    BY <1>4 DEF NextRow
  <2>2. Tail(batch[Chain]) = <<>>
    BY <1>2, <1>4
  <2>3. Range(batch[Chain]) = {First(Chain)}
    <3>1. Range(<<>>) = {}
      BY DEF Range
    <3>2. QED  BY <1>2, <2>2, <3>1
  <2>4. conn' \in [Chains -> Links] /\ link' \in Links /\ up' = up
    BY <2>1, FlushTypes DEF Links
  <2>5. QED  BY <1>1, <2>1, <2>3, <2>4, ChainDone
<1>5. QED  BY <1>3, <1>4

LEMMA SingleOK ==
  ASSUME IInv, Single
  PROVE  IInv'
<1>1. /\ writer = "single" /\ CommitOne(Chain) /\ NextRow(Chain, "open")
      /\ UNCHANGED <<logged, dropped, running, stopping, closed, queue, conn, up, unsure, lost>>
  BY DEF Single, logger
<1>2. "open" \in Links /\ writer \in Flushing
  BY <1>1 DEF Links, Flushing
<1>3. QED  BY <1>1, <1>2, FlushTypes, CommitOneOK, RowDone

LEMMA SingleFailsOK ==
  ASSUME IInv, SingleFails
  PROVE  IInv'
<1>. DEFINE state == IF link = "open" /\ AbortsOnError THEN "aborted" ELSE link
<1>1. /\ writer = "single" /\ GiveUp({Row(Chain, First(Chain))}) /\ NextRow(Chain, state)
      /\ UNCHANGED <<logged, dropped, running, stopping, closed, queue, conn, up, table, unsure>>
  BY DEF SingleFails, logger, database
<1>2. state \in Links /\ writer \in Flushing
  BY <1>1, FlushTypes DEF Links, Flushing
<1>. HIDE DEF state
<1>3. Chain \in Chains /\ First(Chain) \in Nat
  BY <1>2, ChainInBatch, TailRange DEF First
<1>4. {Row(Chain, First(Chain))} \subseteq Rows
  BY <1>3 DEF Row, Rows
<1>5. /\ lost' \subseteq Rows /\ lost \subseteq lost'
      /\ Kept(Row(Chain, First(Chain))) \/ Row(Chain, First(Chain)) \in lost'
  BY <1>1, <1>4, GiveUpOK
<1>6. First(Chain) \in Range(table'[Chain]) \/ Row(Chain, First(Chain)) \in lost'
  BY <1>1, <1>5, Places
<1>7. QED  BY <1>1, <1>2, <1>5, <1>6, FlushTypes, RowDone

LEMMA SingleUnsureOK ==
  ASSUME IInv, SingleUnsure
  PROVE  IInv'
<1>1. /\ writer = "single" /\ CommitOne(Chain) /\ NextRow(Chain, "broken")
      /\ unsure' = [unsure EXCEPT ![Chain] = @ + 1]
      /\ UNCHANGED <<logged, dropped, running, stopping, closed, queue, conn, up, lost>>
  BY DEF SingleUnsure, logger
<1>2. "broken" \in Links /\ writer \in Flushing /\ unsure' \in [Chains -> Nat]
  BY <1>1, ChainInBatch, FlushTypes DEF Links, Flushing
<1>3. QED  BY <1>1, <1>2, FlushTypes, CommitOneOK, RowDone

LEMMA DatabaseOK ==
  ASSUME IInv, Database
  PROVE  IInv'
<1>1. /\ up' \in BOOLEAN /\ conn' \in [Chains -> Links] /\ link' \in Links
      /\ UNCHANGED <<logged, dropped, running, stopping, closed, queue, batch, taken, order,
                     attempts, leaving, writer, table, unsure, lost>>
  BY FlushTypes DEF Database, DatabaseFails, DatabaseReturns, Broken, Links, logger, flush
<1>2. TypeOK'
  BY <1>1 DEF IInv, TypeOK
<1>3. OrderOK'
  BY <1>1 DEF IInv, OrderOK
<1>4. CloseOK'
  BY <1>1 DEF IInv, CloseOK, Late
<1>5. NothingForgotten'
  BY <1>1, Unmoved
<1>6. QED  BY <1>2, <1>3, <1>4, <1>5 DEF IInv

-----------------------------------------------------------------------------
\* The invariant, and what follows from it

LEMMA InitOK == Init => IInv
<1>. SUFFICES ASSUME Init PROVE IInv
  OBVIOUS
<1>1. <<>> \in Seq(Nat) /\ <<>> \in Seq(Chains) /\ <<>> \in Seq(Rows \cup {None})
      /\ Range(<<>>) = {} /\ IsInjective(<<>>)
  BY DEF Range, IsInjective
<1>2. TypeOK
  BY <1>1 DEF Init, TypeOK, Links
<1>3. OrderOK
  BY <1>1 DEF Init, OrderOK
<1>4. CloseOK
  <2>1. DOMAIN queue = {} /\ Range(queue) = {}
    BY <1>1 DEF Init
  <2>2. QED  BY <2>1, ChainsAssumption DEF Init, CloseOK, Stopped
<1>5. NothingForgotten
  BY DEF Init, NothingForgotten
<1>6. QED  BY <1>2, <1>3, <1>4, <1>5 DEF IInv

LEMMA StepOK == IInv /\ [Next]_vars => IInv'
<1>. SUFFICES ASSUME IInv, [Next]_vars PROVE IInv'
  OBVIOUS
<1>1. CASE UNCHANGED vars
  <2>1. UNCHANGED <<logged, dropped, running, stopping, closed, queue, batch, taken, order,
                    attempts, leaving, writer, conn, link, up, table, unsure, lost>>
    BY <1>1 DEF vars, logger, flush, database
  <2>2. TypeOK'
    BY <2>1 DEF IInv, TypeOK
  <2>3. OrderOK'
    BY <2>1 DEF IInv, OrderOK
  <2>4. CloseOK'
    BY <2>1 DEF IInv, CloseOK, Late
  <2>5. NothingForgotten'
    BY <2>1, Unmoved
  <2>6. QED  BY <2>2, <2>3, <2>4, <2>5 DEF IInv
<1>2. CASE Loggers
  BY <1>2, LogShareOK, StopOK, SignalOK, GoneOK DEF Loggers
<1>3. CASE Writer
  BY <1>3, TakeOK, TakeNoneOK, IntervalOK, InsertOK, InsertFailsOK, InsertUnsureOK,
     ReconnectOK, ReachOK, ReachFailsOK, SingleOK, SingleFailsOK, SingleUnsureOK DEF Writer
<1>4. CASE Database
  BY <1>4, DatabaseOK
<1>5. QED  BY <1>1, <1>2, <1>3, <1>4 DEF Next

LEMMA Inductive == Spec => []IInv
  BY InitOK, StepOK, PTL DEF Spec

\* The writer's state and the queue keep their types (sharelogging/sql.py).
THEOREM TypeCorrect == Spec => []TypeOK
<1>1. IInv => TypeOK
  BY DEF IInv
<1>2. QED  BY <1>1, Inductive, PTL

\* No row is forgotten between the queue, the batch, the retries and the
\* fallback, whatever the database does and whenever the loggers stop.
THEOREM NoneForgotten == Spec => []NothingForgotten
<1>1. IInv => NothingForgotten
  BY DEF IInv
<1>2. QED  BY <1>1, Inductive, PTL

\* When the writer has ended by itself, every row logged before the None was
\* queued is in the table, given up or was dropped at once, and no logger runs.
THEOREM StopLeavesNothing == Spec => []StopDrains
<1>1. ASSUME IInv, writer = "stopped"
      PROVE  /\ running = {}
             /\ \A c \in Chains : \A n \in 1 .. closed[c] :
                  LET r == Row(c, n) IN r \in dropped \/ Kept(r) \/ r \in lost
  <2>1. /\ stopping # "no" /\ order = <<>> /\ \A r \in Range(queue) : Late(r)
        /\ running = {}
    BY <1>1 DEF IInv, CloseOK
  <2>2. ASSUME NEW c \in Chains, NEW n \in 1 .. closed[c]
        PROVE  Row(c, n) \in dropped \/ Kept(Row(c, n)) \/ Row(c, n) \in lost
    <3>1. closed[c] \in Nat /\ logged[c] \in Nat /\ closed[c] <= logged[c]
      BY <1>1 DEF IInv, TypeOK, CloseOK
    <3>2. n \in 1 .. logged[c]
      BY <3>1
    <3>3. Somewhere(c, n)
      BY <1>1, <3>2 DEF IInv, NothingForgotten, Somewhere
    <3>4. ~Queued(Row(c, n))
      <4>1. ~Late(Row(c, n))
        BY <3>1, Places DEF Late
      <4>2. QED  BY <2>1, <4>1 DEF Queued
    <3>5. ~Held(Row(c, n))
      <4>1. batch[c] = <<>>
        BY <1>1, <2>1 DEF IInv, OrderOK, Range
      <4>2. QED  BY <4>1, Places DEF Range
    <3>6. QED  BY <3>3, <3>4, <3>5 DEF Somewhere
  <2>3. QED  BY <2>1, <2>2
<1>2. IInv => StopDrains
  BY <1>1 DEF StopDrains
<1>3. QED  BY <1>2, Inductive, PTL

-----------------------------------------------------------------------------
\* Only a transaction that stays failed makes the fallback lose a row that the
\* database would take.

LEMMA LinkInductive == Spec => [](IInv /\ LinkOK)
<1>1. Init => LinkOK
  BY DEF Init, LinkOK
<1>2. ASSUME IInv, LinkOK, [Next]_vars
      PROVE  LinkOK'
  <2>1. CASE UNCHANGED vars
    BY <1>2, <2>1 DEF vars, LinkOK
  <2>2. CASE Loggers
    <3>1. CASE Gone
      BY <3>1 DEF Gone, LinkOK
    <3>2. CASE UNCHANGED <<writer, link>>
      BY <1>2, <3>2 DEF LinkOK
    <3>3. QED  BY <2>2, <3>1, <3>2 DEF Loggers, LogShare, Stop, Signal
  <2>3. CASE Take \/ TakeNone \/ Interval \/ Insert \/ InsertFails \/ InsertUnsure \/ Reconnect
             \/ ReachFails
    <3>1. link' = link /\ writer' # "single"
      BY <2>3 DEF Take, TakeNone, Interval, Insert, InsertFails, InsertUnsure, Reconnect,
                  ReachFails, NextChain, Failed
    <3>2. QED  BY <1>2, <3>1 DEF LinkOK
  <2>4. CASE Reach
    BY <2>4 DEF Reach, LinkOK
  <2>5. CASE Single \/ SingleFails \/ SingleUnsure
    <3>1. PICK state : /\ NextRow(Chain, state) /\ state # "none"
                       /\ state = "aborted" => AbortsOnError
      BY <1>2, <2>5 DEF Single, SingleFails, SingleUnsure, LinkOK
    <3>2. CASE link' = state
      BY <3>1, <3>2 DEF LinkOK
    <3>3. CASE link' = "none" /\ NextChain(Chain)
      BY <3>3 DEF LinkOK, NextChain
    <3>4. QED  BY <3>1, <3>2, <3>3 DEF NextRow
  <2>6. CASE Database
    BY <1>2, <2>6 DEF Database, DatabaseFails, DatabaseReturns, Broken, LinkOK
  <2>7. QED  BY <1>2, <2>1, <2>2, <2>3, <2>4, <2>5, <2>6 DEF Next, Writer
<1>3. QED  BY <1>1, <1>2, Inductive, PTL DEF Spec

\* Where a refused row leaves the transaction usable (not postgres), the fallback
\* gives up only refused rows and rows of a database it cannot reach.
THEOREM RefusalIsSurvived == ~AbortsOnError => (Spec => SurvivesRefusal)
<1>. SUFFICES ASSUME ~AbortsOnError PROVE Spec => SurvivesRefusal
  OBVIOUS
<1>1. ASSUME IInv, LinkOK, [Next]_vars, NEW r \in lost' \ lost
      PROVE  stopping' = "done" \/ r \in Refused \/ ~up \/ link = "broken"
  <2>1. CASE Gone
    BY <2>1 DEF Gone
  <2>2. CASE ReachFails
    BY <2>2 DEF ReachFails
  <2>3. CASE SingleFails
    <3>1. r = Row(Chain, First(Chain))
      BY <1>1, <2>3 DEF SingleFails, GiveUp
    <3>2. link \in {"open", "broken"}
      BY <1>1, <2>3 DEF SingleFails, LinkOK, IInv, TypeOK, Links
    <3>3. QED  BY <2>3, <3>1, <3>2 DEF SingleFails, Accepts
  <2>4. CASE lost' = lost
    BY <1>1, <2>4
  <2>5. lost' = lost \/ Gone \/ ReachFails \/ SingleFails
    BY <1>1 DEF Next, Loggers, Writer, Database, LogShare, Stop, Signal, Take, TakeNone, Interval,
                Insert, InsertFails, InsertUnsure, Reconnect, Reach, Single, SingleUnsure,
                DatabaseFails, DatabaseReturns, vars
  <2>6. QED  BY <2>1, <2>2, <2>3, <2>4, <2>5
<1>2. ASSUME IInv, LinkOK, [Next]_vars
      PROVE  [\A r \in lost' \ lost :
                stopping' = "done" \/ r \in Refused \/ ~up \/ link = "broken"]_vars
  BY <1>1, <1>2
<1>3. QED  BY <1>2, LinkInductive, PTL DEF Spec, SurvivesRefusal

-----------------------------------------------------------------------------
\* A row is in the table more than once only if an answer was lost.

Times(s, n) == Cardinality({i \in DOMAIN s : s[i] = n})

\* The rows of the batch are different, and different from those in the queue,
\* which were never in the batch or the table before; a row of the batch was
\* committed already only as often as an answer of its chain was lost.
BatchOnce == \A c \in Chains : IsInjective(batch[c])
RowsKnown == \A c \in Chains : \A n \in Range(batch[c]) \cup Range(table[c]) : n <= logged[c]
QueueOnce == \A i, j \in DOMAIN queue : i < j /\ queue[i] # None => queue[i] # queue[j]
QueueNew ==
  \A r \in Range(queue) : r # None =>
    /\ r.n <= logged[r.chain]
    /\ r.n \notin Range(batch[r.chain]) \cup Range(table[r.chain])
TimesOK ==
  \A c \in Chains : \A n \in Nat :
    /\ Times(table[c], n) <= unsure[c] + 1
    /\ n \in Range(batch[c]) => Times(table[c], n) <= unsure[c]
SettleInv == BatchOnce /\ RowsKnown /\ QueueOnce /\ QueueNew /\ TimesOK

LEMMA TimesIn ==
  ASSUME NEW s \in Seq(Nat), NEW n
  PROVE  /\ IsFiniteSet({i \in DOMAIN s : s[i] = n}) /\ Times(s, n) \in Nat
         /\ n \notin Range(s) => Times(s, n) = 0
<1>1. DOMAIN s = 1 .. Len(s) /\ Len(s) \in Nat
  BY LenProperties
<1>2. PICK P : P = {i \in DOMAIN s : s[i] = n}
  OBVIOUS
<1>3. IsFiniteSet(1 .. Len(s)) /\ P \in SUBSET (1 .. Len(s))
  BY <1>1, <1>2, FS_Interval
<1>4. IsFiniteSet(P) /\ Cardinality(P) \in Nat
  BY <1>3, FS_Subset, FS_CardinalityType
<1>5. ASSUME n \notin Range(s) PROVE Cardinality(P) = 0
  BY <1>2, <1>5, FS_EmptySet DEF Range
<1> QED
  BY <1>2, <1>4, <1>5 DEF Times

\* What a commit adds: each of its rows once.
AddsOnce(r, s, t, n) ==
  /\ n \notin Range(t) => Times(r, n) = Times(s, n)
  /\ n \in Range(t) => Times(r, n) = Times(s, n) + 1
LEMMA TimesAdded ==
  ASSUME NEW s \in Seq(Nat), NEW t \in Seq(Nat), IsInjective(t), NEW r, r = s \o t, NEW n
  PROVE  AddsOnce(r, s, t, n)
<1>1. /\ DOMAIN s = 1 .. Len(s) /\ Len(s) \in Nat /\ DOMAIN t = 1 .. Len(t) /\ Len(t) \in Nat
      /\ r \in Seq(Nat) /\ Len(r) = Len(s) + Len(t) /\ DOMAIN r = 1 .. Len(s) + Len(t)
      /\ \A i \in 1 .. Len(s) + Len(t) : r[i] = IF i <= Len(s) THEN s[i] ELSE t[i - Len(s)]
  <2>1. /\ r \in Seq(Nat) /\ Len(r) = Len(s) + Len(t)
        /\ \A i \in 1 .. Len(s) + Len(t) : r[i] = IF i <= Len(s) THEN s[i] ELSE t[i - Len(s)]
    BY ConcatProperties
  <2> QED
    BY <2>1, LenProperties
<1>2. PICK P, Q : P = {i \in DOMAIN s : s[i] = n} /\ Q = {i \in DOMAIN r : r[i] = n}
  OBVIOUS
<1>3. /\ \A i \in DOMAIN s : i \in DOMAIN r /\ r[i] = s[i] /\ i <= Len(s)
      /\ \A i \in DOMAIN t : i + Len(s) \in DOMAIN r /\ r[i + Len(s)] = t[i] /\ ~ i + Len(s) <= Len(s)
      /\ \A i \in DOMAIN r : i \in DOMAIN s \/ (i - Len(s) \in DOMAIN t /\ r[i] = t[i - Len(s)])
  <2>1. \A i \in DOMAIN s : i \in DOMAIN r /\ r[i] = s[i] /\ i <= Len(s)
    BY <1>1
  <2>2. \A i \in DOMAIN t : i + Len(s) \in DOMAIN r /\ ~ i + Len(s) <= Len(s) /\ i + Len(s) - Len(s) = i
    BY <1>1
  <2>3. \A i \in DOMAIN t : r[i + Len(s)] = t[i]
    BY <1>1, <2>2
  <2>4. \A i \in DOMAIN r : i \in DOMAIN s \/ (~ i <= Len(s) /\ i - Len(s) \in DOMAIN t)
    BY <1>1
  <2>5. \A i \in DOMAIN r : ~ i <= Len(s) => r[i] = t[i - Len(s)]
    BY <1>1
  <2> QED
    BY <2>1, <2>2, <2>3, <2>4, <2>5
<1>4. CASE n \notin Range(t)
  <2>1. P = Q
    BY <1>2, <1>3, <1>4 DEF Range
  <2> QED
    BY <1>2, <1>4, <2>1 DEF Times, AddsOnce
<1>5. CASE n \in Range(t)
  <2>1. PICK k \in DOMAIN t : t[k] = n
    BY <1>5 DEF Range
  <2>2. PICK x : x = k + Len(s)
    OBVIOUS
  <2>3. \A i \in DOMAIN r : i - Len(s) = k => i = x
    BY <1>1, <2>2
  <2>4. \A i \in DOMAIN t : t[i] = n => i = k
    BY <2>1 DEF IsInjective
  <2>5. Q \subseteq P \cup {x}
    BY <1>2, <1>3, <2>3, <2>4
  <2>6. P \subseteq Q /\ x \in Q
    BY <1>2, <1>3, <2>1, <2>2
  <2>7. Q = P \cup {x} /\ x \notin P
    BY <1>2, <1>3, <2>1, <2>2, <2>5, <2>6
  <2>8. IsFiniteSet(P)
    BY <1>2, TimesIn
  <2>9. Cardinality(Q) = Cardinality(P) + 1
    BY <2>7, <2>8, FS_AddElement
  <2> QED
    BY <1>2, <1>5, <2>9 DEF Times, AddsOnce
<1> QED
  BY <1>4, <1>5

LEMMA SettleTypes ==
  ASSUME IInv
  PROVE  /\ logged \in [Chains -> Nat] /\ unsure \in [Chains -> Nat]
         /\ batch \in [Chains -> Seq(Nat)] /\ table \in [Chains -> Seq(Nat)]
         /\ queue \in Seq(Rows \cup {None})
         /\ \A c \in Chains : \A n \in Nat : Times(table[c], n) \in Nat
<1>1. /\ logged \in [Chains -> Nat] /\ unsure \in [Chains -> Nat]
      /\ batch \in [Chains -> Seq(Nat)] /\ table \in [Chains -> Seq(Nat)]
      /\ queue \in Seq(Rows \cup {None})
  BY DEF IInv, TypeOK
<1>2. ASSUME NEW c \in Chains, NEW n \in Nat PROVE Times(table[c], n) \in Nat
  <2>1. table[c] \in Seq(Nat)
    BY <1>1
  <2> QED
    BY <2>1, TimesIn
<1> QED
  BY <1>1, <1>2

\* Steps that leave the rows where they are.
LEMMA SettleStays ==
  ASSUME SettleInv, UNCHANGED <<logged, queue, batch, table, unsure>>
  PROVE  SettleInv'
BY DEF SettleInv, BatchOnce, RowsKnown, QueueOnce, QueueNew, TimesOK

\* Steps of the writer on the chain it flushes: its part of the batch gets
\* smaller, and only rows of that part get into the table.
LEMMA SettleFlush ==
  ASSUME IInv, SettleInv, NEW c \in Chains, UNCHANGED <<logged, queue>>,
         \A d \in Chains : d # c => batch'[d] = batch[d] /\ table'[d] = table[d] /\ unsure'[d] = unsure[d],
         IsInjective(batch'[c]), Range(batch'[c]) \subseteq Range(batch[c]),
         Range(table'[c]) \subseteq Range(table[c]) \cup Range(batch[c]),
         \A n \in Nat : /\ Times(table'[c], n) <= unsure'[c] + 1
                        /\ n \in Range(batch'[c]) => Times(table'[c], n) <= unsure'[c]
  PROVE  SettleInv'
<1>1. BatchOnce'
  <2> SUFFICES ASSUME NEW d \in Chains PROVE IsInjective(batch'[d])
    BY DEF BatchOnce
  <2> QED
    BY DEF SettleInv, BatchOnce
<1>2. \A d \in Chains : /\ Range(batch'[d]) \subseteq Range(batch[d])
                        /\ Range(table'[d]) \subseteq Range(table[d]) \cup Range(batch[d])
  OBVIOUS
<1>3. RowsKnown'
  BY <1>2 DEF SettleInv, RowsKnown
<1>4. QueueOnce'
  BY DEF SettleInv, QueueOnce
<1>5. QueueNew'
  <2> SUFFICES ASSUME NEW r \in Range(queue), r # None
               PROVE  /\ r.n <= logged[r.chain]
                      /\ r.n \notin Range(batch'[r.chain]) \cup Range(table'[r.chain])
    BY DEF QueueNew
  <2>1. r \in Rows
    BY SettleTypes, RangeOfSeq
  <2>2. r.chain \in Chains
    BY <2>1 DEF Rows
  <2> QED
    BY <1>2, <2>2 DEF SettleInv, QueueNew
<1>6. TimesOK'
  <2> SUFFICES ASSUME NEW d \in Chains, NEW n \in Nat
               PROVE  /\ Times(table'[d], n) <= unsure'[d] + 1
                      /\ n \in Range(batch'[d]) => Times(table'[d], n) <= unsure'[d]
    BY DEF TimesOK
  <2>1. CASE d = c
    BY <2>1
  <2>2. CASE d # c
    BY <2>2 DEF SettleInv, TimesOK
  <2> QED
    BY <2>1, <2>2
<1> QED
  BY <1>1, <1>3, <1>4, <1>5, <1>6 DEF SettleInv

LEMMA InitSettled == Init => SettleInv
<1> SUFFICES ASSUME Init PROVE SettleInv
  OBVIOUS
<1>1. <<>> \in Seq(Nat) /\ Range(<<>>) = {} /\ IsInjective(<<>>) /\ DOMAIN <<>> = {}
  BY DEF Range, IsInjective
<1>2. \A n \in Nat : Times(<<>>, n) = 0
  BY <1>1, TimesIn
<1>3. /\ queue = <<>> /\ \A c \in Chains : batch[c] = <<>> /\ table[c] = <<>> /\ unsure[c] = 0
  BY DEF Init
<1> QED
  BY <1>1, <1>2, <1>3 DEF SettleInv, BatchOnce, RowsKnown, QueueOnce, QueueNew, TimesOK

\* A new row: no row of its chain has its number yet.
LEMMA LogShareSettled ==
  ASSUME IInv, SettleInv, NEW c \in Chains, LogShare(c)
  PROVE  SettleInv'
<1>1. PICK r : r = Row(c, logged[c] + 1)
  OBVIOUS
<1>2. /\ logged \in [Chains -> Nat] /\ logged[c] \in Nat /\ queue \in Seq(Rows \cup {None})
      /\ logged' = [logged EXCEPT ![c] = @ + 1]
      /\ batch' = batch /\ table' = table /\ unsure' = unsure
      /\ queue' = queue \/ queue' = Append(queue, r)
  BY <1>1, SettleTypes DEF LogShare, flush, database
<1>3. r.chain = c /\ r.n = logged[c] + 1 /\ r \in Rows
  BY <1>1, <1>2 DEF Row, Rows
<1>4. /\ \A d \in Chains : logged[d] \in Nat /\ logged'[d] \in Nat /\ logged[d] <= logged'[d]
      /\ logged'[c] = logged[c] + 1
  BY <1>2
<1>5. /\ \A d \in Chains : \A n \in Range(batch[d]) \cup Range(table[d]) :
             n \in Nat /\ n <= logged[d]
  <2>1. \A d \in Chains : batch[d] \in Seq(Nat) /\ table[d] \in Seq(Nat)
    BY SettleTypes
  <2>2. \A d \in Chains : Range(batch[d]) \subseteq Nat /\ Range(table[d]) \subseteq Nat
    BY <2>1, RangeOfSeq
  <2> QED
    BY <2>2 DEF SettleInv, RowsKnown
<1>6. RowsKnown'
  <2> SUFFICES ASSUME NEW d \in Chains, NEW n \in Range(batch[d]) \cup Range(table[d])
               PROVE  n <= logged'[d]
    BY <1>2 DEF RowsKnown
  <2>1. n \in Nat /\ n <= logged[d]
    BY <1>5
  <2> QED
    BY <1>4, <2>1
<1>7. BatchOnce' /\ TimesOK'
  BY <1>2 DEF SettleInv, BatchOnce, TimesOK
<1>8. ASSUME NEW x \in Range(queue), x # None
      PROVE  /\ x # r /\ x.n <= logged'[x.chain]
             /\ x.n \notin Range(batch[x.chain]) \cup Range(table[x.chain])
  <2>1. x \in Rows
    BY <1>2, <1>8, RangeOfSeq
  <2>2. x.chain \in Chains /\ x.n \in Nat
    BY <2>1 DEF Rows
  <2>3. x.n <= logged[x.chain] /\ x.n \notin Range(batch[x.chain]) \cup Range(table[x.chain])
    BY <1>8 DEF SettleInv, QueueNew
  <2>4. x # r
    BY <1>2, <1>3, <2>2, <2>3
  <2>5. x.n <= logged'[x.chain]
    BY <1>4, <2>2, <2>3
  <2> QED
    BY <2>3, <2>4, <2>5
<1>9. CASE queue' = queue
  BY <1>2, <1>6, <1>7, <1>8, <1>9 DEF SettleInv, QueueNew, QueueOnce
<1>10. CASE queue' = Append(queue, r)
  <2>1. /\ Range(queue') = Range(queue) \cup {r}
        /\ DOMAIN queue' = 1 .. Len(queue) + 1 /\ queue'[Len(queue) + 1] = r
        /\ \A i \in DOMAIN queue : queue'[i] = queue[i]
        /\ DOMAIN queue = 1 .. Len(queue) /\ Len(queue) \in Nat
    <3>1. r \in Rows \cup {None} /\ queue \in Seq(Rows \cup {None})
      BY <1>2, <1>3
    <3>2. DOMAIN queue = 1 .. Len(queue) /\ Len(queue) \in Nat
      BY <3>1, LenProperties
    <3>3. /\ Range(Append(queue, r)) = Range(queue) \cup {r}
          /\ DOMAIN Append(queue, r) = 1 .. Len(queue) + 1
          /\ Append(queue, r)[Len(queue) + 1] = r
          /\ \A i \in DOMAIN queue : Append(queue, r)[i] = queue[i]
      BY <3>1, AppendRange
    <3> QED
      BY <1>10, <3>2, <3>3
  <2>2. QueueNew'
    <3>1. \A n \in Range(batch[c]) \cup Range(table[c]) : n <= logged[c]
      BY <1>5
    <3>2. ~ logged[c] + 1 <= logged[c]
      BY <1>2
    <3>3. logged[c] + 1 \notin Range(batch[c]) \cup Range(table[c])
      BY <3>1, <3>2
    <3> QED
      BY <1>2, <1>3, <1>4, <1>8, <2>1, <3>3 DEF QueueNew
  <2>3. QueueOnce'
    <3> SUFFICES ASSUME NEW i \in DOMAIN queue', NEW j \in DOMAIN queue', i < j, queue'[i] # None
                 PROVE  queue'[i] # queue'[j]
      BY DEF QueueOnce
    <3>1. i \in DOMAIN queue /\ queue'[i] = queue[i] /\ queue[i] \in Range(queue)
      BY <2>1 DEF Range
    <3>2. CASE j \in DOMAIN queue
      BY <2>1, <3>1, <3>2 DEF SettleInv, QueueOnce
    <3>3. CASE j = Len(queue) + 1
      BY <1>8, <2>1, <3>1, <3>3
    <3> QED
      BY <2>1, <3>2, <3>3
  <2> QED
    BY <1>6, <1>7, <2>2, <2>3 DEF SettleInv
<1> QED
  BY <1>2, <1>9, <1>10

LEMMA SignalSettled ==
  ASSUME IInv, SettleInv, Signal
  PROVE  SettleInv'
<1>1. /\ UNCHANGED <<logged, batch, table, unsure>>
      /\ queue' = queue \/ queue' = Append(queue, None)
  BY DEF Signal, flush, database
<1>2. CASE queue' = queue
  BY <1>1, <1>2, SettleStays
<1>3. CASE queue' = Append(queue, None)
  <2>1. queue \in Seq(Rows \cup {None})
    BY SettleTypes
  <2>2. /\ Range(queue') = Range(queue) \cup {None}
        /\ DOMAIN queue' = 1 .. Len(queue) + 1 /\ queue'[Len(queue) + 1] = None
        /\ \A i \in DOMAIN queue : queue'[i] = queue[i]
        /\ DOMAIN queue = 1 .. Len(queue) /\ Len(queue) \in Nat
    BY <1>3, <2>1, AppendRange, LenProperties
  <2>3. QueueNew'
    BY <1>1, <2>2 DEF SettleInv, QueueNew
  <2>4. QueueOnce'
    <3> SUFFICES ASSUME NEW i \in DOMAIN queue', NEW j \in DOMAIN queue', i < j, queue'[i] # None
                 PROVE  queue'[i] # queue'[j]
      BY DEF QueueOnce
    <3>1. i \in DOMAIN queue /\ (j \in DOMAIN queue \/ queue'[j] = None)
      BY <2>2
    <3> QED
      BY <2>2, <3>1 DEF SettleInv, QueueOnce
  <2>5. BatchOnce' /\ RowsKnown' /\ TimesOK'
    BY <1>1 DEF SettleInv, BatchOnce, RowsKnown, TimesOK
  <2> QED
    BY <2>3, <2>4, <2>5 DEF SettleInv
<1> QED
  BY <1>1, <1>2, <1>3

LEMMA GoneSettled ==
  ASSUME IInv, SettleInv, Gone
  PROVE  SettleInv'
<1>1. /\ queue' = <<>> /\ batch' = [c \in Chains |-> <<>>]
      /\ logged' = logged /\ table' = table /\ unsure' = unsure
  BY DEF Gone, database
<1>2. Range(<<>>) = {} /\ IsInjective(<<>>) /\ DOMAIN <<>> = {}
  BY DEF Range, IsInjective
<1>3. \A c \in Chains : batch'[c] = <<>>
  BY <1>1
<1> QED
  BY <1>1, <1>2, <1>3 DEF SettleInv, BatchOnce, RowsKnown, QueueOnce, QueueNew, TimesOK

\* The queue without its first.
LEMMA QueueShorter ==
  ASSUME IInv, QueueOnce, queue # <<>>, queue' = Tail(queue)
  PROVE  /\ QueueOnce' /\ Range(queue) = {Head(queue)} \cup Range(queue')
         /\ Head(queue) # None => Head(queue) \notin Range(queue')
<1>1. queue \in Seq(Rows \cup {None})
  BY SettleTypes
<1>2. /\ queue' \in Seq(Rows \cup {None}) /\ Head(queue) = queue[1] /\ 1 \in DOMAIN queue
      /\ Range(queue) = {Head(queue)} \cup Range(queue')
      /\ \A i \in DOMAIN queue' : i \in Nat /\ i + 1 \in DOMAIN queue /\ queue'[i] = queue[i + 1]
  BY <1>1, TailRange
<1>3. \A i \in DOMAIN queue' : 1 < i + 1
  <2>1. DOMAIN queue' = 1 .. Len(queue')
    BY <1>2, LenProperties
  <2> QED
    BY <1>2, <2>1
<1>4. QueueOnce'
  <2> SUFFICES ASSUME NEW i \in DOMAIN queue', NEW j \in DOMAIN queue', i < j, queue'[i] # None
               PROVE  queue'[i] # queue'[j]
    BY DEF QueueOnce
  <2>1. i + 1 \in DOMAIN queue /\ j + 1 \in DOMAIN queue /\ i + 1 < j + 1
    BY <1>2
  <2> QED
    BY <1>2, <2>1 DEF QueueOnce
<1>5. ASSUME Head(queue) # None PROVE Head(queue) \notin Range(queue')
  <2>1. \A i \in DOMAIN queue' : queue[1] # queue[i + 1]
    BY <1>2, <1>3, <1>5 DEF QueueOnce
  <2> QED
    BY <1>2, <2>1 DEF Range
<1> QED
  BY <1>2, <1>4, <1>5

\* A row goes from the queue into the batch.
LEMMA TakeSettled ==
  ASSUME IInv, SettleInv, Take
  PROVE  SettleInv'
<1>1. /\ queue # <<>> /\ Head(queue) # None /\ queue' = Tail(queue)
      /\ Add(Head(queue).chain, Head(queue).n)
      /\ UNCHANGED <<logged, table, unsure>>
  BY DEF Take, logger, database
<1>2. /\ batch \in [Chains -> Seq(Nat)] /\ table \in [Chains -> Seq(Nat)]
      /\ logged \in [Chains -> Nat] /\ unsure \in [Chains -> Nat]
      /\ queue \in Seq(Rows \cup {None})
  BY SettleTypes
<1>3. QueueOnce' /\ Range(queue) = {Head(queue)} \cup Range(queue') /\ Head(queue) \notin Range(queue')
  BY <1>1, QueueShorter DEF SettleInv
<1>4. PICK r : r = Head(queue)
  OBVIOUS
<1>5. r \in Rows
  BY <1>1, <1>2, <1>4, TailRange
<1>6. PICK c \in Chains, n \in Nat : r.chain = c /\ r.n = n /\ r = Row(c, n)
  BY <1>5 DEF Rows, Row
<1>7. n <= logged[c] /\ n \notin Range(batch[c]) /\ n \notin Range(table[c])
  BY <1>1, <1>3, <1>4, <1>6 DEF SettleInv, QueueNew
<1>8. batch' = [batch EXCEPT ![c] = Append(@, n)]
  BY <1>1, <1>4, <1>6 DEF Add
<1>9. /\ batch[c] \in Seq(Nat) /\ IsInjective(batch[c])
      /\ Range(Append(batch[c], n)) = Range(batch[c]) \cup {n}
      /\ IsInjective(Append(batch[c], n))
  <2>1. batch[c] \in Seq(Nat) /\ IsInjective(batch[c])
    BY <1>2 DEF SettleInv, BatchOnce
  <2> QED
    BY <1>7, <2>1, AppendRange, AppendInjection
<1>10. /\ batch'[c] = Append(batch[c], n) /\ \A d \in Chains : d # c => batch'[d] = batch[d]
  BY <1>2, <1>8
<1>11. BatchOnce'
  <2> SUFFICES ASSUME NEW d \in Chains PROVE IsInjective(batch'[d])
    BY DEF BatchOnce
  <2> QED
    BY <1>9, <1>10 DEF SettleInv, BatchOnce
<1>12. \A d \in Chains : \A m \in Range(batch'[d]) : m \in Range(batch[d]) \/ (d = c /\ m = n)
  BY <1>9, <1>10
<1>13. RowsKnown'
  BY <1>1, <1>7, <1>12 DEF SettleInv, RowsKnown
<1>14. QueueNew'
  <2> SUFFICES ASSUME NEW x \in Range(queue'), x # None
               PROVE  /\ x.n <= logged[x.chain]
                      /\ x.n \notin Range(batch'[x.chain]) \cup Range(table[x.chain])
    BY <1>1 DEF QueueNew
  <2>1. /\ x \in Range(queue) /\ x # r
        /\ x.n <= logged[x.chain] /\ x.n \notin Range(batch[x.chain]) \cup Range(table[x.chain])
    BY <1>3, <1>4 DEF SettleInv, QueueNew
  <2>2. x \in Rows
    BY <1>2, <2>1, RangeOfSeq
  <2>3. x.chain \in Chains /\ ~ (x.chain = c /\ x.n = n)
    BY <1>5, <1>6, <2>1, <2>2 DEF Rows
  <2> QED
    BY <1>12, <2>1, <2>3
<1>15. TimesOK'
  <2> SUFFICES ASSUME NEW d \in Chains, NEW m \in Nat
               PROVE  /\ Times(table[d], m) <= unsure[d] + 1
                      /\ m \in Range(batch'[d]) => Times(table[d], m) <= unsure[d]
    BY <1>1 DEF TimesOK
  <2>1. /\ Times(table[d], m) <= unsure[d] + 1
        /\ m \in Range(batch[d]) => Times(table[d], m) <= unsure[d]
    BY DEF SettleInv, TimesOK
  <2>2. table[c] \in Seq(Nat) /\ unsure[c] \in Nat
    BY <1>2
  <2>3. Times(table[c], n) = 0
    BY <1>7, <2>2, TimesIn
  <2>4. Times(table[c], n) <= unsure[c]
    BY <2>2, <2>3
  <2> QED
    BY <1>12, <2>1, <2>4
<1> QED
  BY <1>3, <1>11, <1>13, <1>14, <1>15 DEF SettleInv

LEMMA TakeNoneSettled ==
  ASSUME IInv, SettleInv, TakeNone
  PROVE  SettleInv'
<1>1. /\ queue # <<>> /\ queue' = Tail(queue) /\ UNCHANGED <<logged, batch, table, unsure>>
  BY DEF TakeNone, logger, database
<1>2. QueueOnce' /\ Range(queue') \subseteq Range(queue)
  BY <1>1, QueueShorter DEF SettleInv
<1> QED
  BY <1>1, <1>2 DEF SettleInv, BatchOnce, RowsKnown, QueueNew, TimesOK

\* A chain's part of the batch is committed.
LEMMA CommitTimes ==
  ASSUME IInv, SettleInv, writer \in Flushing, Commit(Chain)
  PROVE  /\ \A d \in Chains : d # Chain => table'[d] = table[d]
         /\ Range(table'[Chain]) \subseteq Range(table[Chain]) \cup Range(batch[Chain])
         /\ \A n \in Nat :
              /\ n \in Range(batch[Chain]) => Times(table'[Chain], n) <= unsure[Chain] + 1
              /\ n \notin Range(batch[Chain]) => Times(table'[Chain], n) = Times(table[Chain], n)
<1>1. PICK c, s, t : c = Chain /\ s = table[Chain] /\ t = batch[Chain]
  OBVIOUS
<1>2. c \in Chains /\ t \in Seq(Nat) /\ s \in Seq(Nat) /\ IsInjective(t) /\ unsure[c] \in Nat
  <2>1. Chain \in Chains /\ batch[Chain] \in Seq(Nat)
    BY ChainInBatch
  <2> QED
    BY <1>1, <2>1, SettleTypes DEF SettleInv, BatchOnce
<1>3. PICK r : r = s \o t
  OBVIOUS
<1>4. /\ table'[c] = r /\ \A d \in Chains : d # c => table'[d] = table[d]
  <2>1. table' = [table EXCEPT ![c] = r] /\ table \in [Chains -> Seq(Nat)]
    BY <1>1, <1>3, SettleTypes DEF Commit
  <2> QED
    BY <1>2, <2>1
<1>5. Range(r) = Range(s) \cup Range(t)
  BY <1>2, <1>3, RangeConcatenation
<1>6. ASSUME NEW n \in Nat
      PROVE  /\ n \in Range(t) => Times(r, n) <= unsure[c] + 1
             /\ n \notin Range(t) => Times(r, n) = Times(s, n)
  <2>1. /\ n \notin Range(t) => Times(r, n) = Times(s, n)
        /\ n \in Range(t) => Times(r, n) = Times(s, n) + 1
    <3>1. AddsOnce(r, s, t, n)
      BY <1>2, <1>3, TimesAdded
    <3> QED
      BY <3>1 DEF AddsOnce
  <2>2. n \in Range(t) => Times(s, n) <= unsure[c]
    BY <1>1, <1>2, <1>6 DEF SettleInv, TimesOK
  <2>3. Times(s, n) \in Nat
    BY <1>2, TimesIn
  <2>4. Times(s, n) <= unsure[c] => Times(s, n) + 1 <= unsure[c] + 1
    BY <1>2, <2>3
  <2> QED
    BY <2>1, <2>2, <2>4
<1> QED
  BY <1>1, <1>4, <1>5, <1>6

\* The first row of the chain's part is committed.
LEMMA CommitOneTimes ==
  ASSUME IInv, SettleInv, writer \in Flushing, CommitOne(Chain)
  PROVE  /\ \A d \in Chains : d # Chain => table'[d] = table[d]
         /\ Range(table'[Chain]) \subseteq Range(table[Chain]) \cup Range(batch[Chain])
         /\ Times(table'[Chain], First(Chain)) <= unsure[Chain] + 1
         /\ \A n \in Nat : n # First(Chain) => Times(table'[Chain], n) = Times(table[Chain], n)
<1>1. PICK c, s, t, f : /\ c = Chain /\ s = table[Chain] /\ f = First(Chain) /\ t = <<f>>
  OBVIOUS
<1>2. c \in Chains /\ f \in Nat /\ f \in Range(batch[c]) /\ s \in Seq(Nat) /\ unsure[c] \in Nat
  <2>1. Chain \in Chains /\ batch[Chain] \in Seq(Nat) /\ batch[Chain] # <<>>
    BY ChainInBatch
  <2>2. Head(batch[Chain]) \in Nat /\ Head(batch[Chain]) \in Range(batch[Chain])
    BY <2>1, TailRange
  <2> QED
    BY <1>1, <2>1, <2>2, SettleTypes DEF First
<1>3. t \in Seq(Nat) /\ IsInjective(t) /\ Range(t) = {f}
  BY <1>1, <1>2 DEF IsInjective, Range
<1>4. PICK r : r = s \o t
  OBVIOUS
<1>5. /\ table'[c] = r /\ \A d \in Chains : d # c => table'[d] = table[d]
  <2>1. Append(s, f) = s \o t
    BY <1>1, <1>2, AppendIsConcat
  <2>2. table' = [table EXCEPT ![c] = r] /\ table \in [Chains -> Seq(Nat)]
    BY <1>1, <1>4, <2>1, SettleTypes DEF CommitOne
  <2> QED
    BY <1>2, <2>2
<1>6. Range(r) = Range(s) \cup {f}
  BY <1>2, <1>3, <1>4, RangeConcatenation
<1>7. ASSUME NEW n \in Nat
      PROVE  /\ n # f => Times(r, n) = Times(s, n)
             /\ n = f => Times(r, n) = Times(s, n) + 1
  <2>1. AddsOnce(r, s, t, n)
    BY <1>2, <1>3, <1>4, TimesAdded
  <2> QED
    BY <1>3, <2>1 DEF AddsOnce
<1>8. Times(s, f) <= unsure[c] /\ Times(s, f) \in Nat
  BY <1>1, <1>2, TimesIn DEF SettleInv, TimesOK
<1>9. Times(r, f) <= unsure[c] + 1
  BY <1>2, <1>7, <1>8
<1> QED
  BY <1>1, <1>2, <1>5, <1>6, <1>7, <1>9

\* The flush goes on to the next chain.
LEMMA NextChainRows ==
  ASSUME IInv, writer \in Flushing, NextChain(Chain)
  PROVE  /\ Chain \in Chains /\ Range(batch'[Chain]) = {} /\ IsInjective(batch'[Chain])
         /\ \A d \in Chains : d # Chain => batch'[d] = batch[d]
<1>1. Chain \in Chains /\ batch \in [Chains -> Seq(Nat)]
  BY ChainInBatch, SettleTypes
<1>2. batch' = [batch EXCEPT ![Chain] = <<>>]
  BY DEF NextChain
<1>3. Range(<<>>) = {} /\ IsInjective(<<>>)
  BY DEF Range, IsInjective
<1> QED
  BY <1>1, <1>2, <1>3

\* The fallback goes on to the next row, or the next chain: the first row is
\* not in the batch any more.
LEMMA NextRowRows ==
  ASSUME IInv, SettleInv, writer \in Flushing, NEW state, NextRow(Chain, state)
  PROVE  /\ Chain \in Chains /\ IsInjective(batch'[Chain])
         /\ Range(batch'[Chain]) \subseteq Range(batch[Chain])
         /\ First(Chain) \notin Range(batch'[Chain])
         /\ \A d \in Chains : d # Chain => batch'[d] = batch[d]
<1>1. /\ Chain \in Chains /\ batch \in [Chains -> Seq(Nat)]
      /\ batch[Chain] \in Seq(Nat) /\ batch[Chain] # <<>> /\ IsInjective(batch[Chain])
  BY ChainInBatch, SettleTypes DEF SettleInv, BatchOnce
<1>2. CASE NextChain(Chain)
  BY <1>2, NextChainRows
<1>3. CASE batch' = [batch EXCEPT ![Chain] = Tail(@)]
  <2>1. batch'[Chain] = Tail(batch[Chain]) /\ \A d \in Chains : d # Chain => batch'[d] = batch[d]
    BY <1>1, <1>3
  <2>2. /\ IsInjective(Tail(batch[Chain])) /\ Head(batch[Chain]) \notin Range(Tail(batch[Chain]))
        /\ Range(batch[Chain]) = {Head(batch[Chain])} \cup Range(Tail(batch[Chain]))
    BY <1>1, TailRange
  <2> QED
    BY <1>1, <2>1, <2>2 DEF First
<1> QED
  BY <1>2, <1>3 DEF NextRow

LEMMA InsertSettled ==
  ASSUME IInv, SettleInv, Insert
  PROVE  SettleInv'
<1>1. /\ writer \in Flushing /\ Commit(Chain) /\ NextChain(Chain)
      /\ UNCHANGED <<logged, queue, unsure>>
  BY DEF Insert, Flushing, logger
<1>2. PICK c : c = Chain
  OBVIOUS
<1>3. /\ c \in Chains /\ Range(batch'[c]) = {} /\ IsInjective(batch'[c])
      /\ \A d \in Chains : d # c => batch'[d] = batch[d]
  BY <1>1, <1>2, NextChainRows
<1>4. /\ \A d \in Chains : d # c => table'[d] = table[d]
      /\ Range(table'[c]) \subseteq Range(table[c]) \cup Range(batch[c])
      /\ \A n \in Nat : /\ n \in Range(batch[c]) => Times(table'[c], n) <= unsure[c] + 1
                        /\ n \notin Range(batch[c]) => Times(table'[c], n) = Times(table[c], n)
  BY <1>1, <1>2, CommitTimes
<1>5. \A n \in Nat : Times(table'[c], n) <= unsure'[c] + 1
  BY <1>1, <1>3, <1>4 DEF SettleInv, TimesOK
<1>6. \A n \in Nat : n \notin Range(batch'[c])
  BY <1>3
<1> QED
  BY <1>1, <1>3, <1>4, <1>5, <1>6, SettleFlush

LEMMA InsertUnsureSettled ==
  ASSUME IInv, SettleInv, InsertUnsure
  PROVE  SettleInv'
<1>1. /\ writer \in Flushing /\ Commit(Chain) /\ UNCHANGED <<logged, queue, batch>>
      /\ unsure' = [unsure EXCEPT ![Chain] = @ + 1]
  BY DEF InsertUnsure, Flushing, logger, Failed
<1>2. PICK c : c = Chain
  OBVIOUS
<1>3. /\ c \in Chains /\ unsure \in [Chains -> Nat] /\ IsInjective(batch'[c])
  BY <1>1, <1>2, ChainInBatch, SettleTypes DEF SettleInv, BatchOnce
<1>4. /\ unsure[c] \in Nat /\ unsure'[c] = unsure[c] + 1
      /\ \A d \in Chains : d # c => unsure'[d] = unsure[d]
  BY <1>1, <1>2, <1>3
<1>5. /\ \A d \in Chains : d # c => table'[d] = table[d]
      /\ Range(table'[c]) \subseteq Range(table[c]) \cup Range(batch[c])
      /\ \A n \in Nat : /\ n \in Range(batch[c]) => Times(table'[c], n) <= unsure[c] + 1
                        /\ n \notin Range(batch[c]) => Times(table'[c], n) = Times(table[c], n)
  BY <1>1, <1>2, CommitTimes
<1>6. ASSUME NEW n \in Nat
      PROVE  Times(table'[c], n) <= unsure[c] + 1 /\ Times(table'[c], n) \in Nat
  <2>1. Times(table[c], n) <= unsure[c] + 1
    BY <1>3, <1>6 DEF SettleInv, TimesOK
  <2>2. table'[c] \in Seq(Nat)
    BY <1>1, <1>3, CommitOK
  <2> QED
    BY <1>5, <1>6, <2>1, <2>2, TimesIn
<1>7. \A n \in Nat : Times(table'[c], n) <= unsure'[c] + 1 /\ Times(table'[c], n) <= unsure'[c]
  BY <1>4, <1>6
<1>8. Range(batch'[c]) \subseteq Range(batch[c]) /\ \A d \in Chains : batch'[d] = batch[d]
  BY <1>1
<1> QED
  BY <1>1, <1>3, <1>4, <1>5, <1>7, <1>8, SettleFlush

LEMMA ReachFailsSettled ==
  ASSUME IInv, SettleInv, ReachFails
  PROVE  SettleInv'
<1>1. writer \in Flushing /\ NextChain(Chain) /\ UNCHANGED <<logged, queue, table, unsure>>
  BY DEF ReachFails, Flushing, logger, database
<1>2. PICK c : c = Chain
  OBVIOUS
<1>3. /\ c \in Chains /\ Range(batch'[c]) = {} /\ IsInjective(batch'[c])
      /\ \A d \in Chains : d # c => batch'[d] = batch[d]
  BY <1>1, <1>2, NextChainRows
<1>4. \A n \in Nat : n \notin Range(batch'[c]) /\ Times(table'[c], n) <= unsure'[c] + 1
  BY <1>1, <1>3 DEF SettleInv, TimesOK
<1> QED
  BY <1>1, <1>3, <1>4, SettleFlush

LEMMA SingleSettled ==
  ASSUME IInv, SettleInv, Single
  PROVE  SettleInv'
<1>1. /\ writer \in Flushing /\ CommitOne(Chain) /\ NextRow(Chain, "open")
      /\ UNCHANGED <<logged, queue, unsure>>
  BY DEF Single, Flushing, logger
<1>2. PICK c, f : c = Chain /\ f = First(Chain)
  OBVIOUS
<1>3. /\ c \in Chains /\ IsInjective(batch'[c]) /\ Range(batch'[c]) \subseteq Range(batch[c])
      /\ f \notin Range(batch'[c]) /\ \A d \in Chains : d # c => batch'[d] = batch[d]
  BY <1>1, <1>2, NextRowRows
<1>4. /\ \A d \in Chains : d # c => table'[d] = table[d]
      /\ Range(table'[c]) \subseteq Range(table[c]) \cup Range(batch[c])
      /\ Times(table'[c], f) <= unsure[c] + 1
      /\ \A n \in Nat : n # f => Times(table'[c], n) = Times(table[c], n)
  BY <1>1, <1>2, CommitOneTimes
<1>5. \A n \in Nat : /\ Times(table[c], n) <= unsure[c] + 1
                     /\ n \in Range(batch[c]) => Times(table[c], n) <= unsure[c]
  BY <1>3 DEF SettleInv, TimesOK
<1>6. \A n \in Nat : /\ Times(table'[c], n) <= unsure'[c] + 1
                     /\ n \in Range(batch'[c]) => Times(table'[c], n) <= unsure'[c]
  BY <1>1, <1>3, <1>4, <1>5
<1> QED
  BY <1>1, <1>3, <1>4, <1>6, SettleFlush

LEMMA SingleFailsSettled ==
  ASSUME IInv, SettleInv, SingleFails
  PROVE  SettleInv'
<1>1. PICK state : state = IF link = "open" /\ AbortsOnError THEN "aborted" ELSE link
  OBVIOUS
<1>2. /\ writer \in Flushing /\ NextRow(Chain, state) /\ UNCHANGED <<logged, queue, table, unsure>>
  BY <1>1 DEF SingleFails, Flushing, logger, database
<1>3. PICK c : c = Chain
  OBVIOUS
<1>4. /\ c \in Chains /\ IsInjective(batch'[c]) /\ Range(batch'[c]) \subseteq Range(batch[c])
      /\ \A d \in Chains : d # c => batch'[d] = batch[d]
  BY <1>2, <1>3, NextRowRows
<1>5. \A n \in Nat : /\ Times(table'[c], n) <= unsure'[c] + 1
                     /\ n \in Range(batch'[c]) => Times(table'[c], n) <= unsure'[c]
  BY <1>2, <1>4 DEF SettleInv, TimesOK
<1> QED
  BY <1>2, <1>4, <1>5, SettleFlush

LEMMA SingleUnsureSettled ==
  ASSUME IInv, SettleInv, SingleUnsure
  PROVE  SettleInv'
<1>1. /\ writer \in Flushing /\ CommitOne(Chain) /\ NextRow(Chain, "broken")
      /\ UNCHANGED <<logged, queue>> /\ unsure' = [unsure EXCEPT ![Chain] = @ + 1]
  BY DEF SingleUnsure, Flushing, logger
<1>2. PICK c, f : c = Chain /\ f = First(Chain)
  OBVIOUS
<1>3. /\ c \in Chains /\ IsInjective(batch'[c]) /\ Range(batch'[c]) \subseteq Range(batch[c])
      /\ f \notin Range(batch'[c]) /\ \A d \in Chains : d # c => batch'[d] = batch[d]
  BY <1>1, <1>2, NextRowRows
<1>4. /\ unsure[c] \in Nat /\ unsure'[c] = unsure[c] + 1
      /\ \A d \in Chains : d # c => unsure'[d] = unsure[d]
  BY <1>1, <1>2, <1>3, SettleTypes
<1>5. /\ \A d \in Chains : d # c => table'[d] = table[d]
      /\ Range(table'[c]) \subseteq Range(table[c]) \cup Range(batch[c])
      /\ Times(table'[c], f) <= unsure[c] + 1
      /\ \A n \in Nat : n # f => Times(table'[c], n) = Times(table[c], n)
  BY <1>1, <1>2, CommitOneTimes
<1>6. ASSUME NEW n \in Nat
      PROVE  Times(table'[c], n) <= unsure[c] + 1 /\ Times(table'[c], n) \in Nat
  <2>1. Times(table[c], n) <= unsure[c] + 1
    BY <1>3, <1>6 DEF SettleInv, TimesOK
  <2>2. table'[c] \in Seq(Nat)
    BY <1>1, <1>3, CommitOneOK
  <2> QED
    BY <1>5, <1>6, <2>1, <2>2, TimesIn
<1>7. \A n \in Nat : Times(table'[c], n) <= unsure'[c] + 1 /\ Times(table'[c], n) <= unsure'[c]
  BY <1>4, <1>6
<1> QED
  BY <1>1, <1>3, <1>4, <1>5, <1>7, SettleFlush

LEMMA StepSettled == IInv /\ SettleInv /\ [Next]_vars => SettleInv'
<1> SUFFICES ASSUME IInv, SettleInv, [Next]_vars PROVE SettleInv'
  OBVIOUS
<1>1. CASE Loggers
  <2>1. ASSUME NEW c \in Chains, LogShare(c) PROVE SettleInv'
    BY <2>1, LogShareSettled
  <2>2. ASSUME NEW c \in Chains, Stop(c) PROVE SettleInv'
    BY <2>2, SettleStays DEF Stop, flush, database
  <2>3. CASE Signal
    BY <2>3, SignalSettled
  <2>4. CASE Gone
    BY <2>4, GoneSettled
  <2> QED
    BY <1>1, <2>1, <2>2, <2>3, <2>4 DEF Loggers
<1>2. CASE Writer
  <2>1. CASE Take
    BY <2>1, TakeSettled
  <2>2. CASE TakeNone
    BY <2>2, TakeNoneSettled
  <2>3. CASE Interval
    BY <2>3, SettleStays DEF Interval, logger, flush, database
  <2>4. CASE Insert
    BY <2>4, InsertSettled
  <2>5. CASE InsertFails
    BY <2>5, SettleStays DEF InsertFails, Failed, logger, database
  <2>6. CASE InsertUnsure
    BY <2>6, InsertUnsureSettled
  <2>7. CASE Reconnect
    BY <2>7, SettleStays DEF Reconnect, logger, flush, database
  <2>8. CASE Reach
    BY <2>8, SettleStays DEF Reach, logger, flush, database
  <2>9. CASE ReachFails
    BY <2>9, ReachFailsSettled
  <2>10. CASE Single
    BY <2>10, SingleSettled
  <2>11. CASE SingleFails
    BY <2>11, SingleFailsSettled
  <2>12. CASE SingleUnsure
    BY <2>12, SingleUnsureSettled
  <2> QED
    BY <1>2, <2>1, <2>2, <2>3, <2>4, <2>5, <2>6, <2>7, <2>8, <2>9, <2>10, <2>11, <2>12 DEF Writer
<1>3. CASE Database
  BY <1>3, SettleStays DEF Database, DatabaseFails, DatabaseReturns, logger, flush
<1>4. CASE UNCHANGED vars
  BY <1>4, SettleStays DEF vars, logger, flush, database
<1> QED
  BY <1>1, <1>2, <1>3, <1>4 DEF Next

\* The writer settles a row once: whatever the database does, a row is in the
\* table at most once more than answers of its chain were lost
\* (_flush_chain_batch and _fallback_individual_inserts retry what may be done).
THEOREM OnceUnlessUnsure == Spec => []TwiceOnlyWhenUnsure
<1>1. Init => SettleInv
  BY InitSettled
<1>2. IInv /\ SettleInv /\ [Next]_vars => SettleInv'
  BY StepSettled
<1>3. IInv /\ SettleInv => TwiceOnlyWhenUnsure
  <2> SUFFICES ASSUME IInv, SettleInv, NEW c \in Chains, NEW n \in Range(table[c])
               PROVE  Times(table[c], n) <= IF unsure[c] = 0 THEN 1 ELSE unsure[c] + 1
    BY DEF TwiceOnlyWhenUnsure, Times
  <2>1. table[c] \in Seq(Nat) /\ unsure[c] \in Nat
    BY SettleTypes
  <2>2. n \in Nat
    BY <2>1, RangeOfSeq
  <2>3. Times(table[c], n) <= unsure[c] + 1
    BY <2>2 DEF SettleInv, TimesOK
  <2> QED
    BY <2>1, <2>3
<1> QED
  BY <1>1, <1>2, <1>3, Inductive, PTL DEF Spec

-----------------------------------------------------------------------------
\* The order of the rows.

Below(S, T) == \A m \in S : \A n \in T : m < n

\* A set is sorted when one part of it is, and the part above it.
LEMMA SortedJoin ==
  ASSUME NEW S, NEW T, NEW W, Finite(S), Finite(T), Below(S, T), W = S \cup T
  PROVE  /\ Finite(W) /\ Cardinality(W) = Cardinality(S) + Cardinality(T)
         /\ Sorted(W) = Sorted(S) \o Sorted(T)
<1>1. /\ S \subseteq Nat /\ T \subseteq Nat /\ IsFiniteSet(S) /\ IsFiniteSet(T)
  BY DEF Finite
<1>2. \A m \in S : \A n \in T : m \in Nat /\ n \in Nat /\ m < n
  BY <1>1 DEF Below
<1>3. S \cap T = {}
  <2>1. \A m \in Nat : ~ m < m
    OBVIOUS
  <2> QED
    BY <1>2, <2>1
<1>4. Cardinality(S) \in Nat /\ Cardinality(T) \in Nat
  BY <1>1, FS_CardinalityType
<1>5. IsFiniteSet(W) /\ Cardinality(W) = Cardinality(S) + Cardinality(T)
  <2>1. IsFiniteSet(W) /\ Cardinality(W) = Cardinality(S) + Cardinality(T) - Cardinality(S \cap T)
    BY <1>1, FS_Union
  <2>2. Cardinality(S \cap T) = 0
    BY <1>3, FS_EmptySet
  <2> QED
    BY <1>4, <2>1, <2>2
<1>6. Finite(W)
  BY <1>1, <1>5 DEF Finite
<1>7. ASSUME NEW n \in S PROVE Rank(W, n) = Rank(S, n)
  <2>1. \A x \in T : ~ x <= n
    BY <1>2
  <2>2. {x \in W : x <= n} = {x \in S : x <= n}
    BY <2>1
  <2> QED
    BY <2>2 DEF Rank
<1>8. ASSUME NEW n \in T PROVE Rank(W, n) = Cardinality(S) + Rank(T, n) /\ Rank(T, n) \in Nat
  <2>1. \A x \in S : x <= n
    BY <1>2
  <2>2. PICK P : P = {x \in T : x <= n}
    OBVIOUS
  <2>3. {x \in W : x <= n} = S \cup P
    BY <2>1, <2>2
  <2>4. IsFiniteSet(P) /\ S \cap P = {}
    BY <1>1, <1>3, <2>2, FS_Subset
  <2>5. Cardinality(S \cup P) = Cardinality(S) + Cardinality(P) - Cardinality(S \cap P)
    BY <1>1, <2>4, FS_Union
  <2>6. Cardinality(S \cap P) = 0 /\ Cardinality(P) \in Nat
    BY <2>4, FS_EmptySet, FS_CardinalityType
  <2>7. Cardinality(S \cup P) = Cardinality(S) + Cardinality(P)
    BY <1>4, <2>5, <2>6
  <2> QED
    BY <2>2, <2>3, <2>6, <2>7 DEF Rank
<1>9. PICK s, t, w, a, b : /\ s = Sorted(S) /\ t = Sorted(T) /\ w = Sorted(W)
                           /\ a = Cardinality(S) /\ b = Cardinality(T)
  OBVIOUS
<1>10. /\ s \in Seq(Nat) /\ Len(s) = a /\ \A k \in 1 .. a : s[k] \in S /\ Rank(S, s[k]) = k
       /\ t \in Seq(Nat) /\ Len(t) = b /\ \A k \in 1 .. b : t[k] \in T /\ Rank(T, t[k]) = k
       /\ w \in Seq(Nat) /\ Len(w) = a + b /\ \A n \in W : w[Rank(W, n)] = n
       /\ a \in Nat /\ b \in Nat
  BY <1>5, <1>6, <1>9, SortedIs
<1>11. /\ s \o t \in Seq(Nat) /\ Len(s \o t) = a + b
       /\ \A k \in 1 .. a + b : (s \o t)[k] = IF k <= a THEN s[k] ELSE t[k - a]
  <2>1. /\ s \o t \in Seq(Nat) /\ Len(s \o t) = Len(s) + Len(t)
        /\ \A k \in 1 .. Len(s) + Len(t) :
             (s \o t)[k] = IF k <= Len(s) THEN s[k] ELSE t[k - Len(s)]
    <3>1. s \in Seq(Nat) /\ t \in Seq(Nat)
      BY <1>10
    <3> QED
      BY <3>1, ConcatProperties
  <2>2. Len(s) = a /\ Len(t) = b
    BY <1>10
  <2> QED
    BY <2>1, <2>2
<1>12. ASSUME NEW k \in 1 .. a + b PROVE w[k] = (s \o t)[k]
  <2>1. CASE k <= a
    <3>1. k \in 1 .. a /\ (s \o t)[k] = s[k]
      BY <1>10, <1>11, <2>1
    <3>2. s[k] \in W /\ Rank(W, s[k]) = k
      BY <1>7, <1>10, <3>1
    <3> QED
      BY <1>10, <3>1, <3>2
  <2>2. CASE ~ k <= a
    <3>1. PICK j : j = k - a
      OBVIOUS
    <3>2. j \in 1 .. b /\ k = a + j /\ (s \o t)[k] = t[j]
      BY <1>10, <1>11, <2>2, <3>1
    <3>3. t[j] \in T /\ Rank(T, t[j]) = j
      BY <1>10, <3>2
    <3>4. Rank(W, t[j]) = a + j
      BY <1>8, <1>9, <3>3
    <3> QED
      BY <1>10, <3>2, <3>3, <3>4
  <2> QED
    BY <2>1, <2>2
<1>13. w = s \o t
  <2>1. PICK v : v = s \o t
    OBVIOUS
  <2>2. /\ v \in Seq(Nat) /\ w \in Seq(Nat) /\ Len(w) = Len(v)
        /\ \A k \in 1 .. Len(w) : w[k] = v[k]
    BY <1>10, <1>11, <1>12, <2>1
  <2>3. w = v
    BY <2>2, SeqEqual
  <2> QED
    BY <2>1, <2>3
<1> QED
  BY <1>5, <1>6, <1>9, <1>13

\* The first of a sorted set, and the rest of it.
LEMMA SortedParts ==
  ASSUME NEW S, NEW T, NEW W, Finite(S), Finite(T), Below(S, T), W = S \cup T, S # {}
  PROVE  /\ Cardinality(S) \in 1 .. Len(Sorted(W))
         /\ SubSeq(Sorted(W), 1, Cardinality(S)) = Sorted(S)
         /\ SubSeq(Sorted(W), Cardinality(S) + 1, Len(Sorted(W))) = Sorted(T)
<1>1. PICK s, t, w, a, b : /\ s = Sorted(S) /\ t = Sorted(T) /\ w = Sorted(W)
                           /\ a = Cardinality(S) /\ b = Cardinality(T)
  OBVIOUS
<1>2. w = s \o t /\ Finite(W) /\ Cardinality(W) = a + b
  BY <1>1, SortedJoin
<1>3. /\ s \in Seq(Nat) /\ Len(s) = a /\ a \in Nat /\ t \in Seq(Nat) /\ Len(t) = b /\ b \in Nat
      /\ w \in Seq(Nat) /\ Len(w) = a + b
  BY <1>1, <1>2, SortedIs
<1>4. a # 0
  BY <1>1, FS_EmptySet DEF Finite
<1>5. SubSeq(w, 1, a) = s
  <2>1. a \in 1 .. Len(s) /\ 1 \in 1 .. Len(s)
    BY <1>3, <1>4
  <2>2. SubSeq(s \o t, 1, a) = SubSeq(s, 1, a) /\ SubSeq(s, 1, Len(s)) = s
    BY <1>3, <2>1, SubSeqOfConcat1, SubSeqFull
  <2> QED
    BY <1>2, <1>3, <2>2
<1>6. SubSeq(w, a + 1, a + b) = t
  <2>1. CASE b = 0
    <3>1. a + b < a + 1 /\ a + 1 \in Int /\ a + b \in Int
      BY <1>3, <2>1
    <3>2. SubSeq(w, a + 1, a + b) = <<>>
      BY <3>1, SubSeqEmpty
    <3>3. t = <<>>
      BY <1>3, <2>1, EmptySeq
    <3> QED
      BY <3>2, <3>3
  <2>2. CASE b # 0
    <3>1. PICK m, n : m = a + 1 /\ n = a + b
      OBVIOUS
    <3>2. /\ m \in Len(s) + 1 .. Len(s) + Len(t) /\ n \in Len(s) + 1 .. Len(s) + Len(t)
          /\ m - Len(s) = 1 /\ n - Len(s) = Len(t)
      BY <1>3, <2>2, <3>1
    <3>3. s \in Seq(Nat) /\ t \in Seq(Nat)
      BY <1>3
    <3>4. SubSeq(s \o t, m, n) = SubSeq(t, m - Len(s), n - Len(s))
      BY <3>2, <3>3, SubSeqOfConcat2
    <3>5. SubSeq(t, 1, Len(t)) = t
      BY <3>3, SubSeqFull
    <3> QED
      BY <1>2, <3>1, <3>2, <3>4, <3>5
  <2> QED
    BY <2>1, <2>2
<1>7. a \in 1 .. Len(w)
  BY <1>3, <1>4
<1> QED
  BY <1>1, <1>3, <1>5, <1>6, <1>7

LEMMA SortedOne ==
  ASSUME NEW x \in Nat
  PROVE  Finite({x}) /\ Sorted({x}) = <<x>> /\ Finite({}) /\ Sorted({}) = <<>>
<1>1. Finite({x}) /\ Cardinality({x}) = 1 /\ Finite({}) /\ Cardinality({}) = 0
  BY FS_Singleton, FS_EmptySet DEF Finite
<1>2. PICK s : s = Sorted({x})
  OBVIOUS
<1>3. s \in Seq(Nat) /\ Len(s) = 1 /\ s[1] = x
  <2>1. PICK S, C : S = {x} /\ C = Cardinality(S)
    OBVIOUS
  <2>2. Finite(S) /\ s = Sorted(S) /\ C = 1
    BY <1>1, <1>2, <2>1
  <2>3. s \in Seq(Nat) /\ Len(s) = C /\ \A k \in 1 .. C : s[k] \in S
    BY <2>1, <2>2, SortedIs
  <2>4. s[1] \in S
    BY <2>2, <2>3
  <2> QED
    BY <2>1, <2>2, <2>3, <2>4
<1>4. s = <<x>>
  BY <1>3
<1>5. Sorted({}) \in Seq(Nat) /\ Len(Sorted({})) = 0
  BY <1>1, SortedIs
<1>6. Sorted({}) = <<>>
  BY <1>5, EmptySeq
<1> QED
  BY <1>1, <1>2, <1>4, <1>6

\* Each element that was not there before is greater than all before it.
FirstsAscend(s) == \A i, j \in DOMAIN s : i < j /\ InOrder(s, s[j], j) => s[i] < s[j]

LEMMA RangeFinite ==
  ASSUME NEW S, NEW s \in Seq(S)
  PROVE  IsFiniteSet(Range(s))
<1>1. DOMAIN s = 1 .. Len(s) /\ Len(s) \in Nat /\ IsFiniteSet(1 .. Len(s))
  BY LenProperties, FS_Interval
<1>2. PICK D : D = DOMAIN s
  OBVIOUS
<1>3. s \in Surjection(D, Range(s))
  BY <1>1, <1>2, LenProperties DEF Surjection, Range
<1> QED
  BY <1>1, <1>2, <1>3, FS_Surjection

\* The first place of an element.
LEMMA FirstPlace ==
  ASSUME NEW s \in Seq(Nat), NEW n \in Range(s)
  PROVE  \E i \in DOMAIN s : InOrder(s, n, i)
<1>1. PICK P : P = {i \in DOMAIN s : s[i] = n}
  OBVIOUS
<1>2. DOMAIN s = 1 .. Len(s) /\ Len(s) \in Nat
  BY LenProperties
<1>3. Finite(P) /\ P # {}
  <2>1. P # {}
    BY <1>1 DEF Range
  <2>2. PICK D : D = 1 .. Len(s)
    OBVIOUS
  <2>3. P \in SUBSET D /\ D \subseteq Nat
    BY <1>1, <1>2, <2>2
  <2>4. IsFiniteSet(D)
    BY <1>2, <2>2, FS_Interval
  <2>5. IsFiniteSet(P)
    BY <2>3, <2>4, FS_Subset
  <2> QED
    BY <2>1, <2>3, <2>5 DEF Finite
<1>4. /\ Cardinality(P) \in Nat /\ Cardinality(P) # 0 /\ P \subseteq Nat
      /\ \A j \in P : Rank(P, j) \in 1 .. Cardinality(P)
      /\ \A i, j \in P : i < j => Rank(P, i) < Rank(P, j)
  BY <1>3, RankIn, FS_EmptySet DEF Finite
<1>5. PICK i \in P : Rank(P, i) = 1
  <2>1. 1 \in 1 .. Cardinality(P)
    BY <1>4
  <2> QED
    BY <1>3, <2>1, Ranked
<1>6. \A j \in P : i <= j
  <2>1. \A j \in P : ~ Rank(P, j) < 1
    BY <1>4
  <2>2. \A j \in P : ~ j < i
    BY <1>4, <1>5, <2>1
  <2> QED
    BY <1>4, <2>2
<1>7. ASSUME NEW j \in 1 .. i - 1 PROVE s[j] # n
  <2>1. i \in 1 .. Len(s)
    BY <1>1, <1>2
  <2>2. j \in 1 .. Len(s) /\ ~ i <= j
    BY <1>2, <2>1
  <2> QED
    BY <1>1, <1>2, <1>6, <2>2
<1> QED
  BY <1>1, <1>7 DEF InOrder

\* Taken once, the elements are sorted when each new one is greater than all before.
LEMMA OnceIsSorted ==
  ASSUME NEW s \in Seq(Nat), FirstsAscend(s)
  PROVE  Finite(Range(s)) /\ Once(s) = Sorted(Range(s))
<1>1. PICK R : R = Range(s)
  OBVIOUS
<1>2. /\ DOMAIN s = 1 .. Len(s) /\ Len(s) \in Nat /\ R \subseteq Nat
      /\ \A i \in DOMAIN s : s[i] \in R
  BY <1>1, LenProperties, RangeOfSeq DEF Range
<1>3. Finite(R)
  BY <1>1, <1>2, RangeFinite DEF Finite
<1>4. ASSUME NEW i \in DOMAIN s, NEW n \in R, InOrder(s, n, i)
      PROVE  {s[j] : j \in 1 .. i} = {m \in R : m <= n}
  <2>1. s[i] = n /\ i \in 1 .. Len(s) /\ n \in Nat
    BY <1>2, <1>4 DEF InOrder
  <2>2. \A j \in 1 .. i : j \in DOMAIN s /\ (j = i \/ j < i)
    BY <1>2, <2>1
  <2>3. \A j \in 1 .. i : s[j] \in R /\ s[j] <= n
    <3>1. \A j \in DOMAIN s : j < i => s[j] < n
      BY <1>4, <2>1 DEF FirstsAscend
    <3>2. \A j \in 1 .. i : s[j] = n \/ s[j] < n
      BY <2>1, <2>2, <3>1
    <3>3. \A j \in 1 .. i : s[j] \in R /\ s[j] \in Nat
      BY <1>2, <2>2
    <3>4. \A m \in Nat : m = n \/ m < n => m <= n
      BY <2>1
    <3> QED
      BY <3>2, <3>3, <3>4
  <2>4. ASSUME NEW m \in R, m <= n PROVE m \in {s[j] : j \in 1 .. i}
    <3>1. PICK k \in DOMAIN s : InOrder(s, m, k)
      BY <1>1, FirstPlace
    <3>2. s[k] = m /\ k \in 1 .. Len(s) /\ m \in Nat
      BY <1>2, <3>1 DEF InOrder
    <3>3. i < k => n < m
      BY <2>1, <3>1, <3>2 DEF FirstsAscend
    <3>4. k \in 1 .. i
      BY <1>2, <2>1, <2>4, <3>2, <3>3
    <3> QED
      BY <3>2, <3>4
  <2> QED
    BY <2>3, <2>4
<1>5. ASSUME NEW n \in R, NEW k
      PROVE  IsNth(s, n, k) <=> Rank(R, n) = k
  <2>1. PICK i \in DOMAIN s : InOrder(s, n, i)
    BY <1>1, FirstPlace
  <2>2. \A j \in DOMAIN s : InOrder(s, n, j) => Cardinality({s[l] : l \in 1 .. j}) = Rank(R, n)
    BY <1>4 DEF Rank
  <2> QED
    BY <2>1, <2>2 DEF IsNth
<1>6. PICK C, f, g : C = 1 .. Cardinality(R) /\ f = Once(s) /\ g = Sorted(R)
  OBVIOUS
<1>7. f = [k \in C |-> f[k]] /\ g = [k \in C |-> g[k]]
  <2>1. f = [k \in C |-> f[k]]
    BY <1>1, <1>6 DEF Once
  <2>2. g = [k \in C |-> g[k]]
    BY <1>6 DEF Sorted
  <2> QED
    BY <2>1, <2>2
<1>8. ASSUME NEW k \in C PROVE f[k] = g[k]
  <2>1. /\ \E n \in R : Rank(R, n) = k
        /\ \A m, n \in R : Rank(R, m) = Rank(R, n) => m = n
    BY <1>3, <1>6, Ranked
  <2>2. f[k] = CHOOSE n \in R : IsNth(s, n, k)
    BY <1>1, <1>6 DEF Once
  <2>3. \E n \in R : IsNth(s, n, k)
    BY <1>5, <2>1
  <2>4. f[k] \in R /\ IsNth(s, f[k], k)
    BY <2>2, <2>3
  <2>5. f[k] \in R /\ Rank(R, f[k]) = k
    BY <1>5, <2>4
  <2>6. g[k] \in R /\ Rank(R, g[k]) = k
    BY <1>3, <1>6, SortedIs
  <2> QED
    BY <2>1, <2>5, <2>6
<1>9. f = g
  BY <1>7, <1>8
<1> QED
  BY <1>1, <1>3, <1>6, <1>9

\* What is put behind such a sequence.
Ascends(t) == \A i, j \in DOMAIN t : i < j => t[i] < t[j]
LEMMA JoinAscends ==
  ASSUME NEW s \in Seq(Nat), NEW t \in Seq(Nat), NEW r, r = s \o t,
         FirstsAscend(s), Ascends(t), Below(Range(s), Range(t) \ Range(s))
  PROVE  FirstsAscend(r)
<1>1. PICK a, b : a = Len(s) /\ b = Len(t)
  OBVIOUS
<1>2. /\ a \in Nat /\ b \in Nat /\ DOMAIN s = 1 .. a /\ DOMAIN t = 1 .. b /\ DOMAIN r = 1 .. a + b
      /\ \A i \in 1 .. a + b : r[i] = IF i <= a THEN s[i] ELSE t[i - a]
  <2>1. /\ r \in Seq(Nat) /\ Len(r) = Len(s) + Len(t)
        /\ \A i \in 1 .. Len(s) + Len(t) : r[i] = IF i <= Len(s) THEN s[i] ELSE t[i - Len(s)]
    BY ConcatProperties
  <2> QED
    BY <1>1, <2>1, LenProperties
<1>3. /\ \A i \in 1 .. a : i \in 1 .. a + b /\ i \in DOMAIN s /\ r[i] = s[i]
      /\ \A i \in 1 .. a + b : i \in 1 .. a \/ (i - a \in DOMAIN t /\ r[i] = t[i - a] /\ a < i)
  <2>1. \A i \in 1 .. a : i \in 1 .. a + b /\ i <= a
    BY <1>2
  <2>2. \A i \in 1 .. a + b : i \in 1 .. a \/ (i - a \in 1 .. b /\ ~ i <= a /\ a < i)
    BY <1>2
  <2> QED
    BY <1>2, <2>1, <2>2
<1>4. SUFFICES ASSUME NEW i \in 1 .. a + b, NEW j \in 1 .. a + b, i < j, InOrder(r, r[j], j)
               PROVE  r[i] < r[j]
  BY <1>2 DEF FirstsAscend
<1>5. \A k \in 1 .. a + b : k < j => r[k] # r[j]
  <2>1. \A k \in 1 .. a + b : k < j => k \in 1 .. j - 1
    BY <1>2
  <2> QED
    BY <1>4, <2>1 DEF InOrder
<1>6. CASE j \in 1 .. a
  <2>1. i \in 1 .. a /\ \A k \in 1 .. j - 1 : k \in 1 .. a /\ k < j
    BY <1>2, <1>4, <1>6
  <2>2. InOrder(s, s[j], j)
    BY <1>3, <1>5, <1>6, <2>1 DEF InOrder
  <2>3. s[i] < s[j]
    BY <1>2, <1>4, <1>6, <2>1, <2>2 DEF FirstsAscend
  <2> QED
    BY <1>3, <1>6, <2>1, <2>3
<1>7. CASE j \notin 1 .. a
  <2>1. j - a \in DOMAIN t /\ r[j] = t[j - a] /\ a < j
    BY <1>3, <1>7
  <2>2. \A k \in 1 .. a : k < j
    BY <1>2, <2>1
  <2>3. r[j] \in Range(t) \ Range(s)
    BY <1>2, <1>3, <1>5, <2>1, <2>2 DEF Range
  <2>4. CASE i \in 1 .. a
    BY <1>2, <1>3, <2>3, <2>4 DEF Below, Range
  <2>5. CASE i \notin 1 .. a
    <3>1. i - a \in DOMAIN t /\ r[i] = t[i - a] /\ a < i
      BY <1>3, <2>5
    <3>2. i - a < j - a
      BY <1>2, <1>4
    <3> QED
      BY <2>1, <3>1, <3>2 DEF Ascends
  <2> QED
    BY <2>4, <2>5
<1> QED
  BY <1>6, <1>7

\* The rows that wait are settled from the lowest on: those of the batch are in
\* ascending order and come before those of the queue, which are in ascending order
\* too, and no row in the table is above one that waits.
BatchAscends == \A c \in Chains : Ascends(batch[c])
BatchBeforeQueue ==
  \A c \in Chains : \A n \in Range(batch[c]) : \A x \in Range(queue) :
    x # None /\ x.chain = c => n < x.n
QueueAscends ==
  \A i, j \in DOMAIN queue :
    i < j /\ queue[i] # None /\ queue[j] # None /\ queue[i].chain = queue[j].chain
      => queue[i].n < queue[j].n
TableBeforeWaiting ==
  \A c \in Chains : FirstsAscend(table[c]) /\ Below(Range(table[c]), Waiting(c))
OrderInv == BatchAscends /\ BatchBeforeQueue /\ QueueAscends /\ TableBeforeWaiting

\* Which rows wait.
WaitsIn(c) ==
  /\ Finite(Waiting(c))
  /\ \A n \in Nat : n \in Waiting(c) <=>
       n \notin Range(table[c]) /\ (n \in Range(batch[c]) \/ Row(c, n) \in Range(queue))
AllWait == \A c \in Chains : WaitsIn(c)

LEMMA WaitingNow == IInv /\ SettleInv => AllWait
<1> SUFFICES ASSUME IInv, SettleInv, NEW c \in Chains PROVE WaitsIn(c)
  BY DEF AllWait
<1>1. logged[c] \in Nat /\ queue \in Seq(Rows \cup {None})
  BY SettleTypes
<1>2. Finite(Waiting(c))
  <2>1. PICK l, I, W : l = logged[c] /\ I = 0 .. l /\ W = Waiting(c)
    OBVIOUS
  <2>2. IsFiniteSet(I) /\ I \subseteq Nat
    <3>1. 0 \in Int /\ l \in Int /\ l \in Nat
      BY <1>1, <2>1
    <3>2. IsFiniteSet(0 .. l)
      BY <3>1, FS_Interval
    <3> QED
      BY <2>1, <3>1, <3>2
  <2>3. W \in SUBSET I
    BY <2>1 DEF Waiting
  <2>4. IsFiniteSet(W)
    BY <2>2, <2>3, FS_Subset
  <2> QED
    BY <2>1, <2>2, <2>3, <2>4 DEF Finite
<1>3. ASSUME NEW n \in Nat
      PROVE  n \in Waiting(c) <=>
               n \notin Range(table[c]) /\ (n \in Range(batch[c]) \/ Row(c, n) \in Range(queue))
  <2>1. n \in Range(batch[c]) => n <= logged[c]
    BY DEF SettleInv, RowsKnown
  <2>2. Row(c, n) \in Range(queue) => n <= logged[c]
    <3>1. Row(c, n) # None
      BY <1>3, ChainsAssumption DEF Row, Rows
    <3>2. Row(c, n).chain = c /\ Row(c, n).n = n
      BY DEF Row
    <3> QED
      BY <3>1, <3>2 DEF SettleInv, QueueNew
  <2>3. n <= logged[c] => n \in 0 .. logged[c]
    BY <1>1, <1>3
  <2>4. /\ Held(Row(c, n)) <=> n \in Range(batch[c])
        /\ Kept(Row(c, n)) <=> n \in Range(table[c])
    BY Places
  <2> QED
    BY <2>1, <2>2, <2>3, <2>4 DEF Waiting, Queued
<1> QED
  BY <1>2, <1>3 DEF WaitsIn

LEMMA WaitingNext == IInv' /\ SettleInv' => AllWait'
  BY WaitingNow, PTL

\* Nothing is settled by a step after which the same rows wait.
Promised == OrderInv' /\ [Promise!Next]_(Promise!promise)

LEMMA PromiseStays ==
  ASSUME OrderInv, UNCHANGED <<logged, queue, batch, table>>, (stopping = "done") = (stopping' = "done")
  PROVE  Promised
<1>1. \A c \in Chains : Waiting(c)' = Waiting(c)
  BY DEF Waiting, Queued, Held, Kept, HeldOf
<1>2. OrderInv'
  BY <1>1 DEF OrderInv, BatchAscends, BatchBeforeQueue, QueueAscends, TableBeforeWaiting
<1>3. UNCHANGED Promise!promise
  BY <1>1 DEF Promise!promise
<1> QED
  BY <1>2, <1>3 DEF Promised

\* The lowest of those that wait are settled: they are kept, or given up.
LEMMA Settles ==
  ASSUME NEW c \in Chains, stopping # "done", UNCHANGED <<logged, stopping>>,
         NEW S, NEW W, NEW T, NEW R, W = Waiting(c), T = Waiting(c)', R = Range(table[c]),
         Finite(S), Finite(T), Below(S, T), W = S \cup T, Below(R, W),
         table \in [Chains -> Seq(Nat)], table' \in [Chains -> Seq(Nat)],
         \A d \in Chains : FirstsAscend(table[d]) /\ FirstsAscend(table'[d]),
         \A d \in Chains : d # c => Waiting(d)' = Waiting(d) /\ table'[d] = table[d],
         table'[c] = table[c] \/ Range(table'[c]) = R \cup S
  PROVE  [Promise!Next]_(Promise!promise)
<1>1. PICK w, w1, k, k1 :
        /\ w = [d \in Chains |-> Sorted(Waiting(d))] /\ w1 = [d \in Chains |-> Sorted(Waiting(d)')]
        /\ k = [d \in Chains |-> Once(table[d])] /\ k1 = [d \in Chains |-> Once(table'[d])]
  OBVIOUS
<1>2. /\ w[c] = Sorted(W) /\ w1[c] = Sorted(T)
      /\ \A d \in Chains : d # c => w1[d] = w[d] /\ k1[d] = k[d]
  BY <1>1
<1>3. /\ Finite(Range(table[c])) /\ k[c] = Sorted(R)
      /\ k1[c] = Sorted(Range(table'[c]))
  <2>1. PICK s, t : s = table[c] /\ t = table'[c]
    OBVIOUS
  <2>2. s \in Seq(Nat) /\ t \in Seq(Nat) /\ FirstsAscend(s) /\ FirstsAscend(t)
    BY <2>1
  <2>3. Finite(Range(s)) /\ Once(s) = Sorted(Range(s)) /\ Once(t) = Sorted(Range(t))
    BY <2>2, OnceIsSorted
  <2> QED
    BY <1>1, <2>1, <2>3
<1>4. CASE S = {}
  <2>1. W = T /\ Range(table'[c]) = R
    BY <1>4
  <2>2. w1[c] = w[c] /\ k1[c] = k[c]
    BY <1>2, <1>3, <2>1
  <2>3. w1 = w /\ k1 = k
    BY <1>1, <1>2, <2>2
  <2>4. UNCHANGED Promise!promise
    BY <1>1, <2>3 DEF Promise!promise
  <2> QED
    BY <2>4
<1>5. CASE S # {}
  <2>1. PICK n : n = Cardinality(S)
    OBVIOUS
  <2>2. /\ n \in 1 .. Len(w[c]) /\ SubSeq(w[c], 1, n) = Sorted(S)
        /\ SubSeq(w[c], n + 1, Len(w[c])) = Sorted(T)
    <3>1. /\ Cardinality(S) \in 1 .. Len(Sorted(W))
          /\ SubSeq(Sorted(W), 1, Cardinality(S)) = Sorted(S)
          /\ SubSeq(Sorted(W), Cardinality(S) + 1, Len(Sorted(W))) = Sorted(T)
      BY <1>5, SortedParts
    <3> QED
      BY <1>2, <2>1, <3>1
  <2>3. w1 = [w EXCEPT ![c] = SubSeq(w[c], n + 1, Len(w[c]))]
    BY <1>1, <1>2, <2>2
  <2>4. CASE table'[c] = table[c]
    <3>1. k1 = k
      BY <1>1, <1>2, <2>4
    <3>2. Promise!GiveUp(c, n)
      BY <1>1, <2>3, <3>1 DEF Promise!GiveUp, Promise!Rest
    <3> QED
      BY <1>1, <2>2, <3>2 DEF Promise!Next
  <2>5. CASE Range(table'[c]) = R \cup S
    <3>1. Below(R, S)
      BY DEF Below
    <3>2. k1[c] = k[c] \o SubSeq(w[c], 1, n)
      <4>1. PICK V : V = R \cup S
        OBVIOUS
      <4>2. Finite(R)
        BY <1>3
      <4>3. Sorted(V) = Sorted(R) \o Sorted(S)
        BY <3>1, <4>1, <4>2, SortedJoin
      <4> QED
        BY <1>3, <2>2, <2>5, <4>1, <4>3
    <3>3. k1 = [k EXCEPT ![c] = k[c] \o SubSeq(w[c], 1, n)]
      BY <1>1, <1>2, <3>2
    <3>4. Promise!Keep(c, n)
      BY <1>1, <2>3, <3>3 DEF Promise!Keep, Promise!Rest
    <3> QED
      BY <1>1, <2>2, <3>4 DEF Promise!Next
  <2> QED
    BY <2>4, <2>5
<1> QED
  BY <1>4, <1>5

\* A step of the flush that is done with the rows G of the chain's part: it has
\* committed them, or they leave the batch without.
Commits(c, G) ==
  \E t \in Seq(Nat) : table'[c] = table[c] \o t /\ Ascends(t) /\ Range(t) = G
Leaves(c, G) == table'[c] = table[c] /\ \A n \in G : n \notin Range(batch'[c])
LEMMA FlushSettles ==
  ASSUME IInv, SettleInv, IInv', SettleInv', OrderInv, NEW c \in Chains, stopping # "done",
         UNCHANGED <<logged, queue, stopping>>,
         \A d \in Chains : d # c => batch'[d] = batch[d] /\ table'[d] = table[d],
         NEW G, Range(batch[c]) = G \cup Range(batch'[c]),
         Below(G, Range(batch'[c]) \ G), Ascends(batch'[c]),
         Commits(c, G) \/ Leaves(c, G)
  PROVE  Promised
<1>1. /\ batch \in [Chains -> Seq(Nat)] /\ table \in [Chains -> Seq(Nat)]
      /\ queue \in Seq(Rows \cup {None}) /\ AllWait
  BY SettleTypes, WaitingNow
<1>2. table' \in [Chains -> Seq(Nat)] /\ batch' \in [Chains -> Seq(Nat)] /\ AllWait'
  BY WaitingNext DEF IInv, TypeOK
<1>3. PICK W, T, R, B, Q, S :
        /\ W = Waiting(c) /\ T = Waiting(c)' /\ R = Range(table[c]) /\ B = Range(batch'[c])
        /\ Q = {n \in Nat : Row(c, n) \in Range(queue)} /\ S = G \ R
  OBVIOUS
<1>4. /\ Finite(W) /\ Finite(T) /\ R \subseteq Nat /\ B \subseteq Nat /\ G \subseteq Nat
      /\ \A n \in Nat : n \in W <=> n \notin R /\ (n \in G \/ n \in B \/ n \in Q)
      /\ \A n \in Nat : n \in T <=> n \notin Range(table'[c]) /\ (n \in B \/ n \in Q)
  <2>1. Range(table[c]) \subseteq Nat /\ Range(batch[c]) \subseteq Nat
    BY <1>1, RangeOfSeq
  <2>2. WaitsIn(c) /\ WaitsIn(c)'
    BY <1>1, <1>2 DEF AllWait
  <2>3. /\ Finite(W) /\ \A n \in Nat : n \in W <=> n \notin R /\ (n \in G \/ n \in B \/ n \in Q)
    BY <1>3, <2>2 DEF WaitsIn
  <2>4. /\ Finite(T) /\ \A n \in Nat : n \in T <=> n \notin Range(table'[c]) /\ (n \in B \/ n \in Q)
    BY <1>3, <2>2 DEF WaitsIn
  <2> QED
    BY <1>3, <2>1, <2>3, <2>4
<1>5. Range(table'[c]) = R \cup G \/ (table'[c] = table[c] /\ G \cap B = {})
  <2>1. ASSUME Commits(c, G) PROVE Range(table'[c]) = R \cup G
    <3>1. PICK t \in Seq(Nat) : table'[c] = table[c] \o t /\ Range(t) = G
      BY <2>1 DEF Commits
    <3>2. PICK s : s = table[c] /\ s \in Seq(Nat)
      BY <1>1
    <3>3. Range(s \o t) = Range(s) \cup Range(t)
      BY <3>2, RangeConcatenation
    <3> QED
      BY <1>3, <3>1, <3>2, <3>3
  <2> QED
    BY <1>3, <2>1 DEF Leaves
<1>6. \A n \in G : \A m \in Q : n < m
  <2> SUFFICES ASSUME NEW n \in G, NEW m \in Q PROVE n < m
    OBVIOUS
  <2>1. n \in Range(batch[c]) /\ Row(c, m) \in Range(queue) /\ m \in Nat
    BY <1>3
  <2>2. Row(c, m) # None /\ Row(c, m).chain = c /\ Row(c, m).n = m
    BY <2>1, ChainsAssumption DEF Row, Rows
  <2> QED
    BY <2>1, <2>2 DEF OrderInv, BatchBeforeQueue
<1>7. G \cap Q = {}
  <2>1. \A n \in Nat : ~ n < n
    OBVIOUS
  <2> QED
    BY <1>4, <1>6, <2>1
<1>8. W = S \cup T /\ Finite(S)
  <2>1. W = S \cup T
    <3>1. W \subseteq Nat /\ T \subseteq Nat /\ S \subseteq Nat
      BY <1>3, <1>4 DEF Finite
    <3>2. \A n \in Nat : n \in W <=> n \in S \/ n \in T
      <4>1. CASE Range(table'[c]) = R \cup G
        BY <1>3, <1>4, <4>1
      <4>2. CASE table'[c] = table[c] /\ G \cap B = {}
        BY <1>3, <1>4, <4>2
      <4> QED
        BY <1>5, <4>1, <4>2
    <3> QED
      BY <3>1, <3>2
  <2> QED
    BY <1>4, <2>1, FS_Subset DEF Finite
<1>9. Below(S, T) /\ Below(R, W)
  <2>1. Below(R, W)
    BY <1>3 DEF OrderInv, TableBeforeWaiting
  <2>2. ASSUME NEW n \in S, NEW m \in T PROVE n < m
    <3>1. m \in Nat /\ n \in G
      BY <1>3, <1>4 DEF Finite
    <3>2. m \in Q \/ m \in B \ G
      BY <1>4, <1>5, <3>1
    <3> QED
      BY <1>3, <1>6, <3>1, <3>2 DEF Below
  <2> QED
    BY <2>1, <2>2 DEF Below
<1>10. \A d \in Chains : d # c => Waiting(d)' = Waiting(d)
  BY DEF Waiting, Queued, Held, Kept, HeldOf, Row
<1>11. \A d \in Chains : FirstsAscend(table[d]) /\ FirstsAscend(table'[d])
  <2>1. \A d \in Chains : FirstsAscend(table[d])
    BY DEF OrderInv, TableBeforeWaiting
  <2>2. FirstsAscend(table'[c])
    <3>1. CASE Commits(c, G)
      <4>1. PICK t \in Seq(Nat) : table'[c] = table[c] \o t /\ Ascends(t) /\ Range(t) = G
        BY <3>1 DEF Commits
      <4>2. PICK s : s = table[c] /\ s \in Seq(Nat) /\ FirstsAscend(s) /\ Range(s) = R
        BY <1>1, <1>3, <2>1
      <4>3. Below(Range(s), Range(t) \ Range(s))
        BY <1>3, <1>8, <1>9, <4>1, <4>2 DEF Below
      <4>4. FirstsAscend(s \o t)
        BY <4>1, <4>2, <4>3, JoinAscends
      <4> QED
        BY <4>1, <4>2, <4>4
    <3>2. CASE Leaves(c, G)
      BY <2>1, <3>2 DEF Leaves
    <3> QED
      BY <3>1, <3>2
  <2>3. \A d \in Chains : d # c => FirstsAscend(table'[d])
    BY <2>1
  <2> QED
    BY <2>1, <2>2, <2>3
<1>12. OrderInv'
  <2>1. BatchAscends' /\ QueueAscends'
    <3>1. \A d \in Chains : Ascends(batch'[d])
      BY DEF OrderInv, BatchAscends
    <3> QED
      BY <3>1 DEF OrderInv, BatchAscends, QueueAscends
  <2>2. BatchBeforeQueue'
    <3>1. \A d \in Chains : Range(batch'[d]) \subseteq Range(batch[d])
      OBVIOUS
    <3> QED
      BY <3>1 DEF OrderInv, BatchBeforeQueue
  <2>3. TableBeforeWaiting'
    <3>1. ASSUME NEW d \in Chains PROVE Below(Range(table'[d]), Waiting(d)')
      <4>1. CASE d # c
        BY <1>10, <4>1 DEF OrderInv, TableBeforeWaiting
      <4>2. CASE d = c
        <5>1. Range(table'[c]) \subseteq R \cup S
          BY <1>3, <1>5
        <5> QED
          BY <1>3, <1>8, <1>9, <4>2, <5>1 DEF Below
      <4> QED
        BY <4>1, <4>2
    <3> QED
      BY <1>11, <3>1 DEF TableBeforeWaiting, Below
  <2> QED
    BY <2>1, <2>2, <2>3 DEF OrderInv
<1>13. table'[c] = table[c] \/ Range(table'[c]) = R \cup S
  BY <1>3, <1>5
<1>14. [Promise!Next]_(Promise!promise)
  BY <1>1, <1>2, <1>3, <1>4, <1>8, <1>9, <1>10, <1>11, <1>13, Settles
<1> QED
  BY <1>12, <1>14 DEF Promised

\* Steps that move rows from one place in memory to another.
LEMMA SameWait ==
  ASSUME AllWait, AllWait', OrderInv, table' = table,
         \A c \in Chains : \A n \in Nat :
           n \in Range(batch'[c]) \/ Row(c, n) \in Range(queue')
             <=> n \in Range(batch[c]) \/ Row(c, n) \in Range(queue)
  PROVE  TableBeforeWaiting' /\ \A c \in Chains : Waiting(c)' = Waiting(c)
<1>1. ASSUME NEW c \in Chains PROVE Waiting(c)' = Waiting(c)
  <2>1. WaitsIn(c) /\ WaitsIn(c)'
    BY DEF AllWait
  <2>2. Waiting(c) \subseteq Nat /\ Waiting(c)' \subseteq Nat
    BY <2>1 DEF WaitsIn, Finite
  <2>3. \A n \in Nat : n \in Waiting(c)' <=> n \in Waiting(c)
    BY <2>1 DEF WaitsIn
  <2> QED
    BY <2>2, <2>3
<1>2. TableBeforeWaiting'
  BY <1>1 DEF OrderInv, TableBeforeWaiting
<1> QED
  BY <1>1, <1>2

LEMMA MovesPromised ==
  ASSUME IInv, SettleInv, IInv', SettleInv', OrderInv,
         UNCHANGED <<logged, table>>, (stopping = "done") = (stopping' = "done"),
         BatchAscends', BatchBeforeQueue', QueueAscends',
         \A c \in Chains : \A n \in Nat :
           n \in Range(batch'[c]) \/ Row(c, n) \in Range(queue')
             <=> n \in Range(batch[c]) \/ Row(c, n) \in Range(queue)
  PROVE  Promised
<1>1. TableBeforeWaiting' /\ \A c \in Chains : Waiting(c)' = Waiting(c)
  BY WaitingNow, WaitingNext, SameWait
<1>2. UNCHANGED Promise!promise
  BY <1>1 DEF Promise!promise
<1> QED
  BY <1>1, <1>2 DEF Promised, OrderInv

\* A row's number is above all that its chain had before.
LEMMA LogSharePromised ==
  ASSUME IInv, SettleInv, IInv', SettleInv', OrderInv, NEW c \in Chains, LogShare(c)
  PROVE  Promised
<1>1. PICK x, r : x = logged[c] + 1 /\ r = Row(c, x)
  OBVIOUS
<1>2. /\ logged \in [Chains -> Nat] /\ queue \in Seq(Rows \cup {None}) /\ x \in Nat
      /\ batch \in [Chains -> Seq(Nat)] /\ table \in [Chains -> Seq(Nat)]
      /\ AllWait /\ AllWait'
  <2>1. /\ logged \in [Chains -> Nat] /\ queue \in Seq(Rows \cup {None})
        /\ batch \in [Chains -> Seq(Nat)] /\ table \in [Chains -> Seq(Nat)]
    BY SettleTypes
  <2>2. x \in Nat
    BY <1>1, <2>1
  <2>3. AllWait /\ AllWait'
    BY WaitingNow, WaitingNext
  <2> QED
    BY <2>1, <2>2, <2>3
<1>3. /\ stopping # "done" /\ logged[c] < MaxRows /\ logged' = [logged EXCEPT ![c] = @ + 1]
      /\ UNCHANGED <<stopping, batch, table>>
      /\ queue' = queue \/ queue' = Append(queue, r)
  BY <1>1 DEF LogShare, flush, database
<1>4. /\ r \in Rows /\ r # None /\ r.chain = c /\ r.n = x
      /\ \A d, n : Row(d, n) = r <=> d = c /\ n = x
  BY <1>1, <1>2, ChainsAssumption DEF Row, Rows
<1>5. \A n \in Nat : n <= logged[c] => n < x
  BY <1>1, <1>2
<1>6. CASE queue' = queue
  <2>1. TableBeforeWaiting' /\ \A d \in Chains : Waiting(d)' = Waiting(d)
    BY <1>2, <1>3, <1>6, SameWait
  <2>2. OrderInv'
    BY <1>3, <1>6, <2>1 DEF OrderInv, BatchAscends, BatchBeforeQueue, QueueAscends
  <2>3. Promise!Drop(c)
    BY <1>3, <2>1 DEF Promise!Drop
  <2> QED
    BY <2>2, <2>3 DEF Promised, Promise!Next
<1>7. CASE queue' = Append(queue, r)
  <2>1. /\ Range(queue') = Range(queue) \cup {r}
        /\ DOMAIN queue' = 1 .. Len(queue) + 1 /\ queue'[Len(queue) + 1] = r
        /\ \A i \in DOMAIN queue : queue'[i] = queue[i]
        /\ DOMAIN queue = 1 .. Len(queue) /\ Len(queue) \in Nat
    <3>1. r \in Rows \cup {None}
      BY <1>4
    <3> QED
      BY <1>2, <1>7, <3>1, AppendRange, LenProperties
  <2>2. BatchAscends' /\ BatchBeforeQueue'
    <3>1. Range(batch[c]) \subseteq Nat
      BY <1>2, RangeOfSeq
    <3>2. \A n \in Range(batch[c]) : n < x
      BY <1>5, <3>1 DEF SettleInv, RowsKnown
    <3> QED
      BY <1>3, <1>4, <2>1, <3>2 DEF OrderInv, BatchAscends, BatchBeforeQueue
  <2>3. QueueAscends'
    <3>1. ASSUME NEW i \in DOMAIN queue, queue[i] # None, queue[i].chain = c
          PROVE  queue[i].n < x
      <4>1. queue[i] \in Range(queue) /\ queue[i] \in Rows
        BY <1>2, <3>1, RangeOfSeq DEF Range
      <4>2. queue[i].n <= logged[c] /\ queue[i].n \in Nat
        BY <3>1, <4>1 DEF SettleInv, QueueNew, Rows
      <4> QED
        BY <1>5, <4>2
    <3>2. \A i \in DOMAIN queue' : i \in DOMAIN queue \/ (queue'[i] = r /\ \A j \in DOMAIN queue' : ~ i < j)
      BY <2>1
    <3> SUFFICES ASSUME NEW i \in DOMAIN queue', NEW j \in DOMAIN queue', i < j,
                        queue'[i] # None, queue'[j] # None, queue'[i].chain = queue'[j].chain
                 PROVE  queue'[i].n < queue'[j].n
      BY DEF QueueAscends
    <3>3. i \in DOMAIN queue /\ queue'[i] = queue[i]
      BY <2>1, <3>2
    <3>4. CASE j \in DOMAIN queue
      BY <2>1, <3>3, <3>4 DEF OrderInv, QueueAscends
    <3>5. CASE queue'[j] = r
      BY <1>4, <3>1, <3>3, <3>5
    <3> QED
      BY <3>2, <3>4, <3>5
  <2>4. PICK W : W = Waiting(c)
    OBVIOUS
  <2>5. /\ Finite(W) /\ W \subseteq Nat /\ x \notin Range(table[c]) /\ Below(W, {x})
        /\ Below(Range(table[c]), {x})
    <3>1. Finite(W) /\ W \subseteq Nat
      BY <1>2, <2>4 DEF AllWait, WaitsIn, Finite
    <3>2. \A n \in W : n <= logged[c]
      BY <1>2, <2>4 DEF Waiting
    <3>3. \A n \in Range(table[c]) : n \in Nat /\ n <= logged[c]
      BY <1>2, RangeOfSeq DEF SettleInv, RowsKnown
    <3>4. ~ x < x
      BY <1>2
    <3> QED
      BY <1>5, <3>1, <3>2, <3>3, <3>4 DEF Below
  <2>6. Waiting(c)' = W \cup {x}
    <3>1. WaitsIn(c) /\ WaitsIn(c)'
      BY <1>2 DEF AllWait
    <3>2. Waiting(c)' \subseteq Nat
      BY <3>1 DEF WaitsIn, Finite
    <3>3. \A n \in Nat : n \in Waiting(c)' <=> n \in W \/ n = x
      BY <1>3, <1>4, <2>1, <2>4, <2>5, <3>1 DEF WaitsIn
    <3> QED
      BY <1>2, <2>5, <3>2, <3>3
  <2>7. ASSUME NEW d \in Chains, d # c PROVE Waiting(d)' = Waiting(d)
    <3>1. logged'[d] = logged[d] /\ \A n : Row(d, n) \in Range(queue') <=> Row(d, n) \in Range(queue)
      BY <1>2, <1>3, <1>4, <2>1, <2>7
    <3> QED
      BY <1>3, <3>1 DEF Waiting, Queued, Held, Kept, HeldOf, Row
  <2>8. TableBeforeWaiting'
    <3>1. Below(Range(table[c]), W \cup {x})
      BY <2>4, <2>5 DEF OrderInv, TableBeforeWaiting, Below
    <3> QED
      BY <1>3, <2>6, <2>7, <3>1 DEF OrderInv, TableBeforeWaiting
  <2>9. Sorted(W \cup {x}) = Append(Sorted(W), x)
    <3>1. PICK s, V : s = Sorted(W) /\ V = W \cup {x}
      OBVIOUS
    <3>2. s \in Seq(Nat) /\ Finite({x}) /\ Sorted({x}) = <<x>>
      BY <1>2, <2>5, <3>1, SortedIs, SortedOne
    <3>3. Sorted(V) = s \o <<x>>
      BY <2>5, <3>1, <3>2, SortedJoin
    <3>4. Append(s, x) = s \o <<x>>
      BY <1>2, <3>2, AppendIsConcat
    <3> QED
      BY <3>1, <3>3, <3>4
  <2>10. PICK w, w1 : /\ w = [d \in Chains |-> Sorted(Waiting(d))]
                      /\ w1 = [d \in Chains |-> Sorted(Waiting(d)')]
    OBVIOUS
  <2>11. w1 = [w EXCEPT ![c] = Append(@, logged[c] + 1)]
    BY <1>1, <2>4, <2>6, <2>7, <2>9, <2>10
  <2>12. Promise!Log(c)
    BY <1>3, <2>10, <2>11 DEF Promise!Log
  <2> QED
    BY <2>2, <2>3, <2>8, <2>12 DEF Promised, OrderInv, Promise!Next
<1> QED
  BY <1>3, <1>6, <1>7

LEMMA SignalPromised ==
  ASSUME IInv, SettleInv, IInv', SettleInv', OrderInv, Signal
  PROVE  Promised
<1>1. /\ stopping = "signal" /\ stopping' = "join" /\ UNCHANGED <<logged, batch, table>>
      /\ queue' = queue \/ queue' = Append(queue, None)
  BY DEF Signal, flush, database
<1>2. queue \in Seq(Rows \cup {None}) /\ None \in Rows \cup {None}
  BY SettleTypes
<1>3. \A d \in Chains : \A n \in Nat : Row(d, n) # None
  BY ChainsAssumption DEF Row, Rows
<1>4. CASE queue' = queue
  BY <1>1, <1>4, PromiseStays
<1>5. CASE queue' = Append(queue, None)
  <2>1. /\ Range(queue') = Range(queue) \cup {None}
        /\ DOMAIN queue' = 1 .. Len(queue) + 1 /\ queue'[Len(queue) + 1] = None
        /\ \A i \in DOMAIN queue : queue'[i] = queue[i]
        /\ DOMAIN queue = 1 .. Len(queue) /\ Len(queue) \in Nat
    BY <1>2, <1>5, AppendRange, LenProperties
  <2>2. \A i \in DOMAIN queue' : i \in DOMAIN queue \/ queue'[i] = None
    BY <2>1
  <2>3. BatchAscends' /\ BatchBeforeQueue' /\ QueueAscends'
    BY <1>1, <2>1, <2>2 DEF OrderInv, BatchAscends, BatchBeforeQueue, QueueAscends
  <2>4. \A d \in Chains : \A n \in Nat : Row(d, n) \in Range(queue') <=> Row(d, n) \in Range(queue)
    BY <1>3, <2>1
  <2> QED
    BY <1>1, <2>3, <2>4, MovesPromised
<1> QED
  BY <1>1, <1>4, <1>5

\* The process goes, and nothing waits any more.
LEMMA GonePromised ==
  ASSUME IInv, SettleInv, IInv', SettleInv', OrderInv, Gone
  PROVE  Promised
<1>1. /\ stopping = "join" /\ stopping' = "done" /\ queue' = <<>> /\ batch' = [c \in Chains |-> <<>>]
      /\ UNCHANGED <<logged, table>>
  BY DEF Gone, database
<1>2. Range(<<>>) = {} /\ DOMAIN <<>> = {}
  BY DEF Range
<1>3. \A c \in Chains : batch'[c] = <<>>
  BY <1>1
<1>4. \A c \in Chains : Waiting(c)' = {}
  <2>1. AllWait'
    BY WaitingNext
  <2> QED
    BY <1>1, <1>2, <1>3, <2>1 DEF AllWait, WaitsIn, Finite
<1>5. OrderInv'
  BY <1>1, <1>2, <1>3, <1>4 DEF OrderInv, BatchAscends, BatchBeforeQueue, QueueAscends,
       TableBeforeWaiting, Ascends, Below
<1>6. Promise!End
  <2>1. Sorted({}) = <<>>
    BY SortedOne
  <2>2. [c \in Chains |-> Sorted(Waiting(c)')] = [c \in Chains |-> <<>>]
    BY <1>4, <2>1
  <2> QED
    BY <1>1, <2>2 DEF Promise!End
<1> QED
  BY <1>5, <1>6 DEF Promised, Promise!Next

\* The queue without its first is in order.
LEMMA QueueGoesOn ==
  ASSUME IInv, OrderInv, queue # <<>>, queue' = Tail(queue)
  PROVE  /\ QueueAscends' /\ Range(queue) = {Head(queue)} \cup Range(queue')
         /\ Head(queue) \in Rows \cup {None}
         /\ Head(queue) # None => \A x \in Range(queue') :
              x # None /\ x.chain = Head(queue).chain => Head(queue).n < x.n
<1>1. queue \in Seq(Rows \cup {None})
  BY SettleTypes
<1>2. /\ queue' \in Seq(Rows \cup {None}) /\ Head(queue) = queue[1] /\ 1 \in DOMAIN queue
      /\ Range(queue) = {Head(queue)} \cup Range(queue') /\ Head(queue) \in Rows \cup {None}
      /\ \A i \in DOMAIN queue' : i \in Nat /\ i + 1 \in DOMAIN queue /\ queue'[i] = queue[i + 1]
  BY <1>1, TailRange
<1>3. \A i \in DOMAIN queue' : 1 < i + 1
  <2>1. DOMAIN queue' = 1 .. Len(queue')
    BY <1>2, LenProperties
  <2> QED
    BY <1>2, <2>1
<1>4. QueueAscends'
  <2>1. \A i, j \in DOMAIN queue' : i < j => i + 1 < j + 1
    BY <1>2
  <2> QED
    BY <1>2, <2>1 DEF OrderInv, QueueAscends
<1>5. ASSUME Head(queue) # None, NEW x \in Range(queue'), x # None, x.chain = Head(queue).chain
      PROVE  Head(queue).n < x.n
  <2>1. PICK i \in DOMAIN queue' : queue'[i] = x
    BY <1>5 DEF Range
  <2> QED
    BY <1>2, <1>3, <1>5, <2>1 DEF OrderInv, QueueAscends
<1> QED
  BY <1>2, <1>4, <1>5

LEMMA TakePromised ==
  ASSUME IInv, SettleInv, IInv', SettleInv', OrderInv, Take
  PROVE  Promised
<1>1. /\ queue # <<>> /\ Head(queue) # None /\ queue' = Tail(queue)
      /\ Add(Head(queue).chain, Head(queue).n)
      /\ UNCHANGED <<logged, stopping, table>>
  BY DEF Take, logger, database
<1>2. PICK r : r = Head(queue)
  OBVIOUS
<1>3. /\ QueueAscends' /\ Range(queue) = {r} \cup Range(queue') /\ r \in Rows
      /\ \A x \in Range(queue') : x # None /\ x.chain = r.chain => r.n < x.n
  BY <1>1, <1>2, QueueGoesOn
<1>4. PICK c \in Chains, n \in Nat : r.chain = c /\ r.n = n /\ r = Row(c, n)
  BY <1>3 DEF Rows, Row
<1>5. /\ batch \in [Chains -> Seq(Nat)] /\ batch' = [batch EXCEPT ![c] = Append(@, n)]
  BY <1>1, <1>2, <1>4, SettleTypes DEF Add
<1>6. PICK s : s = batch[c] /\ s \in Seq(Nat)
  BY <1>4, <1>5
<1>7. /\ batch'[c] = Append(s, n) /\ \A d \in Chains : d # c => batch'[d] = batch[d]
      /\ Range(batch'[c]) = Range(s) \cup {n}
  <2>1. batch'[c] = Append(s, n) /\ \A d \in Chains : d # c => batch'[d] = batch[d]
    BY <1>5, <1>6
  <2>2. Range(Append(s, n)) = Range(s) \cup {n}
    BY <1>4, <1>6, AppendRange
  <2> QED
    BY <2>1, <2>2
<1>8. \A m \in Range(s) : m < n
  BY <1>1, <1>2, <1>3, <1>4, <1>6 DEF OrderInv, BatchBeforeQueue
<1>9. Ascends(Append(s, n))
  <2>1. /\ DOMAIN Append(s, n) = 1 .. Len(s) + 1 /\ Append(s, n)[Len(s) + 1] = n
        /\ \A i \in DOMAIN s : Append(s, n)[i] = s[i]
        /\ DOMAIN s = 1 .. Len(s) /\ Len(s) \in Nat
    BY <1>4, <1>6, AppendRange, LenProperties
  <2>2. Ascends(s)
    BY <1>6 DEF OrderInv, BatchAscends
  <2>3. \A i \in DOMAIN Append(s, n) :
          i \in DOMAIN s \/ (i = Len(s) + 1 /\ \A j \in DOMAIN Append(s, n) : ~ i < j)
    BY <2>1
  <2>4. \A i \in DOMAIN s : s[i] < n
    BY <1>8 DEF Range
  <2> QED
    BY <2>1, <2>2, <2>3, <2>4 DEF Ascends
<1>10. BatchAscends'
  <2>1. \A d \in Chains : Ascends(batch'[d])
    BY <1>7, <1>9 DEF OrderInv, BatchAscends
  <2> QED
    BY <2>1 DEF BatchAscends
<1>11. BatchBeforeQueue'
  BY <1>3, <1>4, <1>6, <1>7 DEF OrderInv, BatchBeforeQueue
<1>12. ASSUME NEW d \in Chains, NEW m \in Nat
       PROVE  m \in Range(batch'[d]) \/ Row(d, m) \in Range(queue')
                <=> m \in Range(batch[d]) \/ Row(d, m) \in Range(queue)
  <2>1. Row(d, m) = r <=> d = c /\ m = n
    BY <1>4 DEF Row
  <2> QED
    BY <1>3, <1>6, <1>7, <2>1
<1> QED
  BY <1>1, <1>3, <1>10, <1>11, <1>12, MovesPromised

LEMMA TakeNonePromised ==
  ASSUME IInv, SettleInv, IInv', SettleInv', OrderInv, TakeNone
  PROVE  Promised
<1>1. /\ queue # <<>> /\ Head(queue) = None /\ queue' = Tail(queue)
      /\ UNCHANGED <<logged, stopping, batch, table>>
  BY DEF TakeNone, logger, database
<1>2. QueueAscends' /\ Range(queue) = {None} \cup Range(queue')
  BY <1>1, QueueGoesOn
<1>3. BatchAscends' /\ BatchBeforeQueue'
  BY <1>1, <1>2 DEF OrderInv, BatchAscends, BatchBeforeQueue
<1>4. \A d \in Chains : \A n \in Nat : Row(d, n) \in Range(queue') <=> Row(d, n) \in Range(queue)
  <2>1. \A d \in Chains : \A n \in Nat : Row(d, n) # None
    BY ChainsAssumption DEF Row, Rows
  <2> QED
    BY <1>2, <2>1
<1> QED
  BY <1>1, <1>2, <1>3, <1>4, MovesPromised

\* The chain's part of the batch, or its first row, is done.
LEMMA PartDone ==
  ASSUME IInv, SettleInv, IInv', SettleInv', OrderInv, writer \in Flushing, NextChain(Chain),
         UNCHANGED <<logged, queue, stopping>>,
         Commit(Chain) \/ table' = table
  PROVE  Promised
<1>1. PICK c, t : c = Chain /\ t = batch[c]
  OBVIOUS
<1>2. /\ c \in Chains /\ t \in Seq(Nat) /\ Ascends(t) /\ stopping # "done"
      /\ batch'[c] = <<>> /\ \A d \in Chains : d # c => batch'[d] = batch[d]
  <2>1. c \in Chains /\ batch \in [Chains -> Seq(Nat)] /\ batch' = [batch EXCEPT ![c] = <<>>]
    BY <1>1, ChainInBatch, SettleTypes DEF NextChain
  <2> QED
    BY <1>1, <2>1 DEF IInv, CloseOK, Stopped, Flushing, OrderInv, BatchAscends
<1>3. Range(<<>>) = {} /\ Ascends(<<>>)
  BY DEF Range, Ascends
<1>4. \A d \in Chains : d # c => table'[d] = table[d]
  BY <1>1, <1>2, SettleTypes DEF Commit
<1>5. Commits(c, Range(t)) \/ Leaves(c, Range(t))
  <2>1. CASE Commit(Chain)
    <3>1. table'[c] = table[c] \o t
      BY <1>1, <1>2, <2>1, SettleTypes DEF Commit
    <3> QED
      BY <1>2, <3>1 DEF Commits
  <2>2. CASE table' = table
    BY <1>2, <1>3, <2>2 DEF Leaves
  <2> QED
    BY <2>1, <2>2
<1>6. PICK G : G = Range(t)
  OBVIOUS
<1>7. /\ Range(batch[c]) = G \cup Range(batch'[c]) /\ Below(G, Range(batch'[c]) \ G)
      /\ Ascends(batch'[c])
  BY <1>1, <1>2, <1>3, <1>6 DEF Below
<1> QED
  BY <1>2, <1>4, <1>5, <1>6, <1>7, FlushSettles

LEMMA FirstDone ==
  ASSUME IInv, SettleInv, IInv', SettleInv', OrderInv, writer \in Flushing,
         NEW state, NextRow(Chain, state), UNCHANGED <<logged, queue, stopping>>,
         CommitOne(Chain) \/ table' = table
  PROVE  Promised
<1>1. PICK c, s, f : c = Chain /\ s = batch[c] /\ f = First(c)
  OBVIOUS
<1>2. /\ c \in Chains /\ s \in Seq(Nat) /\ s # <<>> /\ Ascends(s) /\ IsInjective(s)
      /\ batch \in [Chains -> Seq(Nat)] /\ table \in [Chains -> Seq(Nat)] /\ stopping # "done"
  BY <1>1, ChainInBatch, SettleTypes DEF IInv, CloseOK, Stopped, Flushing, OrderInv, BatchAscends,
     SettleInv, BatchOnce
<1>3. PICK u : u = Tail(s)
  OBVIOUS
<1>4. /\ f = s[1] /\ f \in Nat /\ u \in Seq(Nat) /\ Range(s) = {f} \cup Range(u) /\ f \notin Range(u)
      /\ 1 \in DOMAIN s
      /\ \A i \in DOMAIN u : i \in Nat /\ i + 1 \in DOMAIN s /\ u[i] = s[i + 1]
  BY <1>1, <1>2, <1>3, TailRange DEF First
<1>5. Ascends(u) /\ Below({f}, Range(u))
  <2>1. \A i, j \in DOMAIN u : i < j => i + 1 < j + 1
    BY <1>4
  <2>2. Ascends(u)
    BY <1>2, <1>4, <2>1 DEF Ascends
  <2>3. \A i \in DOMAIN u : 1 < i + 1
    <3>1. DOMAIN u = 1 .. Len(u)
      BY <1>4, LenProperties
    <3> QED
      BY <1>4, <3>1
  <2>4. \A i \in DOMAIN u : f < u[i]
    BY <1>2, <1>4, <2>3 DEF Ascends
  <2> QED
    BY <2>2, <2>4 DEF Below, Range
<1>6. batch'[c] = u /\ \A d \in Chains : d # c => batch'[d] = batch[d]
  <2>1. CASE Len(s) > 1
    <3>1. batch' = [batch EXCEPT ![c] = Tail(@)]
      BY <1>1, <2>1 DEF NextRow
    <3> QED
      BY <1>1, <1>2, <1>3, <3>1
  <2>2. CASE ~ Len(s) > 1
    <3>1. batch' = [batch EXCEPT ![c] = <<>>]
      BY <1>1, <2>2 DEF NextRow, NextChain
    <3>2. u = <<>>
      BY <1>2, <1>3, <2>2, TailEmpty
    <3> QED
      BY <1>2, <3>1, <3>2
  <2> QED
    BY <2>1, <2>2
<1>7. \A d \in Chains : d # c => table'[d] = table[d]
  BY <1>1, <1>2 DEF CommitOne
<1>8. PICK G : G = {f}
  OBVIOUS
<1>9. Commits(c, G) \/ Leaves(c, G)
  <2>1. CASE CommitOne(Chain)
    <3>1. PICK r, t : r = table[c] /\ t = <<f>>
      OBVIOUS
    <3>2. t \in Seq(Nat) /\ Range(t) = G /\ Ascends(t) /\ r \in Seq(Nat)
      BY <1>2, <1>4, <1>8, <3>1 DEF Range, Ascends
    <3>3. Append(r, f) = r \o t
      BY <1>4, <3>1, <3>2, AppendIsConcat
    <3>4. table'[c] = Append(r, f)
      BY <1>1, <1>2, <2>1, <3>1 DEF CommitOne
    <3> QED
      BY <3>1, <3>2, <3>3, <3>4 DEF Commits
  <2>2. CASE table' = table
    BY <1>4, <1>6, <1>8, <2>2 DEF Leaves
  <2> QED
    BY <2>1, <2>2
<1>10. /\ Range(batch[c]) = G \cup Range(batch'[c]) /\ Below(G, Range(batch'[c]) \ G)
       /\ Ascends(batch'[c])
  BY <1>1, <1>4, <1>5, <1>6, <1>8 DEF Below
<1> QED
  BY <1>2, <1>6, <1>7, <1>9, <1>10, FlushSettles

\* A commit without an answer: the rows are kept, and stay in the batch.
LEMMA InsertUnsurePromised ==
  ASSUME IInv, SettleInv, IInv', SettleInv', OrderInv, InsertUnsure
  PROVE  Promised
<1>1. writer \in Flushing /\ Commit(Chain) /\ UNCHANGED <<logged, queue, stopping, batch>>
  BY DEF InsertUnsure, Flushing, logger, Failed
<1>2. PICK c, t : c = Chain /\ t = batch[c]
  OBVIOUS
<1>3. /\ c \in Chains /\ t \in Seq(Nat) /\ Ascends(t) /\ stopping # "done"
      /\ table' = [table EXCEPT ![c] = @ \o t] /\ table \in [Chains -> Seq(Nat)]
  BY <1>1, <1>2, ChainInBatch, SettleTypes DEF IInv, CloseOK, Stopped, Flushing, OrderInv,
     BatchAscends, Commit
<1>4. table'[c] = table[c] \o t /\ \A d \in Chains : d # c => table'[d] = table[d]
  BY <1>3
<1>5. PICK G : G = Range(t)
  OBVIOUS
<1>6. Commits(c, G)
  BY <1>3, <1>4, <1>5 DEF Commits
<1>7. /\ Range(batch[c]) = G \cup Range(batch'[c]) /\ Below(G, Range(batch'[c]) \ G)
      /\ Ascends(batch'[c])
  BY <1>1, <1>2, <1>3, <1>5 DEF Below
<1> QED
  BY <1>1, <1>3, <1>4, <1>6, <1>7, FlushSettles

LEMMA StepPromised ==
  ASSUME IInv, SettleInv, OrderInv, [Next]_vars
  PROVE  Promised
<1>1. IInv' /\ SettleInv'
  BY StepOK, StepSettled
<1>2. CASE Loggers
  <2>1. ASSUME NEW c \in Chains, LogShare(c) PROVE Promised
    BY <1>1, <2>1, LogSharePromised
  <2>2. ASSUME NEW c \in Chains, Stop(c) PROVE Promised
    <3>1. stopping # "done"
      BY <2>2 DEF IInv, CloseOK, Stop
    <3>2. stopping' # "done" /\ UNCHANGED <<logged, queue, batch, table>>
      BY <2>2, <3>1 DEF Stop, flush, database
    <3> QED
      BY <3>1, <3>2, PromiseStays
  <2> QED
    BY <1>1, <1>2, <2>1, <2>2, SignalPromised, GonePromised DEF Loggers
<1>3. CASE Writer
  <2>1. CASE Insert \/ ReachFails
    <3>1. /\ writer \in Flushing /\ NextChain(Chain) /\ UNCHANGED <<logged, queue, stopping>>
          /\ Commit(Chain) \/ table' = table
      BY <2>1 DEF Insert, ReachFails, Flushing, logger, database
    <3> QED
      BY <1>1, <3>1, PartDone
  <2>2. CASE Single \/ SingleFails \/ SingleUnsure
    <3>1. /\ writer \in Flushing /\ \E state : NextRow(Chain, state)
          /\ UNCHANGED <<logged, queue, stopping>>
          /\ CommitOne(Chain) \/ table' = table
      BY <2>2 DEF Single, SingleFails, SingleUnsure, Flushing, logger, database
    <3> QED
      BY <1>1, <3>1, FirstDone
  <2>3. CASE Interval \/ InsertFails \/ Reconnect \/ Reach
    <3>1. UNCHANGED <<logged, queue, stopping, batch, table>>
      BY <2>3 DEF Interval, InsertFails, Failed, Reconnect, Reach, logger, flush, database
    <3> QED
      BY <3>1, PromiseStays
  <2> QED
    BY <1>1, <1>3, <2>1, <2>2, <2>3, TakePromised, TakeNonePromised, InsertUnsurePromised DEF Writer
<1>4. CASE Database \/ UNCHANGED vars
  <2>1. UNCHANGED <<logged, queue, stopping, batch, table>>
    BY <1>4 DEF Database, DatabaseFails, DatabaseReturns, vars, logger, flush, database
  <2> QED
    BY <2>1, PromiseStays
<1> QED
  BY <1>2, <1>3, <1>4 DEF Next

LEMMA InitPromised == Init => OrderInv /\ Promise!Init
<1> SUFFICES ASSUME Init PROVE OrderInv /\ Promise!Init
  OBVIOUS
<1>1. /\ queue = <<>> /\ \A c \in Chains : batch[c] = <<>> /\ table[c] = <<>>
      /\ logged = [c \in Chains |-> 0] /\ stopping = "no"
  BY DEF Init
<1>2. Range(<<>>) = {} /\ DOMAIN <<>> = {} /\ <<>> \in Seq(Nat)
  BY DEF Range
<1>3. \A c \in Chains : Waiting(c) = {}
  <2>1. AllWait
    BY InitOK, InitSettled, WaitingNow
  <2> QED
    BY <1>1, <1>2, <2>1 DEF AllWait, WaitsIn, Finite
<1>4. FirstsAscend(<<>>) /\ Ascends(<<>>)
  BY <1>2 DEF FirstsAscend, Ascends
<1>5. OrderInv
  BY <1>1, <1>2, <1>3, <1>4 DEF OrderInv, BatchAscends, BatchBeforeQueue, QueueAscends,
     TableBeforeWaiting, Below
<1>6. Sorted({}) = <<>> /\ Once(<<>>) = <<>>
  BY <1>2, <1>4, SortedOne, OnceIsSorted
<1>7. /\ [c \in Chains |-> Sorted(Waiting(c))] = [c \in Chains |-> <<>>]
      /\ [c \in Chains |-> Once(table[c])] = [c \in Chains |-> <<>>]
  BY <1>1, <1>3, <1>6
<1>8. Promise!Init
  BY <1>1, <1>7 DEF Promise!Init
<1> QED
  BY <1>5, <1>8

\* What the logger promises is kept by what stands between it and the table: queue,
\* batches, retries and the fallback settle each chain's rows in the order they were
\* logged, and what is given up is not kept later; a row that a retry stores again is
\* taken as stored once (_worker_loop, _flush_chain_batch, _fallback_individual_inserts).
THEOREM PromiseIsKept == Spec => KeepsItsPromise
<1>1. Init => IInv /\ SettleInv /\ OrderInv /\ Promise!Init
  BY InitOK, InitSettled, InitPromised
<1>2. IInv /\ SettleInv /\ OrderInv /\ [Next]_vars
        => IInv' /\ SettleInv' /\ OrderInv' /\ [Promise!Next]_(Promise!promise)
  BY StepOK, StepSettled, StepPromised DEF Promised
<1> QED
  BY <1>1, <1>2, PTL DEF Spec, KeepsItsPromise, Promise!Spec
=============================================================================
