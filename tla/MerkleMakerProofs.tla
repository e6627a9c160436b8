------------------------- MODULE MerkleMakerProofs -------------------------
(***************************************************************************)
(* Proofs about MerkleMaker for every set of threads, every set of         *)
(* templates and every size of the stores.                                 *)
(***************************************************************************)
EXTENDS MerkleMaker, SequenceTheorems, TLAPS

\* What the control operators do to the short stacks there are.
LEMMA Stacks ==
  ASSUME NEW a, NEW b
  PROVE  /\ <<a>> \o <<>> = <<a>> /\ <<a>> \o <<b>> = <<a, b>>
         /\ Head(<<a>>) = a /\ Tail(<<a>>) = <<>>
         /\ Head(<<a, b>>) = a /\ Tail(<<a, b>>) = <<b>>
<1>1. <<a>> \o <<>> = <<a>>
  OBVIOUS
<1>2. <<a>> \o <<b>> = <<a, b>>
  <2>1. <<a>> \in Seq({a, b}) /\ <<b>> \in Seq({a, b}) /\ <<a, b>> \in Seq({a, b})
    OBVIOUS
  <2>2. /\ <<a>> \o <<b>> \in Seq({a, b}) /\ Len(<<a>> \o <<b>>) = 2
        /\ (<<a>> \o <<b>>)[1] = a /\ (<<a>> \o <<b>>)[2] = b
    BY <2>1
  <2>3. \A i \in 1 .. Len(<<a, b>>) : (<<a>> \o <<b>>)[i] = <<a, b>>[i]
    BY <2>2
  <2>4. QED  BY <2>1, <2>2, <2>3, SeqEqual
<1>3. Head(<<a>>) = a /\ Head(<<a, b>>) = a
  OBVIOUS
<1>4. Tail(<<a>>) = <<>>
  OBVIOUS
<1>5. Tail(<<a, b>>) = <<b>>
  OBVIOUS
<1>6. QED  BY <1>1, <1>2, <1>3, <1>4, <1>5

LEMMA WorstType ==
  ASSUME NEW now
  PROVE  /\ Disturbance(now) \in {Nothing, Race, Cut, Overlap}
         /\ disturbed \in {Nothing, Race, Cut, Overlap}
              => Worst(disturbed, Disturbance(now)) \in {Nothing, Race, Cut, Overlap}
<1>1. Disturbance(now) \in {Nothing, Race, Cut, Overlap}
  BY DEF Disturbance
<1>2. QED  BY <1>1 DEF Worst

LEMMA AgedMakingType ==
  ASSUME making \in MakingType
  PROVE  /\ AgedMaking \in MakingType /\ AgedMaking.into = making.into
         /\ making.root \in RootType => AgedMaking.root \in RootType
  BY DEF AgedMaking, MakingType, Aged, RootType

\* A Queue object allocated is one of the Queues, and empty.
LEMMA NewQueueType ==
  ASSUME queue \in [Queues -> QueueType], NEW size \in {ClearMax, NextMax}, NewQueue(size)
  PROVE  queue' \in [Queues -> QueueType] /\ FreshQueue \in Queues
<1>1. FreshQueue \in Queues
  BY DEF FreshQueue, NewQueue
<1>2. [items |-> <<>>, maxsize |-> size] \in QueueType
  BY DEF QueueType
<1>3. QED  BY <1>1, <1>2 DEF NewQueue

\* One thread moves to a frame that can go on: nobody is left waiting for a
\* notification that is not coming, provided `ready` was not just set.
LEMMA FrameStep ==
  ASSUME TypeOK, NEW t \in Threads, NEW frame \in FrameType, FrameOK(frame),
         SetThread(t, frame),
         tip' \in Templates, news' \in BOOLEAN, found' \subseteq {b.prev : b \in Templates},
         self' \in SelfType, queue' \in [Queues -> QueueType],
         got' \in Queues \cup {None}, making' \in MakingType,
         \/ making' \in {making, AgedMaking} /\ (t = MM => frame.pc \notin {"made", "put"})
         \/ t = MM /\ making'.into \in Queues \cup {Deque} /\ making'.root \in RootType
         \/ t = MM /\ frame.pc \notin {"made", "put"}
  PROVE  /\ TypeOK'
         /\ WaiterIsWoken /\ thread[t].pc # "signal"
              /\ (self'.ready => self.ready /\ frame.pc # "waiting") => WaiterIsWoken'
<1>1. /\ thread' \in [Threads -> FrameType] /\ thread'[t] = frame
      /\ \A u \in Threads : u # t => thread'[u] = thread[u]
      /\ disturbed' \in {Nothing, Race, Cut, Overlap}
  <2>1. thread' = [thread EXCEPT ![t] = frame]
    BY DEF SetThread, SetThreads
  <2>2. disturbed' = Worst(disturbed, Disturbance([thread EXCEPT ![t] = frame]))
    BY DEF SetThread, SetThreads
  <2>3. QED  BY <2>1, <2>2, WorstType DEF TypeOK
<1>2. \A u \in Threads : FrameOK(thread'[u])
  BY <1>1 DEF TypeOK
<1>3. MM \in Threads
  BY DEF Threads, Pollers
<1>4. MakingOK'
  BY <1>1, <1>3, AgedMakingType DEF TypeOK, MakingOK
<1>5. TypeOK'
  BY <1>1, <1>2, <1>4 DEF TypeOK, FrameOK, Returns
<1>6. ASSUME WaiterIsWoken, thread[t].pc # "signal",
             self'.ready => self.ready /\ frame.pc # "waiting"
      PROVE  WaiterIsWoken'
  BY <1>1, <1>6 DEF WaiterIsWoken, At
<1>7. QED  BY <1>5, <1>6

-----------------------------------------------------------------------------
\* The inductive invariant.
IInv == TypeOK /\ WaiterIsWoken

\* The kinds of places exclude each other.
LEMMA Places ==
  /\ LoopPlaces \cap PollPlaces = {} /\ LoopPlaces \cap JobPlaces = {}
  /\ PollPlaces \cap JobPlaces = {}
  /\ (UpdatePlaces \cup {"enter", "newblock"}) \cap (LoopPlaces \cup PollPlaces \cup JobPlaces) = {}
  BY DEF LoopPlaces, PollPlaces, JobPlaces, UpdatePlaces

\* Going on at a place of the same kind.
LEMMA GotoFrame ==
  ASSUME NEW f \in FrameType, FrameOK(f), NEW l \in Labels, l # "assign",
         \/ f.pc \in LoopPlaces \cup PollPlaces /\ l \in LoopPlaces
         \/ f.pc \in PollPlaces /\ l \in PollPlaces
         \/ f.pc \in UpdatePlaces \cup {"enter", "newblock"} /\ l \in UpdatePlaces
         \/ f.pc \in JobPlaces /\ l \in JobPlaces
  PROVE  LET g == [f EXCEPT !.pc = l]
         IN  g \in FrameType /\ FrameOK(g) /\ g.pc = l
<1>. DEFINE g == [f EXCEPT !.pc = l]
<1>1. g \in FrameType /\ g.pc = l /\ g.stack = f.stack /\ g.template = f.template
  BY DEF FrameType
<1>2. CASE l \in LoopPlaces
  BY <1>1, <1>2, Places DEF FrameOK, Returns
<1>3. CASE l \in PollPlaces
  BY <1>1, <1>3, Places DEF FrameOK, Returns
<1>4. CASE l \in UpdatePlaces
  BY <1>1, <1>4, Places DEF FrameOK, Returns
<1>5. CASE l \in JobPlaces
  BY <1>1, <1>5, Places DEF FrameOK, Returns
<1>6. QED  BY <1>2, <1>3, <1>4, <1>5

\* Going on inside updateBlock with other locals.
LEMMA UpdateFrame ==
  ASSUME NEW f \in FrameType, FrameOK(f), f.pc \in UpdatePlaces \cup {"enter", "newblock"},
         NEW g \in FrameType, g.pc \in UpdatePlaces, g.stack = f.stack,
         g.template = f.template, g.pc = "assign" => g.upd.height # 0
  PROVE  FrameOK(g)
  BY Places DEF FrameOK, Returns

\* A call of updateBlock, and its return.
LEMMA CallUpdateFrame ==
  ASSUME NEW f \in FrameType, NEW r \in Returns(f), f.stack = <<>>, NEW u \in UpdateType
  PROVE  LET g == [f EXCEPT !.pc = "enter", !.stack = <<r>> \o @, !.upd = u]
         IN  g \in FrameType /\ FrameOK(g) /\ g.pc = "enter"
<1>. DEFINE g == [f EXCEPT !.pc = "enter", !.stack = <<r>>, !.upd = u]
<1>1. <<r>> \o f.stack = <<r>>
  BY Stacks
<1>2. r \in Labels /\ <<r>> \in Seq(Labels)
  BY DEF Returns, Labels, LoopPlaces, PollPlaces
<1>3. "enter" \in Labels /\ "enter" \notin LoopPlaces \cup PollPlaces \cup JobPlaces
  BY DEF Labels, LoopPlaces, PollPlaces, JobPlaces
<1>4. /\ g \in FrameType /\ g.pc = "enter" /\ g.stack = <<r>>
      /\ g.template = f.template
  BY <1>2, <1>3 DEF FrameType
<1>5. FrameOK(g)
  BY <1>3, <1>4 DEF FrameOK, Returns
<1>6. QED  BY <1>1, <1>4, <1>5

LEMMA ReturnUpdateFrame ==
  ASSUME NEW f \in FrameType, NEW r \in Returns(f), f.stack = <<r>>
  PROVE  LET g == [f EXCEPT !.pc = Head(f.stack), !.stack = Tail(@), !.upd = NoUpdate]
         IN  g \in FrameType /\ FrameOK(g) /\ g.pc \in {"idle", "verdict", "changed"}
<1>. DEFINE g == [f EXCEPT !.pc = r, !.stack = <<>>, !.upd = NoUpdate]
<1>1. Head(f.stack) = r /\ Tail(f.stack) = <<>>
  BY Stacks
<1>2. NoUpdate \in UpdateType
  BY DEF NoUpdate, UpdateType, BlockPrevs, BlockBits
<1>3. r \in Labels /\ <<>> \in Seq(Labels)
  BY DEF Returns, Labels, LoopPlaces, PollPlaces
<1>4. g \in FrameType /\ g.pc = r /\ g.stack = <<>> /\ g.template = f.template
  BY <1>2, <1>3 DEF FrameType
<1>5. r \notin UpdatePlaces \cup {"enter", "newblock"} \cup JobPlaces
  BY DEF Returns, UpdatePlaces, JobPlaces
<1>6. r \in PollPlaces => f.template \in Templates
  BY DEF Returns, PollPlaces
<1>7. FrameOK(g)
  BY <1>4, <1>5, <1>6 DEF FrameOK, Returns, UpdatePlaces
<1>8. QED  BY <1>1, <1>4, <1>7 DEF Returns

\* A call of getMC, and its return.
LEMMA CallJobFrame ==
  ASSUME NEW f \in FrameType, FrameOK(f), NEW r \in Labels,
         \/ f.pc \in LoopPlaces /\ r \in {"idle", "settle", "fired"}
         \/ f.pc \in UpdatePlaces \cup {"enter"} /\ r = "newblock"
  PROVE  LET g == [f EXCEPT !.pc = "getMC", !.stack = <<r>> \o @]
         IN  g \in FrameType /\ FrameOK(g) /\ g.pc = "getMC"
<1>. DEFINE g == [f EXCEPT !.pc = "getMC", !.stack = <<r>> \o f.stack]
<1>1. <<r>> \o f.stack \in Seq(Labels)
  BY DEF FrameType
<1>2. "getMC" \in Labels /\ "getMC" \in JobPlaces
  BY DEF Labels, JobPlaces
<1>3. /\ g \in FrameType /\ g.pc = "getMC" /\ g.stack = <<r>> \o f.stack
      /\ g.template = f.template
  BY <1>1, <1>2 DEF FrameType
<1>4. \/ g.stack \in {<<"idle">>, <<"settle">>, <<"fired">>}
      \/ \E c \in Returns(g) : g.stack = <<"newblock", c>>
  <2>1. CASE f.pc \in LoopPlaces
    BY <2>1, <1>3, Stacks, Places DEF FrameOK
  <2>2. CASE f.pc \in UpdatePlaces \cup {"enter"}
    <3>1. PICK c \in Returns(f) : f.stack = <<c>>
      BY <2>2 DEF FrameOK
    <3>2. r = "newblock"
      BY <2>2, Places
    <3>3. c \in Returns(g)
      BY <1>3, <3>1 DEF Returns
    <3>4. g.stack = <<"newblock", c>>
      BY <1>3, <3>1, <3>2, Stacks
    <3>5. QED  BY <3>3, <3>4
  <2>3. QED  BY <2>1, <2>2
<1>5. FrameOK(g)
  BY <1>2, <1>3, <1>4, Places DEF FrameOK
<1>6. QED  BY <1>3, <1>5

LEMMA ReturnJobFrame ==
  ASSUME NEW f \in FrameType, FrameOK(f), f.pc = "job"
  PROVE  LET g == [f EXCEPT !.pc = Head(f.stack), !.stack = Tail(@)]
         IN  /\ g \in FrameType /\ FrameOK(g)
             /\ g.pc \in {"idle", "settle", "fired", "newblock"}
<1>. DEFINE g == [f EXCEPT !.pc = Head(f.stack), !.stack = Tail(f.stack)]
<1>1. \/ f.stack \in {<<"idle">>, <<"settle">>, <<"fired">>}
      \/ \E c \in Returns(f) : f.stack = <<"newblock", c>>
  BY DEF FrameOK, JobPlaces
<1>2. CASE f.stack \in {<<"idle">>, <<"settle">>, <<"fired">>}
  <2>1. PICK r \in {"idle", "settle", "fired"} : f.stack = <<r>>
    BY <1>2
  <2>2. Head(f.stack) = r /\ Tail(f.stack) = <<>>
    BY <2>1, Stacks
  <2>3. r \in Labels /\ r \in LoopPlaces /\ <<>> \in Seq(Labels)
    BY DEF Labels, LoopPlaces
  <2>4. g \in FrameType /\ g.pc = r /\ g.stack = <<>>
    BY <2>2, <2>3 DEF FrameType
  <2>5. FrameOK(g)
    BY <2>3, <2>4, Places DEF FrameOK, UpdatePlaces
  <2>6. QED  BY <2>4, <2>5
<1>3. ASSUME NEW c \in Returns(f), f.stack = <<"newblock", c>>
      PROVE  g \in FrameType /\ FrameOK(g) /\ g.pc = "newblock"
  <2>1. Head(f.stack) = "newblock" /\ Tail(f.stack) = <<c>>
    BY <1>3, Stacks
  <2>2. "newblock" \in Labels /\ <<c>> \in Seq(Labels)
    BY DEF Labels, Returns, LoopPlaces, PollPlaces
  <2>3. g \in FrameType /\ g.pc = "newblock" /\ g.stack = <<c>> /\ g.template = f.template
    BY <2>1, <2>2 DEF FrameType
  <2>4. FrameOK(g)
    BY <2>3, Places DEF FrameOK, Returns
  <2>5. QED  BY <2>3, <2>4
<1>4. QED  BY <1>1, <1>2, <1>3

-----------------------------------------------------------------------------
\* updateBlock, step by step.

LEMMA SameBlockOK ==
  ASSUME IInv, NEW t \in Threads, SameBlock(t)
  PROVE  IInv'
<1>. USE DEF IInv
<1>1. /\ thread[t] \in FrameType /\ FrameOK(thread[t]) /\ thread[t].pc = "enter"
      /\ tip' \in Templates /\ news' \in BOOLEAN /\ found' \subseteq {b.prev : b \in Templates}
      /\ queue' \in [Queues -> QueueType] /\ got' \in Queues \cup {None}
      /\ making' = making /\ making' \in MakingType
  BY DEF SameBlock, TypeOK, At
<1>2. self' \in SelfType /\ self'.ready = self.ready
  BY DEF SameBlock, TypeOK, SelfType
<1>3. CASE EndUpdateBlock(t)
  <2>. DEFINE g == [thread[t] EXCEPT !.pc = Head(thread[t].stack), !.stack = Tail(@),
                                     !.upd = NoUpdate]
  <2>1. PICK r \in Returns(thread[t]) : thread[t].stack = <<r>>
    BY <1>1 DEF FrameOK
  <2>2. g \in FrameType /\ FrameOK(g) /\ g.pc \in {"idle", "verdict", "changed"}
    BY <1>1, <2>1, ReturnUpdateFrame
  <2>3. SetThread(t, g)
    BY <1>3 DEF EndUpdateBlock
  <2>4. QED  BY <1>1, <1>2, <2>2, <2>3, FrameStep
<1>4. CASE Call(t, "getMC", "newblock")
  <2>. DEFINE g == [thread[t] EXCEPT !.pc = "getMC", !.stack = <<"newblock">> \o @]
  <2>1. g \in FrameType /\ FrameOK(g) /\ g.pc = "getMC"
    BY <1>1, CallJobFrame DEF Labels
  <2>2. SetThread(t, g)
    BY <1>4 DEF Call
  <2>3. QED  BY <1>1, <1>2, <2>1, <2>2, FrameStep
<1>5. QED  BY <1>3, <1>4 DEF SameBlock

LEMMA NewBlockOK ==
  ASSUME IInv, NEW t \in Threads, NewBlock(t)
  PROVE  IInv'
<1>. USE DEF IInv
<1>1. /\ thread[t] \in FrameType /\ FrameOK(thread[t]) /\ thread[t].pc \in {"enter", "newblock"}
      /\ tip' \in Templates /\ news' \in BOOLEAN /\ found' \subseteq {b.prev : b \in Templates}
      /\ queue' \in [Queues -> QueueType] /\ got' \in Queues \cup {None}
      /\ making' = making /\ making' \in MakingType
      /\ self' = self /\ self' \in SelfType
  BY DEF NewBlock, TypeOK, At
<1>. DEFINE new == thread[t].upd
            h == IF new.height = 0 THEN self.currentBlock.height + 1 ELSE new.height
            unknown == h % DifficultyChangeMod = 1 \/ self.currentBlock.bits = None
            b == IF new.bits # None THEN new.bits
                 ELSE IF unknown THEN None ELSE self.currentBlock.bits
            g == [thread[t] EXCEPT !.pc = "assign", !.upd.height = h, !.upd.bits = b,
                                   !.upd.last = self.currentBlock.height]
<1>2. SetThread(t, g)
  BY DEF NewBlock
<1>3. new \in UpdateType /\ self.currentBlock \in BlockType
  BY <1>1 DEF FrameType, SelfType
<1>4. h \in Nat /\ h # 0 /\ b \in BlockBits /\ self.currentBlock.height \in Nat
  <2>1. new.height \in Nat /\ new.bits \in BlockBits
    BY <1>3 DEF UpdateType
  <2>2. self.currentBlock.height \in Nat /\ self.currentBlock.bits \in BlockBits
    BY <1>3 DEF BlockType
  <2>3. None \in BlockBits
    BY DEF BlockBits
  <2>4. h \in Nat /\ h # 0
    BY <2>1, <2>2
  <2>5. b \in BlockBits
    BY <2>1, <2>2, <2>3
  <2>6. QED  BY <2>2, <2>4, <2>5
<1>5. /\ g \in FrameType /\ g.pc = "assign" /\ g.stack = thread[t].stack
      /\ g.template = thread[t].template /\ g.upd.height = h
  <2>. HIDE DEF h, b
  <2>1. "assign" \in Labels
    BY DEF Labels, UpdatePlaces
  <2>2. QED  BY <1>1, <1>3, <1>4, <2>1 DEF FrameType, UpdateType
<1>6. FrameOK(g)
  <2>. HIDE DEF g
  <2>1. "assign" \in UpdatePlaces
    BY DEF UpdatePlaces
  <2>2. QED  BY <1>1, <1>4, <1>5, <2>1, UpdateFrame
<1>7. QED
  <2>. HIDE DEF g
  <2>1. QED  BY <1>1, <1>2, <1>5, <1>6, FrameStep

LEMMA AssignOK ==
  ASSUME IInv, NEW t \in Threads, Assign(t)
  PROVE  IInv'
<1>. USE DEF IInv
<1>1. /\ thread[t] \in FrameType /\ FrameOK(thread[t])
      /\ tip' \in Templates /\ news' \in BOOLEAN /\ found' \subseteq {b.prev : b \in Templates}
      /\ got' \in Queues \cup {None}
      /\ thread[t].pc = "assign"
      /\ queue' \in [Queues -> QueueType]
      /\ making' = making /\ making' \in MakingType
  BY DEF Assign, TypeOK, At
<1>2. self' \in SelfType /\ self'.ready = self.ready
  <2>1. thread[t].upd \in UpdateType /\ thread[t].upd.height # 0
    BY <1>1 DEF FrameType, FrameOK
  <2>. DEFINE b == IF Unknown(t)
                   THEN [prev |-> None, height |-> thread[t].upd.height - 1, bits |-> None]
                   ELSE [prev |-> thread[t].upd.prev, height |-> thread[t].upd.height,
                         bits |-> thread[t].upd.bits]
  <2>2. b \in BlockType
    BY <2>1 DEF UpdateType, BlockType, BlockPrevs, BlockBits
  <2>3. self' = [self EXCEPT !.currentBlock = b]
    BY DEF Assign
  <2>. HIDE DEF b
  <2>4. QED  BY <2>2, <2>3 DEF TypeOK, SelfType
<1>3. CASE SetThread(t, [thread[t] EXCEPT !.pc = "replace", !.upd.ocmr = self.clearMerkleRoots])
  <2>. DEFINE g == [thread[t] EXCEPT !.pc = "replace", !.upd.ocmr = self.clearMerkleRoots]
  <2>1. /\ g \in FrameType /\ g.pc = "replace" /\ g.stack = thread[t].stack
        /\ g.template = thread[t].template
    BY <1>1 DEF TypeOK, SelfType, FrameType, UpdateType, Labels, UpdatePlaces
  <2>2. FrameOK(g)
    BY <1>1, <2>1, UpdateFrame DEF UpdatePlaces
  <2>3. QED  BY <1>1, <1>2, <1>3, <2>1, <2>2, FrameStep
<1>4. CASE Goto(t, "clear")
  <2>. DEFINE g == [thread[t] EXCEPT !.pc = "clear"]
  <2>1. g \in FrameType /\ FrameOK(g) /\ g.pc = "clear"
    BY <1>1, GotoFrame DEF Labels, UpdatePlaces
  <2>2. SetThread(t, g)
    BY <1>4 DEF Goto
  <2>3. QED  BY <1>1, <1>2, <2>1, <2>2, FrameStep
<1>5. QED  BY <1>3, <1>4 DEF Assign

\* An exception leaves the thread in its own loop.
LEMMA StartFrame == Start \in FrameType /\ FrameOK(Start) /\ Start.pc = "idle"
<1>1. NoUpdate \in UpdateType
  BY DEF NoUpdate, UpdateType, BlockPrevs, BlockBits
<1>2. "idle" \in Labels /\ <<>> \in Seq(Labels) /\ "idle" \in LoopPlaces
  BY DEF Labels, LoopPlaces
<1>3. /\ Start \in FrameType /\ Start.pc = "idle" /\ Start.stack = <<>>
  BY <1>1, <1>2 DEF Start, FrameType
<1>4. QED  BY <1>2, <1>3, Places DEF FrameOK, UpdatePlaces

LEMMA ClearTreeType ==
  ASSUME NEW h \in Nat
  PROVE  ClearTree(h) \in TreeType
  BY DEF ClearTree, TreeType, BlockPrevs

LEMMA ReplaceOK ==
  ASSUME IInv, NEW t \in Threads, Replace(t)
  PROVE  IInv'
<1>. USE DEF IInv
<1>1. /\ thread[t] \in FrameType /\ FrameOK(thread[t])
      /\ tip' \in Templates /\ news' \in BOOLEAN /\ found' \subseteq {b.prev : b \in Templates}
      /\ got' \in Queues \cup {None}
      /\ thread[t].pc = "replace"
      /\ making' = making /\ making' \in MakingType
  BY DEF Replace, TypeOK, At
<1>2. self \in SelfType /\ thread[t].upd.height \in Nat
  BY <1>1 DEF TypeOK, FrameType, UpdateType
<1>. DEFINE g == [thread[t] EXCEPT !.pc = "wake"]
<1>3. g \in FrameType /\ FrameOK(g) /\ g.pc = "wake"
  BY <1>1, GotoFrame DEF Labels, UpdatePlaces
<1>. HIDE DEF g
<1>4. CASE AdoptNext(t)
  <2>1. SetThread(t, g) /\ queue' \in [Queues -> QueueType]
    BY <1>4 DEF AdoptNext, Goto, TypeOK, g
  <2>2. self' \in SelfType /\ self'.ready = self.ready
    BY <1>2, <1>4 DEF AdoptNext, SelfType
  <2>3. QED  BY <1>1, <1>3, <2>1, <2>2, FrameStep
<1>5. CASE StartEmpty(t)
  <2>1. SetThread(t, g)
    BY <1>5 DEF StartEmpty, Goto, g
  <2>2. queue' \in [Queues -> QueueType] /\ FreshQueue \in Queues
    BY <1>5, NewQueueType DEF StartEmpty, TypeOK
  <2>3. self' \in SelfType /\ self'.ready = self.ready
    BY <1>2, <1>5, <2>2, ClearTreeType DEF StartEmpty, SelfType
  <2>4. QED  BY <1>1, <1>3, <2>1, <2>2, <2>3, FrameStep
<1>6. CASE ReplaceRaises(t)
  <2>1. SetThread(t, Start) /\ queue' \in [Queues -> QueueType] /\ self' = self
    BY <1>6 DEF ReplaceRaises, Unwind, TypeOK
  <2>2. QED  BY <1>1, <1>2, <2>1, StartFrame, FrameStep
<1>7. QED  BY <1>4, <1>5, <1>6 DEF Replace

LEMMA WakeOK ==
  ASSUME IInv, NEW t \in Threads, Wake(t)
  PROVE  IInv'
<1>. USE DEF IInv
<1>1. /\ thread[t] \in FrameType /\ FrameOK(thread[t])
      /\ tip' \in Templates /\ news' \in BOOLEAN /\ found' \subseteq {b.prev : b \in Templates}
      /\ got' \in Queues \cup {None}
      /\ thread[t].pc = "wake"
      /\ making' = making /\ making' \in MakingType
      /\ self' = self /\ self' \in SelfType
  BY DEF Wake, TypeOK, At
<1>2. queue' \in [Queues -> QueueType]
  <2>1. queue \in [Queues -> QueueType]
    BY DEF TypeOK
  <2>2. ASSUME NEW q \in Queues
        PROVE  [queue[q] EXCEPT !.items = Woken(@)] \in QueueType
    <3>1. queue[q].items \in Seq(RootType \cup {None}) /\ <<None>> \in Seq(RootType \cup {None})
      BY <2>1 DEF QueueType
    <3>2. Woken(queue[q].items) \in Seq(RootType \cup {None})
      BY <3>1 DEF Woken
    <3>3. QED  BY <2>1, <3>2 DEF QueueType
  <2>3. QED  BY <2>1, <2>2 DEF Wake
<1>. DEFINE p == IF Unknown(t) THEN "unready" ELSE "fresh"
            g == [thread[t] EXCEPT !.pc = p, !.upd.ocmr = None]
<1>3. p \in UpdatePlaces /\ p \in Labels /\ p # "assign"
  BY DEF UpdatePlaces, Labels
<1>4. SetThread(t, g)
  BY DEF Wake
<1>5. /\ g \in FrameType /\ g.pc = p /\ g.stack = thread[t].stack
      /\ g.template = thread[t].template
  <2>. HIDE DEF p
  <2>1. QED  BY <1>1, <1>3 DEF FrameType, UpdateType
<1>6. QED
  <2>. HIDE DEF p, g
  <2>1. FrameOK(g)
    BY <1>1, <1>3, <1>5, UpdateFrame DEF UpdatePlaces
  <2>2. g.pc # "waiting"
    BY <1>3, <1>5 DEF UpdatePlaces
  <2>3. g.pc \notin {"made", "put"}
    BY <1>3, <1>5 DEF UpdatePlaces
  <2>4. QED  BY <1>1, <1>2, <1>4, <1>5, <2>1, <2>2, <2>3, FrameStep

LEMMA UnreadyOK ==
  ASSUME IInv, NEW t \in Threads, Unready(t)
  PROVE  IInv'
<1>. USE DEF IInv
<1>1. /\ thread[t] \in FrameType /\ FrameOK(thread[t])
      /\ tip' \in Templates /\ news' \in BOOLEAN /\ found' \subseteq {b.prev : b \in Templates}
      /\ got' \in Queues \cup {None}
      /\ thread[t].pc = "unready"
      /\ queue' \in [Queues -> QueueType]
      /\ making' = making /\ making' \in MakingType
  BY DEF Unready, TypeOK, At
<1>2. self' \in SelfType /\ ~self'.ready
  <2>1. <<>> \in Seq(RootType) /\ self \in SelfType
    BY DEF TypeOK
  <2>2. QED  BY <2>1 DEF Unready, SelfType
<1>. DEFINE g == [thread[t] EXCEPT !.pc = Head(thread[t].stack), !.stack = Tail(@),
                                   !.upd = NoUpdate]
<1>3. PICK r \in Returns(thread[t]) : thread[t].stack = <<r>>
  BY <1>1 DEF FrameOK, UpdatePlaces
<1>4. g \in FrameType /\ FrameOK(g) /\ g.pc \in {"idle", "verdict", "changed"}
  BY <1>1, <1>3, ReturnUpdateFrame
<1>5. SetThread(t, g)
  BY DEF Unready, EndUpdateBlock
<1>6. QED  BY <1>1, <1>2, <1>4, <1>5, FrameStep

LEMMA NeedOK ==
  ASSUME IInv, NEW t \in Threads, Need(t)
  PROVE  IInv'
<1>. USE DEF IInv
<1>1. /\ thread[t] \in FrameType /\ FrameOK(thread[t])
      /\ tip' \in Templates /\ news' \in BOOLEAN /\ found' \subseteq {b.prev : b \in Templates}
      /\ got' \in Queues \cup {None}
      /\ thread[t].pc = "need"
      /\ queue' \in [Queues -> QueueType]
      /\ making' = making /\ making' \in MakingType
  BY DEF Need, TypeOK, At
<1>2. self' \in SelfType /\ self'.ready = self.ready
  BY DEF Need, TypeOK, SelfType
<1>. DEFINE g == [thread[t] EXCEPT !.pc = Head(thread[t].stack), !.stack = Tail(@),
                                   !.upd = NoUpdate]
<1>3. PICK r \in Returns(thread[t]) : thread[t].stack = <<r>>
  BY <1>1 DEF FrameOK, UpdatePlaces
<1>4. g \in FrameType /\ FrameOK(g) /\ g.pc \in {"idle", "verdict", "changed"}
  BY <1>1, <1>3, ReturnUpdateFrame
<1>5. SetThread(t, g)
  BY DEF Need, EndUpdateBlock
<1>6. QED  BY <1>1, <1>2, <1>4, <1>5, FrameStep

LEMMA FreshOK ==
  ASSUME IInv, NEW t \in Threads, Fresh(t)
  PROVE  IInv'
<1>. USE DEF IInv
<1>1. /\ thread[t] \in FrameType /\ FrameOK(thread[t])
      /\ tip' \in Templates /\ news' \in BOOLEAN /\ found' \subseteq {b.prev : b \in Templates}
      /\ got' \in Queues \cup {None}
      /\ thread[t].pc = "fresh"
      /\ making' = making /\ making' \in MakingType
  BY DEF Fresh, TypeOK, At
<1>2. self \in SelfType /\ thread[t].upd.height + 1 \in Nat
  BY <1>1 DEF TypeOK, FrameType, UpdateType
<1>3. CASE CreateRaises /\ Unwind(t) /\ UNCHANGED <<self, queue>>
  <2>1. SetThread(t, Start) /\ queue' \in [Queues -> QueueType] /\ self' = self
    BY <1>3 DEF Unwind, TypeOK
  <2>2. QED  BY <1>1, <1>2, <2>1, StartFrame, FrameStep
<1>4. CASE ~(CreateRaises /\ Unwind(t) /\ UNCHANGED <<self, queue>>)
  <2>. DEFINE g == [thread[t] EXCEPT !.pc = "clear"]
  <2>1. g \in FrameType /\ FrameOK(g) /\ g.pc = "clear"
    BY <1>1, GotoFrame DEF Labels, UpdatePlaces
  <2>2. SetThread(t, g) /\ NewQueue(MaxClearSize)
    BY <1>4 DEF Fresh, Goto
  <2>3. queue' \in [Queues -> QueueType] /\ FreshQueue \in Queues
    BY <2>2, NewQueueType DEF TypeOK, MaxClearSize
  <2>4. self' \in SelfType /\ self'.ready = self.ready
    BY <1>2, <1>4, <2>3, ClearTreeType DEF Fresh, SelfType
  <2>. HIDE DEF g
  <2>5. QED  BY <1>1, <2>1, <2>2, <2>3, <2>4, FrameStep
<1>5. QED  BY <1>3, <1>4

LEMMA ClearOK ==
  ASSUME IInv, NEW t \in Threads, Clear(t)
  PROVE  IInv'
<1>. USE DEF IInv
<1>1. /\ thread[t] \in FrameType /\ FrameOK(thread[t])
      /\ tip' \in Templates /\ news' \in BOOLEAN /\ found' \subseteq {b.prev : b \in Templates}
      /\ got' \in Queues \cup {None}
      /\ thread[t].pc = "clear"
      /\ queue' \in [Queues -> QueueType]
      /\ making' \in {making, AgedMaking} /\ making' \in MakingType
  BY AgedMakingType DEF Clear, TypeOK, At
<1>2. self' \in SelfType /\ self'.ready = self.ready
  <2>1. <<>> \in Seq(RootType) /\ self \in SelfType
    BY DEF TypeOK
  <2>2. QED  BY <2>1 DEF Clear, SelfType, DropRoots
<1>3. CASE Goto(t, "ready")
  <2>. DEFINE g == [thread[t] EXCEPT !.pc = "ready"]
  <2>1. g \in FrameType /\ FrameOK(g) /\ g.pc = "ready"
    BY <1>1, GotoFrame DEF Labels, UpdatePlaces
  <2>2. SetThread(t, g)
    BY <1>3 DEF Goto
  <2>. HIDE DEF g
  <2>3. QED  BY <1>1, <1>2, <2>1, <2>2, FrameStep
<1>4. CASE Unwind(t)
  <2>1. SetThread(t, Start)
    BY <1>4 DEF Unwind
  <2>2. QED  BY <1>1, <1>2, <2>1, StartFrame, FrameStep
<1>5. QED  BY <1>3, <1>4 DEF Clear

\* The thread that sets `ready` is the one about to notify.
LEMMA SetReadyOK ==
  ASSUME IInv, NEW t \in Threads, SetReady(t)
  PROVE  IInv'
<1>. USE DEF IInv
<1>1. /\ thread[t] \in FrameType /\ FrameOK(thread[t])
      /\ tip' \in Templates /\ news' \in BOOLEAN /\ found' \subseteq {b.prev : b \in Templates}
      /\ got' \in Queues \cup {None}
      /\ thread[t].pc = "ready"
      /\ queue' \in [Queues -> QueueType]
      /\ making' = making /\ making' \in MakingType
  BY DEF SetReady, TypeOK, At
<1>2. self' \in SelfType
  BY DEF SetReady, TypeOK, SelfType
<1>. DEFINE p == IF self.ready THEN "need" ELSE "signal"
            g == [thread[t] EXCEPT !.pc = p]
<1>3. g \in FrameType /\ FrameOK(g) /\ g.pc = p
  BY <1>1, GotoFrame DEF Labels, UpdatePlaces
<1>4. SetThread(t, g)
  BY DEF SetReady, Goto
<1>5. TypeOK'
  <2>. HIDE DEF g
  <2>1. QED  BY <1>1, <1>2, <1>3, <1>4, FrameStep
<1>6. CASE self.ready
  <2>. HIDE DEF g
  <2>1. QED  BY <1>1, <1>2, <1>3, <1>4, <1>6, FrameStep
<1>7. CASE ~self.ready
  <2>1. thread'[t].pc = "signal"
    BY <1>3, <1>4, <1>7 DEF SetThread, SetThreads, TypeOK
  <2>2. QED  BY <1>5, <2>1 DEF WaiterIsWoken, At
<1>8. QED  BY <1>6, <1>7

LEMMA SignalOK ==
  ASSUME IInv, NEW t \in Threads, Signal(t)
  PROVE  IInv'
<1>. USE DEF IInv
<1>. DEFINE now == [u \in Threads |->
              IF u = t THEN [thread[u] EXCEPT !.pc = "need"]
              ELSE [thread[u] EXCEPT !.pc = IF @ = "waiting" THEN "getMC" ELSE @]]
<1>1. thread' = now /\ disturbed' = Worst(disturbed, Disturbance(now))
  BY DEF Signal, SetThreads
<1>2. ASSUME NEW u \in Threads
      PROVE  now[u] \in FrameType /\ FrameOK(now[u]) /\ now[u].pc # "waiting"
  <2>1. thread[u] \in FrameType /\ FrameOK(thread[u]) /\ thread[t].pc = "signal"
    BY DEF TypeOK, Signal, At
  <2>2. CASE u = t
    BY <2>1, <2>2, GotoFrame DEF Labels, UpdatePlaces
  <2>3. CASE u # t /\ thread[u].pc = "waiting"
    BY <2>1, <2>3, GotoFrame DEF Labels, JobPlaces
  <2>4. CASE u # t /\ thread[u].pc # "waiting"
    <3>1. now[u] = thread[u]
      BY <2>1, <2>4 DEF FrameType
    <3>2. QED  BY <2>1, <2>4, <3>1
  <2>5. QED  BY <2>2, <2>3, <2>4
<1>3. MM \in Threads
  BY DEF Threads, Pollers
<1>4. thread'[MM].pc \in {"made", "put"} => thread[MM].pc \in {"made", "put"}
  BY <1>1, <1>3 DEF TypeOK, FrameType
<1>5. MakingOK'
  BY <1>4 DEF MakingOK, TypeOK, Signal
<1>6. /\ thread' \in [Threads -> FrameType] /\ \A u \in Threads : FrameOK(thread'[u])
      /\ \A u \in Threads : thread'[u].pc # "waiting"
  <2>. HIDE DEF now
  <2>1. now \in [Threads -> FrameType]
    BY <1>2 DEF now
  <2>2. QED  BY <1>1, <1>2, <2>1
<1>7. disturbed' \in {Nothing, Race, Cut, Overlap}
  <2>. HIDE DEF now
  <2>1. QED  BY <1>1, WorstType DEF TypeOK
<1>8. TypeOK'
  BY <1>5, <1>6, <1>7 DEF TypeOK, Signal, FrameOK, Returns
<1>9. WaiterIsWoken'
  BY <1>6 DEF WaiterIsWoken, At
<1>10. QED  BY <1>8, <1>9

\* Every step of updateBlock, of whichever thread.
LEMMA UpdateBlockOK ==
  ASSUME IInv, NEW t \in Threads, UpdateBlock(t)
  PROVE  IInv'
  BY SameBlockOK, NewBlockOK, AssignOK, ReplaceOK, WakeOK, UnreadyOK, FreshOK, ClearOK,
     SetReadyOK, SignalOK, NeedOK DEF UpdateBlock

-----------------------------------------------------------------------------
\* The poll.

LEMMA FetchOK ==
  ASSUME IInv, NEW t \in Pollers, Fetch(t)
  PROVE  IInv'
<1>. USE DEF IInv
<1>. t \in Threads
  BY DEF Threads, Pollers
<1>1. /\ thread[t] \in FrameType /\ FrameOK(thread[t]) /\ thread[t].pc = "fetch"
      /\ tip' \in Templates
      /\ news' \in BOOLEAN
      /\ found' \subseteq {b.prev : b \in Templates}
      /\ got' \in Queues \cup {None}
      /\ making' = making /\ making' \in MakingType
      /\ queue' \in [Queues -> QueueType]
  BY DEF Fetch, TypeOK, At
<1>2. self' \in SelfType /\ self'.ready = self.ready
  BY DEF Fetch, TypeOK, SelfType
<1>3. CASE SetThread(t, [thread[t] EXCEPT !.pc = "process", !.template = tip])
  <2>. DEFINE g == [thread[t] EXCEPT !.pc = "process", !.template = tip]
  <2>1. tip \in Templates /\ "process" \in Labels /\ "process" \in PollPlaces
    BY DEF TypeOK, Labels, PollPlaces
  <2>2. /\ g \in FrameType /\ g.pc = "process" /\ g.stack = thread[t].stack
        /\ g.template \in Templates
    BY <1>1, <2>1 DEF FrameType
  <2>3. thread[t].stack = <<>>
    BY <1>1 DEF FrameOK, LoopPlaces
  <2>4. FrameOK(g)
    BY <2>1, <2>2, <2>3, Places DEF FrameOK
  <2>. HIDE DEF g
  <2>5. SetThread(t, g)
    BY <1>3 DEF g
  <2>6. QED  BY <1>1, <1>2, <2>2, <2>4, <2>5, FrameStep
<1>4. CASE Unwind(t)
  <2>1. SetThread(t, Start)
    BY <1>4 DEF Unwind
  <2>2. QED  BY <1>1, <1>2, <2>1, StartFrame, FrameStep
<1>5. QED  BY <1>3, <1>4 DEF Fetch

LEMMA ProcessOK ==
  ASSUME IInv, NEW t \in Pollers, Process(t)
  PROVE  IInv'
<1>. USE DEF IInv
<1>. t \in Threads
  BY DEF Threads, Pollers
<1>1. /\ thread[t] \in FrameType /\ FrameOK(thread[t]) /\ thread[t].pc = "process"
      /\ tip' \in Templates
      /\ news' \in BOOLEAN
      /\ found' \subseteq {b.prev : b \in Templates}
      /\ got' \in Queues \cup {None}
      /\ making' = making /\ making' \in MakingType
      /\ queue' \in [Queues -> QueueType]
      /\ self' = self /\ self' \in SelfType
  BY DEF Process, TypeOK, At
<1>2. CASE CallUpdateBlock(t, thread[t].template, "verdict")
  <2>. DEFINE b == thread[t].template
              u == [prev |-> b.prev, height |-> b.height, bits |-> b.bits, last |-> 0, ocmr |-> None]
              g == [thread[t] EXCEPT !.pc = "enter", !.stack = <<"verdict">> \o @, !.upd = u]
  <2>1. /\ thread[t].stack = <<>> /\ b \in Templates
        /\ "verdict" \in Returns(thread[t])
    BY <1>1 DEF FrameOK, PollPlaces, Returns
  <2>2. u \in UpdateType
    BY <2>1, TemplatesAssumption DEF UpdateType, BlockPrevs, BlockBits
  <2>3. g \in FrameType /\ FrameOK(g) /\ g.pc = "enter"
    <3>. HIDE DEF u
    <3>1. QED  BY <1>1, <2>1, <2>2, CallUpdateFrame
  <2>4. SetThread(t, g)
    BY <1>2 DEF CallUpdateBlock
  <2>. HIDE DEF g
  <2>5. QED  BY <1>1, <2>3, <2>4, FrameStep
<1>3. CASE Goto(t, "verdict")
  <2>. DEFINE g == [thread[t] EXCEPT !.pc = "verdict"]
  <2>1. g \in FrameType /\ FrameOK(g) /\ g.pc = "verdict"
    BY <1>1, GotoFrame DEF Labels, PollPlaces, LoopPlaces
  <2>2. SetThread(t, g)
    BY <1>3 DEF Goto
  <2>. HIDE DEF g
  <2>3. QED  BY <1>1, <2>1, <2>2, FrameStep
<1>4. QED  BY <1>2, <1>3 DEF Process

LEMMA CompareOK ==
  ASSUME IInv, NEW t \in Pollers, Compare(t)
  PROVE  IInv'
<1>. USE DEF IInv
<1>. t \in Threads
  BY DEF Threads, Pollers
<1>1. /\ thread[t] \in FrameType /\ FrameOK(thread[t]) /\ thread[t].pc = "compare"
      /\ tip' \in Templates
      /\ news' \in BOOLEAN
      /\ found' \subseteq {b.prev : b \in Templates}
      /\ got' \in Queues \cup {None}
      /\ making' = making /\ making' \in MakingType
      /\ queue' \in [Queues -> QueueType]
      /\ self' = self /\ self' \in SelfType
  BY DEF Compare, TypeOK, At
<1>2. CASE CallUpdateBlock(t, thread[t].template, "changed")
  <2>. DEFINE b == thread[t].template
              u == [prev |-> b.prev, height |-> b.height, bits |-> b.bits, last |-> 0, ocmr |-> None]
              g == [thread[t] EXCEPT !.pc = "enter", !.stack = <<"changed">> \o @, !.upd = u]
  <2>1. /\ thread[t].stack = <<>> /\ b \in Templates
        /\ "changed" \in Returns(thread[t])
    BY <1>1 DEF FrameOK, PollPlaces, Returns
  <2>2. u \in UpdateType
    BY <2>1, TemplatesAssumption DEF UpdateType, BlockPrevs, BlockBits
  <2>3. g \in FrameType /\ FrameOK(g) /\ g.pc = "enter"
    <3>. HIDE DEF u
    <3>1. QED  BY <1>1, <2>1, <2>2, CallUpdateFrame
  <2>4. SetThread(t, g)
    BY <1>2 DEF CallUpdateBlock
  <2>. HIDE DEF g
  <2>5. QED  BY <1>1, <2>3, <2>4, FrameStep
<1>3. CASE Goto(t, "adopt")
  <2>. DEFINE g == [thread[t] EXCEPT !.pc = "adopt"]
  <2>1. g \in FrameType /\ FrameOK(g) /\ g.pc = "adopt"
    BY <1>1, GotoFrame DEF Labels, PollPlaces, LoopPlaces
  <2>2. SetThread(t, g)
    BY <1>3 DEF Goto
  <2>. HIDE DEF g
  <2>3. QED  BY <1>1, <2>1, <2>2, FrameStep
<1>4. QED  BY <1>2, <1>3 DEF Compare

LEMMA VerdictOK ==
  ASSUME IInv, NEW t \in Pollers, Verdict(t)
  PROVE  IInv'
<1>. USE DEF IInv
<1>. t \in Threads
  BY DEF Threads, Pollers
<1>1. /\ thread[t] \in FrameType /\ FrameOK(thread[t]) /\ thread[t].pc = "verdict"
      /\ tip' \in Templates
      /\ news' \in BOOLEAN
      /\ found' \subseteq {b.prev : b \in Templates}
      /\ got' \in Queues \cup {None}
      /\ making' = making /\ making' \in MakingType
      /\ queue' \in [Queues -> QueueType]
      /\ self' = self /\ self' \in SelfType
  BY DEF Verdict, TypeOK, At
<1>2. CASE Unwind(t)
  <2>1. SetThread(t, Start)
    BY <1>2 DEF Unwind
  <2>2. QED  BY <1>1, <2>1, StartFrame, FrameStep
<1>3. CASE Goto(t, "compare")
  <2>. DEFINE g == [thread[t] EXCEPT !.pc = "compare"]
  <2>1. g \in FrameType /\ FrameOK(g) /\ g.pc = "compare"
    BY <1>1, GotoFrame DEF Labels, PollPlaces, LoopPlaces
  <2>2. SetThread(t, g)
    BY <1>3 DEF Goto
  <2>. HIDE DEF g
  <2>3. QED  BY <1>1, <2>1, <2>2, FrameStep
<1>4. QED  BY <1>2, <1>3 DEF Verdict

LEMMA AgedRootsType ==
  ASSUME NEW s \in Seq(RootType)
  PROVE  [i \in DOMAIN s |-> Aged(s[i])] \in Seq(RootType)
<1>1. Len(s) \in Nat /\ DOMAIN s = 1 .. Len(s) /\ \A i \in 1 .. Len(s) : s[i] \in RootType
  OBVIOUS
<1>2. \A i \in 1 .. Len(s) : Aged(s[i]) \in RootType
  BY <1>1 DEF Aged, RootType
<1>3. [i \in 1 .. Len(s) |-> Aged(s[i])] \in [1 .. Len(s) -> RootType]
  BY <1>2
<1>4. QED  BY <1>1, <1>3, SeqDef

LEMMA AdoptOK ==
  ASSUME IInv, NEW t \in Pollers, Adopt(t)
  PROVE  IInv'
<1>. USE DEF IInv
<1>. t \in Threads
  BY DEF Threads, Pollers
<1>1. /\ thread[t] \in FrameType /\ FrameOK(thread[t]) /\ thread[t].pc \in {"adopt", "changed"}
      /\ tip' \in Templates
      /\ news' \in BOOLEAN
      /\ found' \subseteq {b.prev : b \in Templates}
      /\ got' \in Queues \cup {None}
      /\ queue' \in [Queues -> QueueType]
  BY DEF Adopt, TypeOK, At
<1>2. making' = AgedMaking /\ making' \in MakingType
  BY AgedMakingType DEF Adopt, TypeOK
<1>3. self' \in SelfType /\ self'.ready = self.ready
  <2>1. self \in SelfType
    BY DEF TypeOK
  <2>2. [i \in DOMAIN self.merkleRoots |-> Aged(self.merkleRoots[i])] \in Seq(RootType)
    BY <2>1, AgedRootsType DEF SelfType
  <2>3. \A tree \in TreeType : WithMP(tree) \in TreeType
    BY DEF TreeType, WithMP
  <2>4. TemplateTree(thread[t].template) \in TreeType
    <3>1. thread[t].template \in Templates
      BY <1>1 DEF FrameOK, PollPlaces
    <3>2. QED  BY <3>1, TemplatesAssumption DEF TemplateTree, TreeType, BlockPrevs
  <2>. DEFINE roots == [i \in DOMAIN self.merkleRoots |-> Aged(self.merkleRoots[i])]
              tree == TemplateTree(thread[t].template)
              exist == self.curClearMerkleTree # None /\ self.nextMerkleTree # None
              cur == IF self.curClearMerkleTree = None THEN None ELSE WithMP(self.curClearMerkleTree)
              nxt == IF exist THEN WithMP(self.nextMerkleTree) ELSE self.nextMerkleTree
  <2>5. cur \in TreeType \cup {None} /\ nxt \in TreeType \cup {None}
    BY <2>1, <2>3 DEF SelfType
  <2>6. self' = [self EXCEPT !.currentMerkleTree = tree, !.merkleRoots = roots,
                             !.curClearMerkleTree = cur, !.nextMerkleTree = nxt]
    BY DEF Adopt
  <2>. HIDE DEF roots, tree, cur, nxt
  <2>7. roots \in Seq(RootType) /\ tree \in TreeType
    BY <2>2, <2>4 DEF roots, tree
  <2>8. QED  BY <2>1, <2>5, <2>6, <2>7 DEF SelfType
<1>4. CASE Unwind(t)
  <2>1. SetThread(t, Start)
    BY <1>4 DEF Unwind
  <2>2. QED  BY <1>1, <1>2, <1>3, <2>1, StartFrame, FrameStep
<1>5. ASSUME NEW l \in {"notify", "settle"}, Goto(t, l)
      PROVE  IInv'
  <2>. DEFINE g == [thread[t] EXCEPT !.pc = l]
  <2>1. l \in Labels /\ l \in LoopPlaces /\ thread[t].pc \in PollPlaces
    BY <1>1 DEF Labels, LoopPlaces, PollPlaces
  <2>2. g \in FrameType /\ FrameOK(g) /\ g.pc = l
    BY <1>1, <2>1, GotoFrame
  <2>3. SetThread(t, g)
    BY <1>5 DEF Goto
  <2>. HIDE DEF g
  <2>4. QED  BY <1>1, <1>2, <1>3, <2>2, <2>3, FrameStep
<1>6. Unwind(t) \/ Goto(t, "notify") \/ Goto(t, "settle")
  BY DEF Adopt
<1>7. QED  BY <1>4, <1>5, <1>6

LEMMA NotifyOK ==
  ASSUME IInv, NEW t \in Pollers, Notify(t)
  PROVE  IInv'
<1>. USE DEF IInv
<1>. t \in Threads
  BY DEF Threads, Pollers
<1>1. /\ thread[t] \in FrameType /\ FrameOK(thread[t]) /\ thread[t].pc = "notify"
      /\ tip' \in Templates
      /\ news' \in BOOLEAN
      /\ found' \subseteq {b.prev : b \in Templates}
      /\ got' \in Queues \cup {None}
      /\ making' = making /\ making' \in MakingType
      /\ queue' \in [Queues -> QueueType]
  BY DEF Notify, TypeOK, At
<1>2. self' \in SelfType /\ self'.ready = self.ready
  BY DEF Notify, TypeOK, SelfType, NewTarget, BlockType
<1>. DEFINE g == [thread[t] EXCEPT !.pc = "getMC", !.stack = <<"settle">> \o @]
<1>3. g \in FrameType /\ FrameOK(g) /\ g.pc = "getMC"
  BY <1>1, CallJobFrame DEF Labels, LoopPlaces
<1>4. SetThread(t, g)
  BY DEF Notify, Call
<1>5. QED
  <2>. HIDE DEF g
  <2>1. QED  BY <1>1, <1>2, <1>3, <1>4, FrameStep

LEMMA SettleOK ==
  ASSUME IInv, NEW t \in Pollers, Settle(t)
  PROVE  IInv'
<1>. USE DEF IInv
<1>. t \in Threads
  BY DEF Threads, Pollers
<1>1. /\ thread[t] \in FrameType /\ FrameOK(thread[t]) /\ thread[t].pc = "settle"
      /\ tip' \in Templates
      /\ news' \in BOOLEAN
      /\ found' \subseteq {b.prev : b \in Templates}
      /\ got' \in Queues \cup {None}
      /\ making' = making /\ making' \in MakingType
      /\ queue' \in [Queues -> QueueType]
  BY DEF Settle, TypeOK, At
<1>2. self' \in SelfType /\ self'.ready = self.ready
  <2>. DEFINE need == IF self.needMerkle = 2 THEN 1 ELSE self.needMerkle
  <2>1. self \in SelfType
    BY DEF TypeOK
  <2>2. need \in 0 .. 2
    BY <2>1 DEF SelfType
  <2>3. self' = [self EXCEPT !.due = FALSE, !.needMerkle = need]
    BY DEF Settle
  <2>. HIDE DEF need
  <2>4. QED  BY <2>1, <2>2, <2>3 DEF SelfType
<1>3. SetThread(t, Start)
  BY DEF Settle, Unwind
<1>4. QED  BY <1>1, <1>2, <1>3, StartFrame, FrameStep

LEMMA PollOK ==
  ASSUME IInv, NEW t \in Pollers, Poll(t)
  PROVE  IInv'
  BY FetchOK, ProcessOK, VerdictOK, CompareOK, AdoptOK, NotifyOK, SettleOK DEF Poll

-----------------------------------------------------------------------------
\* The loop of the merkleMaker thread.

LEMMA LoopPollOK ==
  ASSUME IInv, LoopPoll
  PROVE  IInv'
<1>. USE DEF IInv
<1>. MM \in Threads
  BY DEF Threads, Pollers
<1>1. /\ thread[MM] \in FrameType /\ FrameOK(thread[MM]) /\ thread[MM].pc = "idle"
      /\ tip' \in Templates
      /\ news' \in BOOLEAN
      /\ found' \subseteq {b.prev : b \in Templates}
      /\ got' \in Queues \cup {None}
      /\ making' = making /\ making' \in MakingType
      /\ queue' \in [Queues -> QueueType]
      /\ self' = self /\ self' \in SelfType
  BY DEF LoopPoll, TypeOK, At
<1>. DEFINE g == [thread[MM] EXCEPT !.pc = "fetch"]
<1>3. g \in FrameType /\ FrameOK(g) /\ g.pc = "fetch"
  BY <1>1, GotoFrame DEF Labels, LoopPlaces
<1>4. SetThread(MM, g)
  BY DEF LoopPoll, Goto
<1>5. QED
  <2>. HIDE DEF g
  <2>1. QED  BY <1>1, <1>3, <1>4, FrameStep

LEMMA MakeType ==
  ASSUME self \in SelfType, NEW into \in Queues \cup {Deque}, NEW tree \in TreeType \cup {None},
         NEW height \in Nat, Make(into, tree, height)
  PROVE  /\ making' \in MakingType
         /\ making'.into \in Queues \cup {Deque} /\ making'.root \in RootType
<1>1. tree \in TreeType
  BY DEF Make
<1>2. Root(tree, height) \in RootType
  BY <1>1 DEF Root, RootType, TreeType
<1>3. self.currentBlock.height \in Nat
  BY DEF SelfType, BlockType
<1>4. QED  BY <1>2, <1>3 DEF Make, MakingType

LEMMA LoopMakeOK ==
  ASSUME IInv, LoopMake
  PROVE  IInv'
<1>. USE DEF IInv
<1>. MM \in Threads
  BY DEF Threads, Pollers
<1>1. /\ thread[MM] \in FrameType /\ FrameOK(thread[MM]) /\ thread[MM].pc = "idle"
      /\ tip' \in Templates
      /\ news' \in BOOLEAN
      /\ found' \subseteq {b.prev : b \in Templates}
      /\ got' \in Queues \cup {None}
      /\ queue' \in [Queues -> QueueType]
      /\ self' = self /\ self' \in SelfType
  BY DEF LoopMake, TypeOK, At
<1>2. /\ making' \in MakingType
      /\ making'.into \in Queues \cup {Deque} /\ making'.root \in RootType
  <2>1. self \in SelfType
    BY DEF TypeOK
  <2>2. /\ self.clearMerkleRoots \in Queues /\ self.nextMerkleRoots \in Queues
        /\ self.curClearMerkleTree \in TreeType \cup {None}
        /\ self.nextMerkleTree \in TreeType \cup {None}
        /\ self.currentMerkleTree \in TreeType \cup {None}
    BY <2>1 DEF SelfType
  <2>3. self.currentBlock.height \in Nat /\ self.currentBlock.height + 1 \in Nat
    BY <2>1 DEF SelfType, BlockType
  <2>4. QED  BY <2>1, <2>2, <2>3, MakeType DEF LoopMake
<1>. DEFINE g == [thread[MM] EXCEPT !.pc = "made"]
<1>3. g \in FrameType /\ FrameOK(g) /\ g.pc = "made"
  BY <1>1, GotoFrame DEF Labels, LoopPlaces
<1>4. SetThread(MM, g)
  BY DEF LoopMake, Goto
<1>5. QED
  <2>. HIDE DEF g
  <2>1. QED  BY <1>1, <1>2, <1>3, <1>4, FrameStep

LEMMA CheckHeightOK ==
  ASSUME IInv, CheckHeight
  PROVE  IInv'
<1>. USE DEF IInv
<1>. MM \in Threads
  BY DEF Threads, Pollers
<1>1. /\ thread[MM] \in FrameType /\ FrameOK(thread[MM]) /\ thread[MM].pc = "made"
      /\ tip' \in Templates
      /\ news' \in BOOLEAN
      /\ found' \subseteq {b.prev : b \in Templates}
      /\ got' \in Queues \cup {None}
      /\ queue' \in [Queues -> QueueType]
      /\ self' = self /\ self' \in SelfType
  BY DEF CheckHeight, TypeOK, At
<1>2. making \in MakingType /\ making.into \in Queues \cup {Deque} /\ making.root \in RootType
  BY <1>1 DEF TypeOK, MakingOK
<1>3. CASE Goto(MM, "put") /\ UNCHANGED making
  <2>. DEFINE g == [thread[MM] EXCEPT !.pc = "put"]
  <2>1. g \in FrameType /\ FrameOK(g) /\ g.pc = "put"
    BY <1>1, GotoFrame DEF Labels, LoopPlaces
  <2>2. SetThread(MM, g)
    BY <1>3 DEF Goto
  <2>. HIDE DEF g
  <2>3. QED  BY <1>1, <1>2, <1>3, <2>1, <2>2, FrameStep
<1>4. CASE Goto(MM, "idle") /\ making' = NotMaking
  <2>. DEFINE g == [thread[MM] EXCEPT !.pc = "idle"]
  <2>1. g \in FrameType /\ FrameOK(g) /\ g.pc = "idle"
    BY <1>1, GotoFrame DEF Labels, LoopPlaces
  <2>2. SetThread(MM, g) /\ making' \in MakingType
    BY <1>4 DEF Goto, NotMaking, MakingType
  <2>. HIDE DEF g
  <2>3. QED  BY <1>1, <2>1, <2>2, FrameStep
<1>5. QED  BY <1>3, <1>4 DEF CheckHeight

LEMMA PutOK ==
  ASSUME IInv, Put
  PROVE  IInv'
<1>. USE DEF IInv
<1>. MM \in Threads
  BY DEF Threads, Pollers
<1>1. /\ thread[MM] \in FrameType /\ FrameOK(thread[MM]) /\ thread[MM].pc = "put"
      /\ tip' \in Templates
      /\ news' \in BOOLEAN
      /\ found' \subseteq {b.prev : b \in Templates}
      /\ got' \in Queues \cup {None}
  BY DEF Put, TypeOK, At
<1>2. making' \in MakingType /\ making.root \in RootType
  BY <1>1 DEF Put, NotMaking, MakingType, TypeOK, MakingOK
<1>6. /\ self' \in SelfType /\ self'.ready = self.ready
      /\ queue' \in [Queues -> QueueType]
  <2>1. self \in SelfType /\ queue \in [Queues -> QueueType]
    BY DEF TypeOK
  <2>2. CASE PutRegular
    <3>. DEFINE rest == IF Len(self.merkleRoots) < RegularMax THEN self.merkleRoots
                        ELSE Tail(self.merkleRoots)
                roots == rest \o <<making.root>>
    <3>1. self.merkleRoots \in Seq(RootType) /\ RegularMax \in Nat /\ RegularMax > 0
      BY <2>1, SizesAssumption DEF SelfType
    <3>2. rest \in Seq(RootType)
      BY <3>1
    <3>3. roots \in Seq(RootType)
      <4>. HIDE DEF rest
      <4>1. QED  BY <1>2, <3>2
    <3>4. self' = [self EXCEPT !.merkleRoots = roots] /\ queue' = queue
      BY <2>2 DEF PutRegular
    <3>. HIDE DEF roots
    <3>5. QED  BY <2>1, <3>3, <3>4 DEF SelfType
  <2>3. CASE PutQueue
    <3>. DEFINE q == making.into
                items == Append(queue[q].items, making.root)
    <3>1. q \in Queues /\ self' = self
      BY <2>3 DEF PutQueue
    <3>2. items \in Seq(RootType \cup {None})
      BY <1>2, <2>1, <3>1 DEF QueueType
    <3>3. queue' = [queue EXCEPT ![q].items = items]
      BY <2>3 DEF PutQueue
    <3>. HIDE DEF items, q
    <3>4. [queue[q] EXCEPT !.items = items] \in QueueType
      BY <2>1, <3>1, <3>2 DEF QueueType
    <3>5. QED  BY <2>1, <3>1, <3>3, <3>4
  <2>4. QED  BY <2>2, <2>3 DEF Put
<1>. DEFINE g == [thread[MM] EXCEPT !.pc = "idle"]
<1>3. g \in FrameType /\ FrameOK(g) /\ g.pc = "idle"
  BY <1>1, GotoFrame DEF Labels, LoopPlaces
<1>4. SetThread(MM, g)
  BY DEF Put, Goto
<1>5. QED
  <2>. HIDE DEF g
  <2>1. QED  BY <1>1, <1>2, <1>6, <1>3, <1>4, FrameStep

LEMMA LoopFireOK ==
  ASSUME IInv, LoopFire
  PROVE  IInv'
<1>. USE DEF IInv
<1>. MM \in Threads
  BY DEF Threads, Pollers
<1>1. /\ thread[MM] \in FrameType /\ FrameOK(thread[MM]) /\ thread[MM].pc = "idle"
      /\ tip' \in Templates
      /\ news' \in BOOLEAN
      /\ found' \subseteq {b.prev : b \in Templates}
      /\ got' \in Queues \cup {None}
      /\ making' = making /\ making' \in MakingType
      /\ queue' \in [Queues -> QueueType]
      /\ self' = self /\ self' \in SelfType
  BY DEF LoopFire, TypeOK, At
<1>. DEFINE g == [thread[MM] EXCEPT !.pc = "getMC", !.stack = <<"fired">> \o @]
<1>3. g \in FrameType /\ FrameOK(g) /\ g.pc = "getMC"
  BY <1>1, CallJobFrame DEF Labels, LoopPlaces
<1>4. SetThread(MM, g)
  BY DEF LoopFire, Call
<1>5. QED
  <2>. HIDE DEF g
  <2>1. QED  BY <1>1, <1>3, <1>4, FrameStep

LEMMA FiredOK ==
  ASSUME IInv, Fired
  PROVE  IInv'
<1>. USE DEF IInv
<1>. MM \in Threads
  BY DEF Threads, Pollers
<1>1. /\ thread[MM] \in FrameType /\ FrameOK(thread[MM]) /\ thread[MM].pc = "fired"
      /\ tip' \in Templates
      /\ news' \in BOOLEAN
      /\ found' \subseteq {b.prev : b \in Templates}
      /\ got' \in Queues \cup {None}
      /\ making' = making /\ making' \in MakingType
      /\ queue' \in [Queues -> QueueType]
  BY DEF Fired, TypeOK, At
<1>2. self' \in SelfType /\ self'.ready = self.ready
  <2>1. self \in SelfType /\ 0 \in 0 .. 2
    BY DEF TypeOK
  <2>2. self' = [self EXCEPT !.needMerkle = 0]
    BY DEF Fired
  <2>3. QED  BY <2>1, <2>2 DEF SelfType
<1>. DEFINE g == [thread[MM] EXCEPT !.pc = "idle"]
<1>3. g \in FrameType /\ FrameOK(g) /\ g.pc = "idle"
  BY <1>1, GotoFrame DEF Labels, LoopPlaces
<1>4. SetThread(MM, g)
  BY DEF Fired, Goto
<1>5. QED
  <2>. HIDE DEF g
  <2>1. QED  BY <1>1, <1>2, <1>3, <1>4, FrameStep

LEMMA MerkleMakerThreadOK ==
  ASSUME IInv, MerkleMakerThread
  PROVE  IInv'
  BY LoopPollOK, LoopMakeOK, CheckHeightOK, PutOK, LoopFireOK, FiredOK DEF MerkleMakerThread

-----------------------------------------------------------------------------
\* Taking work, the calls, upstream and time.

LEMMA GetMCOK ==
  ASSUME IInv, NEW t \in Threads, GetMC(t)
  PROVE  IInv'
<1>. USE DEF IInv
<1>1. /\ thread[t] \in FrameType /\ FrameOK(thread[t]) /\ thread[t].pc = "getMC"
      /\ tip' \in Templates
      /\ news' \in BOOLEAN
      /\ found' \subseteq {b.prev : b \in Templates}
      /\ got' \in Queues \cup {None}
      /\ making' = making /\ making' \in MakingType
      /\ queue' \in [Queues -> QueueType]
      /\ self' = self /\ self' \in SelfType
  BY DEF GetMC, TypeOK, At
<1>. DEFINE p == IF self.ready THEN "job" ELSE "waiting"
            g == [thread[t] EXCEPT !.pc = p]
<1>2. p \in Labels /\ p \in JobPlaces /\ p \notin {"assign", "made", "put"}
  BY DEF Labels, JobPlaces
<1>3. g \in FrameType /\ FrameOK(g) /\ g.pc = p
  <2>. HIDE DEF p
  <2>1. QED  BY <1>1, <1>2, GotoFrame DEF JobPlaces
<1>4. SetThread(t, g)
  BY DEF GetMC, Goto
<1>5. self'.ready => p # "waiting"
  BY <1>1
<1>6. QED
  <2>. HIDE DEF g, p
  <2>1. QED  BY <1>1, <1>2, <1>3, <1>4, <1>5, FrameStep

LEMMA JobOK ==
  ASSUME IInv, NEW t \in Threads, Job(t)
  PROVE  IInv'
<1>. USE DEF IInv
<1>1. /\ thread[t] \in FrameType /\ FrameOK(thread[t]) /\ thread[t].pc = "job"
      /\ tip' \in Templates
      /\ news' \in BOOLEAN
      /\ found' \subseteq {b.prev : b \in Templates}
      /\ got' \in Queues \cup {None}
      /\ making' = making /\ making' \in MakingType
      /\ queue' \in [Queues -> QueueType]
      /\ self' = self /\ self' \in SelfType
  BY DEF Job, TypeOK, At
<1>2. CASE Return(t)
  <2>. DEFINE g == [thread[t] EXCEPT !.pc = Head(thread[t].stack), !.stack = Tail(@)]
  <2>1. g \in FrameType /\ FrameOK(g) /\ g.pc \in {"idle", "settle", "fired", "newblock"}
    BY <1>1, ReturnJobFrame
  <2>2. SetThread(t, g)
    BY <1>2 DEF Return
  <2>. HIDE DEF g
  <2>3. QED  BY <1>1, <2>1, <2>2, FrameStep
<1>3. CASE Unwind(t)
  <2>1. SetThread(t, Start)
    BY <1>3 DEF Unwind
  <2>2. QED  BY <1>1, <2>1, StartFrame, FrameStep
<1>4. QED  BY <1>2, <1>3 DEF Job

\* A step in which no thread moves and `ready` stays.
LEMMA StillStep ==
  ASSUME IInv, UNCHANGED <<thread, making, disturbed>>, self'.ready = self.ready,
         tip' \in Templates, news' \in BOOLEAN, found' \subseteq {b.prev : b \in Templates},
         self' \in SelfType, queue' \in [Queues -> QueueType], got' \in Queues \cup {None}
  PROVE  IInv'
  BY DEF IInv, TypeOK, WaiterIsWoken, At, MakingOK, FrameOK, Returns

LEMMA PopRegularOK ==
  ASSUME IInv, PopRegular
  PROVE  IInv'
<1>. USE DEF IInv
<1>1. self \in SelfType
  BY DEF TypeOK
<1>. DEFINE roots == SubSeq(self.merkleRoots, 1, Len(self.merkleRoots) - 1)
<1>2. roots \in Seq(RootType)
  BY <1>1 DEF SelfType
<1>3. self' = [self EXCEPT !.merkleRoots = roots]
  BY DEF PopRegular
<1>4. self' \in SelfType /\ self'.ready = self.ready
  <2>. HIDE DEF roots
  <2>1. QED  BY <1>1, <1>2, <1>3 DEF SelfType
<1>5. QED  BY <1>4, StillStep DEF PopRegular, TypeOK

LEMMA RunOutOK ==
  ASSUME IInv, RunOut
  PROVE  IInv'
<1>. USE DEF IInv
<1>. Getwork \in Threads /\ Getwork # MM
  BY ThreadsAssumption DEF Threads, Servers
<1>1. /\ thread[Getwork] \in FrameType /\ FrameOK(thread[Getwork]) /\ thread[Getwork].pc = "idle"
      /\ tip' \in Templates
      /\ news' \in BOOLEAN
      /\ found' \subseteq {b.prev : b \in Templates}
      /\ making' = making /\ making' \in MakingType
      /\ queue' \in [Queues -> QueueType]
      /\ self' = self /\ self' \in SelfType
  BY DEF RunOut, TypeOK, At
<1>2. got' \in Queues \cup {None}
  BY DEF RunOut, TypeOK, SelfType
<1>. DEFINE g == [thread[Getwork] EXCEPT !.pc = "get"]
<1>3. g \in FrameType /\ FrameOK(g) /\ g.pc = "get"
  BY <1>1, GotoFrame DEF Labels, LoopPlaces
<1>4. SetThread(Getwork, g)
  BY DEF RunOut, Goto
<1>5. QED
  <2>. HIDE DEF g
  <2>1. QED  BY <1>1, <1>2, <1>3, <1>4, FrameStep

LEMMA GetClearOK ==
  ASSUME IInv, GetClear
  PROVE  IInv'
<1>. USE DEF IInv
<1>. Getwork \in Threads /\ Getwork # MM
  BY ThreadsAssumption DEF Threads, Servers
<1>1. /\ thread[Getwork] \in FrameType /\ FrameOK(thread[Getwork]) /\ thread[Getwork].pc = "get"
      /\ tip' \in Templates
      /\ news' \in BOOLEAN
      /\ found' \subseteq {b.prev : b \in Templates}
      /\ making' = making /\ making' \in MakingType
      /\ self' = self /\ self' \in SelfType
  BY DEF GetClear, TypeOK, At
<1>2. queue' \in [Queues -> QueueType]
  <2>1. queue \in [Queues -> QueueType]
    BY DEF TypeOK
  <2>2. CASE got \in Queues
    <3>. DEFINE items == Tail(queue[got].items)
    <3>1. queue[got].items \in Seq(RootType \cup {None}) /\ queue[got].items # <<>>
      BY <2>1, <2>2 DEF QueueType, GetClear
    <3>2. items \in Seq(RootType \cup {None})
      BY <3>1
    <3>3. queue' = [queue EXCEPT ![got].items = items]
      BY DEF GetClear
    <3>. HIDE DEF items
    <3>4. [queue[got] EXCEPT !.items = items] \in QueueType
      BY <2>1, <2>2, <3>2 DEF QueueType
    <3>5. QED  BY <2>1, <2>2, <3>3, <3>4
  <2>3. CASE got \notin Queues
    BY <2>1, <2>3 DEF GetClear
  <2>4. QED  BY <2>2, <2>3
<1>3. got' \in Queues \cup {None}
  BY DEF GetClear, TypeOK, SelfType
<1>4. CASE UNCHANGED <<thread, disturbed>>
  BY <1>1, <1>2, <1>3, <1>4, StillStep
<1>5. CASE Goto(Getwork, "idle")
  <2>. DEFINE g == [thread[Getwork] EXCEPT !.pc = "idle"]
  <2>1. g \in FrameType /\ FrameOK(g) /\ g.pc = "idle"
    BY <1>1, GotoFrame DEF Labels, LoopPlaces
  <2>2. SetThread(Getwork, g)
    BY <1>5 DEF Goto
  <2>. HIDE DEF g
  <2>3. QED  BY <1>1, <1>2, <1>3, <2>1, <2>2, FrameStep
<1>6. QED  BY <1>4, <1>5 DEF GetClear

LEMMA StartGetMCOK ==
  ASSUME IInv, NEW t \in Takers, StartGetMC(t)
  PROVE  IInv'
<1>. USE DEF IInv
<1>. t \in Threads
  BY DEF Threads, Servers
<1>1. /\ thread[t] \in FrameType /\ FrameOK(thread[t]) /\ thread[t].pc = "idle"
      /\ tip' \in Templates
      /\ news' \in BOOLEAN
      /\ found' \subseteq {b.prev : b \in Templates}
      /\ got' \in Queues \cup {None}
      /\ making' = making /\ making' \in MakingType
      /\ queue' \in [Queues -> QueueType]
      /\ self' = self /\ self' \in SelfType
  BY DEF StartGetMC, TypeOK, At
<1>. DEFINE g == [thread[t] EXCEPT !.pc = "getMC", !.stack = <<"idle">> \o @]
<1>3. g \in FrameType /\ FrameOK(g) /\ g.pc = "getMC"
  BY <1>1, CallJobFrame DEF Labels, LoopPlaces
<1>4. SetThread(t, g)
  BY DEF StartGetMC, Call
<1>5. QED
  <2>. HIDE DEF g
  <2>1. QED  BY <1>1, <1>3, <1>4, FrameStep

LEMMA StartShareOK ==
  ASSUME IInv, NEW t \in Finders, StartShare(t)
  PROVE  IInv'
<1>. USE DEF IInv
<1>. t \in Threads
  BY DEF Threads, Servers
<1>1. /\ thread[t] \in FrameType /\ FrameOK(thread[t]) /\ thread[t].pc = "idle"
      /\ tip' \in Templates
      /\ news' \in BOOLEAN
      /\ got' \in Queues \cup {None}
      /\ making' = making /\ making' \in MakingType
      /\ queue' \in [Queues -> QueueType]
      /\ self' = self /\ self' \in SelfType
  BY DEF StartShare, TypeOK, At
<1>2. PICK b \in Templates :
        /\ found' = found \cup {b.prev}
        /\ CallUpdateBlock(t, [prev |-> b.prev, height |-> 0, bits |-> None], "idle")
  BY DEF StartShare
<1>. DEFINE u == [prev |-> b.prev, height |-> 0, bits |-> None, last |-> 0, ocmr |-> None]
            g == [thread[t] EXCEPT !.pc = "enter", !.stack = <<"idle">> \o @, !.upd = u]
<1>3. found' \subseteq {c.prev : c \in Templates}
  BY <1>2 DEF TypeOK
<1>4. thread[t].stack = <<>> /\ "idle" \in Returns(thread[t]) /\ u \in UpdateType
  BY <1>1 DEF FrameOK, LoopPlaces, Returns, UpdateType, BlockPrevs, BlockBits
<1>5. g \in FrameType /\ FrameOK(g) /\ g.pc = "enter"
  <2>. HIDE DEF u
  <2>1. QED  BY <1>1, <1>4, CallUpdateFrame
<1>6. SetThread(t, g)
  BY <1>2 DEF CallUpdateBlock
<1>7. QED
  <2>. HIDE DEF g
  <2>1. QED  BY <1>1, <1>3, <1>5, <1>6, FrameStep

LEMMA StartPollOK ==
  ASSUME IInv, NEW t \in Notified, StartPoll(t)
  PROVE  IInv'
<1>. USE DEF IInv
<1>. t \in Threads
  BY DEF Threads, Pollers
<1>1. /\ thread[t] \in FrameType /\ FrameOK(thread[t]) /\ thread[t].pc = "idle"
      /\ tip' \in Templates
      /\ found' \subseteq {b.prev : b \in Templates}
      /\ got' \in Queues \cup {None}
      /\ making' = making /\ making' \in MakingType
      /\ queue' \in [Queues -> QueueType]
      /\ self' = self /\ self' \in SelfType
  BY DEF StartPoll, TypeOK, At
<1>2. news' \in BOOLEAN
  BY DEF StartPoll
<1>. DEFINE g == [thread[t] EXCEPT !.pc = "fetch"]
<1>3. g \in FrameType /\ FrameOK(g) /\ g.pc = "fetch"
  BY <1>1, GotoFrame DEF Labels, LoopPlaces
<1>4. SetThread(t, g)
  BY DEF StartPoll, Goto
<1>5. QED
  <2>. HIDE DEF g
  <2>1. QED  BY <1>1, <1>2, <1>3, <1>4, FrameStep

LEMMA EnvironmentOK ==
  ASSUME IInv, NewTip \/ Tick
  PROVE  IInv'
<1>1. CASE NewTip
  BY <1>1, StillStep DEF NewTip, IInv, TypeOK
<1>2. CASE Tick
  <2>1. self' \in SelfType /\ self'.ready = self.ready
    BY <1>2 DEF Tick, IInv, TypeOK, SelfType
  <2>2. QED  BY <1>2, <2>1, StillStep DEF Tick, IInv, TypeOK
<1>3. QED  BY <1>1, <1>2

-----------------------------------------------------------------------------
LEMMA InitOK == Init => IInv
<1>. SUFFICES ASSUME Init PROVE IInv
  OBVIOUS
<1>1. self \in SelfType
  <2>1. NoBlock \in BlockType /\ <<>> \in Seq(RootType) /\ None \in BlockBits
    BY DEF NoBlock, BlockType, BlockPrevs, BlockBits
  <2>2. 1 \in Queues /\ 2 \in Queues
    BY SizesAssumption DEF Queues
  <2>3. QED  BY <2>1, <2>2 DEF Init, SelfType
<1>2. queue \in [Queues -> QueueType]
  <2>1. <<>> \in Seq(RootType \cup {None}) /\ MaxClearSize \in {ClearMax, NextMax}
    BY DEF MaxClearSize
  <2>2. QED  BY <2>1 DEF Init, QueueType
<1>3. thread \in [Threads -> FrameType] /\ \A t \in Threads : FrameOK(thread[t])
  BY StartFrame DEF Init
<1>4. MM \in Threads /\ thread[MM].pc = "idle"
  BY StartFrame DEF Init, Threads, Pollers
<1>5. making \in MakingType /\ MakingOK
  BY <1>4 DEF Init, NotMaking, MakingType, MakingOK
<1>6. TypeOK
  BY <1>1, <1>2, <1>3, <1>5 DEF Init, TypeOK
<1>7. WaiterIsWoken
  BY <1>1 DEF Init, WaiterIsWoken
<1>8. QED  BY <1>6, <1>7 DEF IInv

LEMMA NextOK == IInv /\ [Next]_vars => IInv'
<1>. SUFFICES ASSUME IInv, [Next]_vars PROVE IInv'
  OBVIOUS
<1>1. CASE UNCHANGED vars
  BY <1>1, StillStep DEF vars, IInv, TypeOK
<1>2. CASE ThreadStep
  BY <1>2, MerkleMakerThreadOK, PollOK, UpdateBlockOK, GetMCOK, JobOK, PopRegularOK, RunOutOK,
     GetClearOK DEF ThreadStep, GetMRD
<1>3. CASE CallStep
  BY <1>3, StartGetMCOK, StartShareOK, StartPollOK DEF CallStep
<1>4. QED  BY <1>1, <1>2, <1>3, EnvironmentOK DEF Next

\* Every variable holds what the code can put there, and every call returns to
\* a place that can go on.
THEOREM TypeCorrect == Spec => []TypeOK
<1>1. IInv => TypeOK
  BY DEF IInv
<1>2. QED  BY <1>1, InitOK, NextOK, PTL DEF Spec

\* However the unlocked writes of `ready` interleave, a getMC that waits on
\* readyCV while `ready` holds is about to be notified.
THEOREM WaitersAreWoken == Spec => []WaiterIsWoken
<1>1. IInv => WaiterIsWoken
  BY DEF IInv
<1>2. QED  BY <1>1, InitOK, NextOK, PTL DEF Spec

-----------------------------------------------------------------------------
\* What a step leaves of the history, and what it does to its thread's frame.

Updating(f) == f.pc \in UpdatePlaces
Alone == \A t, u \in Threads : Updating(thread[t]) /\ Updating(thread[u]) => t = u
Unhindered ==
  /\ thread[MM].pc \in {"made", "put"} => \A u \in Threads \ {MM} : ~Updating(thread[u])
  /\ \A t \in Pollers : thread[t].pc \in {"adopt", "changed"} =>
       \A u \in Threads \ {t} : ~Updating(thread[u])

\* As long as nothing worse is recorded, nothing worse has happened: the
\* history is of use because it can only get worse.
StillCalm ==
  /\ disturbed' # Overlap => disturbed # Overlap /\ Alone'
  /\ disturbed' <= Race => disturbed <= Race /\ \A t \in Threads :
       thread[t].pc \in {"replace", "fresh", "clear"} => thread'[t].pc # "idle"
  /\ disturbed' = Nothing => disturbed = Nothing /\ Unhindered'

LEMMA Calm ==
  ASSUME TypeOK, NEW now, SetThreads(now)
  PROVE  thread' = now /\ StillCalm
<1>. DEFINE updating == {t \in Threads : now[t].pc \in UpdatePlaces}
            cut == \E t \in Threads :
                     thread[t].pc \in {"replace", "fresh", "clear"} /\ now[t].pc = "idle"
            unguarded == \/ now[MM].pc \in {"made", "put"} /\ updating \ {MM} # {}
                         \/ \E t \in Pollers : /\ now[t].pc \in {"adopt", "changed"}
                                                /\ updating \ {t} # {}
            overlap == \E t, u \in updating : t # u
<1>1. thread' = now /\ disturbed' = Worst(disturbed, Disturbance(now))
  BY DEF SetThreads
<1>2. Disturbance(now) = IF overlap THEN Overlap ELSE IF cut THEN Cut
                         ELSE IF unguarded THEN Race ELSE Nothing
  BY DEF Disturbance
<1>. HIDE DEF overlap, cut, unguarded
<1>3. disturbed \in {0, 1, 2, 3}
  BY DEF TypeOK, Nothing, Race, Cut, Overlap
<1>4. /\ disturbed' # Overlap => disturbed # Overlap /\ ~overlap
      /\ disturbed' <= Race => disturbed <= Race /\ ~cut
      /\ disturbed' = Nothing => disturbed = Nothing /\ ~unguarded
  BY <1>1, <1>2, <1>3 DEF Worst, Nothing, Race, Cut, Overlap
<1>5. ~overlap => Alone'
  BY <1>1 DEF overlap, Alone, Updating
<1>6. ~cut => \A t \in Threads :
        thread[t].pc \in {"replace", "fresh", "clear"} => thread'[t].pc # "idle"
  BY <1>1 DEF cut
<1>7. ~unguarded => Unhindered'
  BY <1>1 DEF unguarded, Unhindered, Updating
<1>8. QED  BY <1>1, <1>4, <1>5, <1>6, <1>7 DEF StillCalm

\* Thread t has moved to place l, with this stack, template and locals.
Moved(t, l, s, b, u) ==
  /\ thread'[t].pc = l /\ thread'[t].stack = s /\ thread'[t].template = b
  /\ thread'[t].upd = u
  /\ \A v \in Threads : v # t => thread'[v] = thread[v]
  /\ StillCalm

LEMMA MovedTo ==
  ASSUME TypeOK, NEW t \in Threads, NEW f, SetThread(t, f)
  PROVE  Moved(t, f.pc, f.stack, f.template, f.upd)
<1>1. thread' = [thread EXCEPT ![t] = f] /\ StillCalm
  BY Calm DEF SetThread
<1>2. thread'[t] = f /\ \A v \in Threads : v # t => thread'[v] = thread[v]
  BY <1>1 DEF TypeOK
<1>3. QED  BY <1>1, <1>2 DEF Moved

\* The control operators.
LEMMA Went ==
  ASSUME TypeOK, NEW t \in Threads, NEW l, Goto(t, l)
  PROVE  Moved(t, l, thread[t].stack, thread[t].template, thread[t].upd)
<1>1. PICK f : f = [thread[t] EXCEPT !.pc = l]
  OBVIOUS
<1>2. /\ f.pc = l /\ f.stack = thread[t].stack /\ f.template = thread[t].template
      /\ f.upd = thread[t].upd
  BY <1>1 DEF TypeOK, FrameType
<1>3. SetThread(t, f)
  BY <1>1 DEF Goto
<1>4. QED  BY <1>2, <1>3, MovedTo

LEMMA Called ==
  ASSUME TypeOK, NEW t \in Threads, NEW l, NEW r, Call(t, l, r)
  PROVE  Moved(t, l, <<r>> \o thread[t].stack, thread[t].template, thread[t].upd)
<1>1. PICK f : f = [thread[t] EXCEPT !.pc = l, !.stack = <<r>> \o @]
  OBVIOUS
<1>2. /\ f.pc = l /\ f.stack = <<r>> \o thread[t].stack
      /\ f.template = thread[t].template /\ f.upd = thread[t].upd
  BY <1>1 DEF TypeOK, FrameType
<1>3. SetThread(t, f)
  BY <1>1 DEF Call
<1>4. QED  BY <1>2, <1>3, MovedTo

LEMMA Returned ==
  ASSUME TypeOK, NEW t \in Threads, Return(t)
  PROVE  Moved(t, Head(thread[t].stack), Tail(thread[t].stack), thread[t].template,
               thread[t].upd)
<1>1. PICK f : f = [thread[t] EXCEPT !.pc = Head(thread[t].stack), !.stack = Tail(@)]
  OBVIOUS
<1>2. /\ f.pc = Head(thread[t].stack) /\ f.stack = Tail(thread[t].stack)
      /\ f.template = thread[t].template /\ f.upd = thread[t].upd
  BY <1>1 DEF TypeOK, FrameType
<1>3. SetThread(t, f)
  BY <1>1 DEF Return
<1>4. QED  BY <1>2, <1>3, MovedTo

LEMMA CalledUpdate ==
  ASSUME TypeOK, NEW t \in Threads, NEW b, NEW r, CallUpdateBlock(t, b, r)
  PROVE  Moved(t, "enter", <<r>> \o thread[t].stack, thread[t].template,
               [prev |-> b.prev, height |-> b.height, bits |-> b.bits, last |-> 0,
                ocmr |-> None])
<1>1. PICK u : u = [prev |-> b.prev, height |-> b.height, bits |-> b.bits, last |-> 0,
                    ocmr |-> None]
  OBVIOUS
<1>2. PICK f : f = [thread[t] EXCEPT !.pc = "enter", !.stack = <<r>> \o @, !.upd = u]
  OBVIOUS
<1>3. /\ f.pc = "enter" /\ f.stack = <<r>> \o thread[t].stack
      /\ f.template = thread[t].template /\ f.upd = u
  BY <1>2 DEF TypeOK, FrameType
<1>4. SetThread(t, f)
  BY <1>1, <1>2 DEF CallUpdateBlock
<1>5. QED  BY <1>1, <1>3, <1>4, MovedTo

LEMMA EndedUpdate ==
  ASSUME TypeOK, NEW t \in Threads, EndUpdateBlock(t)
  PROVE  Moved(t, Head(thread[t].stack), Tail(thread[t].stack), thread[t].template, NoUpdate)
<1>1. PICK f : f = [thread[t] EXCEPT !.pc = Head(thread[t].stack), !.stack = Tail(@),
                                     !.upd = NoUpdate]
  OBVIOUS
<1>2. /\ f.pc = Head(thread[t].stack) /\ f.stack = Tail(thread[t].stack)
      /\ f.template = thread[t].template /\ f.upd = NoUpdate
  BY <1>1 DEF TypeOK, FrameType
<1>3. SetThread(t, f)
  BY <1>1 DEF EndUpdateBlock
<1>4. QED  BY <1>2, <1>3, MovedTo

LEMMA Unwound ==
  ASSUME TypeOK, NEW t \in Threads, Unwind(t)
  PROVE  Moved(t, "idle", <<>>, None, NoUpdate)
<1>1. /\ Start.pc = "idle" /\ Start.stack = <<>> /\ Start.template = None
      /\ Start.upd = NoUpdate
  BY DEF Start
<1>2. SetThread(t, Start)
  BY DEF Unwind
<1>3. QED  BY <1>1, <1>2, MovedTo

\* The three steps of updateBlock that set its locals.
LEMMA NewBlockMoves ==
  ASSUME TypeOK, NEW t \in Threads, NewBlock(t)
  PROVE  LET old == thread[t].upd
             new == thread'[t].upd
         IN /\ Moved(t, "assign", thread[t].stack, thread[t].template, new)
            /\ new.prev = old.prev /\ new.last = self.currentBlock.height
            /\ new.height = IF old.height = 0 THEN self.currentBlock.height + 1 ELSE old.height
            /\ old.bits # None => new.bits = old.bits
            /\ new.bits = None => old.bits = None
<1>1. PICK h : h = IF thread[t].upd.height = 0 THEN self.currentBlock.height + 1
                   ELSE thread[t].upd.height
  OBVIOUS
<1>2. PICK b : b = IF thread[t].upd.bits # None THEN thread[t].upd.bits
                   ELSE IF h % DifficultyChangeMod = 1 \/ self.currentBlock.bits = None THEN None
                   ELSE self.currentBlock.bits
  OBVIOUS
<1>3. PICK f : f = [thread[t] EXCEPT !.pc = "assign", !.upd.height = h, !.upd.bits = b,
                                     !.upd.last = self.currentBlock.height]
  OBVIOUS
<1>4. SetThread(t, f)
  BY <1>1, <1>2, <1>3 DEF NewBlock
<1>5. thread[t] \in FrameType /\ thread[t].upd \in UpdateType
  BY DEF TypeOK, FrameType
<1>6. /\ f.pc = "assign" /\ f.stack = thread[t].stack /\ f.template = thread[t].template
      /\ f.upd.prev = thread[t].upd.prev /\ f.upd.height = h /\ f.upd.bits = b
      /\ f.upd.last = self.currentBlock.height
  BY <1>3, <1>5 DEF FrameType, UpdateType
<1>7. Moved(t, f.pc, f.stack, f.template, f.upd)
  BY <1>4, MovedTo
<1>8. thread'[t].upd = f.upd
  BY <1>7 DEF Moved
<1>9. /\ thread[t].upd.bits # None => b = thread[t].upd.bits
      /\ b = None => thread[t].upd.bits = None
  BY <1>2
<1>10. QED  BY <1>1, <1>6, <1>7, <1>8, <1>9

LEMMA AssignMoves ==
  ASSUME TypeOK, NEW t \in Threads, Assign(t)
  PROVE  LET old == thread[t].upd
             new == thread'[t].upd
         IN /\ thread[t].pc = "assign"
            /\ new.prev = old.prev /\ new.height = old.height /\ new.bits = old.bits
            /\ new.last = old.last
            /\ \/ /\ Unknown(t) \/ old.last # old.height
                  /\ Moved(t, "replace", thread[t].stack, thread[t].template, new)
                  /\ new.ocmr = self.clearMerkleRoots
               \/ /\ ~Unknown(t) /\ old.last = old.height
                  /\ Moved(t, "clear", thread[t].stack, thread[t].template, new)
<1>1. thread[t] \in FrameType /\ thread[t].upd \in UpdateType /\ thread[t].pc = "assign"
  BY DEF TypeOK, FrameType, Assign, At
<1>2. CASE Unknown(t) \/ thread[t].upd.last # thread[t].upd.height
  <2>1. PICK f : f = [thread[t] EXCEPT !.pc = "replace", !.upd.ocmr = self.clearMerkleRoots]
    OBVIOUS
  <2>2. SetThread(t, f)
    BY <1>2, <2>1 DEF Assign
  <2>3. /\ f.pc = "replace" /\ f.stack = thread[t].stack /\ f.template = thread[t].template
        /\ f.upd.prev = thread[t].upd.prev /\ f.upd.height = thread[t].upd.height
        /\ f.upd.bits = thread[t].upd.bits /\ f.upd.last = thread[t].upd.last
        /\ f.upd.ocmr = self.clearMerkleRoots
    BY <1>1, <2>1 DEF FrameType, UpdateType
  <2>4. Moved(t, f.pc, f.stack, f.template, f.upd)
    BY <2>2, MovedTo
  <2>5. thread'[t].upd = f.upd
    BY <2>4 DEF Moved
  <2>6. QED  BY <1>1, <1>2, <2>3, <2>4, <2>5
<1>3. CASE ~(Unknown(t) \/ thread[t].upd.last # thread[t].upd.height)
  <2>1. Moved(t, "clear", thread[t].stack, thread[t].template, thread[t].upd)
    BY <1>3, Went DEF Assign
  <2>2. thread'[t].upd = thread[t].upd
    BY <2>1 DEF Moved
  <2>3. QED  BY <1>1, <1>3, <2>1, <2>2
<1>4. QED  BY <1>2, <1>3

LEMMA WakeMoves ==
  ASSUME TypeOK, NEW t \in Threads, Wake(t)
  PROVE  LET old == thread[t].upd
             new == thread'[t].upd
             l == IF Unknown(t) THEN "unready" ELSE "fresh"
         IN /\ thread[t].pc = "wake"
            /\ new.prev = old.prev /\ new.height = old.height /\ new.bits = old.bits
            /\ new.last = old.last
            /\ Moved(t, l, thread[t].stack, thread[t].template, new)
<1>1. thread[t] \in FrameType /\ thread[t].upd \in UpdateType /\ thread[t].pc = "wake"
  BY DEF TypeOK, FrameType, Wake, At
<1>2. PICK l : l = IF Unknown(t) THEN "unready" ELSE "fresh"
  OBVIOUS
<1>3. PICK f : f = [thread[t] EXCEPT !.pc = l, !.upd.ocmr = None]
  OBVIOUS
<1>4. SetThread(t, f)
  BY <1>2, <1>3 DEF Wake
<1>5. /\ f.pc = l /\ f.stack = thread[t].stack /\ f.template = thread[t].template
      /\ f.upd.prev = thread[t].upd.prev /\ f.upd.height = thread[t].upd.height
      /\ f.upd.bits = thread[t].upd.bits /\ f.upd.last = thread[t].upd.last
  BY <1>1, <1>3 DEF FrameType, UpdateType
<1>6. Moved(t, f.pc, f.stack, f.template, f.upd)
  BY <1>4, MovedTo
<1>7. thread'[t].upd = f.upd
  BY <1>6 DEF Moved
<1>8. QED  BY <1>1, <1>2, <1>5, <1>6, <1>7

\* Where an updateBlock and a getMC return to.
LEMMA UpdateReturns ==
  ASSUME TypeOK, NEW t \in Threads, thread[t].pc \in UpdatePlaces \cup {"enter", "newblock"}
  PROVE  \E r \in Returns(thread[t]) :
           /\ thread[t].stack = <<r>> /\ r \in {"idle", "verdict", "changed"}
           /\ Head(thread[t].stack) = r /\ Tail(thread[t].stack) = <<>>
           /\ <<"newblock">> \o thread[t].stack = <<"newblock", r>>
<1>1. PICK r \in Returns(thread[t]) : thread[t].stack = <<r>>
  BY DEF TypeOK, FrameOK
<1>2. QED  BY <1>1, Stacks DEF Returns

LEMMA JobReturns ==
  ASSUME TypeOK, NEW t \in Threads, thread[t].pc \in JobPlaces
  PROVE  \/ /\ thread[t].stack \in {<<"idle">>, <<"settle">>, <<"fired">>}
            /\ Head(thread[t].stack) \in {"idle", "settle", "fired"}
            /\ Tail(thread[t].stack) = <<>>
         \/ \E r \in Returns(thread[t]) :
              /\ thread[t].stack = <<"newblock", r>> /\ r \in {"idle", "verdict", "changed"}
              /\ Head(thread[t].stack) = "newblock" /\ Tail(thread[t].stack) = <<r>>
<1>1. \/ thread[t].stack \in {<<"idle">>, <<"settle">>, <<"fired">>}
      \/ \E r \in Returns(thread[t]) : thread[t].stack = <<"newblock", r>>
  BY DEF TypeOK, FrameOK
<1>2. CASE thread[t].stack \in {<<"idle">>, <<"settle">>, <<"fired">>}
  BY <1>2, Stacks
<1>3. ASSUME NEW r \in Returns(thread[t]), thread[t].stack = <<"newblock", r>>
      PROVE  /\ Head(thread[t].stack) = "newblock" /\ Tail(thread[t].stack) = <<r>>
             /\ r \in {"idle", "verdict", "changed"}
  BY <1>3, Stacks DEF Returns
<1>4. QED  BY <1>1, <1>2, <1>3

\* The loops have nothing on the stack.
LEMMA LoopStack ==
  ASSUME TypeOK, NEW t \in Threads, thread[t].pc \in LoopPlaces \cup PollPlaces
  PROVE  /\ thread[t].stack = <<>>
         /\ \A r : <<r>> \o thread[t].stack = <<r>>
  BY Stacks DEF TypeOK, FrameOK

-----------------------------------------------------------------------------
\* The queues: who waits on which, which will be woken, and how full they are.

GotIsStore == At(Getwork, "get") => got \in Queues

\* The Queue about to be replaced is the current one, unless updates overlap.
OldIsStore ==
  disturbed # Overlap =>
    \A t \in Threads : At(t, "replace") => thread[t].upd.ocmr = self.clearMerkleRoots

SizesFit ==
  /\ \A q \in Queues : queue[q].maxsize \in {ClearMax, MaxClearSize}
  /\ queue[self.nextMerkleRoots].maxsize = MaxClearSize

\* What the maker needs of the configured sizes: the None of updateBlock and a
\* root fit into the smallest store, and a minimum is not above its maximum.
RoomForTwo == ClearMax >= 2 /\ ClearMin <= ClearMax /\ NextMin <= NextMax
HasRoom ==
  thread[MM].pc \in {"made", "put"} /\ making.into \in Queues =>
    Len(queue[making.into].items) < queue[making.into].maxsize

QueuesInv ==
  /\ disturbed # Overlap => Alone
  /\ GotIsStore /\ OldIsStore /\ NoLostWakeup
  /\ SizesFit /\ (RoomForTwo => HasRoom)

\* A step of one thread that touches none of this.
Quiet(t) ==
  /\ thread[t].pc # "wake"
  /\ thread'[t].pc \notin {"replace", "wake", "get", "made", "put"}
  /\ \A v \in Threads : v # t => thread'[v] = thread[v]
  /\ StillCalm
  /\ queue' = queue /\ got' = got
  /\ self'.clearMerkleRoots = self.clearMerkleRoots
  /\ self'.nextMerkleRoots = self.nextMerkleRoots
  /\ t # MM => making'.into = making.into

LEMMA QuietOK ==
  ASSUME TypeOK, QueuesInv, NEW t \in Threads, Quiet(t)
  PROVE  QueuesInv'
<1>. MM \in Threads /\ Getwork \in Threads
  BY DEF Threads, Pollers, Servers
<1>1. disturbed' # Overlap => disturbed # Overlap /\ Alone'
  BY DEF Quiet, StillCalm
<1>2. GotIsStore'
  BY DEF Quiet, QueuesInv, GotIsStore, At
<1>3. OldIsStore'
  BY <1>1 DEF Quiet, QueuesInv, OldIsStore, At
<1>4. NoLostWakeup'
  <2>1. SUFFICES ASSUME At(Getwork, "get")', queue'[got'].items = <<>>, disturbed' # Overlap,
                        got' # self'.clearMerkleRoots
                 PROVE  \E v \in Threads : At(v, "wake")' /\ thread'[v].upd.ocmr = got'
    BY DEF NoLostWakeup
  <2>2. At(Getwork, "get") /\ queue[got].items = <<>> /\ got # self.clearMerkleRoots
    BY <2>1 DEF Quiet, At
  <2>3. PICK v \in Threads : At(v, "wake") /\ thread[v].upd.ocmr = got
    BY <1>1, <2>1, <2>2 DEF QueuesInv, NoLostWakeup
  <2>4. QED  BY <2>3 DEF Quiet, At
<1>5. SizesFit'
  BY DEF Quiet, QueuesInv, SizesFit
<1>6. ASSUME RoomForTwo PROVE HasRoom'
  BY <1>6 DEF Quiet, QueuesInv, HasRoom
<1>7. QED  BY <1>1, <1>2, <1>3, <1>4, <1>5, <1>6 DEF QueuesInv

LEMMA SameBlockLeaves ==
  ASSUME NEW t, SameBlock(t)
  PROVE  EndUpdateBlock(t) \/ Call(t, "getMC", "newblock")
  BY Zenon DEF SameBlock

\* Most steps are quiet.
LEMMA QuietUpdateSteps ==
  ASSUME TypeOK, NEW t \in Threads,
         SameBlock(t) \/ NewBlock(t) \/ Unready(t) \/ Clear(t) \/ SetReady(t) \/ Need(t)
  PROVE  Quiet(t)
<1>1. CASE SameBlock(t)
  <2>1. thread[t].pc = "enter" /\ queue' = queue /\ got' = got /\ making' = making
    BY <1>1 DEF SameBlock, At
  <2>2. /\ self'.clearMerkleRoots = self.clearMerkleRoots
        /\ self'.nextMerkleRoots = self.nextMerkleRoots
    BY <1>1 DEF SameBlock, TypeOK, SelfType
  <2>3. PICK r : Head(thread[t].stack) = r /\ r \in {"idle", "verdict", "changed"}
    BY <2>1, UpdateReturns
  <2>4. CASE EndUpdateBlock(t)
    BY <2>1, <2>2, <2>3, <2>4, EndedUpdate DEF Moved, Quiet
  <2>5. CASE Call(t, "getMC", "newblock")
    <3>1. Moved(t, "getMC", <<"newblock">> \o thread[t].stack, thread[t].template, thread[t].upd)
      BY <2>5, Called
    <3>2. QED  BY <2>1, <2>2, <3>1 DEF Moved, Quiet
  <2>6. EndUpdateBlock(t) \/ Call(t, "getMC", "newblock")
    BY <1>1, SameBlockLeaves
  <2>7. QED  BY <2>4, <2>5, <2>6
<1>2. CASE NewBlock(t)
  <2>1. /\ thread[t].pc \in {"enter", "newblock"} /\ queue' = queue /\ got' = got
        /\ making' = making /\ self' = self
    BY <1>2 DEF NewBlock, At
  <2>2. QED  BY <1>2, <2>1, NewBlockMoves DEF Moved, Quiet
<1>3. CASE Unready(t) \/ Need(t)
  <2>1. /\ thread[t].pc \in {"unready", "need"} /\ queue' = queue /\ got' = got
        /\ making' = making /\ EndUpdateBlock(t)
    BY <1>3 DEF Unready, Need, At
  <2>2. /\ self'.clearMerkleRoots = self.clearMerkleRoots
        /\ self'.nextMerkleRoots = self.nextMerkleRoots
    BY <1>3 DEF Unready, Need, TypeOK, SelfType
  <2>3. PICK r : Head(thread[t].stack) = r /\ r \in {"idle", "verdict", "changed"}
    BY <2>1, UpdateReturns DEF UpdatePlaces
  <2>4. QED  BY <2>1, <2>2, <2>3, EndedUpdate DEF Moved, Quiet
<1>4. CASE Clear(t)
  <2>1. /\ thread[t].pc = "clear" /\ queue' = queue /\ got' = got
        /\ making'.into = making.into
    BY <1>4, AgedMakingType DEF Clear, At, TypeOK
  <2>2. /\ self'.clearMerkleRoots = self.clearMerkleRoots
        /\ self'.nextMerkleRoots = self.nextMerkleRoots
    BY <1>4 DEF Clear, TypeOK, SelfType
  <2>3. CASE Goto(t, "ready")
    BY <2>1, <2>2, <2>3, Went DEF Moved, Quiet
  <2>4. CASE Unwind(t)
    BY <2>1, <2>2, <2>4, Unwound DEF Moved, Quiet
  <2>5. QED  BY <1>4, <2>3, <2>4 DEF Clear
<1>5. CASE SetReady(t)
  <2>1. /\ thread[t].pc = "ready" /\ queue' = queue /\ got' = got /\ making' = making
    BY <1>5 DEF SetReady, At
  <2>2. /\ self'.clearMerkleRoots = self.clearMerkleRoots
        /\ self'.nextMerkleRoots = self.nextMerkleRoots
    BY <1>5 DEF SetReady, TypeOK, SelfType
  <2>3. PICK l \in {"need", "signal"} : Goto(t, l)
    BY <1>5 DEF SetReady
  <2>4. QED  BY <2>1, <2>2, <2>3, Went DEF Moved, Quiet
<1>6. QED  BY <1>1, <1>2, <1>3, <1>4, <1>5

LEMMA AdoptKeepsStores ==
  ASSUME TypeOK, NEW t, Adopt(t)
  PROVE  /\ self'.clearMerkleRoots = self.clearMerkleRoots
         /\ self'.nextMerkleRoots = self.nextMerkleRoots
         /\ self'.currentBlock = self.currentBlock /\ self'.ready = self.ready
         /\ self'.networkTarget = self.networkTarget
<1>1. PICK a, r, c, n : self' = [self EXCEPT !.currentMerkleTree = a, !.merkleRoots = r,
                                             !.curClearMerkleTree = c, !.nextMerkleTree = n]
  BY Zenon DEF Adopt
<1>2. QED  BY <1>1 DEF TypeOK, SelfType

LEMMA QuietPollSteps ==
  ASSUME TypeOK, NEW t \in Threads, Poll(t)
  PROVE  Quiet(t)
<1>. DEFINE Rest == /\ queue' = queue /\ got' = got /\ making'.into = making.into
                    /\ self'.clearMerkleRoots = self.clearMerkleRoots
                    /\ self'.nextMerkleRoots = self.nextMerkleRoots
<1>1. CASE Fetch(t)
  <2>1. thread[t].pc = "fetch" /\ Rest
    BY <1>1 DEF Fetch, At, TypeOK, SelfType
  <2>2. PICK f : f = [thread[t] EXCEPT !.pc = "process", !.template = tip]
    OBVIOUS
  <2>3. f.pc = "process"
    BY <2>2 DEF TypeOK, FrameType
  <2>4. CASE SetThread(t, f)
    BY <2>1, <2>3, <2>4, MovedTo DEF Moved, Quiet
  <2>5. CASE Unwind(t)
    BY <2>1, <2>5, Unwound DEF Moved, Quiet
  <2>6. QED  BY <1>1, <2>2, <2>4, <2>5 DEF Fetch
<1>2. CASE Process(t) \/ Compare(t)
  <2>1. thread[t].pc \in {"process", "compare"} /\ Rest
    BY <1>2 DEF Process, Compare, At
  <2>2. ASSUME NEW b, NEW r, CallUpdateBlock(t, b, r) PROVE Quiet(t)
    BY <2>1, <2>2, CalledUpdate DEF Moved, Quiet
  <2>3. ASSUME NEW l \in {"verdict", "adopt"}, Goto(t, l) PROVE Quiet(t)
    BY <2>1, <2>3, Went DEF Moved, Quiet
  <2>4. QED  BY <1>2, <2>2, <2>3 DEF Process, Compare
<1>3. CASE Verdict(t)
  <2>1. thread[t].pc = "verdict" /\ Rest
    BY <1>3 DEF Verdict, At
  <2>2. CASE Goto(t, "compare")
    BY <2>1, <2>2, Went DEF Moved, Quiet
  <2>3. CASE Unwind(t)
    BY <2>1, <2>3, Unwound DEF Moved, Quiet
  <2>4. QED  BY <1>3, <2>2, <2>3 DEF Verdict
<1>4. CASE Adopt(t)
  <2>1. thread[t].pc \in {"adopt", "changed"} /\ queue' = queue /\ got' = got
    BY <1>4 DEF Adopt, At
  <2>2. making'.into = making.into
    BY <1>4, AgedMakingType DEF Adopt, TypeOK
  <2>3. /\ self'.clearMerkleRoots = self.clearMerkleRoots
        /\ self'.nextMerkleRoots = self.nextMerkleRoots
    BY <1>4, AdoptKeepsStores
  <2>4. ASSUME NEW l \in {"notify", "settle"}, Goto(t, l) PROVE Quiet(t)
    BY <2>1, <2>2, <2>3, <2>4, Went DEF Moved, Quiet
  <2>5. CASE Unwind(t)
    BY <2>1, <2>2, <2>3, <2>5, Unwound DEF Moved, Quiet
  <2>6. Unwind(t) \/ Goto(t, "notify") \/ Goto(t, "settle")
    BY <1>4 DEF Adopt
  <2>7. QED  BY <2>4, <2>5, <2>6
<1>5. CASE Notify(t)
  <2>1. thread[t].pc = "notify" /\ Rest /\ Call(t, "getMC", "settle")
    BY <1>5 DEF Notify, At, TypeOK, SelfType
  <2>2. Moved(t, "getMC", <<"settle">> \o thread[t].stack, thread[t].template, thread[t].upd)
    BY <2>1, Called
  <2>3. QED  BY <2>1, <2>2 DEF Moved, Quiet
<1>6. CASE Settle(t)
  <2>1. thread[t].pc = "settle" /\ Rest /\ Unwind(t)
    BY <1>6 DEF Settle, At, TypeOK, SelfType
  <2>2. QED  BY <2>1, Unwound DEF Moved, Quiet
<1>7. QED  BY <1>1, <1>2, <1>3, <1>4, <1>5, <1>6 DEF Poll

LEMMA QuietOtherSteps ==
  ASSUME TypeOK, NEW t \in Threads,
         \/ t = MM /\ (LoopPoll \/ LoopFire \/ Fired)
         \/ GetMC(t) \/ Job(t) \/ StartGetMC(t) \/ StartShare(t) \/ StartPoll(t)
  PROVE  Quiet(t)
<1>. DEFINE Rest == /\ queue' = queue /\ got' = got /\ making' = making
                    /\ self'.clearMerkleRoots = self.clearMerkleRoots
                    /\ self'.nextMerkleRoots = self.nextMerkleRoots
<1>1. CASE t = MM /\ (LoopPoll \/ Fired)
  <2>1. thread[t].pc \in {"idle", "fired"} /\ Rest
    BY <1>1 DEF LoopPoll, Fired, At, TypeOK, SelfType
  <2>2. PICK l \in {"fetch", "idle"} : Goto(t, l)
    BY <1>1 DEF LoopPoll, Fired
  <2>3. QED  BY <2>1, <2>2, Went DEF Moved, Quiet
<1>2. CASE (t = MM /\ LoopFire) \/ StartGetMC(t)
  <2>1. thread[t].pc = "idle" /\ Rest
    BY <1>2 DEF LoopFire, StartGetMC, At
  <2>2. PICK r : Call(t, "getMC", r)
    BY <1>2 DEF LoopFire, StartGetMC
  <2>3. Moved(t, "getMC", <<r>> \o thread[t].stack, thread[t].template, thread[t].upd)
    BY <2>2, Called
  <2>4. QED  BY <2>1, <2>3 DEF Moved, Quiet
<1>3. CASE GetMC(t)
  <2>1. thread[t].pc = "getMC" /\ Rest
    BY <1>3 DEF GetMC, At
  <2>2. PICK l \in {"job", "waiting"} : Goto(t, l)
    BY <1>3 DEF GetMC
  <2>3. QED  BY <2>1, <2>2, Went DEF Moved, Quiet
<1>4. CASE Job(t)
  <2>1. thread[t].pc = "job" /\ Rest
    BY <1>4 DEF Job, At
  <2>2. CASE Return(t)
    <3>1. PICK l \in {"idle", "settle", "fired", "newblock"} : Head(thread[t].stack) = l
      BY <2>1, JobReturns DEF JobPlaces
    <3>2. QED  BY <2>1, <2>2, <3>1, Returned DEF Moved, Quiet
  <2>3. CASE Unwind(t)
    BY <2>1, <2>3, Unwound DEF Moved, Quiet
  <2>4. QED  BY <1>4, <2>2, <2>3 DEF Job
<1>5. CASE StartShare(t)
  <2>1. thread[t].pc = "idle" /\ Rest
    BY <1>5 DEF StartShare, At
  <2>2. PICK b : CallUpdateBlock(t, b, "idle")
    BY <1>5 DEF StartShare
  <2>3. QED  BY <2>1, <2>2, CalledUpdate DEF Moved, Quiet
<1>6. CASE StartPoll(t)
  <2>1. thread[t].pc = "idle" /\ Rest /\ Goto(t, "fetch")
    BY <1>6 DEF StartPoll, At
  <2>2. QED  BY <2>1, Went DEF Moved, Quiet
<1>7. QED  BY <1>1, <1>2, <1>3, <1>4, <1>5, <1>6

\* The steps that change who waits on which Queue, or what is in one.
LEMMA AssignQueues ==
  ASSUME TypeOK, QueuesInv, NEW t \in Threads, Assign(t)
  PROVE  QueuesInv'
<1>. MM \in Threads /\ Getwork \in Threads
  BY DEF Threads, Pollers, Servers
<1>1. /\ queue' = queue /\ got' = got /\ making' = making
      /\ self'.clearMerkleRoots = self.clearMerkleRoots
      /\ self'.nextMerkleRoots = self.nextMerkleRoots
      /\ thread[t].pc = "assign"
  BY DEF Assign, TypeOK, SelfType, At
<1>2. CASE Moved(t, "clear", thread[t].stack, thread[t].template, thread'[t].upd)
  BY <1>1, <1>2, QuietOK DEF Moved, Quiet
<1>3. CASE /\ Moved(t, "replace", thread[t].stack, thread[t].template, thread'[t].upd)
           /\ thread'[t].upd.ocmr = self.clearMerkleRoots
  <2>1. /\ thread'[t].pc = "replace" /\ thread'[t].upd.ocmr = self.clearMerkleRoots
        /\ \A v \in Threads : v # t => thread'[v] = thread[v]
        /\ disturbed' # Overlap => disturbed # Overlap /\ Alone'
    BY <1>3 DEF Moved, StillCalm
  <2>2. GotIsStore'
    BY <1>1, <2>1 DEF QueuesInv, GotIsStore, At
  <2>3. OldIsStore'
    BY <1>1, <2>1 DEF QueuesInv, OldIsStore, At
  <2>4. NoLostWakeup'
    <3>1. SUFFICES ASSUME At(Getwork, "get")', queue'[got'].items = <<>>,
                          disturbed' # Overlap, got' # self'.clearMerkleRoots
                   PROVE  \E v \in Threads : At(v, "wake")' /\ thread'[v].upd.ocmr = got'
      BY DEF NoLostWakeup
    <3>2. At(Getwork, "get") /\ queue[got].items = <<>> /\ got # self.clearMerkleRoots
      BY <1>1, <2>1, <3>1 DEF At
    <3>3. PICK v \in Threads : At(v, "wake") /\ thread[v].upd.ocmr = got
      BY <2>1, <3>1, <3>2 DEF QueuesInv, NoLostWakeup
    <3>4. QED  BY <1>1, <2>1, <3>3 DEF At
  <2>5. SizesFit'
    BY <1>1 DEF QueuesInv, SizesFit
  <2>6. ASSUME RoomForTwo PROVE HasRoom'
    BY <1>1, <2>1, <2>6 DEF QueuesInv, HasRoom
  <2>7. QED  BY <2>1, <2>2, <2>3, <2>4, <2>5, <2>6 DEF QueuesInv
<1>4. QED  BY <1>2, <1>3, AssignMoves

\* A new Queue leaves those in use alone, and is none of them.
LEMMA NewQueueKeeps ==
  ASSUME TypeOK, NEW size \in Nat, NewQueue(size)
  PROVE  /\ FreshQueue \in Queues /\ FreshQueue \notin InUse
         /\ queue'[FreshQueue].items = <<>> /\ queue'[FreshQueue].maxsize = size
         /\ \A q \in Queues : q \in InUse => queue'[q] = queue[q]
         /\ \A q \in Queues : q \notin InUse => queue'[q] = [items |-> <<>>, maxsize |-> size]
<1>1. FreshQueue \in Queues /\ FreshQueue \notin InUse
  BY DEF FreshQueue, NewQueue
<1>2. QED  BY <1>1 DEF NewQueue

LEMMA Referred ==
  ASSUME TypeOK
  PROVE  /\ {self.clearMerkleRoots, self.nextMerkleRoots, got, making.into} \subseteq InUse
         /\ \A t \in Threads : thread[t].upd.ocmr \in InUse
  BY DEF InUse

LEMMA ReplaceQueues ==
  ASSUME TypeOK, QueuesInv, NEW t \in Threads, Replace(t)
  PROVE  QueuesInv'
<1>. MM \in Threads /\ Getwork \in Threads
  BY DEF Threads, Pollers, Servers
<1>0. /\ thread[t].pc = "replace" /\ got' = got /\ making' = making
      /\ ClearMax \in Nat /\ MaxClearSize \in Nat
  BY SizesAssumption DEF Replace, At, MaxClearSize
<1>1. CASE ReplaceRaises(t)
  <2>1. /\ queue' = queue /\ self' = self /\ Unwind(t)
    BY <1>1 DEF ReplaceRaises
  <2>2. Quiet(t)
    BY <1>0, <2>1, Unwound DEF Moved, Quiet
  <2>3. QED  BY <2>2, QuietOK
<1>2. CASE AdoptNext(t) \/ StartEmpty(t)
  <2>1. Goto(t, "wake")
    BY <1>2 DEF AdoptNext, StartEmpty
  <2>2. /\ thread'[t].pc = "wake" /\ thread'[t].upd = thread[t].upd
        /\ \A v \in Threads : v # t => thread'[v] = thread[v]
        /\ disturbed' # Overlap => disturbed # Overlap /\ Alone'
    BY <2>1, Went DEF Moved, StillCalm
  <2>3. /\ \A q \in Queues : q \in InUse => queue'[q] = queue[q]
        /\ \A q \in Queues : queue'[q].maxsize \in {ClearMax, MaxClearSize}
        /\ self'.nextMerkleRoots = self.nextMerkleRoots
    <3>1. CASE AdoptNext(t)
      BY <3>1 DEF AdoptNext, TypeOK, SelfType, QueuesInv, SizesFit
    <3>2. CASE StartEmpty(t)
      <4>1. NewQueue(ClearMax) /\ self'.nextMerkleRoots = self.nextMerkleRoots
        BY <3>2 DEF StartEmpty, TypeOK, SelfType
      <4>2. /\ \A q \in Queues : q \in InUse => queue'[q] = queue[q]
            /\ \A q \in Queues : q \notin InUse => queue'[q].maxsize = ClearMax
        BY <1>0, <4>1, NewQueueKeeps
      <4>3. QED  BY <4>1, <4>2 DEF QueuesInv, SizesFit
    <3>3. QED  BY <1>2, <3>1, <3>2
  <2>4. GotIsStore'
    BY <1>0, <2>2 DEF QueuesInv, GotIsStore, At
  <2>5. OldIsStore'
    <3>1. SUFFICES ASSUME disturbed' # Overlap, NEW v \in Threads, At(v, "replace")'
                   PROVE  thread'[v].upd.ocmr = self'.clearMerkleRoots
      BY DEF OldIsStore
    <3>2. v # t /\ thread[v].pc = "replace"
      BY <2>2, <3>1 DEF At
    <3>3. Alone
      BY <2>2, <3>1 DEF QueuesInv
    <3>4. QED  BY <1>0, <3>2, <3>3 DEF Alone, Updating, UpdatePlaces
  <2>6. NoLostWakeup'
    <3>1. SUFFICES ASSUME At(Getwork, "get")', queue'[got'].items = <<>>,
                          disturbed' # Overlap
                   PROVE  \E v \in Threads : At(v, "wake")' /\ thread'[v].upd.ocmr = got'
      BY DEF NoLostWakeup
    <3>2. At(Getwork, "get") /\ got \in Queues /\ got \in InUse
      BY <2>2, <3>1, Referred DEF At, QueuesInv, GotIsStore
    <3>3. queue[got].items = <<>> /\ disturbed # Overlap
      BY <1>0, <2>2, <2>3, <3>1, <3>2
    <3>4. CASE got = self.clearMerkleRoots
      <4>1. thread[t].upd.ocmr = got
        BY <1>0, <3>3, <3>4 DEF QueuesInv, OldIsStore, At
      <4>2. QED  BY <1>0, <2>2, <4>1 DEF At
    <3>5. CASE got # self.clearMerkleRoots
      <4>1. PICK v \in Threads : At(v, "wake") /\ thread[v].upd.ocmr = got
        BY <3>2, <3>3, <3>5 DEF QueuesInv, NoLostWakeup
      <4>2. v # t
        BY <1>0, <4>1 DEF At
      <4>3. QED  BY <1>0, <2>2, <4>1, <4>2 DEF At
    <3>6. QED  BY <3>4, <3>5
  <2>7. SizesFit'
    <3>1. self.nextMerkleRoots \in Queues /\ self.nextMerkleRoots \in InUse
      BY Referred DEF TypeOK, SelfType
    <3>2. QED  BY <2>3, <3>1 DEF QueuesInv, SizesFit
  <2>8. ASSUME RoomForTwo PROVE HasRoom'
    <3>1. SUFFICES ASSUME thread'[MM].pc \in {"made", "put"}, making.into \in Queues
                   PROVE  Len(queue'[making.into].items) < queue'[making.into].maxsize
      BY <1>0 DEF HasRoom
    <3>2. thread[MM].pc \in {"made", "put"} /\ making.into \in InUse
      BY <2>2, <3>1, Referred
    <3>3. QED  BY <2>3, <2>8, <3>1, <3>2 DEF QueuesInv, HasRoom
  <2>9. QED  BY <2>2, <2>4, <2>5, <2>6, <2>7, <2>8 DEF QueuesInv
<1>3. QED  BY <1>1, <1>2 DEF Replace

LEMMA WakeQueues ==
  ASSUME TypeOK, QueuesInv, NEW t \in Threads, Wake(t)
  PROVE  QueuesInv'
<1>. MM \in Threads /\ Getwork \in Threads
  BY DEF Threads, Pollers, Servers
<1>. DEFINE ocmr == thread[t].upd.ocmr
<1>1. /\ got' = got /\ making' = making /\ self' = self /\ thread[t].pc = "wake"
      /\ queue' = [queue EXCEPT ![ocmr].items = Woken(@)]
  BY DEF Wake, At
<1>2. /\ thread'[t].pc \in {"unready", "fresh"}
      /\ \A v \in Threads : v # t => thread'[v] = thread[v]
      /\ disturbed' # Overlap => disturbed # Overlap /\ Alone'
  <2>1. PICK l \in {"unready", "fresh"} :
          Moved(t, l, thread[t].stack, thread[t].template, thread'[t].upd)
    BY WakeMoves
  <2>2. QED  BY <2>1 DEF Moved, StillCalm
<1>3. queue \in [Queues -> QueueType]
  BY DEF TypeOK
<1>4. ASSUME NEW q \in Queues
      PROVE  /\ queue'[q].maxsize = queue[q].maxsize
             /\ q # ocmr => queue'[q] = queue[q]
             /\ q = ocmr => queue'[q].items = Woken(queue[q].items)
  BY <1>1, <1>3 DEF QueueType
<1>5. ASSUME NEW items \in Seq(RootType \cup {None})
      PROVE  /\ Woken(items) # <<>> /\ Len(items) \in Nat
             /\ Woken(items) = items \/ (Len(items) = 0 /\ Len(Woken(items)) = 1)
  BY DEF Woken
<1>6. GotIsStore'
  BY <1>1, <1>2 DEF QueuesInv, GotIsStore, At
<1>7. OldIsStore'
  BY <1>1, <1>2 DEF QueuesInv, OldIsStore, At
<1>8. NoLostWakeup'
  <2>1. SUFFICES ASSUME At(Getwork, "get")', queue'[got].items = <<>>, disturbed' # Overlap,
                        got # self.clearMerkleRoots
                 PROVE  \E v \in Threads : At(v, "wake")' /\ thread'[v].upd.ocmr = got
    BY <1>1 DEF NoLostWakeup
  <2>2. At(Getwork, "get") /\ got \in Queues
    BY <1>2, <2>1 DEF At, QueuesInv, GotIsStore
  <2>3. queue[got].items \in Seq(RootType \cup {None})
    BY <1>3, <2>2 DEF QueueType
  <2>4. got # ocmr /\ queue[got].items = <<>>
    BY <1>4, <1>5, <2>1, <2>2, <2>3
  <2>5. PICK v \in Threads : At(v, "wake") /\ thread[v].upd.ocmr = got
    BY <1>2, <2>1, <2>2, <2>4 DEF QueuesInv, NoLostWakeup
  <2>6. QED  BY <1>2, <2>4, <2>5 DEF At
<1>9. SizesFit'
  <2>1. self.nextMerkleRoots \in Queues
    BY DEF TypeOK, SelfType
  <2>2. QED  BY <1>1, <1>4, <2>1 DEF QueuesInv, SizesFit
<1>10. ASSUME RoomForTwo PROVE HasRoom'
  <2>1. SUFFICES ASSUME thread'[MM].pc \in {"made", "put"}, making.into \in Queues
                 PROVE  Len(queue'[making.into].items) < queue'[making.into].maxsize
    BY <1>1 DEF HasRoom
  <2>2. PICK q \in Queues : q = making.into
    BY <2>1
  <2>3. PICK items : items = queue[q].items
    OBVIOUS
  <2>4. items \in Seq(RootType \cup {None}) /\ Len(items) \in Nat
    BY <1>3, <2>3 DEF QueueType
  <2>5. PICK size \in Nat : size = queue[q].maxsize /\ size >= 2
    <3>1. queue[q].maxsize \in {ClearMax, MaxClearSize}
      BY DEF QueuesInv, SizesFit
    <3>2. ClearMax \in Nat /\ NextMax \in Nat
      BY SizesAssumption
    <3>3. QED  BY <1>10, <3>1, <3>2 DEF MaxClearSize, RoomForTwo
  <2>6. Len(items) < size
    <3>1. thread[MM].pc \in {"made", "put"}
      BY <1>2, <2>1
    <3>2. QED  BY <1>10, <2>2, <2>3, <2>5, <3>1 DEF QueuesInv, HasRoom
  <2>7. Len(queue'[q].items) = Len(items) \/ Len(queue'[q].items) = 1
    BY <1>4, <1>5, <2>3, <2>4
  <2>8. queue'[q].maxsize = size
    BY <1>4, <2>5
  <2>9. PICK n : n = Len(queue'[q].items)
    OBVIOUS
  <2>10. n < size
    <3>1. PICK m \in Nat : m = Len(items)
      BY <2>4
    <3>2. (n = m \/ n = 1) /\ m < size
      BY <2>6, <2>7, <2>9, <3>1
    <3>3. QED  BY <2>5, <3>1, <3>2
  <2>11. QED  BY <2>2, <2>8, <2>9, <2>10
<1>11. QED  BY <1>2, <1>6, <1>7, <1>8, <1>9, <1>10 DEF QueuesInv

LEMMA FreshQueues ==
  ASSUME TypeOK, QueuesInv, NEW t \in Threads, Fresh(t)
  PROVE  QueuesInv'
<1>. MM \in Threads /\ Getwork \in Threads
  BY DEF Threads, Pollers, Servers
<1>0. /\ thread[t].pc = "fresh" /\ got' = got /\ making' = making
      /\ ClearMax \in Nat /\ MaxClearSize \in Nat
  BY SizesAssumption DEF Fresh, At, MaxClearSize
<1>1. CASE Unwind(t) /\ UNCHANGED <<self, queue>>
  <2>1. Quiet(t)
    BY <1>0, <1>1, Unwound DEF Moved, Quiet
  <2>2. QED  BY <2>1, QuietOK
<1>2. CASE Goto(t, "clear") /\ NewQueue(MaxClearSize)
           /\ self' = [self EXCEPT !.nextMerkleTree = ClearTree(thread[t].upd.height + 1),
                                   !.nextMerkleRoots = FreshQueue]
  <2>1. /\ thread'[t].pc = "clear"
        /\ \A v \in Threads : v # t => thread'[v] = thread[v]
        /\ disturbed' # Overlap => disturbed # Overlap /\ Alone'
    BY <1>2, Went DEF Moved, StillCalm
  <2>2. /\ self'.clearMerkleRoots = self.clearMerkleRoots
        /\ self'.nextMerkleRoots = FreshQueue
    BY <1>2 DEF TypeOK, SelfType
  <2>3. /\ FreshQueue \in Queues
        /\ queue'[FreshQueue].maxsize = MaxClearSize
        /\ \A q \in Queues : q \in InUse => queue'[q] = queue[q]
        /\ \A q \in Queues : q \notin InUse => queue'[q].maxsize = MaxClearSize
    BY <1>0, <1>2, NewQueueKeeps
  <2>4. GotIsStore'
    BY <1>0, <2>1 DEF QueuesInv, GotIsStore, At
  <2>5. OldIsStore'
    BY <2>1, <2>2 DEF QueuesInv, OldIsStore, At
  <2>6. NoLostWakeup'
    <3>1. SUFFICES ASSUME At(Getwork, "get")', queue'[got].items = <<>>, disturbed' # Overlap,
                          got # self.clearMerkleRoots
                   PROVE  \E v \in Threads : At(v, "wake")' /\ thread'[v].upd.ocmr = got
      BY <1>0, <2>2 DEF NoLostWakeup
    <3>2. At(Getwork, "get") /\ got \in Queues /\ got \in InUse
      BY <2>1, <3>1, Referred DEF At, QueuesInv, GotIsStore
    <3>3. PICK v \in Threads : At(v, "wake") /\ thread[v].upd.ocmr = got
      BY <2>1, <2>3, <3>1, <3>2 DEF QueuesInv, NoLostWakeup
    <3>4. QED  BY <1>0, <2>1, <3>3 DEF At
  <2>7. SizesFit'
    BY <2>2, <2>3 DEF QueuesInv, SizesFit
  <2>8. ASSUME RoomForTwo PROVE HasRoom'
    <3>1. SUFFICES ASSUME thread'[MM].pc \in {"made", "put"}, making.into \in Queues
                   PROVE  Len(queue'[making.into].items) < queue'[making.into].maxsize
      BY <1>0 DEF HasRoom
    <3>2. thread[MM].pc \in {"made", "put"} /\ making.into \in InUse
      BY <2>1, <3>1, Referred
    <3>3. QED  BY <2>3, <2>8, <3>1, <3>2 DEF QueuesInv, HasRoom
  <2>9. QED  BY <2>1, <2>4, <2>5, <2>6, <2>7, <2>8 DEF QueuesInv
<1>3. QED  BY <1>1, <1>2 DEF Fresh

\* notify_all moves only waiting threads.
LEMMA SignalMoves ==
  ASSUME TypeOK, NEW t \in Threads, Signal(t)
  PROVE  /\ thread[t].pc = "signal" /\ thread'[t].pc = "need"
         /\ thread'[t].stack = thread[t].stack /\ thread'[t].template = thread[t].template
         /\ thread'[t].upd = thread[t].upd
         /\ \A v \in Threads : v # t => 
              \/ thread'[v] = thread[v] /\ thread[v].pc # "waiting"
              \/ /\ thread[v].pc = "waiting" /\ thread'[v].pc = "getMC"
                 /\ thread'[v].stack = thread[v].stack /\ thread'[v].upd = thread[v].upd
                 /\ thread'[v].template = thread[v].template
         /\ StillCalm
<1>. DEFINE now == [u \in Threads |->
              IF u = t THEN [thread[u] EXCEPT !.pc = "need"]
              ELSE [thread[u] EXCEPT !.pc = IF @ = "waiting" THEN "getMC" ELSE @]]
<1>1. SetThreads(now) /\ thread[t].pc = "signal"
  BY DEF Signal, At
<1>2. thread' = now /\ StillCalm
  BY <1>1, Calm
<1>3. thread'[t] = [thread[t] EXCEPT !.pc = "need"]
  BY <1>2
<1>4. \A v \in Threads : v # t =>
        thread'[v] = [thread[v] EXCEPT !.pc = IF @ = "waiting" THEN "getMC" ELSE @]
  BY <1>2
<1>5. \A v \in Threads : thread[v] \in FrameType
  BY DEF TypeOK
<1>. HIDE DEF now
<1>6. ASSUME NEW v \in Threads, v # t
      PROVE  \/ thread'[v] = thread[v] /\ thread[v].pc # "waiting"
             \/ /\ thread[v].pc = "waiting" /\ thread'[v].pc = "getMC"
                /\ thread'[v].stack = thread[v].stack /\ thread'[v].upd = thread[v].upd
                /\ thread'[v].template = thread[v].template
  <2>1. CASE thread[v].pc = "waiting"
    <3>1. thread'[v] = [thread[v] EXCEPT !.pc = "getMC"]
      BY <1>4, <1>6, <2>1
    <3>2. QED  BY <1>5, <2>1, <3>1 DEF FrameType
  <2>2. CASE thread[v].pc # "waiting"
    <3>1. thread'[v] = [thread[v] EXCEPT !.pc = thread[v].pc]
      BY <1>4, <1>6, <2>2
    <3>2. QED  BY <1>5, <2>2, <3>1 DEF FrameType
  <2>3. QED  BY <2>1, <2>2
<1>7. /\ thread'[t].pc = "need" /\ thread'[t].stack = thread[t].stack
      /\ thread'[t].template = thread[t].template /\ thread'[t].upd = thread[t].upd
  BY <1>3, <1>5 DEF FrameType
<1>8. QED  BY <1>1, <1>2, <1>6, <1>7

LEMMA SignalQueues ==
  ASSUME TypeOK, QueuesInv, NEW t \in Threads, Signal(t)
  PROVE  QueuesInv'
<1>. MM \in Threads /\ Getwork \in Threads
  BY DEF Threads, Pollers, Servers
<1>1. /\ queue' = queue /\ got' = got /\ making' = making /\ self' = self
      /\ thread[t].pc = "signal" /\ thread'[t].pc = "need"
      /\ disturbed' # Overlap => disturbed # Overlap /\ Alone'
  BY SignalMoves DEF Signal, StillCalm
<1>2. ASSUME NEW v \in Threads, NEW l \in {"get", "replace", "wake", "made", "put"}
      PROVE  thread'[v].pc = l <=> thread[v].pc = l
  BY <1>1, SignalMoves
<1>3. ASSUME NEW v \in Threads PROVE thread'[v].upd = thread[v].upd
  BY <1>1, SignalMoves
<1>4. GotIsStore'
  BY <1>1, <1>2 DEF QueuesInv, GotIsStore, At
<1>5. OldIsStore'
  BY <1>1, <1>2, <1>3 DEF QueuesInv, OldIsStore, At
<1>6. NoLostWakeup'
  BY <1>1, <1>2, <1>3 DEF QueuesInv, NoLostWakeup, At
<1>7. SizesFit'
  BY <1>1 DEF QueuesInv, SizesFit
<1>8. ASSUME RoomForTwo PROVE HasRoom'
  BY <1>1, <1>2, <1>8 DEF QueuesInv, HasRoom
<1>9. QED  BY <1>1, <1>4, <1>5, <1>6, <1>7, <1>8 DEF QueuesInv

LEMMA LoopMakeQueues ==
  ASSUME TypeOK, QueuesInv, LoopMake
  PROVE  QueuesInv'
<1>. MM \in Threads /\ Getwork \in Threads
  BY DEF Threads, Pollers, Servers
<1>1. /\ queue' = queue /\ got' = got /\ self' = self /\ thread[MM].pc = "idle"
      /\ Goto(MM, "made")
  BY DEF LoopMake, At
<1>2. /\ thread'[MM].pc = "made" /\ \A v \in Threads : v # MM => thread'[v] = thread[v]
      /\ disturbed' # Overlap => disturbed # Overlap /\ Alone'
  BY <1>1, Went DEF Moved, StillCalm
<1>3. GotIsStore'
  BY <1>1, <1>2 DEF QueuesInv, GotIsStore, At
<1>4. OldIsStore'
  BY <1>1, <1>2 DEF QueuesInv, OldIsStore, At
<1>5. NoLostWakeup'
  BY <1>1, <1>2 DEF QueuesInv, NoLostWakeup, At
<1>6. SizesFit'
  BY <1>1 DEF QueuesInv, SizesFit
<1>7. ASSUME RoomForTwo PROVE HasRoom'
  <2>1. SUFFICES ASSUME making'.into \in Queues
                 PROVE  Len(queue[making'.into].items) < queue[making'.into].maxsize
    BY <1>1 DEF HasRoom
  <2>2. /\ {ClearMin, ClearMax, NextMin, NextMax} \subseteq Nat
        /\ self.clearMerkleRoots \in Queues /\ self.nextMerkleRoots \in Queues
    BY SizesAssumption DEF TypeOK, SelfType
  <2>3. ASSUME NEW q \in Queues PROVE Len(queue[q].items) \in Nat
    BY DEF TypeOK, QueueType
  <2>4. /\ Want = "clear" => ClearSize < ClearMin \/ ClearSize < ClearMax
        /\ Want = "next" => NextSize < NextMin \/ NextSize < NextMax
    <3>1. PICK c \in Nat : c = ClearSize
      BY <2>2, <2>3 DEF ClearSize
    <3>2. PICK n \in Nat : n = NextSize
      BY <2>2, <2>3 DEF NextSize
    <3>3. QED  BY <2>2, <3>1, <3>2 DEF Want, Filled
  <2>5. CASE Want = "clear" /\ making'.into = self.clearMerkleRoots
    <3>1. PICK c \in Nat : c = Len(queue[self.clearMerkleRoots].items)
      BY <2>2, <2>3
    <3>2. c < ClearMin \/ c < ClearMax
      BY <2>4, <2>5, <3>1 DEF ClearSize
    <3>3. PICK size : size = queue[self.clearMerkleRoots].maxsize
      OBVIOUS
    <3>4. size \in {ClearMax, MaxClearSize}
      BY <2>2, <3>3 DEF QueuesInv, SizesFit
    <3>5. c < size
      BY <1>7, <2>2, <3>2, <3>4 DEF MaxClearSize, RoomForTwo
    <3>6. QED  BY <2>5, <3>1, <3>3, <3>5
  <2>6. CASE Want = "next" /\ making'.into = self.nextMerkleRoots
    <3>1. PICK c \in Nat : c = Len(queue[self.nextMerkleRoots].items)
      BY <2>2, <2>3
    <3>2. c < NextMin \/ c < NextMax
      BY <2>4, <2>6, <3>1 DEF NextSize
    <3>3. PICK size : size = queue[self.nextMerkleRoots].maxsize
      OBVIOUS
    <3>4. size = MaxClearSize
      BY <3>3 DEF QueuesInv, SizesFit
    <3>5. c < size
      BY <1>7, <2>2, <3>2, <3>4 DEF MaxClearSize, RoomForTwo
    <3>6. QED  BY <2>6, <3>1, <3>3, <3>5
  <2>7. \/ Want = "clear" /\ making'.into = self.clearMerkleRoots
        \/ Want = "next" /\ making'.into = self.nextMerkleRoots
        \/ making'.into = Deque
    BY DEF LoopMake, Make
  <2>8. Deque \notin Queues
    BY DEF Deque, Queues
  <2>9. QED  BY <2>1, <2>5, <2>6, <2>7, <2>8
<1>8. QED  BY <1>2, <1>3, <1>4, <1>5, <1>6, <1>7 DEF QueuesInv

LEMMA CheckHeightQueues ==
  ASSUME TypeOK, QueuesInv, CheckHeight
  PROVE  QueuesInv'
<1>. MM \in Threads /\ Getwork \in Threads
  BY DEF Threads, Pollers, Servers
<1>1. /\ queue' = queue /\ got' = got /\ self' = self /\ thread[MM].pc = "made"
  BY DEF CheckHeight, At
<1>2. CASE Goto(MM, "idle")
  <2>1. Quiet(MM)
    BY <1>1, <1>2, Went DEF Moved, Quiet
  <2>2. QED  BY <2>1, QuietOK
<1>3. CASE Goto(MM, "put") /\ making' = making
  <2>1. /\ thread'[MM].pc = "put" /\ \A v \in Threads : v # MM => thread'[v] = thread[v]
        /\ disturbed' # Overlap => disturbed # Overlap /\ Alone'
    BY <1>3, Went DEF Moved, StillCalm
  <2>2. GotIsStore'
    BY <1>1, <2>1 DEF QueuesInv, GotIsStore, At
  <2>3. OldIsStore'
    BY <1>1, <2>1 DEF QueuesInv, OldIsStore, At
  <2>4. NoLostWakeup'
    BY <1>1, <2>1 DEF QueuesInv, NoLostWakeup, At
  <2>5. SizesFit'
    BY <1>1 DEF QueuesInv, SizesFit
  <2>6. ASSUME RoomForTwo PROVE HasRoom'
    BY <1>1, <1>3, <2>6 DEF QueuesInv, HasRoom
  <2>7. QED  BY <2>1, <2>2, <2>3, <2>4, <2>5, <2>6 DEF QueuesInv
<1>4. QED  BY <1>2, <1>3 DEF CheckHeight

LEMMA PutQueues ==
  ASSUME TypeOK, QueuesInv, Put
  PROVE  QueuesInv'
<1>. MM \in Threads /\ Getwork \in Threads
  BY DEF Threads, Pollers, Servers
<1>1. got' = got /\ thread[MM].pc = "put" /\ Goto(MM, "idle")
  BY DEF Put, At
<1>2. CASE PutRegular
  <2>1. /\ queue' = queue /\ self'.clearMerkleRoots = self.clearMerkleRoots
        /\ self'.nextMerkleRoots = self.nextMerkleRoots
    BY <1>2 DEF PutRegular, TypeOK, SelfType
  <2>2. Quiet(MM)
    BY <1>1, <2>1, Went DEF Moved, Quiet
  <2>3. QED  BY <2>2, QuietOK
<1>3. CASE PutQueue
  <2>1. /\ thread'[MM].pc = "idle" /\ \A v \in Threads : v # MM => thread'[v] = thread[v]
        /\ disturbed' # Overlap => disturbed # Overlap /\ Alone'
    BY <1>1, Went DEF Moved, StillCalm
  <2>2. self' = self /\ making.into \in Queues /\ queue \in [Queues -> QueueType]
    BY <1>3 DEF PutQueue, TypeOK
  <2>3. ASSUME NEW q \in Queues
        PROVE  /\ queue'[q].maxsize = queue[q].maxsize
               /\ queue'[q].items = <<>> => queue[q].items = <<>>
    <3>1. queue' = [queue EXCEPT ![making.into].items = Append(@, making.root)]
      BY <1>3 DEF PutQueue
    <3>2. queue[q] \in QueueType
      BY <2>2
    <3>3. CASE q # making.into
      BY <2>2, <3>1, <3>3
    <3>4. CASE q = making.into
      <4>1. queue'[q] = [queue[q] EXCEPT !.items = Append(@, making.root)]
        BY <2>2, <3>1, <3>4
      <4>2. Append(queue[q].items, making.root) # <<>>
        <5>1. making.root \in RootType
          BY <1>1 DEF TypeOK, MakingOK
        <5>2. QED  BY <3>2, <5>1 DEF QueueType
      <4>3. QED  BY <3>2, <4>1, <4>2 DEF QueueType
    <3>5. QED  BY <3>3, <3>4
  <2>4. GotIsStore'
    BY <1>1, <2>1 DEF QueuesInv, GotIsStore, At
  <2>5. OldIsStore'
    BY <2>1, <2>2 DEF QueuesInv, OldIsStore, At
  <2>6. NoLostWakeup'
    <3>1. SUFFICES ASSUME At(Getwork, "get")', queue'[got].items = <<>>, disturbed' # Overlap,
                          got # self.clearMerkleRoots
                   PROVE  \E v \in Threads : At(v, "wake")' /\ thread'[v].upd.ocmr = got
      BY <1>1, <2>2 DEF NoLostWakeup
    <3>2. At(Getwork, "get") /\ got \in Queues
      BY <2>1, <3>1 DEF At, QueuesInv, GotIsStore
    <3>3. PICK v \in Threads : At(v, "wake") /\ thread[v].upd.ocmr = got
      BY <2>1, <2>3, <3>1, <3>2 DEF QueuesInv, NoLostWakeup
    <3>4. QED  BY <1>1, <2>1, <3>3 DEF At
  <2>7. SizesFit'
    BY <2>2, <2>3 DEF QueuesInv, SizesFit, TypeOK, SelfType
  <2>8. HasRoom'
    BY <2>1 DEF HasRoom
  <2>9. QED  BY <2>1, <2>4, <2>5, <2>6, <2>7, <2>8 DEF QueuesInv
<1>4. QED  BY <1>2, <1>3 DEF Put

\* getMRD, and the steps in which no thread moves.
LEMMA GetworkQueues ==
  ASSUME TypeOK, QueuesInv, RunOut \/ GetClear
  PROVE  QueuesInv'
<1>. MM \in Threads /\ Getwork \in Threads /\ Getwork # MM
  BY ThreadsAssumption DEF Threads, Pollers, Servers
<1>1. /\ self' = self /\ making' = making /\ thread[Getwork].pc \in {"idle", "get"}
      /\ self.clearMerkleRoots \in Queues
  BY DEF RunOut, GetClear, At, TypeOK, SelfType
<1>2. /\ \A v \in Threads : v # Getwork => thread'[v] = thread[v]
      /\ thread'[Getwork].pc \in {"idle", "get"}
      /\ disturbed' # Overlap => disturbed # Overlap /\ Alone'
      /\ thread'[Getwork].pc = "get" => got' = self.clearMerkleRoots
  <2>1. CASE Goto(Getwork, "get") /\ got' = self.clearMerkleRoots
    BY <2>1, Went DEF Moved, StillCalm
  <2>2. CASE Goto(Getwork, "idle")
    BY <2>2, Went DEF Moved, StillCalm
  <2>3. CASE thread' = thread /\ disturbed' = disturbed /\ got' = self.clearMerkleRoots
    BY <1>1, <2>3 DEF QueuesInv, Alone
  <2>4. QED  BY <2>1, <2>2, <2>3 DEF RunOut, GetClear
<1>3. ASSUME NEW q \in Queues
      PROVE  /\ queue'[q].maxsize = queue[q].maxsize
             /\ Len(queue'[q].items) \in Nat /\ Len(queue[q].items) \in Nat
             /\ Len(queue'[q].items) <= Len(queue[q].items)
  <2>0. queue[q] \in QueueType /\ queue \in [Queues -> QueueType]
    BY DEF TypeOK
  <2>1. CASE queue' = queue
    BY <2>0, <2>1 DEF QueueType
  <2>2. CASE GetClear
    <3>1. queue[got].items # <<>> /\ queue' = [queue EXCEPT ![got].items = Tail(@)]
      BY <2>2 DEF GetClear
    <3>2. CASE q # got
      BY <2>0, <3>1, <3>2 DEF QueueType
    <3>3. CASE q = got
      <4>1. PICK items : items = queue[q].items
        OBVIOUS
      <4>2. items \in Seq(RootType \cup {None}) /\ items # <<>>
        BY <2>0, <3>1, <3>3, <4>1 DEF QueueType
      <4>3. /\ Len(Tail(items)) \in Nat /\ Len(items) \in Nat
            /\ Len(Tail(items)) <= Len(items)
        BY <4>2
      <4>4. queue'[q] = [queue[q] EXCEPT !.items = Tail(items)]
        BY <2>0, <3>1, <3>3, <4>1
      <4>5. queue'[q].items = Tail(items) /\ queue'[q].maxsize = queue[q].maxsize
        BY <2>0, <4>4 DEF QueueType
      <4>6. QED  BY <4>1, <4>3, <4>5
    <3>4. QED  BY <3>2, <3>3
  <2>3. QED  BY <2>1, <2>2 DEF RunOut
<1>4. GotIsStore'
  BY <1>1, <1>2 DEF GotIsStore, At
<1>5. OldIsStore'
  BY <1>1, <1>2 DEF QueuesInv, OldIsStore, At
<1>6. NoLostWakeup'
  BY <1>1, <1>2 DEF NoLostWakeup, At
<1>7. SizesFit'
  BY <1>1, <1>3 DEF QueuesInv, SizesFit, TypeOK, SelfType
<1>8. ASSUME RoomForTwo PROVE HasRoom'
  <2>1. SUFFICES ASSUME thread'[MM].pc \in {"made", "put"}, making.into \in Queues
                 PROVE  Len(queue'[making.into].items) < queue'[making.into].maxsize
    BY <1>1 DEF HasRoom
  <2>2. PICK q \in Queues : q = making.into
    BY <2>1
  <2>3. /\ Len(queue[q].items) < queue[q].maxsize
    BY <1>2, <1>8, <2>1, <2>2 DEF QueuesInv, HasRoom
  <2>4. PICK n, m, size : /\ n = Len(queue'[q].items) /\ m = Len(queue[q].items)
                          /\ size = queue[q].maxsize
    OBVIOUS
  <2>5. n \in Nat /\ m \in Nat /\ size \in Nat
    <3>1. queue[q].maxsize \in {ClearMax, NextMax} /\ ClearMax \in Nat /\ NextMax \in Nat
      BY SizesAssumption DEF TypeOK, QueueType
    <3>2. QED  BY <1>3, <2>2, <2>4, <3>1
  <2>6. n <= m /\ m < size /\ queue'[q].maxsize = size
    BY <1>3, <2>3, <2>4
  <2>7. n < size
    BY <2>5, <2>6
  <2>8. QED  BY <2>2, <2>4, <2>6, <2>7
<1>9. QED  BY <1>2, <1>4, <1>5, <1>6, <1>7, <1>8 DEF QueuesInv

LEMMA StillQueues ==
  ASSUME TypeOK, QueuesInv, PopRegular \/ NewTip \/ Tick \/ UNCHANGED vars
  PROVE  QueuesInv'
<1>1. /\ thread' = thread /\ disturbed' = disturbed /\ queue' = queue /\ got' = got
      /\ making' = making
      /\ self'.clearMerkleRoots = self.clearMerkleRoots
      /\ self'.nextMerkleRoots = self.nextMerkleRoots
  BY DEF PopRegular, NewTip, Tick, vars, TypeOK, SelfType
<1>2. (disturbed # Overlap => Alone)' /\ GotIsStore' /\ OldIsStore'
  BY <1>1 DEF QueuesInv, Alone, GotIsStore, OldIsStore, At
<1>3. NoLostWakeup' /\ SizesFit'
  BY <1>1 DEF QueuesInv, NoLostWakeup, SizesFit, At
<1>4. ASSUME RoomForTwo PROVE HasRoom'
  BY <1>1, <1>4 DEF QueuesInv, HasRoom
<1>5. QED  BY <1>2, <1>3, <1>4 DEF QueuesInv

\* Every step of every thread, in groups that are proved alike.
LEMMA Steps ==
  ASSUME [Next]_vars
  PROVE  \/ \E t \in Threads :
              \/ SameBlock(t) \/ NewBlock(t) \/ Unready(t) \/ Clear(t) \/ SetReady(t) \/ Need(t)
              \/ Assign(t) \/ Replace(t) \/ Wake(t) \/ Fresh(t) \/ Signal(t)
              \/ GetMC(t) \/ Job(t) \/ StartGetMC(t)
         \/ \E t \in Threads : t \in Finders /\ StartShare(t)
         \/ \E t \in Threads : t \in Pollers /\ (Poll(t) \/ StartPoll(t))
         \/ LoopPoll \/ LoopFire \/ Fired \/ LoopMake \/ CheckHeight \/ Put
         \/ RunOut \/ GetClear
         \/ PopRegular \/ NewTip \/ Tick \/ UNCHANGED vars
<1>1. Takers \subseteq Threads /\ Finders \subseteq Threads /\ Pollers \subseteq Threads
      /\ Notified \subseteq Pollers
  BY DEF Threads, Servers, Pollers
<1>2. CASE \E t \in Threads : UpdateBlock(t) \/ GetMC(t) \/ Job(t)
  BY <1>2 DEF UpdateBlock
<1>3. CASE \E t \in Pollers : Poll(t)
  BY <1>1, <1>3
<1>4. CASE MerkleMakerThread \/ GetMRD
  BY <1>4 DEF MerkleMakerThread, GetMRD
<1>5. CASE CallStep
  BY <1>1, <1>5 DEF CallStep
<1>6. QED  BY <1>2, <1>3, <1>4, <1>5 DEF Next, ThreadStep

LEMMA QueuesNext ==
  ASSUME IInv, QueuesInv, [Next]_vars
  PROVE  QueuesInv'
<1>. TypeOK /\ MM \in Threads
  BY DEF IInv, Threads, Pollers
<1>1. ASSUME NEW t \in Threads, Quiet(t) PROVE QueuesInv'
  BY <1>1, QuietOK
<1>2. ASSUME NEW t \in Threads,
             \/ SameBlock(t) \/ NewBlock(t) \/ Unready(t) \/ Clear(t) \/ SetReady(t) \/ Need(t)
             \/ Poll(t) \/ StartPoll(t) \/ GetMC(t) \/ Job(t) \/ StartGetMC(t) \/ StartShare(t)
      PROVE  QueuesInv'
  BY <1>1, <1>2, QuietUpdateSteps, QuietPollSteps, QuietOtherSteps
<1>3. ASSUME LoopPoll \/ LoopFire \/ Fired PROVE QueuesInv'
  BY <1>1, <1>3, QuietOtherSteps
<1>4. ASSUME NEW t \in Threads, Assign(t) \/ Replace(t) \/ Wake(t) \/ Fresh(t) \/ Signal(t)
      PROVE  QueuesInv'
  BY <1>4, AssignQueues, ReplaceQueues, WakeQueues, FreshQueues, SignalQueues
<1>5. ASSUME LoopMake \/ CheckHeight \/ Put \/ RunOut \/ GetClear PROVE QueuesInv'
  BY <1>5, LoopMakeQueues, CheckHeightQueues, PutQueues, GetworkQueues
<1>6. QED  BY <1>2, <1>3, <1>4, <1>5, Steps, StillQueues

LEMMA QueuesInit == Init => QueuesInv
<1>. SUFFICES ASSUME Init PROVE QueuesInv
  OBVIOUS
<1>1. \A t \in Threads : thread[t].pc = "idle"
  BY DEF Init, Start
<1>2. MM \in Threads /\ Getwork \in Threads
  BY DEF Threads, Pollers, Servers
<1>3. Alone /\ GotIsStore /\ OldIsStore /\ NoLostWakeup /\ HasRoom
  BY <1>1, <1>2 DEF Alone, Updating, UpdatePlaces, GotIsStore, OldIsStore, NoLostWakeup,
     HasRoom, At
<1>4. self.nextMerkleRoots \in Queues
  BY SizesAssumption DEF Init, Queues
<1>5. SizesFit
  BY <1>4 DEF Init, SizesFit
<1>6. QED  BY <1>3, <1>5 DEF QueuesInv

\* getMRD never waits on a store that updateBlock has given up without waking
\* it, unless two updates have overlapped: the Queue that an update replaces is
\* the one it will look at, and nobody else can replace it in between.
THEOREM NoneSleepsOn == Spec => []NoLostWakeup
<1>1. QueuesInv => NoLostWakeup
  BY DEF QueuesInv
<1>2. IInv /\ QueuesInv /\ [Next]_vars => QueuesInv'
  BY QueuesNext
<1>3. QED  BY <1>1, <1>2, InitOK, NextOK, QueuesInit, PTL DEF Spec

\* The thread that makes roots never blocks on a full Queue, provided that the
\* smallest store holds two and no minimum is above its maximum: into a store
\* of one, updateBlock's None alone may come between the maker's look and its put.
THEOREM MakerGoesOn ==
  ClearMax >= 2 /\ ClearMin <= ClearMax /\ NextMin <= NextMax => (Spec => []MakerNeverStuck)
<1>. SUFFICES ASSUME RoomForTwo PROVE Spec => []MakerNeverStuck
  BY DEF RoomForTwo
<1>1. QueuesInv => MakerNeverStuck
  BY DEF QueuesInv, HasRoom, MakerNeverStuck, At
<1>2. IInv /\ QueuesInv /\ [Next]_vars => QueuesInv'
  BY QueuesNext
<1>3. QED  BY <1>1, <1>2, InitOK, NextOK, QueuesInit, PTL DEF Spec

-----------------------------------------------------------------------------
\* The trees: what each step leaves alone.

TreesKept ==
  /\ self'.currentBlock = self.currentBlock
  /\ self'.curClearMerkleTree = self.curClearMerkleTree
  /\ self'.nextMerkleTree = self.nextMerkleTree
  /\ self'.currentMerkleTree = self.currentMerkleTree
  /\ self'.ready = self.ready /\ self'.networkTarget = self.networkTarget

LEMMA KeepsTrees ==
  ASSUME TypeOK, NEW t \in Threads,
         \/ SameBlock(t) \/ NewBlock(t) \/ Wake(t) \/ Signal(t) \/ Need(t)
         \/ Fetch(t) \/ Process(t) \/ Verdict(t) \/ Compare(t) \/ Settle(t)
         \/ GetMC(t) \/ Job(t) \/ StartGetMC(t) \/ StartShare(t) \/ StartPoll(t)
         \/ LoopPoll \/ LoopFire \/ Fired \/ LoopMake \/ CheckHeight \/ Put
         \/ RunOut \/ GetClear \/ PopRegular \/ NewTip \/ Tick \/ UNCHANGED vars
  PROVE  TreesKept
<1>1. CASE self' = self
  BY <1>1 DEF TreesKept
<1>2. ASSUME NEW d, NEW n, NEW r,
             \/ self' = [self EXCEPT !.needMerkle = n]
             \/ self' = [self EXCEPT !.due = d]
             \/ self' = [self EXCEPT !.due = d, !.needMerkle = n]
             \/ self' = [self EXCEPT !.merkleRoots = r]
      PROVE  TreesKept
  BY <1>2 DEF TreesKept, TypeOK, SelfType
<1>3. CASE SameBlock(t)
  BY <1>1, <1>2, <1>3 DEF SameBlock
<1>4. CASE Need(t) \/ Fetch(t) \/ Settle(t) \/ Fired \/ Tick
  BY <1>2, <1>4 DEF Need, Fetch, Settle, Fired, Tick
<1>5. CASE Put \/ PopRegular
  BY <1>1, <1>2, <1>5 DEF Put, PutRegular, PutQueue, PopRegular
<1>6. CASE \/ NewBlock(t) \/ Wake(t) \/ Signal(t) \/ Process(t) \/ Verdict(t) \/ Compare(t)
           \/ GetMC(t) \/ Job(t) \/ StartGetMC(t) \/ StartShare(t) \/ StartPoll(t)
  BY <1>1, <1>6 DEF NewBlock, Wake, Signal, Process, Verdict, Compare, GetMC, Job, StartGetMC,
     StartShare, StartPoll
<1>7. CASE \/ LoopPoll \/ LoopFire \/ LoopMake \/ CheckHeight \/ RunOut \/ GetClear \/ NewTip
           \/ UNCHANGED vars
  BY <1>1, <1>7 DEF LoopPoll, LoopFire, LoopMake, CheckHeight, RunOut, GetClear, NewTip, vars
<1>8. QED  BY <1>3, <1>4, <1>5, <1>6, <1>7

\* What the other steps do to them.
LEMMA AssignTrees ==
  ASSUME TypeOK, NEW t \in Threads, Assign(t)
  PROVE  LET new == thread[t].upd
         IN /\ Unknown(t) => self'.currentBlock =
                 [prev |-> None, height |-> new.height - 1, bits |-> None]
            /\ ~Unknown(t) => self'.currentBlock =
                 [prev |-> new.prev, height |-> new.height, bits |-> new.bits]
            /\ self'.curClearMerkleTree = self.curClearMerkleTree
            /\ self'.nextMerkleTree = self.nextMerkleTree
            /\ self'.currentMerkleTree = self.currentMerkleTree
            /\ self'.ready = self.ready /\ self'.networkTarget = self.networkTarget
<1>1. PICK b : /\ b = IF Unknown(t)
                        THEN [prev |-> None, height |-> thread[t].upd.height - 1, bits |-> None]
                        ELSE [prev |-> thread[t].upd.prev, height |-> thread[t].upd.height,
                              bits |-> thread[t].upd.bits]
  OBVIOUS
<1>2. self' = [self EXCEPT !.currentBlock = b]
  BY <1>1 DEF Assign
<1>3. /\ self'.currentBlock = b
      /\ self'.curClearMerkleTree = self.curClearMerkleTree
      /\ self'.nextMerkleTree = self.nextMerkleTree
      /\ self'.currentMerkleTree = self.currentMerkleTree
      /\ self'.ready = self.ready /\ self'.networkTarget = self.networkTarget
  BY <1>2 DEF TypeOK, SelfType
<1>4. QED  BY <1>1, <1>3

LEMMA ReplaceTrees ==
  ASSUME TypeOK, NEW t \in Threads, Replace(t)
  PROVE  /\ self'.currentBlock = self.currentBlock
         /\ self'.nextMerkleTree = self.nextMerkleTree
         /\ self'.currentMerkleTree = self.currentMerkleTree
         /\ self'.ready = self.ready /\ self'.networkTarget = self.networkTarget
         /\ \/ /\ AdoptNext(t) /\ self.nextMerkleTree # None
               /\ ~Unknown(t) /\ Follows(t)
               /\ self'.curClearMerkleTree = self.nextMerkleTree
               /\ self'.clearMerkleRoots = self.nextMerkleRoots
            \/ /\ StartEmpty(t) /\ self'.clearMerkleRoots = FreshQueue
               /\ Unknown(t) => self'.curClearMerkleTree = self.curClearMerkleTree
               /\ ~Unknown(t) => self'.curClearMerkleTree = ClearTree(thread[t].upd.height)
            \/ ReplaceRaises(t) /\ self' = self
         /\ self'.nextMerkleRoots = self.nextMerkleRoots
         /\ self'.merkleRoots = self.merkleRoots
<1>1. CASE AdoptNext(t)
  <2>1. self' = [self EXCEPT !.curClearMerkleTree = self.nextMerkleTree,
                             !.clearMerkleRoots = self.nextMerkleRoots]
    BY <1>1 DEF AdoptNext
  <2>2. self.nextMerkleTree # None /\ ~Unknown(t) /\ Follows(t)
    BY <1>1 DEF AdoptNext
  <2>3. QED  BY <1>1, <2>1, <2>2 DEF TypeOK, SelfType
<1>2. CASE StartEmpty(t)
  <2>1. PICK c : c = IF Unknown(t) THEN self.curClearMerkleTree
                     ELSE ClearTree(thread[t].upd.height)
    OBVIOUS
  <2>2. self' = [self EXCEPT !.curClearMerkleTree = c, !.clearMerkleRoots = FreshQueue]
    BY <1>2, <2>1 DEF StartEmpty
  <2>3. QED  BY <1>2, <2>1, <2>2 DEF TypeOK, SelfType
<1>3. CASE ReplaceRaises(t)
  BY <1>3 DEF ReplaceRaises
<1>4. QED  BY <1>1, <1>2, <1>3 DEF Replace

LEMMA FreshTrees ==
  ASSUME TypeOK, NEW t \in Threads, Fresh(t)
  PROVE  /\ self'.currentBlock = self.currentBlock
         /\ self'.curClearMerkleTree = self.curClearMerkleTree
         /\ self'.currentMerkleTree = self.currentMerkleTree
         /\ self'.ready = self.ready /\ self'.networkTarget = self.networkTarget
         /\ self'.clearMerkleRoots = self.clearMerkleRoots
         /\ self'.merkleRoots = self.merkleRoots
         /\ \/ /\ Goto(t, "clear") /\ NewQueue(MaxClearSize)
               /\ self'.nextMerkleTree = ClearTree(thread[t].upd.height + 1)
               /\ self'.nextMerkleRoots = FreshQueue
            \/ Unwind(t) /\ self' = self /\ queue' = queue
<1>1. CASE Unwind(t) /\ UNCHANGED <<self, queue>>
  BY <1>1
<1>2. CASE Goto(t, "clear") /\ NewQueue(MaxClearSize)
           /\ self' = [self EXCEPT !.nextMerkleTree = ClearTree(thread[t].upd.height + 1),
                                   !.nextMerkleRoots = FreshQueue]
  <2>1. PICK n : n = ClearTree(thread[t].upd.height + 1)
    OBVIOUS
  <2>2. self' = [self EXCEPT !.nextMerkleTree = n, !.nextMerkleRoots = FreshQueue]
    BY <1>2, <2>1
  <2>3. QED  BY <1>2, <2>1, <2>2 DEF TypeOK, SelfType
<1>3. QED  BY <1>1, <1>2 DEF Fresh

LEMMA ClearTrees ==
  ASSUME TypeOK, NEW t \in Threads, Clear(t)
  PROVE  /\ self'.currentBlock = self.currentBlock
         /\ self'.curClearMerkleTree = self.curClearMerkleTree
         /\ self'.nextMerkleTree = self.nextMerkleTree
         /\ self'.ready = self.ready /\ self'.networkTarget = self.networkTarget
         /\ self'.clearMerkleRoots = self.clearMerkleRoots
         /\ self'.nextMerkleRoots = self.nextMerkleRoots
         /\ \/ /\ Goto(t, "ready") /\ self.curClearMerkleTree # None
               /\ self'.currentMerkleTree = self.curClearMerkleTree
               /\ self'.merkleRoots = <<>>
            \/ Unwind(t) /\ self' = self
<1>1. CASE Unwind(t) /\ UNCHANGED <<self, making>>
  BY <1>1
<1>2. CASE /\ Goto(t, "ready") /\ self.curClearMerkleTree # None
           /\ self' = [self EXCEPT !.currentMerkleTree = self.curClearMerkleTree,
                                   !.merkleRoots = DropRoots(@)]
  BY <1>2 DEF TypeOK, SelfType, DropRoots
<1>3. QED  BY <1>1, <1>2 DEF Clear

LEMMA UnreadyTrees ==
  ASSUME TypeOK, NEW t \in Threads, Unready(t)
  PROVE  /\ self'.currentBlock = self.currentBlock
         /\ self'.curClearMerkleTree = self.curClearMerkleTree
         /\ self'.nextMerkleTree = self.nextMerkleTree
         /\ self'.currentMerkleTree = self.currentMerkleTree
         /\ ~self'.ready /\ self'.networkTarget = self.networkTarget
         /\ self'.clearMerkleRoots = self.clearMerkleRoots
         /\ self'.nextMerkleRoots = self.nextMerkleRoots
         /\ self'.merkleRoots = <<>>
  BY DEF Unready, TypeOK, SelfType

LEMMA SetReadyTrees ==
  ASSUME TypeOK, NEW t \in Threads, SetReady(t)
  PROVE  /\ self'.currentBlock = self.currentBlock
         /\ self'.curClearMerkleTree = self.curClearMerkleTree
         /\ self'.nextMerkleTree = self.nextMerkleTree
         /\ self'.currentMerkleTree = self.currentMerkleTree
         /\ self'.networkTarget = self.networkTarget
         /\ self'.clearMerkleRoots = self.clearMerkleRoots
         /\ self'.nextMerkleRoots = self.nextMerkleRoots
         /\ self'.merkleRoots = self.merkleRoots
         /\ Goto(t, "need") \/ Goto(t, "signal")
<1>1. self' = [self EXCEPT !.ready = TRUE] /\ (Goto(t, "need") \/ Goto(t, "signal"))
  BY DEF SetReady
<1>2. QED  BY <1>1 DEF TypeOK, SelfType

\* A tree and the same one with its header fields.
SameTree(new, old) ==
  IF old = None THEN new = None
  ELSE new = old \/ new = WithMP(old)

LEMMA AdoptTrees ==
  ASSUME TypeOK, NEW t \in Threads, Adopt(t)
  PROVE  /\ self'.currentBlock = self.currentBlock
         /\ SameTree(self'.curClearMerkleTree, self.curClearMerkleTree)
         /\ SameTree(self'.nextMerkleTree, self.nextMerkleTree)
         /\ self'.currentMerkleTree = TemplateTree(thread[t].template)
         /\ self'.ready = self.ready /\ self'.networkTarget = self.networkTarget
         /\ self'.merkleRoots = [i \in DOMAIN self.merkleRoots |-> Aged(self.merkleRoots[i])]
         /\ self.curClearMerkleTree # None =>
              self'.curClearMerkleTree = WithMP(self.curClearMerkleTree)
         /\ \/ /\ self.curClearMerkleTree # None /\ self.nextMerkleTree # None
               /\ self'.nextMerkleTree = WithMP(self.nextMerkleTree)
               /\ Goto(t, "notify") \/ Goto(t, "settle")
            \/ Unwind(t)
<1>1. PICK exist \in BOOLEAN :
        exist = (self.curClearMerkleTree # None /\ self.nextMerkleTree # None)
  OBVIOUS
<1>2. PICK roots : roots = [i \in DOMAIN self.merkleRoots |-> Aged(self.merkleRoots[i])]
  OBVIOUS
<1>3. PICK tree : tree = TemplateTree(thread[t].template)
  OBVIOUS
<1>4. PICK cur : cur = IF self.curClearMerkleTree = None THEN None
                       ELSE WithMP(self.curClearMerkleTree)
  OBVIOUS
<1>5. PICK nxt : nxt = IF exist THEN WithMP(self.nextMerkleTree) ELSE self.nextMerkleTree
  OBVIOUS
<1>6. self' = [self EXCEPT !.currentMerkleTree = tree, !.merkleRoots = roots,
                           !.curClearMerkleTree = cur, !.nextMerkleTree = nxt]
  BY <1>1, <1>2, <1>3, <1>4, <1>5 DEF Adopt
<1>7. /\ self'.currentMerkleTree = tree /\ self'.merkleRoots = roots
      /\ self'.curClearMerkleTree = cur /\ self'.nextMerkleTree = nxt
  BY <1>6 DEF TypeOK, SelfType
<1>8. \/ exist /\ (Goto(t, "notify") \/ Goto(t, "settle"))
      \/ Unwind(t)
  BY <1>1 DEF Adopt
<1>9. /\ SameTree(self'.curClearMerkleTree, self.curClearMerkleTree)
      /\ SameTree(self'.nextMerkleTree, self.nextMerkleTree)
  BY <1>1, <1>4, <1>5, <1>7 DEF SameTree
<1>10. QED
  BY <1>1, <1>2, <1>3, <1>4, <1>5, <1>7, <1>8, <1>9, AdoptKeepsStores

LEMMA NotifyTrees ==
  ASSUME TypeOK, NEW t \in Threads, Notify(t)
  PROVE  /\ self'.currentBlock = self.currentBlock
         /\ self'.curClearMerkleTree = self.curClearMerkleTree
         /\ self'.nextMerkleTree = self.nextMerkleTree
         /\ self'.currentMerkleTree = self.currentMerkleTree
         /\ self'.ready = self.ready
         /\ thread[t].pc = "notify" /\ Call(t, "getMC", "settle")
         /\ self'.merkleRoots = self.merkleRoots
<1>1. self' = [self EXCEPT !.networkTarget = NewTarget]
  BY DEF Notify
<1>2. QED  BY <1>1 DEF Notify, At, TypeOK, SelfType

-----------------------------------------------------------------------------
\* The header fields of the clear trees.

LEMMA TreeTypes ==
  ASSUME TypeOK
  PROVE  /\ \A t \in Threads : thread[t].template # None =>
              TemplateTree(thread[t].template) \in TreeType
         /\ \A tree \in TreeType : WithMP(tree) \in TreeType /\ WithMP(tree).MP
                                   /\ WithMP(tree).height = tree.height
         /\ \A h \in Nat : /\ ClearTree(h) \in TreeType /\ ClearTree(h).height = h
                           /\ self.currentMerkleTree # None => ClearTree(h).MP
<1>1. ASSUME NEW b \in Templates PROVE TemplateTree(b) \in TreeType
  <2>1. b.prev \in BlockPrevs /\ b.height \in Nat
    BY TemplatesAssumption DEF BlockPrevs
  <2>2. QED  BY <2>1 DEF TemplateTree, TreeType
<1>2. ASSUME NEW t \in Threads, thread[t].template # None
      PROVE  thread[t].template \in Templates
  BY <1>2 DEF TypeOK, FrameType
<1>3. \A tree \in TreeType : WithMP(tree) \in TreeType /\ WithMP(tree).MP
                             /\ WithMP(tree).height = tree.height
  BY DEF WithMP, TreeType
<1>4. ASSUME NEW h \in Nat
      PROVE  /\ ClearTree(h) \in TreeType /\ ClearTree(h).height = h
             /\ self.currentMerkleTree # None => ClearTree(h).MP
  BY ClearTreeType DEF ClearTree
<1>5. QED  BY <1>1, <1>2, <1>3, <1>4

\* Once a template has been adopted every clear tree there is or will be has MP.
HaveMP ==
  /\ self.currentMerkleTree # None
  /\ self.curClearMerkleTree # None /\ self.curClearMerkleTree.MP
  /\ self.nextMerkleTree # None /\ self.nextMerkleTree.MP

\* A thread inside onBlockChange, or about to run it.
NeedsMP(f) == f.pc = "notify" \/ (f.pc \in JobPlaces /\ Head(f.stack) = "settle")
MPInv == \A t \in Threads : NeedsMP(thread[t]) => HaveMP

\* Inside updateBlock, or in the getMC that it calls.
InUpdate(f) ==
  \/ f.pc \in UpdatePlaces \cup {"enter", "newblock"}
  \/ f.pc \in JobPlaces /\ Head(f.stack) = "newblock"

\* A step in which no thread is past the start of an updateBlock, and nobody
\* comes to run onBlockChange but by adopting a template.
Outside(v) ==
  \/ thread'[v] = thread[v]
  \/ /\ ~Updating(thread[v]) /\ ~Updating(thread'[v])
     /\ NeedsMP(thread'[v]) => NeedsMP(thread[v]) \/ Adopt(v)
     /\ InUpdate(thread'[v]) =>
          \/ InUpdate(thread[v]) /\ thread'[v].upd = thread[v].upd
          \/ /\ thread'[v].upd.prev # None
             /\ \/ thread'[v].upd.bits # None
                \/ thread'[v].upd.height = 0 /\ self.networkTarget # None

\* Reaching a place that is in no updateBlock.
LEMMA OutsideMove ==
  ASSUME NEW t \in Threads, ~Updating(thread[t]), NEW l, NEW s, NEW b, NEW u,
         Moved(t, l, s, b, u), l \notin UpdatePlaces \cup {"enter", "newblock", "notify"},
         l \in JobPlaces => Head(s) \notin {"settle", "newblock"}
  PROVE  \A v \in Threads : Outside(v)
  BY DEF Moved, Outside, Updating, NeedsMP, InUpdate

LEMMA OutsideUpdateSteps ==
  ASSUME TypeOK, NEW t \in Threads, SameBlock(t) \/ StartShare(t)
  PROVE  \A v \in Threads : Outside(v)
<1>1. CASE SameBlock(t)
  <2>1. thread[t].pc = "enter" /\ ~Updating(thread[t]) /\ InUpdate(thread[t])
    BY <1>1 DEF SameBlock, At, Updating, UpdatePlaces, InUpdate
  <2>2. PICK r : /\ Head(thread[t].stack) = r /\ r \in {"idle", "verdict", "changed"}
                 /\ <<"newblock">> \o thread[t].stack = <<"newblock", r>>
    BY <2>1, UpdateReturns
  <2>3. CASE EndUpdateBlock(t)
    <3>1. Moved(t, r, Tail(thread[t].stack), thread[t].template, NoUpdate)
      BY <2>2, <2>3, EndedUpdate
    <3>2. r \notin UpdatePlaces \cup {"enter", "newblock", "notify"} \cup JobPlaces
      BY <2>2 DEF UpdatePlaces, JobPlaces
    <3>3. QED  BY <2>1, <3>1, <3>2, OutsideMove
  <2>4. CASE Call(t, "getMC", "newblock")
    <3>1. Moved(t, "getMC", <<"newblock">> \o thread[t].stack, thread[t].template, thread[t].upd)
      BY <2>4, Called
    <3>2. Head(<<"newblock">> \o thread[t].stack) = "newblock"
      BY <2>2, Stacks
    <3>3. QED  BY <2>1, <3>1, <3>2
          DEF Moved, Outside, Updating, NeedsMP, InUpdate, UpdatePlaces
  <2>5. QED  BY <1>1, <2>3, <2>4, SameBlockLeaves
<1>2. CASE StartShare(t)
  <2>1. thread[t].pc = "idle" /\ self.networkTarget # None
    BY <1>2 DEF StartShare, At
  <2>2. PICK b \in Templates :
          CallUpdateBlock(t, [prev |-> b.prev, height |-> 0, bits |-> None], "idle")
    BY <1>2 DEF StartShare
  <2>3. b.prev # None
    BY TemplatesAssumption
  <2>4. Moved(t, "enter", <<"idle">> \o thread[t].stack, thread[t].template,
              [prev |-> b.prev, height |-> 0, bits |-> None, last |-> 0, ocmr |-> None])
    BY <2>2, CalledUpdate
  <2>5. /\ thread'[t].pc = "enter" /\ thread'[t].upd.prev # None /\ thread'[t].upd.height = 0
        /\ \A v \in Threads : v # t => thread'[v] = thread[v]
    BY <2>3, <2>4 DEF Moved
  <2>6. QED  BY <2>1, <2>5 DEF Outside, Updating, NeedsMP, UpdatePlaces, JobPlaces
<1>3. QED  BY <1>1, <1>2

LEMMA OutsidePollSteps ==
  ASSUME TypeOK, NEW t \in Threads, Poll(t)
  PROVE  \A v \in Threads : Outside(v)
<1>1. thread[t].pc \in PollPlaces \cup {"fetch", "notify", "settle"} /\ ~Updating(thread[t])
  BY DEF Poll, Fetch, Process, Verdict, Compare, Adopt, Notify, Settle, At, PollPlaces,
     Updating, UpdatePlaces
<1>2. ASSUME NEW l \in {"process", "verdict", "compare", "adopt", "settle", "idle"},
             NEW s, NEW b, NEW u, Moved(t, l, s, b, u)
      PROVE  \A v \in Threads : Outside(v)
  <2>1. l \notin UpdatePlaces \cup {"enter", "newblock", "notify"} \cup JobPlaces
    BY DEF UpdatePlaces, JobPlaces
  <2>2. QED  BY <1>1, <1>2, <2>1, OutsideMove
<1>3. CASE Fetch(t)
  <2>1. PICK f : f = [thread[t] EXCEPT !.pc = "process", !.template = tip]
    OBVIOUS
  <2>2. f.pc = "process"
    BY <2>1 DEF TypeOK, FrameType
  <2>3. SetThread(t, f) \/ Unwind(t)
    BY <1>3, <2>1 DEF Fetch
  <2>4. QED  BY <1>2, <2>2, <2>3, MovedTo, Unwound
<1>4. CASE Process(t) \/ Compare(t)
  <2>1. PICK b : b = thread[t].template
    OBVIOUS
  <2>2. b.prev # None /\ b.bits # None
    <3>1. thread[t].pc \in PollPlaces
      BY <1>4 DEF Process, Compare, At, PollPlaces
    <3>2. b \in Templates
      BY <2>1, <3>1 DEF TypeOK, FrameOK
    <3>3. QED  BY <3>2, TemplatesAssumption
  <2>3. ASSUME NEW r, CallUpdateBlock(t, b, r) PROVE \A v \in Threads : Outside(v)
    <3>1. Moved(t, "enter", <<r>> \o thread[t].stack, thread[t].template,
                [prev |-> b.prev, height |-> b.height, bits |-> b.bits, last |-> 0,
                 ocmr |-> None])
      BY <2>3, CalledUpdate
    <3>2. /\ thread'[t].pc = "enter" /\ thread'[t].upd.prev # None
          /\ thread'[t].upd.bits # None
          /\ \A v \in Threads : v # t => thread'[v] = thread[v]
      BY <2>2, <3>1 DEF Moved
    <3>3. QED  BY <1>1, <3>2 DEF Outside, Updating, NeedsMP, UpdatePlaces, JobPlaces
  <2>4. \/ \E r : CallUpdateBlock(t, b, r)
        \/ Goto(t, "verdict") \/ Goto(t, "adopt")
    BY <1>4, <2>1 DEF Process, Compare
  <2>5. QED  BY <1>2, <2>3, <2>4, Went
<1>5. CASE Verdict(t) \/ Settle(t)
  <2>1. Goto(t, "compare") \/ Unwind(t)
    BY <1>5 DEF Verdict, Settle
  <2>2. QED  BY <1>2, <2>1, Went, Unwound
<1>6. CASE Adopt(t)
  <2>1. Unwind(t) \/ Goto(t, "settle") \/ Goto(t, "notify")
    BY <1>6 DEF Adopt
  <2>2. ASSUME Goto(t, "notify") PROVE \A v \in Threads : Outside(v)
    <3>1. thread'[t].pc = "notify" /\ \A v \in Threads : v # t => thread'[v] = thread[v]
      BY <2>2, Went DEF Moved
    <3>2. QED  BY <1>1, <1>6, <3>1 DEF Outside, Updating, InUpdate, UpdatePlaces, JobPlaces
  <2>3. QED  BY <1>2, <2>1, <2>2, Went, Unwound
<1>7. CASE Notify(t)
  <2>1. thread[t].pc = "notify" /\ Call(t, "getMC", "settle")
    BY <1>7 DEF Notify, At
  <2>2. Moved(t, "getMC", <<"settle">> \o thread[t].stack, thread[t].template, thread[t].upd)
    BY <2>1, Called
  <2>3. Head(<<"settle">> \o thread[t].stack) = "settle"
    BY <2>1, LoopStack, Stacks DEF LoopPlaces
  <2>4. QED  BY <1>1, <2>1, <2>2, <2>3
        DEF Moved, Outside, Updating, NeedsMP, InUpdate, UpdatePlaces
<1>8. QED  BY <1>3, <1>4, <1>5, <1>6, <1>7 DEF Poll

LEMMA OutsideLoopSteps ==
  ASSUME TypeOK, NEW t \in Threads,
         \/ t = MM /\ (LoopPoll \/ LoopFire \/ Fired \/ LoopMake \/ CheckHeight \/ Put)
         \/ t = Getwork /\ (RunOut \/ GetClear)
         \/ StartGetMC(t) \/ StartPoll(t)
  PROVE  \A v \in Threads : Outside(v)
<1>1. thread[t].pc \in {"idle", "fired", "made", "put", "get"}
  BY DEF LoopPoll, LoopFire, Fired, LoopMake, CheckHeight, Put, RunOut, GetClear, StartGetMC,
     StartPoll, At
<1>2. ~Updating(thread[t])
  BY <1>1 DEF Updating, UpdatePlaces
<1>3. ASSUME NEW l \in {"fetch", "idle", "made", "put", "get"}, Goto(t, l)
      PROVE  \A v \in Threads : Outside(v)
  <2>1. l \notin UpdatePlaces \cup {"enter", "newblock", "notify"} \cup JobPlaces
    BY DEF UpdatePlaces, JobPlaces
  <2>2. QED  BY <1>2, <1>3, <2>1, Went, OutsideMove
<1>4. ASSUME NEW r \in {"idle", "fired"}, Call(t, "getMC", r)
      PROVE  \A v \in Threads : Outside(v)
  <2>1. Moved(t, "getMC", <<r>> \o thread[t].stack, thread[t].template, thread[t].upd)
    BY <1>4, Called
  <2>2. Head(<<r>> \o thread[t].stack) = r
    BY <1>1, LoopStack, Stacks DEF LoopPlaces
  <2>3. "getMC" \notin UpdatePlaces \cup {"enter", "newblock", "notify"}
    BY DEF UpdatePlaces
  <2>4. QED  BY <1>2, <2>1, <2>2, <2>3, OutsideMove
<1>5. CASE t = MM /\ (LoopPoll \/ Fired \/ LoopMake \/ CheckHeight \/ Put)
  BY <1>3, <1>5 DEF LoopPoll, Fired, LoopMake, CheckHeight, Put
<1>6. CASE (t = MM /\ LoopFire) \/ StartGetMC(t)
  BY <1>4, <1>6 DEF LoopFire, StartGetMC
<1>7. CASE t = Getwork /\ RunOut
  BY <1>3, <1>7 DEF RunOut
<1>8. CASE t = Getwork /\ GetClear
  <2>1. thread' = thread \/ Goto(Getwork, "idle")
    BY <1>8 DEF GetClear
  <2>2. QED  BY <1>3, <1>8, <2>1 DEF Outside
<1>9. CASE StartPoll(t)
  BY <1>3, <1>9 DEF StartPoll
<1>10. QED  BY <1>5, <1>6, <1>7, <1>8, <1>9

LEMMA OutsideJobSteps ==
  ASSUME TypeOK, NEW t \in Threads, GetMC(t) \/ Job(t)
  PROVE  \A v \in Threads : Outside(v)
<1>1. thread[t].pc \in {"getMC", "job"} /\ thread[t].pc \in JobPlaces /\ ~Updating(thread[t])
  BY DEF GetMC, Job, At, JobPlaces, Updating, UpdatePlaces
<1>2. CASE GetMC(t)
  <2>1. PICK l \in {"job", "waiting"} : Goto(t, l)
    BY <1>2 DEF GetMC
  <2>2. Moved(t, l, thread[t].stack, thread[t].template, thread[t].upd)
    BY <2>1, Went
  <2>3. l \in JobPlaces /\ l \notin UpdatePlaces \cup {"enter", "newblock", "notify"}
    BY DEF JobPlaces, UpdatePlaces
  <2>4. QED  BY <1>1, <2>2, <2>3 DEF Moved, Outside, Updating, NeedsMP, InUpdate
<1>3. CASE Job(t)
  <2>1. CASE Unwind(t)
    <3>1. "idle" \notin UpdatePlaces \cup {"enter", "newblock", "notify"} \cup JobPlaces
      BY DEF JobPlaces, UpdatePlaces
    <3>2. QED  BY <1>1, <2>1, <3>1, Unwound, OutsideMove
  <2>2. CASE Return(t)
    <3>1. PICK l : l = Head(thread[t].stack)
      OBVIOUS
    <3>2. l \in {"idle", "settle", "fired", "newblock"}
      BY <1>1, <3>1, JobReturns
    <3>3. Moved(t, l, Tail(thread[t].stack), thread[t].template, thread[t].upd)
      BY <2>2, <3>1, Returned
    <3>4. l \notin UpdatePlaces \cup {"enter", "notify"} \cup JobPlaces
      BY <3>2 DEF JobPlaces, UpdatePlaces
    <3>5. QED  BY <1>1, <3>1, <3>3, <3>4 DEF Moved, Outside, Updating, NeedsMP, InUpdate
  <2>3. QED  BY <1>3, <2>1, <2>2 DEF Job
<1>4. QED  BY <1>2, <1>3

LEMMA HaveMPStays ==
  ASSUME TypeOK, HaveMP, [Next]_vars
  PROVE  HaveMP'
<1>0. /\ self \in SelfType
      /\ self.curClearMerkleTree \in TreeType /\ self.nextMerkleTree \in TreeType
  BY DEF TypeOK, SelfType, HaveMP
<1>1. ASSUME TreesKept PROVE HaveMP'
  BY <1>1 DEF TreesKept, HaveMP
<1>2. ASSUME NEW t \in Threads, Assign(t) \/ Unready(t) \/ SetReady(t) \/ Notify(t)
      PROVE  HaveMP'
  BY <1>2, AssignTrees, UnreadyTrees, SetReadyTrees, NotifyTrees DEF HaveMP
<1>3. ASSUME NEW t \in Threads, Replace(t) PROVE HaveMP'
  <2>1. thread[t].upd.height \in Nat
    BY DEF TypeOK, FrameType, UpdateType
  <2>2. PICK c : c = ClearTree(thread[t].upd.height)
    OBVIOUS
  <2>3. c \in TreeType /\ c.MP /\ c # None
    BY <2>1, <2>2, TreeTypes, NoneAssumption DEF HaveMP
  <2>4. self'.curClearMerkleTree \in {self.nextMerkleTree, self.curClearMerkleTree, c}
    BY <1>3, <2>2, ReplaceTrees
  <2>5. /\ self'.nextMerkleTree = self.nextMerkleTree
        /\ self'.currentMerkleTree = self.currentMerkleTree
    BY <1>3, ReplaceTrees
  <2>6. QED  BY <2>3, <2>4, <2>5 DEF HaveMP
<1>4. ASSUME NEW t \in Threads, Fresh(t) PROVE HaveMP'
  <2>1. thread[t].upd.height + 1 \in Nat
    BY DEF TypeOK, FrameType, UpdateType
  <2>2. PICK c : c = ClearTree(thread[t].upd.height + 1)
    OBVIOUS
  <2>3. c \in TreeType /\ c.MP /\ c # None
    BY <2>1, <2>2, TreeTypes, NoneAssumption DEF HaveMP
  <2>4. /\ self'.nextMerkleTree \in {self.nextMerkleTree, c}
        /\ self'.curClearMerkleTree = self.curClearMerkleTree
        /\ self'.currentMerkleTree = self.currentMerkleTree
    BY <1>4, <2>2, FreshTrees
  <2>5. QED  BY <2>3, <2>4 DEF HaveMP
<1>5. ASSUME NEW t \in Threads, Clear(t) PROVE HaveMP'
  BY <1>5, ClearTrees DEF HaveMP
<1>6. ASSUME NEW t \in Threads, t \in Pollers, Adopt(t) PROVE HaveMP'
  <2>1. thread[t].template \in Templates
    BY <1>6 DEF Adopt, At, PollPlaces, TypeOK, FrameOK
  <2>2. TemplateTree(thread[t].template) \in TreeType
    <3>1. thread[t].template.prev \in BlockPrevs /\ thread[t].template.height \in Nat
      BY <2>1, TemplatesAssumption DEF BlockPrevs
    <3>2. QED  BY <3>1 DEF TemplateTree, TreeType
  <2>3. PICK b, c, n : /\ b = TemplateTree(thread[t].template)
                       /\ c = WithMP(self.curClearMerkleTree)
                       /\ n = WithMP(self.nextMerkleTree)
    OBVIOUS
  <2>4. /\ self'.currentMerkleTree = b /\ self'.curClearMerkleTree = c
        /\ self'.nextMerkleTree \in {self.nextMerkleTree, n}
    BY <1>6, <2>3, AdoptTrees DEF HaveMP, SameTree
  <2>5. b # None /\ c # None /\ c.MP /\ n # None /\ n.MP
    BY <1>0, <2>2, <2>3, TreeTypes, NoneAssumption
  <2>6. QED  BY <2>4, <2>5 DEF HaveMP
<1>7. ASSUME NEW t \in Threads, Poll(t), ~Adopt(t), ~Notify(t) PROVE HaveMP'
  BY <1>1, <1>7, KeepsTrees DEF Poll
<1>8. MM \in Threads /\ Pollers \subseteq Threads
  BY DEF Threads, Pollers
<1>9. ASSUME NEW t \in Threads,
             \/ SameBlock(t) \/ NewBlock(t) \/ Wake(t) \/ Signal(t) \/ Need(t)
             \/ GetMC(t) \/ Job(t) \/ StartGetMC(t) \/ StartShare(t) \/ StartPoll(t)
             \/ LoopPoll \/ LoopFire \/ Fired \/ LoopMake \/ CheckHeight \/ Put
             \/ RunOut \/ GetClear \/ PopRegular \/ NewTip \/ Tick \/ UNCHANGED vars
      PROVE  HaveMP'
  BY <1>1, <1>9, KeepsTrees
<1>10. QED  BY <1>2, <1>3, <1>4, <1>5, <1>6, <1>7, <1>8, <1>9, Steps

\* The steps that are in no updateBlock, or only at its start.
LEMMA OutsideSteps ==
  ASSUME TypeOK, [Next]_vars
  PROVE  \/ \A v \in Threads : Outside(v)
         \/ \E t \in Threads :
              \/ NewBlock(t) \/ Assign(t) \/ Replace(t) \/ Wake(t) \/ Unready(t) \/ Fresh(t)
              \/ Clear(t) \/ SetReady(t) \/ Signal(t) \/ Need(t)
<1>1. MM \in Threads /\ Getwork \in Threads
  BY DEF Threads, Pollers, Servers
<1>2. CASE PopRegular \/ NewTip \/ Tick \/ UNCHANGED vars
  BY <1>2 DEF PopRegular, NewTip, Tick, vars, Outside
<1>3. CASE \/ LoopPoll \/ LoopFire \/ Fired \/ LoopMake \/ CheckHeight \/ Put
           \/ RunOut \/ GetClear
  BY <1>1, <1>3, OutsideLoopSteps
<1>4. ASSUME NEW t \in Threads, StartGetMC(t) \/ StartPoll(t)
      PROVE  \A v \in Threads : Outside(v)
  BY <1>4, OutsideLoopSteps
<1>5. ASSUME NEW t \in Threads, SameBlock(t) \/ StartShare(t) \/ Poll(t) \/ GetMC(t) \/ Job(t)
      PROVE  \A v \in Threads : Outside(v)
  BY <1>5, OutsideUpdateSteps, OutsidePollSteps, OutsideJobSteps
<1>6. QED  BY <1>2, <1>3, <1>4, <1>5, Steps

\* A thread inside updateBlock, or at the end of it, does not run onBlockChange.
LEMMA InsideSteps ==
  ASSUME TypeOK, NEW t \in Threads,
         \/ NewBlock(t) \/ Assign(t) \/ Replace(t) \/ Wake(t) \/ Unready(t) \/ Fresh(t)
         \/ Clear(t) \/ SetReady(t) \/ Signal(t) \/ Need(t)
  PROVE  \A v \in Threads : NeedsMP(thread'[v]) => NeedsMP(thread[v])
<1>1. ASSUME NEW l, NEW s, NEW b, NEW u, Moved(t, l, s, b, u),
             l \in UpdatePlaces \cup {"idle", "verdict", "changed"}
      PROVE  \A v \in Threads : NeedsMP(thread'[v]) => NeedsMP(thread[v])
  BY <1>1 DEF Moved, NeedsMP, UpdatePlaces, JobPlaces
<1>2. CASE NewBlock(t) \/ Assign(t) \/ Wake(t)
  BY <1>1, <1>2, NewBlockMoves, AssignMoves, WakeMoves DEF UpdatePlaces
<1>3. CASE Replace(t) \/ Fresh(t) \/ Clear(t) \/ SetReady(t)
  <2>1. \/ Unwind(t)
        \/ \E l \in {"wake", "clear", "ready", "need", "signal"} : Goto(t, l)
    BY <1>3 DEF Replace, AdoptNext, StartEmpty, ReplaceRaises, Fresh, Clear, SetReady
  <2>2. QED  BY <1>1, <2>1, Went, Unwound DEF UpdatePlaces
<1>4. CASE Unready(t) \/ Need(t)
  <2>1. EndUpdateBlock(t) /\ thread[t].pc \in UpdatePlaces
    BY <1>4 DEF Unready, Need, At, UpdatePlaces
  <2>2. QED  BY <1>1, <2>1, EndedUpdate, UpdateReturns
<1>5. CASE Signal(t)
  BY <1>5, SignalMoves DEF NeedsMP, JobPlaces
<1>6. QED  BY <1>2, <1>3, <1>4, <1>5

LEMMA MPNext ==
  ASSUME TypeOK, MPInv, [Next]_vars
  PROVE  MPInv'
<1>. SUFFICES ASSUME NEW v \in Threads, NeedsMP(thread'[v])
              PROVE  HaveMP'
  BY DEF MPInv
<1>1. NeedsMP(thread[v]) \/ Adopt(v)
  BY OutsideSteps, InsideSteps DEF Outside
<1>2. CASE NeedsMP(thread[v])
  BY <1>2, HaveMPStays DEF MPInv
<1>3. CASE Adopt(v)
  <2>1. thread[v].template \in Templates
    BY <1>3 DEF Adopt, At, PollPlaces, TypeOK, FrameOK
  <2>2. TemplateTree(thread[v].template) \in TreeType
    <3>1. thread[v].template.prev \in BlockPrevs /\ thread[v].template.height \in Nat
      BY <2>1, TemplatesAssumption DEF BlockPrevs
    <3>2. QED  BY <3>1 DEF TemplateTree, TreeType
  <2>3. thread'[v].pc # "idle"
    BY DEF NeedsMP, JobPlaces
  <2>4. ~Unwind(v)
    BY <2>3, Unwound DEF Moved
  <2>5. PICK b, c, n : /\ b = TemplateTree(thread[v].template)
                       /\ c = WithMP(self.curClearMerkleTree)
                       /\ n = WithMP(self.nextMerkleTree)
    OBVIOUS
  <2>6. /\ self'.currentMerkleTree = b /\ self'.curClearMerkleTree = c
        /\ self'.nextMerkleTree = n
        /\ self.curClearMerkleTree # None /\ self.nextMerkleTree # None
    BY <1>3, <2>4, <2>5, AdoptTrees
  <2>7. self.curClearMerkleTree \in TreeType /\ self.nextMerkleTree \in TreeType
    BY <2>6 DEF TypeOK, SelfType
  <2>8. b # None /\ c # None /\ c.MP /\ n # None /\ n.MP
    BY <2>2, <2>5, <2>7, TreeTypes, NoneAssumption
  <2>9. QED  BY <2>6, <2>8 DEF HaveMP
<1>4. QED  BY <1>1, <1>2, <1>3

LEMMA MPInit == Init => MPInv
  BY DEF Init, Start, MPInv, NeedsMP, JobPlaces

\* Clean jobs are built from a clear tree that has its header fields: whoever
\* runs onBlockChange adopted a template first, which gave them to both clear
\* trees there were, and every tree made since takes them from the current one.
THEOREM CleanJobsAreFed == Spec => []CleanJobsHaveMP
<1>1. TypeOK /\ MPInv => CleanJobsHaveMP
  BY DEF MPInv, NeedsMP, HaveMP, JobPlaces, CleanJobsHaveMP, At
<1>2. IInv /\ MPInv /\ [Next]_vars => MPInv'
  BY MPNext DEF IInv
<1>3. IInv => TypeOK
  BY DEF IInv
<1>4. QED  BY <1>1, <1>2, <1>3, InitOK, NextOK, MPInit, PTL DEF Spec

-----------------------------------------------------------------------------
\* The trees and the block they are for.  The locals of an updateBlock: bits
\* that nobody told are looked for only once there are trees, and the block
\* they are asked for is the next one.
CallOK(f, s) ==
  InUpdate(f) =>
    /\ f.upd.prev # None
    /\ f.upd.bits = None =>
         /\ s.nextMerkleTree # None
         /\ f.upd.height = IF Updating(f) THEN f.upd.last + 1 ELSE 0
CallsInv ==
  /\ \A t \in Threads : CallOK(thread[t], self)
  /\ self.networkTarget # None => self.nextMerkleTree # None

LEMMA NextStays ==
  ASSUME TypeOK, self.nextMerkleTree # None, [Next]_vars
  PROVE  self'.nextMerkleTree # None
<1>1. ASSUME NEW t \in Threads, Fresh(t) PROVE self'.nextMerkleTree # None
  <2>1. thread[t].upd.height + 1 \in Nat
    BY DEF TypeOK, FrameType, UpdateType
  <2>2. ClearTree(thread[t].upd.height + 1) # None
    BY <2>1, TreeTypes, NoneAssumption
  <2>3. QED  BY <1>1, <2>2, FreshTrees
<1>2. ASSUME NEW t \in Threads, Adopt(t) PROVE self'.nextMerkleTree # None
  <2>1. WithMP(self.nextMerkleTree) # None
    BY TreeTypes, NoneAssumption DEF TypeOK, SelfType
  <2>2. QED  BY <1>2, <2>1, AdoptTrees DEF SameTree
<1>3. ASSUME NEW t \in Threads,
             Assign(t) \/ Replace(t) \/ Clear(t) \/ Unready(t) \/ SetReady(t) \/ Notify(t)
      PROVE  self'.nextMerkleTree # None
  BY <1>3, AssignTrees, ReplaceTrees, ClearTrees, UnreadyTrees, SetReadyTrees, NotifyTrees
<1>4. ASSUME TreesKept PROVE self'.nextMerkleTree # None
  BY <1>4 DEF TreesKept
<1>5. ASSUME NEW t \in Threads, Poll(t), ~Adopt(t), ~Notify(t) PROVE TreesKept
  BY <1>5, KeepsTrees DEF Poll
<1>6. ASSUME NEW t \in Threads,
             \/ SameBlock(t) \/ NewBlock(t) \/ Wake(t) \/ Signal(t) \/ Need(t)
             \/ GetMC(t) \/ Job(t) \/ StartGetMC(t) \/ StartShare(t) \/ StartPoll(t)
             \/ LoopPoll \/ LoopFire \/ Fired \/ LoopMake \/ CheckHeight \/ Put
             \/ RunOut \/ GetClear \/ PopRegular \/ NewTip \/ Tick \/ UNCHANGED vars
      PROVE  TreesKept
  BY <1>6, KeepsTrees
<1>7. MM \in Threads
  BY DEF Threads, Pollers
<1>8. QED  BY <1>1, <1>2, <1>3, <1>4, <1>5, <1>6, <1>7, Steps

LEMMA TargetKept ==
  ASSUME TypeOK, [Next]_vars
  PROVE  \/ self'.networkTarget = self.networkTarget
         \/ \E t \in Threads : thread[t].pc = "notify"
<1>1. ASSUME NEW t \in Threads,
             \/ Assign(t) \/ Replace(t) \/ Fresh(t) \/ Clear(t) \/ Unready(t) \/ SetReady(t)
             \/ Adopt(t)
      PROVE  self'.networkTarget = self.networkTarget
  BY <1>1, AssignTrees, ReplaceTrees, FreshTrees, ClearTrees, UnreadyTrees, SetReadyTrees,
     AdoptTrees
<1>2. ASSUME NEW t \in Threads, Notify(t) PROVE thread[t].pc = "notify"
  BY <1>2, NotifyTrees
<1>3. ASSUME NEW t \in Threads, Poll(t), ~Adopt(t), ~Notify(t) PROVE TreesKept
  BY <1>3, KeepsTrees DEF Poll
<1>4. ASSUME NEW t \in Threads,
             \/ SameBlock(t) \/ NewBlock(t) \/ Wake(t) \/ Signal(t) \/ Need(t)
             \/ GetMC(t) \/ Job(t) \/ StartGetMC(t) \/ StartShare(t) \/ StartPoll(t)
             \/ LoopPoll \/ LoopFire \/ Fired \/ LoopMake \/ CheckHeight \/ Put
             \/ RunOut \/ GetClear \/ PopRegular \/ NewTip \/ Tick \/ UNCHANGED vars
      PROVE  TreesKept
  BY <1>4, KeepsTrees
<1>5. MM \in Threads
  BY DEF Threads, Pollers
<1>6. QED  BY <1>1, <1>2, <1>3, <1>4, <1>5, Steps DEF TreesKept

\* What the steps of updateBlock do to its locals.
LEMMA InsideLocals ==
  ASSUME TypeOK, NEW t \in Threads,
         \/ Assign(t) \/ Replace(t) \/ Wake(t) \/ Unready(t) \/ Fresh(t)
         \/ Clear(t) \/ SetReady(t) \/ Signal(t) \/ Need(t)
  PROVE  /\ Updating(thread[t])
         /\ \/ ~InUpdate(thread'[t])
            \/ /\ Updating(thread'[t])
               /\ thread'[t].upd.prev = thread[t].upd.prev
               /\ thread'[t].upd.bits = thread[t].upd.bits
               /\ thread'[t].upd.height = thread[t].upd.height
               /\ thread'[t].upd.last = thread[t].upd.last
         /\ \A v \in Threads : v # t =>
              \/ thread'[v] = thread[v]
              \/ /\ thread[v].pc = "waiting" /\ thread'[v].pc = "getMC"
                 /\ thread'[v].stack = thread[v].stack /\ thread'[v].upd = thread[v].upd
         /\ StillCalm
<1>1. Updating(thread[t])
  BY DEF Assign, Replace, Wake, Unready, Fresh, Clear, SetReady, Signal, Need, At, Updating,
     UpdatePlaces
<1>2. CASE Assign(t) \/ Wake(t)
  BY <1>1, <1>2, AssignMoves, WakeMoves DEF Moved, Updating, UpdatePlaces
<1>3. CASE Replace(t) \/ Fresh(t) \/ Clear(t) \/ SetReady(t)
  <2>1. \/ Unwind(t)
        \/ \E l \in {"wake", "clear", "ready", "need", "signal"} : Goto(t, l)
    BY <1>3 DEF Replace, AdoptNext, StartEmpty, ReplaceRaises, Fresh, Clear, SetReady
  <2>2. CASE Unwind(t)
    BY <1>1, <2>2, Unwound DEF Moved, InUpdate, UpdatePlaces, JobPlaces
  <2>3. ASSUME NEW l \in {"wake", "clear", "ready", "need", "signal"}, Goto(t, l)
        PROVE  /\ Updating(thread'[t]) /\ thread'[t].upd = thread[t].upd
               /\ \A v \in Threads : v # t => thread'[v] = thread[v]
               /\ StillCalm
    BY <2>3, Went DEF Moved, Updating, UpdatePlaces
  <2>4. QED  BY <1>1, <2>1, <2>2, <2>3
<1>4. CASE Unready(t) \/ Need(t)
  <2>1. EndUpdateBlock(t) /\ thread[t].pc \in UpdatePlaces
    BY <1>4 DEF Unready, Need, At, UpdatePlaces
  <2>2. thread'[t].pc \in {"idle", "verdict", "changed"}
    BY <2>1, EndedUpdate, UpdateReturns DEF Moved
  <2>3. ~InUpdate(thread'[t])
    BY <2>2 DEF InUpdate, UpdatePlaces, JobPlaces
  <2>4. QED  BY <1>1, <2>1, <2>3, EndedUpdate DEF Moved
<1>5. CASE Signal(t)
  <2>1. thread'[t].pc = "need" /\ thread'[t].upd = thread[t].upd
    BY <1>5, SignalMoves
  <2>2. QED  BY <1>1, <1>5, <2>1, SignalMoves DEF Updating, UpdatePlaces
<1>6. QED  BY <1>2, <1>3, <1>4, <1>5

LEMMA CallsNext ==
  ASSUME TypeOK, MPInv, CallsInv, [Next]_vars
  PROVE  CallsInv'
<1>1. self.nextMerkleTree # None => self'.nextMerkleTree # None
  BY NextStays
<1>2. self'.networkTarget # None => self'.nextMerkleTree # None
  <2>1. ASSUME NEW t \in Threads, thread[t].pc = "notify" PROVE self.nextMerkleTree # None
    BY <2>1 DEF MPInv, NeedsMP, HaveMP
  <2>2. QED  BY <1>1, <2>1, TargetKept DEF CallsInv
<1>3. ASSUME NEW v \in Threads PROVE CallOK(thread'[v], self')
  <2>1. CASE Outside(v)
    <3>1. SUFFICES ASSUME InUpdate(thread'[v]), thread'[v] # thread[v]
                   PROVE  CallOK(thread'[v], self')
      BY <1>1 DEF CallOK, CallsInv
    <3>2. ~Updating(thread[v]) /\ ~Updating(thread'[v])
      BY <2>1, <3>1 DEF Outside
    <3>3. CASE InUpdate(thread[v]) /\ thread'[v].upd = thread[v].upd
      BY <1>1, <3>2, <3>3 DEF CallOK, CallsInv
    <3>4. CASE /\ thread'[v].upd.prev # None
               /\ \/ thread'[v].upd.bits # None
                  \/ thread'[v].upd.height = 0 /\ self.networkTarget # None
      BY <1>1, <3>2, <3>4 DEF CallOK, CallsInv
    <3>5. QED  BY <2>1, <3>1, <3>3, <3>4 DEF Outside
  <2>2. ASSUME NEW t \in Threads, NewBlock(t) PROVE CallOK(thread'[v], self')
    <3>1. CASE v # t
      BY <1>1, <2>2, <3>1, NewBlockMoves DEF Moved, CallOK, CallsInv
    <3>2. CASE v = t
      <4>1. InUpdate(thread[t]) /\ ~Updating(thread[t])
        BY <2>2 DEF NewBlock, At, InUpdate, Updating, UpdatePlaces
      <4>2. PICK old, new : old = thread[t].upd /\ new = thread'[t].upd
        OBVIOUS
      <4>3. /\ thread'[t].pc = "assign" /\ new.prev = old.prev
            /\ new.last = self.currentBlock.height
            /\ new.height = IF old.height = 0 THEN self.currentBlock.height + 1 ELSE old.height
            /\ new.bits = None => old.bits = None
        BY <2>2, <4>2, NewBlockMoves DEF Moved
      <4>4. old.prev # None /\ (old.bits = None => self.nextMerkleTree # None /\ old.height = 0)
        BY <4>1, <4>2 DEF CallsInv, CallOK
      <4>5. new.prev # None /\ (new.bits = None => /\ self'.nextMerkleTree # None
                                                   /\ new.height = new.last + 1)
        BY <1>1, <4>3, <4>4
      <4>6. Updating(thread'[t])
        BY <4>3 DEF Updating, UpdatePlaces
      <4>7. QED  BY <3>2, <4>2, <4>5, <4>6 DEF CallOK
    <3>3. QED  BY <3>1, <3>2
  <2>3. ASSUME NEW t \in Threads,
               \/ Assign(t) \/ Replace(t) \/ Wake(t) \/ Unready(t) \/ Fresh(t)
               \/ Clear(t) \/ SetReady(t) \/ Signal(t) \/ Need(t)
        PROVE  CallOK(thread'[v], self')
    <3>1. CASE v = t
      <4>1. InUpdate(thread[t]) /\ Updating(thread[t])
        BY <2>3, InsideLocals DEF InUpdate, Updating
      <4>2. QED  BY <1>1, <2>3, <3>1, <4>1, InsideLocals DEF CallOK, CallsInv
    <3>2. CASE v # t /\ thread'[v] = thread[v]
      BY <1>1, <3>2 DEF CallOK, CallsInv
    <3>3. CASE /\ thread[v].pc = "waiting" /\ thread'[v].pc = "getMC"
               /\ thread'[v].stack = thread[v].stack /\ thread'[v].upd = thread[v].upd
      <4>1. /\ InUpdate(thread'[v]) <=> InUpdate(thread[v])
            /\ ~Updating(thread'[v]) /\ ~Updating(thread[v])
        BY <3>3 DEF InUpdate, Updating, UpdatePlaces, JobPlaces
      <4>2. QED  BY <1>1, <3>3, <4>1 DEF CallOK, CallsInv
    <3>4. QED  BY <2>3, <3>1, <3>2, <3>3, InsideLocals
  <2>4. QED  BY <2>1, <2>2, <2>3, OutsideSteps
<1>4. QED  BY <1>2, <1>3 DEF CallsInv

-----------------------------------------------------------------------------
\* What holds of the trees at each place of updateBlock.

TreesFit(s) ==
  /\ s.curClearMerkleTree # None /\ s.curClearMerkleTree.height = s.currentBlock.height
  /\ s.nextMerkleTree # None /\ s.nextMerkleTree.height = s.currentBlock.height + 1
NoneYet(s) ==
  s.curClearMerkleTree = None /\ s.nextMerkleTree = None /\ s.currentBlock = NoBlock
Known(f, s) ==
  /\ s.currentBlock.prev # None /\ s.currentBlock.bits # None
  /\ s.currentBlock.height = f.upd.height
ClearFits(s) ==
  s.curClearMerkleTree # None /\ s.curClearMerkleTree.height = s.currentBlock.height
Stage(f, s) ==
  /\ f.pc = "assign" => (TreesFit(s) \/ NoneYet(s)) /\ f.upd.last = s.currentBlock.height
  /\ f.pc = "replace" =>
       IF f.upd.bits = None THEN TreesFit(s)
       ELSE /\ Known(f, s)
            /\ s.nextMerkleTree # None => s.nextMerkleTree.height = f.upd.last + 1
  /\ f.pc = "wake" => IF f.upd.bits = None THEN TreesFit(s) ELSE Known(f, s) /\ ClearFits(s)
  /\ f.pc = "unready" => TreesFit(s)
  /\ f.pc = "fresh" => Known(f, s) /\ ClearFits(s)
  /\ f.pc \in {"clear", "ready", "signal", "need"} => Known(f, s) /\ TreesFit(s)
Settled(s) ==
  /\ TreesFit(s) \/ NoneYet(s)
  /\ s.ready => s.currentBlock.prev # None /\ s.currentBlock.bits # None

TreesInv ==
  disturbed <= Race =>
    /\ \A t \in Threads : Updating(thread[t]) => Stage(thread[t], self)
    /\ NobodyUpdates => Settled(self)

\* Where no tree changes but for its header fields, nothing of this does.
SameTrees(new, old) ==
  /\ new.currentBlock = old.currentBlock /\ new.ready = old.ready
  /\ SameTree(new.curClearMerkleTree, old.curClearMerkleTree)
  /\ SameTree(new.nextMerkleTree, old.nextMerkleTree)

LEMMA StageKept ==
  ASSUME NEW new, NEW old \in SelfType, SameTrees(new, old)
  PROVE  /\ \A f : Stage(f, old) => Stage(f, new)
         /\ Settled(old) => Settled(new)
<1>1. ASSUME NEW a, NEW b \in TreeType \cup {None}, SameTree(a, b)
      PROVE  /\ a = None <=> b = None
             /\ b # None => a.height = b.height
  <2>1. CASE b = None
    BY <1>1, <2>1 DEF SameTree
  <2>2. CASE b \in TreeType
    <3>1. WithMP(b) \in TreeType /\ WithMP(b).height = b.height
      BY <2>2 DEF WithMP, TreeType
    <3>2. QED  BY <1>1, <2>2, <3>1, NoneAssumption DEF SameTree
  <2>3. QED  BY <2>1, <2>2
<1>2. /\ old.curClearMerkleTree \in TreeType \cup {None}
      /\ old.nextMerkleTree \in TreeType \cup {None}
  BY DEF SelfType
<1>3. /\ new.curClearMerkleTree = None <=> old.curClearMerkleTree = None
      /\ old.curClearMerkleTree # None =>
           new.curClearMerkleTree.height = old.curClearMerkleTree.height
      /\ new.nextMerkleTree = None <=> old.nextMerkleTree = None
      /\ old.nextMerkleTree # None => new.nextMerkleTree.height = old.nextMerkleTree.height
      /\ new.currentBlock = old.currentBlock /\ new.ready = old.ready
  BY <1>1, <1>2 DEF SameTrees
<1>4. /\ TreesFit(old) => TreesFit(new)
      /\ NoneYet(old) => NoneYet(new)
      /\ ClearFits(old) => ClearFits(new)
      /\ \A f : Known(f, old) => Known(f, new)
  BY <1>3 DEF TreesFit, NoneYet, ClearFits, Known
<1>5. ASSUME NEW f, Stage(f, old) PROVE Stage(f, new)
  BY <1>3, <1>4, <1>5 DEF Stage
<1>6. Settled(old) => Settled(new)
  BY <1>3, <1>4 DEF Settled
<1>7. QED  BY <1>5, <1>6

LEMMA OutsideTrees ==
  ASSUME TypeOK, [Next]_vars
  PROVE  \/ SameTrees(self', self)
         \/ \E t \in Threads :
              \/ Assign(t) \/ Replace(t) \/ Unready(t) \/ Fresh(t) \/ Clear(t) \/ SetReady(t)
<1>1. ASSUME TreesKept PROVE SameTrees(self', self)
  BY <1>1 DEF TreesKept, SameTrees, SameTree
<1>2. ASSUME NEW t \in Threads, Adopt(t) \/ Notify(t) PROVE SameTrees(self', self)
  BY <1>2, AdoptTrees, NotifyTrees DEF SameTrees, SameTree
<1>3. ASSUME NEW t \in Threads, Poll(t), ~Adopt(t), ~Notify(t) PROVE TreesKept
  BY <1>3, KeepsTrees DEF Poll
<1>4. ASSUME NEW t \in Threads,
             \/ SameBlock(t) \/ NewBlock(t) \/ Wake(t) \/ Signal(t) \/ Need(t)
             \/ GetMC(t) \/ Job(t) \/ StartGetMC(t) \/ StartShare(t) \/ StartPoll(t)
             \/ LoopPoll \/ LoopFire \/ Fired \/ LoopMake \/ CheckHeight \/ Put
             \/ RunOut \/ GetClear \/ PopRegular \/ NewTip \/ Tick \/ UNCHANGED vars
      PROVE  TreesKept
  BY <1>4, KeepsTrees
<1>5. MM \in Threads
  BY DEF Threads, Pollers
<1>6. QED  BY <1>1, <1>2, <1>3, <1>4, <1>5, Steps

\* Every step records what it does, and the history gets no better.
LEMMA CalmSteps ==
  ASSUME TypeOK, [Next]_vars
  PROVE  StillCalm \/ (thread' = thread /\ disturbed' = disturbed)
<1>1. ASSUME NEW t \in Threads,
             \/ SameBlock(t) \/ NewBlock(t) \/ Unready(t) \/ Clear(t) \/ SetReady(t) \/ Need(t)
             \/ Poll(t) \/ StartPoll(t) \/ GetMC(t) \/ Job(t) \/ StartGetMC(t) \/ StartShare(t)
      PROVE  StillCalm
  BY <1>1, QuietUpdateSteps, QuietPollSteps, QuietOtherSteps DEF Quiet
<1>2. ASSUME LoopPoll \/ LoopFire \/ Fired PROVE StillCalm
  BY <1>2, QuietOtherSteps DEF Quiet, Threads, Pollers
<1>3. ASSUME NEW t \in Threads, Assign(t) \/ Replace(t) \/ Wake(t) \/ Fresh(t) \/ Signal(t)
      PROVE  StillCalm
  BY <1>3, InsideLocals
<1>4. ASSUME NEW t \in Threads, NEW l, Goto(t, l) PROVE StillCalm
  BY <1>4, Went DEF Moved
<1>5. MM \in Threads /\ Getwork \in Threads
  BY DEF Threads, Pollers, Servers
<1>6. LoopMake \/ CheckHeight \/ Put \/ RunOut \/ GetClear =>
        StillCalm \/ (thread' = thread /\ disturbed' = disturbed)
  BY <1>4, <1>5 DEF LoopMake, CheckHeight, Put, RunOut, GetClear
<1>7. PopRegular \/ NewTip \/ Tick \/ UNCHANGED vars =>
        thread' = thread /\ disturbed' = disturbed
  BY DEF PopRegular, NewTip, Tick, vars
<1>8. QED  BY <1>1, <1>2, <1>3, <1>6, <1>7, Steps

LEMMA NoBetter ==
  ASSUME TypeOK, [Next]_vars
  PROVE  /\ disturbed' <= Race => disturbed <= Race
         /\ disturbed' = Nothing => disturbed = Nothing
  BY CalmSteps DEF StillCalm

\* Steps of updateBlock, while it runs alone and no exception cuts it short.
LEMMA StageAssign ==
  ASSUME TypeOK, NEW t \in Threads, Assign(t), Stage(thread[t], self),
         CallOK(thread[t], self)
  PROVE  Updating(thread'[t]) /\ Stage(thread'[t], self')
<1>1. PICK old, new : old = thread[t].upd /\ new = thread'[t].upd
  OBVIOUS
<1>2. /\ thread[t].pc = "assign" /\ new.prev = old.prev /\ new.height = old.height
      /\ new.bits = old.bits /\ new.last = old.last
      /\ Unknown(t) <=> old.bits = None
  BY <1>1, AssignMoves DEF Unknown
<1>3. /\ TreesFit(self) \/ NoneYet(self)
      /\ old.last = self.currentBlock.height
      /\ old.prev # None /\ (old.bits = None => /\ self.nextMerkleTree # None
                                                /\ old.height = old.last + 1)
  BY <1>1, <1>2 DEF Stage, CallOK, InUpdate, Updating, UpdatePlaces
<1>4. /\ old.bits = None => self'.currentBlock.height = old.height - 1
      /\ old.bits # None =>
           /\ self'.currentBlock.prev = old.prev /\ self'.currentBlock.height = old.height
           /\ self'.currentBlock.bits = old.bits
      /\ self'.curClearMerkleTree = self.curClearMerkleTree
      /\ self'.nextMerkleTree = self.nextMerkleTree
  <2>1. /\ old.bits = None => self'.currentBlock =
             [prev |-> None, height |-> old.height - 1, bits |-> None]
        /\ old.bits # None => self'.currentBlock =
             [prev |-> old.prev, height |-> old.height, bits |-> old.bits]
    BY <1>1, <1>2, AssignTrees
  <2>2. /\ self'.curClearMerkleTree = self.curClearMerkleTree
        /\ self'.nextMerkleTree = self.nextMerkleTree
    BY AssignTrees
  <2>3. QED  BY <2>1, <2>2
<1>5. old.last \in Nat /\ old.height \in Nat /\ old.height # 0
  <2>1. thread[t] \in FrameType /\ FrameOK(thread[t])
    BY DEF TypeOK
  <2>2. old \in UpdateType
    BY <1>1, <2>1 DEF FrameType
  <2>3. old.height # 0
    BY <1>1, <1>2, <2>1 DEF FrameOK
  <2>4. QED  BY <2>2, <2>3 DEF UpdateType
<1>6. CASE old.bits = None
  <2>1. thread'[t].pc = "replace"
    BY <1>2, <1>6, AssignMoves DEF Moved
  <2>2. TreesFit(self) /\ self'.currentBlock.height = self.currentBlock.height
    <3>1. old.height = old.last + 1 /\ self'.currentBlock.height = old.height - 1
      BY <1>3, <1>4, <1>6
    <3>2. self'.currentBlock.height = old.last
      BY <1>5, <3>1
    <3>3. QED  BY <1>3, <1>6, <3>2 DEF NoneYet
  <2>3. TreesFit(self')
    BY <1>4, <2>2 DEF TreesFit
  <2>4. QED  BY <1>1, <1>2, <1>6, <2>1, <2>3 DEF Stage, Updating, UpdatePlaces
<1>7. CASE old.bits # None
  <2>1. Known(thread'[t], self')
    BY <1>1, <1>2, <1>3, <1>4, <1>7 DEF Known
  <2>2. self'.nextMerkleTree # None => self'.nextMerkleTree.height = new.last + 1
    BY <1>2, <1>3, <1>4 DEF TreesFit, NoneYet
  <2>3. CASE thread'[t].pc = "replace"
    BY <1>1, <1>2, <1>7, <2>1, <2>2, <2>3 DEF Stage, Updating, UpdatePlaces
  <2>4. CASE thread'[t].pc = "clear" /\ old.last = old.height
    <3>0. NoBlock.height = 0
      BY DEF NoBlock
    <3>1. TreesFit(self)
      BY <1>3, <1>5, <2>4, <3>0 DEF NoneYet
    <3>2. TreesFit(self')
      BY <1>3, <1>4, <1>7, <2>4, <3>1 DEF TreesFit
    <3>3. QED  BY <2>1, <2>4, <3>2 DEF Stage, Updating, UpdatePlaces
  <2>5. QED  BY <1>1, <1>2, <1>7, <2>3, <2>4, AssignMoves DEF Moved
<1>8. QED  BY <1>6, <1>7

LEMMA StageReplace ==
  ASSUME TypeOK, NEW t \in Threads, Replace(t), Stage(thread[t], self),
         thread'[t].pc # "idle"
  PROVE  Updating(thread'[t]) /\ Stage(thread'[t], self')
<1>1. thread[t].pc = "replace" /\ ~Unwind(t)
  BY Unwound DEF Replace, At, Moved
<1>2. Goto(t, "wake") /\ ~ReplaceRaises(t)
  BY <1>1 DEF Replace, AdoptNext, StartEmpty, ReplaceRaises
<1>3. thread'[t].pc = "wake" /\ thread'[t].upd = thread[t].upd
  BY <1>2, Went DEF Moved
<1>4. PICK u : u = thread[t].upd
  OBVIOUS
<1>5. /\ u.height \in Nat /\ u.last \in Nat
      /\ Unknown(t) <=> u.bits = None
      /\ Follows(t) <=> u.last = u.height - 1
  BY <1>4 DEF TypeOK, FrameType, UpdateType, Unknown, Follows
<1>6. /\ self'.currentBlock = self.currentBlock /\ self'.nextMerkleTree = self.nextMerkleTree
  BY ReplaceTrees
<1>7. CASE u.bits = None
  <2>1. TreesFit(self)
    BY <1>1, <1>4, <1>7 DEF Stage
  <2>2. self'.curClearMerkleTree = self.curClearMerkleTree
    BY <1>2, <1>5, <1>7, ReplaceTrees
  <2>3. TreesFit(self')
    BY <1>6, <2>1, <2>2 DEF TreesFit
  <2>4. QED  BY <1>3, <1>4, <1>7, <2>3 DEF Stage, Updating, UpdatePlaces
<1>8. CASE u.bits # None
  <2>1. /\ Known(thread[t], self)
        /\ self.nextMerkleTree # None => self.nextMerkleTree.height = u.last + 1
    BY <1>1, <1>4, <1>8 DEF Stage
  <2>2. Known(thread'[t], self')
    BY <1>3, <1>6, <2>1 DEF Known
  <2>3. PICK c : c = ClearTree(u.height)
    OBVIOUS
  <2>4. c # None /\ c.height = u.height
    BY <1>5, <2>3, TreeTypes, NoneAssumption
  <2>5. \/ /\ self.nextMerkleTree # None /\ Follows(t)
           /\ self'.curClearMerkleTree = self.nextMerkleTree
        \/ self'.curClearMerkleTree = c
    BY <1>2, <1>4, <1>5, <1>8, <2>3, ReplaceTrees
  <2>6. self.currentBlock.height = u.height
    BY <1>4, <2>1 DEF Known
  <2>7. Follows(t) => u.last + 1 = u.height
    BY <1>5
  <2>8. ClearFits(self')
    BY <1>6, <2>1, <2>4, <2>5, <2>6, <2>7 DEF ClearFits
  <2>9. QED  BY <1>3, <1>4, <1>8, <2>2, <2>8 DEF Stage, Updating, UpdatePlaces
<1>9. QED  BY <1>7, <1>8

LEMMA StageWake ==
  ASSUME TypeOK, NEW t \in Threads, Wake(t), Stage(thread[t], self)
  PROVE  Updating(thread'[t]) /\ Stage(thread'[t], self')
<1>1. self' = self
  BY DEF Wake
<1>2. PICK old, new : old = thread[t].upd /\ new = thread'[t].upd
  OBVIOUS
<1>3. /\ thread[t].pc = "wake"
      /\ thread'[t].pc = (IF Unknown(t) THEN "unready" ELSE "fresh")
      /\ new.height = old.height
      /\ Unknown(t) <=> old.bits = None
  BY <1>2, WakeMoves DEF Moved, Unknown
<1>4. Known(thread[t], self) => Known(thread'[t], self)
  BY <1>2, <1>3 DEF Known
<1>5. QED  BY <1>1, <1>2, <1>3, <1>4 DEF Stage, Updating, UpdatePlaces

LEMMA StageFresh ==
  ASSUME TypeOK, NEW t \in Threads, Fresh(t), Stage(thread[t], self),
         thread'[t].pc # "idle"
  PROVE  Updating(thread'[t]) /\ Stage(thread'[t], self')
<1>1. thread[t].pc = "fresh" /\ ~Unwind(t)
  BY Unwound DEF Fresh, At, Moved
<1>2. PICK n : n = ClearTree(thread[t].upd.height + 1)
  OBVIOUS
<1>3. thread[t].upd.height + 1 \in Nat
  BY DEF TypeOK, FrameType, UpdateType
<1>4. n # None /\ n.height = thread[t].upd.height + 1
  BY <1>2, <1>3, TreeTypes, NoneAssumption
<1>5. /\ Goto(t, "clear") /\ self'.nextMerkleTree = n
      /\ self'.currentBlock = self.currentBlock
      /\ self'.curClearMerkleTree = self.curClearMerkleTree
  BY <1>1, <1>2, FreshTrees
<1>6. thread'[t].pc = "clear" /\ thread'[t].upd = thread[t].upd
  BY <1>5, Went DEF Moved
<1>7. Known(thread[t], self) /\ ClearFits(self)
  BY <1>1 DEF Stage
<1>8. Known(thread'[t], self') /\ TreesFit(self')
  BY <1>4, <1>5, <1>6, <1>7 DEF Known, ClearFits, TreesFit
<1>9. QED  BY <1>6, <1>8 DEF Stage, Updating, UpdatePlaces

LEMMA StageClear ==
  ASSUME TypeOK, NEW t \in Threads, Clear(t) \/ SetReady(t) \/ Signal(t),
         Stage(thread[t], self), thread'[t].pc # "idle"
  PROVE  Updating(thread'[t]) /\ Stage(thread'[t], self')
<1>1. thread[t].pc \in {"clear", "ready", "signal"} /\ ~Unwind(t)
  BY Unwound DEF Clear, SetReady, Signal, At, Moved
<1>2. /\ self'.currentBlock = self.currentBlock
      /\ self'.curClearMerkleTree = self.curClearMerkleTree
      /\ self'.nextMerkleTree = self.nextMerkleTree
  BY ClearTrees, SetReadyTrees DEF Signal
<1>3. thread'[t].pc \in {"ready", "need", "signal"} /\ thread'[t].upd = thread[t].upd
  <2>1. CASE Clear(t)
    BY <1>1, <2>1, Went DEF Clear, Moved
  <2>2. CASE SetReady(t)
    BY <2>2, SetReadyTrees, Went DEF Moved
  <2>3. CASE Signal(t)
    BY <2>3, SignalMoves
  <2>4. QED  BY <2>1, <2>2, <2>3
<1>4. Known(thread[t], self) /\ TreesFit(self)
  BY <1>1 DEF Stage
<1>5. Known(thread'[t], self') /\ TreesFit(self')
  BY <1>2, <1>3, <1>4 DEF Known, TreesFit
<1>6. QED  BY <1>3, <1>5 DEF Stage, Updating, UpdatePlaces

LEMMA StageEnds ==
  ASSUME TypeOK, NEW t \in Threads, Unready(t) \/ Need(t), Stage(thread[t], self)
  PROVE  ~Updating(thread'[t]) /\ Settled(self')
<1>1. EndUpdateBlock(t) /\ thread[t].pc \in UpdatePlaces
  BY DEF Unready, Need, At, UpdatePlaces
<1>2. ~Updating(thread'[t])
  BY <1>1, EndedUpdate, UpdateReturns DEF Moved, Updating, UpdatePlaces
<1>3. CASE Unready(t)
  <2>1. TreesFit(self)
    BY <1>3 DEF Unready, At, Stage
  <2>2. QED  BY <1>2, <1>3, <2>1, UnreadyTrees DEF TreesFit, Settled
<1>4. CASE Need(t)
  <2>1. Known(thread[t], self) /\ TreesFit(self)
    BY <1>4 DEF Need, At, Stage
  <2>2. TreesKept
    BY <1>4, KeepsTrees
  <2>3. QED  BY <1>2, <2>1, <2>2 DEF Known, TreesKept, TreesFit, Settled
<1>5. QED  BY <1>3, <1>4

LEMMA TreesNext ==
  ASSUME TypeOK, QueuesInv, QueuesInv', CallsInv, TreesInv, [Next]_vars
  PROVE  TreesInv'
<1>. SUFFICES ASSUME disturbed' <= Race
              PROVE  /\ \A v \in Threads : Updating(thread'[v]) => Stage(thread'[v], self')
                     /\ NobodyUpdates' => Settled(self')
  BY DEF TreesInv
<1>1. disturbed <= Race /\ disturbed # Overlap /\ disturbed' # Overlap
  BY NoBetter DEF Race, Overlap
<1>2. Alone /\ Alone'
  BY <1>1 DEF QueuesInv
<1>3. /\ \A v \in Threads : Updating(thread[v]) => Stage(thread[v], self)
      /\ NobodyUpdates => Settled(self)
  BY <1>1 DEF TreesInv
<1>4. self \in SelfType
  BY DEF TypeOK
<1>5. CASE (\A v \in Threads : Outside(v)) /\ SameTrees(self', self)
  <2>1. \A v \in Threads :
          /\ Updating(thread'[v]) => Updating(thread[v]) /\ thread'[v] = thread[v]
          /\ Updating(thread[v]) => Updating(thread'[v])
    BY <1>5 DEF Outside
  <2>2. NobodyUpdates' => NobodyUpdates
    <3>1. NobodyUpdates' => \A v \in Threads : ~Updating(thread'[v])
      BY DEF NobodyUpdates, Updating
    <3>2. (\A v \in Threads : ~Updating(thread[v])) => NobodyUpdates
      BY DEF NobodyUpdates, Updating
    <3>3. QED  BY <2>1, <3>1, <3>2
  <2>3. /\ \A f : Stage(f, self) => Stage(f, self')
        /\ Settled(self) => Settled(self')
    <3>1. \A old \in SelfType : \A new : SameTrees(new, old) =>
            /\ \A f : Stage(f, old) => Stage(f, new)
            /\ Settled(old) => Settled(new)
      BY StageKept
    <3>2. QED  BY <1>4, <1>5, <3>1
  <2>4. ASSUME NEW v \in Threads, Updating(thread'[v]) PROVE Stage(thread'[v], self')
    <3>1. PICK f : f = thread[v]
      OBVIOUS
    <3>2. thread'[v] = f /\ Updating(thread[v])
      BY <2>1, <2>4, <3>1
    <3>3. Stage(f, self)
      BY <1>3, <3>1, <3>2
    <3>4. Stage(f, self')
      BY <2>3, <3>3
    <3>5. QED  BY <3>2, <3>4
  <2>5. NobodyUpdates' => Settled(self')
    BY <1>3, <2>2, <2>3
  <2>6. QED  BY <2>4, <2>5
<1>6. ASSUME NEW t \in Threads, NewBlock(t)
      PROVE  /\ \A v \in Threads : Updating(thread'[v]) => Stage(thread'[v], self')
             /\ NobodyUpdates' => Settled(self')
  <2>1. /\ thread'[t].pc = "assign" /\ thread'[t].upd.last = self.currentBlock.height
        /\ ~Updating(thread[t]) /\ Updating(thread'[t]) /\ self' = self
    BY <1>6, NewBlockMoves DEF Moved, NewBlock, At, Updating, UpdatePlaces
  <2>2. \A v \in Threads : v # t => ~Updating(thread'[v]) /\ thread'[v] = thread[v]
    BY <1>2, <1>6, <2>1, NewBlockMoves DEF Moved, Alone
  <2>3. NobodyUpdates
    BY <2>1, <2>2 DEF NobodyUpdates, Updating
  <2>4. Stage(thread'[t], self')
    BY <1>3, <2>1, <2>3 DEF Settled, Stage
  <2>5. ~NobodyUpdates'
    BY <2>1 DEF NobodyUpdates, Updating
  <2>6. QED  BY <2>2, <2>4, <2>5
<1>7. ASSUME NEW t \in Threads,
             \/ Assign(t) \/ Replace(t) \/ Wake(t) \/ Unready(t) \/ Fresh(t)
             \/ Clear(t) \/ SetReady(t) \/ Signal(t) \/ Need(t)
      PROVE  /\ \A v \in Threads : Updating(thread'[v]) => Stage(thread'[v], self')
             /\ NobodyUpdates' => Settled(self')
  <2>1. /\ Updating(thread[t]) /\ Stage(thread[t], self) /\ CallOK(thread[t], self)
        /\ StillCalm
    BY <1>3, <1>7, InsideLocals DEF CallsInv
  <2>2. ASSUME NEW v \in Threads, v # t PROVE ~Updating(thread'[v])
    <3>1. ~Updating(thread[v])
      BY <1>2, <2>1, <2>2 DEF Alone
    <3>2. \/ thread'[v] = thread[v] \/ thread'[v].pc = "getMC"
      BY <1>7, <2>2, InsideLocals
    <3>3. QED  BY <3>1, <3>2 DEF Updating, UpdatePlaces
  <2>3. thread[t].pc \in {"replace", "fresh", "clear"} => thread'[t].pc # "idle"
    BY <2>1 DEF StillCalm
  <2>4. ASSUME Updating(thread'[t]) /\ Stage(thread'[t], self')
        PROVE  /\ \A v \in Threads : Updating(thread'[v]) => Stage(thread'[v], self')
               /\ NobodyUpdates' => Settled(self')
    BY <2>2, <2>4 DEF NobodyUpdates, Updating
  <2>5. CASE Assign(t)
    BY <2>1, <2>4, <2>5, StageAssign
  <2>6. CASE Replace(t)
    BY <2>1, <2>3, <2>4, <2>6, StageReplace DEF Replace, At
  <2>7. CASE Wake(t)
    BY <2>1, <2>4, <2>7, StageWake
  <2>8. CASE Fresh(t)
    BY <2>1, <2>3, <2>4, <2>8, StageFresh DEF Fresh, At
  <2>9. CASE Clear(t)
    BY <2>1, <2>3, <2>4, <2>9, StageClear DEF Clear, At
  <2>10. CASE SetReady(t) \/ Signal(t)
    <3>1. thread'[t].pc # "idle"
      BY <2>10, SetReadyTrees, SignalMoves, Went DEF Moved
    <3>2. QED  BY <2>1, <2>4, <2>10, <3>1, StageClear
  <2>11. CASE Unready(t) \/ Need(t)
    <3>1. ~Updating(thread'[t]) /\ Settled(self')
      BY <2>1, <2>11, StageEnds
    <3>2. QED  BY <2>2, <3>1
  <2>12. QED  BY <1>7, <2>5, <2>6, <2>7, <2>8, <2>9, <2>10, <2>11
<1>8. QED
  <2>1. \/ \A v \in Threads : Outside(v)
        \/ \E t \in Threads :
              \/ NewBlock(t) \/ Assign(t) \/ Replace(t) \/ Wake(t) \/ Unready(t) \/ Fresh(t)
              \/ Clear(t) \/ SetReady(t) \/ Signal(t) \/ Need(t)
    BY OutsideSteps
  <2>2. \/ SameTrees(self', self)
        \/ \E t \in Threads :
              \/ Assign(t) \/ Replace(t) \/ Unready(t) \/ Fresh(t) \/ Clear(t) \/ SetReady(t)
    BY OutsideTrees
  <2>3. QED  BY <1>5, <1>6, <1>7, <2>1, <2>2

LEMMA TreesInit == Init => CallsInv /\ TreesInv
<1>. SUFFICES ASSUME Init PROVE CallsInv /\ TreesInv
  OBVIOUS
<1>1. \A t \in Threads : thread[t].pc = "idle"
  BY DEF Init, Start
<1>2. \A t \in Threads : ~Updating(thread[t]) /\ ~InUpdate(thread[t])
  BY <1>1 DEF Updating, InUpdate, UpdatePlaces, JobPlaces
<1>3. /\ self.curClearMerkleTree = None /\ self.nextMerkleTree = None
      /\ self.currentBlock = NoBlock /\ ~self.ready /\ self.networkTarget = None
  BY DEF Init
<1>4. QED  BY <1>2, <1>3 DEF CallsInv, CallOK, TreesInv, Settled, NoneYet

\* While `ready` holds between updates, and no two updates have overlapped nor
\* an exception cut one short, there is a block to work on and the trees a clean
\* or a longpoll job is built from are for its height and the next: each place
\* of updateBlock says which of block and trees have already moved on.
THEOREM ReadyPoolHasWork == Spec => []ReadyMeansWork
<1>. DEFINE All == QueuesInv /\ MPInv /\ CallsInv /\ TreesInv
<1>1. TreesInv => ReadyMeansWork
  <2>1. SUFFICES ASSUME TreesInv, disturbed <= Race, NobodyUpdates, self.ready
                 PROVE  /\ self.currentBlock.prev # None /\ self.currentBlock.bits # None
                        /\ TreesFit(self)
    BY DEF ReadyMeansWork, TreesFit
  <2>2. NoBlock.prev = None
    BY DEF NoBlock
  <2>3. QED  BY <2>1, <2>2 DEF TreesInv, Settled, NoneYet
<1>2. IInv /\ All /\ [Next]_vars => All'
  <2>1. SUFFICES ASSUME IInv, All, [Next]_vars PROVE All'
    OBVIOUS
  <2>2. TypeOK
    BY <2>1 DEF IInv
  <2>3. QueuesInv' /\ MPInv' /\ CallsInv'
    BY <2>1, <2>2, QueuesNext, MPNext, CallsNext
  <2>4. QED  BY <2>1, <2>2, <2>3, TreesNext
<1>3. Init => All
  BY QueuesInit, MPInit, TreesInit
<1>. HIDE DEF All
<1>4. All => ReadyMeansWork
  BY <1>1 DEF All
<1>5. QED  BY <1>2, <1>3, <1>4, InitOK, NextOK, PTL DEF Spec

-----------------------------------------------------------------------------
\* The stores and the block they are for.

\* The roots of a store are for an empty block at height h (None only wakes).
AllFor(items, h) ==
  \A i \in 1 .. Len(items) : items[i] # None => items[i].tree = h /\ items[i].height = h
\* A regular root, or the tree it is made of, can be worked on as it is.
Serves(root, block) ==
  /\ root.height = block.height
  /\ IF root.clear THEN root.tree = block.height ELSE root.prev = block.prev
RootsServe(s) == \A i \in 1 .. Len(s.merkleRoots) : Serves(s.merkleRoots[i], s.currentBlock)
TreeServes(s) ==
  s.currentMerkleTree # None =>
    IF s.currentMerkleTree.clear THEN s.currentMerkleTree.height = s.currentBlock.height
    ELSE s.currentMerkleTree.prev = s.currentBlock.prev
ClearFor(s, q, h) == AllFor(q[s.clearMerkleRoots].items, h)
NextFor(s, q, h) == AllFor(q[s.nextMerkleRoots].items, h)
StoresFit(s, q) ==
  /\ s.clearMerkleRoots # s.nextMerkleRoots
  /\ ClearFor(s, q, s.currentBlock.height)
  /\ NextFor(s, q, s.currentBlock.height + 1)

\* What holds of them at each place of updateBlock, and between updates.
StoreStage(f, s, q) ==
  /\ f.pc = "assign" => StoresFit(s, q)
  /\ f.pc = "replace" =>
       /\ NextFor(s, q, f.upd.last + 1)
       /\ f.upd.bits = None => s.currentBlock.height = f.upd.last
  /\ f.pc = "wake" =>
       IF f.upd.bits = None THEN StoresFit(s, q) ELSE ClearFor(s, q, s.currentBlock.height)
  /\ f.pc = "unready" => StoresFit(s, q) /\ f.upd.bits = None
  /\ f.pc = "fresh" => ClearFor(s, q, s.currentBlock.height)
  /\ f.pc = "clear" => StoresFit(s, q)
  /\ f.pc \in {"ready", "signal", "need"} =>
       StoresFit(s, q) /\ s.merkleRoots = <<>> /\ TreeServes(s)
  /\ f.pc # "assign" /\ f.upd.bits # None => s.currentBlock.prev = f.upd.prev
StoresSettled(s, q) ==
  /\ StoresFit(s, q) /\ RootsServe(s)
  /\ s.ready => TreeServes(s)

\* The root being made is for the store it will be put into.
MakingServes(m, s) ==
  \/ /\ m.into \in {s.clearMerkleRoots, s.nextMerkleRoots}
     /\ m.root.tree = m.root.height
     /\ m.root.height = IF m.into = s.clearMerkleRoots THEN s.currentBlock.height
                        ELSE s.currentBlock.height + 1
  \/ m.into = Deque /\ Serves(m.root, s.currentBlock)

StoresInv ==
  disturbed = Nothing =>
    /\ Unhindered
    /\ \A t \in Threads : Updating(thread[t]) => StoreStage(thread[t], self, queue)
    /\ NobodyUpdates => /\ StoresSettled(self, queue)
                        /\ thread[MM].pc \in {"made", "put"} => MakingServes(making, self)

ClearTreesInv ==
  /\ self.curClearMerkleTree # None => self.curClearMerkleTree.clear
  /\ self.nextMerkleTree # None => self.nextMerkleTree.clear

\* A poll that has found the block changed, inside the updateBlock it calls.
Comparing(f) == f.stack = <<"changed">> \/ f.stack = <<"newblock", "changed">>
PollsInv ==
  /\ \A t \in Threads : Comparing(thread[t]) =>
       thread[t].upd.prev = thread[t].template.prev /\ thread[t].upd.bits # None
  /\ disturbed = Nothing => \A t \in Pollers : thread[t].pc \in {"adopt", "changed"} =>
       thread[t].template.prev = self.currentBlock.prev

LEMMA UnhinderedNext ==
  ASSUME TypeOK, disturbed = Nothing => Unhindered, [Next]_vars
  PROVE  disturbed' = Nothing => Unhindered'
<1>1. CASE StillCalm
  BY <1>1 DEF StillCalm
<1>2. CASE thread' = thread /\ disturbed' = disturbed
  BY <1>2 DEF Unhindered
<1>3. QED  BY <1>1, <1>2, CalmSteps

LEMMA ClearTreesNext ==
  ASSUME TypeOK, ClearTreesInv, [Next]_vars
  PROVE  ClearTreesInv'
<1>1. \A h : ClearTree(h).clear
  BY DEF ClearTree
<1>2. ASSUME NEW new, NEW old \in TreeType \cup {None}, SameTree(new, old),
             old # None => old.clear
      PROVE  new # None => new.clear
  BY <1>2 DEF SameTree, WithMP, TreeType
<1>3. /\ self.curClearMerkleTree \in TreeType \cup {None}
      /\ self.nextMerkleTree \in TreeType \cup {None}
  BY DEF TypeOK, SelfType
<1>4. CASE SameTrees(self', self)
  <2>1. /\ SameTree(self'.curClearMerkleTree, self.curClearMerkleTree)
        /\ SameTree(self'.nextMerkleTree, self.nextMerkleTree)
    BY <1>4 DEF SameTrees
  <2>2. /\ self'.curClearMerkleTree # None => self'.curClearMerkleTree.clear
        /\ self'.nextMerkleTree # None => self'.nextMerkleTree.clear
    BY <1>2, <1>3, <2>1 DEF ClearTreesInv
  <2>3. QED  BY <2>2 DEF ClearTreesInv
<1>5. ASSUME NEW t \in Threads, Assign(t) \/ Unready(t) \/ Clear(t) \/ SetReady(t)
      PROVE  ClearTreesInv'
  BY <1>5, AssignTrees, UnreadyTrees, ClearTrees, SetReadyTrees DEF ClearTreesInv
<1>6. ASSUME NEW t \in Threads, Replace(t) PROVE ClearTreesInv'
  BY <1>1, <1>6, ReplaceTrees DEF ClearTreesInv
<1>7. ASSUME NEW t \in Threads, Fresh(t) PROVE ClearTreesInv'
  BY <1>1, <1>7, FreshTrees DEF ClearTreesInv
<1>8. QED  BY <1>4, <1>5, <1>6, <1>7, OutsideTrees

\* What a step does to a poll that is in updateBlock, and how a poll comes to
\* adopt its template.
CallKept(v) ==
  Comparing(thread'[v]) =>
    /\ Comparing(thread[v]) /\ thread'[v].template = thread[v].template
    /\ thread'[v].upd.prev = thread[v].upd.prev
    /\ thread[v].upd.bits # None => thread'[v].upd.bits # None
Arrives(v) ==
  thread'[v].pc \in {"adopt", "changed"} =>
    \/ thread'[v].pc = thread[v].pc /\ thread'[v].template = thread[v].template
    \/ Compare(v) /\ Goto(v, "adopt")
    \/ /\ EndUpdateBlock(v) /\ Comparing(thread[v])
       /\ (SameBlock(v) /\ thread[v].upd.prev = self.currentBlock.prev) \/ Unready(v) \/ Need(v)

\* Reaching a place where no template is adopted.
LEMMA PollsMove ==
  ASSUME NEW t \in Threads, NEW l, NEW s, NEW b, NEW u, Moved(t, l, s, b, u),
         l \notin {"adopt", "changed"},
         \/ s \in {<<>>, <<"idle">>, <<"settle">>, <<"fired">>, <<"verdict">>}
         \/ s = thread[t].stack /\ b = thread[t].template /\ u = thread[t].upd
  PROVE  \A v \in Threads : CallKept(v) /\ Arrives(v)
<1>1. /\ <<>> # <<"changed">> /\ <<"idle">> # <<"changed">> /\ <<"settle">> # <<"changed">>
      /\ <<"fired">> # <<"changed">> /\ <<"verdict">> # <<"changed">>
  OBVIOUS
<1>2. /\ <<>> # <<"newblock", "changed">> /\ <<"idle">> # <<"newblock", "changed">>
      /\ <<"settle">> # <<"newblock", "changed">> /\ <<"fired">> # <<"newblock", "changed">>
      /\ <<"verdict">> # <<"newblock", "changed">>
  OBVIOUS
<1>3. QED  BY <1>1, <1>2 DEF Moved, CallKept, Arrives, Comparing

LEMMA PollsGoto ==
  ASSUME TypeOK, NEW t \in Threads, NEW l, Goto(t, l), l \notin {"adopt", "changed"}
  PROVE  \A v \in Threads : CallKept(v) /\ Arrives(v)
  BY Went, PollsMove

LEMMA PollsUpdateSteps ==
  ASSUME TypeOK, NEW t \in Threads,
         \/ SameBlock(t) \/ NewBlock(t) \/ Unready(t) \/ Clear(t) \/ SetReady(t) \/ Need(t)
         \/ Assign(t) \/ Replace(t) \/ Wake(t) \/ Fresh(t) \/ Signal(t)
  PROVE  \A v \in Threads : CallKept(v) /\ Arrives(v)
<1>1. CASE Unwind(t)
  BY <1>1, Unwound, PollsMove
<1>2. ASSUME NEW l, NEW u, Moved(t, l, thread[t].stack, thread[t].template, u),
             l \notin {"adopt", "changed"}, u.prev = thread[t].upd.prev,
             thread[t].upd.bits # None => u.bits # None
      PROVE  \A v \in Threads : CallKept(v) /\ Arrives(v)
  BY <1>2 DEF Moved, CallKept, Arrives, Comparing
<1>3. CASE NewBlock(t)
  <2>1. PICK u : u = thread'[t].upd
    OBVIOUS
  <2>2. /\ Moved(t, "assign", thread[t].stack, thread[t].template, u)
        /\ u.prev = thread[t].upd.prev
        /\ thread[t].upd.bits # None => u.bits # None
    BY <1>3, <2>1, NewBlockMoves
  <2>3. QED  BY <1>2, <2>2
<1>4. CASE Assign(t) \/ Wake(t)
  <2>1. PICK u : u = thread'[t].upd
    OBVIOUS
  <2>2. u.prev = thread[t].upd.prev /\ u.bits = thread[t].upd.bits
    BY <1>4, <2>1, AssignMoves, WakeMoves
  <2>3. PICK l \in {"replace", "clear", "unready", "fresh"} :
          Moved(t, l, thread[t].stack, thread[t].template, u)
    BY <1>4, <2>1, AssignMoves, WakeMoves
  <2>4. l \notin {"adopt", "changed"}
    OBVIOUS
  <2>5. QED  BY <1>2, <2>2, <2>3, <2>4
<1>5. CASE Replace(t) \/ Fresh(t) \/ Clear(t) \/ SetReady(t)
  <2>1. \/ Unwind(t)
        \/ \E l \in {"wake", "clear", "ready", "need", "signal"} : Goto(t, l)
    BY <1>5 DEF Replace, AdoptNext, StartEmpty, ReplaceRaises, Fresh, Clear, SetReady
  <2>2. QED  BY <1>1, <2>1, PollsGoto
<1>6. CASE Signal(t)
  <2>1. ASSUME NEW v \in Threads
        PROVE  /\ thread'[v].stack = thread[v].stack /\ thread'[v].upd = thread[v].upd
               /\ thread'[v].template = thread[v].template
               /\ thread'[v].pc \in {thread[v].pc, "need", "getMC"}
    BY <1>6, SignalMoves
  <2>2. QED  BY <2>1 DEF CallKept, Arrives, Comparing
<1>7. ASSUME EndUpdateBlock(t),
             \/ SameBlock(t) /\ thread[t].upd.prev = self.currentBlock.prev
             \/ Unready(t) \/ Need(t)
      PROVE  \A v \in Threads : CallKept(v) /\ Arrives(v)
  <2>1. thread[t].pc \in UpdatePlaces \cup {"enter"}
    BY <1>7 DEF SameBlock, Unready, Need, At, UpdatePlaces
  <2>2. PICK r : /\ thread[t].stack = <<r>> /\ r \in {"idle", "verdict", "changed"}
                 /\ Head(thread[t].stack) = r /\ Tail(thread[t].stack) = <<>>
    BY <2>1, UpdateReturns
  <2>3. Moved(t, r, <<>>, thread[t].template, NoUpdate)
    BY <1>7, <2>2, EndedUpdate
  <2>4. CASE r # "changed"
    BY <2>2, <2>3, <2>4, PollsMove
  <2>5. CASE r = "changed"
    <3>1. Comparing(thread[t])
      BY <2>2, <2>5 DEF Comparing
    <3>2. Arrives(t)
      BY <1>7, <3>1 DEF Arrives
    <3>3. <<>> # <<"changed">> /\ <<>> # <<"newblock", "changed">>
      OBVIOUS
    <3>4. QED  BY <2>3, <3>2, <3>3 DEF Moved, CallKept, Arrives, Comparing
  <2>6. QED  BY <2>4, <2>5
<1>8. CASE Unready(t) \/ Need(t)
  BY <1>7, <1>8 DEF Unready, Need
<1>9. CASE SameBlock(t)
  <2>1. thread[t].pc = "enter" /\ thread[t].upd.prev = self.currentBlock.prev
    BY <1>9 DEF SameBlock, At
  <2>2. CASE Call(t, "getMC", "newblock")
    <3>1. PICK r : thread[t].stack = <<r>> /\ <<"newblock">> \o thread[t].stack = <<"newblock", r>>
      BY <2>1, UpdateReturns
    <3>2. Moved(t, "getMC", <<"newblock", r>>, thread[t].template, thread[t].upd)
      BY <2>2, <3>1, Called
    <3>3. /\ <<"newblock", r>> # <<"changed">>
          /\ <<"newblock", r>> = <<"newblock", "changed">> => r = "changed"
      OBVIOUS
    <3>4. QED  BY <3>1, <3>2, <3>3 DEF Moved, CallKept, Arrives, Comparing
  <2>3. QED  BY <1>7, <1>9, <2>1, <2>2, SameBlockLeaves
<1>10. QED  BY <1>3, <1>4, <1>5, <1>6, <1>8, <1>9

LEMMA PollsPollSteps ==
  ASSUME TypeOK, NEW t \in Threads, Poll(t)
  PROVE  \/ \A v \in Threads : CallKept(v) /\ Arrives(v)
         \/ /\ \A v \in Threads : Arrives(v) /\ (v # t => CallKept(v))
            /\ thread'[t].upd.prev = thread'[t].template.prev /\ thread'[t].upd.bits # None
<1>1. thread[t].pc \in PollPlaces \cup {"fetch", "notify", "settle"}
  BY DEF Poll, Fetch, Process, Verdict, Compare, Adopt, Notify, Settle, At, PollPlaces
<1>2. thread[t].stack = <<>> /\ \A r : <<r>> \o thread[t].stack = <<r>>
  BY <1>1, LoopStack DEF LoopPlaces
<1>3. CASE Fetch(t)
  <2>1. PICK f : f = [thread[t] EXCEPT !.pc = "process", !.template = tip]
    OBVIOUS
  <2>2. f.pc = "process" /\ f.stack = <<>>
    BY <1>2, <2>1 DEF TypeOK, FrameType
  <2>3. SetThread(t, f) \/ Unwind(t)
    BY <1>3, <2>1 DEF Fetch
  <2>4. CASE SetThread(t, f)
    <3>1. Moved(t, f.pc, f.stack, f.template, f.upd)
      BY <2>4, MovedTo
    <3>2. QED  BY <2>2, <3>1, PollsMove
  <2>5. CASE Unwind(t)
    BY <2>5, Unwound, PollsMove
  <2>6. QED  BY <2>3, <2>4, <2>5
<1>4. CASE Process(t) \/ Compare(t)
  <2>1. PICK b : b = thread[t].template
    OBVIOUS
  <2>2. b.bits # None
    <3>1. thread[t].pc \in PollPlaces
      BY <1>4 DEF Process, Compare, At, PollPlaces
    <3>2. b \in Templates
      BY <2>1, <3>1 DEF TypeOK, FrameOK
    <3>3. QED  BY <3>2, TemplatesAssumption
  <2>3. ASSUME NEW r \in {"verdict", "changed"}, CallUpdateBlock(t, b, r)
        PROVE  /\ \A v \in Threads : Arrives(v) /\ (v # t => CallKept(v))
               /\ thread'[t].upd.prev = thread'[t].template.prev
               /\ thread'[t].upd.bits # None
    <3>1. Moved(t, "enter", <<r>>, b,
                [prev |-> b.prev, height |-> b.height, bits |-> b.bits, last |-> 0,
                 ocmr |-> None])
      BY <1>2, <2>1, <2>3, CalledUpdate
    <3>2. /\ thread'[t].pc = "enter" /\ thread'[t].template = b
          /\ thread'[t].upd.prev = b.prev /\ thread'[t].upd.bits = b.bits
          /\ \A v \in Threads : v # t => thread'[v] = thread[v]
      BY <3>1 DEF Moved
    <3>3. QED  BY <2>2, <3>2 DEF Arrives, CallKept
  <2>4. CASE Goto(t, "verdict")
    BY <2>4, PollsGoto
  <2>5. CASE Compare(t) /\ Goto(t, "adopt")
    <3>1. Moved(t, "adopt", <<>>, thread[t].template, thread[t].upd)
      BY <1>2, <2>5, Went
    <3>2. <<>> # <<"changed">> /\ <<>> # <<"newblock", "changed">>
      OBVIOUS
    <3>3. QED  BY <2>5, <3>1, <3>2 DEF Moved, CallKept, Arrives, Comparing
  <2>6. \/ \E r \in {"verdict", "changed"} : CallUpdateBlock(t, b, r)
        \/ Goto(t, "verdict") \/ (Compare(t) /\ Goto(t, "adopt"))
    BY <1>4, <2>1 DEF Process, Compare
  <2>7. QED  BY <2>3, <2>4, <2>5, <2>6
<1>5. CASE Verdict(t) \/ Adopt(t) \/ Settle(t)
  <2>1. Unwind(t) \/ \E l \in {"compare", "notify", "settle"} : Goto(t, l)
    BY <1>5 DEF Verdict, Adopt, Settle
  <2>2. CASE Unwind(t)
    BY <2>2, Unwound, PollsMove
  <2>3. QED  BY <2>1, <2>2, PollsGoto
<1>6. CASE Notify(t)
  <2>1. Moved(t, "getMC", <<"settle">>, thread[t].template, thread[t].upd)
    BY <1>2, <1>6, Called DEF Notify
  <2>2. QED  BY <2>1, PollsMove
<1>7. QED  BY <1>3, <1>4, <1>5, <1>6 DEF Poll

LEMMA PollsOtherSteps ==
  ASSUME TypeOK, NEW t \in Threads,
         \/ t = MM /\ (LoopPoll \/ LoopFire \/ Fired \/ LoopMake \/ CheckHeight \/ Put)
         \/ t = Getwork /\ (RunOut \/ GetClear)
         \/ GetMC(t) \/ Job(t) \/ StartGetMC(t) \/ StartShare(t) \/ StartPoll(t)
  PROVE  \A v \in Threads : CallKept(v) /\ Arrives(v)
<1>1. CASE \/ t = MM /\ (LoopPoll \/ Fired \/ LoopMake \/ CheckHeight \/ Put)
           \/ t = Getwork /\ (RunOut \/ GetClear)
           \/ GetMC(t) \/ StartPoll(t)
  <2>1. \/ \E l \in {"fetch", "idle", "made", "put", "get", "job", "waiting"} : Goto(t, l)
        \/ thread' = thread
    BY <1>1 DEF LoopPoll, Fired, LoopMake, CheckHeight, Put, RunOut, GetClear, GetMC, StartPoll
  <2>2. CASE thread' = thread
    BY <2>2 DEF CallKept, Arrives, Comparing
  <2>3. QED  BY <2>1, <2>2, PollsGoto
<1>2. CASE (t = MM /\ LoopFire) \/ StartGetMC(t)
  <2>1. PICK r \in {"idle", "fired"} : Call(t, "getMC", r) /\ thread[t].pc = "idle"
    BY <1>2 DEF LoopFire, StartGetMC, At
  <2>2. Moved(t, "getMC", <<r>>, thread[t].template, thread[t].upd)
    BY <2>1, LoopStack, Called DEF LoopPlaces
  <2>3. QED  BY <2>2, PollsMove
<1>3. CASE StartShare(t)
  <2>1. PICK b : CallUpdateBlock(t, b, "idle") /\ thread[t].pc = "idle"
    BY <1>3 DEF StartShare, At
  <2>2. \E u : Moved(t, "enter", <<"idle">>, thread[t].template, u)
    BY <2>1, LoopStack, CalledUpdate DEF LoopPlaces
  <2>3. QED  BY <2>2, PollsMove
<1>4. CASE Job(t)
  <2>1. thread[t].pc \in JobPlaces /\ (Return(t) \/ Unwind(t))
    BY <1>4 DEF Job, At, JobPlaces
  <2>2. CASE Unwind(t)
    BY <2>2, Unwound, PollsMove
  <2>3. CASE Return(t)
    <3>1. Moved(t, Head(thread[t].stack), Tail(thread[t].stack), thread[t].template,
                thread[t].upd)
      BY <2>3, Returned
    <3>2. CASE Tail(thread[t].stack) = <<>> /\ Head(thread[t].stack) \in {"idle", "settle", "fired"}
      <4>1. PICK l \in {"idle", "settle", "fired"} : Moved(t, l, <<>>, thread[t].template, thread[t].upd)
        BY <3>1, <3>2
      <4>2. QED  BY <4>1, PollsMove
    <3>3. ASSUME NEW r, thread[t].stack = <<"newblock", r>>,
                 Head(thread[t].stack) = "newblock", Tail(thread[t].stack) = <<r>>
          PROVE  \A v \in Threads : CallKept(v) /\ Arrives(v)
      <4>1. Moved(t, "newblock", <<r>>, thread[t].template, thread[t].upd)
        BY <3>1, <3>3
      <4>2. /\ <<r>> = <<"changed">> => r = "changed"
            /\ <<r>> # <<"newblock", "changed">>
        OBVIOUS
      <4>3. QED  BY <3>3, <4>1, <4>2 DEF Moved, CallKept, Arrives, Comparing
    <3>4. QED  BY <2>1, <3>2, <3>3, JobReturns
  <2>4. QED  BY <2>1, <2>2, <2>3
<1>5. QED  BY <1>1, <1>2, <1>3, <1>4

LEMMA PollsSteps ==
  ASSUME TypeOK, [Next]_vars, NEW v \in Threads
  PROVE  /\ Arrives(v)
         /\ \/ CallKept(v)
            \/ thread'[v].upd.prev = thread'[v].template.prev /\ thread'[v].upd.bits # None
<1>1. MM \in Threads /\ Getwork \in Threads
  BY DEF Threads, Pollers, Servers
<1>2. CASE PopRegular \/ NewTip \/ Tick \/ UNCHANGED vars
  <2>1. thread' = thread
    BY <1>2 DEF PopRegular, NewTip, Tick, vars
  <2>2. QED  BY <2>1 DEF CallKept, Arrives, Comparing
<1>3. ASSUME NEW t \in Threads,
             \/ SameBlock(t) \/ NewBlock(t) \/ Unready(t) \/ Clear(t) \/ SetReady(t) \/ Need(t)
             \/ Assign(t) \/ Replace(t) \/ Wake(t) \/ Fresh(t) \/ Signal(t)
      PROVE  CallKept(v) /\ Arrives(v)
  BY <1>3, PollsUpdateSteps
<1>4. ASSUME NEW t \in Threads, Poll(t)
      PROVE  /\ Arrives(v)
             /\ \/ CallKept(v)
                \/ thread'[v].upd.prev = thread'[v].template.prev /\ thread'[v].upd.bits # None
  BY <1>4, PollsPollSteps
<1>5. ASSUME NEW t \in Threads,
             GetMC(t) \/ Job(t) \/ StartGetMC(t) \/ StartShare(t) \/ StartPoll(t)
      PROVE  CallKept(v) /\ Arrives(v)
  BY <1>5, PollsOtherSteps
<1>6. CASE \/ LoopPoll \/ LoopFire \/ Fired \/ LoopMake \/ CheckHeight \/ Put
           \/ RunOut \/ GetClear
  BY <1>1, <1>6, PollsOtherSteps
<1>7. QED  BY <1>2, <1>3, <1>4, <1>5, <1>6, Steps

LEMMA BlockKept ==
  ASSUME TypeOK, [Next]_vars
  PROVE  self'.currentBlock = self.currentBlock \/ \E t \in Threads : Assign(t)
<1>1. ASSUME NEW t \in Threads,
             Replace(t) \/ Unready(t) \/ Fresh(t) \/ Clear(t) \/ SetReady(t)
      PROVE  self'.currentBlock = self.currentBlock
  BY <1>1, ReplaceTrees, UnreadyTrees, FreshTrees, ClearTrees, SetReadyTrees
<1>2. SameTrees(self', self) => self'.currentBlock = self.currentBlock
  BY DEF SameTrees
<1>3. QED  BY <1>1, <1>2, OutsideTrees

LEMMA PollsNext ==
  ASSUME TypeOK, StoresInv, PollsInv, [Next]_vars
  PROVE  PollsInv'
<1>1. ASSUME NEW v \in Threads, Comparing(thread'[v])
      PROVE  thread'[v].upd.prev = thread'[v].template.prev /\ thread'[v].upd.bits # None
  BY <1>1, PollsSteps DEF CallKept, PollsInv
<1>2. ASSUME disturbed' = Nothing, NEW v \in Pollers, thread'[v].pc \in {"adopt", "changed"}
      PROVE  thread'[v].template.prev = self'.currentBlock.prev
  <2>1. v \in Threads /\ disturbed = Nothing
    BY <1>2, NoBetter DEF Threads
  <2>2. Unhindered'
    BY <1>2, UnhinderedNext DEF StoresInv
  <2>3. self'.currentBlock = self.currentBlock
    <3>1. ASSUME NEW t \in Threads, Assign(t) PROVE FALSE
      <4>1. thread'[t].pc \in {"replace", "clear"}
        BY <3>1, AssignMoves DEF Moved
      <4>2. t # v /\ Updating(thread'[t])
        BY <1>2, <4>1 DEF Updating, UpdatePlaces
      <4>3. QED  BY <1>2, <2>2, <4>2 DEF Unhindered
    <3>2. QED  BY <3>1, BlockKept
  <2>4. CASE thread'[v].pc = thread[v].pc /\ thread'[v].template = thread[v].template
    BY <1>2, <2>1, <2>3, <2>4 DEF PollsInv
  <2>5. CASE Compare(v) /\ Goto(v, "adopt")
    <3>1. ~BlockChanged(v)
      <4>1. ASSUME CallUpdateBlock(v, thread[v].template, "changed") PROVE FALSE
        <5>1. thread'[v].pc = "enter"
          BY <2>1, <4>1, CalledUpdate DEF Moved
        <5>2. QED  BY <1>2, <5>1
      <4>2. QED  BY <2>5, <4>1 DEF Compare
    <3>2. thread'[v].template = thread[v].template
      BY <2>1, <2>5, Went DEF Moved
    <3>3. QED  BY <2>3, <3>1, <3>2 DEF BlockChanged
  <2>6. ASSUME EndUpdateBlock(v), Comparing(thread[v]),
               \/ SameBlock(v) /\ thread[v].upd.prev = self.currentBlock.prev
               \/ Unready(v) \/ Need(v)
        PROVE  thread'[v].template.prev = self'.currentBlock.prev
    <3>1. thread'[v].template = thread[v].template
      BY <2>1, <2>6, EndedUpdate DEF Moved
    <3>2. thread[v].upd.prev = thread[v].template.prev /\ thread[v].upd.bits # None
      BY <2>1, <2>6 DEF PollsInv
    <3>3. ASSUME Unready(v) \/ Need(v)
          PROVE  self.currentBlock.prev = thread[v].upd.prev
      <4>1. /\ thread[v].pc \in {"unready", "need"} /\ Updating(thread[v])
        BY <3>3 DEF Unready, Need, At, Updating, UpdatePlaces
      <4>2. StoreStage(thread[v], self, queue)
        BY <2>1, <4>1 DEF StoresInv
      <4>3. QED  BY <3>2, <4>1, <4>2 DEF StoreStage
    <3>4. QED  BY <2>3, <2>6, <3>1, <3>2, <3>3
  <2>7. QED  BY <1>2, <2>1, <2>4, <2>5, <2>6, PollsSteps DEF Arrives
<1>3. QED  BY <1>1, <1>2 DEF PollsInv

\* The items of a Queue: None, a root less, or a root more.
LEMMA ItemsStay ==
  ASSUME NEW h, NEW items \in Seq(RootType \cup {None}), AllFor(items, h)
  PROVE  /\ AllFor(Woken(items), h)
         /\ items # <<>> => AllFor(Tail(items), h)
         /\ \A root \in RootType : root.tree = h /\ root.height = h =>
              AllFor(Append(items, root), h)
<1>1. AllFor(Woken(items), h)
  <2>1. Len(<<None>>) = 1 /\ <<None>>[1] = None
    OBVIOUS
  <2>2. AllFor(<<None>>, h)
    BY <2>1 DEF AllFor
  <2>3. QED  BY <2>2 DEF Woken
<1>2. ASSUME items # <<>> PROVE AllFor(Tail(items), h)
  <2>1. /\ Len(items) \in Nat /\ Len(Tail(items)) = Len(items) - 1
        /\ \A i \in 1 .. Len(Tail(items)) : Tail(items)[i] = items[i + 1]
    BY <1>2
  <2>2. \A i \in 1 .. Len(Tail(items)) : i + 1 \in 1 .. Len(items)
    BY <2>1
  <2>3. QED  BY <2>1, <2>2 DEF AllFor
<1>3. ASSUME NEW root \in RootType, root.tree = h, root.height = h
      PROVE  AllFor(Append(items, root), h)
  <2>1. /\ Len(items) \in Nat /\ Len(Append(items, root)) = Len(items) + 1
        /\ \A i \in 1 .. Len(items) : Append(items, root)[i] = items[i]
        /\ Append(items, root)[Len(items) + 1] = root
    OBVIOUS
  <2>2. \A i \in 1 .. Len(items) + 1 : i \in 1 .. Len(items) \/ i = Len(items) + 1
    BY <2>1
  <2>3. QED  BY <1>3, <2>1, <2>2 DEF AllFor
<1>4. QED  BY <1>1, <1>2, <1>3

\* A step after which whatever held of the stores still holds.
Carries(s2, q2, s, q) ==
  /\ s2.currentBlock = s.currentBlock /\ s2.currentMerkleTree = s.currentMerkleTree
  /\ s2.clearMerkleRoots = s.clearMerkleRoots /\ s2.nextMerkleRoots = s.nextMerkleRoots
  /\ \A r \in Queues : \A h : AllFor(q[r].items, h) => AllFor(q2[r].items, h)
  /\ s.merkleRoots = <<>> => s2.merkleRoots = <<>>
  /\ RootsServe(s) => RootsServe(s2)

LEMMA Carried ==
  ASSUME NEW s \in SelfType, NEW q, NEW s2, NEW q2, Carries(s2, q2, s, q)
  PROVE  /\ \A f : StoreStage(f, s, q) => StoreStage(f, s2, q2)
         /\ StoresFit(s, q) => StoresFit(s2, q2)
         /\ TreeServes(s) => TreeServes(s2)
<1>1. s.clearMerkleRoots \in Queues /\ s.nextMerkleRoots \in Queues
  BY DEF SelfType
<1>2. \A h : /\ ClearFor(s, q, h) => ClearFor(s2, q2, h)
             /\ NextFor(s, q, h) => NextFor(s2, q2, h)
  BY <1>1 DEF Carries, ClearFor, NextFor
<1>3. StoresFit(s, q) => StoresFit(s2, q2)
  BY <1>2 DEF Carries, StoresFit
<1>4. TreeServes(s) => TreeServes(s2)
  BY DEF Carries, TreeServes
<1>5. ASSUME NEW f, StoreStage(f, s, q) PROVE StoreStage(f, s2, q2)
  <2>1. /\ s2.currentBlock = s.currentBlock
        /\ s.merkleRoots = <<>> => s2.merkleRoots = <<>>
    BY DEF Carries
  <2>2. QED  BY <1>2, <1>3, <1>4, <1>5, <2>1 DEF StoreStage
<1>6. QED  BY <1>3, <1>4, <1>5

LEMMA SelfCarries ==
  ASSUME TypeOK, self' = self, queue' = queue
  PROVE  Carries(self', queue', self, queue)
  BY DEF Carries

\* An attribute that is not about the stores changes.
LEMMA FieldsCarry ==
  ASSUME TypeOK, queue' = queue, NEW d, NEW n, NEW r, NEW b,
         \/ self' = [self EXCEPT !.needMerkle = n]
         \/ self' = [self EXCEPT !.due = d]
         \/ self' = [self EXCEPT !.due = d, !.needMerkle = n]
         \/ self' = [self EXCEPT !.ready = r]
         \/ self' = [self EXCEPT !.networkTarget = b]
  PROVE  Carries(self', queue', self, queue)
<1>1. /\ self'.currentBlock = self.currentBlock
      /\ self'.currentMerkleTree = self.currentMerkleTree
      /\ self'.clearMerkleRoots = self.clearMerkleRoots
      /\ self'.nextMerkleRoots = self.nextMerkleRoots
      /\ self'.merkleRoots = self.merkleRoots
  BY DEF TypeOK, SelfType
<1>2. RootsServe(self) => RootsServe(self')
  BY <1>1 DEF RootsServe
<1>3. QED  BY <1>1, <1>2 DEF Carries

LEMMA PopCarries ==
  ASSUME TypeOK, PopRegular
  PROVE  Carries(self', queue', self, queue)
<1>1. PICK r : r = SubSeq(self.merkleRoots, 1, Len(self.merkleRoots) - 1)
  OBVIOUS
<1>2. self.merkleRoots \in Seq(RootType) /\ self.merkleRoots # <<>> /\ queue' = queue
  BY DEF PopRegular, TypeOK, SelfType
<1>3. /\ Len(self.merkleRoots) \in Nat
      /\ Len(r) = Len(self.merkleRoots) - 1
      /\ \A i \in 1 .. Len(r) : r[i] = self.merkleRoots[i]
  BY <1>1, <1>2
<1>4. self' = [self EXCEPT !.merkleRoots = r]
  BY <1>1 DEF PopRegular
<1>5. /\ self'.currentBlock = self.currentBlock
      /\ self'.currentMerkleTree = self.currentMerkleTree
      /\ self'.clearMerkleRoots = self.clearMerkleRoots
      /\ self'.nextMerkleRoots = self.nextMerkleRoots
      /\ self'.merkleRoots = r
  BY <1>4 DEF TypeOK, SelfType
<1>6. RootsServe(self) => RootsServe(self')
  <2>1. \A i \in 1 .. Len(r) : i \in 1 .. Len(self.merkleRoots)
    BY <1>3
  <2>2. QED  BY <1>3, <1>5, <2>1 DEF RootsServe
<1>7. QED  BY <1>2, <1>5, <1>6 DEF Carries

LEMMA QueuesCarry ==
  ASSUME TypeOK, NEW t \in Threads, Wake(t) \/ GetClear
  PROVE  Carries(self', queue', self, queue)
<1>1. self' = self /\ queue \in [Queues -> QueueType]
  BY DEF Wake, GetClear, TypeOK
<1>2. ASSUME NEW q \in Queues, NEW h, AllFor(queue[q].items, h)
      PROVE  AllFor(queue'[q].items, h)
  <2>1. PICK items : items = queue[q].items
    OBVIOUS
  <2>2. items \in Seq(RootType \cup {None}) /\ AllFor(items, h) /\ queue[q] \in QueueType
    BY <1>1, <1>2, <2>1 DEF QueueType
  <2>3. CASE Wake(t)
    <3>1. PICK o : o = thread[t].upd.ocmr
      OBVIOUS
    <3>2. queue' = [queue EXCEPT ![o].items = Woken(@)]
      BY <2>3, <3>1 DEF Wake
    <3>3. q = o => queue'[q] = [queue[q] EXCEPT !.items = Woken(items)]
      BY <1>1, <2>1, <3>2
    <3>4. queue'[q].items \in {items, Woken(items)}
      BY <1>1, <2>1, <2>2, <3>2, <3>3 DEF QueueType
    <3>5. QED  BY <2>2, <3>4, ItemsStay
  <2>4. CASE GetClear
    <3>1. queue' = [queue EXCEPT ![got].items = Tail(@)] /\ queue[got].items # <<>>
      BY <2>4 DEF GetClear
    <3>2. q = got => queue'[q] = [queue[q] EXCEPT !.items = Tail(items)] /\ items # <<>>
      BY <1>1, <2>1, <3>1
    <3>3. q # got => queue'[q] = queue[q]
      BY <1>1, <3>1
    <3>4. \/ queue'[q].items = items
          \/ queue'[q].items = Tail(items) /\ items # <<>>
      BY <2>1, <2>2, <3>2, <3>3 DEF QueueType
    <3>5. QED  BY <2>2, <3>4, ItemsStay
  <2>5. QED  BY <2>3, <2>4
<1>3. QED  BY <1>1, <1>2 DEF Carries

\* Most steps carry the stores over.
LEMMA CarryingSteps ==
  ASSUME TypeOK, [Next]_vars
  PROVE  \/ Carries(self', queue', self, queue)
         \/ \E t \in Threads :
              \/ Assign(t) \/ Replace(t) \/ Unready(t) \/ Fresh(t) \/ Clear(t)
              \/ t \in Pollers /\ Adopt(t)
         \/ Put
<1>. DEFINE Goal == Carries(self', queue', self, queue)
<1>1. MM \in Threads
  BY DEF Threads, Pollers
<1>2. ASSUME NEW t \in Threads,
             \/ SameBlock(t) \/ Need(t) \/ SetReady(t) \/ Notify(t) \/ Settle(t) \/ Fetch(t)
             \/ Fired \/ Tick
      PROVE  Goal
  <2>1. CASE SameBlock(t)
    BY <2>1, SelfCarries, FieldsCarry DEF SameBlock
  <2>2. CASE Need(t) \/ SetReady(t) \/ Notify(t)
    BY <2>2, FieldsCarry DEF Need, SetReady, Notify
  <2>3. CASE Settle(t) \/ Fetch(t) \/ Fired \/ Tick
    BY <2>3, FieldsCarry DEF Settle, Fetch, Fired, Tick
  <2>4. QED  BY <1>2, <2>1, <2>2, <2>3
<1>3. ASSUME NEW t \in Threads,
             \/ NewBlock(t) \/ Signal(t) \/ Process(t) \/ Verdict(t) \/ Compare(t)
             \/ GetMC(t) \/ Job(t) \/ StartGetMC(t) \/ StartShare(t) \/ StartPoll(t)
             \/ LoopPoll \/ LoopFire \/ LoopMake \/ CheckHeight \/ RunOut \/ NewTip
             \/ UNCHANGED vars
      PROVE  Goal
  <2>1. CASE \/ NewBlock(t) \/ Signal(t) \/ Process(t) \/ Verdict(t) \/ Compare(t)
             \/ GetMC(t) \/ Job(t) \/ StartGetMC(t) \/ StartShare(t) \/ StartPoll(t)
    BY <2>1, SelfCarries DEF NewBlock, Signal, Process, Verdict, Compare, GetMC, Job,
       StartGetMC, StartShare, StartPoll
  <2>2. CASE \/ LoopPoll \/ LoopFire \/ LoopMake \/ CheckHeight \/ RunOut \/ NewTip
             \/ UNCHANGED vars
    BY <2>2, SelfCarries DEF LoopPoll, LoopFire, LoopMake, CheckHeight, RunOut, NewTip, vars
  <2>3. QED  BY <1>3, <2>1, <2>2
<1>4. ASSUME NEW t \in Threads, Wake(t) \/ GetClear PROVE Goal
  BY <1>4, QueuesCarry
<1>5. PopRegular => Goal
  BY PopCarries
<1>. HIDE DEF Goal
<1>6. ASSUME NEW t \in Threads, t \in Pollers, Poll(t), ~Adopt(t) PROVE Goal
  BY <1>2, <1>3, <1>6 DEF Poll
<1>7. \/ Goal
      \/ \E t \in Threads :
              \/ Assign(t) \/ Replace(t) \/ Unready(t) \/ Fresh(t) \/ Clear(t)
              \/ t \in Pollers /\ Adopt(t)
      \/ Put
  BY <1>1, <1>2, <1>3, <1>4, <1>5, <1>6, Steps
<1>8. QED  BY <1>7 DEF Goal

\* Where a root is being made, and that it was made or begun by the step.
LEMMA MakerSteps ==
  ASSUME TypeOK, [Next]_vars, thread'[MM].pc \in {"made", "put"}
  PROVE  \/ thread[MM].pc \in {"made", "put"} /\ making' = making
         \/ thread[MM].pc \in {"made", "put"} /\ making' = AgedMaking
         \/ LoopMake
<1>. MM \in Threads /\ Getwork \in Threads /\ Getwork # MM
  BY ThreadsAssumption DEF Threads, Pollers, Servers
<1>1. ASSUME NEW t \in Threads, Quiet(t)
      PROVE  thread[MM].pc \in {"made", "put"}
  BY <1>1 DEF Quiet
<1>2. ASSUME NEW t \in Threads,
             \/ SameBlock(t) \/ NewBlock(t) \/ Unready(t) \/ Clear(t) \/ SetReady(t) \/ Need(t)
             \/ Poll(t) \/ StartPoll(t) \/ GetMC(t) \/ Job(t) \/ StartGetMC(t) \/ StartShare(t)
      PROVE  /\ making' = making \/ making' = AgedMaking
             /\ thread[MM].pc \in {"made", "put"}
  <2>1. making' = making \/ making' = AgedMaking
    BY <1>2 DEF SameBlock, NewBlock, Unready, Clear, SetReady, Need, Poll, Fetch, Process,
       Verdict, Compare, Adopt, Notify, Settle, StartPoll, GetMC, Job, StartGetMC, StartShare
  <2>2. QED
    BY <1>1, <1>2, <2>1, QuietUpdateSteps, QuietPollSteps, QuietOtherSteps
<1>3. ASSUME LoopPoll \/ LoopFire \/ Fired PROVE FALSE
  BY <1>3, QuietOtherSteps DEF Quiet
<1>4. ASSUME NEW t \in Threads, Assign(t) \/ Replace(t) \/ Wake(t) \/ Fresh(t) \/ Signal(t)
      PROVE  making' = making /\ thread[MM].pc \in {"made", "put"}
  <2>1. making' = making
    BY <1>4 DEF Assign, Replace, Wake, Fresh, Signal
  <2>2. thread'[t].pc \notin {"made", "put"}
    <3>1. CASE Assign(t) \/ Wake(t) \/ Signal(t)
      BY <3>1, AssignMoves, WakeMoves, SignalMoves DEF Moved
    <3>2. CASE Replace(t) \/ Fresh(t)
      BY <3>2, Went, Unwound DEF Replace, AdoptNext, StartEmpty, ReplaceRaises, Fresh, Moved
    <3>3. QED  BY <1>4, <3>1, <3>2
  <2>3. \A v \in Threads : v # t => thread'[v].pc \in {thread[v].pc, "getMC"}
    BY <1>4, InsideLocals
  <2>4. MM # t /\ thread'[MM].pc # "getMC"
    BY <2>2
  <2>5. QED  BY <2>1, <2>3, <2>4
<1>5. ASSUME CheckHeight \/ Put PROVE making' = making /\ thread[MM].pc \in {"made", "put"}
  <2>1. CASE CheckHeight
    <3>1. thread[MM].pc = "made"
      BY <2>1 DEF CheckHeight, At
    <3>2. ~Goto(MM, "idle")
      BY Went DEF Moved
    <3>3. QED  BY <2>1, <3>1, <3>2 DEF CheckHeight
  <2>2. CASE Put
    BY <2>2, Went DEF Put, Moved
  <2>3. QED  BY <1>5, <2>1, <2>2
<1>6. ASSUME RunOut \/ GetClear PROVE making' = making /\ thread[MM].pc \in {"made", "put"}
  <2>1. making' = making
    BY <1>6 DEF RunOut, GetClear
  <2>2. thread' = thread \/ Goto(Getwork, "idle") \/ Goto(Getwork, "get")
    BY <1>6 DEF RunOut, GetClear
  <2>3. thread'[MM] = thread[MM]
    BY <2>2, Went DEF Moved
  <2>4. QED  BY <2>1, <2>3
<1>7. PopRegular \/ NewTip \/ Tick \/ UNCHANGED vars =>
        making' = making /\ thread[MM].pc \in {"made", "put"}
  BY DEF PopRegular, NewTip, Tick, vars
<1>8. QED  BY <1>2, <1>3, <1>4, <1>5, <1>6, <1>7, Steps

\* The steps that change the stores or the block they are for.
LEMMA StoreAssign ==
  ASSUME TypeOK, NEW t \in Threads, Assign(t), Stage(thread[t], self),
         CallOK(thread[t], self), StoreStage(thread[t], self, queue)
  PROVE  StoreStage(thread'[t], self', queue')
<1>1. PICK old, new : old = thread[t].upd /\ new = thread'[t].upd
  OBVIOUS
<1>2. /\ thread[t].pc = "assign" /\ new.prev = old.prev /\ new.height = old.height
      /\ new.bits = old.bits /\ new.last = old.last
      /\ Unknown(t) <=> old.bits = None
      /\ thread'[t].pc = "replace" \/ (thread'[t].pc = "clear" /\ ~Unknown(t)
                                         /\ old.last = old.height)
  BY <1>1, AssignMoves DEF Moved, Unknown
<1>3. /\ old.last = self.currentBlock.height
      /\ old.bits = None => old.height = old.last + 1
  BY <1>1, <1>2 DEF Stage, CallOK, InUpdate, Updating, UpdatePlaces
<1>4. old.last \in Nat /\ old.height \in Nat
  BY <1>1 DEF TypeOK, FrameType, UpdateType
<1>5. /\ old.bits = None => self'.currentBlock.height = old.height - 1
      /\ old.bits # None =>
           self'.currentBlock.prev = old.prev /\ self'.currentBlock.height = old.height
  <2>1. /\ old.bits = None => self'.currentBlock =
             [prev |-> None, height |-> old.height - 1, bits |-> None]
        /\ old.bits # None => self'.currentBlock =
             [prev |-> old.prev, height |-> old.height, bits |-> old.bits]
    BY <1>1, <1>2, AssignTrees
  <2>2. QED  BY <2>1
<1>6. /\ queue' = queue /\ self'.clearMerkleRoots = self.clearMerkleRoots
      /\ self'.nextMerkleRoots = self.nextMerkleRoots
  BY DEF Assign, TypeOK, SelfType
<1>7. StoresFit(self, queue)
  BY <1>2 DEF StoreStage
<1>8. NextFor(self', queue', new.last + 1)
  BY <1>2, <1>3, <1>6, <1>7 DEF StoresFit, NextFor
<1>9. CASE old.bits = None
  <2>1. self'.currentBlock.height = new.last
    BY <1>2, <1>3, <1>4, <1>5, <1>9
  <2>2. QED  BY <1>1, <1>2, <1>8, <1>9, <2>1 DEF StoreStage
<1>10. CASE old.bits # None
  <2>1. self'.currentBlock.prev = new.prev /\ new.bits # None
    BY <1>2, <1>5, <1>10
  <2>2. CASE thread'[t].pc = "replace"
    BY <1>1, <1>8, <2>1, <2>2 DEF StoreStage
  <2>3. CASE thread'[t].pc = "clear" /\ old.last = old.height
    <3>1. StoresFit(self', queue')
      BY <1>3, <1>5, <1>6, <1>7, <1>10, <2>3 DEF StoresFit, ClearFor, NextFor
    <3>2. QED  BY <1>1, <2>1, <2>3, <3>1 DEF StoreStage
  <2>4. QED  BY <1>2, <2>2, <2>3
<1>11. QED  BY <1>9, <1>10

LEMMA StoreReplace ==
  ASSUME TypeOK, NEW t \in Threads, Replace(t), Stage(thread[t], self),
         StoreStage(thread[t], self, queue), thread'[t].pc # "idle"
  PROVE  StoreStage(thread'[t], self', queue')
<1>1. thread[t].pc = "replace" /\ ~Unwind(t)
  BY Unwound DEF Replace, At, Moved
<1>2. Goto(t, "wake") /\ ~ReplaceRaises(t)
  BY <1>1 DEF Replace, AdoptNext, StartEmpty, ReplaceRaises
<1>3. thread'[t].pc = "wake" /\ thread'[t].upd = thread[t].upd
  BY <1>2, Went DEF Moved
<1>4. PICK u : u = thread[t].upd
  OBVIOUS
<1>5. /\ u.height \in Nat /\ u.last \in Nat
      /\ Unknown(t) <=> u.bits = None
      /\ Follows(t) <=> u.last = u.height - 1
  BY <1>4 DEF TypeOK, FrameType, UpdateType, Unknown, Follows
<1>6. /\ self'.currentBlock = self.currentBlock
      /\ self'.nextMerkleRoots = self.nextMerkleRoots
      /\ self.nextMerkleRoots \in Queues
  BY ReplaceTrees DEF TypeOK, SelfType
<1>7. /\ NextFor(self, queue, u.last + 1)
      /\ u.bits = None => self.currentBlock.height = u.last
      /\ u.bits # None => self.currentBlock.prev = u.prev
  BY <1>1, <1>4 DEF StoreStage
<1>8. CASE StartEmpty(t)
  <2>1. NewQueue(ClearMax) /\ ClearMax \in Nat /\ self'.clearMerkleRoots = FreshQueue
    BY <1>8, SizesAssumption DEF StartEmpty, TypeOK, SelfType
  <2>2. /\ FreshQueue # self.nextMerkleRoots /\ queue'[FreshQueue].items = <<>>
        /\ queue'[self.nextMerkleRoots] = queue[self.nextMerkleRoots]
    BY <1>6, <2>1, NewQueueKeeps, Referred
  <2>3. \A h : ClearFor(self', queue', h)
    BY <2>1, <2>2 DEF ClearFor, AllFor
  <2>4. NextFor(self', queue', u.last + 1)
    BY <1>6, <1>7, <2>2 DEF NextFor
  <2>5. u.bits = None => StoresFit(self', queue')
    BY <1>6, <1>7, <2>1, <2>2, <2>3, <2>4 DEF StoresFit
  <2>6. QED  BY <1>3, <1>4, <1>6, <1>7, <2>3, <2>5 DEF StoreStage
<1>9. CASE AdoptNext(t)
  <2>1. queue' = queue /\ u.bits # None /\ u.last = u.height - 1
    BY <1>5, <1>9 DEF AdoptNext
  <2>2. self'.clearMerkleRoots = self.nextMerkleRoots
    <3>1. self' = [self EXCEPT !.curClearMerkleTree = self.nextMerkleTree,
                               !.clearMerkleRoots = self.nextMerkleRoots]
      BY <1>9 DEF AdoptNext
    <3>2. QED  BY <3>1 DEF TypeOK, SelfType
  <2>3. self.currentBlock.height = u.height
    BY <1>1, <1>4, <2>1 DEF Stage, Known
  <2>4. u.last + 1 = u.height
    BY <1>5, <2>1
  <2>5. ClearFor(self', queue', self'.currentBlock.height)
    BY <1>6, <1>7, <2>1, <2>2, <2>3, <2>4 DEF ClearFor, NextFor
  <2>6. QED  BY <1>3, <1>4, <1>6, <1>7, <2>1, <2>5 DEF StoreStage
<1>10. QED  BY <1>2, <1>8, <1>9 DEF Replace

LEMMA StoreFresh ==
  ASSUME TypeOK, NEW t \in Threads, Fresh(t), StoreStage(thread[t], self, queue),
         thread'[t].pc # "idle"
  PROVE  StoreStage(thread'[t], self', queue')
<1>1. thread[t].pc = "fresh" /\ ~Unwind(t)
  BY Unwound DEF Fresh, At, Moved
<1>2. /\ Goto(t, "clear") /\ NewQueue(MaxClearSize)
      /\ self'.nextMerkleRoots = FreshQueue
      /\ self'.clearMerkleRoots = self.clearMerkleRoots
      /\ self'.currentBlock = self.currentBlock
  BY <1>1, FreshTrees
<1>3. thread'[t].pc = "clear" /\ thread'[t].upd = thread[t].upd
  BY <1>2, Went DEF Moved
<1>4. MaxClearSize \in Nat /\ self.clearMerkleRoots \in Queues
  BY SizesAssumption DEF MaxClearSize, TypeOK, SelfType
<1>5. /\ FreshQueue # self.clearMerkleRoots /\ queue'[FreshQueue].items = <<>>
      /\ queue'[self.clearMerkleRoots] = queue[self.clearMerkleRoots]
  BY <1>2, <1>4, NewQueueKeeps, Referred
<1>6. /\ ClearFor(self, queue, self.currentBlock.height)
      /\ thread[t].upd.bits # None => self.currentBlock.prev = thread[t].upd.prev
  BY <1>1 DEF StoreStage
<1>7. \A h : NextFor(self', queue', h)
  BY <1>2, <1>5 DEF NextFor, AllFor
<1>8. ClearFor(self', queue', self'.currentBlock.height)
  BY <1>2, <1>5, <1>6 DEF ClearFor
<1>9. StoresFit(self', queue')
  BY <1>2, <1>5, <1>7, <1>8 DEF StoresFit
<1>10. QED  BY <1>2, <1>3, <1>6, <1>9 DEF StoreStage

LEMMA StoreClear ==
  ASSUME TypeOK, NEW t \in Threads, Clear(t), ClearTreesInv, Stage(thread[t], self),
         StoreStage(thread[t], self, queue), thread'[t].pc # "idle"
  PROVE  StoreStage(thread'[t], self', queue')
<1>1. thread[t].pc = "clear" /\ ~Unwind(t) /\ queue' = queue
  BY Unwound DEF Clear, At, Moved
<1>2. /\ Goto(t, "ready") /\ self'.currentMerkleTree = self.curClearMerkleTree
      /\ self'.merkleRoots = <<>> /\ self'.currentBlock = self.currentBlock
      /\ self'.clearMerkleRoots = self.clearMerkleRoots
      /\ self'.nextMerkleRoots = self.nextMerkleRoots
  BY <1>1, ClearTrees
<1>3. thread'[t].pc = "ready" /\ thread'[t].upd = thread[t].upd
  BY <1>2, Went DEF Moved
<1>4. /\ StoresFit(self, queue)
      /\ thread[t].upd.bits # None => self.currentBlock.prev = thread[t].upd.prev
  BY <1>1 DEF StoreStage
<1>5. StoresFit(self', queue')
  BY <1>1, <1>2, <1>4 DEF StoresFit, ClearFor, NextFor
<1>6. TreeServes(self')
  <2>1. TreesFit(self)
    BY <1>1 DEF Stage
  <2>2. QED  BY <1>2, <2>1 DEF ClearTreesInv, TreesFit, TreeServes
<1>7. QED  BY <1>2, <1>3, <1>4, <1>5, <1>6 DEF StoreStage

\* The steps that carry the stores over, and the two that end.
LEMMA StoreGoesOn ==
  ASSUME TypeOK, NEW t \in Threads, Wake(t) \/ SetReady(t) \/ Signal(t),
         Carries(self', queue', self, queue), StoreStage(thread[t], self, queue)
  PROVE  StoreStage(thread'[t], self', queue')
<1>1. self \in SelfType
  BY DEF TypeOK
<1>2. StoreStage(thread[t], self', queue')
  BY <1>1, Carried
<1>3. CASE Wake(t)
  <2>1. PICK old, new : old = thread[t].upd /\ new = thread'[t].upd
    OBVIOUS
  <2>2. /\ thread[t].pc = "wake"
        /\ thread'[t].pc = (IF old.bits = None THEN "unready" ELSE "fresh")
        /\ new.bits = old.bits /\ new.prev = old.prev
    BY <1>3, <2>1, WakeMoves DEF Moved, Unknown
  <2>3. QED  BY <1>2, <2>1, <2>2 DEF StoreStage
<1>4. CASE SetReady(t) \/ Signal(t)
  <2>1. thread[t].pc \in {"ready", "signal"}
    BY <1>4 DEF SetReady, Signal, At
  <2>2. thread'[t].pc \in {"need", "signal"} /\ thread'[t].upd = thread[t].upd
    BY <1>4, SetReadyTrees, SignalMoves, Went DEF Moved
  <2>3. QED  BY <1>2, <2>1, <2>2 DEF StoreStage
<1>5. QED  BY <1>3, <1>4

LEMMA StoreEnds ==
  ASSUME TypeOK, NEW t \in Threads, Unready(t) \/ Need(t),
         StoreStage(thread[t], self, queue)
  PROVE  StoresSettled(self', queue')
<1>1. queue' = queue
  BY DEF Unready, Need
<1>2. self'.merkleRoots = <<>> => RootsServe(self')
  BY DEF RootsServe
<1>3. CASE Unready(t)
  <2>1. StoresFit(self, queue)
    BY <1>3 DEF Unready, At, StoreStage
  <2>2. StoresFit(self', queue')
    BY <1>1, <1>3, <2>1, UnreadyTrees DEF StoresFit, ClearFor, NextFor
  <2>3. QED  BY <1>2, <1>3, <2>2, UnreadyTrees DEF StoresSettled
<1>4. CASE Need(t)
  <2>1. StoresFit(self, queue) /\ self.merkleRoots = <<>> /\ TreeServes(self)
    BY <1>4 DEF Need, At, StoreStage
  <2>2. Carries(self', queue', self, queue)
    BY <1>1, <1>4, FieldsCarry DEF Need
  <2>3. self \in SelfType
    BY DEF TypeOK
  <2>4. StoresFit(self', queue') /\ TreeServes(self')
    BY <2>1, <2>2, <2>3, Carried
  <2>5. self'.merkleRoots = <<>>
    BY <2>1, <2>2 DEF Carries
  <2>6. QED  BY <1>2, <2>4, <2>5 DEF StoresSettled
<1>5. QED  BY <1>3, <1>4

LEMMA StoreAdopt ==
  ASSUME TypeOK, NEW t \in Threads, Adopt(t), StoresSettled(self, queue),
         thread[t].template.prev = self.currentBlock.prev
  PROVE  StoresSettled(self', queue')
<1>1. PICK roots : roots = self.merkleRoots
  OBVIOUS
<1>2. /\ self'.currentBlock = self.currentBlock /\ self'.ready = self.ready
      /\ self'.clearMerkleRoots = self.clearMerkleRoots
      /\ self'.nextMerkleRoots = self.nextMerkleRoots
      /\ self'.currentMerkleTree = TemplateTree(thread[t].template)
      /\ self'.merkleRoots = [i \in DOMAIN roots |-> Aged(roots[i])]
      /\ queue' = queue
  BY <1>1, AdoptTrees, AdoptKeepsStores DEF Adopt
<1>3. StoresFit(self', queue')
  BY <1>2 DEF StoresSettled, StoresFit, ClearFor, NextFor
<1>4. RootsServe(self')
  <2>1. roots \in Seq(RootType)
    BY <1>1 DEF TypeOK, SelfType
  <2>2. [i \in DOMAIN roots |-> Aged(roots[i])] \in Seq(RootType)
    BY <2>1, AgedRootsType
  <2>3. /\ Len(roots) \in Nat /\ DOMAIN roots = 1 .. Len(roots)
        /\ Len(self'.merkleRoots) \in Nat
        /\ DOMAIN self'.merkleRoots = 1 .. Len(self'.merkleRoots)
    BY <1>2, <2>1, <2>2
  <2>4. DOMAIN self'.merkleRoots = DOMAIN roots
    BY <1>2
  <2>5. ASSUME NEW i \in 1 .. Len(self'.merkleRoots)
        PROVE  Serves(self'.merkleRoots[i], self'.currentBlock)
    <3>1. i \in 1 .. Len(roots) /\ self'.merkleRoots[i] = Aged(roots[i])
      BY <1>2, <2>3, <2>4
    <3>2. roots[i] \in RootType /\ Serves(roots[i], self.currentBlock)
      BY <1>1, <2>1, <3>1 DEF StoresSettled, RootsServe
    <3>3. QED  BY <1>2, <3>1, <3>2 DEF Serves, Aged, RootType
  <2>6. QED  BY <2>5 DEF RootsServe
<1>5. TreeServes(self')
  BY <1>2 DEF TreeServes, TemplateTree
<1>6. QED  BY <1>3, <1>4, <1>5 DEF StoresSettled

\* A root in the making, while the block and the names of the stores stay.
LEMMA MakingKept ==
  ASSUME NEW m, NEW s, NEW s2, MakingServes(m, s),
         s2.currentBlock = s.currentBlock, s2.clearMerkleRoots = s.clearMerkleRoots,
         s2.nextMerkleRoots = s.nextMerkleRoots
  PROVE  MakingServes(m, s2)
  BY DEF MakingServes

LEMMA AgedMakingServes ==
  ASSUME TypeOK, thread[MM].pc \in {"made", "put"}, NEW s, MakingServes(making, s)
  PROVE  MakingServes(AgedMaking, s)
<1>1. making.root \in RootType /\ making \in MakingType
  BY DEF TypeOK, MakingOK
<1>2. AgedMaking.into = making.into /\ AgedMaking.root \in {making.root, Aged(making.root)}
  BY <1>1 DEF AgedMaking, MakingType
<1>3. /\ Aged(making.root).tree = making.root.tree
      /\ Aged(making.root).height = making.root.height
      /\ Aged(making.root).clear = making.root.clear
      /\ Aged(making.root).prev = making.root.prev
  BY <1>1 DEF Aged, RootType
<1>4. CASE AgedMaking.root = making.root
  BY <1>2, <1>4 DEF MakingServes
<1>5. CASE AgedMaking.root = Aged(making.root)
  BY <1>2, <1>3, <1>5 DEF MakingServes, Serves
<1>6. QED  BY <1>2, <1>4, <1>5

\* A root that serves goes where it is for.
LEMMA StorePut ==
  ASSUME TypeOK, Put, StoresSettled(self, queue), MakingServes(making, self)
  PROVE  StoresSettled(self', queue')
<1>1. PICK root : root = making.root
  OBVIOUS
<1>2. root \in RootType
  <2>1. thread[MM].pc = "put"
    BY DEF Put, At
  <2>2. QED  BY <1>1, <2>1 DEF TypeOK, MakingOK
<1>3. self \in SelfType /\ queue \in [Queues -> QueueType]
  BY DEF TypeOK
<1>4. StoresFit(self, queue) /\ RootsServe(self) /\ (self.ready => TreeServes(self))
  BY DEF StoresSettled
<1>5. CASE PutRegular
  <2>1. PICK rest : rest = IF Len(self.merkleRoots) < RegularMax THEN self.merkleRoots
                           ELSE Tail(self.merkleRoots)
    OBVIOUS
  <2>2. PICK roots : roots = rest \o <<root>>
    OBVIOUS
  <2>3. self.merkleRoots \in Seq(RootType) /\ RegularMax \in Nat /\ RegularMax > 0
    BY <1>3, SizesAssumption DEF SelfType
  <2>4. self' = [self EXCEPT !.merkleRoots = roots] /\ queue' = queue /\ making.into = Deque
    BY <1>1, <1>5, <2>1, <2>2 DEF PutRegular
  <2>5. /\ self'.merkleRoots = roots /\ self'.currentBlock = self.currentBlock
        /\ self'.clearMerkleRoots = self.clearMerkleRoots
        /\ self'.nextMerkleRoots = self.nextMerkleRoots
        /\ self'.currentMerkleTree = self.currentMerkleTree /\ self'.ready = self.ready
    BY <1>3, <2>4 DEF SelfType
  <2>6. Serves(root, self.currentBlock)
    <3>1. Deque \notin {self.clearMerkleRoots, self.nextMerkleRoots}
      BY <1>3, SizesAssumption DEF Deque, Queues, SelfType
    <3>2. QED  BY <1>1, <2>4, <3>1 DEF MakingServes
  <2>7. /\ rest \in Seq(RootType)
        /\ \A i \in 1 .. Len(rest) : \E j \in 1 .. Len(self.merkleRoots) :
             rest[i] = self.merkleRoots[j]
    <3>1. CASE Len(self.merkleRoots) < RegularMax
      BY <2>1, <2>3, <3>1
    <3>2. CASE ~(Len(self.merkleRoots) < RegularMax)
      <4>1. rest = Tail(self.merkleRoots) /\ self.merkleRoots # <<>>
        BY <2>1, <2>3, <3>2
      <4>2. /\ rest \in Seq(RootType) /\ Len(self.merkleRoots) \in Nat
            /\ Len(rest) = Len(self.merkleRoots) - 1
            /\ \A i \in 1 .. Len(rest) : rest[i] = self.merkleRoots[i + 1]
        BY <2>3, <4>1
      <4>3. \A i \in 1 .. Len(rest) : i + 1 \in 1 .. Len(self.merkleRoots)
        BY <4>2
      <4>4. QED  BY <4>2, <4>3
    <3>3. QED  BY <3>1, <3>2
  <2>8. /\ Len(rest) \in Nat /\ Len(roots) = Len(rest) + 1
        /\ \A i \in 1 .. Len(rest) : roots[i] = rest[i]
        /\ roots[Len(rest) + 1] = root
    BY <1>2, <2>2, <2>7
  <2>9. \A i \in 1 .. Len(roots) : Serves(roots[i], self.currentBlock)
    <3>1. \A i \in 1 .. Len(roots) : i \in 1 .. Len(rest) \/ i = Len(rest) + 1
      BY <2>8
    <3>2. \A i \in 1 .. Len(rest) : Serves(rest[i], self.currentBlock)
      BY <1>4, <2>7 DEF RootsServe
    <3>3. QED  BY <2>6, <2>8, <3>1, <3>2
  <2>10. RootsServe(self')
    BY <2>5, <2>9 DEF RootsServe
  <2>11. StoresFit(self', queue')
    BY <1>4, <2>4, <2>5 DEF StoresFit, ClearFor, NextFor
  <2>12. self'.ready => TreeServes(self')
    BY <1>4, <2>5 DEF TreeServes
  <2>13. QED  BY <2>10, <2>11, <2>12 DEF StoresSettled
<1>6. CASE PutQueue
  <2>1. PICK o : o = making.into
    OBVIOUS
  <2>2. PICK items : items = Append(queue[o].items, root)
    OBVIOUS
  <2>3. o \in Queues /\ self' = self /\ queue' = [queue EXCEPT ![o].items = items]
    BY <1>1, <1>6, <2>1, <2>2 DEF PutQueue
  <2>4. /\ o \in {self.clearMerkleRoots, self.nextMerkleRoots}
        /\ root.tree = root.height
        /\ root.height = IF o = self.clearMerkleRoots THEN self.currentBlock.height
                         ELSE self.currentBlock.height + 1
    <3>1. o # Deque
      BY <2>3, SizesAssumption DEF Deque, Queues
    <3>2. QED  BY <1>1, <2>1, <3>1 DEF MakingServes
  <2>5. /\ queue'[o].items = items
        /\ \A q \in Queues : q # o => queue'[q] = queue[q]
    BY <1>3, <2>3 DEF QueueType
  <2>6. queue[o].items \in Seq(RootType \cup {None})
    BY <1>3, <2>3 DEF QueueType
  <2>7. ASSUME NEW h, AllFor(queue[o].items, h), root.height = h
        PROVE  AllFor(items, h)
    BY <1>2, <2>2, <2>4, <2>6, <2>7, ItemsStay
  <2>8. self.clearMerkleRoots \in Queues /\ self.nextMerkleRoots \in Queues
    BY <1>3 DEF SelfType
  <2>9. self.clearMerkleRoots # self.nextMerkleRoots
    BY <1>4 DEF StoresFit
  <2>10. ClearFor(self', queue', self.currentBlock.height)
    <3>1. AllFor(queue[self.clearMerkleRoots].items, self.currentBlock.height)
      BY <1>4 DEF StoresFit, ClearFor
    <3>2. CASE o = self.clearMerkleRoots
      BY <2>3, <2>4, <2>5, <2>7, <3>1, <3>2 DEF ClearFor
    <3>3. CASE o # self.clearMerkleRoots
      BY <2>3, <2>5, <2>8, <3>1, <3>3 DEF ClearFor
    <3>4. QED  BY <3>2, <3>3
  <2>11. NextFor(self', queue', self.currentBlock.height + 1)
    <3>1. AllFor(queue[self.nextMerkleRoots].items, self.currentBlock.height + 1)
      BY <1>4 DEF StoresFit, NextFor
    <3>2. CASE o = self.nextMerkleRoots
      BY <2>3, <2>4, <2>5, <2>7, <2>9, <3>1, <3>2 DEF NextFor
    <3>3. CASE o # self.nextMerkleRoots
      BY <2>3, <2>5, <2>8, <3>1, <3>3 DEF NextFor
    <3>4. QED  BY <3>2, <3>3
  <2>12. StoresFit(self', queue')
    BY <2>3, <2>9, <2>10, <2>11 DEF StoresFit
  <2>13. QED  BY <1>4, <2>3, <2>12 DEF StoresSettled
<1>7. QED  BY <1>5, <1>6 DEF Put

\* The root that the maker begins is for the store it looked at.
LEMMA StoreMake ==
  ASSUME TypeOK, LoopMake, StoresSettled(self, queue), Settled(self)
  PROVE  MakingServes(making', self')
<1>1. self' = self /\ self \in SelfType
  BY DEF LoopMake, TypeOK
<1>2. ASSUME NEW into, NEW tree, NEW h, Make(into, tree, h)
      PROVE  /\ tree # None /\ making'.into = into
             /\ making'.root.clear = tree.clear /\ making'.root.prev = tree.prev
             /\ making'.root.tree = tree.height /\ making'.root.height = h
  BY <1>2 DEF Make, Root
<1>3. self.ready
  BY DEF LoopMake, Want
<1>4. TreesFit(self)
  <2>1. NoBlock.prev = None
    BY DEF NoBlock
  <2>2. QED  BY <1>3, <2>1 DEF Settled, NoneYet
<1>5. /\ TreeServes(self) /\ self.clearMerkleRoots # self.nextMerkleRoots
  BY <1>3 DEF StoresSettled, StoresFit
<1>6. PICK h : h = self.currentBlock.height
  OBVIOUS
<1>7. \/ Make(self.clearMerkleRoots, self.curClearMerkleTree, h)
      \/ Make(self.nextMerkleRoots, self.nextMerkleTree, h + 1)
      \/ Make(Deque, self.currentMerkleTree, h)
  BY <1>6 DEF LoopMake
<1>8. CASE Make(self.clearMerkleRoots, self.curClearMerkleTree, h)
  BY <1>1, <1>2, <1>4, <1>6, <1>8 DEF TreesFit, MakingServes
<1>9. CASE Make(self.nextMerkleRoots, self.nextMerkleTree, h + 1)
  BY <1>1, <1>2, <1>4, <1>5, <1>6, <1>9 DEF TreesFit, MakingServes
<1>10. CASE Make(Deque, self.currentMerkleTree, h)
  BY <1>1, <1>2, <1>5, <1>6, <1>10 DEF TreeServes, MakingServes, Serves
<1>11. QED  BY <1>7, <1>8, <1>9, <1>10

\* The steps outside updateBlock: of them only the maker's Put and a poll that
\* adopts its template touch the stores or the current tree.
LEMMA StoresOutside ==
  ASSUME TypeOK, StoresInv, TreesInv, [Next]_vars, disturbed = Nothing, Unhindered',
         \A v \in Threads : Outside(v),
         \/ Carries(self', queue', self, queue) /\ SameTrees(self', self)
         \/ Put
         \/ \E t \in Pollers : Adopt(t),
         PollsInv
  PROVE  StoresInv'
<1>1. /\ Unhindered
      /\ \A v \in Threads : Updating(thread[v]) => StoreStage(thread[v], self, queue)
      /\ NobodyUpdates => /\ StoresSettled(self, queue)
                          /\ thread[MM].pc \in {"made", "put"} => MakingServes(making, self)
  BY DEF StoresInv
<1>2. \A v \in Threads :
        /\ Updating(thread'[v]) => Updating(thread[v]) /\ thread'[v] = thread[v]
        /\ Updating(thread[v]) => Updating(thread'[v])
  BY DEF Outside
<1>3. /\ NobodyUpdates => \A v \in Threads : ~Updating(thread[v])
      /\ (\A v \in Threads : ~Updating(thread[v])) => NobodyUpdates
      /\ NobodyUpdates' => NobodyUpdates
  <2>1. NobodyUpdates' => \A v \in Threads : ~Updating(thread'[v])
    BY DEF NobodyUpdates, Updating
  <2>2. NobodyUpdates => \A v \in Threads : ~Updating(thread[v])
    BY DEF NobodyUpdates, Updating
  <2>3. (\A v \in Threads : ~Updating(thread[v])) => NobodyUpdates
    BY DEF NobodyUpdates, Updating
  <2>4. QED  BY <1>2, <2>1, <2>2, <2>3
<1>4. self \in SelfType
  BY DEF TypeOK
<1>5. ASSUME NobodyUpdates, thread'[MM].pc \in {"made", "put"},
             self'.currentBlock = self.currentBlock,
             self'.clearMerkleRoots = self.clearMerkleRoots,
             self'.nextMerkleRoots = self.nextMerkleRoots
      PROVE  MakingServes(making', self')
  <2>1. CASE thread[MM].pc \in {"made", "put"} /\ making' \in {making, AgedMaking}
    <3>1. MakingServes(making, self) /\ MakingServes(AgedMaking, self)
      BY <1>1, <1>5, <2>1, AgedMakingServes
    <3>2. MakingServes(making', self)
      BY <2>1, <3>1
    <3>3. \A m : MakingServes(m, self) => MakingServes(m, self')
      BY <1>5, MakingKept
    <3>4. QED  BY <3>2, <3>3
  <2>2. CASE LoopMake
    BY <1>1, <1>5, <2>2, StoreMake DEF TreesInv, Race, Nothing
  <2>3. QED  BY <1>5, <2>1, <2>2, MakerSteps
<1>6. CASE Carries(self', queue', self, queue) /\ SameTrees(self', self)
  <2>1. /\ \A f : StoreStage(f, self, queue) => StoreStage(f, self', queue')
        /\ StoresFit(self, queue) => StoresFit(self', queue')
        /\ TreeServes(self) => TreeServes(self')
    BY <1>4, <1>6, Carried
  <2>2. /\ RootsServe(self) => RootsServe(self')
        /\ self'.ready = self.ready /\ self'.currentBlock = self.currentBlock
        /\ self'.clearMerkleRoots = self.clearMerkleRoots
        /\ self'.nextMerkleRoots = self.nextMerkleRoots
    BY <1>6 DEF Carries, SameTrees
  <2>3. ASSUME NEW v \in Threads, Updating(thread'[v])
        PROVE  StoreStage(thread'[v], self', queue')
    <3>1. PICK f : f = thread[v]
      OBVIOUS
    <3>2. thread'[v] = f /\ StoreStage(f, self, queue)
      BY <1>1, <1>2, <2>3, <3>1
    <3>3. QED  BY <2>1, <3>2
  <2>4. NobodyUpdates => StoresSettled(self', queue')
    BY <1>1, <2>1, <2>2 DEF StoresSettled
  <2>5. NobodyUpdates /\ thread'[MM].pc \in {"made", "put"} => MakingServes(making', self')
    BY <1>5, <2>2
  <2>6. QED  BY <1>3, <2>3, <2>4, <2>5 DEF StoresInv
<1>7. ASSUME NobodyUpdates, StoresSettled(self', queue'),
             thread'[MM].pc \in {"made", "put"} => MakingServes(making', self')
      PROVE  StoresInv'
  <2>1. \A v \in Threads : ~Updating(thread'[v])
    BY <1>2, <1>3, <1>7
  <2>2. QED  BY <1>7, <2>1 DEF StoresInv
<1>8. CASE Put
  <2>1. thread[MM].pc = "put" /\ MM \in Threads /\ ~Updating(thread[MM])
    BY <1>8 DEF Put, At, Threads, Pollers, Updating, UpdatePlaces
  <2>2. NobodyUpdates
    BY <1>1, <1>3, <2>1 DEF Unhindered
  <2>3. StoresSettled(self', queue')
    BY <1>1, <1>8, <2>1, <2>2, StorePut
  <2>4. thread'[MM].pc = "idle"
    BY <1>8, <2>1, Went DEF Put, Moved
  <2>5. QED  BY <1>7, <2>2, <2>3, <2>4
<1>9. ASSUME NEW t \in Pollers, Adopt(t) PROVE StoresInv'
  <2>1. /\ t \in Threads /\ thread[t].pc \in {"adopt", "changed"} /\ ~Updating(thread[t])
    BY <1>9 DEF Adopt, At, Threads, Updating, UpdatePlaces
  <2>2. NobodyUpdates
    BY <1>1, <1>3, <1>9, <2>1 DEF Unhindered
  <2>3. thread[t].template.prev = self.currentBlock.prev
    BY <1>9, <2>1 DEF PollsInv
  <2>4. StoresSettled(self', queue')
    BY <1>1, <1>9, <2>1, <2>2, <2>3, StoreAdopt
  <2>5. /\ self'.currentBlock = self.currentBlock
        /\ self'.clearMerkleRoots = self.clearMerkleRoots
        /\ self'.nextMerkleRoots = self.nextMerkleRoots
    BY <1>9, <2>1, AdoptTrees, AdoptKeepsStores
  <2>6. QED  BY <1>5, <1>7, <2>2, <2>4, <2>5
<1>10. QED  BY <1>6, <1>8, <1>9

\* The steps of updateBlock, one at a time as long as nothing is disturbed.
LEMMA StoresInside ==
  ASSUME TypeOK, Alone, Alone', CallsInv, TreesInv, ClearTreesInv, StoresInv, disturbed' = Nothing,
         disturbed = Nothing, Unhindered', NEW t \in Threads,
         \/ NewBlock(t) \/ Assign(t) \/ Replace(t) \/ Wake(t) \/ Unready(t) \/ Fresh(t)
         \/ Clear(t) \/ SetReady(t) \/ Signal(t) \/ Need(t)
  PROVE  StoresInv'
<1>1. /\ Unhindered
      /\ \A v \in Threads : Updating(thread[v]) =>
           Stage(thread[v], self) /\ StoreStage(thread[v], self, queue)
      /\ NobodyUpdates => StoresSettled(self, queue)
  BY DEF StoresInv, TreesInv, Race, Nothing
<1>2. CASE NewBlock(t)
  <2>1. /\ thread'[t].pc = "assign" /\ self' = self /\ queue' = queue
        /\ ~Updating(thread[t]) /\ Updating(thread'[t])
    BY <1>2, NewBlockMoves DEF Moved, NewBlock, At, Updating, UpdatePlaces
  <2>2. \A v \in Threads : v # t => ~Updating(thread'[v]) /\ thread'[v] = thread[v]
    BY <1>2, <2>1, NewBlockMoves DEF Moved, Alone
  <2>3. NobodyUpdates
    BY <2>1, <2>2 DEF NobodyUpdates, Updating
  <2>4. StoresFit(self, queue)
    BY <1>1, <2>3 DEF StoresSettled
  <2>5. StoreStage(thread'[t], self', queue')
    BY <2>1, <2>4 DEF StoreStage
  <2>6. ~NobodyUpdates'
    BY <2>1 DEF NobodyUpdates, Updating
  <2>7. QED  BY <2>2, <2>5, <2>6 DEF StoresInv
<1>3. CASE \/ Assign(t) \/ Replace(t) \/ Wake(t) \/ Unready(t) \/ Fresh(t)
           \/ Clear(t) \/ SetReady(t) \/ Signal(t) \/ Need(t)
  <2>1. /\ Updating(thread[t]) /\ Stage(thread[t], self) /\ CallOK(thread[t], self)
        /\ StoreStage(thread[t], self, queue) /\ StillCalm
    BY <1>1, <1>3, InsideLocals DEF CallsInv
  <2>2. ASSUME NEW v \in Threads, v # t PROVE ~Updating(thread'[v])
    <3>1. ~Updating(thread[v])
      BY <2>1, <2>2 DEF Alone
    <3>2. \/ thread'[v] = thread[v] \/ thread'[v].pc = "getMC"
      BY <1>3, <2>2, InsideLocals
    <3>3. QED  BY <3>1, <3>2 DEF Updating, UpdatePlaces
  <2>3. thread[t].pc \in {"replace", "fresh", "clear"} => thread'[t].pc # "idle"
    BY <2>1 DEF StillCalm, Race, Nothing
  <2>4. ASSUME Updating(thread'[t]), StoreStage(thread'[t], self', queue')
        PROVE  StoresInv'
    <3>1. ~NobodyUpdates'
      BY <2>4 DEF NobodyUpdates, Updating
    <3>2. QED  BY <2>2, <2>4, <3>1 DEF StoresInv
  <2>5. CASE Assign(t)
    BY <2>1, <2>4, <2>5, StageAssign, StoreAssign
  <2>6. CASE Replace(t)
    BY <2>1, <2>3, <2>4, <2>6, StageReplace, StoreReplace DEF Replace, At
  <2>7. CASE Fresh(t)
    BY <2>1, <2>3, <2>4, <2>7, StageFresh, StoreFresh DEF Fresh, At
  <2>8. CASE Clear(t)
    BY <2>1, <2>3, <2>4, <2>8, StageClear, StoreClear DEF Clear, At
  <2>9. CASE Wake(t)
    <3>1. Updating(thread'[t])
      BY <2>1, <2>9, StageWake
    <3>2. Carries(self', queue', self, queue)
      BY <2>9, QueuesCarry
    <3>3. QED  BY <2>1, <2>4, <2>9, <3>1, <3>2, StoreGoesOn
  <2>10. CASE SetReady(t) \/ Signal(t)
    <3>1. thread'[t].pc # "idle"
      BY <2>10, SetReadyTrees, SignalMoves, Went DEF Moved
    <3>2. Updating(thread'[t])
      BY <2>1, <2>10, <3>1, StageClear
    <3>3. Carries(self', queue', self, queue)
      BY <2>10, SelfCarries, FieldsCarry DEF SetReady, Signal
    <3>4. QED  BY <2>1, <2>4, <2>10, <3>2, <3>3, StoreGoesOn
  <2>11. CASE Unready(t) \/ Need(t)
    <3>1. StoresSettled(self', queue')
      BY <2>1, <2>11, StoreEnds
    <3>2. EndUpdateBlock(t) /\ thread[t].pc \in UpdatePlaces
      BY <2>11 DEF Unready, Need, At, UpdatePlaces
    <3>3. thread'[t].pc \in {"idle", "verdict", "changed"}
      BY <3>2, EndedUpdate, UpdateReturns DEF Moved
    <3>4. thread'[MM].pc \notin {"made", "put"}
      <4>1. CASE t = MM
        BY <3>3, <4>1
      <4>2. CASE t # MM
        <5>1. MM \in Threads /\ thread[MM].pc \notin {"made", "put"}
          BY <1>1, <2>1, <4>2 DEF Unhindered, Threads, Pollers
        <5>2. thread'[MM] = thread[MM] \/ thread'[MM].pc = "getMC"
          BY <1>3, <4>2, <5>1, InsideLocals
        <5>3. QED  BY <5>1, <5>2
      <4>3. QED  BY <4>1, <4>2
    <3>5. ~Updating(thread'[t])
      BY <3>3 DEF Updating, UpdatePlaces
    <3>6. QED  BY <2>2, <3>1, <3>4, <3>5 DEF StoresInv
  <2>12. QED  BY <1>3, <2>5, <2>6, <2>7, <2>8, <2>9, <2>10, <2>11
<1>4. QED  BY <1>2, <1>3

LEMMA StoresNext ==
  ASSUME TypeOK, QueuesInv, QueuesInv', CallsInv, TreesInv, ClearTreesInv, PollsInv, StoresInv,
         [Next]_vars
  PROVE  StoresInv'
<1>. SUFFICES ASSUME disturbed' = Nothing PROVE StoresInv'
  BY DEF StoresInv
<1>1. disturbed = Nothing /\ Unhindered'
  BY NoBetter, UnhinderedNext DEF StoresInv
<1>2. Alone /\ Alone'
  BY <1>1 DEF QueuesInv, Nothing, Overlap
<1>3. ASSUME NEW t \in Threads,
             \/ NewBlock(t) \/ Assign(t) \/ Replace(t) \/ Wake(t) \/ Unready(t) \/ Fresh(t)
             \/ Clear(t) \/ SetReady(t) \/ Signal(t) \/ Need(t)
      PROVE  StoresInv'
  BY <1>1, <1>2, <1>3, StoresInside
<1>4. ASSUME \A v \in Threads : Outside(v),
             \/ Carries(self', queue', self, queue) /\ SameTrees(self', self)
             \/ Put
             \/ \E t \in Pollers : Adopt(t)
      PROVE  StoresInv'
  BY <1>1, <1>4, StoresOutside
<1>5. QED  BY <1>3, <1>4, OutsideSteps, OutsideTrees, CarryingSteps

LEMMA StoresInit == Init => StoresInv /\ ClearTreesInv /\ PollsInv
<1>. SUFFICES ASSUME Init PROVE StoresInv /\ ClearTreesInv /\ PollsInv
  OBVIOUS
<1>. MM \in Threads /\ Pollers \subseteq Threads
  BY DEF Threads, Pollers
<1>1. \A t \in Threads : thread[t].pc = "idle" /\ thread[t].stack = <<>>
  BY DEF Init, Start
<1>2. \A t \in Threads : ~Updating(thread[t])
  BY <1>1 DEF Updating, UpdatePlaces
<1>3. /\ self.curClearMerkleTree = None /\ self.nextMerkleTree = None
      /\ self.currentMerkleTree = None /\ self.merkleRoots = <<>>
      /\ self.clearMerkleRoots = 1 /\ self.nextMerkleRoots = 2
  BY DEF Init
<1>4. 1 \in Queues /\ 2 \in Queues /\ \A q \in Queues : queue[q].items = <<>>
  BY SizesAssumption DEF Init, Queues
<1>5. StoresSettled(self, queue)
  <2>1. RootsServe(self)
    BY <1>3 DEF RootsServe
  <2>2. \A h : AllFor(<<>>, h)
    BY DEF AllFor
  <2>3. StoresFit(self, queue)
    BY <1>3, <1>4, <2>2 DEF StoresFit, ClearFor, NextFor
  <2>4. QED  BY <1>3, <2>1, <2>3 DEF StoresSettled, TreeServes
<1>6. StoresInv
  BY <1>1, <1>2, <1>5 DEF StoresInv, Unhindered
<1>7. PollsInv
  <2>1. \A t \in Threads : ~Comparing(thread[t])
    BY <1>1 DEF Comparing
  <2>2. QED  BY <1>1, <2>1 DEF PollsInv
<1>8. QED  BY <1>3, <1>6, <1>7 DEF ClearTreesInv

\* Between updates, and while nothing goes on that the code does not guard
\* against, every root in store can be worked on as it is.  updateBlock takes
\* the stores through stages in which only one of them fits the block; the root
\* in the making fits because nobody updates while it is made, and a poll adopts
\* only a template that it found, or made, to follow the current block.
THEOREM RootsFollowBlock == Spec => []StoresFollowBlock
<1>. DEFINE All == QueuesInv /\ MPInv /\ CallsInv /\ TreesInv /\ ClearTreesInv /\ PollsInv
                   /\ StoresInv
<1>1. TypeOK /\ StoresInv => StoresFollowBlock
  <2>1. SUFFICES ASSUME TypeOK, StoresInv, disturbed = Nothing, NobodyUpdates
                 PROVE  /\ RegularRootsFit
                        /\ StoreFits(self.clearMerkleRoots, self.currentBlock.height)
                        /\ StoreFits(self.nextMerkleRoots, self.currentBlock.height + 1)
    BY DEF StoresFollowBlock
  <2>2. /\ RootsServe(self) /\ ClearFor(self, queue, self.currentBlock.height)
        /\ NextFor(self, queue, self.currentBlock.height + 1)
    BY <2>1 DEF StoresInv, StoresSettled, StoresFit
  <2>3. RegularRootsFit
    <3>1. self.merkleRoots \in Seq(RootType)
      BY <2>1 DEF TypeOK, SelfType
    <3>2. DOMAIN self.merkleRoots = 1 .. Len(self.merkleRoots)
      BY <3>1
    <3>3. QED  BY <2>2, <3>2 DEF RegularRootsFit, RegularFits, RootsServe, Serves
  <2>4. \A q \in Queues : DOMAIN queue[q].items = 1 .. Len(queue[q].items)
    <3>1. \A q \in Queues : queue[q].items \in Seq(RootType \cup {None})
      BY <2>1 DEF TypeOK, QueueType
    <3>2. QED  BY <3>1
  <2>5. self.clearMerkleRoots \in Queues /\ self.nextMerkleRoots \in Queues
    BY <2>1 DEF TypeOK, SelfType
  <2>6. QED  BY <2>2, <2>3, <2>4, <2>5 DEF ClearFor, NextFor, AllFor, StoreFits
<1>2. IInv /\ All /\ [Next]_vars => All'
  <2>1. SUFFICES ASSUME IInv, All, [Next]_vars PROVE All'
    OBVIOUS
  <2>2. TypeOK
    BY <2>1 DEF IInv
  <2>3. QueuesInv' /\ MPInv' /\ CallsInv'
    BY <2>1, <2>2, QueuesNext, MPNext, CallsNext
  <2>4. TreesInv' /\ ClearTreesInv' /\ PollsInv'
    BY <2>1, <2>2, <2>3, TreesNext, ClearTreesNext, PollsNext
  <2>5. StoresInv'
    BY <2>1, <2>2, <2>3, StoresNext
  <2>6. QED  BY <2>3, <2>4, <2>5
<1>3. Init => All
  BY QueuesInit, MPInit, TreesInit, StoresInit
<1>. HIDE DEF All
<1>4. TypeOK /\ All => StoresFollowBlock
  BY <1>1 DEF All
<1>5. IInv => TypeOK
  BY DEF IInv
<1>6. QED  BY <1>2, <1>3, <1>4, <1>5, InitOK, NextOK, PTL DEF Spec

=============================================================================
