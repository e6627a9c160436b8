---------------------------- MODULE MerkleMaker ----------------------------
(***************************************************************************)
(* merklemaker.py, the part of eloipool that turns upstream block          *)
(* templates into work.  One thread (MM) polls for templates and keeps     *)
(* three stores of merkle roots filled: `merkleRoots` (real templates),    *)
(* `clearMerkleRoots` (empty blocks at the current height) and             *)
(* `nextMerkleRoots` (empty blocks one height up).  The other threads call *)
(* into the same object WITHOUT a lock: the server threads take work       *)
(* (getMRD, getMC) and announce the blocks they find (updateBlock), the    *)
(* p2p and SIGUSR1 threads poll (updateMerkleTree).                        *)
(*                                                                         *)
(* A step of a thread ends where the code blocks, logs, does I/O, builds a *)
(* coinbase, or hands a half-made change over to the other threads.        *)
(***************************************************************************)
EXTENDS Integers, Sequences, FiniteSets

CONSTANTS
  MM,                     \* the merkleMaker thread
  Notified,               \* the threads that only poll (p2p newBlock, SIGUSR1)
  Getwork,                \* the JSONRPC thread, the only one that calls getMRD
  Takers,                 \* the server threads that call getMC
  Finders,                \* the server threads whose shares may be blocks
  Templates,              \* what upstream may answer: [prev, height, bits]
  DifficultyChangeMod,
  ClearMin, ClearMax,     \* WorkQueueSizeClear
  NextMin, NextMax,       \* WorkQueueSizeLongpoll
  RegularMin, RegularMax, \* WorkQueueSizeRegular
  MaxQueues,              \* Queue objects alive at once
  None                    \* Python's None

Pollers == {MM} \cup Notified
Servers == {Getwork} \cup Takers \cup Finders
Threads == Pollers \cup Servers

ASSUME ThreadsAssumption ==
  /\ MM \notin Notified \cup Servers
  /\ Notified \cap Servers = {}

ASSUME TemplatesAssumption ==
  /\ Templates # {}
  /\ \A b \in Templates : /\ DOMAIN b = {"prev", "height", "bits"}
                          /\ b.prev # None /\ b.bits # None
                          /\ b.height \in Nat /\ b.height >= 2
  /\ DifficultyChangeMod \in Nat \ {0}

ASSUME SizesAssumption ==
  /\ {ClearMin, ClearMax, NextMin, NextMax, RegularMin, RegularMax} \subseteq Nat \ {0}
  /\ MaxQueues \in Nat /\ MaxQueues >= 2

VARIABLES
  tip,        \* the template upstream would answer now
  news,       \* a new block is yet to be notified (p2p inv, blocknotify)
  found,      \* the blocks our own miners have found so far
  self,       \* the attributes of the merkleMaker object, and networkTarget
  queue,      \* the Queue objects: [items, maxsize]
  thread,     \* each thread's place in the code and its locals
  making,     \* the arguments and locals of _makeOne
  got,        \* the Queue object getMRD waits on
  disturbed   \* history: what has gone on that the code does not guard against

vars == <<tip, news, found, self, queue, thread, making, got, disturbed>>

-----------------------------------------------------------------------------
\* Values

NoBlock == [prev |-> None, height |-> 0, bits |-> None]
NoUpdate == [prev |-> None, height |-> 0, bits |-> None, last |-> 0, ocmr |-> None]
NotMaking == [into |-> None, root |-> None, at |-> 0]
Queues == 1 .. MaxQueues
Deque == 0              \* merkleRoots, where a root may go beside the Queues
LongpollSize == NextMax
MaxClearSize == IF ClearMax > NextMax THEN ClearMax ELSE NextMax

TemplateTree(b) ==
  [clear |-> FALSE, prev |-> b.prev, height |-> b.height, MP |-> TRUE]
WithoutMP(tree) == tree
WithMP(tree) == [tree EXCEPT !.MP = TRUE]

\* createClearMerkleTree: an empty block.  It takes the header fields (MP) from
\* the current tree when there is one, and raises when that tree has no MP.
ClearTree(h) ==
  [clear |-> TRUE, prev |-> None, height |-> h, MP |-> self.currentMerkleTree # None]
CreateRaises == self.currentMerkleTree # None /\ ~self.currentMerkleTree.MP

\* A root: the tree it is the root of and the height in its coinbase.  `old`
\* says that currentMerkleTree has been replaced since.
Root(tree, h) ==
  [clear |-> tree.clear, prev |-> tree.prev, tree |-> tree.height, height |-> h, old |-> FALSE]
Aged(root) == [root EXCEPT !.old = TRUE]
AgedMaking == [making EXCEPT !.root = IF @ = None THEN None ELSE Aged(@)]

\* A Queue object that nothing refers to is the next one allocated; the
\* contents of the others that nothing refers to are forgotten.
InUse == {self.clearMerkleRoots, self.nextMerkleRoots, got, making.into}
            \cup {thread[t].upd.ocmr : t \in Threads}
FreshQueue == CHOOSE q \in Queues : q \notin InUse
NewQueue(size) ==
  /\ \E q \in Queues : q \notin InUse
  /\ queue' = [q \in Queues |-> IF q \in InUse THEN queue[q] ELSE [items |-> <<>>, maxsize |-> size]]

-----------------------------------------------------------------------------
\* History, the worst of: an updateBlock while another thread makes a root or
\* has compared its template with the block but not yet adopted it, an
\* updateBlock that an exception cut short, two of them at once.

UpdatePlaces == {"assign", "replace", "wake", "fresh", "clear", "unready", "ready", "signal", "need"}
Nothing == 0
Race == 1
Cut == 2
Overlap == 3
Worst(a, b) == IF a < b THEN b ELSE a
Disturbance(now) ==
  LET updating == {t \in Threads : now[t].pc \in UpdatePlaces}
      cut == \E t \in Threads :
               thread[t].pc \in {"replace", "fresh", "clear"} /\ now[t].pc = "idle"
      unguarded == \/ now[MM].pc \in {"made", "put"} /\ updating \ {MM} # {}
                   \/ \E t \in Pollers : /\ now[t].pc \in {"adopt", "changed"}
                                          /\ updating \ {t} # {}
  IN IF \E t, u \in updating : t # u THEN Overlap
     ELSE IF cut THEN Cut
     ELSE IF unguarded THEN Race
     ELSE Nothing
SetThreads(now) == thread' = now /\ disturbed' = Worst(disturbed, Disturbance(now))
SetThread(t, frame) == SetThreads([thread EXCEPT ![t] = frame])

-----------------------------------------------------------------------------
\* Control: a call pushes the place to go on at, a return pops it, and an
\* exception unwinds everything, back to the thread's own loop.

At(t, label) == thread[t].pc = label
Goto(t, label) == SetThread(t, [thread[t] EXCEPT !.pc = label])
Call(t, label, return) ==
  SetThread(t, [thread[t] EXCEPT !.pc = label, !.stack = <<return>> \o @])
Return(t) ==
  SetThread(t, [thread[t] EXCEPT !.pc = Head(thread[t].stack), !.stack = Tail(@)])
Start == [pc |-> "idle", stack |-> <<>>, template |-> None, upd |-> NoUpdate]
Unwind(t) == SetThread(t, Start)

-----------------------------------------------------------------------------
\* updateBlock(newBlock, height, bits): height 0 and bits None when omitted.

CallUpdateBlock(t, b, return) ==
  SetThread(t, [thread[t] EXCEPT
    !.pc = "enter", !.stack = <<return>> \o @,
    !.upd = [prev |-> b.prev, height |-> b.height, bits |-> b.bits, last |-> 0, ocmr |-> None]])
EndUpdateBlock(t) ==
  SetThread(t, [thread[t] EXCEPT !.pc = Head(thread[t].stack), !.stack = Tail(@),
                                 !.upd = NoUpdate])

\* The block is already current: nothing to do, unless it was worked on with
\* wrong specs; then onBlockUpdate tells the clients first.
SameBlock(t) ==
  LET new == thread[t].upd
      same == /\ new.height \in {0, self.currentBlock.height}
              /\ new.bits \in {None, self.currentBlock.bits}
  IN /\ At(t, "enter") /\ new.prev = self.currentBlock.prev
     /\ \/ same /\ EndUpdateBlock(t) /\ UNCHANGED self
        \/ /\ ~same
           /\ Call(t, "getMC", "newblock")
           /\ self' = [self EXCEPT !.needMerkle = IF @ = 1 THEN 0 ELSE @]
     /\ UNCHANGED <<tip, news, found, queue, making, got>>

\* What the arguments left out; the bits are unknown after a retarget.
NewBlock(t) ==
  LET new == thread[t].upd
      h == IF new.height = 0 THEN self.currentBlock.height + 1 ELSE new.height
      unknown == h % DifficultyChangeMod = 1 \/ self.currentBlock.bits = None
      b == IF new.bits # None THEN new.bits
           ELSE IF unknown THEN None ELSE self.currentBlock.bits
  IN /\ At(t, "newblock") \/ (At(t, "enter") /\ new.prev # self.currentBlock.prev)
     /\ SetThread(t, [thread[t] EXCEPT
          !.pc = "assign", !.upd.height = h, !.upd.bits = b,
          !.upd.last = self.currentBlock.height])
     /\ UNCHANGED <<tip, news, found, self, queue, making, got>>

Unknown(t) == thread[t].upd.bits = None
Assign(t) ==
  LET new == thread[t].upd
  IN /\ At(t, "assign")
     /\ self' = [self EXCEPT !.currentBlock =
          IF Unknown(t) THEN [prev |-> None, height |-> new.height - 1, bits |-> None]
                        ELSE [prev |-> new.prev, height |-> new.height, bits |-> new.bits]]
     /\ IF Unknown(t) \/ new.last # new.height
          THEN SetThread(t, [thread[t] EXCEPT !.pc = "replace",
                                              !.upd.ocmr = self.clearMerkleRoots])
          ELSE Goto(t, "clear")
     /\ UNCHANGED <<tip, news, found, queue, making, got>>

\* self.clearMerkleRoots becomes the store made ready for this height, or a
\* new one; the old one (OCMR) may have a getMRD waiting on it.
Follows(t) == thread[t].upd.last = thread[t].upd.height - 1
AdoptNext(t) ==
  /\ ~Unknown(t) /\ Follows(t) /\ self.nextMerkleTree # None
  /\ self' = [self EXCEPT !.curClearMerkleTree = self.nextMerkleTree,
                          !.clearMerkleRoots = self.nextMerkleRoots]
  /\ Goto(t, "wake")
  /\ UNCHANGED queue
StartEmpty(t) ==
  /\ Unknown(t) \/ (~Follows(t) /\ ~CreateRaises)
  /\ self' = [self EXCEPT
       !.curClearMerkleTree = IF Unknown(t) THEN @ ELSE ClearTree(thread[t].upd.height),
       !.clearMerkleRoots = FreshQueue]
  /\ NewQueue(ClearMax)
  /\ Goto(t, "wake")
ReplaceRaises(t) ==
  /\ ~Unknown(t)
  /\ IF Follows(t) THEN self.nextMerkleTree = None ELSE CreateRaises
  /\ Unwind(t)
  /\ UNCHANGED <<self, queue>>
Replace(t) ==
  /\ At(t, "replace")
  /\ AdoptNext(t) \/ StartEmpty(t) \/ ReplaceRaises(t)
  /\ UNCHANGED <<tip, news, found, making, got>>

\* if OCMR.empty(): OCMR.put(None)
WokenUnlessEmpty(items) == IF items = <<>> THEN items ELSE Append(items, None)
Woken(items) == IF items = <<>> THEN <<None>> ELSE items
Wake(t) ==
  LET ocmr == thread[t].upd.ocmr
  IN /\ At(t, "wake")
     /\ queue' = [queue EXCEPT ![ocmr].items = Woken(@)]
     /\ SetThread(t, [thread[t] EXCEPT !.pc = IF Unknown(t) THEN "unready" ELSE "fresh",
                                       !.upd.ocmr = None])
     /\ UNCHANGED <<tip, news, found, self, making, got>>

\* No work until a template tells the bits.
UnreadyTooLate(t) ==
  /\ At(t, "unready")
  /\ self' = [self EXCEPT !.merkleRoots = <<>>]
  /\ EndUpdateBlock(t)
  /\ UNCHANGED <<tip, news, found, queue, making, got>>
Unready(t) ==
  /\ At(t, "unready")
  /\ self' = [self EXCEPT !.merkleRoots = <<>>, !.ready = FALSE]
  /\ EndUpdateBlock(t)
  /\ UNCHANGED <<tip, news, found, queue, making, got>>

\* A new store for the height after; building its tree may raise.
Fresh(t) ==
  /\ At(t, "fresh")
  /\ \/ /\ ~CreateRaises
        /\ self' = [self EXCEPT !.nextMerkleTree = ClearTree(thread[t].upd.height + 1),
                                !.nextMerkleRoots = FreshQueue]
        /\ NewQueue(MaxClearSize)
        /\ Goto(t, "clear")
     \/ CreateRaises /\ Unwind(t) /\ UNCHANGED <<self, queue>>
  /\ UNCHANGED <<tip, news, found, making, got>>

\* The template now current replaces the roots of the old one.
KeepRoots(roots) == roots
DropRoots(roots) == <<>>
Clear(t) ==
  /\ At(t, "clear")
  /\ \/ /\ self.curClearMerkleTree # None
        /\ self' = [self EXCEPT !.currentMerkleTree = self.curClearMerkleTree,
                                !.merkleRoots = DropRoots(@)]
        /\ making' = IF self.currentMerkleTree = self.curClearMerkleTree THEN making
                     ELSE AgedMaking
        /\ Goto(t, "ready")
     \/ self.curClearMerkleTree = None /\ Unwind(t) /\ UNCHANGED <<self, making>>
  /\ UNCHANGED <<tip, news, found, queue, got>>

SetReadySilently(t) ==
  /\ At(t, "ready")
  /\ self' = [self EXCEPT !.ready = TRUE]
  /\ Goto(t, "need")
  /\ UNCHANGED <<tip, news, found, queue, making, got>>
SetReady(t) ==
  /\ At(t, "ready")
  /\ self' = [self EXCEPT !.ready = TRUE]
  /\ Goto(t, IF self.ready THEN "need" ELSE "signal")
  /\ UNCHANGED <<tip, news, found, queue, making, got>>

\* readyCV.notify_all() wakes every waiting getMC to look at `ready` again.
Signal(t) ==
  /\ At(t, "signal")
  /\ SetThreads([u \in Threads |->
       IF u = t THEN [thread[u] EXCEPT !.pc = "need"]
       ELSE [thread[u] EXCEPT !.pc = IF @ = "waiting" THEN "getMC" ELSE @]])
  /\ UNCHANGED <<tip, news, found, self, queue, making, got>>

\* currentBlock is a tuple and has no attribute MP: no onBlockChange from here.
Need(t) ==
  /\ At(t, "need")
  /\ self' = [self EXCEPT !.needMerkle = 2]
  /\ EndUpdateBlock(t)
  /\ UNCHANGED <<tip, news, found, queue, making, got>>

UpdateBlock(t) ==
  \/ SameBlock(t) \/ NewBlock(t) \/ Assign(t) \/ Replace(t) \/ Wake(t) \/ Unready(t)
  \/ Fresh(t) \/ Clear(t) \/ SetReady(t) \/ Signal(t) \/ Need(t)

-----------------------------------------------------------------------------
\* _updateMerkleTree: one poll.  Templates come from one source here; which of
\* several sources wins is not modelled.

\* The upstream call has answered, or raised.
Fetch(t) ==
  /\ At(t, "fetch")
  /\ self' = [self EXCEPT !.due = FALSE]
  /\ \/ SetThread(t, [thread[t] EXCEPT !.pc = "process", !.template = tip])
     \/ Unwind(t)
  /\ UNCHANGED <<tip, news, found, queue, making, got>>

\* _ProcessGBT moves to a higher block at once.
Process(t) ==
  /\ At(t, "process")
  /\ IF self.currentBlock.height < thread[t].template.height
       THEN CallUpdateBlock(t, thread[t].template, "verdict")
       ELSE Goto(t, "verdict")
  /\ UNCHANGED <<tip, news, found, self, queue, making, got>>

\* The rest of _ProcessGBT and _CheckTemplate may turn the template down.
Verdict(t) ==
  /\ At(t, "verdict")
  /\ Goto(t, "compare") \/ Unwind(t)
  /\ UNCHANGED <<tip, news, found, self, queue, making, got>>

\* BlockChanged = blkbasics != self.currentBlock
HigherBlock(t) == thread[t].template.height > self.currentBlock.height
BlockChanged(t) == thread[t].template # self.currentBlock
Compare(t) ==
  /\ At(t, "compare")
  /\ IF BlockChanged(t)
       THEN CallUpdateBlock(t, thread[t].template, "changed")
       ELSE Goto(t, "adopt")
  /\ UNCHANGED <<tip, news, found, self, queue, making, got>>

\* The template becomes the current tree and gives its MP to the clear trees;
\* while another thread is still making those the attribute access raises.
Adopt(t) ==
  LET first == ~self.curClearMerkleTree.MP
      exist == self.curClearMerkleTree # None /\ self.nextMerkleTree # None
  IN /\ At(t, "adopt") \/ At(t, "changed")
     /\ self' = [self EXCEPT
          !.currentMerkleTree = TemplateTree(thread[t].template),
          !.merkleRoots = [i \in DOMAIN @ |-> Aged(@[i])],
          !.curClearMerkleTree = IF @ = None THEN None ELSE WithMP(@),
          !.nextMerkleTree = IF exist THEN WithMP(@) ELSE @]
     /\ making' = AgedMaking
     /\ \/ /\ exist
           /\ Goto(t, IF At(t, "changed") \/ first THEN "notify" ELSE "settle")
        \/ ~exist /\ Unwind(t)
     /\ UNCHANGED <<tip, news, found, queue, got>>

\* onBlockChange (eloipool.blockChanged): the target that decides which share
\* is a block, then new clean jobs for everybody, built by getMC.
PrevBlockTarget == self.currentBlock.prev
NewTarget == self.currentBlock.bits
Notify(t) ==
  /\ At(t, "notify")
  /\ self' = [self EXCEPT !.networkTarget = NewTarget]
  /\ Call(t, "getMC", "settle")
  /\ UNCHANGED <<tip, news, found, queue, making, got>>

Settle(t) ==
  /\ At(t, "settle")
  /\ self' = [self EXCEPT !.due = FALSE, !.needMerkle = IF @ = 2 THEN 1 ELSE @]
  /\ Unwind(t)
  /\ UNCHANGED <<tip, news, found, queue, making, got>>

Poll(t) ==
  \/ Fetch(t) \/ Process(t) \/ Verdict(t) \/ Compare(t) \/ Adopt(t)
  \/ Notify(t) \/ Settle(t)

-----------------------------------------------------------------------------
\* merkleMaker_II: what the merkleMaker thread turns to next.

ClearSize == Len(queue[self.clearMerkleRoots].items)
NextSize == Len(queue[self.nextMerkleRoots].items)
RegularSize == Len(self.merkleRoots)
Filled(size, max) == size >= max
RegularIsFull == Filled(RegularSize, RegularMax) /\ ~Head(self.merkleRoots).old

Want ==
  IF ~self.ready THEN "poll"
  ELSE IF ~Filled(ClearSize, ClearMin) THEN "clear"
  ELSE IF ~Filled(NextSize, NextMin) THEN "next"
  ELSE IF ~Filled(RegularSize, RegularMin) THEN "regular"
  ELSE IF self.due THEN "poll"
  ELSE IF ~Filled(ClearSize, ClearMax) THEN "clear"
  ELSE IF ~Filled(NextSize, NextMax) THEN "next"
  ELSE IF ~RegularIsFull THEN "regular"
  ELSE IF self.needMerkle = 1 THEN "fire"
  ELSE "sleep"

LoopPoll ==
  /\ At(MM, "idle") /\ Want = "poll"
  /\ Goto(MM, "fetch")
  /\ UNCHANGED <<tip, news, found, self, queue, making, got>>

\* _makeOne(putf, merkleTree, height): its arguments and MakingAtThisHeight.
Make(into, tree, height) ==
  /\ tree # None
  /\ making' = [into |-> into, root |-> Root(tree, height), at |-> self.currentBlock.height]
LoopMake ==
  /\ At(MM, "idle")
  /\ LET height == self.currentBlock.height
     IN \/ Want = "clear" /\ Make(self.clearMerkleRoots, self.curClearMerkleTree, height)
        \/ Want = "next" /\ Make(self.nextMerkleRoots, self.nextMerkleTree, height + 1)
        \/ Want = "regular" /\ Make(Deque, self.currentMerkleTree, height)
  /\ Goto(MM, "made")
  /\ UNCHANGED <<tip, news, found, self, queue, got>>

\* Only add it if the height hasn't changed in the meantime.
CheckHeight ==
  /\ At(MM, "made")
  /\ \/ /\ self.currentBlock.height = making.at
        /\ Goto(MM, "put") /\ UNCHANGED making
     \/ /\ self.currentBlock.height # making.at
        /\ Goto(MM, "idle") /\ making' = NotMaking
  /\ UNCHANGED <<tip, news, found, self, queue, got>>

\* A full deque drops its oldest root, a full Queue blocks the thread.
PutRegular ==
  /\ making.into = Deque
  /\ self' = [self EXCEPT !.merkleRoots =
                (IF Len(@) < RegularMax THEN @ ELSE Tail(@)) \o <<making.root>>]
  /\ UNCHANGED queue
PutQueue ==
  /\ making.into \in Queues
  /\ Len(queue[making.into].items) < queue[making.into].maxsize
  /\ queue' = [queue EXCEPT ![making.into].items = Append(@, making.root)]
  /\ UNCHANGED self
Put ==
  /\ At(MM, "put")
  /\ PutRegular \/ PutQueue
  /\ making' = NotMaking
  /\ Goto(MM, "idle")
  /\ UNCHANGED <<tip, news, found, got>>

\* Everything is full: onBlockUpdate tells the clients of new transactions.
LoopFire ==
  /\ At(MM, "idle") /\ Want = "fire"
  /\ Call(MM, "getMC", "fired")
  /\ UNCHANGED <<tip, news, found, self, queue, making, got>>
Fired ==
  /\ At(MM, "fired")
  /\ self' = [self EXCEPT !.needMerkle = 0]
  /\ Goto(MM, "idle")
  /\ UNCHANGED <<tip, news, found, queue, making, got>>

MerkleMakerThread ==
  LoopPoll \/ LoopMake \/ CheckHeight \/ Put \/ LoopFire \/ Fired

-----------------------------------------------------------------------------
\* getMC, of a server thread or of whoever runs a callback: wait for `ready`
\* under readyCV, then read the block and a tree.

GetMC(t) ==
  /\ At(t, "getMC")
  /\ Goto(t, IF self.ready THEN "job" ELSE "waiting")
  /\ UNCHANGED <<tip, news, found, self, queue, making, got>>

\* onBlockChange asks for the clear tree, onBlockUpdate for the current one.  A
\* job cannot be built without a previous block, nor from a tree without MP.
JobTrees(t) ==
  IF Head(thread[t].stack) = "settle" THEN {self.curClearMerkleTree}
  ELSE IF Head(thread[t].stack) = "idle" THEN {self.curClearMerkleTree, self.currentMerkleTree}
  ELSE {self.currentMerkleTree}
Job(t) ==
  /\ At(t, "job")
  /\ \E tree \in JobTrees(t) :
       LET usable == self.currentBlock.prev # None /\ tree # None /\ tree.MP
       IN \/ usable /\ Return(t)
          \/ ~usable /\ Unwind(t)
  /\ UNCHANGED <<tip, news, found, self, queue, making, got>>

\* getMRD: the newest regular root, or else clearMerkleRoots.get() until the
\* root is not None.  The root goes out with whatever block is current then.
PopRegular ==
  /\ At(Getwork, "idle") /\ self.merkleRoots # <<>>
  /\ self' = [self EXCEPT !.merkleRoots = SubSeq(@, 1, Len(@) - 1)]
  /\ UNCHANGED <<tip, news, found, queue, thread, making, got, disturbed>>
RunOut ==
  /\ At(Getwork, "idle") /\ self.merkleRoots = <<>>
  /\ got' = self.clearMerkleRoots
  /\ Goto(Getwork, "get")
  /\ UNCHANGED <<tip, news, found, self, queue, making>>
GetClear ==
  /\ At(Getwork, "get") /\ queue[got].items # <<>>
  /\ queue' = [queue EXCEPT ![got].items = Tail(@)]
  /\ \/ /\ Head(queue[got].items) = None
        /\ got' = self.clearMerkleRoots
        /\ UNCHANGED <<thread, disturbed>>
     \/ /\ Head(queue[got].items) # None
        /\ got' = None
        /\ Goto(Getwork, "idle")
  /\ UNCHANGED <<tip, news, found, self, making>>
GetMRD == PopRegular \/ RunOut \/ GetClear

-----------------------------------------------------------------------------
\* Where calls come from, and upstream.

StartGetMC(t) ==
  /\ At(t, "idle")
  /\ Call(t, "getMC", "idle")
  /\ UNCHANGED <<tip, news, found, self, queue, making, got>>

\* checkShare has found a block on the current one: updateBlock(blkhash).
StartShare(t) ==
  /\ At(t, "idle")
  /\ self.currentBlock.prev # None /\ self.networkTarget # None
  /\ \E b \in Templates :
       /\ b.height = self.currentBlock.height + 1 /\ b.prev \notin found
       /\ found' = found \cup {b.prev}
       /\ CallUpdateBlock(t, [prev |-> b.prev, height |-> 0, bits |-> None], "idle")
  /\ UNCHANGED <<tip, news, self, queue, making, got>>

StartPoll(t) ==
  /\ At(t, "idle") /\ news
  /\ news' = FALSE
  /\ Goto(t, "fetch")
  /\ UNCHANGED <<tip, found, self, queue, making, got>>

\* Upstream finds a block, or reorganises to a rival of the same height.
NewTip ==
  /\ \E b \in Templates : b # tip /\ b.height >= tip.height /\ tip' = b
  /\ news' = (Notified # {})
  /\ UNCHANGED <<found, self, queue, thread, making, got, disturbed>>

\* MinimumTxnUpdateWait or TxnUpdateRetryWait is over.
Tick ==
  /\ ~self.due
  /\ self' = [self EXCEPT !.due = TRUE]
  /\ UNCHANGED <<tip, news, found, queue, thread, making, got, disturbed>>

-----------------------------------------------------------------------------
Init ==
  /\ tip \in {b \in Templates : \A c \in Templates : b.height <= c.height}
  /\ news = FALSE /\ found = {}
  /\ self = [due |-> TRUE, currentBlock |-> NoBlock,
             curClearMerkleTree |-> None, nextMerkleTree |-> None,
             currentMerkleTree |-> None, merkleRoots |-> <<>>,
             clearMerkleRoots |-> 1, nextMerkleRoots |-> 2,
             ready |-> FALSE, needMerkle |-> 0, networkTarget |-> None]
  /\ queue = [q \in Queues |-> [items |-> <<>>, maxsize |-> MaxClearSize]]
  /\ thread = [t \in Threads |-> Start]
  /\ making = NotMaking /\ got = None
  /\ disturbed = Nothing

ThreadStep ==
  \/ MerkleMakerThread
  \/ \E t \in Pollers : Poll(t)
  \/ \E t \in Threads : UpdateBlock(t) \/ GetMC(t) \/ Job(t)
  \/ GetMRD
CallStep ==
  \/ \E t \in Takers : StartGetMC(t)
  \/ \E t \in Finders : StartShare(t)
  \/ \E t \in Notified : StartPoll(t)

Next == ThreadStep \/ CallStep \/ NewTip \/ Tick

Spec == Init /\ [][Next]_vars

\* The threads run, time passes, and upstream does not fail for ever: whenever
\* it is asked again and again it answers with a template that is not refused.
MMStep ==
  MerkleMakerThread \/ Poll(MM) \/ UpdateBlock(MM) \/ GetMC(MM) \/ Job(MM)
Fairness ==
  /\ WF_vars(MMStep) /\ WF_vars(Tick) /\ WF_vars(GetClear)
  /\ SF_vars(Fetch(MM) /\ thread'[MM].pc = "process")
  /\ SF_vars(Verdict(MM) /\ thread'[MM].pc = "compare")
FairSpec == Spec /\ Fairness

-----------------------------------------------------------------------------
\* Properties

PollPlaces == {"process", "verdict", "compare", "adopt", "changed"}
JobPlaces == {"getMC", "waiting", "job"}
LoopPlaces == {"idle", "fetch", "notify", "settle", "made", "put", "fired", "get"}
Labels == UpdatePlaces \cup PollPlaces \cup JobPlaces \cup LoopPlaces \cup {"enter", "newblock"}
BlockBits == {b.bits : b \in Templates} \cup {None}
BlockPrevs == {b.prev : b \in Templates} \cup {None}
BlockType == [prev : BlockPrevs, height : Nat, bits : BlockBits]
TreeType == [clear : BOOLEAN, prev : BlockPrevs, height : Nat, MP : BOOLEAN]
ASSUME NoneAssumption == None \notin TreeType
RootType == [clear : BOOLEAN, prev : BlockPrevs, tree : Nat, height : Nat, old : BOOLEAN]
QueueType == [items : Seq(RootType \cup {None}), maxsize : {ClearMax, NextMax}]
UpdateType == [prev : BlockPrevs, height : Nat, bits : BlockBits,
               last : Nat, ocmr : Queues \cup {None}]
SelfType ==
  [due : BOOLEAN, currentBlock : BlockType,
   curClearMerkleTree : TreeType \cup {None}, nextMerkleTree : TreeType \cup {None},
   currentMerkleTree : TreeType \cup {None}, merkleRoots : Seq(RootType),
   clearMerkleRoots : Queues, nextMerkleRoots : Queues,
   ready : BOOLEAN, needMerkle : 0 .. 2, networkTarget : BlockBits]
FrameType ==
  [pc : Labels, stack : Seq(Labels), template : Templates \cup {None}, upd : UpdateType]
MakingType == [into : Queues \cup {None, Deque}, root : RootType \cup {None}, at : Nat]

\* The stack says what the place needs: updateBlock has one caller, getMC is
\* called from a loop, from onBlockChange, or from inside an updateBlock.
Returns(f) == {"idle"} \cup (IF f.template \in Templates THEN {"verdict", "changed"} ELSE {})
FrameOK(f) ==
  /\ f.pc \in LoopPlaces => f.stack = <<>>
  /\ f.pc \in PollPlaces => f.stack = <<>> /\ f.template \in Templates
  /\ f.pc \in UpdatePlaces \cup {"enter", "newblock"} => \E r \in Returns(f) : f.stack = <<r>>
  /\ f.pc \in JobPlaces => \/ f.stack \in {<<"idle">>, <<"settle">>, <<"fired">>}
                           \/ \E r \in Returns(f) : f.stack = <<"newblock", r>>
  /\ f.pc = "assign" => f.upd.height # 0
MakingOK ==
  thread[MM].pc \in {"made", "put"} =>
    making.into \in Queues \cup {Deque} /\ making.root \in RootType

\* Every variable holds what the code can put there: the Queue names always
\* name an object, only real roots reach the deque, and every call returns to
\* a place that can go on.
TypeOK ==
  /\ tip \in Templates /\ news \in BOOLEAN /\ found \subseteq {b.prev : b \in Templates}
  /\ self \in SelfType /\ queue \in [Queues -> QueueType]
  /\ thread \in [Threads -> FrameType] /\ \A t \in Threads : FrameOK(thread[t])
  /\ making \in MakingType /\ MakingOK
  /\ got \in Queues \cup {None}
  /\ disturbed \in {Nothing, Race, Cut, Overlap}

NobodyUpdates == \A t \in Threads : thread[t].pc \notin UpdatePlaces

\* getMRD never waits on a store that updateBlock has given up without waking
\* it: the empty Queue it waits on is the current one, or some updateBlock is
\* still about to put None into it.  (Two overlapping updateBlock calls can
\* drop a Queue neither of them wakes.)
NoLostWakeup ==
  At(Getwork, "get") /\ queue[got].items = <<>> /\ disturbed # Overlap =>
    \/ got = self.clearMerkleRoots
    \/ \E t \in Threads : At(t, "wake") /\ thread[t].upd.ocmr = got

\* A getMC that waits on readyCV while `ready` holds is about to be notified,
\* however the unlocked writes of `ready` interleave.
WaiterIsWoken ==
  \A t \in Threads : At(t, "waiting") /\ self.ready => \E u \in Threads : At(u, "signal")

\* The thread that makes roots never blocks on a full Queue, not even on one
\* that updateBlock has replaced and put None into.
MakerNeverStuck ==
  At(MM, "put") /\ making.into \in Queues =>
    Len(queue[making.into].items) < queue[making.into].maxsize

RegularFits(root) ==
  IF root.clear THEN root.tree = self.currentBlock.height
                ELSE root.prev = self.currentBlock.prev
StoreFits(q, h) ==
  \A i \in DOMAIN queue[q].items :
    queue[q].items[i] # None => queue[q].items[i].tree = h /\ queue[q].items[i].height = h
RegularRootsFit ==
  \A i \in DOMAIN self.merkleRoots :
    /\ RegularFits(self.merkleRoots[i])
    /\ self.merkleRoots[i].height = self.currentBlock.height

\* Between updates every root in store can be worked on as it is: the regular
\* ones are for the current previous block, the clear ones for the current
\* height, the longpoll ones for the height after.
StoresFollowBlock ==
  disturbed = Nothing /\ NobodyUpdates =>
    /\ RegularRootsFit
    /\ self.ready => StoreFits(self.clearMerkleRoots, self.currentBlock.height)
    /\ StoreFits(self.nextMerkleRoots, self.currentBlock.height + 1)

\* While `ready` holds between updates there is a block to work on, and the
\* trees a clean or a longpoll job is built from are for its height and the next.
ReadyMeansWork ==
  disturbed <= Race /\ NobodyUpdates /\ self.ready =>
    /\ self.currentBlock.prev # None /\ self.currentBlock.bits # None
    /\ self.curClearMerkleTree.height = self.currentBlock.height
    /\ self.nextMerkleTree.height = self.currentBlock.height + 1

\* onBlockChange builds the clean jobs from a clear tree that has its MP (the
\* comment on _updateMerkleTree_I: it "must run after"), even if another thread
\* has put other trees there since, in whatever overlap of updates.
CleanJobsHaveMP ==
  \A t \in Threads :
    At(t, "job") /\ Head(thread[t].stack) = "settle" => self.curClearMerkleTree.MP

\* A getMRD that found no root at all gets one in the end.
GetMRDReturns == At(Getwork, "get") ~> At(Getwork, "idle")

\* Once upstream settles on a block, also on a rival of the same height, the
\* pool comes to work on that block, unless the getwork miners take roots
\* without end (the thread polls only once the stores hold their minimum).
FollowsUpstream ==
  \A b \in Templates :
    <>[](tip = b) => <>[](self.currentBlock = b) \/ []<><<GetMRD>>_vars

\* What the comment in updateBlock promises, "If we don't have MP yet, we need
\* to wait until we do": once a new block's template is adopted and the poll is
\* over, onBlockChange has run, so that found blocks are told by its bits.
BlockChangeIsNotified ==
  At(MM, "idle") /\ disturbed = Nothing /\ self.ready /\ ~self.currentMerkleTree.clear
    => self.networkTarget = self.currentBlock.bits

\* What the comment in _makeOne promises, "Only add it if the height hasn't
\* changed in the meantime, to avoid a race": a root about to be added to the
\* regular ones fits the current block, if the current tree does.
HeightCheckAvoidsRace ==
  At(MM, "put") /\ making.into = Deque /\ disturbed <= Race /\ NobodyUpdates
    /\ RegularFits(Root(self.currentMerkleTree, 0))
    => RegularFits(making.root)

\* What the comment in StratumServer.updateJob promises, that the periodic job
\* push always fires: the merkleMaker thread, inside it, never waits for a
\* `ready` that nobody but itself is left to set.
MakerNeverWaitsForItself ==
  At(MM, "waiting") /\ ~self.ready =>
    \E t \in Threads \ {MM} : ~(At(t, "idle") \/ At(t, "get") \/ At(t, "waiting"))

=============================================================================
