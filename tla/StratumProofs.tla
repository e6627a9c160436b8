---------------------------- MODULE StratumProofs ----------------------------
(***************************************************************************)
(* Proofs about Stratum, for any connections, announcing threads, user      *)
(* names and targets: the next update is always coming, and a miner at rest *)
(* works on a known job and is judged by no harder target than it was told. *)
(* And about Schedule: no task is forgotten, and the loop keeps what Timers *)
(* promises.                                                                *)
(***************************************************************************)
EXTENDS MCStratum, SequenceTheorems, TLAPS

-----------------------------------------------------------------------------
\* The inductive invariant of the jobs

SharedJobType == [id : Nat, block : Nat]
Targeted == [id : Nat, target : Targets]
Handler == [state : {"new", "open", "subscribed", "closed"}, users : Seq(Users),
            task : BOOLEAN, targets : Seq(Targeted)]
Sending == {"target", "register", "own", "share"}
PlaceNames == UpdatePlaces \cup Sending \cup {"idle", "next", "forget"}
Place == [pc : PlaceNames, con : Connections \cup {None}, user : Users \cup {None},
          left : SUBSET Connections, after : {"idle", "next"}, quick : SUBSET Users,
          target : Nat, id : Nat, block : Nat, shared : SharedJobType \cup {None}]
Built == [id : Nat, user : Users \cup {None}, block : Nat, target : Nat]

ServerState == [n : Nat, JobId : Nat, JobBytes : SharedJobType,
                WakeRequest : BOOLEAN, UpdateTask : BOOLEAN, rejecting : BOOLEAN,
                pending : SUBSET Users, quick : BOOLEAN]
WorkEntry == [user : Users \cup {None}, id : Nat, block : Nat]

JobsType ==
  /\ block \in Nat /\ faults \in Nat
  /\ workLog \subseteq WorkEntry /\ server \in ServerState
  /\ con \in [Connections -> Handler] /\ mined \in [Connections -> Built]
  /\ thread \in [Threads -> Place]

\* Where a thread may be, and with which of its locals: clients wait in the loop's
\* line only while jobs are sent.
LoopOK(here) ==
  /\ here.pc \in UpdatePlaces \cup Sending \cup {"idle", "next"}
  /\ here.quick # {} => here.pc \in Sending \cup {"next", "count", "name", "enter", "bytes", "publish"}
  /\ here.pc \notin Sending \cup {"next"} /\ here.quick = {} => here.left = {}
  /\ here.after = "idle" => here.left = {} /\ here.quick = {}
  /\ here.pc = "next" => here.after = "next"
  /\ here.pc \in Sending \/ (here.quick # {} /\ here.pc # "next") => here.con \in Connections
  /\ here.pc \in {"register", "own", "share"} => here.target \in Targets /\ here.shared \in SharedJobType
  /\ here.pc \in {"register", "own"} => here.user \in Users
PlaceOK(t, p) ==
  /\ p \in Place
  /\ IF t = Loop THEN LoopOK(p) ELSE p.pc \in UpdatePlaces \cup {"idle", "forget"}
ThreadsArePlaced == \A t \in Threads : PlaceOK(t, thread[t])

\* All clients are going to get new jobs: a thread is on its way to the wake-up, or it
\* has been asked for.  (A thread whose work was forgotten before it read it back
\* asks for none, but then the one that forgot it does.)
WillWake(t) ==
  /\ ~InQuickUpdate(t)
  /\ \/ thread[t].pc \in {"forget", "update", "name", "enter", "publish", "wake"}
     \/ thread[t].pc = "bytes" /\ Entry(None, thread[t].id) # {}
Coming == server.WakeRequest \/ \E t \in Threads : WillWake(t)

\* The loop is about to send this client a job.
InLine(c) ==
  /\ thread[Loop].quick = {}
  /\ c \in thread[Loop].left \/ (thread[Loop].con = c /\ thread[Loop].pc \in Sending)
GetsJob(c) == Coming \/ con[c].task \/ InLine(c)

Current(user, id) == \A w \in Entry(user, id) : w.block = block
Good(user, id) == Entry(user, id) # {} /\ Current(user, id)

\* Without failures, a job that is out of date is on the way out.
JobsAreKnown ==
  /\ At(Loop, "register") => thread[Loop].block = block \/ Coming
  /\ At(Loop, "own") => Good(thread[Loop].user, thread[Loop].id) \/ Coming
  /\ \A c \in Connections : con[c].state = "subscribed" /\ mined[c].user # None =>
       Good(mined[c].user, mined[c].id) \/ GetsJob(c)

\* No id has two targets, and who has no user name was told the easiest target.
IdsOnce(targets) == \A i, j \in 1 .. Len(targets) : targets[i].id = targets[j].id => i = j
HandlerOK(h) ==
  /\ IdsOnce(h.targets)
  /\ h.users = <<>> => \A i \in 1 .. Len(h.targets) : h.targets[i].target = ShareTarget
  /\ h.state = "new" => h.users = <<>>
NoName(h) == h.state = "closed" \/ h.users = <<>>
HasName(h) == h.state = "closed" \/ h.users # <<>>
TargetsAreKept ==
  /\ \A c \in Connections : HandlerOK(con[c])
  /\ At(Loop, "share") => thread[Loop].target = ShareTarget /\ NoName(con[thread[Loop].con])
  /\ At(Loop, "register") \/ At(Loop, "own") => HasName(con[thread[Loop].con])
TargetsAreFair ==
  /\ At(Loop, "register") \/ At(Loop, "own") => thread[Loop].id = server.JobId \/ Coming
  /\ \A c \in Connections : con[c].state = "subscribed" /\ mined[c] # NoJob =>
       JudgedBy(c, mined[c].id) >= mined[c].target \/ GetsJob(c)

JobsInv ==
  /\ JobsType /\ ThreadsArePlaced
  /\ UpdateAlwaysComing /\ TargetsAreKept
  /\ faults = 0 => JobsAreKnown /\ TargetsAreFair

-----------------------------------------------------------------------------
\* What steps have in common

LEMMA LoopIsThread == Loop \in Threads /\ \A t \in Announcers : t \in Threads /\ t # Loop
BY NamesAssumption DEF Threads

\* Whoever waits for a job that is coming needs no more.
LEMMA ComingIsEnough == Coming => JobsAreKnown /\ TargetsAreFair
BY DEF JobsAreKnown, TargetsAreFair, GetsJob

\* The work that a step leaves alone, or enters.
LEMMA WorkStays ==
  ASSUME UNCHANGED <<block, workLog>>
  PROVE  \A u, id : /\ Good(u, id) <=> Good(u, id)'
                    /\ Current(u, id) <=> Current(u, id)'
                    /\ Entry(u, id) = Entry(u, id)'
BY DEF Good, Current, Entry

LEMMA Registering ==
  ASSUME NEW user, NEW id, NEW b, workLog' = Registered(user, id, b), UNCHANGED block
  PROVE  /\ Entry(user, id)' = {[user |-> user, id |-> id, block |-> b]}
         /\ \A u, i : u # user \/ i # id => Entry(u, i)' = Entry(u, i)
         /\ \A u, i : Entry(u, i) # {} => Entry(u, i)' # {}
         /\ \A u, i : (u # user \/ i # id \/ b = block) /\ Good(u, i) => Good(u, i)'
<1>1. Entry(user, id)' = {[user |-> user, id |-> id, block |-> b]}
  BY DEF Registered, Entry
<1>2. \A u, i : u # user \/ i # id => Entry(u, i)' = Entry(u, i)
  BY DEF Registered, Entry
<1>3. \A u, i : (u # user \/ i # id \/ b = block) /\ Current(u, i) => Current(u, i)'
  BY <1>1, <1>2 DEF Current
<1>4. \A u, i : Entry(u, i) # {} => Entry(u, i)' # {}
  BY <1>1, <1>2
<1> QED
  BY <1>1, <1>2, <1>3, <1>4 DEF Good

\* A wake-up that is coming does not get lost by the step of one thread.
LEMMA ComingStays ==
  ASSUME NEW t \in Threads, \A s \in Threads \ {t} : thread'[s] = thread[s],
         server.WakeRequest => server'.WakeRequest,
         \A id : Entry(None, id) # {} => Entry(None, id)' # {},
         WillWake(t) => Coming'
  PROVE  Coming => Coming'
<1>1. ASSUME NEW s \in Threads \ {t}, WillWake(s) PROVE WillWake(s)'
  BY <1>1 DEF WillWake, InQuickUpdate
<1> QED
  BY <1>1 DEF Coming

\* A step of a thread that sends nothing yet.
LEMMA Moved ==
  ASSUME JobsInv, NEW t \in Threads, NEW p, PlaceOK(t, p), thread' = [thread EXCEPT ![t] = p],
         UNCHANGED <<con, mined>>,
         block' \in Nat, faults' \in Nat, workLog' \subseteq WorkEntry, server' \in ServerState,
         UpdateAlwaysComing',
         t = Loop /\ p.pc = "share" => p.target = ShareTarget /\ NoName(con[p.con]),
         t = Loop /\ p.pc \in {"register", "own"} => HasName(con[p.con]),
         faults' = 0 /\ ~Coming' =>
           /\ faults = 0
           /\ \A u \in Users, id \in Nat : Good(u, id) => Good(u, id)'
           /\ t = Loop /\ p.pc = "register" => p.block = block' /\ p.id = server'.JobId
           /\ t = Loop /\ p.pc = "own" => Good(p.user, p.id)' /\ p.id = server'.JobId
           /\ t # Loop => ~Coming /\ server'.JobId = server.JobId /\ block' = block
           /\ t = Loop => \A c \in Connections : con[c].state = "subscribed" /\ GetsJob(c) =>
                            con[c].task \/ InLine(c)'
  PROVE  JobsInv'
<1>1. /\ thread' \in [Threads -> Place] /\ thread'[t] = p
      /\ \A s \in Threads \ {t} : thread'[s] = thread[s]
  BY DEF JobsInv, JobsType, PlaceOK
<1>2. JobsType'
  BY <1>1 DEF JobsInv, JobsType
<1>3. ThreadsArePlaced'
  BY <1>1 DEF JobsInv, ThreadsArePlaced, PlaceOK
<1>4. TargetsAreKept'
  <2>1. \A c \in Connections : HandlerOK(con'[c])
    BY DEF JobsInv, TargetsAreKept
  <2>2. At(Loop, "share")' => thread'[Loop].target = ShareTarget /\ NoName(con'[thread'[Loop].con])
    BY <1>1, LoopIsThread DEF JobsInv, TargetsAreKept, At
  <2>3. At(Loop, "register")' \/ At(Loop, "own")' => HasName(con'[thread'[Loop].con])
    BY <1>1, LoopIsThread DEF JobsInv, TargetsAreKept, At
  <2> QED
    BY <2>1, <2>2, <2>3 DEF TargetsAreKept, HandlerOK, NoName, HasName, IdsOnce
<1>5. ASSUME faults' = 0 PROVE JobsAreKnown' /\ TargetsAreFair'
  <2>1. CASE Coming'
    BY <2>1, ComingIsEnough DEF JobsAreKnown, TargetsAreFair, GetsJob
  <2>2. CASE ~Coming'
    <3>1. /\ JobsAreKnown /\ TargetsAreFair /\ (t # Loop => ~Coming)
          /\ \A u \in Users, id \in Nat : Good(u, id) => Good(u, id)'
      BY <1>5, <2>2 DEF JobsInv
    <3>2. \A c \in Connections : GetsJob(c) /\ con[c].state = "subscribed" => GetsJob(c)'
      <4>1. CASE t = Loop
        BY <1>5, <2>2, <4>1 DEF GetsJob
      <4>2. CASE t # Loop
        BY <1>1, <3>1, <4>2, LoopIsThread DEF GetsJob, InLine
      <4> QED
        BY <4>1, <4>2
    <3>3. /\ At(Loop, "register")' => thread'[Loop].block = block' /\ thread'[Loop].id = server'.JobId
          /\ At(Loop, "own")' => /\ Good(thread[Loop].user, thread[Loop].id)'
                                 /\ thread'[Loop].id = server'.JobId
      <4>1. CASE t = Loop
        BY <1>1, <1>5, <2>2, <4>1 DEF At, Good, Current, Entry
      <4>2. CASE t # Loop
        <5>1. thread'[Loop] = thread[Loop] /\ server'.JobId = server.JobId /\ block' = block
          BY <1>1, <1>5, <2>2, <4>2, LoopIsThread
        <5>2. At(Loop, "own") => thread[Loop].user \in Users /\ thread[Loop].id \in Nat
          BY LoopIsThread DEF JobsInv, JobsType, ThreadsArePlaced, PlaceOK, LoopOK, At, Place
        <5>3. At(Loop, "own")' => Good(thread[Loop].user, thread[Loop].id)'
          <6>1. PICK u, i : u = thread[Loop].user /\ i = thread[Loop].id
            OBVIOUS
          <6>2. At(Loop, "own") => Good(u, i)'
            BY <1>5, <2>2, <3>1, <4>2, <5>2, <6>1 DEF JobsAreKnown
          <6> QED
            BY <5>1, <6>1, <6>2 DEF At, Good, Current, Entry
        <5> QED
          BY <3>1, <4>2, <5>1, <5>3 DEF JobsAreKnown, TargetsAreFair, At
      <4> QED
        BY <4>1, <4>2
    <3>4. \A c \in Connections : con'[c].state = "subscribed" /\ mined'[c].user # None =>
            Good(mined[c].user, mined[c].id)' \/ GetsJob(c)'
      <4>1. TAKE c \in Connections
      <4>2. HAVE con'[c].state = "subscribed" /\ mined'[c].user # None
      <4>3. PICK u \in Users, i \in Nat : u = mined[c].user /\ i = mined[c].id /\ mined'[c].user = u /\ mined'[c].id = i
        BY <4>2 DEF JobsInv, JobsType, Built
      <4>4. Good(u, i) => Good(mined[c].user, mined[c].id)'
        BY <3>1, <4>3 DEF Good, Current, Entry
      <4> QED
        BY <3>1, <3>2, <4>2, <4>3, <4>4 DEF JobsAreKnown
    <3>5. \A c \in Connections : con'[c].state = "subscribed" /\ mined'[c] # NoJob =>
            JudgedBy(c, mined[c].id)' >= mined'[c].target \/ GetsJob(c)'
      BY <3>1, <3>2 DEF TargetsAreFair, JudgedBy, HasTarget, TargetOf, Elements
    <3> QED
      BY <3>3, <3>4, <3>5 DEF JobsAreKnown, TargetsAreFair, Coming
  <2> QED
    BY <2>1, <2>2
<1> QED
  BY <1>2, <1>3, <1>4, <1>5 DEF JobsInv

-----------------------------------------------------------------------------
\* updateJob and updateJobOnly

LEMMA UpdatesStay ==
  ASSUME UpdateAlwaysComing, NEW t \in Threads, \A s \in Threads \ {t} : thread'[s] = thread[s],
         server.UpdateTask => server'.UpdateTask,
         ~InQuickUpdate(t) /\ thread[t].pc \in UpdatePlaces =>
           server'.UpdateTask \/ (~InQuickUpdate(t)' /\ thread'[t].pc \in UpdatePlaces)
  PROVE  UpdateAlwaysComing'
BY DEF UpdateAlwaysComing, InQuickUpdate

\* A step of a thread that makes a job for all.
LEMMA UpdateMoved ==
  ASSUME JobsInv, NEW t \in Threads, thread[t].pc \in UpdatePlaces,
         NEW p, PlaceOK(t, p), thread' = [thread EXCEPT ![t] = p],
         UNCHANGED <<block, con, mined>>, workLog' \subseteq WorkEntry, server' \in ServerState,
         faults' \in Nat, faults' = 0 => faults = 0, UpdateAlwaysComing',
         server.WakeRequest => server'.WakeRequest,
         \A id : Entry(None, id) # {} => Entry(None, id)' # {},
         \A u \in Users, id \in Nat : Good(u, id) => Good(u, id)',
         faults' = 0 /\ WillWake(t) => Coming',
         t = Loop => p.pc \notin {"register", "own", "share"},
         t # Loop /\ faults' = 0 /\ ~Coming' => server'.JobId = server.JobId
  PROVE  JobsInv'
<1>1. /\ thread' \in [Threads -> Place] /\ thread'[t] = p
      /\ \A s \in Threads \ {t} : thread'[s] = thread[s]
  BY DEF JobsInv, JobsType, PlaceOK
<1>2. faults' = 0 => (Coming => Coming')
  BY <1>1, ComingStays
<1>3. t = Loop => \A c \in Connections : ~InLine(c)
  <2>1. t = Loop => LoopOK(thread[t])
    BY DEF JobsInv, ThreadsArePlaced, PlaceOK
  <2> QED
    BY <2>1 DEF LoopOK, InLine, UpdatePlaces, Sending
<1>4. block' \in Nat
  BY DEF JobsInv, JobsType
<1> QED
  BY <1>1, <1>2, <1>3, <1>4, Moved DEF GetsJob

\* A thread goes on to another place.
LEMMA Going ==
  ASSUME JobsInv, NEW t \in Threads, NEW pc \in PlaceNames, Goto(t, pc)
  PROVE  \E p \in Place :
           /\ thread' = [thread EXCEPT ![t] = p] /\ thread'[t] = p
           /\ \A s \in Threads \ {t} : thread'[s] = thread[s]
           /\ p.pc = pc /\ p.con = thread[t].con /\ p.left = thread[t].left
           /\ p.after = thread[t].after /\ p.quick = thread[t].quick
           /\ p.id = thread[t].id /\ p.block = thread[t].block
<1>1. thread[t] \in Place /\ thread \in [Threads -> Place]
  BY DEF JobsInv, JobsType
<1>2. PICK p : p = [thread[t] EXCEPT !.pc = pc]
  OBVIOUS
<1>3. /\ p \in Place /\ p.pc = pc /\ p.con = thread[t].con /\ p.left = thread[t].left
      /\ p.after = thread[t].after /\ p.quick = thread[t].quick
      /\ p.id = thread[t].id /\ p.block = thread[t].block
  BY <1>1, <1>2 DEF Place
<1>4. thread' = [thread EXCEPT ![t] = p]
  BY <1>2 DEF Goto
<1> QED
  BY <1>1, <1>3, <1>4

LEMMA HowPlaced ==
  ASSUME JobsInv, NEW t \in Threads
  PROVE  /\ thread[t] \in Place /\ server \in ServerState /\ workLog \subseteq WorkEntry
         /\ block \in Nat /\ faults \in Nat
         /\ IF t = Loop THEN LoopOK(thread[t]) ELSE thread[t].pc \in UpdatePlaces \cup {"idle", "forget"}
BY DEF JobsInv, JobsType, ThreadsArePlaced, PlaceOK

\* The steps after which a wake-up is coming.
LEMMA StartStep ==
  ASSUME JobsInv,
         \/ \E t \in Announcers : BlockChanged(t) \/ UpdateBlocks(t)
         \/ \E t \in Threads : ForgetWork(t)
         \/ PeriodicUpdate
  PROVE  JobsInv'
<1>1. PICK t \in Threads, pc \in {"forget", "update"} :
        /\ Goto(t, pc)
        /\ thread[t].pc \in {"idle", "forget"}
        /\ \/ t # Loop /\ UNCHANGED server
           \/ t = Loop /\ PeriodicUpdate /\ pc = "update" /\ thread[t].pc = "idle"
        /\ block' \in {block, block + 1} /\ workLog' \in {workLog, {}}
        /\ UNCHANGED <<con, mined, faults>>
  <2>1. Loop \in Threads /\ thread[Loop].pc # "forget"
    BY HowPlaced, LoopIsThread DEF LoopOK, UpdatePlaces, Sending
  <2> QED
    BY <2>1, LoopIsThread DEF BlockChanged, UpdateBlocks, ForgetWork, PeriodicUpdate, At
<1>2. PICK p \in Place :
        /\ thread' = [thread EXCEPT ![t] = p] /\ thread'[t] = p
        /\ \A s \in Threads \ {t} : thread'[s] = thread[s]
        /\ p.pc = pc /\ p.left = thread[t].left
        /\ p.after = thread[t].after /\ p.quick = thread[t].quick
  <2>1. pc \in PlaceNames
    BY <1>1 DEF PlaceNames, UpdatePlaces
  <2> QED
    BY <1>1, <2>1, Going
<1>3. PlaceOK(t, p)
  BY <1>1, <1>2, HowPlaced DEF PlaceOK, LoopOK, UpdatePlaces, Sending
<1>4. ~InQuickUpdate(t)' /\ ~InQuickUpdate(t)
  BY <1>1, <1>2, HowPlaced DEF InQuickUpdate, LoopOK, Sending
<1>5. Coming'
  BY <1>1, <1>2, <1>4 DEF Coming, WillWake
<1>6. server' \in ServerState
  BY <1>1, HowPlaced DEF PeriodicUpdate, ServerState
<1>7. UpdateAlwaysComing'
  <2>1. CASE t = Loop
    BY <1>1, <1>2, <1>4, <2>1 DEF UpdateAlwaysComing, UpdatePlaces
  <2>2. CASE UNCHANGED server
    BY <1>1, <1>2, <2>2, UpdatesStay DEF JobsInv, UpdatePlaces
  <2> QED
    BY <1>1, <2>1, <2>2
<1>8. block' \in Nat /\ faults' \in Nat /\ workLog' \subseteq WorkEntry
  BY <1>1, HowPlaced
<1> QED
  BY <1>1, <1>2, <1>3, <1>5, <1>6, <1>7, <1>8, Moved

\* The steps that change nothing but the server's state, and where the thread is.
LEMMA ServerStep ==
  ASSUME JobsInv, NEW t \in Threads, Count(t) \/ MakeBytes(t) \/ Publish(t)
  PROVE  JobsInv'
<1>1. PICK pc \in {"name", "publish", "wake", "target"} :
        /\ Goto(t, pc)
        /\ \/ Count(t) /\ pc = "name" /\ thread[t].pc \in {"update", "count"}
           \/ MakeBytes(t) /\ pc = "publish" /\ thread[t].pc = "bytes"
           \/ Publish(t) /\ pc = "wake" /\ thread[t].pc = "publish" /\ ~InQuickUpdate(t)
           \/ Publish(t) /\ pc = "target" /\ thread[t].pc = "publish" /\ InQuickUpdate(t)
        /\ UNCHANGED <<block, workLog, con, mined, faults>>
  BY DEF Count, MakeBytes, Publish, At
<1>2. PICK p \in Place :
        /\ thread' = [thread EXCEPT ![t] = p] /\ thread'[t] = p
        /\ \A s \in Threads \ {t} : thread'[s] = thread[s]
        /\ p.pc = pc /\ p.con = thread[t].con /\ p.left = thread[t].left
        /\ p.after = thread[t].after /\ p.quick = thread[t].quick
  <2>1. pc \in PlaceNames
    BY <1>1 DEF PlaceNames, UpdatePlaces, Sending
  <2> QED
    BY <1>1, <2>1, Going
<1>3. thread[t].pc \in UpdatePlaces
  BY <1>1 DEF UpdatePlaces
<1>4. server' \in ServerState
  <2>1. CASE Count(t)
    <3>1. PICK b \in BOOLEAN : b = (server.UpdateTask /\ At(t, "count"))
      OBVIOUS
    <3>2. PICK n \in Nat : n = server.n + 1
      BY HowPlaced DEF ServerState
    <3>3. server' = [server EXCEPT !.n = n, !.UpdateTask = b]
      BY <2>1, <3>1, <3>2 DEF Count
    <3> QED
      BY <3>3, HowPlaced DEF ServerState
  <2>2. CASE MakeBytes(t)
    <3>1. PICK job \in SharedJobType : job = [id |-> thread[t].id, block |-> thread[t].block]
      BY HowPlaced DEF Place, SharedJobType
    <3>2. server' = [server EXCEPT !.JobBytes = job]
      BY <2>2, <3>1 DEF MakeBytes
    <3> QED
      BY <3>2, HowPlaced DEF ServerState
  <2>3. CASE Publish(t)
    <3>1. PICK id \in Nat : id = thread[t].id
      BY HowPlaced DEF Place
    <3>2. server' = [server EXCEPT !.rejecting = FALSE, !.JobId = id]
      BY <2>3, <3>1 DEF Publish
    <3> QED
      BY <3>2, HowPlaced DEF ServerState
  <2> QED
    BY <1>1, <2>1, <2>2, <2>3
<1>5. /\ server'.WakeRequest = server.WakeRequest
      /\ Count(t) \/ server'.UpdateTask = server.UpdateTask
      /\ Publish(t) \/ server'.JobId = server.JobId
  BY <1>1, HowPlaced DEF Count, MakeBytes, Publish, ServerState
<1>6. thread[t].con \in Connections \/ pc # "target"
  <2>1. pc = "target" => t = Loop /\ thread[t].quick # {}
    BY <1>1 DEF InQuickUpdate, Count, MakeBytes, Publish, At
  <2> QED
    BY <1>1, <2>1, HowPlaced DEF LoopOK
<1>7. PlaceOK(t, p)
  BY <1>1, <1>2, <1>6, HowPlaced DEF PlaceOK, LoopOK, UpdatePlaces, Sending, InQuickUpdate
<1>8. InQuickUpdate(t)' <=> InQuickUpdate(t)
  BY <1>2 DEF InQuickUpdate
<1>9. WillWake(t) => Coming'
  BY <1>1, <1>2, <1>8 DEF WillWake, Coming
<1>10. UpdateAlwaysComing'
  <2>1. CASE Count(t)
    <3>1. CASE thread[t].pc = "update"
      <4>1. ~InQuickUpdate(t)
        BY <3>1, HowPlaced DEF InQuickUpdate, LoopOK, Sending
      <4> QED
        BY <1>1, <1>2, <1>8, <2>1, <3>1, <4>1 DEF UpdateAlwaysComing, UpdatePlaces, Count, MakeBytes, Publish, At
    <3>2. CASE thread[t].pc = "count"
      <4>1. server'.UpdateTask = server.UpdateTask
        BY <2>1, <3>2, HowPlaced DEF Count, At, ServerState
      <4> QED
        BY <1>1, <1>2, <1>8, <2>1, <3>2, <4>1, UpdatesStay DEF JobsInv, UpdatePlaces, Count, MakeBytes, Publish, At
    <3> QED
      BY <2>1, <3>1, <3>2 DEF Count, At
  <2>2. CASE ~Count(t)
    BY <1>1, <1>2, <1>5, <1>8, <2>2, UpdatesStay DEF JobsInv, UpdatePlaces
  <2> QED
    BY <2>1, <2>2
<1>11. t # Loop /\ ~Coming' => server'.JobId = server.JobId
  <2>1. t # Loop /\ Publish(t) => WillWake(t)
    BY DEF Publish, WillWake, InQuickUpdate, At
  <2> QED
    BY <1>5, <1>9, <2>1
<1>12. /\ \A id : Entry(None, id) # {} => Entry(None, id)' # {}
       /\ \A u \in Users, id \in Nat : Good(u, id) => Good(u, id)'
  BY <1>1, WorkStays
<1> QED
  BY <1>1, <1>2, <1>3, <1>4, <1>5, <1>7, <1>9, <1>10, <1>11, <1>12, HowPlaced, UpdateMoved

LEMMA NameStep == ASSUME JobsInv, NEW t \in Threads, Name(t) PROVE JobsInv'
<1>1. /\ thread[t].pc = "name" /\ UNCHANGED <<block, workLog, server, con, mined, faults>>
      /\ server.n \in Nat /\ thread \in [Threads -> Place]
  BY HowPlaced DEF Name, At, ServerState, JobsInv, JobsType
<1>2. PICK p : p = [thread[t] EXCEPT !.pc = "enter", !.id = server.n, !.block = block]
  OBVIOUS
<1>3. p \in Place /\ p.pc = "enter" /\ p.left = thread[t].left /\ p.after = thread[t].after /\ p.con = thread[t].con
      /\ p.quick = thread[t].quick
  BY <1>1, <1>2, HowPlaced DEF Place, PlaceNames, UpdatePlaces
<1>4. thread' = [thread EXCEPT ![t] = p]
  BY <1>2 DEF Name
<1>5. thread'[t] = p /\ \A s \in Threads \ {t} : thread'[s] = thread[s]
  BY <1>1, <1>4
<1>6. PlaceOK(t, p)
  BY <1>1, <1>3, HowPlaced DEF PlaceOK, LoopOK, UpdatePlaces, Sending
<1>7. InQuickUpdate(t)' <=> InQuickUpdate(t)
  BY <1>3, <1>5 DEF InQuickUpdate
<1>8. WillWake(t) => Coming'
  BY <1>3, <1>5, <1>7 DEF WillWake, Coming
<1>9. UpdateAlwaysComing'
  BY <1>1, <1>3, <1>5, <1>7, UpdatesStay DEF JobsInv, UpdatePlaces
<1>10. /\ \A id : Entry(None, id) # {} => Entry(None, id)' # {}
       /\ \A u \in Users, id \in Nat : Good(u, id) => Good(u, id)'
  BY <1>1, WorkStays
<1> QED
  BY <1>1, <1>3, <1>4, <1>6, <1>8, <1>9, <1>10, HowPlaced, UpdateMoved DEF UpdatePlaces

LEMMA EnterStep == ASSUME JobsInv, NEW t \in Threads, EnterShared(t) PROVE JobsInv'
<1>1. /\ thread[t].pc = "enter" /\ Goto(t, "bytes")
      /\ UNCHANGED <<block, server, con, mined, faults>>
  BY DEF EnterShared, At
<1>2. PICK id \in Nat, b \in Nat : id = thread[t].id /\ b = thread[t].block
  BY HowPlaced DEF Place
<1>3. workLog' = Registered(None, id, b)
  BY <1>2 DEF EnterShared
<1>4. PICK p \in Place :
        /\ thread' = [thread EXCEPT ![t] = p] /\ thread'[t] = p
        /\ \A s \in Threads \ {t} : thread'[s] = thread[s]
        /\ p.pc = "bytes" /\ p.con = thread[t].con /\ p.left = thread[t].left
        /\ p.after = thread[t].after /\ p.quick = thread[t].quick /\ p.id = id
  <2>1. "bytes" \in PlaceNames
    BY DEF PlaceNames, UpdatePlaces
  <2> QED
    BY <1>1, <1>2, <2>1, Going
<1>5. PlaceOK(t, p)
  BY <1>1, <1>4, HowPlaced DEF PlaceOK, LoopOK, UpdatePlaces, Sending
<1>6. InQuickUpdate(t)' <=> InQuickUpdate(t)
  BY <1>4 DEF InQuickUpdate
<1>7. /\ Entry(None, id)' # {}
      /\ \A i : Entry(None, i) # {} => Entry(None, i)' # {}
      /\ \A u \in Users, i \in Nat : Good(u, i) => Good(u, i)'
  <2>1. \A u \in Users : u # None
    BY NamesAssumption
  <2>2. UNCHANGED block
    BY <1>1
  <2>3. Entry(None, id)' = {[user |-> None, id |-> id, block |-> b]}
    BY <1>3, <2>2, Registering
  <2>4. \A i : Entry(None, i) # {} => Entry(None, i)' # {}
    BY <1>3, <2>2, Registering
  <2>5. \A u \in Users, i \in Nat : Good(u, i) => Good(u, i)'
    BY <1>3, <2>1, <2>2, Registering
  <2> QED
    BY <2>3, <2>4, <2>5
<1>8. WillWake(t) => Coming'
  <2>1. Entry(None, thread[t].id)' # {}
    BY <1>4, <1>7 DEF Entry
  <2> QED
    BY <1>4, <1>6, <2>1 DEF WillWake, Coming
<1>9. UpdateAlwaysComing'
  BY <1>1, <1>4, <1>6, UpdatesStay DEF JobsInv, UpdatePlaces
<1>10. workLog' \subseteq WorkEntry
  BY <1>3, HowPlaced DEF Registered, WorkEntry
<1> QED
  BY <1>1, <1>4, <1>5, <1>7, <1>8, <1>9, <1>10, HowPlaced, UpdateMoved DEF UpdatePlaces

LEMMA IdleIsPlace ==
  ASSUME NEW pc \in PlaceNames
  PROVE  \E p \in Place : /\ p = [Idle EXCEPT !.pc = pc] /\ p.pc = pc
                          /\ p.left = {} /\ p.quick = {} /\ p.after = "idle" /\ p.con = None
<1>1. PICK p : p = [Idle EXCEPT !.pc = pc]
  OBVIOUS
<1>2. p = [pc |-> pc, con |-> None, user |-> None, left |-> {}, after |-> "idle", quick |-> {},
           target |-> 0, id |-> 0, block |-> 0, shared |-> None]
  BY <1>1 DEF Idle
<1>3. p \in Place
  BY <1>2 DEF Place
<1>4. p.pc = pc /\ p.left = {} /\ p.quick = {} /\ p.after = "idle" /\ p.con = None
  BY <1>2
<1> QED
  BY <1>1, <1>3, <1>4

LEMMA IdleFields ==
  /\ Idle \in Place /\ Idle.pc = "idle" /\ Idle.left = {} /\ Idle.quick = {}
  /\ Idle.after = "idle" /\ Idle.con = None
<1>1. PICK p : p = Idle
  OBVIOUS
<1>2. p = [pc |-> "idle", con |-> None, user |-> None, left |-> {}, after |-> "idle", quick |-> {},
           target |-> 0, id |-> 0, block |-> 0, shared |-> None]
  BY <1>1 DEF Idle
<1>3. p \in Place
  BY <1>2 DEF Place, PlaceNames
<1> QED
  BY <1>1, <1>2, <1>3

\* The job could not be built: its work is gone, or something failed.
LEMMA NoBytesStep == ASSUME JobsInv, NEW t \in Threads, NoBytes(t) PROVE JobsInv'
<1>1. /\ thread[t].pc = "bytes" /\ UNCHANGED <<block, workLog, server, con, mined>> /\ Raise(t)
      /\ (Entry(None, thread[t].id) = {} /\ faults' = faults) \/ faults' = faults + 1
  BY DEF NoBytes, At, Fail
<1>2. PICK p \in Place :
        /\ thread' = [thread EXCEPT ![t] = p]
        /\ p.pc = IF InQuickUpdate(t) THEN "idle" ELSE "finally"
        /\ p.left = {} /\ p.quick = {} /\ p.after = "idle"
  <2>1. CASE InQuickUpdate(t)
    <3>1. thread' = [thread EXCEPT ![t] = Idle]
      BY <1>1, <2>1 DEF Raise
    <3> QED
      BY <2>1, <3>1, IdleFields
  <2>2. CASE ~InQuickUpdate(t)
    <3>1. thread' = [thread EXCEPT ![t] = [Idle EXCEPT !.pc = "finally"]]
      BY <1>1, <2>2 DEF Raise
    <3>2. "finally" \in PlaceNames
      BY DEF PlaceNames, UpdatePlaces
    <3>3. PICK p \in Place : /\ p = [Idle EXCEPT !.pc = "finally"] /\ p.pc = "finally"
                             /\ p.left = {} /\ p.quick = {} /\ p.after = "idle"
      BY <3>2, IdleIsPlace
    <3> QED
      BY <2>2, <3>1, <3>3
  <2> QED
    BY <2>1, <2>2
<1>3. thread'[t] = p /\ \A s \in Threads \ {t} : thread'[s] = thread[s]
  BY <1>2 DEF JobsInv, JobsType
<1>4. PlaceOK(t, p)
  BY <1>2 DEF PlaceOK, LoopOK, UpdatePlaces, Sending
<1>5. UpdateAlwaysComing'
  <2>1. ~InQuickUpdate(t) => ~InQuickUpdate(t)' /\ thread'[t].pc \in UpdatePlaces
    BY <1>2, <1>3 DEF InQuickUpdate, UpdatePlaces
  <2> QED
    BY <1>1, <1>3, <2>1, UpdatesStay DEF JobsInv
<1>6. faults' \in Nat /\ (faults' = 0 => faults = 0)
  BY <1>1, HowPlaced
<1>7. faults' = 0 => ~WillWake(t)
  BY <1>1, HowPlaced DEF WillWake
<1>8. /\ \A id : Entry(None, id) # {} => Entry(None, id)' # {}
      /\ \A u \in Users, id \in Nat : Good(u, id) => Good(u, id)'
  BY <1>1, WorkStays
<1>9. p.pc \in {"idle", "finally"}
  BY <1>2
<1> QED
  BY <1>1, <1>2, <1>4, <1>5, <1>6, <1>7, <1>8, <1>9, HowPlaced, UpdateMoved DEF UpdatePlaces

LEMMA ClosedFields ==
  /\ Closed \in Handler /\ Closed.state = "closed" /\ Closed.users = <<>> /\ Closed.targets = <<>>
  /\ IdsOnce(Closed.targets) /\ Len(Closed.targets) = 0
<1>1. <<>> \in Seq(Users) /\ <<>> \in Seq(Targeted) /\ Len(<<>>) = 0
  OBVIOUS
<1>2. PICK fresh : fresh = [state |-> "new", users |-> <<>>, task |-> FALSE, targets |-> <<>>]
  OBVIOUS
<1>3. fresh = New /\ fresh.targets = <<>> /\ fresh.users = <<>> /\ fresh \in Handler
  BY <1>1, <1>2 DEF New, Handler
<1>4. PICK gone : gone = [fresh EXCEPT !.state = "closed"]
  OBVIOUS
<1>5. gone = Closed
  BY <1>3, <1>4 DEF Closed
<1>6. gone \in Handler /\ gone.state = "closed" /\ gone.targets = <<>> /\ gone.users = <<>>
  BY <1>3, <1>4 DEF Handler
<1> QED
  BY <1>1, <1>5, <1>6 DEF IdsOnce

\* All clients are sent away: that counts as a failure.
LEMMA TooBigStep == ASSUME JobsInv, NEW t \in Threads, TooBig(t) PROVE JobsInv'
<1>1. /\ thread[t].pc = "bytes" /\ UNCHANGED <<block, workLog>> /\ faults' = faults + 1
      /\ server' = [server EXCEPT !.rejecting = TRUE, !.UpdateTask = TRUE]
      /\ con' = [c \in Connections |-> IF con[c].state = "new" THEN New ELSE Closed]
      /\ mined' = [c \in Connections |-> NoJob]
  BY DEF TooBig, At, Fail
<1>2. PICK p \in Place :
        /\ thread' = [thread EXCEPT ![t] = p] /\ p.pc \in {"idle", "wake"}
        /\ p.left = {} \/ t # Loop
        /\ p.quick = {} \/ t # Loop
  <2>1. CASE InQuickUpdate(t)
    BY <2>1, IdleFields DEF TooBig
  <2>2. CASE ~InQuickUpdate(t)
    <3>1. Goto(t, "wake") /\ "wake" \in PlaceNames
      BY <2>2 DEF TooBig, PlaceNames, UpdatePlaces
    <3>2. PICK p \in Place : /\ thread' = [thread EXCEPT ![t] = p] /\ p.pc = "wake"
                             /\ p.left = thread[t].left /\ p.quick = thread[t].quick
      BY <3>1, Going
    <3>3. t = Loop => thread[t].quick = {} /\ thread[t].left = {}
      BY <1>1, <2>2, HowPlaced DEF InQuickUpdate, LoopOK, Sending
    <3> QED
      BY <3>2, <3>3
  <2> QED
    BY <2>1, <2>2
<1>3. PlaceOK(t, p)
  BY <1>2 DEF PlaceOK, LoopOK, UpdatePlaces, Sending
<1>4. /\ thread' \in [Threads -> Place] /\ thread'[t] = p
      /\ \A s \in Threads \ {t} : thread'[s] = thread[s]
  BY <1>2 DEF JobsInv, JobsType
<1>5. PICK fresh \in Handler, gone \in Handler :
        /\ fresh = New /\ gone = Closed
        /\ fresh.targets = <<>> /\ gone.targets = <<>>
  <2>1. <<>> \in Seq(Users) /\ <<>> \in Seq(Targeted)
    OBVIOUS
  <2>2. PICK fresh : fresh = [state |-> "new", users |-> <<>>, task |-> FALSE, targets |-> <<>>]
    OBVIOUS
  <2>3. fresh = New /\ fresh.targets = <<>> /\ fresh \in Handler
    BY <2>1, <2>2 DEF New, Handler
  <2>4. PICK gone : gone = [fresh EXCEPT !.state = "closed"]
    OBVIOUS
  <2>5. gone = Closed
    BY <2>3, <2>4 DEF Closed
  <2>6. gone \in Handler /\ gone.targets = <<>>
    BY <2>3, <2>4 DEF Handler
  <2> QED
    BY <2>3, <2>5, <2>6
<1>6. con' \in [Connections -> Handler] /\ \A c \in Connections : con'[c] = fresh \/ con'[c] = gone
  BY <1>1, <1>5
<1>7. NoJob \in Built
  BY DEF NoJob, Built
<1>8. server' \in ServerState /\ server'.UpdateTask
  BY <1>1, HowPlaced DEF ServerState
<1>9. JobsType'
  BY <1>1, <1>4, <1>6, <1>7, <1>8, HowPlaced DEF JobsType
<1>10. ThreadsArePlaced'
  BY <1>3, <1>4 DEF JobsInv, ThreadsArePlaced, PlaceOK
<1>11. ASSUME NEW c \in Connections
       PROVE  /\ con'[c].targets = <<>> /\ NoName(con'[c])
              /\ HasName(con[c]) => HasName(con'[c])
              /\ con'[c].state = "new" => con'[c].users = <<>>
  <2>1. /\ fresh.users = <<>> /\ gone.state = "closed" /\ gone.users = <<>>
        /\ con'[c] = IF con[c].state = "new" THEN fresh ELSE gone
    BY <1>1, <1>5, ClosedFields DEF New
  <2>2. con[c].state = "new" => ~HasName(con[c])
    BY DEF JobsInv, TargetsAreKept, HandlerOK, HasName
  <2> QED
    BY <1>5, <2>1, <2>2 DEF HasName, NoName
<1>12. TargetsAreKept'
  <2>1. Len(<<>>) = 0
    OBVIOUS
  <2>2. \A c \in Connections : IdsOnce(con'[c].targets) /\ Len(con'[c].targets) = 0
    BY <1>11, <2>1 DEF IdsOnce
  <2>3. \A c \in Connections : HandlerOK(con'[c])
    BY <1>11, <2>2 DEF HandlerOK
  <2>4. At(Loop, "share")' \/ At(Loop, "register")' \/ At(Loop, "own")' =>
          thread'[Loop] = thread[Loop] /\ thread[Loop].con \in Connections
    BY <1>2, <1>4, LoopIsThread, HowPlaced DEF At, LoopOK, Sending
  <2>5. At(Loop, "share")' => thread'[Loop].target = ShareTarget /\ NoName(con'[thread'[Loop].con])
    BY <1>11, <2>4 DEF JobsInv, TargetsAreKept, At
  <2>6. At(Loop, "register")' \/ At(Loop, "own")' => HasName(con'[thread'[Loop].con])
    BY <1>11, <2>4 DEF JobsInv, TargetsAreKept, At
  <2> QED
    BY <2>3, <2>5, <2>6 DEF TargetsAreKept, HandlerOK, NoName, HasName, IdsOnce
<1>13. faults' # 0
  BY <1>1, HowPlaced
<1> QED
  BY <1>8, <1>9, <1>10, <1>12, <1>13 DEF JobsInv, UpdateAlwaysComing

LEMMA WakeStep == ASSUME JobsInv, NEW t \in Threads, Wake(t) PROVE JobsInv'
<1>1. /\ thread[t].pc \in {"wake", "finally"} /\ UNCHANGED <<block, workLog, con, mined, faults>>
      /\ thread' = [thread EXCEPT ![t] = Idle]
  BY DEF Wake, At
<1>2. PICK w \in BOOLEAN : w = (server.WakeRequest \/ At(t, "wake"))
  OBVIOUS
<1>3. server' = [server EXCEPT !.UpdateTask = TRUE, !.WakeRequest = w]
  BY <1>2 DEF Wake
<1>4. /\ server' \in ServerState /\ server'.UpdateTask /\ server'.JobId = server.JobId
      /\ server'.WakeRequest = w
  BY <1>3, HowPlaced DEF ServerState
<1>5. PlaceOK(t, Idle)
  BY IdleFields DEF PlaceOK, LoopOK, Sending
<1>6. WillWake(t) => Coming'
  BY <1>1, <1>2, <1>4 DEF WillWake, Coming, At
<1>7. /\ \A id : Entry(None, id) # {} => Entry(None, id)' # {}
      /\ \A u \in Users, id \in Nat : Good(u, id) => Good(u, id)'
  BY <1>1, WorkStays
<1> QED
  BY <1>1, <1>2, <1>4, <1>5, <1>6, <1>7, HowPlaced, IdleFields, UpdateMoved DEF UpdatePlaces, UpdateAlwaysComing

-----------------------------------------------------------------------------
\* Connections, and the jobs they are sent

\* What a client's shares for its job are judged by is not harder than the job's target.
FairFor(targets, j) ==
  /\ j.target <= ShareTarget
  /\ \A i \in 1 .. Len(targets) : targets[i].id = j.id => targets[i].target >= j.target
LEMMA JudgedFairly ==
  ASSUME NEW targets \in Seq(Targeted), NEW j, FairFor(targets, j)
  PROVE  (\E e \in Elements(targets) : e.id = j.id) =>
            (CHOOSE e \in Elements(targets) : e.id = j.id).target >= j.target
<1>1. Elements(targets) = {targets[i] : i \in 1 .. Len(targets)}
  BY DEF Elements
<1>2. \A e \in Elements(targets) : e.id = j.id => e.target >= j.target
  BY <1>1 DEF FairFor
<1> QED
  BY <1>2

\* A step that concerns one client, and the place of the loop.
LEMMA Served ==
  ASSUME JobsInv, NEW c \in Connections, NEW h \in Handler, NEW j \in Built,
         NEW p, PlaceOK(Loop, p), con' = [con EXCEPT ![c] = h], mined' = [mined EXCEPT ![c] = j],
         thread' = [thread EXCEPT ![Loop] = p],
         UNCHANGED <<block, workLog, server>>, faults' \in Nat,
         thread[Loop].pc \notin UpdatePlaces, p.pc \in {"idle", "next", "target"},
         HandlerOK(h),
         faults' = 0 =>
           /\ faults = 0
           /\ \A d \in Connections \ {c} : InLine(d) => InLine(d)'
           /\ h.state = "subscribed" =>
                \/ h.task \/ InLine(c)'
                \/ Coming
                \/ (j.user # None => Good(j.user, j.id)) /\ FairFor(h.targets, j)
  PROVE  JobsInv'
<1>1. /\ thread' \in [Threads -> Place] /\ thread'[Loop] = p
      /\ \A s \in Threads \ {Loop} : thread'[s] = thread[s]
  BY LoopIsThread DEF JobsInv, JobsType, PlaceOK
<1>2. /\ con' \in [Connections -> Handler] /\ con'[c] = h /\ \A d \in Connections \ {c} : con'[d] = con[d]
      /\ mined' \in [Connections -> Built] /\ mined'[c] = j
      /\ \A d \in Connections \ {c} : mined'[d] = mined[d]
  BY DEF JobsInv, JobsType
<1>3. JobsType'
  BY <1>1, <1>2 DEF JobsInv, JobsType
<1>4. ThreadsArePlaced'
  BY <1>1 DEF JobsInv, ThreadsArePlaced, PlaceOK
<1>5. UpdateAlwaysComing'
  BY <1>1, LoopIsThread, UpdatesStay DEF JobsInv
<1>6. ~At(Loop, "share")' /\ ~At(Loop, "register")' /\ ~At(Loop, "own")'
  BY <1>1 DEF At
<1>7. TargetsAreKept'
  BY <1>2, <1>6 DEF JobsInv, TargetsAreKept, HandlerOK, IdsOnce
<1>8. Coming => Coming'
  <2>1. \A id : Entry(None, id)' = Entry(None, id)
    BY WorkStays
  <2>2. ~WillWake(Loop)
    BY HowPlaced, LoopIsThread DEF WillWake, UpdatePlaces, LoopOK, Sending
  <2> QED
    BY <1>1, <2>1, <2>2, LoopIsThread, ComingStays
<1>9. ASSUME faults' = 0 PROVE JobsAreKnown' /\ TargetsAreFair'
  <2>1. CASE Coming'
    BY <2>1, ComingIsEnough DEF JobsAreKnown, TargetsAreFair, GetsJob
  <2>2. CASE ~Coming'
    <3>1. JobsAreKnown /\ TargetsAreFair /\ ~Coming
      BY <1>8, <1>9, <2>2 DEF JobsInv
    <3>2. \A d \in Connections \ {c} : con'[d].state = "subscribed" =>
            \/ GetsJob(d)'
            \/ /\ mined'[d].user # None => Good(mined[d].user, mined[d].id)'
               /\ mined'[d] # NoJob => JudgedBy(d, mined[d].id)' >= mined'[d].target
      <4>1. TAKE d \in Connections \ {c}
      <4>2. HAVE con'[d].state = "subscribed"
      <4>3. GetsJob(d) => GetsJob(d)'
        BY <1>2, <1>9, <3>1 DEF GetsJob
      <4>4. Good(mined[d].user, mined[d].id) => Good(mined[d].user, mined[d].id)'
        BY <1>2 DEF Good, Current, Entry
      <4>5. JudgedBy(d, mined[d].id) >= mined[d].target => JudgedBy(d, mined[d].id)' >= mined'[d].target
        BY <1>2 DEF JudgedBy, HasTarget, TargetOf, Elements
      <4> QED
        BY <1>2, <3>1, <4>2, <4>3, <4>4, <4>5 DEF JobsAreKnown, TargetsAreFair
    <3>3. h.state = "subscribed" =>
            \/ GetsJob(c)'
            \/ /\ mined'[c].user # None => Good(mined[c].user, mined[c].id)'
               /\ mined'[c] # NoJob => JudgedBy(c, mined[c].id)' >= mined'[c].target
      <4>1. CASE h.task \/ InLine(c)'
        BY <1>2, <4>1 DEF GetsJob
      <4>2. CASE (j.user # None => Good(j.user, j.id)) /\ FairFor(h.targets, j)
        <5>1. mined'[c].user # None => Good(mined[c].user, mined[c].id)'
          BY <1>2, <4>2 DEF Good, Current, Entry
        <5>2. PICK targets \in Seq(Targeted) : targets = con'[c].targets /\ FairFor(targets, j)
          BY <1>2, <4>2 DEF Handler
        <5>3. /\ (\E e \in Elements(targets) : e.id = j.id) =>
                   (CHOOSE e \in Elements(targets) : e.id = j.id).target >= j.target
              /\ ShareTarget >= j.target
          BY <5>2, JudgedFairly, TargetsAssumption DEF FairFor, Built
        <5>4. JudgedBy(c, mined[c].id)' >= mined'[c].target
          BY <1>2, <5>2, <5>3 DEF JudgedBy, HasTarget, TargetOf
        <5> QED
          BY <5>1, <5>4
      <4> QED
        BY <1>9, <3>1, <4>1, <4>2
    <3> QED
      BY <1>2, <1>6, <3>2, <3>3 DEF JobsAreKnown, TargetsAreFair
  <2> QED
    BY <2>1, <2>2
<1> QED
  BY <1>3, <1>4, <1>5, <1>7, <1>9 DEF JobsInv

\* What miners do: the event loop handles it between its turns.
LEMMA MinerStep == ASSUME JobsInv, Miner PROVE JobsInv'
<1>1. thread[Loop].pc = "idle" /\ UNCHANGED <<block, workLog, thread, faults>>
  BY DEF Miner, Connect, Subscribe, Authorize, Disconnect, Submit, At
<1>2. /\ PlaceOK(Loop, thread[Loop]) /\ thread' = [thread EXCEPT ![Loop] = thread[Loop]]
      /\ con \in [Connections -> Handler] /\ mined \in [Connections -> Built] /\ faults \in Nat
      /\ \A d \in Connections : ~InLine(d)
  <2>1. thread[Loop].quick = {} => thread[Loop].left = {}
    BY <1>1, HowPlaced, LoopIsThread DEF LoopOK, Sending
  <2> QED
    BY <1>1, <2>1, LoopIsThread DEF JobsInv, JobsType, ThreadsArePlaced, InLine, Sending
<1>3. ASSUME NEW c \in Connections, NEW h \in Handler, NEW j \in Built,
             con' = [con EXCEPT ![c] = h], mined' = [mined EXCEPT ![c] = j], UNCHANGED server,
             h.state # "subscribed" \/ h.task, HandlerOK(h)
      PROVE  JobsInv'
  BY <1>1, <1>2, <1>3, Served DEF UpdatePlaces
<1>4. ASSUME NEW c \in Connections
      PROVE  /\ con[c] \in Handler /\ mined[c] \in Built /\ HandlerOK(con[c])
             /\ UNCHANGED mined => mined' = [mined EXCEPT ![c] = mined[c]]
  BY <1>2 DEF JobsInv, TargetsAreKept
<1>5. ASSUME NEW c \in Connections, Connect(c) PROVE JobsInv'
  <2>1. PICK h : h = [con[c] EXCEPT !.state = "open"]
    OBVIOUS
  <2>2. /\ h \in Handler /\ h.state = "open" /\ h.users = con[c].users /\ h.targets = con[c].targets
    BY <1>4, <2>1 DEF Handler
  <2>3. con' = [con EXCEPT ![c] = h]
    BY <1>5, <2>1 DEF Connect
  <2>8. UNCHANGED server /\ \E j \in Built : mined' = [mined EXCEPT ![c] = j]
    BY <1>4, <1>5 DEF Connect
  <2>9. HandlerOK(h)
    BY <1>4, <1>5, <2>2, <2>3 DEF HandlerOK
  <2> QED
    BY <1>3, <1>5, <2>2, <2>3, <2>8, <2>9
<1>6. ASSUME NEW c \in Connections, Subscribe(c) PROVE JobsInv'
  <2>1. PICK h : h = [con[c] EXCEPT !.state = "subscribed", !.task = TRUE]
    OBVIOUS
  <2>2. /\ h \in Handler /\ h.task /\ h.users = con[c].users /\ h.targets = con[c].targets
        /\ h.state = "subscribed"
    BY <1>4, <2>1 DEF Handler
  <2>3. con' = [con EXCEPT ![c] = h]
    BY <1>6, <2>1 DEF Subscribe
  <2>8. UNCHANGED server /\ \E j \in Built : mined' = [mined EXCEPT ![c] = j]
    BY <1>4, <1>6 DEF Subscribe
  <2>9. HandlerOK(h)
    BY <1>4, <1>6, <2>2, <2>3 DEF HandlerOK
  <2> QED
    BY <1>3, <1>6, <2>2, <2>3, <2>8, <2>9
<1>7. ASSUME NEW c \in Connections, NEW u \in Users, Authorize(c, u) PROVE JobsInv'
  <2>1. PICK old \in Seq(Users) : old = con[c].users
    BY <1>4 DEF Handler
  <2>2. PICK users : users = IF u \in Elements(old) THEN old ELSE Append(old, u)
    OBVIOUS
  <2>3. users \in Seq(Users) /\ (users = <<>> => old = <<>>)
    <3>1. Append(old, u) \in Seq(Users) /\ Len(Append(old, u)) = Len(old) + 1 /\ Len(old) \in Nat /\ Len(<<>>) = 0
      OBVIOUS
    <3> QED
      BY <2>2, <3>1
  <2>4. PICK h : h = [con[c] EXCEPT !.task = TRUE, !.users = users]
    OBVIOUS
  <2>5. /\ h \in Handler /\ h.task /\ h.users = users /\ h.targets = con[c].targets
        /\ h.state # "new"
    BY <1>4, <1>7, <2>3, <2>4 DEF Handler, Authorize
  <2>6. con' = [con EXCEPT ![c] = h]
    BY <1>7, <2>1, <2>2, <2>4 DEF Authorize
  <2>8. UNCHANGED server /\ \E j \in Built : mined' = [mined EXCEPT ![c] = j]
    BY <1>4, <1>7 DEF Authorize
  <2>9. HandlerOK(h)
    BY <1>4, <1>7, <2>1, <2>3, <2>5, <2>6 DEF HandlerOK
  <2> QED
    BY <1>3, <1>7, <2>1, <2>3, <2>5, <2>6, <2>8, <2>9
<1>8. ASSUME NEW c \in Connections, Disconnect(c) PROVE JobsInv'
  <2>1. NoJob \in Built
    BY DEF NoJob, Built
  <2>2. /\ con' = [con EXCEPT ![c] = Closed] /\ mined' = [mined EXCEPT ![c] = NoJob] /\ UNCHANGED server
    BY <1>8 DEF Disconnect, Close
  <2>3. PICK h \in Handler : h = Closed
    BY ClosedFields
  <2>4. h.state = "closed" /\ HandlerOK(h)
    BY <2>3, ClosedFields DEF HandlerOK
  <2> QED
    BY <1>3, <1>8, <2>1, <2>2, <2>3, <2>4
<1>9. ASSUME NEW c \in Connections, Submit(c) PROVE JobsInv'
  <2>1. PICK u \in Users : server' = [server EXCEPT !.pending = @ \cup {u}, !.quick = TRUE]
    <3>1. Elements(con[c].users) \subseteq Users
      <4>1. PICK users \in Seq(Users) : users = con[c].users
        BY <1>4 DEF Handler
      <4> QED
        BY <4>1 DEF Elements
    <3> QED
      BY <1>9, <3>1 DEF Submit
  <2>2. /\ server' \in ServerState /\ server'.WakeRequest = server.WakeRequest
        /\ server'.UpdateTask = server.UpdateTask /\ server'.JobId = server.JobId
    BY <2>1, HowPlaced, LoopIsThread DEF ServerState
  <2>3. UNCHANGED <<con, mined>>
    BY <1>9 DEF Submit
  <2>4. UpdateAlwaysComing'
    BY <1>1, <2>2 DEF JobsInv, UpdateAlwaysComing, InQuickUpdate
  <2>5. Coming => Coming'
    BY <1>1, <2>2 DEF Coming, WillWake, InQuickUpdate, Entry
  <2>6. \A u_1 \in Users, id \in Nat : Good(u_1, id) => Good(u_1, id)'
    BY <1>1, WorkStays
  <2> QED
    BY <1>1, <1>2, <2>2, <2>3, <2>4, <2>5, <2>6, HowPlaced, LoopIsThread, Moved DEF GetsJob
<1> QED
  BY <1>5, <1>6, <1>7, <1>8, <1>9 DEF Miner

\* The loop goes on without updating and without sending anything yet.
LEMMA LoopMoved ==
  ASSUME JobsInv, NEW p, PlaceOK(Loop, p), thread' = [thread EXCEPT ![Loop] = p],
         UNCHANGED <<block, con, mined, faults>>, workLog' \subseteq WorkEntry,
         server' \in ServerState, server'.UpdateTask = server.UpdateTask, server'.JobId = server.JobId,
         thread[Loop].pc \notin UpdatePlaces, p.pc # "share",
         \A u \in Users, id \in Nat : ~Coming' => (Good(u, id) => Good(u, id)'),
         p.pc = "register" => p.block = block /\ p.id = server.JobId,
         p.pc \in {"register", "own"} => HasName(con[p.con]),
         faults = 0 /\ ~Coming' /\ p.pc = "own" => Good(p.user, p.id)' /\ p.id = server.JobId,
         ~Coming' => \A c \in Connections : con[c].state = "subscribed" /\ GetsJob(c) =>
                       con[c].task \/ InLine(c)'
  PROVE  JobsInv'
<1>1. /\ thread' \in [Threads -> Place] /\ thread'[Loop] = p
      /\ \A s \in Threads \ {Loop} : thread'[s] = thread[s]
  BY LoopIsThread DEF JobsInv, JobsType, PlaceOK
<1>2. UpdateAlwaysComing'
  BY <1>1, LoopIsThread, UpdatesStay DEF JobsInv
<1> QED
  BY <1>2, HowPlaced, LoopIsThread, Moved

LEMMA LoopWakes ==
  ASSUME JobsInv, thread[Loop].pc \notin UpdatePlaces, NEW p, thread' = [thread EXCEPT ![Loop] = p],
         server'.WakeRequest = server.WakeRequest,
         \A id : Entry(None, id) # {} => Entry(None, id)' # {}
  PROVE  Coming => Coming'
<1>1. \A s \in Threads \ {Loop} : thread'[s] = thread[s]
  BY DEF JobsInv, JobsType
<1>2. ~WillWake(Loop)
  BY HowPlaced, LoopIsThread DEF WillWake, UpdatePlaces, LoopOK, Sending
<1> QED
  BY <1>1, <1>2, LoopIsThread, ComingStays

\* The loop turns to the clients it will send jobs, one by one.
LEMMA WakeNodesStep == ASSUME JobsInv, WakeNodes PROVE JobsInv'
<1>1. /\ thread[Loop].pc = "idle" /\ UNCHANGED <<block, workLog, con, mined, faults>>
      /\ server' = [server EXCEPT !.WakeRequest = FALSE] /\ Subscribed \in SUBSET Connections
  BY DEF WakeNodes, At, Subscribed
<1>2. PICK p : /\ p = [Idle EXCEPT !.pc = "next", !.left = Subscribed, !.after = "next"]
               /\ thread' = [thread EXCEPT ![Loop] = p]
  BY DEF WakeNodes
<1>3. PlaceOK(Loop, p) /\ p.pc = "next" /\ p.left = Subscribed /\ p.quick = {}
  <2>1. "next" \in PlaceNames
    BY DEF PlaceNames
  <2>2. p \in Place /\ p.pc = "next" /\ p.left = Subscribed /\ p.quick = {} /\ p.after = "next"
    BY <1>1, <1>2, <2>1, IdleFields DEF Place
  <2> QED
    BY <2>2 DEF PlaceOK, LoopOK, UpdatePlaces, Sending
<1>4. thread'[Loop] = p
  BY <1>2, LoopIsThread DEF JobsInv, JobsType
<1>5. \A c \in Connections : con[c].state = "subscribed" => InLine(c)'
  BY <1>3, <1>4 DEF InLine, Subscribed
<1>6. /\ server' \in ServerState /\ server'.UpdateTask = server.UpdateTask
      /\ server'.JobId = server.JobId
  BY <1>1, HowPlaced, LoopIsThread DEF ServerState
<1>7. \A u \in Users, id \in Nat : Good(u, id) => Good(u, id)'
  BY <1>1, WorkStays
<1>8. workLog' \subseteq WorkEntry /\ thread[Loop].pc \notin UpdatePlaces
  BY <1>1, HowPlaced, LoopIsThread DEF UpdatePlaces
<1> QED
  BY <1>1, <1>2, <1>3, <1>5, <1>6, <1>7, <1>8, LoopMoved

LEMMA QuickUpdateStep == ASSUME JobsInv, QuickUpdate PROVE JobsInv'
<1>1. /\ thread[Loop].pc = "idle" /\ UNCHANGED <<block, workLog, con, mined, faults>>
      /\ server' = [server EXCEPT !.pending = {}, !.quick = FALSE]
      /\ Subscribed \in SUBSET Connections /\ server.pending \in SUBSET Users
      /\ server \in ServerState /\ workLog \subseteq WorkEntry /\ LoopOK(thread[Loop])
  BY HowPlaced, LoopIsThread DEF QuickUpdate, At, Subscribed, ServerState
<1>2. PICK p : /\ p = [Idle EXCEPT !.pc = "next", !.left = Subscribed, !.after = "next",
                                   !.quick = server.pending]
               /\ thread' = [thread EXCEPT ![Loop] = p]
  BY DEF QuickUpdate
<1>3. PlaceOK(Loop, p) /\ p.pc = "next"
  <2>1. "next" \in PlaceNames
    BY DEF PlaceNames
  <2>2. p \in Place /\ p.pc = "next" /\ p.after = "next"
    BY <1>1, <1>2, <2>1, IdleFields DEF Place
  <2> QED
    BY <2>2 DEF PlaceOK, LoopOK, UpdatePlaces, Sending
<1>4. /\ server' \in ServerState /\ server'.UpdateTask = server.UpdateTask
      /\ server'.JobId = server.JobId /\ server'.WakeRequest = server.WakeRequest
  BY <1>1 DEF ServerState
<1>5. \A c \in Connections : ~InLine(c)
  BY <1>1 DEF InLine, LoopOK, Sending
<1>6. /\ \A u \in Users, id \in Nat : Good(u, id) => Good(u, id)'
      /\ \A id : Entry(None, id) # {} => Entry(None, id)' # {}
  BY <1>1, WorkStays
<1>7. thread[Loop].pc \notin UpdatePlaces
  BY <1>1 DEF UpdatePlaces
<1>8. Coming => Coming'
  BY <1>2, <1>4, <1>6, <1>7, LoopWakes
<1> QED
  BY <1>1, <1>2, <1>3, <1>4, <1>5, <1>6, <1>7, <1>8, LoopMoved DEF GetsJob

LEMMA NextClientStep == ASSUME JobsInv, NextClient PROVE JobsInv'
<1>1. /\ thread[Loop].pc = "next" /\ UNCHANGED <<block, workLog, server, con, mined, faults>>
      /\ server \in ServerState /\ workLog \subseteq WorkEntry /\ LoopOK(thread[Loop])
      /\ thread[Loop] \in Place
  BY HowPlaced, LoopIsThread DEF NextClient, At
<1>2. /\ \A u \in Users, id \in Nat : Good(u, id) => Good(u, id)'
      /\ \A id : Entry(None, id) # {} => Entry(None, id)' # {}
  BY <1>1, WorkStays
<1>3. thread[Loop].pc \notin UpdatePlaces
  BY <1>1 DEF UpdatePlaces
<1>4. ASSUME NEW p, thread' = [thread EXCEPT ![Loop] = p], PlaceOK(Loop, p),
             p.pc \in {"idle", "next", "target", "count"},
             \A c \in Connections : InLine(c) =>
               p.quick = {} /\ (c \in p.left \/ (p.con = c /\ p.pc = "target"))
      PROVE  JobsInv'
  <2>1. Coming => Coming'
    BY <1>1, <1>2, <1>3, <1>4, LoopWakes
  <2>2. thread'[Loop] = p
    BY <1>4, LoopIsThread DEF JobsInv, JobsType
  <2>3. \A c \in Connections : InLine(c) => InLine(c)'
    BY <1>4, <2>2 DEF InLine, Sending
  <2> QED
    BY <1>1, <1>2, <1>3, <1>4, <2>1, <2>3, LoopMoved DEF GetsJob
<1>5. CASE thread[Loop].left = {} /\ thread' = [thread EXCEPT ![Loop] = Idle]
  <2>1. PlaceOK(Loop, Idle) /\ Idle.pc = "idle"
    BY IdleFields DEF PlaceOK, LoopOK, Sending
  <2>2. \A c \in Connections : ~InLine(c)
    BY <1>1, <1>5 DEF InLine, Sending
  <2> QED
    BY <1>4, <1>5, <2>1, <2>2
<1>6. ASSUME NEW c \in thread[Loop].left,
             NEW asked \in BOOLEAN, asked = (thread[Loop].quick = {} \/ thread[Loop].quick \cap Elements(con[c].users) # {}),
             NEW renew \in BOOLEAN, renew = (thread[Loop].quick # {} /\ HasTarget(c, server.JobId)),
             thread' = [thread EXCEPT ![Loop] =
               [thread[Loop] EXCEPT !.left = @ \ {c},
                            !.con = IF asked THEN c ELSE None,
                            !.pc = IF ~asked THEN "next" ELSE IF renew THEN "count" ELSE "target"]]
      PROVE  JobsInv'
  <2>1. PICK pc \in {"next", "count", "target"} :
          /\ pc = IF ~asked THEN "next" ELSE IF renew THEN "count" ELSE "target"
          /\ pc \in PlaceNames
    BY DEF PlaceNames, UpdatePlaces, Sending
  <2>2. PICK d \in Connections \cup {None} : d = IF asked THEN c ELSE None
    BY <1>1, <1>6 DEF Place
  <2>3. PICK left \in SUBSET Connections : left = thread[Loop].left \ {c}
    BY <1>1 DEF Place
  <2>4. PICK p : p = [thread[Loop] EXCEPT !.left = left, !.con = d, !.pc = pc]
    OBVIOUS
  <2>5. /\ p \in Place /\ p.pc = pc /\ p.left = left /\ p.con = d
        /\ p.quick = thread[Loop].quick /\ p.after = thread[Loop].after
    BY <1>1, <2>1, <2>2, <2>3, <2>4 DEF Place
  <2>6. thread' = [thread EXCEPT ![Loop] = p]
    BY <1>6, <2>1, <2>2, <2>3, <2>4
  <2>7. asked /\ thread[Loop].quick = {} => pc = "target"
    BY <1>6, <2>1
  <2>8. pc # "next" => d \in Connections
    BY <1>1, <1>6, <2>1, <2>2 DEF Place
  <2>9. PlaceOK(Loop, p)
    <3>1. p.quick = {} => pc \in {"next", "target"}
      BY <1>6, <2>1, <2>5
    <3> QED
      BY <1>1, <2>1, <2>5, <2>8, <3>1 DEF PlaceOK, LoopOK, UpdatePlaces, Sending
  <2>10. \A e \in Connections : InLine(e) =>
           p.quick = {} /\ (e \in p.left \/ (p.con = e /\ p.pc = "target"))
    BY <1>1, <1>6, <2>1, <2>2, <2>3, <2>5, <2>7 DEF InLine, Sending
  <2> QED
    BY <1>4, <2>5, <2>6, <2>9, <2>10
<1>7. CASE thread[Loop].left # {} /\ \E c \in thread[Loop].left :
          LET asked == thread[Loop].quick = {} \/ thread[Loop].quick \cap Elements(con[c].users) # {}
              renew == thread[Loop].quick # {} /\ HasTarget(c, server.JobId)
          IN thread' = [thread EXCEPT ![Loop] =
               [thread[Loop] EXCEPT !.left = @ \ {c},
                            !.con = IF asked THEN c ELSE None,
                            !.pc = IF ~asked THEN "next" ELSE IF renew THEN "count" ELSE "target"]]
  <2>1. PICK c \in thread[Loop].left :
          LET asked == thread[Loop].quick = {} \/ thread[Loop].quick \cap Elements(con[c].users) # {}
              renew == thread[Loop].quick # {} /\ HasTarget(c, server.JobId)
          IN thread' = [thread EXCEPT ![Loop] =
               [thread[Loop] EXCEPT !.left = @ \ {c},
                            !.con = IF asked THEN c ELSE None,
                            !.pc = IF ~asked THEN "next" ELSE IF renew THEN "count" ELSE "target"]]
    BY <1>7
  <2>2. PICK asked \in BOOLEAN : asked = (thread[Loop].quick = {} \/ thread[Loop].quick \cap Elements(con[c].users) # {})
    OBVIOUS
  <2>3. PICK renew \in BOOLEAN : renew = (thread[Loop].quick # {} /\ HasTarget(c, server.JobId))
    OBVIOUS
  <2> QED
    BY <1>6, <2>1, <2>2, <2>3
<1> QED
  BY <1>5, <1>7 DEF NextClient

\* A client's own task runs: its job is under way.
LEMMA RunTaskStep == ASSUME JobsInv, NEW c \in Connections, RunTask(c) PROVE JobsInv'
<1>1. /\ thread[Loop].pc = "idle" /\ UNCHANGED <<block, workLog, server, mined, faults>>
      /\ con[c] \in Handler /\ mined[c] \in Built /\ LoopOK(thread[Loop]) /\ faults \in Nat
  BY HowPlaced, LoopIsThread DEF RunTask, At, JobsInv, JobsType
<1>2. PICK p : /\ p = [Idle EXCEPT !.pc = "target", !.con = c]
               /\ thread' = [thread EXCEPT ![Loop] = p]
  BY DEF RunTask
<1>3. /\ PlaceOK(Loop, p) /\ p.pc = "target" /\ p.con = c /\ p.quick = {}
  <2>1. "target" \in PlaceNames
    BY DEF PlaceNames, Sending
  <2>2. p \in Place /\ p.pc = "target" /\ p.con = c /\ p.quick = {} /\ p.after = "idle" /\ p.left = {}
    BY <1>2, <2>1, IdleFields DEF Place
  <2> QED
    BY <2>2 DEF PlaceOK, LoopOK, UpdatePlaces, Sending
<1>4. PICK h : h = [con[c] EXCEPT !.task = FALSE]
  OBVIOUS
<1>5. h \in Handler /\ h.state = con[c].state /\ h.users = con[c].users /\ h.targets = con[c].targets
  BY <1>1, <1>4 DEF Handler
<1>6. con' = [con EXCEPT ![c] = h]
  BY <1>4 DEF RunTask
<1>7. PICK j \in Built : mined' = [mined EXCEPT ![c] = j]
  BY <1>1 DEF JobsInv, JobsType
<1>8. HandlerOK(h)
  BY <1>5 DEF JobsInv, TargetsAreKept, HandlerOK
<1>9. thread'[Loop] = p
  BY <1>2, LoopIsThread DEF JobsInv, JobsType
<1>10. InLine(c)'
  BY <1>3, <1>9 DEF InLine, Sending
<1>11. \A d \in Connections : ~InLine(d)
  BY <1>1 DEF InLine, LoopOK, Sending
<1>12. thread[Loop].pc \notin UpdatePlaces
  BY <1>1 DEF UpdatePlaces
<1> QED
  BY <1>1, <1>2, <1>3, <1>5, <1>6, <1>7, <1>8, <1>10, <1>11, <1>12, Served

\* Which job a client gets is decided by what is there now.
LEMMA WhichJobStep == ASSUME JobsInv, WhichJob PROVE JobsInv'
<1>1. /\ thread[Loop].pc = "target" /\ UNCHANGED <<block, workLog, server, con, mined, faults>>
      /\ server \in ServerState /\ workLog \subseteq WorkEntry /\ LoopOK(thread[Loop])
      /\ thread[Loop] \in Place /\ block \in Nat
  BY HowPlaced, LoopIsThread DEF WhichJob, At
<1>2. PICK c \in Connections : c = thread[Loop].con
  BY <1>1 DEF LoopOK, Sending
<1>3. PICK users \in Seq(Users) : users = con[c].users
  BY DEF JobsInv, JobsType, Handler
<1>4. PICK target :
        /\ target \in IF Len(users) = 1 THEN Targets ELSE {ShareTarget}
        /\ thread' = [thread EXCEPT ![Loop] = [thread[Loop] EXCEPT
          !.target = target, !.shared = server.JobBytes, !.user = PrimaryUser(c),
          !.id = server.JobId, !.block = block,
          !.pc = IF PrimaryUser(c) = None THEN "share" ELSE "register"]]
  BY <1>2, <1>3 DEF WhichJob
<1>5. PICK user \in Users \cup {None} : /\ user = PrimaryUser(c)
                                        /\ user = None <=> users = <<>>
  <2>1. CASE users = <<>>
    BY <1>3, <2>1 DEF PrimaryUser
  <2>2. CASE users # <<>>
    BY <1>3, <2>2, NamesAssumption DEF PrimaryUser
  <2> QED
    BY <2>1, <2>2
<1>6. PICK pc \in {"share", "register"} : pc = IF user = None THEN "share" ELSE "register"
  OBVIOUS
<1>7. pc \in PlaceNames
  BY DEF PlaceNames, UpdatePlaces, Sending
<1>8. PICK shared \in SharedJobType, id \in Nat : shared = server.JobBytes /\ id = server.JobId
  BY <1>1 DEF ServerState
<1>9. target \in Targets /\ target \in Nat /\ (users = <<>> => target = ShareTarget)
  <2>1. users = <<>> => Len(users) = 0
    OBVIOUS
  <2>2. target \in Targets /\ (Len(users) # 1 => target = ShareTarget)
    BY <1>4, TargetsAssumption
  <2>3. target \in Nat
    BY <2>2, TargetsAssumption
  <2> QED
    BY <2>1, <2>2, <2>3
<1>10. PICK p : p = [thread[Loop] EXCEPT !.target = target, !.shared = shared, !.user = user,
                       !.id = id, !.block = block, !.pc = pc]
  OBVIOUS
<1>11. /\ p \in Place /\ p.pc = pc /\ p.con = c /\ p.left = thread[Loop].left /\ p.user = user
       /\ p.quick = thread[Loop].quick /\ p.after = thread[Loop].after /\ p.target = target
       /\ p.shared = shared /\ p.id = id /\ p.block = block
  BY <1>1, <1>2, <1>7, <1>8, <1>9, <1>10 DEF Place
<1>12. thread' = [thread EXCEPT ![Loop] = p]
  BY <1>4, <1>5, <1>6, <1>8, <1>10
<1>13. PlaceOK(Loop, p)
  <2>1. pc = "register" => user \in Users
    BY <1>5, <1>6
  <2>2. LoopOK(p)
    BY <1>1, <1>8, <1>9, <1>11, <2>1 DEF LoopOK, UpdatePlaces, Sending
  <2> QED
    BY <1>11, <2>2 DEF PlaceOK
<1>14. thread'[Loop] = p
  BY <1>12, LoopIsThread DEF JobsInv, JobsType
<1>15. \A d \in Connections : InLine(d) => InLine(d)'
  BY <1>1, <1>2, <1>11, <1>14 DEF InLine, Sending
<1>16. /\ \A u \in Users, i \in Nat : Good(u, i) => Good(u, i)'
       /\ \A i : Entry(None, i) # {} => Entry(None, i)' # {}
  BY <1>1, WorkStays
<1>17. thread[Loop].pc \notin UpdatePlaces
  BY <1>1 DEF UpdatePlaces
<1>18. Coming => Coming'
  BY <1>1, <1>12, <1>16, <1>17, LoopWakes
<1>19. /\ p.pc = "share" => p.target = ShareTarget /\ NoName(con[p.con])
       /\ p.pc \in {"register", "own"} => HasName(con[p.con])
  BY <1>3, <1>5, <1>6, <1>9, <1>11 DEF NoName, HasName
<1>20. UpdateAlwaysComing'
  <2>1. \A s \in Threads \ {Loop} : thread'[s] = thread[s]
    BY <1>12 DEF JobsInv, JobsType
  <2> QED
    BY <1>1, <1>17, <2>1, LoopIsThread, UpdatesStay DEF JobsInv
<1> QED
  BY <1>1, <1>8, <1>11, <1>12, <1>13, <1>15, <1>16, <1>18, <1>19, <1>20, HowPlaced, LoopIsThread, Moved DEF GetsJob

LEMMA RegisterStep == ASSUME JobsInv, RegisterJob PROVE JobsInv'
<1>1. /\ thread[Loop].pc = "register" /\ Goto(Loop, "own")
      /\ UNCHANGED <<block, server, con, mined, faults>>
      /\ server \in ServerState /\ workLog \subseteq WorkEntry /\ LoopOK(thread[Loop])
      /\ thread[Loop] \in Place
  BY HowPlaced, LoopIsThread DEF RegisterJob, At
<1>2. PICK user \in Users, id \in Nat, b \in Nat :
        user = thread[Loop].user /\ id = thread[Loop].id /\ b = thread[Loop].block
  BY <1>1 DEF LoopOK, Place
<1>3. workLog' = Registered(user, id, b)
  BY <1>2 DEF RegisterJob
<1>4. PICK p : p = [thread[Loop] EXCEPT !.pc = "own"]
  OBVIOUS
<1>5. /\ p \in Place /\ p.pc = "own" /\ p.con = thread[Loop].con /\ p.left = thread[Loop].left
      /\ p.user = user /\ p.quick = thread[Loop].quick /\ p.after = thread[Loop].after
      /\ p.target = thread[Loop].target /\ p.shared = thread[Loop].shared /\ p.id = id
  <2>1. "own" \in PlaceNames
    BY DEF PlaceNames, Sending
  <2> QED
    BY <1>1, <1>2, <1>4, <2>1 DEF Place
<1>6. thread' = [thread EXCEPT ![Loop] = p]
  BY <1>1, <1>4 DEF Goto
<1>7. PlaceOK(Loop, p)
  BY <1>1, <1>5 DEF PlaceOK, LoopOK, UpdatePlaces, Sending
<1>8. thread'[Loop] = p
  BY <1>6, LoopIsThread DEF JobsInv, JobsType
<1>9. \A d \in Connections : InLine(d) => InLine(d)'
  BY <1>1, <1>5, <1>8 DEF InLine, Sending
<1>10. thread[Loop].pc \notin UpdatePlaces /\ UNCHANGED block
  BY <1>1 DEF UpdatePlaces
<1>11. \A i : Entry(None, i) # {} => Entry(None, i)' # {}
  BY <1>3, <1>10, Registering
<1>12. Coming => Coming'
  BY <1>1, <1>6, <1>10, <1>11, LoopWakes
<1>13. faults = 0 /\ ~Coming' => b = block /\ id = server.JobId
  BY <1>1, <1>2, <1>12 DEF JobsInv, JobsAreKnown, TargetsAreFair, At
<1>14. faults = 0 /\ ~Coming' => \A u \in Users, i \in Nat : Good(u, i) => Good(u, i)'
  BY <1>3, <1>10, <1>13, Registering
<1>15. faults = 0 /\ ~Coming' => Good(p.user, p.id)'
  <2>1. Entry(user, id)' = {[user |-> user, id |-> id, block |-> b]}
    BY <1>3, <1>10, Registering
  <2>2. b = block => Good(user, id)'
    BY <1>10, <2>1 DEF Good, Current
  <2> QED
    BY <1>5, <1>13, <2>2 DEF Good, Current, Entry
<1>16. workLog' \subseteq WorkEntry
  BY <1>1, <1>2, <1>3 DEF Registered, WorkEntry
<1>17. UpdateAlwaysComing'
  <2>1. \A s \in Threads \ {Loop} : thread'[s] = thread[s]
    BY <1>6 DEF JobsInv, JobsType
  <2> QED
    BY <1>1, <1>10, <2>1, LoopIsThread, UpdatesStay DEF JobsInv
<1>18. HasName(con[p.con])
  BY <1>1, <1>5 DEF JobsInv, TargetsAreKept, At
<1> QED
  BY <1>1, <1>5, <1>6, <1>7, <1>9, <1>12, <1>13, <1>14, <1>15, <1>16, <1>17, <1>18, HowPlaced, LoopIsThread, Moved DEF GetsJob

\* Where the loop is when it is done with a client.
LEMMA DonePlace ==
  ASSUME JobsInv, thread[Loop].pc \in Sending, NEW pc \in {"idle", "next"}, Done(pc),
         pc = thread[Loop].after
  PROVE  \E p : /\ PlaceOK(Loop, p) /\ thread' = [thread EXCEPT ![Loop] = p] /\ p.pc = pc
                /\ \A d \in Connections : d # thread[Loop].con /\ InLine(d) => InLine(d)'
<1>1. thread[Loop] \in Place /\ LoopOK(thread[Loop]) /\ Loop \in Threads /\ thread \in [Threads -> Place]
  BY HowPlaced, LoopIsThread DEF JobsInv, JobsType
<1>2. CASE pc = "idle"
  <2>1. thread' = [thread EXCEPT ![Loop] = Idle]
    BY <1>2 DEF Done
  <2>2. PlaceOK(Loop, Idle)
    BY IdleFields DEF PlaceOK, LoopOK, Sending
  <2>3. \A d \in Connections : d # thread[Loop].con => ~InLine(d)
    BY <1>1, <1>2 DEF LoopOK, InLine
  <2> QED
    BY <1>2, <2>1, <2>2, <2>3, IdleFields
<1>3. CASE pc = "next"
  <2>1. PICK p : /\ p = [Idle EXCEPT !.pc = "next", !.left = thread[Loop].left,
                                     !.after = thread[Loop].after, !.quick = thread[Loop].quick]
                 /\ thread' = [thread EXCEPT ![Loop] = p]
    BY <1>3 DEF Done
  <2>2. "next" \in PlaceNames
    BY DEF PlaceNames
  <2>3. /\ p \in Place /\ p.pc = "next" /\ p.left = thread[Loop].left
        /\ p.after = thread[Loop].after /\ p.quick = thread[Loop].quick
    BY <1>1, <2>1, <2>2, IdleFields DEF Place
  <2>4. thread'[Loop] = p
    BY <1>1, <2>1
  <2>5. \A d \in Connections : d # thread[Loop].con /\ InLine(d) => InLine(d)'
    BY <2>3, <2>4 DEF InLine
  <2>6. PlaceOK(Loop, p)
    BY <1>3, <2>3 DEF PlaceOK, LoopOK, UpdatePlaces, Sending
  <2> QED
    BY <1>3, <2>1, <2>3, <2>5, <2>6
<1> QED
  BY <1>2, <1>3

LEMMA SendingIsNot == \A pc : pc \in Sending => pc \notin UpdatePlaces
BY DEF Sending, UpdatePlaces

\* The socket is gone, or getTarget raises.
LEMMA SendRaisesStep ==
  ASSUME JobsInv, thread[Loop].pc \in Sending, SendRaises, UNCHANGED <<block, workLog, server>>,
         faults' \in Nat, faults' = 0 => faults = 0 /\ Gone(thread[Loop].con)
  PROVE  JobsInv'
<1>1. thread[Loop] \in Place /\ LoopOK(thread[Loop]) /\ thread[Loop].pc \notin UpdatePlaces
  BY HowPlaced, LoopIsThread, SendingIsNot
<1>2. PICK c \in Connections : c = thread[Loop].con
  BY <1>1 DEF LoopOK
<1>3. PICK pc \in {"idle", "next"} : pc = thread[Loop].after /\ Done(pc)
  BY <1>1 DEF SendRaises, Place
<1>4. PICK p : /\ PlaceOK(Loop, p) /\ thread' = [thread EXCEPT ![Loop] = p] /\ p.pc = pc
               /\ \A d \in Connections : d # c /\ InLine(d) => InLine(d)'
  BY <1>2, <1>3, DonePlace
<1>5. con[c] \in Handler /\ mined[c] \in Built /\ NoJob \in Built
  BY DEF JobsInv, JobsType, NoJob, Built
<1>6. PICK h \in Handler, j \in Built :
        /\ con' = [con EXCEPT ![c] = h] /\ mined' = [mined EXCEPT ![c] = j]
        /\ h = Closed \/ h = con[c]
  <2>1. CASE pc = "idle"
    BY <1>2, <1>3, <1>5, <2>1, ClosedFields DEF SendRaises, Close
  <2>2. CASE pc = "next"
    <3>1. UNCHANGED <<con, mined>>
      BY <1>3, <2>2 DEF SendRaises
    <3> QED
      BY <1>5, <3>1 DEF JobsInv, JobsType
  <2> QED
    BY <2>1, <2>2
<1>7. HandlerOK(h)
  BY <1>6, ClosedFields DEF JobsInv, TargetsAreKept, HandlerOK
<1>8. faults' = 0 => h.state = "closed"
  BY <1>2, <1>6, ClosedFields DEF Gone
<1> QED
  BY <1>1, <1>3, <1>4, <1>6, <1>7, <1>8, Served

LEMMA SendFailsStep == ASSUME JobsInv, SendFails PROVE JobsInv'
<1>1. /\ thread[Loop].pc \in Sending /\ SendRaises /\ UNCHANGED <<block, workLog, server>>
      /\ \/ Gone(thread[Loop].con) /\ faults' = faults
         \/ faults' = faults + 1
  BY DEF SendFails, At, Fail, Sending
<1>2. faults' \in Nat /\ (faults' = 0 => faults = 0 /\ Gone(thread[Loop].con))
  BY <1>1 DEF JobsInv, JobsType
<1> QED
  BY <1>1, <1>2, SendRaisesStep

\* What is filed under the id replaces what was there, and the rest stays.
LEMMA Filed ==
  ASSUME NEW targets \in Seq(Targeted), IdsOnce(targets), NEW id \in Nat, NEW target \in Targets,
         NEW w, w = WithTarget(targets, id, target)
  PROVE  /\ w \in Seq(Targeted) /\ IdsOnce(w)
         /\ \A i \in 1 .. Len(w) : \/ w[i] = [id |-> id, target |-> target]
                                   \/ w[i].id # id /\ \E k \in 1 .. Len(targets) : w[i] = targets[k]
<1>0. PICK entry : entry = [id |-> id, target |-> target]
  OBVIOUS
<1>1. entry \in Targeted /\ entry.id = id
  BY <1>0 DEF Targeted
<1>2. PICK kept : kept = IF Len(targets) > KeepTargets THEN Tail(targets) ELSE targets
  OBVIOUS
<1>3. /\ kept \in Seq(Targeted) /\ IdsOnce(kept)
      /\ \A i \in 1 .. Len(kept) : \E k \in 1 .. Len(targets) : kept[i] = targets[k]
  <2>1. CASE Len(targets) > KeepTargets
    <3>1. targets # <<>>
      BY <2>1, TargetsAssumption
    <3>2. /\ Tail(targets) \in Seq(Targeted) /\ Len(Tail(targets)) = Len(targets) - 1
          /\ \A i \in 1 .. Len(Tail(targets)) : Tail(targets)[i] = targets[i + 1]
      BY <3>1, HeadTailProperties
    <3>3. /\ kept \in Seq(Targeted) /\ Len(kept) = Len(targets) - 1
          /\ \A i \in 1 .. Len(kept) : kept[i] = targets[i + 1]
      BY <1>2, <2>1, <3>2
    <3>4. \A i \in 1 .. Len(kept) : i + 1 \in 1 .. Len(targets)
      BY <3>3
    <3>5. \A i \in 1 .. Len(kept) : \E k \in 1 .. Len(targets) : kept[i] = targets[k]
      BY <3>3, <3>4
    <3>6. ASSUME NEW i \in 1 .. Len(kept), NEW j \in 1 .. Len(kept), kept[i].id = kept[j].id
          PROVE  i = j
      <4>1. targets[i + 1].id = targets[j + 1].id
        BY <3>3, <3>6
      <4>2. i + 1 = j + 1
        BY <3>4, <4>1 DEF IdsOnce
      <4> QED
        BY <3>3, <4>2
    <3> QED
      BY <3>3, <3>5, <3>6 DEF IdsOnce
  <2>2. CASE ~(Len(targets) > KeepTargets)
    BY <1>2, <2>2
  <2> QED
    BY <2>1, <2>2
<1>4. Elements(kept) = {kept[i] : i \in 1 .. Len(kept)}
  BY <1>3 DEF Elements
<1>5. CASE \E e \in Elements(kept) : e.id = id
  <2>1. w = [i \in DOMAIN kept |-> IF kept[i].id = id THEN entry ELSE kept[i]]
    BY <1>0, <1>2, <1>5 DEF WithTarget
  <2>2. DOMAIN kept = 1 .. Len(kept) /\ Len(kept) \in Nat
    BY <1>3
  <2>3. \A i \in 1 .. Len(kept) : kept[i] \in Targeted
    BY <1>3
  <2>4. w \in [1 .. Len(kept) -> Targeted]
    BY <1>1, <2>1, <2>2, <2>3
  <2>5. w \in Seq(Targeted) /\ Len(w) = Len(kept)
    BY <2>2, <2>4
  <2>6. \A i \in 1 .. Len(w) : IF kept[i].id = id THEN w[i] = entry ELSE w[i] = kept[i]
    BY <2>1, <2>2, <2>5
  <2>7. \A i \in 1 .. Len(w) : w[i].id = kept[i].id
    BY <1>1, <2>6
  <2>8. IdsOnce(w)
    BY <1>3, <2>5, <2>7 DEF IdsOnce
  <2> QED
    BY <1>0, <1>3, <2>5, <2>6, <2>8
<1>6. CASE ~\E e \in Elements(kept) : e.id = id
  <2>1. w = Append(kept, entry)
    BY <1>0, <1>2, <1>6 DEF WithTarget
  <2>2. /\ w \in Seq(Targeted) /\ Len(w) = Len(kept) + 1 /\ w[Len(kept) + 1] = entry
        /\ \A i \in 1 .. Len(kept) : w[i] = kept[i]
    BY <1>1, <1>3, <2>1, AppendProperties
  <2>3. \A i \in 1 .. Len(kept) : kept[i].id # id
    BY <1>4, <1>6
  <2>4. Len(kept) \in Nat
    BY <1>3
  <2>5. \A i \in 1 .. Len(w) : i \in 1 .. Len(kept) \/ i = Len(kept) + 1
    BY <2>2, <2>4
  <2>6. \A i \in 1 .. Len(kept) : w[i].id = kept[i].id /\ w[i].id # id
    BY <2>2, <2>3
  <2>7. w[Len(kept) + 1].id = id
    BY <1>1, <2>2
  <2>8. IdsOnce(w)
    <3>1. ASSUME NEW i \in 1 .. Len(w), NEW j \in 1 .. Len(w), w[i].id = w[j].id
          PROVE  i = j
      <4>1. CASE i \in 1 .. Len(kept) /\ j \in 1 .. Len(kept)
        BY <1>3, <2>6, <3>1, <4>1 DEF IdsOnce
      <4>2. CASE i = Len(kept) + 1 \/ j = Len(kept) + 1
        BY <2>5, <2>6, <2>7, <3>1, <4>2
      <4> QED
        BY <2>5, <4>1, <4>2
    <3> QED
      BY <3>1 DEF IdsOnce
  <2>9. \A i \in 1 .. Len(kept) : \E k \in 1 .. Len(targets) : w[i] = targets[k]
    BY <1>3, <2>2
  <2>10. \A i \in 1 .. Len(w) : \/ w[i] = entry
                                \/ w[i].id # id /\ \E k \in 1 .. Len(targets) : w[i] = targets[k]
    BY <2>2, <2>5, <2>6, <2>9
  <2> QED
    BY <1>0, <2>2, <2>8, <2>10
<1> QED
  BY <1>5, <1>6

\* A job is sent, and its target filed under the id that JobId is now.
LEMMA PushStep ==
  ASSUME JobsInv, thread[Loop].pc \in {"own", "share"}, NEW j \in Built, Push(j),
         j.target = thread[Loop].target, UNCHANGED <<block, workLog, server>>, faults' \in Nat,
         (thread[Loop].pc = "own" /\ faults' # 0) \/ faults' = faults,
         faults' = 0 => Coming \/ (j.user # None => Good(j.user, j.id)),
         faults' = 0 /\ ~Coming /\ thread[Loop].pc = "own" /\ j.user # None => j.id = server.JobId,
         thread[Loop].pc = "own" /\ j.user = None => Coming \/ faults' # 0
  PROVE  JobsInv'
<1>1. /\ thread[Loop] \in Place /\ LoopOK(thread[Loop]) /\ thread[Loop].pc \notin UpdatePlaces
      /\ thread[Loop].pc \in Sending /\ server \in ServerState
  BY HowPlaced, LoopIsThread, SendingIsNot DEF Sending
<1>2. PICK c \in Connections : c = thread[Loop].con
  BY <1>1 DEF LoopOK
<1>3. CASE Gone(c)
  <2>1. SendRaises /\ (faults' = 0 => faults = 0)
    BY <1>2, <1>3 DEF Push
  <2> QED
    BY <1>1, <1>2, <1>3, <2>1, SendRaisesStep
<1>4. CASE ~Gone(c)
  <2>1. PICK target \in Targets, id \in Nat : target = thread[Loop].target /\ id = server.JobId
    BY <1>1 DEF LoopOK, ServerState
  <2>2. PICK targets \in Seq(Targeted) : targets = con[c].targets
    BY DEF JobsInv, JobsType, Handler
  <2>3. PICK w : w = WithTarget(targets, id, target)
    OBVIOUS
  <2>4. PICK h : h = [con[c] EXCEPT !.targets = w]
    OBVIOUS
  <2>5. HandlerOK(con[c]) /\ con[c] \in Handler
    BY DEF JobsInv, JobsType, TargetsAreKept
  <2>6. /\ w \in Seq(Targeted) /\ IdsOnce(w)
        /\ \A i \in 1 .. Len(w) : \/ w[i] = [id |-> id, target |-> target]
                                  \/ w[i].id # id /\ \E k \in 1 .. Len(targets) : w[i] = targets[k]
    BY <2>2, <2>3, <2>5, Filed DEF HandlerOK
  <2>7. /\ h \in Handler /\ h.state = con[c].state /\ h.users = con[c].users /\ h.task = con[c].task
        /\ h.targets = w
    BY <2>4, <2>5, <2>6 DEF Handler
  <2>8. thread[Loop].pc = "share" => target = ShareTarget /\ con[c].users = <<>>
    BY <1>2, <1>4, <2>1 DEF JobsInv, TargetsAreKept, NoName, Gone, At
  <2>9. thread[Loop].pc = "own" => con[c].users # <<>>
    BY <1>2, <1>4 DEF JobsInv, TargetsAreKept, HasName, Gone, At
  <2>10. h.users = <<>> => \A i \in 1 .. Len(w) : w[i].target = ShareTarget
    BY <2>2, <2>5, <2>6, <2>7, <2>8, <2>9 DEF HandlerOK
  <2>11. HandlerOK(h)
    BY <2>5, <2>6, <2>7, <2>10 DEF HandlerOK
  <2>12. con' = [con EXCEPT ![c] = h] /\ mined' = [mined EXCEPT ![c] = j]
    BY <1>2, <1>4, <2>1, <2>2, <2>3, <2>4 DEF Push
  <2>13. PICK pc \in {"idle", "next"} : pc = thread[Loop].after /\ Done(pc)
    BY <1>1, <1>2, <1>4 DEF Push, Place
  <2>14. PICK p : /\ PlaceOK(Loop, p) /\ thread' = [thread EXCEPT ![Loop] = p] /\ p.pc = pc
                  /\ \A d \in Connections : d # c /\ InLine(d) => InLine(d)'
    BY <1>1, <1>2, <2>13, DonePlace
  <2>15. j.target = target /\ target <= ShareTarget /\ target \in Nat /\ ShareTarget \in Nat
    BY <2>1, TargetsAssumption
  <2>16. faults' = 0 => Coming \/ FairFor(w, j)
    <3>1. CASE thread[Loop].pc = "share"
      BY <2>7, <2>8, <2>10, <2>15, <3>1 DEF FairFor
    <3>2. CASE thread[Loop].pc = "own"
      <4>1. faults' = 0 => Coming \/ j.id = id
        BY <2>1, <3>2
      <4> QED
        BY <2>6, <2>15, <4>1 DEF FairFor
    <3> QED
      BY <3>1, <3>2
  <2> QED
    BY <1>1, <2>7, <2>11, <2>12, <2>14, <2>16, Served
<1> QED
  BY <1>3, <1>4

LEMMA PushOwnStep == ASSUME JobsInv, PushOwn PROVE JobsInv'
<1>1. /\ thread[Loop].pc = "own" /\ UNCHANGED <<block, workLog, server, faults>> /\ Push(OwnJob)
      /\ thread[Loop] \in Place /\ LoopOK(thread[Loop]) /\ faults \in Nat
  BY HowPlaced, LoopIsThread DEF PushOwn, At
<1>2. PICK user \in Users, target \in Nat : user = thread[Loop].user /\ target = thread[Loop].target
  BY <1>1 DEF LoopOK, Place
<1>3. PICK id \in Nat, b \in Nat : id = thread[Loop].id /\ b = thread[Loop].block
  BY <1>1 DEF Place
<1>4. PICK j : j = [id |-> id, user |-> user, block |-> b, target |-> target]
  OBVIOUS
<1>5. j \in Built /\ j.id = id /\ j.user = user /\ j.target = target /\ j.user # None
  BY <1>4, NamesAssumption DEF Built
<1>6. Push(j)
  BY <1>1, <1>2, <1>3, <1>4 DEF OwnJob
<1>7. faults = 0 => Coming \/ (Good(j.user, j.id) /\ j.id = server.JobId)
  BY <1>1, <1>2, <1>3, <1>5 DEF JobsInv, JobsAreKnown, TargetsAreFair, At
<1> QED
  BY <1>1, <1>2, <1>5, <1>6, <1>7, PushStep

LEMMA PushSharedStep == ASSUME JobsInv, PushShared PROVE JobsInv'
<1>1. /\ thread[Loop].pc \in {"own", "share"} /\ UNCHANGED <<block, workLog, server>> /\ Push(SharedJob)
      /\ thread[Loop] \in Place /\ LoopOK(thread[Loop]) /\ faults \in Nat
  BY HowPlaced, LoopIsThread DEF PushShared, At
<1>2. PICK target \in Nat, shared \in SharedJobType :
        shared = thread[Loop].shared /\ target = thread[Loop].target
  BY <1>1 DEF LoopOK, Place
<1>3. PICK j : j = [id |-> shared.id, user |-> None, block |-> shared.block, target |-> target]
  OBVIOUS
<1>4. j \in Built /\ j.user = None /\ j.target = target
  BY <1>3 DEF Built, SharedJobType
<1>5. Push(j)
  BY <1>1, <1>2, <1>3 DEF SharedJob
<1>6. \/ faults' = faults /\ (thread[Loop].pc = "share" \/ Lost)
      \/ thread[Loop].pc = "own" /\ faults' = faults + 1
  BY <1>1 DEF PushShared, Fail, At
<1>7. faults = 0 /\ thread[Loop].pc = "own" /\ Lost => Coming
  BY DEF JobsInv, JobsAreKnown, Lost, Good, At
<1>8. faults' \in Nat /\ (faults' = 0 => faults = 0 /\ faults' = faults)
  BY <1>1, <1>6
<1>9. thread[Loop].pc = "own" => Coming \/ faults' # 0
  BY <1>1, <1>6, <1>7, <1>8
<1>10. (thread[Loop].pc = "own" /\ faults' # 0) \/ faults' = faults
  BY <1>1, <1>6
<1> QED
  BY <1>1, <1>2, <1>4, <1>5, <1>8, <1>9, <1>10, PushStep

-----------------------------------------------------------------------------
\* What follows

LEMMA JobsInit == Init => JobsInv
<1> SUFFICES ASSUME Init PROVE JobsInv
  OBVIOUS
<1>1. PICK fresh : fresh = [state |-> "new", users |-> <<>>, task |-> FALSE, targets |-> <<>>]
  OBVIOUS
<1>2. <<>> \in Seq(Users) /\ <<>> \in Seq(Targeted) /\ Len(<<>>) = 0
  OBVIOUS
<1>3. fresh = New /\ fresh \in Handler /\ HandlerOK(fresh) /\ fresh.state = "new"
  BY <1>1, <1>2 DEF New, Handler, HandlerOK, IdsOnce
<1>4. NoJob \in Built
  BY DEF NoJob, Built
<1>5. Idle.pc = "idle" /\ PlaceOK(Loop, Idle) /\ \A t \in Threads : PlaceOK(t, Idle)
  BY IdleFields DEF PlaceOK, LoopOK, Sending
<1>6. /\ server \in ServerState /\ server.UpdateTask
  BY DEF Init, ServerState, SharedJobType
<1>7. workLog \subseteq WorkEntry
  BY DEF Init, WorkEntry
<1>8. /\ \A t \in Threads : thread[t] = Idle
      /\ \A c \in Connections : con[c] = fresh
  BY <1>3 DEF Init
<1>9. JobsType
  BY <1>3, <1>4, <1>5, <1>6, <1>7 DEF Init, JobsType, PlaceOK
<1>10. TargetsAreKept
  BY <1>3, <1>5, <1>8, LoopIsThread DEF TargetsAreKept, At
<1>11. JobsAreKnown /\ TargetsAreFair
  BY <1>3, <1>5, <1>8, LoopIsThread DEF JobsAreKnown, TargetsAreFair, At
<1> QED
  BY <1>5, <1>6, <1>8, <1>9, <1>10, <1>11 DEF JobsInv, ThreadsArePlaced, UpdateAlwaysComing

LEMMA SendStep == ASSUME JobsInv, SendJob PROVE JobsInv'
BY WhichJobStep, SendFailsStep, RegisterStep, PushOwnStep, PushSharedStep DEF SendJob

LEMMA UpdateStep == ASSUME JobsInv, NEW t \in Threads, UpdateJob(t) PROVE JobsInv'
BY StartStep, ServerStep, NameStep, EnterStep, NoBytesStep, TooBigStep, WakeStep DEF UpdateJob

LEMMA StutterStep == ASSUME JobsInv, UNCHANGED vars PROVE JobsInv'
BY DEF vars, JobsInv, JobsType, ThreadsArePlaced, PlaceOK, UpdateAlwaysComing, InQuickUpdate,
       TargetsAreKept, HandlerOK, NoName, HasName, IdsOnce, At, JobsAreKnown, TargetsAreFair,
       Coming, WillWake, GetsJob, InLine, Good, Current, Entry, JudgedBy, HasTarget, TargetOf, Elements

LEMMA JobsNext == JobsInv /\ [Next]_vars => JobsInv'
<1> SUFFICES ASSUME JobsInv, [Next]_vars PROVE JobsInv'
  OBVIOUS
<1>1. CASE Miner
  BY <1>1, MinerStep
<1>2. CASE EventLoop
  <2>1. CASE \E c \in Connections : RunTask(c)
    BY <2>1, RunTaskStep
  <2>2. CASE PeriodicUpdate
    BY <2>2, StartStep
  <2> QED
    BY <1>2, <2>1, <2>2, WakeNodesStep, QuickUpdateStep, NextClientStep, SendStep, UpdateStep,
       LoopIsThread DEF EventLoop
<1>3. CASE Announce
  BY <1>3, StartStep, UpdateStep, LoopIsThread DEF Announce
<1>4. CASE UNCHANGED vars
  BY <1>4, StutterStep
<1> QED
  BY <1>1, <1>2, <1>3, <1>4 DEF Next

LEMMA JobsAlways == Spec => []JobsInv
BY JobsInit, JobsNext, PTL DEF Spec

\* The next update of the job for all is always scheduled or under way, whatever
\* fails in between, and however blockChanged and updateBlocks meet the server's own.
THEOREM UpdatesAreComing == Spec => []UpdateAlwaysComing
<1>1. JobsInv => UpdateAlwaysComing
  BY DEF JobsInv
<1> QED
  BY <1>1, JobsAlways, PTL

\* Who is at rest is not about to get a job.
LEMMA AtRest == ASSUME JobsInv, NEW c \in Connections, Settled(c) PROVE ~GetsJob(c)
<1>1. thread[Loop].pc = "idle" /\ \A t \in Threads : thread[t].pc = "idle"
  BY LoopIsThread DEF Settled, At
<1>2. ~Coming
  BY <1>1 DEF Settled, Coming, WillWake
<1>3. ~InLine(c)
  BY <1>1, HowPlaced, LoopIsThread DEF InLine, LoopOK, Sending
<1> QED
  BY <1>2, <1>3 DEF GetsJob, Settled

\* Without failures, a miner at rest works on a job the pool knows, of this block.
THEOREM WorkIsJudged == Spec => []WorkIsKnown
<1>1. JobsInv => WorkIsKnown
  <2> SUFFICES ASSUME JobsInv, NEW c \in Connections, Settled(c), faults = 0, mined[c].user # None
               PROVE  Verdict(mined[c].user, mined[c].id) = "judged"
    BY DEF WorkIsKnown
  <2>1. Good(mined[c].user, mined[c].id)
    BY AtRest DEF JobsInv, JobsAreKnown, Settled
  <2>2. \E w \in workLog : w.user = mined[c].user
    BY <2>1 DEF Good, Entry
  <2> QED
    BY <2>1, <2>2 DEF Good, Current, Verdict
<1> QED
  BY <1>1, JobsAlways, PTL

\* Without failures, a miner at rest meets the target its shares are held against
\* when it meets the one it was told.
THEOREM TargetsAreAsTold == Spec => []NoHarsher
<1>1. JobsInv => NoHarsher
  BY AtRest DEF JobsInv, NoHarsher, TargetsAreFair, Settled
<1> QED
  BY <1>1, JobsAlways, PTL

-----------------------------------------------------------------------------
\* The schedule.  Its inductive invariant says what each task and each entry of
\* the heap are, that no task is without its entry, and that the loop's clock is
\* not ahead.

Entries == [at : Sch!Times, task : Tasks]
Dicts == UNION {[S -> Sch!Times] : S \in SUBSET Tasks}
Heaps == UNION {[E -> Nat \ {0}] : E \in SUBSET Entries}
Schedules == [dict : Dicts, heap : Heaps]
InHeap(s) == \A o \in DOMAIN s.dict : Sch!Entry(o, s.dict[o]) \in DOMAIN s.heap

SchInv ==
  /\ sch \in Schedules /\ InHeap(sch)
  /\ now \in Sch!Times /\ loop.timeNow \in Nat /\ loop.timeNow <= now
  /\ loop = [pc |-> loop.pc, timeNow |-> loop.timeNow, running |-> loop.running]
  /\ loop.pc # "run" => loop.running = None

LEMMA EntryFields ==
  ASSUME NEW o, NEW t PROVE Sch!Entry(o, t).at = t /\ Sch!Entry(o, t).task = o
BY DEF Sch!Entry

\* A heap that is built anew holds what was there or has just been scheduled.
LEMMA HeapBuilt ==
  ASSUME NEW dict \in Dicts
  PROVE  /\ Sch!Built(dict) \in Schedules /\ InHeap(Sch!Built(dict)) /\ Sch!Built(dict).dict = dict
         /\ DOMAIN Sch!Built(dict).heap = {Sch!Entry(o, dict[o]) : o \in DOMAIN dict}
<1>1. PICK heap : heap = [e \in {Sch!Entry(o, dict[o]) : o \in DOMAIN dict} |-> 1]
  OBVIOUS
<1>2. Sch!Built(dict) = [dict |-> dict, heap |-> heap]
  BY <1>1 DEF Sch!Built, Sch!SetToBag
<1>3. DOMAIN heap \subseteq Entries
  BY <1>1 DEF Dicts, Entries, Sch!Entry
<1>4. heap \in [DOMAIN heap -> Nat \ {0}]
  BY <1>1
<1>5. heap \in Heaps
  BY <1>3, <1>4 DEF Heaps
<1> QED
  BY <1>1, <1>2, <1>5 DEF Schedules, InHeap

LEMMA TimeEntered ==
  ASSUME NEW dict \in Dicts, NEW o \in Tasks, NEW t \in Sch!Times,
         NEW new, new = Sch!With(dict, o, t)
  PROVE  new \in Dicts
<1>1. dict \in [DOMAIN dict -> Sch!Times] /\ DOMAIN dict \in SUBSET Tasks
  BY DEF Dicts
<1>2. new = [p \in DOMAIN dict \cup {o} |-> IF p = o THEN t ELSE dict[p]]
  BY DEF Sch!With
<1>3. new \in [DOMAIN dict \cup {o} -> Sch!Times]
  BY <1>1, <1>2
<1> QED
  BY <1>1, <1>3 DEF Dicts

LEMMA TimeLeft ==
  ASSUME NEW dict \in Dicts, NEW o, NEW new, new = Sch!Without(dict, o)
  PROVE  new \in Dicts
<1>1. dict \in [DOMAIN dict -> Sch!Times] /\ DOMAIN dict \in SUBSET Tasks
  BY DEF Dicts
<1>2. new = [p \in DOMAIN dict \ {o} |-> dict[p]]
  BY DEF Sch!Without
<1>3. new \in [DOMAIN dict \ {o} -> Sch!Times]
  BY <1>1, <1>2
<1> QED
  BY <1>1, <1>3 DEF Dicts

LEMMA ItemSet ==
  ASSUME NEW s \in Schedules, InHeap(s), NEW o \in Tasks, NEW t \in Sch!Times,
         NEW r, r = Sch!SetItem(s, o, t)
  PROVE  /\ r \in Schedules /\ InHeap(r) /\ r.dict = Sch!With(s.dict, o, t)
         /\ DOMAIN r.heap \subseteq DOMAIN s.heap \cup {Sch!Entry(o, t)}
<1>1. s.dict \in Dicts /\ s.heap \in Heaps
  BY DEF Schedules
<1>2. PICK dict \in Dicts :
        /\ dict = Sch!With(s.dict, o, t) /\ DOMAIN dict = DOMAIN s.dict \cup {o} /\ dict[o] = t
        /\ \A p \in DOMAIN s.dict \ {o} : dict[p] = s.dict[p]
  <2>1. PICK old \in Dicts : old = s.dict
    BY <1>1
  <2>2. PICK new : new = Sch!With(old, o, t)
    OBVIOUS
  <2>3. new \in Dicts
    BY <2>2, TimeEntered
  <2>4. /\ DOMAIN new = DOMAIN old \cup {o} /\ new[o] = t
        /\ \A p \in DOMAIN old \ {o} : new[p] = old[p]
    BY <2>2 DEF Sch!With
  <2> QED
    BY <2>1, <2>2, <2>3, <2>4
<1>3. \A p \in DOMAIN dict : Sch!Entry(p, dict[p]) \in DOMAIN s.heap \cup {Sch!Entry(o, t)}
  BY <1>2 DEF InHeap
<1>4. CASE Sch!Overgrown(s, dict)
  <2>1. r = Sch!Built(dict)
    BY <1>2, <1>4 DEF Sch!SetItem
  <2> QED
    BY <1>2, <1>3, <2>1, HeapBuilt
<1>5. CASE ~Sch!Overgrown(s, dict)
  <2>1. PICK heap : /\ heap = Sch!(+)(s.heap, Sch!SetToBag({Sch!Entry(o, t)}))
                    /\ r = [dict |-> dict, heap |-> heap]
    BY <1>2, <1>5 DEF Sch!SetItem
  <2>2. /\ DOMAIN heap = DOMAIN s.heap \cup {Sch!Entry(o, t)}
        /\ \A e \in DOMAIN heap : heap[e] = (IF e \in DOMAIN s.heap THEN s.heap[e] ELSE 0)
                                           + (IF e = Sch!Entry(o, t) THEN 1 ELSE 0)
        /\ heap = [e \in DOMAIN heap |-> heap[e]]
    BY <2>1 DEF Sch!(+), Sch!SetToBag
  <2>3. DOMAIN s.heap \subseteq Entries /\ \A e \in DOMAIN s.heap : s.heap[e] \in Nat \ {0}
    BY <1>1 DEF Heaps
  <2>4. \A e \in DOMAIN heap : heap[e] \in Nat \ {0}
    BY <2>2, <2>3
  <2>5. Sch!Entry(o, t) \in Entries
    BY DEF Sch!Entry, Entries
  <2>6. heap \in [DOMAIN heap -> Nat \ {0}] /\ DOMAIN heap \subseteq Entries
    BY <2>2, <2>3, <2>4, <2>5
  <2>7. heap \in Heaps
    BY <2>6 DEF Heaps
  <2> QED
    BY <1>2, <1>3, <2>1, <2>2, <2>7 DEF Schedules, InHeap
<1> QED
  BY <1>4, <1>5

LEMMA ItemDeleted ==
  ASSUME NEW s \in Schedules, InHeap(s), NEW o \in DOMAIN s.dict, NEW r, r = Sch!DelItem(s, o)
  PROVE  /\ r \in Schedules /\ InHeap(r) /\ r.dict = Sch!Without(s.dict, o)
         /\ DOMAIN r.heap \subseteq DOMAIN s.heap
<1>1. s.dict \in Dicts /\ s.heap \in Heaps
  BY DEF Schedules
<1>2. PICK dict \in Dicts :
        /\ dict = Sch!Without(s.dict, o) /\ DOMAIN dict = DOMAIN s.dict \ {o}
        /\ \A p \in DOMAIN s.dict \ {o} : dict[p] = s.dict[p]
  <2>1. PICK old \in Dicts : old = s.dict
    BY <1>1
  <2>2. PICK new : new = Sch!Without(old, o)
    OBVIOUS
  <2>3. new \in Dicts
    BY <2>2, TimeLeft
  <2>4. /\ DOMAIN new = DOMAIN old \ {o}
        /\ \A p \in DOMAIN old \ {o} : new[p] = old[p]
    BY <2>2 DEF Sch!Without
  <2> QED
    BY <2>1, <2>2, <2>3, <2>4
<1>3. \A p \in DOMAIN dict : Sch!Entry(p, dict[p]) \in DOMAIN s.heap
  BY <1>2 DEF InHeap
<1>4. CASE r = Sch!Built(dict)
  BY <1>2, <1>3, <1>4, HeapBuilt
<1>5. CASE r = [s EXCEPT !.dict = dict]
  <2>1. r \in Schedules /\ r.dict = dict /\ r.heap = s.heap
    BY <1>1, <1>2, <1>5 DEF Schedules
  <2> QED
    BY <1>2, <1>3, <2>1 DEF InHeap
<1> QED
  BY <1>2, <1>4, <1>5 DEF Sch!DelItem

\* What is thrown away is earlier than everything that counts.
LEMMA HeapPruned ==
  ASSUME NEW s \in Schedules, InHeap(s), NEW r, r = Sch!Pruned(s)
  PROVE  /\ r \in Schedules /\ InHeap(r) /\ r.dict = s.dict
         /\ DOMAIN r.heap \subseteq DOMAIN s.heap
<1>1. s.dict \in Dicts /\ s.heap \in Heaps
  BY DEF Schedules
<1>2. PICK heap : heap = [e \in DOMAIN s.heap \ Sch!Skipped(s) |-> s.heap[e]]
  OBVIOUS
<1>3. r = [s EXCEPT !.heap = heap]
  BY <1>2 DEF Sch!Pruned
<1>4. DOMAIN heap \subseteq DOMAIN s.heap /\ DOMAIN s.heap \subseteq Entries
  BY <1>1, <1>2 DEF Heaps
<1>5. heap \in [DOMAIN heap -> Nat \ {0}]
  BY <1>1, <1>2 DEF Heaps
<1>6. heap \in Heaps
  BY <1>4, <1>5 DEF Heaps
<1>7. r \in Schedules /\ r.dict = s.dict /\ r.heap = heap
  BY <1>1, <1>3, <1>6 DEF Schedules
<1>8. \A p \in DOMAIN s.dict : Sch!Entry(p, s.dict[p]) \notin Sch!Skipped(s)
  <2>1. TAKE p \in DOMAIN s.dict
  <2>2. PICK e \in DOMAIN s.heap : e = Sch!Entry(p, s.dict[p])
    BY DEF InHeap
  <2>3. e.task = p /\ e.at \in Nat
    BY <1>1, <2>2, EntryFields DEF Dicts, Sch!Times
  <2>4. e \in Sch!Counting(s)
    BY <2>2, <2>3 DEF Sch!Counting, Sch!BagToSet
  <2>5. ~(e.at < e.at)
    BY <2>3
  <2> QED
    BY <2>2, <2>4, <2>5 DEF Sch!Skipped
<1> QED
  BY <1>2, <1>4, <1>7, <1>8 DEF InHeap

LEMMA Shifted ==
  ASSUME NEW s \in Schedules, InHeap(s), NEW e \in Sch!Counting(s), NEW r, r = Sch!Shift(s, e)
  PROVE  /\ r \in Schedules /\ InHeap(r) /\ r.dict = Sch!Without(s.dict, e.task)
         /\ DOMAIN r.heap \subseteq DOMAIN s.heap
         /\ e \in Entries /\ e.task \in DOMAIN s.dict /\ e \in DOMAIN s.heap
<1>1. s.dict \in Dicts /\ s.heap \in Heaps
  BY DEF Schedules
<1>2. e \in DOMAIN s.heap /\ e.task \in DOMAIN s.dict /\ e \in Entries
  BY <1>1 DEF Sch!Counting, Sch!BagToSet, Heaps
<1>3. e.task \in Tasks /\ e.at \in Sch!Times
  BY <1>2 DEF Entries
<1>4. PICK dict \in Dicts :
        /\ dict = Sch!Without(s.dict, e.task) /\ DOMAIN dict = DOMAIN s.dict \ {e.task}
        /\ \A p \in DOMAIN s.dict \ {e.task} : dict[p] = s.dict[p]
  <2>1. PICK old \in Dicts : old = s.dict
    BY <1>1
  <2>2. PICK new : new = Sch!Without(old, e.task)
    OBVIOUS
  <2>3. new \in Dicts
    BY <2>2, TimeLeft
  <2>4. /\ DOMAIN new = DOMAIN old \ {e.task}
        /\ \A p \in DOMAIN old \ {e.task} : new[p] = old[p]
    BY <2>2 DEF Sch!Without
  <2> QED
    BY <2>1, <2>2, <2>3, <2>4
<1>5. PICK left \in Schedules : /\ left = Sch!Pruned(s) /\ InHeap(left) /\ left.dict = s.dict
                                /\ DOMAIN left.heap \subseteq DOMAIN s.heap
  BY HeapPruned
<1>6. left.heap \in Heaps
  BY <1>5 DEF Schedules
<1>7. PICK heap : heap = Sch!(-)(left.heap, Sch!SetToBag({e})) /\ r = [dict |-> dict, heap |-> heap]
  BY <1>4, <1>5 DEF Sch!Shift
<1>8. PICK rest : rest = [d \in DOMAIN left.heap |-> IF d = e THEN left.heap[d] - 1 ELSE left.heap[d]]
  OBVIOUS
<1>9. heap = [d \in {c \in DOMAIN rest : rest[c] > 0} |-> rest[d]]
  BY <1>7, <1>8 DEF Sch!(-), Sch!SetToBag
<1>10. \A d \in DOMAIN left.heap : left.heap[d] \in Nat \ {0} /\ d \in Entries
  BY <1>6 DEF Heaps
<1>11. \A d \in DOMAIN rest : rest[d] \in Nat
  BY <1>8, <1>10
<1>12. heap \in [DOMAIN heap -> Nat \ {0}] /\ DOMAIN heap \subseteq Entries /\ DOMAIN heap \subseteq DOMAIN left.heap
  BY <1>8, <1>9, <1>10, <1>11
<1>13. heap \in Heaps
  BY <1>12 DEF Heaps
<1>14. \A d \in DOMAIN left.heap : d # e => d \in DOMAIN heap
  BY <1>8, <1>9, <1>10
<1>15. \A p \in DOMAIN dict : Sch!Entry(p, dict[p]) \in DOMAIN left.heap /\ Sch!Entry(p, dict[p]) # e
  BY <1>4, <1>5, EntryFields DEF InHeap
<1> QED
  BY <1>2, <1>4, <1>5, <1>7, <1>12, <1>13, <1>14, <1>15 DEF Schedules, InHeap

\* A change of the schedule keeps what Timers asks for when no time of a task is new,
\* but those that are meant to be.
LEMMA TimesKept ==
  ASSUME SchInv, sch' \in Schedules, InHeap(sch'), NEW new \in [Tasks -> SUBSET Sch!Times],
         \A e \in DOMAIN sch'.heap : e \in DOMAIN sch.heap \/ e.at \in new[e.task]
  PROVE  Sch!Promised!Keeps(new)
<1>1. PICK counts : counts = [o \in Tasks |-> {e.at : e \in {f \in DOMAIN sch'.heap : f.task = o}}]
  OBVIOUS
<1>2. PICK before : before = [o \in Tasks |-> {e.at : e \in {f \in DOMAIN sch.heap : f.task = o}}]
  OBVIOUS
<1>3. DOMAIN sch'.heap \subseteq Entries /\ DOMAIN sch'.dict \subseteq Tasks
  BY DEF Schedules, Heaps, Dicts
<1>4. counts \in [Tasks -> SUBSET Sch!Times]
  BY <1>1, <1>3 DEF Entries
<1>5. \A o \in Tasks : counts[o] \subseteq before[o] \cup new[o]
  <2>1. TAKE o \in Tasks
  <2>2. \A e \in DOMAIN sch'.heap : e.task = o => e.at \in before[o] \cup new[o]
    BY <1>2
  <2> QED
    BY <1>1, <2>2
<1>6. \A o \in DOMAIN sch'.dict : sch'.dict[o] \in counts[o]
  <2>1. TAKE o \in DOMAIN sch'.dict
  <2>2. PICK e \in DOMAIN sch'.heap : e = Sch!Entry(o, sch'.dict[o])
    BY DEF InHeap
  <2>3. e.at = sch'.dict[o] /\ e.task = o /\ o \in Tasks
    BY <1>3, <2>2, EntryFields
  <2> QED
    BY <1>1, <2>3
<1> QED
  BY <1>1, <1>2, <1>4, <1>5, <1>6 DEF Sch!Promised!Keeps, Sch!BagToSet, Sch!Promised!Times, Sch!Times

\* Every step keeps the invariant, and is a step of Timers or none.
Kept == SchInv' /\ [Sch!Promised!TimersNext]_(Sch!Promised!timers)

LEMMA ScheduledStep ==
  ASSUME MaxTime \in Nat \ {0}, SchInv, NEW o \in Tasks, NEW t \in Sch!Times,
         sch' = Sch!SetItem(sch, o, t), UNCHANGED <<now, loop>>
  PROVE  Kept
<1>1. sch \in Schedules /\ InHeap(sch)
  BY DEF SchInv
<1>2. /\ sch' \in Schedules /\ InHeap(sch') /\ sch'.dict = Sch!With(sch.dict, o, t)
      /\ DOMAIN sch'.heap \subseteq DOMAIN sch.heap \cup {Sch!Entry(o, t)}
  BY <1>1, ItemSet
<1>3. SchInv'
  BY <1>2 DEF SchInv, InHeap
<1>4. PICK new : new = [[p \in Tasks |-> {}] EXCEPT ![o] = {t}]
  OBVIOUS
<1>5. new \in [Tasks -> SUBSET Sch!Times] /\ t \in new[o]
  BY <1>4
<1>6. \A e \in DOMAIN sch'.heap : e \in DOMAIN sch.heap \/ e.at \in new[e.task]
  BY <1>2, <1>5, EntryFields
<1>7. Sch!Promised!Keeps(new)
  BY <1>2, <1>5, <1>6, TimesKept
<1>8. Sch!Promised!Scheduled(o, t)
  BY <1>2, <1>4, <1>7 DEF Sch!Promised!Scheduled, Sch!Promised!NoNew, Sch!With
<1> QED
  BY <1>3, <1>8 DEF Kept, Sch!Promised!TimersNext, Sch!Promised!Times, Sch!Times

LEMMA ClockMoves ==
  ASSUME MaxTime \in Nat \ {0}, SchInv, Sch!Tick
  PROVE  Kept
<1>1. now' = now + 1 /\ now' \in Sch!Times /\ UNCHANGED <<sch, loop>>
  BY DEF SchInv, Sch!Tick, Sch!Times
<1>2. SchInv'
  BY <1>1 DEF SchInv, InHeap, Sch!Times
<1>3. Sch!Promised!Later
  BY <1>1 DEF Sch!Promised!Later
<1> QED
  BY <1>2, <1>3 DEF Kept, Sch!Promised!TimersNext

LEMMA TakenOutStep ==
  ASSUME MaxTime \in Nat \ {0}, SchInv, NEW o, Sch!RmSchedule(o)
  PROVE  Kept
<1>1. sch \in Schedules /\ InHeap(sch) /\ o \in DOMAIN sch.dict /\ UNCHANGED <<now, loop>>
  BY DEF SchInv, Sch!RmSchedule
<1>2. /\ sch' \in Schedules /\ InHeap(sch') /\ sch'.dict = Sch!Without(sch.dict, o)
      /\ DOMAIN sch'.heap \subseteq DOMAIN sch.heap
  BY <1>1, ItemDeleted DEF Sch!RmSchedule
<1>3. SchInv'
  BY <1>1, <1>2 DEF SchInv, InHeap
<1>4. PICK new : new = [p \in Tasks |-> {}]
  OBVIOUS
<1>5. Sch!Promised!Keeps(new)
  BY <1>2, <1>4, TimesKept
<1>6. o \in Tasks
  BY <1>1 DEF Schedules, Dicts
<1>7. Sch!Promised!Unscheduled(o)
  BY <1>1, <1>2, <1>4, <1>5 DEF Sch!Promised!Unscheduled, Sch!Promised!TakenOut, Sch!Promised!NoNew, Sch!Without
<1> QED
  BY <1>3, <1>6, <1>7 DEF Kept, Sch!Promised!TimersNext

\* The loop looks at the clock, or finds nothing to run.
LEMMA TurnStep ==
  ASSUME MaxTime \in Nat \ {0}, SchInv, Sch!Turn \/ Sch!Poll \/ Sch!Returns
  PROVE  Kept
<1>1. sch \in Schedules /\ InHeap(sch) /\ now \in Nat /\ UNCHANGED now
  BY DEF SchInv, Sch!Times, Sch!Turn, Sch!Poll, Sch!Returns
<1>2. PICK new : new = [p \in Tasks |-> {}]
  OBVIOUS
<1>3. /\ sch' \in Schedules /\ InHeap(sch') /\ sch'.dict = sch.dict
      /\ DOMAIN sch'.heap \subseteq DOMAIN sch.heap
  <2>1. CASE sch' = sch
    BY <1>1, <2>1
  <2>2. CASE sch' = Sch!Pruned(sch)
    BY <1>1, <2>2, HeapPruned
  <2> QED
    BY <2>1, <2>2 DEF Sch!Turn, Sch!Poll, Sch!Returns
<1>4. /\ loop' = [pc |-> loop'.pc, timeNow |-> loop'.timeNow, running |-> loop'.running]
      /\ loop'.timeNow \in Nat /\ loop'.timeNow <= now'
      /\ loop'.pc # "run" => loop'.running = None
      /\ loop'.running = loop.running \/ (Sch!Returns /\ loop'.running = None /\ sch' = sch)
  <2>1. CASE Sch!Turn
    <3>1. loop' = [pc |-> "schedule", timeNow |-> now, running |-> loop.running]
      BY <2>1 DEF SchInv, Sch!Turn
    <3>2. loop.running = None
      BY <2>1 DEF SchInv, Sch!Turn
    <3> QED
      BY <1>1, <3>1, <3>2
  <2>2. CASE Sch!Returns
    BY <1>1, <2>2 DEF SchInv, Sch!Returns
  <2>3. CASE Sch!Poll
    BY <1>1, <2>3 DEF SchInv, Sch!Poll, Sch!Polling
  <2> QED
    BY <2>1, <2>2, <2>3
<1>5. SchInv'
  BY <1>1, <1>3, <1>4 DEF SchInv, InHeap
<1>6. Sch!Promised!Keeps(new)
  BY <1>2, <1>3, TimesKept
<1>7. CASE loop'.running = loop.running
  <2>1. Sch!Promised!Forget
    BY <1>1, <1>2, <1>3, <1>6, <1>7 DEF Sch!Promised!Forget, Sch!Promised!NoNew
  <2> QED
    BY <1>5, <2>1 DEF Kept, Sch!Promised!TimersNext
<1>8. CASE loop'.running # loop.running
  <2>1. loop.running # None /\ loop'.running = None /\ sch' = sch
    BY <1>4, <1>8
  <2>2. Sch!Promised!Return
    BY <1>1, <2>1 DEF Sch!Promised!Return
  <2> QED
    BY <1>5, <2>2 DEF Kept, Sch!Promised!TimersNext
<1> QED
  BY <1>7, <1>8

\* The loop runs one of the earliest tasks, when a time of it has come.
LEMMA RunStep ==
  ASSUME MaxTime \in Nat \ {0}, SchInv, Sch!RunTask
  PROVE  Kept
<1>1. sch \in Schedules /\ InHeap(sch) /\ now \in Nat /\ UNCHANGED now /\ loop.pc = "schedule"
  BY DEF SchInv, Sch!Times, Sch!RunTask
<1>2. PICK e \in Sch!Counting(sch) :
        /\ e.at <= loop.timeNow /\ sch' = Sch!Shift(sch, e)
        /\ loop' = [loop EXCEPT !.pc = "run", !.running = e.task]
  BY DEF Sch!RunTask, Sch!Earliest
<1>3. /\ sch' \in Schedules /\ InHeap(sch') /\ sch'.dict = Sch!Without(sch.dict, e.task)
      /\ DOMAIN sch'.heap \subseteq DOMAIN sch.heap
      /\ e \in Entries /\ e.task \in DOMAIN sch.dict /\ e \in DOMAIN sch.heap
  BY <1>1, <1>2, Shifted
<1>4. PICK o \in Tasks, at \in Sch!Times : o = e.task /\ at = e.at
  BY <1>3 DEF Entries
<1>5. /\ loop'.running = o /\ loop'.timeNow = loop.timeNow /\ loop'.pc = "run"
      /\ loop' = [pc |-> loop'.pc, timeNow |-> loop'.timeNow, running |-> loop'.running]
      /\ loop.running = None
  BY <1>1, <1>2, <1>4 DEF SchInv
<1>6. SchInv'
  BY <1>1, <1>3, <1>5 DEF SchInv, InHeap
<1>7. PICK new : new = [p \in Tasks |-> {}]
  OBVIOUS
<1>8. Sch!Promised!Keeps(new)
  BY <1>3, <1>7, TimesKept
<1>9. Sch!Promised!TakenOut(o)
  BY <1>1, <1>3, <1>4, <1>7, <1>8 DEF Sch!Promised!TakenOut, Sch!Promised!NoNew, Sch!Without
<1>10. at <= now
  BY <1>1, <1>2, <1>4 DEF SchInv, Sch!Times
<1>11. at \in {f.at : f \in {d \in DOMAIN sch.heap : d.task = o}}
  BY <1>3, <1>4
<1>12. Sch!Promised!Run(o)
  BY <1>4, <1>5, <1>9, <1>10, <1>11 DEF Sch!Promised!Run, Sch!BagToSet
<1> QED
  BY <1>6, <1>12 DEF Kept, Sch!Promised!TimersNext

LEMMA SchNext ==
  ASSUME MaxTime \in Nat \ {0}, SchInv, [Sch!Next]_(Sch!vars)
  PROVE  Kept
<1>1. CASE \E o \in Tasks : \E t \in Sch!Times : Sch!ScheduleLater(o, t)
  BY <1>1, ScheduledStep DEF Sch!ScheduleLater
<1>2. CASE \E o \in Tasks : Sch!ScheduleNow(o)
  <2>1. 0 \in Sch!Times
    BY DEF Sch!Times
  <2> QED
    BY <1>2, <2>1, ScheduledStep DEF Sch!ScheduleNow
<1>3. CASE \E o \in Tasks : Sch!RmSchedule(o)
  BY <1>3, TakenOutStep
<1>4. CASE UNCHANGED Sch!vars
  BY <1>4 DEF Sch!vars, Kept, SchInv, InHeap, Sch!Promised!timers
<1> QED
  BY <1>1, <1>2, <1>3, <1>4, ClockMoves, TurnStep, RunStep DEF Sch!Next

LEMMA SchBegins ==
  ASSUME MaxTime \in Nat \ {0}, Sch!Init
  PROVE  SchInv /\ Sch!Promised!TimersInit
<1>1. PICK dict : dict = <<>>
  OBVIOUS
<1>2. dict \in [{} -> Sch!Times] /\ DOMAIN dict = {}
  BY <1>1
<1>3. dict \in Dicts
  BY <1>2 DEF Dicts
<1>4. sch = Sch!Built(dict) /\ now = 1 /\ loop = Sch!Polling
  BY <1>1 DEF Sch!Init, Sch!EmptySchedule
<1>5. sch \in Schedules /\ InHeap(sch) /\ sch.dict = <<>> /\ DOMAIN sch.heap = {}
  BY <1>1, <1>2, <1>3, <1>4, HeapBuilt
<1>6. SchInv
  BY <1>4, <1>5 DEF SchInv, Sch!Polling, Sch!Times
<1>7. Sch!Promised!TimersInit
  BY <1>4, <1>5 DEF Sch!Promised!TimersInit, Sch!Promised!Times, Sch!Polling, Sch!BagToSet
<1> QED
  BY <1>6, <1>7

\* No scheduled task is ever without an entry for its time in the heap: it is found,
\* and the loop never looks into an empty heap, whatever is replaced, taken out,
\* thrown away or built anew.
THEOREM NoneIsForgotten == MaxTime \in Nat \ {0} => (Sch!Spec => []NeverForgotten)
<1> SUFFICES ASSUME MaxTime \in Nat \ {0} PROVE Sch!Spec => []NeverForgotten
  OBVIOUS
<1>1. Sch!Init => SchInv
  BY SchBegins
<1>2. SchInv /\ [Sch!Next]_(Sch!vars) => SchInv'
  BY SchNext DEF Kept
<1>3. SchInv => NeverForgotten
  BY DEF SchInv, InHeap, NeverForgotten, Sch!NeverForgotten, Sch!BagIn, Sch!BagToSet
<1> QED
  BY <1>1, <1>2, <1>3, PTL DEF Sch!Spec

\* The loop and its heap do what a server may expect of its timers: a task runs at
\* most once for being scheduled, only while it is, and not before its time.
THEOREM TimesAreKept == MaxTime \in Nat \ {0} => (Sch!Spec => KeepsTimes)
<1> SUFFICES ASSUME MaxTime \in Nat \ {0} PROVE Sch!Spec => KeepsTimes
  OBVIOUS
<1>1. Sch!Init => SchInv /\ Sch!Promised!TimersInit
  BY SchBegins
<1>2. SchInv /\ [Sch!Next]_(Sch!vars) => SchInv' /\ [Sch!Promised!TimersNext]_(Sch!Promised!timers)
  BY SchNext DEF Kept
<1> QED
  BY <1>1, <1>2, PTL DEF Sch!Spec, KeepsTimes, Sch!KeepsTimes, Sch!Promised!TimersSpec
=============================================================================
