------------------------------- MODULE Stratum -------------------------------
(***************************************************************************)
(* The stratum server (stratumserver.py) with the work registration and    *)
(* look-up of eloipool.py it relies on: jobs are made for all (updateJob)   *)
(* or for one user name (sendJob), by the server's own event loop and, at   *)
(* the same time, by the threads that run blockChanged and updateBlocks.    *)
(***************************************************************************)
EXTENDS Naturals, Sequences, FiniteSets

CONSTANTS
  Connections,    \* connections a miner may open
  Users,          \* user names
  Announcers,     \* the threads that run blockChanged and updateBlocks
  Loop,           \* the thread of the server's event loop
  Targets,        \* share targets getTarget may answer
  ShareTarget,    \* config.ShareTarget, the easiest
  KeepTargets,    \* jobs whose target a handler keeps beside a new one (4)
  MaxBlock,       \* bound on blocks
  MaxJobs,        \* bound on jobs made for all
  MaxFaults,      \* bound on failures
  None

ASSUME NamesAssumption ==
  /\ Loop \notin Announcers
  /\ None \notin Users \cup Connections
ASSUME TargetsAssumption ==
  /\ Targets \subseteq Nat /\ ShareTarget \in Targets
  /\ \A t \in Targets : t <= ShareTarget
  /\ KeepTargets \in Nat
  /\ MaxBlock \in Nat /\ MaxJobs \in Nat /\ MaxFaults \in Nat

VARIABLES
  block,      \* MM.currentBlock
  workLog,    \* the entries of workLog: [user, id, block]
  server,     \* the StratumServer object
  con,        \* the StratumHandler of each connection
  thread,     \* where each thread is, with its locals
  mined,      \* what the miner of each connection was sent last
  faults      \* failures so far

vars == <<block, workLog, server, con, thread, mined, faults>>

Threads == Announcers \cup {Loop}
JobIds == 0 .. MaxJobs + Cardinality(Connections)
Blocks == 1 .. MaxBlock

-----------------------------------------------------------------------------
\* Values

NoJob == [id |-> 0, user |-> None, block |-> 0, target |-> 0]
Idle == [pc |-> "idle", con |-> None, user |-> None, left |-> {}, after |-> "idle", quick |-> {},
         target |-> 0, id |-> 0, block |-> 0, shared |-> None]
New == [state |-> "new", users |-> <<>>, task |-> FALSE, targets |-> <<>>]
Closed == [New EXCEPT !.state = "closed"]

Subscribed == {c \in Connections : con[c].state = "subscribed"}
Elements(s) == {s[i] : i \in DOMAIN s}
PrimaryUser(c) == IF con[c].users = <<>> THEN None ELSE con[c].users[1]
HasTarget(c, id) == \E e \in Elements(con[c].targets) : e.id = id
TargetOf(c, id) == (CHOOSE e \in Elements(con[c].targets) : e.id = id).target

\* workLog.setdefault(user, {})[id] = work
Entry(user, id) == {w \in workLog : w.user = user /\ w.id = id}
Registered(user, id, b) ==
  (workLog \ Entry(user, id)) \cup {[user |-> user, id |-> id, block |-> b]}

At(t, pc) == thread[t].pc = pc
Goto(t, pc) == thread' = [thread EXCEPT ![t].pc = pc]

\* Jobs that are under way count as made; a failure may happen as long as another job can make good for it.
UnderWay == {t \in Threads : \/ thread[t].pc \in {"forget", "update", "count"}
                             \/ thread[t].quick # {} /\ thread[t].pc = "next"}
RoomFor(k) == server.n + Cardinality(UnderWay) + k <= MaxJobs
Fail == faults < MaxFaults /\ RoomFor(1) /\ faults' = faults + 1

-----------------------------------------------------------------------------
\* Connections.  Messages are handled whole by the event loop.

\* NetworkListener.handle_read: no new connections while rejecting.
Connect(c) ==
  /\ At(Loop, "idle") /\ con[c].state = "new" /\ ~server.rejecting
  /\ con' = [con EXCEPT ![c].state = "open"]
  /\ UNCHANGED <<block, workLog, server, thread, mined, faults>>

\* mining.subscribe: the client is one of _Clients from now on, and gets a job
\* at once.  (Session ids are in Sessions.)
Subscribe(c) ==
  /\ At(Loop, "idle") /\ con[c].state \in {"open", "subscribed"} /\ ~con[c].task
  /\ con' = [con EXCEPT ![c].state = "subscribed", ![c].task = TRUE]
  /\ UNCHANGED <<block, workLog, server, thread, mined, faults>>

\* mining.authorize of a valid user: the task that asks for the client's version
\* is replaced by the one that sends a job for this user.
Authorize(c, u) ==
  /\ At(Loop, "idle") /\ con[c].state \in {"open", "subscribed"}
  /\ con' = [con EXCEPT ![c].task = TRUE,
                        ![c].users = IF u \in Elements(@) THEN @ ELSE Append(@, u)]
  /\ UNCHANGED <<block, workLog, server, thread, mined, faults>>

Close(c) ==
  /\ con' = [con EXCEPT ![c] = Closed]
  /\ mined' = [mined EXCEPT ![c] = NoJob]
Disconnect(c) ==
  /\ At(Loop, "idle") /\ con[c].state \notin {"new", "closed"}
  /\ Close(c)
  /\ UNCHANGED <<block, workLog, server, thread, faults>>

\* LookupWork(username, jobid); it raises RejectedShare, never KeyError, so the
\* look-up of the shared job that checkShare has for a KeyError is not reached.
\* A job of another block is stale.
Verdict(user, id) ==
  CASE ~\E w \in workLog : w.user = user   -> "unknown-user"
    [] (\E w \in workLog : w.user = user)
       /\ Entry(user, id) = {}             -> "unknown-work"
    [] \E w \in Entry(user, id) : w.block # block -> "stale"
    [] OTHER                               -> "judged"

\* The target a share for this job has to meet.
JudgedBy(c, id) == IF HasTarget(c, id) THEN TargetOf(c, id) ELSE ShareTarget

\* mining.submit: an accepted share may be the one that asks for a new
\* difficulty (quickDifficultyUpdate).
Submit(c) ==
  /\ At(Loop, "idle") /\ con[c].state = "subscribed"
  /\ \E u \in Elements(con[c].users) :
       /\ Verdict(u, mined[c].id) = "judged"
       /\ u \notin server.pending
       /\ server' = [server EXCEPT !.pending = @ \cup {u}, !.quick = TRUE]
  /\ UNCHANGED <<block, workLog, con, thread, mined, faults>>

-----------------------------------------------------------------------------
\* sendJob, in the event loop: for a client's own task, for all clients after a
\* wake-up (_wakeNodes), for those whose difficulty is to change (doQuickUpdate).

RunTask(c) ==
  /\ At(Loop, "idle") /\ con[c].task
  /\ con' = [con EXCEPT ![c].task = FALSE]
  /\ thread' = [thread EXCEPT ![Loop] = [Idle EXCEPT !.pc = "target", !.con = c]]
  /\ UNCHANGED <<block, workLog, server, mined, faults>>

WakeNodes ==
  /\ At(Loop, "idle") /\ server.WakeRequest
  /\ server' = [server EXCEPT !.WakeRequest = FALSE]
  /\ thread' = [thread EXCEPT ![Loop] =
       [Idle EXCEPT !.pc = "next", !.left = Subscribed, !.after = "next"]]
  /\ UNCHANGED <<block, workLog, con, mined, faults>>

QuickUpdate ==
  /\ At(Loop, "idle") /\ server.quick /\ RoomFor(2)
  /\ server' = [server EXCEPT !.pending = {}, !.quick = FALSE]
  /\ thread' = [thread EXCEPT ![Loop] =
       [Idle EXCEPT !.pc = "next", !.left = Subscribed, !.after = "next",
                    !.quick = server.pending]]
  /\ UNCHANGED <<block, workLog, con, mined, faults>>

\* (_wakeNodes that forgets the request when it has sent the jobs.)
LateForget ==
  /\ At(Loop, "next")
  /\ UNCHANGED <<block, workLog, con, mined, faults>>
  /\ LET here == thread[Loop] IN
     \/ /\ here.left = {}
        /\ thread' = [thread EXCEPT ![Loop] = Idle]
        /\ server' = [server EXCEPT !.WakeRequest = FALSE]
     \/ \E c \in here.left :
          /\ thread' = [thread EXCEPT ![Loop] =
               [here EXCEPT !.left = @ \ {c}, !.con = c, !.pc = "target"]]
          /\ UNCHANGED server
\* The next client.  doQuickUpdate passes those by that it is not about, and
\* makes a new job when the client has the present one with its old target.
NextClient ==
  /\ At(Loop, "next")
  /\ UNCHANGED <<block, workLog, server, con, mined, faults>>
  /\ LET here == thread[Loop] IN
     \/ /\ here.left = {}
        /\ thread' = [thread EXCEPT ![Loop] = Idle]
     \/ \E c \in here.left :
          LET asked == here.quick = {} \/ here.quick \cap Elements(con[c].users) # {}
              renew == here.quick # {} /\ HasTarget(c, server.JobId)
          IN thread' = [thread EXCEPT ![Loop] =
               [here EXCEPT !.left = @ \ {c},
                            !.con = IF asked THEN c ELSE None,
                            !.pc = IF ~asked THEN "next" ELSE IF renew THEN "count" ELSE "target"]]

\* Done with this client.
Done(pc) == thread' = [thread EXCEPT ![Loop] =
  IF pc = "idle" THEN Idle
  ELSE [Idle EXCEPT !.pc = pc, !.left = thread[Loop].left,
                    !.after = thread[Loop].after, !.quick = thread[Loop].quick]]

\* sendJob raises, as it does on a socket another thread has closed: the loop closes the client whose own task it was, and only
\* logs it otherwise.
Gone(c) == con[c].state = "closed"
SendRaises ==
  IF thread[Loop].after = "idle"
    THEN Close(thread[Loop].con) /\ Done("idle")
    ELSE UNCHANGED <<con, mined>> /\ Done("next")

\* getTarget, for a client with one user name, and set_difficulty when it has
\* changed; then which job: the shared one, or one for the user name, with the
\* server's JobId and the block of this moment (getMC).
WhichJob ==
  LET c == thread[Loop].con IN
  /\ At(Loop, "target")
  /\ ~Gone(c)
  /\ \E target \in (IF Len(con[c].users) = 1 THEN Targets ELSE {ShareTarget}) :
       thread' = [thread EXCEPT ![Loop] = [@ EXCEPT
         !.target = target, !.shared = server.JobBytes, !.user = PrimaryUser(c),
         !.id = server.JobId, !.block = block,
         !.pc = IF PrimaryUser(c) = None THEN "share" ELSE "register"]]
  /\ UNCHANGED <<block, workLog, server, con, mined, faults>>
SendFails ==
  /\ At(Loop, "target")
  /\ IF Gone(thread[Loop].con) THEN UNCHANGED faults ELSE Fail
  /\ SendRaises
  /\ UNCHANGED <<block, workLog, server>>
RegisterJob ==
  LET here == thread[Loop] IN
  /\ At(Loop, "register")
  /\ workLog' = Registered(here.user, here.id, here.block)
  /\ Goto(Loop, "own")
  /\ UNCHANGED <<block, server, con, mined, faults>>

\* (The target of a job that is sent again stays as it was.)
OldTarget(targets, id, target) ==
  LET kept == IF Len(targets) > KeepTargets THEN Tail(targets) ELSE targets
  IN IF \E e \in Elements(kept) : e.id = id THEN kept
     ELSE Append(kept, [id |-> id, target |-> target])
\* JobTargets[self.server.JobId] = target: JobId is read once more.
WithTarget(targets, id, target) ==
  LET kept == IF Len(targets) > KeepTargets THEN Tail(targets) ELSE targets
      entry == [id |-> id, target |-> target]
  IN IF \E e \in Elements(kept) : e.id = id
       THEN [i \in DOMAIN kept |-> IF kept[i].id = id THEN entry ELSE kept[i]]
       ELSE Append(kept, entry)
Push(job) ==
  LET here == thread[Loop] IN
  IF Gone(here.con) THEN SendRaises
  ELSE /\ mined' = [mined EXCEPT ![here.con] = job]
       /\ con' = [con EXCEPT ![here.con].targets = WithTarget(@, server.JobId, here.target)]
       /\ Done(here.after)

\* The work is read back; when that, or the rest of the building, fails the
\* client gets the shared job.
SharedJob == [id |-> thread[Loop].shared.id, user |-> None, block |-> thread[Loop].shared.block,
              target |-> thread[Loop].target]
OwnJob == [id |-> thread[Loop].id, user |-> thread[Loop].user,
           block |-> thread[Loop].block, target |-> thread[Loop].target]
Lost == Entry(thread[Loop].user, thread[Loop].id) = {}
PushOwn ==
  /\ At(Loop, "own") /\ ~Lost
  /\ Push(OwnJob)
  /\ UNCHANGED <<block, workLog, server, faults>>
PushShared ==
  /\ At(Loop, "share") \/ At(Loop, "own")
  /\ IF At(Loop, "share") \/ Lost THEN UNCHANGED faults ELSE Fail
  /\ Push(SharedJob)
  /\ UNCHANGED <<block, workLog, server>>

SendJob == WhichJob \/ SendFails \/ RegisterJob \/ PushOwn \/ PushShared

-----------------------------------------------------------------------------
\* updateJob and updateJobOnly, on any thread and without a lock.

\* MM moves on to a new block and calls blockChanged.
BlockChanged(t) ==
  /\ At(t, "idle") /\ block < MaxBlock /\ RoomFor(2)
  /\ block' = block + 1
  /\ Goto(t, "forget")
  /\ UNCHANGED <<workLog, server, con, mined, faults>>
ForgetWork(t) ==
  /\ At(t, "forget")
  /\ workLog' = {}
  /\ Goto(t, "update")
  /\ UNCHANGED <<block, server, con, mined, faults>>
UpdateBlocks(t) ==
  /\ At(t, "idle") /\ RoomFor(2)
  /\ Goto(t, "update")
  /\ UNCHANGED <<block, workLog, server, con, mined, faults>>
PeriodicUpdate ==
  /\ At(Loop, "idle") /\ server.UpdateTask /\ RoomFor(1)
  /\ server' = [server EXCEPT !.UpdateTask = FALSE]
  /\ Goto(Loop, "update")
  /\ UNCHANGED <<block, workLog, con, mined, faults>>

Count(t) ==
  /\ At(t, "update") \/ At(t, "count")
  /\ server' = [server EXCEPT !.n = @ + 1, !.UpdateTask = @ /\ At(t, "count")]
  /\ Goto(t, "name")
  /\ UNCHANGED <<block, workLog, con, mined, faults>>

\* The id is made from what _JobId is now; getMC gives the current block.
Name(t) ==
  /\ At(t, "name")
  /\ thread' = [thread EXCEPT ![t].pc = "enter", ![t].id = server.n, ![t].block = block]
  /\ UNCHANGED <<block, workLog, server, con, mined, faults>>
EnterShared(t) ==
  /\ At(t, "enter")
  /\ workLog' = Registered(None, thread[t].id, thread[t].block)
  /\ Goto(t, "bytes")
  /\ UNCHANGED <<block, server, con, mined, faults>>

\* What an exception of updateJobOnly does: updateJob schedules the next update
\* all the same; doQuickUpdate ends.
InQuickUpdate(t) == t = Loop /\ thread[t].quick # {}
\* (updateJob without its finally.)
RaiseOut(t) == thread' = [thread EXCEPT ![t] = Idle]
Raise(t) == thread' = [thread EXCEPT ![t] =
  IF InQuickUpdate(t) THEN Idle ELSE [Idle EXCEPT !.pc = "finally"]]

MakeBytes(t) ==
  /\ At(t, "bytes")
  /\ Entry(None, thread[t].id) # {}
  /\ server' = [server EXCEPT
       !.JobBytes = [id |-> thread[t].id, block |-> thread[t].block]]
  /\ Goto(t, "publish")
  /\ UNCHANGED <<block, workLog, con, mined, faults>>
NoBytes(t) ==
  /\ At(t, "bytes")
  /\ IF Entry(None, thread[t].id) = {} THEN UNCHANGED faults ELSE Fail
  /\ Raise(t)
  /\ UNCHANGED <<block, workLog, server, con, mined>>

\* The coinbase is too big for stratum: everybody is sent away, new connections
\* are not taken, and there is another try soon.
TooBig(t) ==
  /\ At(t, "bytes") /\ Entry(None, thread[t].id) # {}
  /\ Fail
  /\ server' = [server EXCEPT !.rejecting = TRUE, !.UpdateTask = TRUE]
  /\ con' = [c \in Connections |-> IF con[c].state = "new" THEN New ELSE Closed]
  /\ mined' = [c \in Connections |-> NoJob]
  /\ IF InQuickUpdate(t)
       THEN thread' = [thread EXCEPT ![t] = Idle]
       ELSE Goto(t, "wake")
  /\ UNCHANGED <<block, workLog>>

\* JobId is set last.  updateJob goes on to ask for the wake-up.
Publish(t) ==
  /\ At(t, "publish")
  /\ server' = [server EXCEPT !.rejecting = FALSE, !.JobId = thread[t].id]
  /\ Goto(t, IF InQuickUpdate(t) THEN "target" ELSE "wake")
  /\ UNCHANGED <<block, workLog, con, mined, faults>>
\* (updateJob that wakes nobody.)
NoWake(t) ==
  /\ At(t, "wake") \/ At(t, "finally")
  /\ server' = [server EXCEPT !.UpdateTask = TRUE]
  /\ thread' = [thread EXCEPT ![t] = Idle]
  /\ UNCHANGED <<block, workLog, con, mined, faults>>
Wake(t) ==
  /\ At(t, "wake") \/ At(t, "finally")
  /\ server' = [server EXCEPT !.UpdateTask = TRUE, !.WakeRequest = @ \/ At(t, "wake")]
  /\ thread' = [thread EXCEPT ![t] = Idle]
  /\ UNCHANGED <<block, workLog, con, mined, faults>>

UpdatePlaces == {"update", "count", "name", "enter", "bytes", "publish", "wake", "finally"}
UpdateJob(t) ==
  \/ ForgetWork(t) \/ Count(t) \/ Name(t) \/ EnterShared(t)
  \/ MakeBytes(t) \/ NoBytes(t) \/ TooBig(t) \/ Publish(t) \/ Wake(t)

-----------------------------------------------------------------------------
\* The first job is made: merkleMaker has been started.
Init ==
  /\ block = 1
  /\ workLog = {[user |-> None, id |-> 1, block |-> 1]}
  /\ server = [n |-> 1, JobId |-> 1, JobBytes |-> [id |-> 1, block |-> 1],
               WakeRequest |-> FALSE, UpdateTask |-> TRUE, rejecting |-> FALSE,
               pending |-> {}, quick |-> FALSE]
  /\ con = [c \in Connections |-> New]
  /\ thread = [t \in Threads |-> Idle]
  /\ mined = [c \in Connections |-> NoJob]
  /\ faults = 0

Miner == \E c \in Connections :
  \/ Connect(c) \/ Subscribe(c) \/ Disconnect(c) \/ Submit(c)
  \/ \E u \in Users : Authorize(c, u)
EventLoop ==
  \/ \E c \in Connections : RunTask(c)
  \/ WakeNodes \/ QuickUpdate \/ NextClient \/ SendJob \/ PeriodicUpdate \/ UpdateJob(Loop)
Announce == \E t \in Announcers : BlockChanged(t) \/ UpdateBlocks(t) \/ UpdateJob(t)

Next == Miner \/ EventLoop \/ Announce
Spec == Init /\ [][Next]_vars

\* The threads run, and the loop gets to everything that waits for it: the wake-up
\* is looked at in every turn (pre_schedule), tasks run in the order of their
\* times.  Miners and new blocks may come or not.
InLoop == NextClient \/ SendJob \/ UpdateJob(Loop)
Fairness ==
  /\ WF_vars(InLoop)
  /\ SF_vars(WakeNodes) /\ SF_vars(QuickUpdate) /\ SF_vars(PeriodicUpdate)
  /\ \A c \in Connections : SF_vars(RunTask(c))
  /\ \A t \in Announcers : WF_vars(UpdateJob(t))
FairSpec == Spec /\ Fairness

-----------------------------------------------------------------------------
\* Types: a handler keeps at most KeepTargets targets beside the newest.
Works == [user : Users \cup {None}, id : JobIds, block : Blocks]
SharedJobs == [id : JobIds, block : Blocks]
TypeOK ==
  /\ block \in Blocks /\ workLog \subseteq Works
  /\ server \in [n : JobIds, JobId : JobIds, JobBytes : SharedJobs,
                 WakeRequest : BOOLEAN, UpdateTask : BOOLEAN, rejecting : BOOLEAN,
                 pending : SUBSET Users, quick : BOOLEAN]
  /\ \A c \in Connections :
       /\ con[c].state \in {"new", "closed", "open", "subscribed"}
       /\ Elements(con[c].users) \subseteq Users
       /\ con[c].task \in BOOLEAN
       /\ Elements(con[c].targets) \subseteq [id : JobIds, target : Targets]
       /\ Len(con[c].targets) <= KeepTargets + 1
  /\ faults \in 0 .. MaxFaults

\* Once there was a job for all, the next update is scheduled or one is under
\* way, whatever failed in between: updateJob schedules in its finally, and
\* updateJobOnly when a job is too big.
UpdateAlwaysComing ==
  \/ server.UpdateTask
  \/ \E t \in Threads : ~InQuickUpdate(t) /\ thread[t].pc \in UpdatePlaces

\* Nothing is about to change what this miner works on.
Settled(c) ==
  /\ con[c].state = "subscribed" /\ ~con[c].task /\ ~server.WakeRequest
  /\ \A t \in Threads : At(t, "idle")

\* Unless something failed, a miner at rest works on what the pool will judge
\* its shares by: work for the block of this moment, registered under the name
\* and the id that it was sent.  blockChanged may forget the work, and another
\* thread replace the ids, at any point of sendJob.
WorkIsKnown ==
  \A c \in Connections : Settled(c) /\ faults = 0 /\ mined[c].user # None =>
    Verdict(mined[c].user, mined[c].id) = "judged"

\* A miner at rest, unless something failed, is not judged by a harder target
\* than the one it was told with its job, although sendJob files the target
\* under a JobId that it reads again after the job was built.
NoHarsher ==
  \A c \in Connections : Settled(c) /\ faults = 0 /\ mined[c] # NoJob =>
    JudgedBy(c, mined[c].id) >= mined[c].target

\* A miner that stays comes to work on a known job of the current block, after
\* any failure of building or sending: the next update makes good for it.
EveryoneFollows ==
  \A c \in Connections :
    con[c].state = "subscribed" /\ con[c].users # <<>>
      ~> \/ con[c].state # "subscribed"
         \/ mined[c].block = block

\* "Old/global jobs remain valid during rolling updates" (checkShare): a share
\* for the job for all, of the current block, is judged whatever user name the
\* miner has been authorised for since.
GlobalJobsRemainValid ==
  \A c \in Connections :
    con[c].state = "subscribed" /\ mined[c] # NoJob /\ mined[c].user = None /\ mined[c].block = block
     => \A u \in Elements(con[c].users) : Verdict(u, mined[c].id) = "judged"
=============================================================================
