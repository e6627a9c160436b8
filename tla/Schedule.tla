------------------------------ MODULE Schedule ------------------------------
(***************************************************************************)
(* The schedule of a server (networkserver.py): the event loop runs the     *)
(* tasks whose time has come, before it polls for events; handlers, tasks   *)
(* and other threads schedule tasks and take them out.                      *)
(***************************************************************************)
EXTENDS ScheduleDict

CONSTANTS
  Tasks,      \* bound methods: those of one handler and one function are equal
  MaxTime,    \* bound on the clock
  None

VARIABLES
  now,        \* the clock
  sch,        \* the ScheduleDict
  loop        \* where serve_forever is, its timeNow and the task it runs

vars == <<now, sch, loop>>
Times == 0 .. MaxTime

Polling == [pc |-> "poll", timeNow |-> 0, running |-> None]
Init ==
  /\ now = 1
  /\ sch = EmptySchedule
  /\ loop = Polling

\* schedule: for later, on any thread (updateJob of the stratum server), or by
\* what handles an event, also for the past (changeTask(f, 0)).
ScheduleLater(o, t) ==
  /\ t > now
  /\ sch' = SetItem(sch, o, t)
  /\ UNCHANGED <<now, loop>>
ScheduleNow(o) ==
  /\ loop.pc = "poll"
  /\ sch' = SetItem(sch, o, 0)
  /\ UNCHANGED <<now, loop>>

\* rmSchedule; it raises KeyError for a task that is not scheduled, which
\* changeTask and updateJob ignore.
RmSchedule(o) ==
  /\ o \in DOMAIN sch.dict
  /\ sch' = DelItem(sch, o)
  /\ UNCHANGED <<now, loop>>

Tick ==
  /\ now < MaxTime
  /\ now' = now + 1
  /\ UNCHANGED <<sch, loop>>

\* serve_forever: one turn looks at the clock once.
Turn ==
  /\ loop.pc = "poll"
  /\ loop' = [loop EXCEPT !.pc = "schedule", !.timeNow = now]
  /\ UNCHANGED <<now, sch>>

\* Nothing to run: back to poll.  A task without an entry in the heap would
\* end the loop with an IndexError.
Poll ==
  /\ loop.pc = "schedule"
  /\ UNCHANGED now
  /\ IF DOMAIN sch.dict = {} THEN sch' = sch /\ loop' = Polling
     ELSE IF Counting(sch) = {} THEN sch' = sch /\ loop' = [loop EXCEPT !.pc = "dead"]
     ELSE /\ loop.timeNow < NextTime(sch)
          /\ sch' = Pruned(sch)
          /\ loop' = Polling

RunTask ==
  /\ loop.pc = "schedule"
  /\ \E e \in Earliest(sch) :
       /\ e.at <= loop.timeNow
       /\ sch' = Shift(sch, e)
       /\ loop' = [loop EXCEPT !.pc = "run", !.running = e.task]
  /\ UNCHANGED now
\* The task returns or raises.
Returns ==
  /\ loop.pc = "run"
  /\ loop' = [loop EXCEPT !.pc = "schedule", !.running = None]
  /\ UNCHANGED <<now, sch>>

Next ==
  \/ \E o \in Tasks : \E t \in Times : ScheduleLater(o, t)
  \/ \E o \in Tasks : ScheduleNow(o) \/ RmSchedule(o)
  \/ Tick \/ Turn \/ Poll \/ RunTask \/ Returns
Spec == Init /\ [][Next]_vars

\* The loop runs; the clock need not.
Fairness == WF_vars(Turn \/ Poll \/ RunTask \/ Returns)
FairSpec == Spec /\ Fairness

-----------------------------------------------------------------------------
TypeOK ==
  /\ now \in Times
  /\ DOMAIN sch.dict \subseteq Tasks
  /\ \A o \in DOMAIN sch.dict : sch.dict[o] \in Times
  /\ BagToSet(sch.heap) \subseteq [at : Times, task : Tasks]
  /\ loop.pc \in {"poll", "schedule", "run"}
  /\ loop.timeNow \in Times /\ loop.running \in Tasks \cup {None}

\* A scheduled task has an entry in the heap for the very time it was scheduled
\* for last, through all replacing, taking out and building anew: it cannot be
\* forgotten, and the loop never looks into an empty heap.
NeverForgotten ==
  \A o \in DOMAIN sch.dict : BagIn(Entry(o, sch.dict[o]), sch.heap)

\* The loop keeps what Timers promises.
Promised == INSTANCE Timers WITH
  due <- sch.dict, running <- loop.running,
  counts <- [o \in Tasks |-> {e.at : e \in {f \in BagToSet(sch.heap) : f.task = o}}]
KeepsTimes == Promised!TimersSpec

\* A task whose time has come is run, unless it is taken out or put off.
DueRuns ==
  \A o \in Tasks :
    (o \in DOMAIN sch.dict /\ sch.dict[o] <= now)
      ~> (o \notin DOMAIN sch.dict \/ sch.dict[o] > now \/ loop.running = o)
=============================================================================
