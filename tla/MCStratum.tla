------------------------------ MODULE MCStratum ------------------------------
(***************************************************************************)
(* An instance of Stratum for TLC and, beside it, one of the schedule of    *)
(* its server: a behaviour is one of the jobs or one of the schedule (part  *)
(* says which), and the other stands still.  Stratum abstracts the schedule  *)
(* to the tasks it holds.                                                   *)
(***************************************************************************)
EXTENDS Stratum

CONSTANTS Tasks, MaxTime      \* Schedule
VARIABLES part, now, sch, loop

Sch == INSTANCE Schedule
schVars == <<now, sch, loop>>

SumInit == part \in {"jobs", "schedule"} /\ Init /\ Sch!Init
InJobs == part = "jobs" /\ UNCHANGED <<part, schVars>>
InSch == part = "schedule" /\ UNCHANGED <<part, vars>>
SumNext ==
  \/ InJobs /\ Next
  \/ InSch /\ \E o \in Tasks : \E t \in Sch!Times : Sch!ScheduleLater(o, t)
  \/ InSch /\ \E o \in Tasks : Sch!ScheduleNow(o)
  \/ InSch /\ \E o \in Tasks : Sch!RmSchedule(o)
  \/ InSch /\ Sch!Tick
  \/ InSch /\ Sch!Turn
  \/ InSch /\ Sch!Poll
  \/ InSch /\ Sch!RunTask
  \/ InSch /\ Sch!Returns
\* The fairness is that of the jobs.
SumSpec == SumInit /\ [][SumNext]_<<part, vars, schVars>> /\ Fairness

\* Job ids only grow: work and targets of jobs that nobody names any more will
\* never be asked for, so the state is looked at without them.
Named ==
  {server.JobId} \cup {mined[c].id : c \in Connections} \cup {thread[t].id : t \in Threads}
    \cup {server.JobBytes.id}
    \cup (IF thread[Loop].shared = None THEN {} ELSE {thread[Loop].shared.id})
InUse ==
  <<part, schVars, block, {w \in workLog : w.id \in Named}, server, thread, mined, faults,
    [c \in Connections |-> [con[c] EXCEPT !.targets =
       [i \in DOMAIN @ |-> IF @[i].id \in Named THEN @[i] ELSE None]]]>>

-----------------------------------------------------------------------------
\* The properties of the schedule, as Schedule states them.

\* No scheduled task is forgotten.
NeverForgotten == Sch!NeverForgotten
\* The loop keeps what Timers promises.
KeepsTimes == Sch!KeepsTimes
=============================================================================
