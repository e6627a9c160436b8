------------------------------- MODULE Timers -------------------------------
(***************************************************************************)
(* What a server may expect of its schedule: a task that was scheduled is   *)
(* run at most once, only while it is scheduled, and not before one of the  *)
(* times that it has been scheduled for.  (Not: the last of them.  A time   *)
(* that was replaced may still count.)                                      *)
(***************************************************************************)
EXTENDS Naturals

CONSTANTS
  Tasks,      \* what may be scheduled
  MaxTime,    \* bound on the clock
  None

VARIABLES
  now,        \* the clock
  due,        \* the time of each scheduled task
  counts,     \* the times that may count for each task
  running     \* the task that is being run, or None

timers == <<now, due, counts, running>>
Times == 0 .. MaxTime

TimersInit ==
  /\ now \in Times /\ due = <<>> /\ running = None
  /\ counts = [o \in Tasks |-> {}]

\* Times may be forgotten at any change, but never the one a task has.
Keeps(new) ==
  /\ counts' \in [Tasks -> SUBSET Times]
  /\ \A o \in Tasks : counts'[o] \subseteq counts[o] \cup new[o]
  /\ \A o \in DOMAIN due' : due'[o] \in counts'[o]
NoNew == [o \in Tasks |-> {}]

Scheduled(o, t) ==
  /\ due' = [p \in DOMAIN due \cup {o} |-> IF p = o THEN t ELSE due[p]]
  /\ Keeps([NoNew EXCEPT ![o] = {t}])
  /\ UNCHANGED <<now, running>>
TakenOut(o) ==
  /\ o \in DOMAIN due
  /\ due' = [p \in DOMAIN due \ {o} |-> due[p]]
  /\ Keeps(NoNew)
  /\ UNCHANGED now
Unscheduled(o) == TakenOut(o) /\ UNCHANGED running
Run(o) ==
  /\ running = None /\ running' = o
  /\ \E t \in counts[o] : t <= now
  /\ TakenOut(o)
Return == running # None /\ running' = None /\ UNCHANGED <<now, due, counts>>
Later == now' = now + 1 /\ UNCHANGED <<due, counts, running>>
Forget == Keeps(NoNew) /\ UNCHANGED <<now, due, running>>

TimersNext ==
  \/ \E o \in Tasks : Unscheduled(o) \/ Run(o) \/ \E t \in Times : Scheduled(o, t)
  \/ Return \/ Later \/ Forget
TimersSpec == TimersInit /\ [][TimersNext]_timers
=============================================================================
