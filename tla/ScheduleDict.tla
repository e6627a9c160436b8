---------------------------- MODULE ScheduleDict ----------------------------
(***************************************************************************)
(* util.ScheduleDict: a dictionary from tasks to times with a heap to find  *)
(* the earliest.  Entries of the heap are not taken out when a task is      *)
(* removed or gets another time; an entry counts as long as its task is in  *)
(* the dictionary, whatever time the dictionary has for it.                 *)
(***************************************************************************)
EXTENDS Naturals, FiniteSets, Bags

Entry(o, t) == [at |-> t, task |-> o]
Without(dict, o) == [p \in DOMAIN dict \ {o} |-> dict[p]]
With(dict, o, t) == [p \in DOMAIN dict \cup {o} |-> IF p = o THEN t ELSE dict[p]]

\* _build_heap.
Built(dict) == [dict |-> dict,
                heap |-> SetToBag({Entry(o, dict[o]) : o \in DOMAIN dict})]
EmptySchedule == Built(<<>>)

\* __setitem__: a heap more than twice the size of the dictionary is built anew.
Overgrown(s, dict) == BagCardinality(s.heap) > 2 * Cardinality(DOMAIN dict)
\* (The heap is built before the task is entered.)
SetItemLate(s, o, t) ==
  LET dict == With(s.dict, o, t) IN
  IF Overgrown(s, dict) THEN [Built(s.dict) EXCEPT !.dict = dict]
  ELSE [dict |-> dict, heap |-> s.heap (+) SetToBag({Entry(o, t)})]
SetItem(s, o, t) ==
  LET dict == With(s.dict, o, t) IN
  IF Overgrown(s, dict) THEN Built(dict)
  ELSE [dict |-> dict, heap |-> s.heap (+) SetToBag({Entry(o, t)})]

\* __delitem__.
DelItem(s, o) ==
  LET dict == Without(s.dict, o) IN
  IF Cardinality(DOMAIN dict) < 2 THEN Built(dict) ELSE [s EXCEPT !.dict = dict]

\* (Entries of tasks that were taken out count as well.)
CountingAll(s) == BagToSet(s.heap)
\* The entries that count, and the earliest of them (more than one at a time:
\* which comes first depends on the addresses of the tasks).
Counting(s) == {e \in BagToSet(s.heap) : e.task \in DOMAIN s.dict}
Earliest(s) == {e \in Counting(s) : \A f \in Counting(s) : e.at <= f.at}
NextTime(s) == (CHOOSE e \in Earliest(s) : TRUE).at

\* nextTime throws away what it finds before the earliest.
Skipped(s) == {e \in BagToSet(s.heap) : \A f \in Counting(s) : e.at < f.at}
Pruned(s) == [s EXCEPT !.heap = [e \in DOMAIN @ \ Skipped(s) |-> @[e]]]

\* shift, for one of the earliest entries.
Shift(s, e) ==
  [dict |-> Without(s.dict, e.task), heap |-> Pruned(s).heap (-) SetToBag({e})]
=============================================================================
