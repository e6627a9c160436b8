------------------------------ MODULE ShareLog ------------------------------
(***************************************************************************)
(* What a share logger promises, whatever stands between it and the table: *)
(* a row that is not dropped at once waits its turn, each chain's rows are *)
(* kept or given up in the order they were logged, and no row is kept that *)
(* was not logged, was dropped or was given up before.                     *)
(***************************************************************************)
EXTENDS Integers, Sequences

CONSTANTS
  Chains,   \* the chains whose shares are logged
  MaxRows   \* bound: rows logged per chain

VARIABLES
  count,    \* how many rows of each chain were logged
  waiting,  \* the rows of each chain that are neither kept nor given up
  kept,     \* the rows of each chain that are in its table
  over      \* the process is gone

promise == <<count, waiting, kept, over>>

Init ==
  /\ count = [c \in Chains |-> 0]
  /\ waiting = [c \in Chains |-> <<>>]
  /\ kept = [c \in Chains |-> <<>>]
  /\ over = FALSE

Log(c) ==
  /\ ~over /\ count[c] < MaxRows
  /\ count' = [count EXCEPT ![c] = @ + 1]
  /\ waiting' = [waiting EXCEPT ![c] = Append(@, count[c] + 1)]
  /\ UNCHANGED <<kept, over>>

Drop(c) ==
  /\ ~over /\ count[c] < MaxRows
  /\ count' = [count EXCEPT ![c] = @ + 1]
  /\ UNCHANGED <<waiting, kept, over>>

\* The first k rows of those waiting are settled.
Rest(c, k) == [waiting EXCEPT ![c] = SubSeq(@, k + 1, Len(@))]
Keep(c, k) ==
  /\ ~over
  /\ kept' = [kept EXCEPT ![c] = @ \o SubSeq(waiting[c], 1, k)]
  /\ waiting' = Rest(c, k)
  /\ UNCHANGED <<count, over>>
GiveUp(c, k) ==
  /\ ~over
  /\ waiting' = Rest(c, k)
  /\ UNCHANGED <<count, kept, over>>

End ==
  /\ ~over /\ over' = TRUE
  /\ waiting' = [c \in Chains |-> <<>>]
  /\ UNCHANGED <<count, kept>>

Next ==
  \/ \E c \in Chains : Log(c) \/ Drop(c)
  \/ \E c \in Chains : \E k \in 1 .. Len(waiting[c]) : Keep(c, k) \/ GiveUp(c, k)
  \/ End

Spec == Init /\ [][Next]_promise
=============================================================================
