----------------------------- MODULE MCPayouts -----------------------------
EXTENDS Payouts
\* Three shapes of behaviours: many shares and templates without solves; one
\* share, and several templates and solves; several shares that are all in the
\* file and are paid, one template and one solve.
Paid(shares) == \A line \in shares : line.user \in Payees /\ line.work > 0
Modest ==
  \/ works = <<>> /\ Len(templates) <= 1
  \/ /\ logged = 1 /\ queue = <<>> /\ lines = <<>> /\ lost = {}
     /\ \A line \in ToSet(file) : line.user \in Keys /\ line.work = 1
     /\ \A t \in DOMAIN templates : templates[t].value = Max(Rewards) /\ templates[t].to # Nobody
     /\ keepBps = Max(KeepRates)
  \/ /\ logged = LastShares /\ Len(file) = LastShares /\ Paid(ToSet(file))
     /\ Len(works) = 1 /\ Len(templates) = 1 /\ templates[1].value = Max(Rewards)
=============================================================================
