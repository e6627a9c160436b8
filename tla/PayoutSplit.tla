---------------------------- MODULE PayoutSplit ----------------------------
(***************************************************************************)
(* How a reward is divided: coinbaser.py divides that of the next block by  *)
(* the work in the share log, makeCoinbaseTxn of eloipool.py accepts the    *)
(* division or does without, and the dashboard divides the rewards of the   *)
(* child chains in the same way.                                           *)
(* A division is a function from payees to whole amounts.                  *)
(***************************************************************************)
EXTENDS Integers, FiniteSets, Functions

Nobody == [a \in {} |-> 0]

\* One of those with the least work comes last and takes what rounding leaves.
Smallest(works) == CHOOSE a \in DOMAIN works : \A b \in DOMAIN works : works[a] <= works[b]

Payable(total, keepBps) == (total * (10000 - keepBps)) \div 10000

RoundedDown(works, payable) ==
  [a \in DOMAIN works \ {Smallest(works)} |-> (payable * works[a]) \div SumFunction(works)]

Shares(works, payable) ==
  LET rows == RoundedDown(works, payable)
  IN [a \in DOMAIN works |-> IF a = Smallest(works) THEN payable - SumFunction(rows) ELSE rows[a]]

\* The sanity check at the end: less than the total must be handed out.
\* (It lets the whole be handed out.)
AllOfIt(amounts, last, total) == amounts
StrictlyLess(amounts, last, total) ==
  LET over == SumFunction(amounts) - total + 1
  IN IF over > 0 THEN [amounts EXCEPT ![last] = @ - over] ELSE amounts

Positive(amounts) == Restrict(amounts, {a \in DOMAIN amounts : amounts[a] > 0})

\* compute_splits, from the work of each payee on.
Split(total, keepBps, works) ==
  LET payable == Payable(total, keepBps)
  IN IF DOMAIN works = {} \/ payable <= 0 THEN Nobody
     ELSE Positive(StrictlyLess(Shares(works, payable), Smallest(works), total))

\* makeCoinbaseTxn: what the coinbaser printed is used when it leaves something
\* for the pool, or when there is nothing to divide.
Acceptable(value, split) ==
  LET coinbased == SumFunction(split)
  IN ~ (coinbased > value \/ (value > 0 /\ coinbased >= value))
\* (The pool's output is not reduced by what the others get.)
FullTracker(value, split) ==
  IF Acceptable(value, split) THEN [to |-> split, tracker |-> value]
  ELSE [to |-> Nobody, tracker |-> value]
CoinbaseTxn(value, split) ==
  IF Acceptable(value, split)
  THEN [to |-> split, tracker |-> value - SumFunction(split)]
  ELSE [to |-> Nobody, tracker |-> value]

\* _scale_coinbaser_splits_for_reward and the choice of each payee's address on
\* the child chain: the pool keeps what goes to a payee without one.
Accounted(block, reward, keepBps, works, Derivable) ==
  LET split == Split(reward, keepBps, works)
      to == Restrict(split, DOMAIN split \cap Derivable)
      remainder == reward - SumFunction(split)
  IN [block |-> block, reward |-> reward, to |-> to,
      keep |-> remainder + SumFunction(Restrict(split, DOMAIN split \ Derivable))]
=============================================================================
