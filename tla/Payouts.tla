------------------------------ MODULE Payouts ------------------------------
(***************************************************************************)
(* The way of a reward to the miners.  Shares go through the log file       *)
(* logger (sharelogging/logfile.py) into the share log; for each template   *)
(* the coinbaser divides the reward by the last lines of it and records the *)
(* division; a miner who solves the template may solve child blocks as      *)
(* well, which the merged-mining proxy logs; the dashboard reads both logs   *)
(* and accounts the child blocks' rewards with the division recorded for    *)
(* the parent's.  Each is a process or thread of its own.                   *)
(***************************************************************************)
EXTENDS PayoutSplit, SolveLog

CONSTANTS
  Keys,        \* miners known by a mining key: payable on every chain
  Addresses,   \* miners known by an address of the parent chain
  Labels,      \* names that can be paid on no chain
  Works,       \* the difficulties of shares; 0 for a share that was refused
  Rewards,     \* of the parent chain
  Kids,        \* the child chains
  KidReward,
  LastShares,     \* COINBASER_WINDOW
  KeepRates,   \* of the pool, in basis points: COINBASER_POOL_KEEP_BPS is one of them
  MaxQueue,    \* max_queue_size of the logger
  Recent,      \* the dashboard's last 50 blocks
  MaxGap,      \* its 12 seconds, in gotworks
  MaxShares, MaxTemplates, MaxSolves   \* bounds

ASSUME AmountsAssumption ==
  Works \subseteq Nat /\ Rewards \subseteq Nat /\ KidReward \in Nat \ {0} /\ KeepRates \subseteq Nat
ASSUME LimitsAssumption == MaxQueue \in Nat \ {0} /\ LastShares \in Nat /\ Recent \in Nat
ASSUME KidsAssumption == IsFiniteSet(Kids)

VARIABLES
  logged,      \* how many shares were logged
  queue,       \* the logger's queue
  lines,       \* what flushlog took from it and has not written yet
  dropped,     \* self.dropped, of all processes so far
  lost,        \* history: lines of writes that failed, or left when the pool stopped
  file,        \* the share log
  keepBps,     \* COINBASER_POOL_KEEP_BPS
  templates,   \* coinbases made, oldest first
  debug,       \* the coinbaser's debug log
  works,       \* the gotworks of the proxy: all its solves
  shown,       \* how many of the parent's blocks the pool has logged as new
  offset, solves,  \* the dashboard's place in the proxy's log, and what it read
  cut,         \* history: gotworks with a read between their two solve lines
  handed,      \* the events the payout warmer works on
  account      \* the payout snapshot, one row per child block

logVars == <<logged, queue, lines, dropped, lost, file>>
chainVars == <<keepBps, templates, debug, works, shown>>
dashVars == <<offset, solves, cut, handed, account>>
vars == <<logVars, chainVars, dashVars>>

Payees == Keys \cup Addresses
Users == Payees \cup Labels

Init ==
  /\ logged = 0 /\ queue = <<>> /\ lines = <<>> /\ dropped = 0 /\ lost = {} /\ file = <<>>
  /\ keepBps \in KeepRates /\ templates = <<>> /\ debug = <<>> /\ works = <<>> /\ shown = 0
  /\ offset = 0 /\ solves = <<>> /\ cut = {} /\ handed = <<>> /\ account = <<>>

-----------------------------------------------------------------------------
\* The share log.

\* queueshare: a full queue drops its oldest line.
QueueShare(line) ==
  IF Len(queue) >= MaxQueue
  THEN queue' = Append(Tail(queue), line) /\ dropped' = dropped + 1
  ELSE queue' = Append(queue, line) /\ dropped' = dropped
LogShare(user, work) ==
  /\ logged < MaxShares
  /\ logged' = logged + 1
  /\ QueueShare([n |-> logged + 1, user |-> user, work |-> work])
  /\ UNCHANGED <<lines, lost, file, chainVars, dashVars>>

\* flushlog takes the whole queue, writes after it let go of the lock ...
\* (... and takes the queue again the next time.)
TakeCopy == lines = <<>> /\ queue # <<>> /\ lines' = queue /\ queue' = queue
TakeQueue == lines = <<>> /\ queue # <<>> /\ lines' = queue /\ queue' = <<>>
Flush ==
  /\ TakeQueue
  /\ UNCHANGED <<logged, dropped, lost, file, chainVars, dashVars>>
\* ... all of them, or, when open or write fails, the first k.
Write(k) ==
  /\ lines # <<>> /\ k \in 0 .. Len(lines)
  /\ file' = file \o SubSeq(lines, 1, k)
  /\ lost' = lost \cup ToSet(SubSeq(lines, k + 1, Len(lines)))
  /\ lines' = <<>>
  /\ UNCHANGED <<logged, queue, dropped, chainVars, dashVars>>

\* exit, restart: this logger has no stop(), stopLoggers passes it by.
PoolStops ==
  /\ queue \o lines # <<>>
  /\ lost' = lost \cup ToSet(queue \o lines)
  /\ queue' = <<>> /\ lines' = <<>>
  /\ UNCHANGED <<logged, dropped, file, chainVars, dashVars>>

-----------------------------------------------------------------------------
\* The coinbaser and the template.

Tip == Cardinality({n \in DOMAIN works : works[n].parent})

\* The works of those who can be paid, in the last lines of the file.
WorkInWindow ==
  LET last == SubSeq(file, IF Len(file) > LastShares THEN Len(file) - LastShares + 1 ELSE 1, Len(file))
      of(user) == {i \in DOMAIN last : last[i].user = user /\ last[i].work > 0}
      paid == {user \in Payees : of(user) # {}}
  IN [user \in paid |-> SumFunction(Restrict([i \in DOMAIN last |-> last[i].work], of(user)))]

\* makeCoinbaseTxn: the coinbaser's output arrives, or eloipool fails to read
\* it, or no coinbaser is run (for an empty block).  The coinbaser records the
\* division before it prints it.
NewTemplate(value, outcome) ==
  LET shares == WorkInWindow
      split == Split(value, keepBps, shares)
      txn == IF outcome = "read" THEN CoinbaseTxn(value, split) ELSE [to |-> Nobody, tracker |-> value]
  IN /\ Len(templates) < MaxTemplates
     /\ templates' = Append(templates,
          [prev |-> Tip, value |-> value, to |-> txn.to, tracker |-> txn.tracker,
           refused |-> outcome = "read" /\ txn.to # split])
     /\ debug' = IF split = Nobody \/ outcome = "not_run" THEN debug
                 ELSE Append(debug, [at |-> Len(templates) + 1, prev |-> Tip,
                                     works |-> Restrict(shares, DOMAIN split)])
  /\ UNCHANGED <<logVars, keepBps, works, shown, dashVars>>

\* A miner solves a template; the header's time is its own, from the second in
\* which the template was made on.
Solve(t, at, kids) ==
  /\ Len(works) < MaxSolves
  /\ works' = Append(works, [template |-> t, at |-> at, found |-> Len(templates),
                             parent |-> templates[t].prev = Tip, kids |-> kids])
  /\ UNCHANGED <<logVars, keepBps, templates, debug, shown, dashVars>>
\* BLKHASH and New block are both in the pool's log.
NewBlockLogged ==
  /\ shown < Tip
  /\ shown' = shown + 1
  /\ UNCHANGED <<logVars, keepBps, templates, debug, works, dashVars>>

-----------------------------------------------------------------------------
\* The dashboard.

ProxyLog == FlattenSeq([n \in DOMAIN works |-> Lines(n, works[n])])
\* parse_pool_state: the last of the parent's blocks, by the number of their gotwork.
RecentBlocks ==
  LET mined == Sorted({n \in DOMAIN works : works[n].parent})
  IN SubSeq(mined, IF shown > Recent THEN shown - Recent + 1 ELSE 1, shown)

\* api_state reads what the proxy has written so far, up to line k, and hands
\* the events to the warmer.
\* (It forgets how far it has read.)
OffsetStays(k) == offset
ReadUpTo(k) == k
ApiState(k) ==
  LET chunk == SubSeq(ProxyLog, offset + 1, k)
  IN /\ k \in offset .. Len(ProxyLog)
     /\ offset' = ReadUpTo(k)
     /\ solves' = solves \o ParseProxySolves(chunk, works)
     /\ cut' = cut \cup {n \in DOMAIN works : /\ k < Len(ProxyLog) /\ k > 0
                                              /\ ProxyLog[k] = [kind |-> "solve", n |-> n, kid |-> ""]
                                              /\ ProxyLog[k + 1].n = n}
     /\ handed' = Events(RecentBlocks, solves', works, MaxGap)
  /\ UNCHANGED <<logVars, chainVars, account>>

\* _find_coinbaser_entry: the latest before the time among those for the same
\* previous block, or the last of them; if there are none, among all.
Before(entries, time) ==
  LET older == {i \in entries : debug[i].at <= time}
  IN IF older = {} THEN debug[Max(entries)] ELSE debug[Max(older)]
FindEntry(time, prev) ==
  LET same == {i \in DOMAIN debug : debug[i].prev = prev}
  IN IF same # {} THEN Before(same, time) ELSE Before(DOMAIN debug, time)

\* What is known of the parent's block: from the daemon, if it answers.
EntryOf(event, up) ==
  IF event.block # 0 /\ up
  THEN FindEntry(works[event.block].at, templates[works[event.block].template].prev)
  ELSE FindEntry(works[event.n].found, -1)

\* _payout_warmer_loop, get_recent_child_accounted_payouts.
Warm(up) ==
  LET rows(event) ==
        LET details == SetToSeq(event.details)
        IN [i \in DOMAIN details |->
              Accounted(details[i], KidReward, keepBps, EntryOf(event, up).works, Keys)]
  IN /\ account' = IF debug = <<>> THEN <<>>
                   ELSE FlattenSeq([e \in DOMAIN handed |-> rows(handed[e])])
     /\ UNCHANGED <<logVars, chainVars, offset, solves, cut, handed>>

DashboardRestarts ==
  /\ offset' = 0 /\ solves' = <<>> /\ handed' = <<>> /\ account' = <<>>
  /\ UNCHANGED <<logVars, chainVars, cut>>

Next ==
  \/ \E user \in Users : \E work \in Works : LogShare(user, work)
  \/ Flush
  \/ \E k \in 0 .. MaxQueue : Write(k)
  \/ PoolStops
  \/ \E value \in Rewards : \E outcome \in {"read", "garbled", "not_run"} : NewTemplate(value, outcome)
  \/ \E t \in DOMAIN templates : \E at \in t - 1 .. Len(templates) :
       \E kids \in SUBSET Kids : Solve(t, at, kids)
  \/ NewBlockLogged
  \/ \E k \in 0 .. Len(ProxyLog) : ApiState(k)
  \/ \E up \in BOOLEAN : Warm(up)
  \/ DashboardRestarts
Spec == Init /\ [][Next]_vars

-----------------------------------------------------------------------------
\* Every share that was logged is in the file, in order and once, or is still to
\* be written, or was dropped and counted, or was in a write that failed, or
\* was left behind when the pool stopped.
NoLineLostSilently ==
  LET there == file \o lines \o queue
  IN /\ \A i, j \in DOMAIN there : i < j => there[i].n < there[j].n
     /\ \A i \in DOMAIN there : there[i] \notin lost
     /\ Len(there) + Cardinality(lost) + dropped = logged

\* Rewards add up: a coinbase pays out what the block earns, a division that
\* arrives is never refused, and child rewards are accounted in full; nobody
\* gets nothing or less, and the pool keeps something of whatever is divided.
RewardsAddUp ==
  /\ \A t \in DOMAIN templates :
       /\ SumFunction(templates[t].to) + templates[t].tracker = templates[t].value
       /\ \A a \in DOMAIN templates[t].to : templates[t].to[a] > 0
       /\ templates[t].value > 0 => templates[t].tracker > 0
       /\ ~ templates[t].refused
  /\ \A i \in DOMAIN account :
       /\ SumFunction(account[i].to) + account[i].keep = account[i].reward
       /\ \A a \in DOMAIN account[i].to : account[i].to[a] > 0
       /\ account[i].keep > 0

\* A child block's reward is accounted once, unless a read of the proxy's log
\* ended between the two lines of its solve.
CountedTwiceOnlyWhenCut ==
  \A i, j \in DOMAIN account :
    i # j /\ account[i].block = account[j].block => account[i].block.n \in cut
\* (What the comments on incremental reading promise.)
CountedOnce == \A i, j \in DOMAIN account : account[i].block = account[j].block => i = j
=============================================================================
