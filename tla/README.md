# TLA+ models of eloipool (Blakecoin)

This directory holds TLA+ specifications of the pool in this repository, the
TLC configurations that check them on small instances, and theorems about them
that TLAPS checks for every value of their constants.  `PROJECT.json` lists the
runs, the source lines behind each definition, the hazards of the code and the
findings.

    tlc -workers 2 -config MerkleMaker.cfg MCMerkleMaker.tla
    tlapm MerkleMakerProofs.tla

## 1. The system

Paths are relative to the repository's root.  `deploy-bundle/eloipool` is a
second copy of the same files.

| Component | State | Operations | Called by / calls |
|---|---|---|---|
| merkleMaker (`merklemaker.py`) | `currentBlock`, `lastBlock`, three trees, a deque and two Queues of merkle roots, `ready`/`readyCV`, `needMerkle` | `updateMerkleTree`, `updateBlock`, the maker loop, `getMRD`, `getMC` | own thread; server threads, p2p thread and SIGUSR1 threads call in **without a lock**; calls back `blockChanged`, `updateBlocks` |
| Share checking, block submission, saved state (`eloipool.py`) | `workLog`, `DupeShareHACK`, `networkTarget`, the share's own dictionary, one thread per found block, the state file | `receiveShare`, `checkShare`, `blockSubmissionThread`, `blockChanged`, `RegisterWork`, the pruner, `exit`, `restart`, `restoreState` | JSON-RPC and stratum threads; calls the share loggers, upstream daemons, `MM.updateBlock` |
| SQL share log (`sharelogging/sql.py`) | one queue, one writer thread, the batch, one connection per chain | `logShare`, the writer's collect/flush/reconnect/fallback, `stop` | called by `logShare` of all threads; calls the database |
| Log file share log (`sharelogging/logfile.py`) | bounded queue | `queueshare`, `flushlog` | own thread writes every 0.2 s |
| Stratum server and jobs (`stratumserver.py`) | `JobId`, `JobBytes`, per client `JobTargets`, usernames, extranonce | subscribe, authorize, submit, `sendJob`, `updateJob`, quick difficulty updates | own thread; `updateJobOnly` also runs on the merkleMaker thread |
| Share targets (`eloipool.py`) | `userStatus` | `getTarget`, `clampTarget` | work registration and accepted shares |
| Network server (`networkserver.py`, `util.py`) | epoll handlers, write buffers, `ScheduleDict` | event loop, `schedule`, `wakeup`, close | base of JSON-RPC, stratum and p2p servers |
| JSON-RPC, getwork, GBT, longpoll (`jsonrpcserver.py`, `httpserver.py`, `jsonrpc_*.py`) | longpoll clients and counters, `LPRequest` | requests, `doLongpoll`, `wakeLongpoll` | main thread; woken by `blockChanged` |
| Merged-mining proxy (`merged-mine-proxy.py3`) | aux templates per chain, trees handed out, results per miner, circuit breakers | `getaux`, `gotwork`, an update every 15 s | a process of its own; pool and proxy call each other over JSON-RPC |
| Coinbase payouts (`deploy-bundle/coinbaser.py`, `makeCoinbaseTxn` of `eloipool.py`) | the coinbaser's record of divisions | one division per template | run for each template; reads the share log, and its record is read by the dashboard |
| Dashboard (`deploy-bundle/dashboard/dashboard.py`) | its place in the proxy's log, the solves it read, the payout snapshot | incremental reading, joining, accounting of child rewards, display | reads the logs of pool and proxy and the coinbaser's record |
| Trees, transactions, encodings (`merkletree.py`, `bitcoin/`, `mining_key.py`) | none | pure functions | everywhere |
| p2p node, authentication, interactive mode, deployment | little or none | I/O | |

### What makes it hard

* *Interleaving without locks.*  One object, `MM`, is changed by its own thread,
  by every server thread that finds a block and by every thread that polls.
  `workLog` and `DupeShareHACK` are replaced or cleared by one thread while
  others read them.
* *Blocking hand-overs.*  `getMRD` blocks on a Queue object that `updateBlock`
  may replace; `getMC` waits for a flag that is written outside its condition;
  the proxy and the JSON-RPC server call each other and wait.
* *Order.*  A block's submission thread starts before its share says who logs
  it; `blockChanged` resets in two steps; a template may be adopted after a
  newer block was found.
* *Failures.*  Databases and upstream daemons go away, answers to commits are
  lost, rows are refused, exceptions cut updates short, the process is killed.
* *Half done.*  A handler may be closed in the middle of its messages, by its
  task or by another thread; a job id is read again after the job was built.
* *Caches.*  A miner's aux root passes through two caches and a fallback; the
  dashboard reads the proxy's log in pieces.
* *Boundaries.*  Full queues; retargets at which a found block's bits are
  unknown; rewards of 0 and 1, a pool share of 0.

### What makes each component correct

* merkleMaker: every stored root fits the block and height it will be handed
  out for; nobody waits for ever on a store that was given up; while `ready`
  there is work; the pool follows upstream.
* Shares: the same data is credited once; a share is logged once; a found block
  reaches the upstreams that stay up; a stop and start loses none of this.
* SQL share log: a row is never forgotten, is stored once, in order, and one
  bad row or chain does not cost the others theirs.
* Stratum jobs: the next update is always coming; a miner at rest works on a job
  the pool knows, for the block of this moment, and is not judged by a harder
  target than it was told; after a failure the next update makes good for it.
* Servers: a session id is with one connection or free; a closed connection is
  forgotten; a client that waits in a longpoll is woken; requests behind each
  other on one connection are answered each for its own user; a connection that
  does not listen has a time-out; a scheduled task is run, once, not too early.
* Merged mining: work pays its miner on the child chains, or the pool, nobody
  else; a solution is submitted with the tree it commits to; jobs come to be
  about the child chains' present tips; nobody waits for ever.
* Payouts: no share is lost between log and file without being counted; a reward
  is divided in full; a child block is accounted once.

## 2. The modules

| Module | What it is |
|---|---|
| `MerkleMaker`, `MCMerkleMaker`, `MerkleMakerProofs` | `merklemaker.py` with the threads that call into it; its instances for TLC and the view; theorems |
| `ShareSubmission`, `MCShareSubmission` | the share path of `eloipool.py`, block submission, saved state; its instances |
| `ShareSubmissionProofs` | theorems about it: types, credit and saved state, log lines and upstreams |
| `SqlShareLog`, `MCSqlShareLog`, `SqlShareLogProofs` | `sharelogging/sql.py`; instances, theorems |
| `ShareLog` | the abstract specification: what any SQL share log promises each chain |
| `Stratum` | `stratumserver.py`: jobs, targets, wake-ups, with the work log of `eloipool.py` |
| `ScheduleDict`, `Schedule` | `util.ScheduleDict` as operators; the event loop of `networkserver.py` on it |
| `Timers` | the abstract specification: what a server may expect of its schedule |
| `MCStratum`, `StratumProofs` | jobs and schedule in one instance; theorems about both |
| `Sessions` | handlers of the stratum server and their session ids |
| `Longpoll` | longpolls of `jsonrpcserver.py` |
| `Requests` | requests on one connection: `httpserver.py`, `jsonrpcserver.py` |
| `Servers`, `MCServers`, `ServersProofs` | the three in one instance; theorems about each |
| `MergedMineProxy` | `merged-mine-proxy.py3` as operators on the proxy's state |
| `MergedMining`, `MCMergedMining`, `MergedMiningProofs` | proxy, pool, child chains and miners together; instance, theorems |
| `Order` | a finite set of numbers in ascending order, for the SQL share log and for reading logs |
| `PayoutSplit` | the division of a reward, as operators |
| `SolveLog` | how the dashboard reads the proxy's log, as operators |
| `Payouts`, `MCPayouts`, `PayoutsProofs` | log file logger, coinbaser, template, dashboard together; instance, theorems |
| `DataLemmas` | facts about sets of numbers and about sums, for the proofs of the SQL share log and the payouts |

`Servers` and `MCStratum` are sums: a behaviour is one of one part, chosen in
the first state, and the other parts stand still.  The parts share no state in
the code either (as far as they are modelled), so that their product would only
multiply states; a sum checks all of them in one run.

Modules that hold theorems use no RECURSIVE operator.  A definition introduced
by a comment in parentheses, such as `(The work log is left alone.)`, is not
part of a specification: it is the wrong variant of the definition that follows
it, listed under `mutants`, and shows that a property can fail.

### MerkleMaker

*State.*  `self` holds the object's attributes (and `networkTarget`, which
`blockChanged` derives from them).  `queue` is the heap of Queue objects:
`clearMerkleRoots`, `nextMerkleRoots`, a getMRD in progress (`got`), `OCMR` of an
updateBlock in progress and the target of `_makeOne` *name* Queue objects, so
that replacing an attribute while somebody waits on the old object is what it
is in Python.  `thread` has each thread's place, the places to return to, its
template and the locals of updateBlock.  `tip` and `news` are the upstream node.

*Steps.*  A step ends where the code blocks, logs, does I/O, builds a coinbase,
or makes half of a change visible; so `updateBlock` is a sequence of steps
(`Assign`, `Replace`, `Wake`, `Unready`/`Fresh`, `Clear`, `SetReady`, `Signal`,
`Need`) that other threads may come between, and that an exception may cut short
(`ReplaceRaises`, `Fresh`, `Clear` unwind to the thread's own loop).  A poll is
`Fetch`, `Process` (which already calls updateBlock for a higher template),
`Verdict`, `Compare`, `Adopt`, `Notify`, `Settle`.  The maker's loop
(`merkleMaker_II`) takes the first thing in `Want`; `_makeOne` is `LoopMake`,
`CheckHeight`, `Put`.

*Abstracted.*  A tree is [clear or template, previous block, height, has MP]; a
root adds the height in its coinbase.  Coinbase bytes, fee and transaction
selection, several template sources (the best template is what `tip` says), and
timers (`due` may become true at any time) are left out.

*History.*  `disturbed` is the worst thing that has happened so far of the three
the code takes no precautions against: `Race` (an updateBlock while another
thread has compared its template or its height but not acted on it yet), `Cut`
(an exception in the middle of updateBlock), `Overlap` (two updateBlocks at
once).  Properties that do not hold after one of these say so in their text,
which is the result: the code keeps them as long as none of these happens, and
the runs that have them as violations show what happens otherwise.

### ShareSubmission

*State.*  `block` and `last` are `MM.currentBlock[0]` and `MM.lastBlock[0]`;
`changing` is each poller's place in `blockChanged`; `workLog`, `dupes`
(`DupeShareHACK`) and `file` (the saved state) are sets of works and headers;
`place` and `current` are each server thread's place in `receiveShare`; per
submission `status`, `reason` (`upstreamRejectReason`), `logged` (a counter) and
`offer` (its blockSubmissionThread).

*Steps.*  `Receive` (LookupWork), `CheckPrevBlock`, `CheckDupe`, `Submit` (the
thread is started), `Mark` (`upstreamRejectReason` is set), `UpdateBlock`,
`JudgeShare` (all checks of the content, either way), `Finish` (the `finally` of
receiveShare).  `Poll`, `ResetDupes`, `ClearWork`: a poll and the two resets of
blockChanged.  `Ask`, `Answered`, `GiveUp`, `AllAsked`: the submission thread;
an answer and what it does to the share are two steps, since the share is read
and written without a lock.  `StopServers`, `ServerEnds`, `ServersStopped`,
`SaveState`, `SaveFails`, `Restart`, `Crash`: exit and start.

*Abstracted.*  Why a share is refused; whether the content checks pass;
`gotworkReady` (`Receive` may refuse any share); the p2p submission, which does
not touch the state here; the hand-over to the merged-mining proxy.  A header is
sent to one server thread (`ReceiverOf`): a getwork header and a stratum header
have different coinbases.

*Reductions*, each without loss for the properties: `tries` stops growing at the
number of upstreams, as it is only compared with lengths up to that; an
upstream goes or returns only when it is the one asked next, as its state
matters to nobody otherwise; the second read of the global `DupeShareHACK` is
not a step of its own (a receiver that found it empty adds to the newer
dictionary); the last process is not stopped, because nothing would follow.  One
assumption: work is registered for the current block or the one before, so no
two blocks arrive between getMC and RegisterWork.  (The case that `CreditedOnce`
exempts as straddled needs the upstream node to return to the block before, as
`Poll` may.)

*History.*  `passed` (what the duplicate check let through), `straddled`
(submissions whose check was under way when blockChanged stood between its two
resets), `forgotten` (data whose work a start restored without them), `orderly`
(every stop so far had all servers stopped and no blockChanged half done at the
save, and no kill), `early` (with DelayLogForUpstream, an answer arrived before
the receiver was done).

### SqlShareLog and ShareLog

*State.*  `queue`, `batch` (per chain: what `chain_batches` will hold), `order`
(the order of `chain_batches`), `conn`, the fallback's `link`, `attempts`, the
place of the writer, the place of `stop()`, and the database: up or down, its
`table`, and how many answers to commits it has lost.  A row is (chain, number).

*Steps.*  `LogShare`, `Stop`, `Signal` (put of None), `Gone` (the join's timeout
and the end of the process); `Take`, `TakeNone`, `Interval`; `Insert`,
`InsertFails`, `InsertUnsure` (committed, answer lost), `Reconnect`; `Reach`,
`ReachFails`, `Single`, `SingleFails`, `SingleUnsure` for the fallback;
`DatabaseFails`, `DatabaseReturns`.

*ShareLog* has four variables and five actions: a row is dropped at once or
waits; waiting rows are kept or given up from the front; at the end what waits
is gone.  `KeepsItsPromise` maps what queue and batch of each chain hold and the
table does not, in the order it was logged, to its `waiting`, and the table, without
the repetitions of uncertain commits, to `kept`.

*Abstracted.*  SQL text and formatting, dbopts, the two seconds between retries.
Every logger has a chain_id of its own.

### Stratum

*State.*  `block` is `MM.currentBlock`, `workLog` the entries of the work log,
`server` the StratumServer (`n` for the counter behind job ids, `JobId`,
`JobBytes`, `WakeRequest`, whether `UpdateTask` is set, the pending difficulty
updates), `con` the handlers (user names, the task that will send a job,
`JobTargets`), `thread` the locals of the event loop and of the merkleMaker
thread, `mined` what each miner was sent last.

*Steps.*  A message is handled whole.  `sendJob` is `WhichJob` (or `SendFails`),
`RegisterJob`, `PushOwn`/`PushShared`, with `JobId` read at `WhichJob` and again
when the target is filed.  `updateJob` on any thread is `Count`, `Name`,
`EnterShared`, `MakeBytes` (or `NoBytes`, `TooBig`) and so on to the `finally`
that schedules the next update.  blockChanged is `BlockChanged`, `ForgetWork`
and an update.  `WakeNodes`, `QuickUpdate` and `NextClient` go through clients.

*Abstracted.*  Job contents; clean flags; extranonces (session ids are in
`Sessions`); the target of a user is any of `Targets` and may change from job
to job; the schedule is the set of tasks it holds (`Schedule` has the rest).
`faults` counts failures of building or sending, so that properties about
undisturbed service can say so.

### ScheduleDict, Schedule and Timers

A schedule is the dictionary and the heap as a bag of entries, with the old
entries that replacing and deleting leave behind, `nextTime` throwing away what
it finds on top, and the building anew when the heap is twice the size.
`Schedule` adds a clock and `serve_forever` (`Turn`, `RunTask`, `Returns`,
`Poll`).  `Timers` has for each task its time and the times that may count for
it.  `KeepsTimes` maps dictionary and heap to them: the promise is that a task
runs at most once for being scheduled, only while it is, and not before *one of*
the times it was scheduled for.  A stronger one would be wrong: an entry counts
whatever time the dictionary has for the task (util.py:190), so that a task that
was put off is run at its earlier time.

### Sessions, Longpoll, Requests

`Sessions`: what frees a handler (closing in the middle of messages, by a task,
by a full write buffer, by `boot_all`), and in which order `close` puts the
session id back and forgets it.  `Longpoll`: `LPRequest`, the minimum waits,
`_actualLP` going through clients that may wait again meanwhile, the tracking
counters.  `Requests`: framing of header blocks and bodies from reads that end
anywhere, what is done with a request that comes before the last is answered,
authentication, exceptions and time-outs; `requests`, `answers` and `executed`
are histories.  All three are steps of the event loop; other threads only
announce (`Longpoll`) or boot (`Sessions`).

### MergedMineProxy and MergedMining

*State.*  `mmp` is the proxy: a connection with its breaker per chain, which
chains are known and healthy, the queue of trees, the placeholders, the results
per miner.  `aux`, `cached`, `job` and `loop` are the pool: what setworkaux
left, eloipool's cache, the root in each miner's job, and for whom the JSON-RPC
server's loop waits for the proxy.  `tip` and `status` are the child chains,
`solves` the gotwork requests on their way, `late` the setworkaux requests that
timed out and will still be read.

*Steps.*  Each RPC the proxy makes blocks it, so a handler of it is atomic;
except for the call to the parent, which the pool may not answer because its
loop waits for the proxy (`UpdateAuxs`, then `SetWorkAux`, `NotSent` or
`TimeOut`).  `NewJob`, `LoopAsks`/`LoopIsAnswered`: the pool's `getaux`, on the
merkleMaker and stratum threads and on the loop.  `Solve`, `GotWork`,
`GotWorkLost`: a solution.  `Restart`, `CooldownOver`, `AuxExpires` and
`SolverResultExpires`.

*Abstracted.*  A root stands for its tree, which is told apart by the tip and
the payee of each leaf.  `gotworkReady` is only its lookup.  Left out: several
parents, getaux without a selector (nothing in the repository calls it), the
merkle branches and sizes, status reports.

### PayoutSplit, SolveLog and Payouts

*State.*  The logger's `queue`, the `lines` flushlog has taken, the share log
(`file`), `dropped`; `templates` with what their coinbase pays; the coinbaser's
record (`debug`); `works`, the proxy's gotworks, whose log lines `SolveLog`
derives; and the dashboard's `offset`, `solves`, `handed`, `account`.

*Steps.*  `LogShare`, `Flush`, `Write(k)` (which may fail after k lines),
`PoolStops` (the logger has no `stop()`, so what is queued is lost);
`NewTemplate` (coinbaser and makeCoinbaseTxn); `Solve`, `NewBlockLogged`;
`ApiState(k)` (the dashboard reads up to line k of the proxy's log), `Warm`,
`DashboardRestarts`.

*Abstracted.*  Time is the number of templates, and for the join of solves the
number of gotworks (`MaxGap` for 12 seconds); a miner can be paid by key, by
address or not at all; ties among payees with the same work go to any fixed one;
the lines of one gotwork stand together, and a read may end after any of them;
the details of accepted child blocks are known; `Recent` stands for the last 50
blocks.  Left out: rotation of logs and torn lines, the cache of whole answers,
`_credit_aux_chain_wins`, `attach_proxy_solves_cached` (never called), display.
Read off the model: an entry of another template may account for a block when
the daemon does not answer, and the totals of child rewards shrink as blocks
leave the last 50.

## 3. The runs

| Run | Instance | What it checks and shows |
|---|---|---|
| `MerkleMaker` | MM; the JSON-RPC thread takes roots and finds blocks; three heights, retarget at odd heights; stores of 1 or 2 | `TypeOK`; no lost wake-up (`NoLostWakeup`, `WaiterIsWoken`); the maker never blocks on a full Queue (`MakerNeverStuck`); stored roots fit (`StoresFollowBlock`); `ready` means work (`ReadyMeansWork`); clean jobs have their header fields (`CleanJobsHaveMP`) |
| `MerkleMakerPolls` | a p2p thread polls too, the JSON-RPC thread also calls getMC; two heights | `StoresFollowBlock` with two pollers, up to the first disturbance (`CONSTRAINT Undisturbed`) |
| `MerkleMakerLive` | two heights and a rival block; fairness | `GetMRDReturns`, `FollowsUpstream` |
| `MerkleMakerNotify` | three heights, no finder | *violation*: an ordinary new block does not run onBlockChange |
| `ShareCredit` | one share sent twice, two pollers, two foreign blocks, three lives | `CreditedOnce`, `ExitForgetsNothing` |
| `ShareOffers` | one solution, three upstreams, DelayLogForUpstream on and off | `ExactlyOneLogs`, `GivenUpByAll`, `BlockHeard` |
| `SqlShareLog` | two chains, batches and queue of two, two rows each, one refused row, one lost answer per chain | `NothingForgotten`, `TwiceOnlyWhenUnsure`, `StopDrains`, `SurvivesRefusal`, `EventuallySettled`, `KeepsItsPromise` |
| `Stratum` | one connection and user, the merkleMaker thread, two blocks, three jobs for all, one failure; the schedule with three tasks and three times | `UpdateAlwaysComing`, `WorkIsKnown`, `NoHarsher`, `EveryoneFollows`; `NeverForgotten`, `KeepsTimes` (implements `Timers`) |
| `Servers` | two handlers and two session ids; two longpolling clients, two announcements; two requests of seven kinds | `EachSidOnce`, `ClosedIsForgotten`; `WaitersKnown`, `WaitersAnswered`; `EachItsOwn`, `DeafIsTimed` |
| `MergedMining` | two miners, one with a key; a child chain with two tips, up or calling blocks stale; one solution, one restart; room for all trees | `PaysItsMiner`, `SolutionsAreKnown` |
| `MergedMiningLive` | one miner who also uses getwork; a chain that goes down and returns; room for one tree; fairness | `EveryoneReturns`, `JobsCatchUp` |
| `Payouts` | three shares of three kinds of miners, rewards 0, 1, 5, two templates, two solves, queue of one, with and without a pool share | `NoLineLostSilently`, `RewardsAddUp`, `CountedTwiceOnlyWhenCut` |

Further instances, of questions that the code answers with no and of the parts
of the sums by themselves, to be run by hand:

| Command | What it shows |
|---|---|
| `tlc -config MerkleMakerRace.cfg MCMerkleMaker.tla` | `HeightCheckAvoidsRace` is violated (finding 2) |
| `tlc -config MerkleMakerStall.cfg MCMerkleMaker.tla` | `MakerNeverWaitsForItself` is violated (finding 3) |
| `tlc -config ShareDelayed.cfg MCShareSubmission.tla` | `LoggedWithAnswer` is violated (finding 4) |
| `tlc -config SqlShareLogRefused.cfg MCSqlShareLog.tla` | `SurvivesRefusal` is violated where a failed statement fails the transaction (finding 5) |
| `tlc -config StratumRolling.cfg Stratum.tla` | `GlobalJobsRemainValid` is violated (finding 6) |
| `tlc -config MergedMiningShared.cfg MCMergedMining.tla` | `SharedCatchesUp` is violated (finding 7) |
| `tlc -config PayoutsCountedOnce.cfg MCPayouts.tla` | `CountedOnce` is violated (finding 8) |
| `tlc -config Schedule.cfg Schedule.tla` | passes: `NeverForgotten`, `KeepsTimes`, and `DueRuns`: a task whose time has come is run |
| `tlc -config Longpoll.cfg Longpoll.tla` | passes: `Tracked` (the tracking counters return to nothing), `WaitersKnown` |

*Why these bounds.*  merkleMaker: two heights are what a wrong store needs (a
root of one height at another), three add a height that does not follow the last
and a retarget in the middle; a store of one is full and empty at every other
step; seven Queue objects are more than can be referred to at once.  Shares:
two submissions of one header are what crediting twice needs, two pollers are
what resetting twice at once needs, three lives allow a stop, a kill and a start
from an old file; three upstreams are what tells the rotation of the list from
asking the same one again and tries from the upstreams left.  SQL: two rows in
a batch of two chains give batches with one and with both chains, a queue of two
is full while a batch is flushed, and a first row refused has one behind it.
Stratum: one connection is enough, since handlers meet only in the server's
`JobId`, `JobBytes` and work log, which the other thread changes at every step
just as well; two blocks make work stale once; three jobs for all let a job be
replaced while another is being sent; one target kept beside the newest is
thrown away after two jobs.  Servers: two handlers are what handing one session
id to two takes, with one id above 0 to run out of; two clients are what a set
that changes while it is gone through needs; two requests are what mixing up
users and answers needs, in every cut of their header blocks and bodies.
`Booters` is empty: with `boot_all` on another thread two threads can be in
`close` of one handler, which the code does not rule out (section 4).  Merged
mining: one child chain with two tips is what an old root needs, two miners with
different payees what paying another needs; `Statuses` are those that matter to
the properties of the run; without solutions in the live run, since they change
nothing the waiting depends on.  Payouts: `Modest` allows three shapes (many
shares and templates without solves; one share with several templates and
solves; several paid shares with one solve): the properties relate either shares
to the file, or a division to its shares, or child blocks to reads, and each
shape has one of these in full.
The sets of blocks, rows, lives and lost answers are the only bounds on the
behaviours (`Templates`, `Foreign`, `MaxLives`, `MaxRows`, `MaxUnsure`,
`MaxQueues`, `MaxBlock`, `MaxJobs`, `MaxFaults`, `MaxTime`, `MaxSid`, `MaxId`,
`MaxRequests`, `MaxTip`, `MaxSolves`, `MaxRestarts`, `MaxShares`,
`MaxTemplates`).

*Views.*  `UpToNames` in `MCMerkleMaker` renames Queue objects by their first
reference and forgets those nothing refers to.  `FreshQueue` chooses any object
not in use and no formula depends on which one, so states that agree on the view
have the same future.  It is used for invariants only, not for liveness.
`InUse` in `MCStratum` forgets work and targets of job ids nobody names any
more: ids only grow, so these are never asked for.  `View` in `MCMergedMining`
forgets the order of the trees, which is only used to throw out the oldest, and
nothing is thrown out where there is room for all.

*Deadlock.*  `MerkleMakerLive` checks it.  `MerkleMaker` and `MerkleMakerPolls`
do not: merkleMaker can wait for itself, which is the subject of
`MerkleMakerStall`.  The other runs end when submissions, lives, rows, jobs,
requests, tips or templates are used up.

### Fairness

* `MerkleMakerLive`: weak fairness of the merkleMaker thread (its loop catches
  every exception and goes on, `run`), of the passing of time, and of the
  getwork thread's wake-up from `Queue.get`.  Strong fairness of two outcomes of
  a poll: upstream, asked again and again, answers at last with a template
  that is not refused.  Nothing is assumed of miners.  `FollowsUpstream` says
  itself that getwork miners who take roots without end may keep merkleMaker
  from polling.
* `SqlShareLog`: weak fairness of the writer thread, nothing of the database:
  it may stay down for ever, the retries are bounded.
* `ShareOffers`: weak fairness of each submission thread.  `BlockHeard` speaks of
  an upstream that stays up.  With DelayLogForUpstream or a chain that has moved
  on the thread may end before; the property says so.
* `Stratum`: the event loop goes on with what it does; every turn it looks at
  wake-ups and difficulty updates, and runs tasks in the order of their times,
  so each that stays is run (strong fairness, since other messages come between);
  the merkleMaker thread finishes an update it has begun.  Nothing is assumed of
  miners or of the chain.
* `Servers`: the loop finishes what it handles, runs tasks whose time has come,
  and threads finish an announcement.  Clients may never read, write or close.
* `MergedMiningLive`: the proxy updates every 15 s and answers in turn, a call to
  the parent is read or times out, breakers cool down, caches expire, and miners
  get new jobs, not always while the proxy cannot be reached.  `JobsCatchUp` is
  about child chains that stand still and answer from some time on.

## 4. What was found

The first is a run that is expected to fail; the others are further instances
of section 3.

1. `MerkleMakerNotify` (merklemaker.py:288): after "If we don't have MP yet, we
   need to wait until we do" `hasattr` is asked of a tuple; and the poll has
   already moved `currentBlock` when it looks for a change.  `onBlockChange` does
   not run for an ordinary new block, `networkTarget` keeps the old bits.
2. `MerkleMakerRace` (merklemaker.py:734): the height check and the append are
   two steps; a block found in between leaves an old root in the new store.
3. `MerkleMakerStall` (merklemaker.py:832): getMC waits without a timeout, also
   when merkleMaker itself calls it from a callback while `ready` is false.
4. `ShareDelayed` (eloipool.py:783): the submission thread starts before the
   share is marked; with DelayLogForUpstream the share is logged twice or never.
5. `SqlShareLogRefused` (sql.py:295): no rollback after a refused row.
6. `StratumRolling` (eloipool.py:707): a job sent between subscribe and
   authorize is registered for nobody, so a share for it is refused once the
   miner is authorised; the look-up of the shared job in `checkShare` waits for a
   KeyError that LookupWork does not raise.
7. `MergedMiningShared` (merged-mine-proxy.py3:946): setworkaux is sent only for
   a root that is new to `merkle_trees`, and not again when it failed.
8. `PayoutsCountedOnce` (dashboard.py:1502): a read of the proxy's log that ends
   between the two lines of one solve makes two solves of it.

Seen while reading, without a property:

* stratum: two connections of one user name share a job id (eloipool.py:505);
  `wantClear` of a pending request is overwritten (stratumserver.py:352);
  `close` may run on two threads at once when `boot_all` does
  (stratumserver.py:215).
* networkserver: `_schEH` is kept by `id(task)`, and a bound method is another
  object each time it is named (356).
* JSON-RPC: an announcement while another is waiting is ignored together with its
  wantClear (jsonrpcserver.py:320); what is read while a longpoll waits is swallowed, and
  its body may be taken for the next request; a bad Authorization header is
  answered with 500 and leaves the connection deaf until its timer; requests
  behind one with "Connection: close" are still executed; a connection that is
  to close with something unsent has no timer.
* merkleMaker: the trim check does not hold for object templates (457);
  `createClearMerkleTree` may raise in the middle of an update (213); two updates
  may overlap (262); a clear store of one can be filled by updateBlock's own None,
  so that the maker blocks.
* share path: a share after stopLoggers is lost (979); `tries` counts calls, not
  upstreams (580); saveState tries 65,536 times to write without a pause (990);
  `networkTarget` is None until bits are known (756).
* SQL log: two loggers with one chain_id share counts and connection (sql.py:82).
* proxy: the breaker is reset by connecting (232); the cache of readiness is one
  for all miners (eloipool.py:374); after a restart a placeholder hides the real
  tree (1078); MAX_RETRIES is 1 where a comment says that it retries three times
  (1143); the choice of the merkle size raises for three chains, and another nonce
  cannot help for sizes that are powers of two (788).
* vardiff: an idle miner at the default target keeps its old `lastUpdate`
  (eloipool.py:439).

## 5. What is proved

All proofs are checked by tlapm from the modules' own named assumptions on their
constants, which TLC evaluates in the runs.  A theorem that needs more states it
as a hypothesis, and the paragraph names it.  Each proof has the same shape: an
inductive invariant, a lemma per action (split by conjunct where the action
disturbs several), and a last step that combines them.

**MerkleMakerProofs.**  For any set of threads, templates, retarget interval and
store sizes.

* `TypeCorrect` and `WaitersAreWoken` (`[]WaiterIsWoken`) from
  `IInv == TypeOK /\ WaiterIsWoken`.  `TypeOK` includes `FrameOK`, what the stack
  holds at each place, since a return from updateBlock goes where the stack says
  and only the stack's shape rules out that a poller returns without a template.
  The unlocked handshake on `ready` loses no wake-up: a thread that finds `ready`
  false sets it and is then at `Signal`; one that finds it true changes nothing.
* `NoneSleepsOn` (`[]NoLostWakeup`) and `MakerGoesOn` (`[]MakerNeverStuck`) from
  `QueuesInv`: unless updates have overlapped at most one thread is in
  updateBlock (`Alone`); the Queue it is about to replace is the present store, so
  that the one it will wake is the one it gave up (`OldIsStore`); Queues have one
  of the two configured sizes (`SizesFit`), and where
  `_makeOne` is about to put there is room (`HasRoom`).  The history can only get
  worse, so "no overlap so far" is a fact about every earlier step.  `MakerGoesOn`
  assumes `ClearMax >= 2` and that no minimum is above its maximum: with a store of
  one TLC finds the maker stuck (section 4), so the first is needed.
* `CleanJobsAreFed` (`[]CleanJobsHaveMP`), whatever overlaps, from `MPInv`: who is
  at a place that needs a clear tree with its header fields has one, and no step
  takes these away.
* `ReadyPoolHasWork` (`[]ReadyMeansWork`) from `CallsInv` and `TreesInv`: for each
  place of updateBlock what has been assigned so far (`Stage`), and between
  updates the whole (`Settled`), so that a `ready` that is true there has the trees
  of both heights behind it.  The assumption `NoneAssumption` says that None is not
  a tree.
* `RootsFollowBlock` (`[]StoresFollowBlock`) adds `ClearTreesInv`, `PollsInv` and
  `StoresInv`.  `StoreStage` says for each place of updateBlock which of the two
  stores fits which height (after `assign` only the longpoll store does, and it
  fits the height that the block then has; after `fresh` both do; the regular
  roots not before `clear`), and `StoresSettled` what holds between updates.
  `MakingServes` says that the root in `_makeOne`'s hands fits the store it is
  for.  `PollsInv` says that a poll about to adopt its template has found it, or
  made it, to follow the current block.  The last two are kept because nobody
  else updates in between (`Unhindered`), which is proved to hold as long as
  `disturbed` is `Nothing`; finding 2 of section 4 is what happens otherwise.

**ShareSubmissionProofs.**  `TypeCorrect`; `PaidOnce` (`[]CreditedOnce`);
`NothingForgotten` (`[]ExitForgetsNothing`).  The inductive invariant is
`IInv == TypeOK /\ CreditOK /\ SaveOK`.  CreditedOnce is not inductive by itself:
one has to know that what was let through is in `DupeShareHACK` (or forgotten)
as long as its work can be looked up (`SeenOK`) — it is the order of the two
resets that makes this so, the dictionary first and the work log second, with
`InBlockChanged` in between; that a submission whose work was looked up will
find the data there, or straddles (`CheckOK`); and that nothing is credited that
was not let through (`AcceptedOK`).  For the state file, `SaveOK`: in an orderly
exit nobody checks shares when the state is saved, so the file holds the data of
every work in it.

Of the threads that offer blocks: `LoggedOnceOnly` (`[]ExactlyOneLogs`) and
`GivenUpLast` (`[]GivenUpByAll`).  For the first, `LogOK`: a share has one receiver, a thread
that offers its block only once it was let through, and waits only once that
thread is there (`ReceiverOK`); and, per share, how many lines there are at each
stage, with the thread of a share that waits alive and with an upstream left to
ask, or killed with its process (`LinesOK`).  That a thread cannot run out of
upstreams before an answer is what rules out a share that waits for nobody.  For
the second, `RoundOK`: before any answer the list is `Servers` turned by one per
try, so `tries` counts distinct upstreams; the lemma `Turn` is the step on
sequences of any length.

**SqlShareLogProofs.**  `TypeCorrect`, `NoneForgotten`, `StopLeavesNothing`,
`OnceUnlessUnsure` (`[]TwiceOnlyWhenUnsure`), `RefusalIsSurvived` (an action property,
under `~AbortsOnError`, the MySQL and SQLite case), and `PromiseIsKept`, the refinement
of `ShareLog`.  `IInv == TypeOK /\ OrderOK /\ CloseOK /\ NothingForgotten`:
`OrderOK` ties the chains still to flush to the rows held, which is why an empty
list of chains means an empty batch; `CloseOK` says that what stands behind the
None was logged after it; `LinkOK` is what the fallback's connection needs.

`OnceUnlessUnsure` adds `SettleInv`: a row the batch holds was committed only as
often as an answer of its chain was lost, what is queued was never committed,
and one that is settled at most once more.

`PromiseIsKept` (`Spec => KeepsItsPromise`, without a hypothesis) adds `OrderInv`: a
chain's rows ascend in the batch, those of the batch are below those of the queue,
which ascend too, no row of the table is above one that waits, and each row new to
the table was greater than all before it.  So what a step settles (`FlushSettles`) is
the lowest part of what waits, and `Settles` maps it to `Keep`, `GiveUp` or a stutter
of `ShareLog`.  The mapping sorts the set of the waiting rows by their rank in it, so
that `SortedJoin` and `SortedParts` (a sorted set is its lower part followed by the
rest) and `OnceIsSorted` follow from counting.

**StratumProofs.**  `UpdatesAreComing`, `WorkIsJudged`, `TargetsAreAsTold` from
`JobsInv`; any connections, users, announcing threads, targets and failures.  The
argument: whatever makes a miner's job obsolete is a step of a thread that has
an update under way (`Coming`), and after the update publishes, the miner is one
that will get a job (`GetsJob`): by its own task, by the pending wake-up, or in
the round the loop is making (`InLine`).  For targets, that what `sendJob` is about
to file under the `JobId` it reads again is for the job it built, or a new one is
coming.  So at rest, where nothing is coming and nobody is in line, the last job
is of this block, registered and judged as told.

`NoneIsForgotten` (`[]NeverForgotten`) and `TimesAreKept` for the schedule, with
`MaxTime \in Nat \ {0}`.  The invariant is `InHeap`, every task has an entry of its
present time in the heap.  What it takes is that throwing away the entries
before the earliest that counts cannot throw away such an entry, and that
building anew makes one for each.  `TimesAreKept` is the refinement of `Timers`,
step by step: `counts` is the times of a task's entries in the heap.

**ServersProofs.**  `SidsAreOnce` (`[]EachSidOnce`) with `Booters = {}`, that is as
long as only the event loop closes handlers, from `SesInv`: free ids are in the
list once, held ones with one handler and not in the list, every id made so far
is free or held, with the handler that is being closed counted at each place of
`close`.  `WaitersAreKnown` (`[]WaitersKnown`) from `LpInv`.  `RequestsAreTheirOwn`
(`[]EachItsOwn`) and `DeafAreTimed` (`[]DeafIsTimed`) from `ReqInv`, for requests of
any kinds and any number: header blocks not handled yet are behind the request
in hand and in order, what was answered and called is before what is pending.
Hypotheses: `None \notin Nat`, `None \notin Clients`, `Kinds \subseteq Kind`,
`MaxRequests \in Nat`, `Bad # None`: None and Bad are not data.

**MergedMiningProofs.**  `MinersArePaid` (`[]PaysItsMiner`) from `MMInv`, with
`MaxTip \in Nat` and `RpcUsers \subseteq Users`: each layer (the proxy's results per
address, what setworkaux leaves, eloipool's cache, jobs) holds roots that pay only
the one it is kept for, or the pool.  `TreesAreKept` (`[]SolutionsAreKnown`) needs
room for all trees (`Room`: finitely many roots, no more than `Keep`), which is what
the property speaks of: no root is in the queue twice, so that as many as there
are roots throw nothing out.

**PayoutsProofs.**  `LinesAreKept` (`[]NoLineLostSilently`) from `LogInv`: the three
sequences (written, taken, queued) ascend and each is behind the one before, none
holds a lost line, and their lengths with the lost and the dropped add up.

`RewardsAreDivided` (`[]RewardsAddUp`) and `CountedTwiceIsCut`
(`[]CountedTwiceOnlyWhenCut`) from `PayInv == LogInv /\ ChainType /\ DashType /\
OnlyWhenCut`, for any miners, child chains, amounts, logs and bounds:

* What is divided.  `Coinbase`, `Division` and `Row` say what a template, a record of
  a division and a row of the account are.  That each step makes such ones is
  arithmetic: a part rounded down is at most its part of the work (`PartOfWork`), so
  that the payees but the one with the least work take less than the payable
  amount, that one takes what is left of it, and all together exactly the amount
  (`SharesAddUp`); when nothing is reserved for the pool the check at the end takes
  back the one coin by which the whole would be handed out (`Divided`); so
  makeCoinbaseTxn never finds too much in it (`CoinbaseAddsUp`), and what the
  dashboard scales to a child block's reward is accounted in full, as nobody's part
  is dropped when he has no address on the chain (`AccountedAddsUp`).
* What is counted.  A line of the proxy's log is about the gotwork that wrote it, and
  two lines that make a solve of the same gotwork are its solve line and the status
  right behind it (`SolvesApart`, of the log by induction over the gotworks:
  `LogWritten`).  So one read makes at most one solve per gotwork, for it merges such
  a pair (`ParsedAre`), and two reads make two solves only of a gotwork whose pair
  stands on both sides of the place where a read ended (`ReadKeeps`).  A solve makes
  details of at most one event, since the blocks take the solves one after the
  other and what none took is left (`EventsAre`, by induction over the blocks); the
  details of an event are one row each (`RowsAre`); so two rows of a block are of one
  gotwork in two events, that is of one read twice (`AllRowsAre`).
* `OnlyWhenCut` is what has to be kept between the steps: `ReadSoFar` (each solve the
  dashboard holds is of a line before its place in the log), `Parted` (a solve line
  that is the last read, its status being the next, is of a gotwork in `cut`), and
  that gotworks read, handed on or accounted twice are in `cut`.  None of the three
  parts follows from the others, as reading, handing on and accounting are steps
  of their own, and a restart forgets all but `cut`.

The constants are assumed to be what the configuration is: amounts, works and the
pool's rate not negative, a child reward of at least one coin, a queue that holds a
line (logfile.py makes it at least 1), finitely many child chains.

**DataLemmas.**  Induction in the form the provers can use, for a set that is named
instead of a predicate: `NatSet` (a set with 0 that has n + 1 with n holds all natural
numbers, from the least counterexample) and `Subsets` (the same for the subsets of a
finite set).  On these rest the facts about `SumFunction` (`SumStep` takes its
recursive function apart: the value at a set is that of the set without one
element, and it exists by stages), about `Sorted`, and in `PayoutsProofs` those about
`FlattenSeq` and the fold over blocks (`FlattenStep`, `FlattenMembers`, `FoldingKeeps`).

**Only model-checked.**  Liveness (`GetMRDReturns`, `FollowsUpstream`,
`BlockHeard`, `EventuallySettled`, `EveryoneFollows`, `ClosedIsForgotten`,
`WaitersAnswered`, `EveryoneReturns`, `JobsCatchUp`): TLAPS as installed does not
treat ENABLED and fairness.  Every invariant, action property and refinement that a
passing run checks is proved.

## 6. What is not modelled

* Socket and HTTP I/O, SQL text, log formats, the bytes of coinbases and blocks,
  hashes, key derivation (`blake8.py`, `mining_key.py`): pure I/O or out of reach of
  a model checker, and no property here depends on them.
* The display of the dashboard, nine tenths of its file: HTML, CSS, JavaScript and
  tables made from answers of daemons.
* The deployment scripts, the test miner, interactive mode.
* `deploy-bundle/eloipool`, a second copy of the pool, byte for byte.
* The p2p node, except that its messages make a thread poll.
* The arithmetic of share targets: a target is any of the allowed ones.
* Merkle trees: a tree is known by what it was made from.

These are most of the repository's lines: the modules stand for about a sixth of
them, and for almost all that keep state shared by threads or processes.

## 7. The plan

1. Share targets (`clampTarget`, `getTarget`) and merkle branches (`withFirst`) as
   operators with reference definitions.
2. A positive form of finding 8: that reading up to the last whole gotwork would
   count each child block once.
