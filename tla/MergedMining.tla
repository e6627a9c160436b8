---------------------------- MODULE MergedMining ----------------------------
(***************************************************************************)
(* Eloipool and merged-mine-proxy.py3: what each miner's job carries for    *)
(* the child chains (eloipool.py, getGotworkCoinbaseAux with its caches),   *)
(* what becomes of its solutions, the child chains that move on and fail,   *)
(* and the two processes that call each other.                             *)
(***************************************************************************)
EXTENDS MergedMineProxy

CONSTANTS
  Users,       \* miners
  Derived,     \* those with a mining key: the child chains pay them (the others: the pool)
  Pool,
  RpcUsers,    \* those that also use getwork or getblocktemplate
  Statuses,    \* what may become of a child chain's daemon
  MaxTip,      \* bound on blocks of each child chain
  MaxSolves,   \* bound on solutions on their way
  MaxRestarts, \* bound on restarts of the proxy
  Nobody

VARIABLES
  tip, status,  \* the child chains and their daemons
  mmp,          \* the proxy
  sending,      \* the root of the setworkaux call that blocks the proxy
  restarts,
  aux,          \* JSONRPCServer.aux['MM']
  late,         \* setworkaux requests that were given up but will be read
  loop,         \* the user for whom the JSON-RPC server's loop waits for the proxy
  cached,       \* users whose job's root is still in _gotworkAuxCache
  job,          \* the root in each miner's job
  solves        \* gotwork requests on their way

world == <<tip, status>>
proxy == <<mmp, sending, restarts>>
pool == <<aux, late, loop, cached, job>>
vars == <<world, proxy, pool, solves>>

Pays(u) == IF u \in Derived THEN u ELSE Pool
ProxyIsFree == sending = None

-----------------------------------------------------------------------------
\* The child chains.

TipMoves(c) ==
  /\ tip[c] < MaxTip
  /\ tip' = [tip EXCEPT ![c] = @ + 1]
  /\ UNCHANGED <<status, proxy, pool, solves>>
DaemonChanges(c) ==
  /\ status' \in {[status EXCEPT ![c] = s] : s \in Statuses \ {status[c]}}
  /\ UNCHANGED <<tip, proxy, pool, solves>>

-----------------------------------------------------------------------------
\* The proxy by itself.

\* update_auxs: the per-solver results are forgotten, and a new root is sent to
\* the parent before it is remembered.
Update(m, tips) ==
  LET root == Template(m, status, tips, Pool)
      fetched == Fetched([m EXCEPT !.cache = <<>>], status)
  IN /\ mmp' = fetched
     /\ sending' = IF Remembers(fetched, root) THEN None ELSE root
UpdateAuxs ==
  /\ ProxyIsFree
  /\ Update(mmp, tip)
  /\ UNCHANGED <<world, restarts, pool, solves>>

\* The JSON-RPC server's loop reads the request; or it waits for the proxy itself,
\* until the socket times out, and reads the request later.
Sent(answer) ==
  /\ mmp' = Add([mmp EXCEPT !.conn[Parent] = Called(@, answer)], sending, FALSE)
  /\ sending' = None
SetWorkAux ==
  /\ ~ProxyIsFree /\ loop = Nobody /\ ~Open(mmp.conn[Parent])
  /\ aux' = sending
  /\ Sent("up")
  /\ UNCHANGED <<world, restarts, late, loop, cached, job, solves>>
NotSent ==
  /\ ~ProxyIsFree /\ Open(mmp.conn[Parent])
  /\ Sent("up")
  /\ UNCHANGED <<world, restarts, pool, solves>>
\* (A call without a timeout.)
NoTimeout == FALSE /\ UNCHANGED vars
TimeOut ==
  /\ ~ProxyIsFree /\ loop # Nobody /\ ~Open(mmp.conn[Parent])
  /\ late' = late \cup {sending}
  /\ Sent("failing")
  /\ UNCHANGED <<world, restarts, aux, loop, cached, job, solves>>
SetWorkAuxLate ==
  /\ loop = Nobody
  /\ \E root \in late : aux' = root /\ late' = late \ {root}
  /\ UNCHANGED <<world, proxy, loop, cached, job, solves>>

CooldownOver(p) ==
  /\ mmp.conn[p].cooling
  /\ mmp' = [mmp EXCEPT !.conn[p].cooling = FALSE]
  /\ UNCHANGED <<world, sending, restarts, pool, solves>>
SolverResultExpires(pays) ==
  /\ pays \in DOMAIN mmp.cache
  /\ mmp' = [mmp EXCEPT !.cache = [p \in DOMAIN @ \ {pays} |-> @[p]]]
  /\ UNCHANGED <<world, sending, restarts, pool, solves>>
Restart ==
  /\ restarts < MaxRestarts
  /\ restarts' = restarts + 1
  /\ mmp' = Started /\ sending' = None
  /\ UNCHANGED <<world, pool, solves>>

-----------------------------------------------------------------------------
\* getGotworkCoinbaseAux: from the cache, or with the proxy's answer (Found), or
\* without one.  What it returns goes into a job.
Found(u) ==
  IF u \in cached THEN {[root |-> job[u], mmp |-> mmp]}
  ELSE {LET reply == GetAux(mmp, status, tip, Pays(u)) IN
        [root |-> IF reply.result.error THEN None ELSE reply.result.root, mmp |-> reply.mmp] :
        free \in {ProxyIsFree} \cap {TRUE}}
Unreached(u) == {[root |-> None, mmp |-> mmp] : missed \in {u} \ cached}
AuxExpires(u) ==
  /\ u \in cached
  /\ cached' = cached \ {u}
  /\ UNCHANGED <<world, proxy, aux, late, loop, job, solves>>

\* A job carries the user's own root; without one, what setworkaux left.
Job(u, look) ==
  /\ job' = [job EXCEPT ![u] = IF look.root = None THEN aux ELSE look.root]
  /\ cached' = IF look.root = None THEN cached ELSE cached \cup {u}
  /\ mmp' = look.mmp
  /\ UNCHANGED <<world, sending, restarts, aux, late, solves>>
NewJobOf(u, looks) == (\E look \in looks : Job(u, look)) /\ UNCHANGED loop
NewJob(u) == NewJobOf(u, Found(u) \cup Unreached(u))
\* Likewise for getblocktemplate and getwork (with a root of the user's own; one without
\* may be older than the last setworkaux), on the JSON-RPC server's loop.
LoopAsks(u) ==
  /\ loop = Nobody /\ u \notin cached
  /\ loop' = u
  /\ UNCHANGED <<world, proxy, aux, late, cached, job, solves>>
LoopIsAnswered ==
  /\ loop # Nobody /\ ProxyIsFree
  /\ \E look \in Found(loop) : Job(loop, look)
  /\ loop' = Nobody

-----------------------------------------------------------------------------
\* Solutions.

\* What solves a block goes to the proxy, on a thread of its own.  (gotworkReady's
\* lookup is that of a job; a share that it refuses is one that is not here.)
Solve(u) ==
  /\ job[u] # None /\ Cardinality(solves) < MaxSolves
  /\ solves' = solves \cup {[by |-> u, root |-> job[u]]}
  /\ UNCHANGED <<world, proxy, pool>>

GotWorkLost(sol) ==
  /\ sol \in solves
  /\ solves' = solves \ {sol}
  /\ UNCHANGED <<world, proxy, pool>>
\* It meets the targets of some chains, and has made a block of the parent or not.
\* When a chain or the parent has accepted it, or it was stale, the templates are
\* fetched again.
GotWork(sol) ==
  /\ ProxyIsFree /\ sol \in solves
  /\ \E meets \in SUBSET {c \in Chains : tip[c] < MaxTip}, parent_valid \in BOOLEAN :
       LET m == Looked(mmp, sol.root)
           takers == Accepting(m, status, tip, sol.root, meets)
           tips == [c \in Chains |-> IF c \in takers THEN tip[c] + 1 ELSE tip[c]]
           after == Submitted(m, status, sol.root)
       IN /\ tip' = tips
          /\ IF takers # {} \/ parent_valid \/ FoundStale(m, status, tip, sol.root, meets)
               THEN Update(after, tips)
               ELSE mmp' = after /\ UNCHANGED sending
  /\ solves' = solves \ {sol}
  /\ UNCHANGED <<status, restarts, pool>>

-----------------------------------------------------------------------------
Init ==
  /\ tip = [c \in Chains |-> 0] /\ status \in [Chains -> Statuses]
  /\ mmp = Started /\ sending = None /\ restarts = 0
  /\ aux = None /\ late = {} /\ loop = Nobody
  /\ cached = {} /\ job = [u \in Users |-> None]
  /\ solves = {}

Next ==
  \/ \E c \in Chains : TipMoves(c)
  \/ \E c \in Chains : DaemonChanges(c)
  \/ UpdateAuxs
  \/ SetWorkAux
  \/ NotSent
  \/ TimeOut
  \/ SetWorkAuxLate
  \/ \E p \in Chains \cup {Parent} : CooldownOver(p)
  \/ \E p \in Users \cup {Pool} : SolverResultExpires(p)
  \/ Restart
  \/ \E u \in Users : AuxExpires(u)
  \/ \E u \in Users : NewJob(u)
  \/ \E u \in RpcUsers : LoopAsks(u)
  \/ LoopIsAnswered
  \/ \E u \in Users : Solve(u)
  \/ \E sol \in solves : GotWorkLost(sol)
  \/ \E sol \in solves : GotWork(sol)
Spec == Init /\ [][Next]_vars

\* The proxy updates every 15 seconds and answers what it is asked in turn; a call
\* to the parent is read or times out; breakers cool down and eloipool's cache
\* expires; miners get new jobs, and not always while the proxy cannot be reached.
CallEnds == SetWorkAux \/ NotSent \/ TimeOut
Fairness ==
  /\ SF_vars(UpdateAuxs) /\ SF_vars(LoopIsAnswered) /\ WF_vars(CallEnds)
  /\ \A p \in Chains \cup {Parent} : WF_vars(CooldownOver(p))
  /\ \A u \in Users : WF_vars(AuxExpires(u)) /\ SF_vars(NewJobOf(u, Found(u)))
FairSpec == Spec /\ Fairness

-----------------------------------------------------------------------------
\* Work never pays another miner on a child chain, through both caches, restarts
\* and jobs without a root of their own: it pays its miner, or the pool.
PaysItsMiner ==
  /\ \A u \in Users : job[u] # None => \A c \in DOMAIN job[u] : job[u][c].pays \in {u, Pool}
  /\ \A sol \in solves : \A c \in DOMAIN sol.root : sol.root[c].pays \in {sol.by, Pool}

\* What miners work on can be submitted: the proxy keeps the tree of every root that
\* is in a job, whichever way it got there, until it is restarted (or has given out
\* Keep newer ones: here Keep is as large as there are roots).
SolutionsAreKnown ==
  restarts = 0 =>
    \A root \in {job[u] : u \in Users} \cup {sol.root : sol \in solves} :
      root = None \/ root = sending \/ (Remembers(mmp, root) /\ root \notin mmp.bare)

\* The proxy that waits for Eloipool's JSON-RPC server and the server's loop that
\* waits for the proxy both get on.
EveryoneReturns == []<>ProxyIsFree /\ []<>(loop = Nobody)

\* Once the child chains stand still and answer, a miner's jobs come to be about
\* their present tips, whatever the caches on both sides, the breakers and the
\* proxy's restarts have held back.
AllUp == \A c \in Chains : status[c] = "up"
Root(pays) == [c \in Chains |-> [tip |-> tip[c], pays |-> pays]]
JobsCatchUp == \A u \in Users : <>[]AllUp => []<>(job[u] = Root(Pays(u)))

\* "The shared session path still updates the parent's global MM blob"
\* (merged-mine-proxy.py3:940-942): so does what setworkaux has left.
SharedCatchesUp == <>[]AllUp => []<>(aux = Root(Pool))
=============================================================================
