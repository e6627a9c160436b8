-------------------------- MODULE MergedMineProxy --------------------------
(***************************************************************************)
(* merged-mine-proxy.py3: one thread (every RPC it makes blocks it) that    *)
(* fetches a block to mine from each child chain, keeps the merkle trees of *)
(* what it gave out, and submits what was solved.  What a handler does to   *)
(* the proxy's state, as operators on that state.                           *)
(*                                                                         *)
(* A root stands for its tree: the block of each chain that has a leaf in   *)
(* it, told apart by the chain's tip and the address that it pays.          *)
(***************************************************************************)
EXTENDS Naturals, Sequences, FiniteSets, SequencesExt

CONSTANTS
  Chains,     \* child chains
  Parent,     \* the parent's connection: Eloipool's JSON-RPC server
  AtZero,     \* the chains whose merkle index is 0 with nonce 0
  Threshold,  \* MAX_CONSECUTIVE_FAILURES
  Keep,       \* MERKLE_TREES_TO_KEEP
  None

-----------------------------------------------------------------------------
\* Proxy.callRemote: one attempt (MAX_RETRIES is 1), behind a circuit breaker.
\* The other side is up, answers with an error (syncing, stale), does not accept
\* connections (down), fails after it has accepted one (failing), or sends what
\* cannot be read (babbling).

Fresh == [http |-> FALSE, failures |-> 0, cooling |-> FALSE]
\* (A breaker that does not let a probe through.)
NeverHalfOpen(conn) == conn.failures = Threshold
Open(conn) == conn.failures = Threshold /\ conn.cooling

Failed(conn, http) ==
  LET n == IF conn.failures = Threshold THEN Threshold ELSE conn.failures + 1 IN
  [http |-> http, failures |-> n, cooling |-> conn.cooling \/ n = Threshold]
\* _connect resets the failures.
Connected(conn) == IF conn.http THEN conn ELSE [conn EXCEPT !.http = TRUE, !.failures = 0]

Called(conn, status) ==
  IF Open(conn) THEN conn
  ELSE CASE status = "down" -> Failed(conn, FALSE)
         [] status = "failing" -> Failed(Connected(conn), FALSE)
         [] status = "babbling" -> Failed(Connected(conn), TRUE)
         [] status \in {"syncing", "stale"} -> Connected(conn)
         [] status = "up" -> [Connected(conn) EXCEPT !.failures = 0]
Answers(conn, status) == ~Open(conn) /\ status = "up"
SaysStale(conn, status) == ~Open(conn) /\ status = "stale"

-----------------------------------------------------------------------------
\* The state of the proxy.

Started ==
  [conn |-> [p \in Chains \cup {Parent} |-> Fresh],
   known |-> {},                 \* chain_ids and aux_targets that are set
   unhealthy |-> {},             \* chain_health
   queue |-> <<>>,               \* merkle_tree_queue
   bare |-> {},                  \* roots whose entry in merkle_trees is a placeholder
   cache |-> <<>>]               \* per_solver_cache: from addresses to results

\* An entry in merkle_trees, and the oldest one forgotten.
Entered(m, root, placeholder, size) ==
  LET queue == Append(m.queue, root)
      old == IF Len(queue) > size THEN {Head(queue)} ELSE {}
      bare == m.bare \cup IF placeholder THEN {root} ELSE {}
  IN [m EXCEPT !.queue = IF old = {} THEN queue ELSE Tail(queue), !.bare = bare \ old]
\* (Forgotten one too early.)
AddOneFewer(m, root, placeholder) == Entered(m, root, placeholder, Keep - 1)
Add(m, root, placeholder) == Entered(m, root, placeholder, Keep)
Remembers(m, root) == root \in ToSet(m.queue)

\* _build_aux_template: ask each chain for a block that pays an address.
Fetched(m, status) ==
  LET answering == {c \in Chains : Answers(m.conn[c], status[c])} IN
  [m EXCEPT !.conn = [p \in DOMAIN @ |-> IF p = Parent THEN @[p] ELSE Called(@[p], status[p])],
            !.known = @ \cup answering,
            !.unhealthy = {c \in Chains :
               c \notin answering /\ ~SaysStale(m.conn[c], status[c])}]
Template(m, status, tip, pays) ==
  [c \in {d \in Chains : Answers(m.conn[d], status[d])} |-> [tip |-> tip[c], pays |-> pays]]

\* Its result is an error when no chain is ready.
Ready(m) == m.known \ m.unhealthy # {}
Result(m, root) == [root |-> root, error |-> ~Ready(m)]

\* rpc_getaux for the addresses of a solver.
\* (Whatever the addresses.)
AnyCached(m, pays) == {m.cache[p] : p \in DOMAIN m.cache}
Cached(m, pays) == {m.cache[p] : p \in DOMAIN m.cache \cap {pays}}
GetAux(m, status, tip, pays) ==
  IF Cached(m, pays) # {} THEN [mmp |-> m, result |-> CHOOSE r \in Cached(m, pays) : TRUE]
  ELSE LET root == Template(m, status, tip, pays)
           fetched == Fetched(m, status)
           kept == IF Remembers(m, root) THEN fetched ELSE Add(fetched, root, FALSE)
           result == Result(kept, root)
       IN [mmp |-> [kept EXCEPT !.cache = [p \in DOMAIN @ \cup {pays} |->
                                             IF p = pays THEN result ELSE @[p]]],
           result |-> result]

-----------------------------------------------------------------------------
\* rpc_gotwork, of a solution with this root in its coinbase that meets the targets
\* of some chains.  An unknown root gets a placeholder for its tree.

Looked(m, root) == IF Remembers(m, root) THEN m ELSE Add(m, root, TRUE)

\* What chain c is asked to accept: a block of its own, what is found at its
\* place in a tree in which it has no leaf, or nothing.
Asked(m, root, c) ==
  IF c \in m.unhealthy THEN "nothing"
  ELSE IF root \notin m.bare /\ c \in DOMAIN root THEN "own"
  ELSE IF c \notin m.known THEN "nothing"
  ELSE IF root \in m.bare /\ c \notin AtZero THEN "no_leaf" ELSE "other"
Submits(m, root) == {c \in Chains : Asked(m, root, c) \in {"own", "other"}}

\* A chain accepts its block unless somebody has built on that tip before.
Accepting(m, status, tip, root, meets) ==
  {c \in meets : /\ Asked(m, root, c) = "own" /\ Answers(m.conn[c], status[c])
                 /\ root[c].tip = tip[c]}
Failing(m, status, root) ==
  {c \in Submits(m, root) : ~Answers(m.conn[c], status[c]) /\ ~SaysStale(m.conn[c], status[c])}
FoundStale(m, status, tip, root, meets) ==
  \/ \E c \in Chains : Asked(m, root, c) = "no_leaf"
  \/ Submits(m, root) # Failing(m, status, root) \cup Accepting(m, status, tip, root, meets)

Submitted(m, status, root) ==
  [m EXCEPT !.conn = [p \in DOMAIN @ |->
                        IF p \in Submits(m, root) THEN Called(@[p], status[p]) ELSE @[p]],
            !.unhealthy = (@ \ Submits(m, root)) \cup Failing(m, status, root)]
=============================================================================
