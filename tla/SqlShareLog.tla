---------------------------- MODULE SqlShareLog ----------------------------
(***************************************************************************)
(* sharelogging/sql.py: the share loggers of all chains put their rows on  *)
(* one bounded queue; one writer thread collects them into batches and     *)
(* inserts each chain's part of a batch in one transaction, reconnects     *)
(* when that fails, and at last inserts the rows one by one.  stop() of    *)
(* the last logger puts a None on the queue and waits for the writer, but  *)
(* not for ever; then the process goes.                                    *)
(*                                                                         *)
(* A row is known by its chain and its number: the how-manyth row it is    *)
(* that this chain's logger was given.  What a database does (go down,     *)
(* refuse a row, lose the answer to a commit) is its environment's choice. *)
(***************************************************************************)
EXTENDS Order, Sequences, Functions

CONSTANTS
  Chains,         \* the chain_ids, one sql logger each
  BatchSize,      \* BATCH_SIZE
  QueueMax,       \* QUEUE_MAXSIZE
  MaxAttempts,    \* MAX_RECONNECT_ATTEMPTS
  AbortsOnError,  \* a failed statement fails the transaction until a rollback (postgres)
  Refused,        \* the rows that the database refuses
  MaxRows,        \* bound: rows logged per chain
  MaxUnsure,      \* bound: commits whose answer is lost
  None            \* Python's None

Rows == [chain : Chains, n : Nat]

ASSUME ChainsAssumption == Chains # {} /\ None \notin Rows
ASSUME LimitsAssumption ==
  /\ BatchSize \in Nat \ {0} /\ QueueMax \in Nat \ {0} /\ MaxAttempts \in Nat \ {0}
  /\ MaxRows \in Nat /\ MaxUnsure \in Nat
ASSUME DatabaseAssumption == AbortsOnError \in BOOLEAN /\ Refused \subseteq Rows

VARIABLES
  logged,     \* how many rows each chain's logger was given
  dropped,    \* the rows that found the queue full
  running,    \* the loggers not stopped yet (_instance_count)
  stopping,   \* where stop() of the last logger is
  closed,     \* history: logged, when the None was queued
  queue,      \* _shared_queue
  batch,      \* the rows of each chain in the writer's batch
  taken,      \* len(batch)
  order,      \* the chains still to flush, in the order of chain_batches
  writer,     \* where the writer thread is
  attempts,   \* of the chain being flushed
  leaving,    \* the None has been taken
  conn,       \* db_connections
  link,       \* the connection of the fallback
  up,         \* the database answers
  table,      \* what the database holds of each chain, in the order of the inserts
  lost,       \* the rows given up
  unsure      \* how often the answer to a commit of this chain was lost

logger == <<logged, dropped, running, stopping, closed>>
flush == <<batch, taken, order, attempts, leaving>>
database == <<up, table, unsure>>
vars == <<logger, queue, flush, writer, conn, link, database, lost>>

Row(c, n) == [chain |-> c, n |-> n]
Links == {"none", "open", "broken", "aborted"}
Stopped == {"stopped", "killed"}

-----------------------------------------------------------------------------
\* The loggers

\* logShare, _queue_to_shared: put_nowait, or the row is dropped.
LogShare(c) ==
  /\ stopping # "done" /\ logged[c] < MaxRows
  /\ logged' = [logged EXCEPT ![c] = @ + 1]
  /\ \/ /\ Len(queue) < QueueMax
        /\ queue' = Append(queue, Row(c, logged[c] + 1))
        /\ UNCHANGED dropped
     \/ /\ Len(queue) >= QueueMax
        /\ dropped' = dropped \cup {Row(c, logged[c] + 1)}
        /\ UNCHANGED queue
  /\ UNCHANGED <<running, stopping, closed, flush, writer, conn, link, database, lost>>

\* stop: only the last logger goes on to shut the writer down.
Last(c) == running = {c}
Stop(c) ==
  /\ c \in running
  /\ running' = running \ {c}
  /\ stopping' = IF Last(c) THEN "signal" ELSE stopping
  /\ UNCHANGED <<logged, dropped, closed, queue, flush, writer, conn, link, database, lost>>

\* put(None, timeout=5.0): the queue may stay full.
Signal ==
  /\ stopping = "signal"
  /\ stopping' = "join"
  /\ \/ /\ Len(queue) < QueueMax
        /\ queue' = Append(queue, None)
        /\ closed' = logged
     \/ /\ Len(queue) >= QueueMax
        /\ UNCHANGED <<queue, closed>>
  /\ UNCHANGED <<logged, dropped, running, flush, writer, conn, link, database, lost>>

\* join(timeout=10.0): the writer may still be at work.  The process goes,
\* and with it what is in memory.
Kept(r) == r.n \in Range(table[r.chain])
HeldOf(c) == {Row(c, n) : n \in Range(batch[c])}
InMemory == (Range(queue) \ {None}) \cup UNION {HeldOf(c) : c \in Chains}
GiveUp(rows) == lost' = lost \cup {r \in rows : ~Kept(r)}
Gone ==
  /\ stopping = "join"
  /\ stopping' = "done"
  /\ GiveUp(InMemory)
  /\ queue' = <<>>
  /\ batch' = [c \in Chains |-> <<>>] /\ taken' = 0 /\ order' = <<>>
  /\ attempts' = 0 /\ leaving' = FALSE
  /\ writer' = IF writer = "stopped" THEN "stopped" ELSE "killed"
  /\ conn' = [c \in Chains |-> "none"] /\ link' = "none"
  /\ UNCHANGED <<logged, dropped, running, closed, database>>

-----------------------------------------------------------------------------
\* The writer collects

Add(c, n) ==
  /\ batch' = [batch EXCEPT ![c] = Append(@, n)]
  /\ taken' = taken + 1
  /\ order' = IF batch[c] = <<>> THEN Append(order, c) ELSE order

\* (The last queued comes first.)
Newest == queue[Len(queue)]
TakeNewest ==
  /\ writer = "collect" /\ queue # <<>> /\ Newest # None
  /\ queue' = SubSeq(queue, 1, Len(queue) - 1)
  /\ Add(Newest.chain, Newest.n)
  /\ writer' = IF taken + 1 < BatchSize THEN "collect" ELSE "insert"
  /\ UNCHANGED <<logger, attempts, leaving, conn, link, database, lost>>

Take ==
  /\ writer = "collect" /\ queue # <<>> /\ Head(queue) # None
  /\ queue' = Tail(queue)
  /\ Add(Head(queue).chain, Head(queue).n)
  /\ writer' = IF taken + 1 < BatchSize THEN "collect" ELSE "insert"
  /\ UNCHANGED <<logger, attempts, leaving, conn, link, database, lost>>

\* (The thread ends without a flush.)
TakeNoneAtOnce ==
  /\ writer = "collect" /\ queue # <<>> /\ Head(queue) = None
  /\ queue' = Tail(queue)
  /\ leaving' = TRUE
  /\ writer' = "stopped"
  /\ UNCHANGED <<logger, batch, taken, order, attempts, conn, link, database, lost>>

\* The shutdown signal: what was collected is flushed before the thread ends.
TakeNone ==
  /\ writer = "collect" /\ queue # <<>> /\ Head(queue) = None
  /\ queue' = Tail(queue)
  /\ leaving' = TRUE
  /\ writer' = IF taken > 0 THEN "insert" ELSE "stopped"
  /\ UNCHANGED <<logger, batch, taken, order, attempts, conn, link, database, lost>>

\* FLUSH_INTERVAL is over.
Interval ==
  /\ writer = "collect" /\ taken > 0
  /\ writer' = "insert"
  /\ UNCHANGED <<logger, queue, flush, conn, link, database, lost>>

-----------------------------------------------------------------------------
\* The writer flushes the chains of the batch one after the other
\* (_flush_batch, _flush_chain_batch)

Chain == Head(order)
Usable(c) == up /\ conn[c] # "broken"
Clean(c) == \A n \in Range(batch[c]) : Row(c, n) \notin Refused

\* len(batch) after a chain is done.
TakenAfter == IF Tail(order) = <<>> THEN 0 ELSE taken

\* (The first chain that is done ends the flush.)
OnlyChain(c) ==
  /\ batch' = [d \in Chains |-> <<>>]
  /\ order' = <<>> /\ attempts' = 0 /\ taken' = 0
  /\ writer' = IF leaving THEN "stopped" ELSE "collect"
  /\ UNCHANGED leaving

NextChain(c) ==
  /\ batch' = [batch EXCEPT ![c] = <<>>]
  /\ order' = Tail(order)
  /\ attempts' = 0
  /\ taken' = TakenAfter
  /\ writer' = IF Tail(order) # <<>> THEN "insert"
               ELSE IF leaving THEN "stopped" ELSE "collect"
  /\ UNCHANGED leaving

Commit(c) == table' = [table EXCEPT ![c] = @ \o batch[c]]

\* (The attempt is not counted.)
FailedUncounted(c) ==
  /\ conn' = [conn EXCEPT ![c] = "none"]
  /\ writer' = IF attempts + 1 < MaxAttempts THEN "wait" ELSE "reach"
  /\ UNCHANGED <<batch, taken, order, leaving, attempts>>

\* The handler of a failed insert: the connection is closed, and after the
\* last attempt the rows are tried one by one.
Failed(c) ==
  /\ attempts' = attempts + 1
  /\ conn' = [conn EXCEPT ![c] = "none"]
  /\ writer' = IF attempts + 1 < MaxAttempts THEN "wait" ELSE "reach"
  /\ UNCHANGED <<batch, taken, order, leaving>>

\* (The return after the commit is missing.)
InsertAgain ==
  /\ writer = "insert"
  /\ Usable(Chain) /\ Clean(Chain)
  /\ Commit(Chain)
  /\ conn' = [conn EXCEPT ![Chain] = "open"]
  /\ UNCHANGED <<logger, queue, flush, writer, link, up, unsure, lost>>

\* executemany and commit, in a new connection when there is none.
Insert ==
  /\ writer = "insert"
  /\ Usable(Chain) /\ Clean(Chain)
  /\ Commit(Chain)
  /\ conn' = [conn EXCEPT ![Chain] = "open"]
  /\ NextChain(Chain)
  /\ UNCHANGED <<logger, queue, link, up, unsure, lost>>

InsertFails ==
  /\ writer = "insert"
  /\ ~(Usable(Chain) /\ Clean(Chain))
  /\ Failed(Chain)
  /\ UNCHANGED <<logger, queue, link, database, lost>>

\* The commit is done, but the connection is lost before the answer.
InsertUnsure ==
  /\ writer = "insert"
  /\ Usable(Chain) /\ Clean(Chain) /\ unsure[Chain] < MaxUnsure
  /\ Commit(Chain)
  /\ unsure' = [unsure EXCEPT ![Chain] = @ + 1]
  /\ Failed(Chain)
  /\ UNCHANGED <<logger, queue, link, up, lost>>

\* RECONNECT_DELAY is over; the next attempt is made with or without a connection.
Reconnect ==
  /\ writer = "wait"
  /\ conn' = [conn EXCEPT ![Chain] = IF up THEN "open" ELSE "none"]
  /\ writer' = "insert"
  /\ UNCHANGED <<logger, queue, flush, link, database, lost>>

-----------------------------------------------------------------------------
\* _fallback_individual_inserts

Reach ==
  /\ writer = "reach" /\ up
  /\ link' = "open"
  /\ writer' = "single"
  /\ UNCHANGED <<logger, queue, flush, conn, database, lost>>

\* No connection for the fallback: the whole batch of the chain is given up.
ReachFails ==
  /\ writer = "reach" /\ ~up
  /\ GiveUp(HeldOf(Chain))
  /\ NextChain(Chain)
  /\ UNCHANGED <<logger, queue, conn, link, database>>

\* The row after the first of the batch, or the next chain.
NextRow(c, state) ==
  IF Len(batch[c]) > 1
  THEN /\ batch' = [batch EXCEPT ![c] = Tail(@)]
       /\ link' = state
       /\ UNCHANGED <<taken, order, attempts, leaving, writer>>
  ELSE /\ NextChain(c)
       /\ link' = "none"

First(c) == Head(batch[c])
CommitOne(c) == table' = [table EXCEPT ![c] = Append(@, First(c))]
Accepts(c) == up /\ link = "open" /\ Row(c, First(c)) \notin Refused

Single ==
  /\ writer = "single"
  /\ Accepts(Chain)
  /\ CommitOne(Chain)
  /\ NextRow(Chain, "open")
  /\ UNCHANGED <<logger, queue, conn, up, unsure, lost>>

\* (The first row that fails ends the fallback.)
SingleFailsAll ==
  /\ writer = "single"
  /\ ~Accepts(Chain)
  /\ GiveUp(HeldOf(Chain))
  /\ NextChain(Chain) /\ link' = "none"
  /\ UNCHANGED <<logger, queue, conn, database>>

\* The exception is logged and the next row tried, without a rollback.
SingleFails ==
  /\ writer = "single"
  /\ ~Accepts(Chain)
  /\ GiveUp({Row(Chain, First(Chain))})
  /\ NextRow(Chain, IF link = "open" /\ AbortsOnError THEN "aborted" ELSE link)
  /\ UNCHANGED <<logger, queue, conn, database>>

SingleUnsure ==
  /\ writer = "single"
  /\ Accepts(Chain) /\ unsure[Chain] < MaxUnsure
  /\ CommitOne(Chain)
  /\ unsure' = [unsure EXCEPT ![Chain] = @ + 1]
  /\ NextRow(Chain, "broken")
  /\ UNCHANGED <<logger, queue, conn, up, lost>>

-----------------------------------------------------------------------------
\* The database

Broken(state) == IF state = "none" THEN "none" ELSE "broken"
DatabaseFails ==
  /\ stopping # "done" /\ up
  /\ up' = FALSE
  /\ conn' = [c \in Chains |-> Broken(conn[c])]
  /\ link' = Broken(link)
  /\ UNCHANGED <<logger, queue, flush, writer, table, unsure, lost>>

DatabaseReturns ==
  /\ stopping # "done" /\ ~up
  /\ up' = TRUE
  /\ UNCHANGED <<logger, queue, flush, writer, conn, link, table, unsure, lost>>

-----------------------------------------------------------------------------
Init ==
  /\ logged = [c \in Chains |-> 0] /\ dropped = {} /\ running = Chains
  /\ stopping = "no" /\ closed = [c \in Chains |-> 0]
  /\ queue = <<>> /\ writer = "collect"
  /\ batch = [c \in Chains |-> <<>>] /\ taken = 0 /\ order = <<>>
  /\ attempts = 0 /\ leaving = FALSE
  /\ conn = [c \in Chains |-> "none"] /\ link = "none"
  /\ up = TRUE /\ table = [c \in Chains |-> <<>>]
  /\ lost = {} /\ unsure = [c \in Chains |-> 0]

Writer == \/ Take \/ TakeNone \/ Interval
          \/ Insert \/ InsertFails \/ InsertUnsure \/ Reconnect
          \/ Reach \/ ReachFails \/ Single \/ SingleFails \/ SingleUnsure
Loggers == \/ \E c \in Chains : LogShare(c) \/ Stop(c)
           \/ Signal \/ Gone
Database == DatabaseFails \/ DatabaseReturns
Next == Loggers \/ Writer \/ Database

Spec == Init /\ [][Next]_vars
\* The writer thread goes on running; nothing is assumed of the database.
FairSpec == Spec /\ WF_vars(Writer)
-----------------------------------------------------------------------------
\* Properties

Queued(r) == r \in Range(queue)
Held(r) == r \in HeldOf(r.chain)

TypeOK ==
  /\ logged \in [Chains -> Nat] /\ closed \in [Chains -> Nat]
  /\ dropped \subseteq Rows /\ running \subseteq Chains /\ lost \subseteq Rows
  /\ stopping \in {"no", "signal", "join", "done"}
  /\ queue \in Seq(Rows \cup {None})
  /\ batch \in [Chains -> Seq(Nat)] /\ table \in [Chains -> Seq(Nat)]
  /\ taken \in Nat /\ attempts \in Nat /\ order \in Seq(Chains)
  /\ writer \in {"collect", "insert", "wait", "reach", "single"} \cup Stopped
  /\ conn \in [Chains -> Links] /\ link \in Links
  /\ leaving \in BOOLEAN /\ up \in BOOLEAN
  /\ unsure \in [Chains -> Nat]

\* No row is forgotten between the queue, the batch, the retries and the
\* fallback: a row that was logged and not dropped is queued, in the writer's
\* batch, in the table or given up, until the process goes.
NothingForgotten ==
  \A c \in Chains : \A n \in 1 .. logged[c] :
    LET r == Row(c, n) IN r \in dropped \/ Queued(r) \/ Held(r) \/ Kept(r) \/ r \in lost

\* The writer settles a row once: a row in the table more than once is one
\* whose commit was done again because the answer was lost, once per answer.
TwiceOnlyWhenUnsure ==
  \A c \in Chains : \A n \in Range(table[c]) :
    Cardinality({i \in DOMAIN table[c] : table[c][i] = n})
      <= IF unsure[c] = 0 THEN 1 ELSE unsure[c] + 1

\* A graceful stop loses nothing: when the writer has ended by itself, all
\* loggers are stopped and what they queued before the None is settled.
StopDrains ==
  writer = "stopped" =>
    /\ running = {}
    /\ \A c \in Chains : \A n \in 1 .. closed[c] :
         LET r == Row(c, n) IN r \in dropped \/ Kept(r) \/ r \in lost

\* Why StopDrains holds.  The chains to flush are those that the batch holds
\* rows of, each once, and a flush has a chain to work on.
OrderOK ==
  /\ IsInjective(order)
  /\ \A c \in Chains : batch[c] # <<>> <=> c \in Range(order)
  /\ taken > 0 <=> order # <<>>
  /\ writer \in {"insert", "wait", "reach", "single"} => order # <<>>

\* The None is queued once, after the last logger was stopped, and whatever is
\* behind it was logged after that.
Late(r) == r # None /\ r.n > closed[r.chain]
CloseOK ==
  /\ stopping = "no" <=> running # {}
  /\ \A c \in Chains : closed[c] <= logged[c]
  /\ stopping \in {"no", "signal"} =>
       ~leaving /\ writer \notin Stopped /\ None \notin Range(queue)
  /\ \A i \in DOMAIN queue : queue[i] = None =>
       ~leaving /\ \A j \in DOMAIN queue : i < j => Late(queue[j])
  /\ leaving => writer # "collect" /\ \A r \in Range(queue) : Late(r)
  /\ stopping = "done" => queue = <<>> /\ writer \in Stopped
  /\ writer = "stopped" =>
       /\ stopping \in {"join", "done"} /\ order = <<>>
       /\ \A r \in Range(queue) : Late(r)
  /\ writer \in Stopped => leaving \/ stopping = "done"

IInv == TypeOK /\ OrderOK /\ CloseOK /\ NothingForgotten

\* The fallback gives up a row only if the database refuses that row or can no
\* longer be reached ("Maximizes data survival", _fallback_individual_inserts);
\* that the process goes is the other way to lose one.
SurvivesRefusal ==
  [][\A r \in lost' \ lost :
       stopping' = "done" \/ r \in Refused \/ ~up \/ link = "broken"]_vars

\* Whatever the database does, every row queued while a logger is running is
\* stored or given up in the end: the retries are bounded, so no batch holds the
\* writer for ever.  (A row logged after the last stop waits behind the None.)
EventuallySettled ==
  \A c \in Chains : \A n \in 1 .. MaxRows :
    LET r == Row(c, n) IN
    Queued(r) /\ running # {} ~> Kept(r) \/ r \in lost

\* Why SurvivesRefusal holds where a refusal does not fail the transaction.
LinkOK ==
  /\ writer = "single" => link # "none"
  /\ link = "aborted" => AbortsOnError

\* The detailed logger implements the promise of ShareLog: one queue for all
\* chains, batches, retries and the fallback keep each chain's order.
InOrder(s, n, i) == s[i] = n /\ \A j \in 1 .. i - 1 : s[j] # n
IsNth(s, n, k) == \E i \in DOMAIN s : InOrder(s, n, i) /\ Cardinality({s[j] : j \in 1 .. i}) = k
Once(s) == [k \in 1 .. Cardinality(Range(s)) |-> CHOOSE n \in Range(s) : IsNth(s, n, k)]

\* What is neither kept nor given up, in the order it was logged.
Waiting(c) == {n \in 0 .. logged[c] :
                 LET r == Row(c, n) IN (Queued(r) \/ Held(r)) /\ ~Kept(r)}
Promise == INSTANCE ShareLog WITH
  count <- logged,
  waiting <- [c \in Chains |-> Sorted(Waiting(c))],
  kept <- [c \in Chains |-> Once(table[c])],
  over <- stopping = "done"
KeepsItsPromise == Promise!Spec
=============================================================================
