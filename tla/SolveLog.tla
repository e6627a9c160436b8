------------------------------ MODULE SolveLog ------------------------------
(***************************************************************************)
(* How the dashboard reads the proxy's log: incremental_proxy_solves parses *)
(* what was written since the last read, attach_proxy_solves puts the       *)
(* solves it found beside the blocks of the pool's own log.                *)
(*                                                                         *)
(* A gotwork n is [parent, kids]: whether the parent's block is valid, and  *)
(* which child chains accepted.  A solve that was read is                   *)
(* [n, status, details]: the gotwork it is about, whether the line told the *)
(* parent's status, and the child blocks it knows.                         *)
(***************************************************************************)
EXTENDS Order, Sequences, SequencesExt

\* The lines rpc_gotwork logs for gotwork n, in their order.
Lines(n, work) ==
  LET line(kind, kid) == [kind |-> kind, n |-> n, kid |-> kid]
      accepted == [i \in 1 .. Cardinality(work.kids) |->
                     LET kid == SetToSeq(work.kids)[i]
                     IN <<line("aux_hash", kid), line("accepted", kid)>>]
  IN FlattenSeq(accepted)
     \o <<line("solve", "")>>
     \o (IF work.parent \/ work.kids # {} THEN <<line("solve_status", "")>> ELSE <<>>)
     \o (IF work.kids # {} THEN <<line("solve_detail", "")>> ELSE <<>>)

\* The child blocks whose two lines stand between one solve and the next.
Window(chunk, from, to) ==
  {chunk[j].kid : j \in {k \in from + 1 .. to - 1 :
     chunk[k].kind = "accepted" /\ \E i \in from + 1 .. k : chunk[i].kind = "aux_hash" /\ chunk[i].kid = chunk[k].kid}}

\* The lines that make a solve, each with what it knows.
Candidates(chunk, works) ==
  LET at == Sorted({i \in DOMAIN chunk : chunk[i].kind \in {"solve", "solve_status"}})
      detailed(n) == \E i \in DOMAIN chunk : chunk[i].kind = "solve_detail" /\ chunk[i].n = n
  IN [c \in DOMAIN at |->
        LET line == chunk[at[c]]
        IN [n |-> line.n,
            status |-> line.kind = "solve_status",
            details |-> IF line.kind = "solve_status" /\ detailed(line.n) THEN works[line.n].kids
                        ELSE Window(chunk, IF c = 1 THEN 0 ELSE at[c - 1], at[c])]]

\* _merge_proxy_solve_candidates: a solve line and the status line behind it
\* are one solve.
\* (They are taken for two.)
KeepBoth(candidates) == candidates
Merged(candidates) ==
  LET first(c) == ~ candidates[c].status /\ c < Len(candidates) /\ candidates[c + 1].status
      second(c) == c > 1 /\ first(c - 1)
      kept == Sorted({c \in DOMAIN candidates : ~ first(c)})
  IN [i \in DOMAIN kept |->
        LET c == kept[i]
        IN IF second(c) /\ candidates[c].details = {}
           THEN [candidates[c] EXCEPT !.details = candidates[c - 1].details]
           ELSE candidates[c]]

ParseProxySolves(chunk, works) == Merged(Candidates(chunk, works))

-----------------------------------------------------------------------------
\* attach_proxy_solves.  A block takes the solve that tells its hash, or else
\* the nearest in time that is not more than gap away; each solve is taken once.
Taken(solves, works, gap, block, used) ==
  LET free == {i \in DOMAIN solves \ used : ~ (solves[i].status /\ ~ works[solves[i].n].parent)}
      far(i) == IF solves[i].n > block THEN solves[i].n - block ELSE block - solves[i].n
      same == {i \in free : solves[i].status /\ solves[i].n = block}
      near == {i \in free : far(i) <= gap}
  IN IF same # {} THEN {Min(same)}
     ELSE IF near = {} THEN {}
     ELSE {Min({i \in near : \A j \in near : far(i) <= far(j)})}

\* One event per block, then one for each solve that has child blocks and no
\* parent block as far as was read.
Events(blocks, solves, works, gap) ==
  LET attach(done, block) ==
        LET t == Taken(solves, works, gap, block, done.used)
        IN [used |-> done.used \cup t,
            events |-> Append(done.events,
              [block |-> block, n |-> block, details |-> UNION {
                 {[n |-> solves[i].n, kid |-> k] : k \in solves[i].details} : i \in t}])]
      attached == FoldLeft(attach, [used |-> {}, events |-> <<>>], blocks)
      alone(i) == /\ i \notin attached.used /\ works[solves[i].n].kids # {}
                  /\ solves[i].status => ~ works[solves[i].n].parent
      rest == Sorted({i \in DOMAIN solves : alone(i)})
  IN attached.events \o [r \in DOMAIN rest |->
       [block |-> 0, n |-> solves[rest[r]].n,
        details |-> {[n |-> solves[rest[r]].n, kid |-> k] : k \in solves[rest[r]].details}]]
=============================================================================
