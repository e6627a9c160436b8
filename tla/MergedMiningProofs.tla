------------------------- MODULE MergedMiningProofs -------------------------
(***************************************************************************)
(* Proofs about MergedMining, for any miners, child chains and states of    *)
(* their daemons: whom the roots pay that miners work on, and that the      *)
(* proxy still has their trees.                                             *)
(***************************************************************************)
EXTENDS MergedMining, FiniteSetTheorems, TLAPS

\* All the roots there may be, told apart by the tips and the addresses.
Payees == {Pays(u) : u \in Users} \cup {Pool}
Leaf == [tip : 0 .. MaxTip, pays : Payees]
Roots == UNION {[S -> Leaf] : S \in SUBSET Chains}
Results == [root : Roots, error : BOOLEAN]

PaysOnly(root, p) == \A c \in DOMAIN root : root[c].pays = p

\* The proxy's caches and trees (its connections are of no consequence).  No tree
\* is in the queue twice.
Shape(m) ==
  [conn : {m.conn}, known : {m.known}, unhealthy : {m.unhealthy},
   queue : Seq(Roots), bare : SUBSET Roots, cache : UNION {[S -> Results] : S \in SUBSET Payees}]
EachOnce(q) == \A i, j \in 1 .. Len(q) : q[i] = q[j] => i = j
ProxyOK(m) ==
  /\ m \in Shape(m) /\ EachOnce(m.queue)
  /\ \A p \in DOMAIN m.cache : PaysOnly(m.cache[p].root, p)

MMType ==
  /\ tip \in [Chains -> 0 .. MaxTip] /\ restarts \in Nat
  /\ ProxyOK(mmp)
  /\ sending \in Roots \cup {None} /\ aux \in Roots \cup {None} /\ late \subseteq Roots
  /\ loop \in Users \cup {Nobody}
  /\ job \in [Users -> Roots \cup {None}]
  /\ solves \subseteq [by : Users, root : Roots]

\* What the parent was sent pays the pool.
PoolIsPaid ==
  /\ sending # None => PaysOnly(sending, Pool)
  /\ aux # None => PaysOnly(aux, Pool)
  /\ \A root \in late : PaysOnly(root, Pool)

\* Room for all trees: there are no more roots than MERKLE_TREES_TO_KEEP.
Room == IsFiniteSet(Roots) /\ Cardinality(Roots) <= Keep /\ Keep \in Nat

\* With that room, and while the proxy has not been restarted, it has the tree of every root it gave out.
\* What it is sending is not among them yet.
CacheKept(m) == \A p \in DOMAIN m.cache : Remembers(m, m.cache[p].root)
Kept(root) == root = None \/ Remembers(mmp, root)
TreesKept ==
  /\ sending # None => ~Remembers(mmp, sending)
  /\ Room /\ restarts = 0 =>
       /\ mmp.bare = {} /\ CacheKept(mmp)
       /\ Kept(aux) /\ \A root \in late : Kept(root)
       /\ \A u \in Users : Kept(job[u])
       /\ \A sol \in solves : Remembers(mmp, sol.root)

MMInv == MMType /\ PoolIsPaid /\ PaysItsMiner /\ TreesKept

-----------------------------------------------------------------------------
\* The operators on the proxy's state

LEMMA QueueFits ==
  ASSUME Room, NEW q \in Seq(Roots), EachOnce(q) PROVE Len(q) <= Keep
<1>1. Len(q) \in Nat /\ q \in [1 .. Len(q) -> Roots]
  OBVIOUS
<1>2. q \in Injection(1 .. Len(q), Roots)
  BY <1>1 DEF Injection, IsInjective, EachOnce
<1>3. Cardinality(1 .. Len(q)) <= Cardinality(Roots)
  BY <1>2, FS_Injection DEF Room
<1>4. Cardinality(1 .. Len(q)) = Len(q)
  <2>1. Cardinality(1 .. Len(q)) = IF 1 > Len(q) THEN 0 ELSE Len(q) - 1 + 1
    BY <1>1, FS_Interval
  <2> QED
    BY <1>1, <2>1
<1>5. Cardinality(Roots) \in Nat
  BY FS_CardinalityType DEF Room
<1> QED
  BY <1>1, <1>3, <1>4, <1>5 DEF Room

LEMMA Remembering ==
  ASSUME NEW m, NEW q \in Seq(Roots), m.queue = q
  PROVE  \A root : Remembers(m, root) <=> \E i \in 1 .. Len(q) : q[i] = root
BY DEF Remembers, ToSet

\* With room in the queue nothing is forgotten.
LEMMA AddKeeps ==
  ASSUME NEW m, ProxyOK(m), NEW root \in Roots, ~Remembers(m, root),
         NEW a, a = Add(m, root, FALSE) \/ a = Add(m, root, TRUE)
  PROVE  /\ ProxyOK(a) /\ a.cache = m.cache
         /\ \A r : Remembers(a, r) => Remembers(m, r) \/ r = root
         /\ Room => /\ \A r : Remembers(m, r) \/ r = root => Remembers(a, r)
                    /\ a = Add(m, root, FALSE) => a.bare = m.bare
<1>1. PICK o \in Seq(Roots) : o = m.queue
  BY DEF ProxyOK, Shape
<1>2. PICK q \in Seq(Roots) : q = Append(m.queue, root)
  <2>1. Append(o, root) \in Seq(Roots)
    OBVIOUS
  <2> QED
    BY <1>1, <2>1
<1>3. /\ Len(o) \in Nat /\ Len(q) = Len(o) + 1 /\ q[Len(o) + 1] = root
      /\ \A i \in 1 .. Len(o) : q[i] = o[i]
  BY <1>1, <1>2
<1>4. \A i \in 1 .. Len(o) : o[i] # root
  BY <1>1, Remembering
<1>5. EachOnce(q)
  BY <1>1, <1>3, <1>4 DEF EachOnce, ProxyOK
<1>6. \A r : (\E i \in 1 .. Len(q) : q[i] = r) <=> (\E i \in 1 .. Len(o) : o[i] = r) \/ r = root
  BY <1>3
<1>7. PICK old : old = IF Len(q) > Keep THEN {Head(q)} ELSE {}
  OBVIOUS
<1>8. PICK t \in Seq(Roots) : t = IF old = {} THEN q ELSE Tail(q)
  <2>1. Tail(q) \in Seq(Roots)
    BY <1>3
  <2> QED
    BY <2>1
<1>9. /\ EachOnce(t)
      /\ \A r : (\E i \in 1 .. Len(t) : t[i] = r) => \E i \in 1 .. Len(q) : q[i] = r
  <2>1. CASE t = q
    BY <1>5, <2>1
  <2>2. CASE t = Tail(q)
    <3>1. /\ Len(t) = Len(o)
          /\ \A i \in 1 .. Len(t) : t[i] = q[i + 1] /\ i + 1 \in 1 .. Len(q)
      BY <1>3, <2>2
    <3>2. EachOnce(t)
      BY <1>3, <1>5, <3>1 DEF EachOnce
    <3> QED
      BY <3>1, <3>2
  <2> QED
    BY <1>8, <2>1, <2>2
<1>10. Room => t = q /\ old = {}
  <2>1. Room => ~(Len(q) > Keep)
    BY <1>3, <1>5, QueueFits DEF Room
  <2> QED
    BY <1>7, <1>8, <2>1
<1>11. PICK b : /\ a = [m EXCEPT !.queue = t, !.bare = b]
                /\ b = m.bare \ old \/ b = (m.bare \cup {root}) \ old
                /\ a = Add(m, root, FALSE) => b = m.bare \ old
  <2>1. CASE a = Add(m, root, FALSE)
    <3>1. a = [m EXCEPT !.queue = t, !.bare = (m.bare \cup {}) \ old]
      BY <1>2, <1>7, <1>8, <2>1 DEF Add, Entered
    <3> QED
      BY <3>1
  <2>2. CASE a # Add(m, root, FALSE)
    <3>1. a = [m EXCEPT !.queue = t, !.bare = (m.bare \cup {root}) \ old]
      BY <1>2, <1>7, <1>8, <2>2 DEF Add, Entered
    <3> QED
      BY <2>2, <3>1
  <2> QED
    BY <2>1, <2>2
<1>12. b \in SUBSET Roots
  BY <1>11 DEF ProxyOK, Shape
<1>13. a \in Shape(a) /\ a.queue = t /\ a.bare = b /\ a.cache = m.cache
  BY <1>11, <1>12 DEF ProxyOK, Shape
<1>14. ProxyOK(a)
  BY <1>9, <1>13 DEF ProxyOK
<1>15. \A r : Remembers(a, r) <=> \E i \in 1 .. Len(t) : t[i] = r
  BY <1>13, Remembering
<1>16. \A r : Remembers(m, r) <=> \E i \in 1 .. Len(o) : o[i] = r
  BY <1>1, Remembering
<1>17. \A r : Remembers(a, r) => Remembers(m, r) \/ r = root
  BY <1>6, <1>9, <1>15, <1>16
<1>18. Room => \A r : Remembers(m, r) \/ r = root => Remembers(a, r)
  BY <1>6, <1>10, <1>15, <1>16
<1>19. Room /\ a = Add(m, root, FALSE) => a.bare = m.bare
  BY <1>10, <1>11, <1>13
<1> QED
  BY <1>13, <1>14, <1>17, <1>18, <1>19

LEMMA FetchedKeeps ==
  ASSUME NEW m, ProxyOK(m), NEW st
  PROVE  /\ ProxyOK(Fetched(m, st))
         /\ \A r : Remembers(Fetched(m, st), r) <=> Remembers(m, r)
         /\ Fetched(m, st).bare = m.bare /\ Fetched(m, st).cache = m.cache
<1>1. PICK c, k, u : Fetched(m, st) = [m EXCEPT !.conn = c, !.known = k, !.unhealthy = u]
  BY DEF Fetched
<1>2. PICK a : a = Fetched(m, st)
  OBVIOUS
<1>3. a \in Shape(a) /\ a.queue = m.queue /\ a.bare = m.bare /\ a.cache = m.cache
  BY <1>1, <1>2 DEF ProxyOK, Shape
<1>4. ProxyOK(a)
  BY <1>3 DEF ProxyOK
<1> QED
  BY <1>2, <1>3, <1>4 DEF Remembers

LEMMA LookedKeeps ==
  ASSUME NEW m, ProxyOK(m), NEW root \in Roots
  PROVE  /\ ProxyOK(Looked(m, root))
         /\ Room => \A r : Remembers(m, r) => Remembers(Looked(m, root), r)
         /\ Looked(m, root).cache = m.cache
         /\ Remembers(m, root) => Looked(m, root) = m
BY AddKeeps DEF Looked

LEMMA SubmittedKeeps ==
  ASSUME NEW m, ProxyOK(m), NEW st, NEW root
  PROVE  /\ ProxyOK(Submitted(m, st, root))
         /\ \A r : Remembers(Submitted(m, st, root), r) <=> Remembers(m, r)
         /\ Submitted(m, st, root).bare = m.bare /\ Submitted(m, st, root).cache = m.cache
<1>1. PICK c, u : Submitted(m, st, root) = [m EXCEPT !.conn = c, !.unhealthy = u]
  BY DEF Submitted
<1>2. PICK a : a = Submitted(m, st, root)
  OBVIOUS
<1>3. a \in Shape(a) /\ a.queue = m.queue /\ a.bare = m.bare /\ a.cache = m.cache
  BY <1>1, <1>2 DEF ProxyOK, Shape
<1>4. ProxyOK(a)
  BY <1>3 DEF ProxyOK
<1> QED
  BY <1>2, <1>3, <1>4 DEF Remembers

LEMMA TemplateIsRoot ==
  ASSUME NEW m, NEW st, NEW tips \in [Chains -> 0 .. MaxTip], NEW p \in Payees
  PROVE  Template(m, st, tips, p) \in Roots /\ PaysOnly(Template(m, st, tips, p), p)
<1>1. PICK S \in SUBSET Chains : S = {d \in Chains : Answers(m.conn[d], st[d])}
  OBVIOUS
<1>2. Template(m, st, tips, p) = [c \in S |-> [tip |-> tips[c], pays |-> p]]
  BY <1>1 DEF Template
<1>3. \A c \in S : [tip |-> tips[c], pays |-> p] \in Leaf
  BY DEF Leaf
<1>4. [c \in S |-> [tip |-> tips[c], pays |-> p]] \in [S -> Leaf]
  BY <1>3
<1> QED
  BY <1>2, <1>4 DEF Roots, PaysOnly

\* The caches of the proxy forget nothing that they give out.
LEMMA GetAuxKeeps ==
  ASSUME NEW m, ProxyOK(m), NEW st, NEW tips \in [Chains -> 0 .. MaxTip], NEW p \in Payees
  PROVE  LET g == GetAux(m, st, tips, p) IN
         /\ ProxyOK(g.mmp) /\ g.result \in Results /\ PaysOnly(g.result.root, p)
         /\ Room => (\A r : Remembers(m, r) => Remembers(g.mmp, r)) /\ g.mmp.bare = m.bare
         /\ Room /\ CacheKept(m) => CacheKept(g.mmp) /\ Remembers(g.mmp, g.result.root)
<1>1. PICK g : g = GetAux(m, st, tips, p)
  OBVIOUS
<1>2. PICK S \in SUBSET Payees : m.cache \in [S -> Results]
  BY DEF ProxyOK, Shape
<1>3. CASE Cached(m, p) # {}
  <2>1. p \in S /\ Cached(m, p) = {m.cache[p]}
    BY <1>2, <1>3 DEF Cached
  <2>2. g = [mmp |-> m, result |-> m.cache[p]]
    BY <1>1, <2>1 DEF GetAux
  <2>3. g.mmp = m /\ g.result = m.cache[p] /\ m.cache[p] \in Results
    BY <1>2, <2>1, <2>2
  <2>4. p \in DOMAIN m.cache
    BY <1>2, <2>1
  <2> QED
    BY <1>1, <2>3, <2>4 DEF ProxyOK, CacheKept
<1>4. CASE Cached(m, p) = {}
  <2>1. PICK root \in Roots : root = Template(m, st, tips, p) /\ PaysOnly(root, p)
    BY TemplateIsRoot
  <2>2. PICK f : f = Fetched(m, st)
    OBVIOUS
  <2>3. PICK kept : kept = IF Remembers(m, root) THEN f ELSE Add(f, root, FALSE)
    OBVIOUS
  <2>4. /\ ProxyOK(kept) /\ kept.cache = m.cache
        /\ Room => /\ Remembers(kept, root) /\ \A r : Remembers(m, r) => Remembers(kept, r)
                   /\ kept.bare = m.bare
    <3>1. /\ ProxyOK(f) /\ \A r : Remembers(f, r) <=> Remembers(m, r)
          /\ f.bare = m.bare /\ f.cache = m.cache
      BY <2>2, FetchedKeeps
    <3>2. CASE Remembers(m, root)
      BY <2>3, <3>1, <3>2
    <3>3. CASE ~Remembers(m, root)
      BY <2>3, <3>1, <3>3, AddKeeps
    <3> QED
      BY <3>2, <3>3
  <2>5. PICK result \in Results : result = Result(kept, root) /\ result.root = root
    <3>1. PICK e \in BOOLEAN : e = ~Ready(kept)
      OBVIOUS
    <3>2. Result(kept, root) = [root |-> root, error |-> e]
      BY <3>1 DEF Result
    <3> QED
      BY <3>2 DEF Results
  <2>6. PICK cache : cache = [q \in S \cup {p} |-> IF q = p THEN result ELSE m.cache[q]]
    OBVIOUS
  <2>7. g = [mmp |-> [kept EXCEPT !.cache = cache], result |-> result]
    BY <1>1, <1>2, <1>4, <2>1, <2>2, <2>3, <2>4, <2>5, <2>6 DEF GetAux
  <2>8. PICK h : h = [kept EXCEPT !.cache = cache]
    OBVIOUS
  <2>9. cache \in [S \cup {p} -> Results] /\ DOMAIN cache = S \cup {p}
    BY <1>2, <2>5, <2>6
  <2>10. cache \in UNION {[T -> Results] : T \in SUBSET Payees}
    BY <2>9
  <2>11. g.mmp = h /\ g.result = result
    BY <2>7, <2>8
  <2>12. h \in Shape(h) /\ h.queue = kept.queue /\ h.bare = kept.bare /\ h.cache = cache
    BY <2>4, <2>8, <2>10 DEF ProxyOK, Shape
  <2>13. \A q \in S \cup {p} : PaysOnly(cache[q].root, q)
    BY <1>2, <2>1, <2>5, <2>6 DEF ProxyOK
  <2>14. ProxyOK(h)
    BY <2>4, <2>9, <2>12, <2>13 DEF ProxyOK
  <2>15. \A r : Remembers(h, r) <=> Remembers(kept, r)
    BY <2>12 DEF Remembers
  <2>16. Room /\ CacheKept(m) => CacheKept(h)
    BY <1>2, <2>4, <2>5, <2>6, <2>9, <2>12, <2>15 DEF CacheKept
  <2> QED
    <3>1. /\ ProxyOK(g.mmp)
          /\ Room => /\ \A r : Remembers(m, r) => Remembers(g.mmp, r)
                     /\ g.mmp.bare = m.bare /\ Remembers(g.mmp, g.result.root)
      BY <2>4, <2>5, <2>12, <2>14, <2>15, <2>11
    <3>2. g.result \in Results /\ PaysOnly(g.result.root, p) /\ (Room /\ CacheKept(m) => CacheKept(g.mmp))
      BY <2>1, <2>5, <2>16, <2>11
    <3> QED
      BY <1>1, <3>1, <3>2
<1> QED
  BY <1>3, <1>4

-----------------------------------------------------------------------------
\* Init and the steps

Given == MaxTip \in Nat /\ RpcUsers \subseteq Users

LEMMA InitOK == ASSUME Given, Init PROVE MMInv
<1>1. <<>> \in Seq(Roots) /\ Len(<<>>) = 0 /\ DOMAIN <<>> = {}
  OBVIOUS
<1>2. PICK m : m = Started
  OBVIOUS
<1>3. /\ m = [conn |-> m.conn, known |-> m.known, unhealthy |-> m.unhealthy,
              queue |-> <<>>, bare |-> {}, cache |-> <<>>]
      /\ m.queue = <<>> /\ m.bare = {} /\ m.cache = <<>>
  BY <1>2 DEF Started
<1>4. <<>> \in [{} -> Results]
  OBVIOUS
<1>5. <<>> \in UNION {[S -> Results] : S \in SUBSET Payees}
  BY <1>4
<1>6. m \in Shape(m)
  BY <1>1, <1>3, <1>5 DEF Shape
<1>7. EachOnce(<<>>)
  BY <1>1 DEF EachOnce
<1>8. ProxyOK(mmp)
  BY <1>1, <1>2, <1>3, <1>6, <1>7 DEF ProxyOK, Init
<1>9. MMType
  BY <1>8 DEF MMType, Init, Given
<1>10. PoolIsPaid /\ PaysItsMiner
  BY DEF PoolIsPaid, PaysItsMiner, Init
<1>11. TreesKept
  BY <1>1, <1>2, <1>3 DEF TreesKept, CacheKept, Kept, Init
<1> QED
  BY <1>9, <1>10, <1>11 DEF MMInv

\* Steps that leave the proxy's trees and what was given out alone.
LEMMA QuietStep ==
  ASSUME MMInv, ProxyOK(mmp'), \A r : Remembers(mmp', r) <=> Remembers(mmp, r),
         mmp'.bare = mmp.bare, CacheKept(mmp) => CacheKept(mmp'),
         tip' \in [Chains -> 0 .. MaxTip], loop' \in Users \cup {Nobody},
         UNCHANGED <<sending, restarts, aux, late, job>>, solves' \subseteq solves
  PROVE  MMInv'
<1>1. MMType'
  BY DEF MMInv, MMType
<1>2. PoolIsPaid' /\ PaysItsMiner'
  BY DEF MMInv, PoolIsPaid, PaysItsMiner
<1>3. \A root : Kept(root) => Kept(root)'
  BY DEF Kept
<1>4. TreesKept'
  BY <1>3 DEF MMInv, TreesKept, Kept
<1> QED
  BY <1>1, <1>2, <1>4 DEF MMInv

LEMMA WorldStep ==
  ASSUME MMInv, Given, (\E c \in Chains : TipMoves(c) \/ DaemonChanges(c)) \/ UNCHANGED vars
                \/ (\E u \in Users : AuxExpires(u)) \/ (\E u \in RpcUsers : LoopAsks(u))
                \/ (\E sol \in solves : GotWorkLost(sol))
  PROVE  MMInv'
<1>1. UNCHANGED <<mmp, sending, restarts, aux, late, job>> /\ solves' \subseteq solves
  BY DEF TipMoves, DaemonChanges, AuxExpires, LoopAsks, GotWorkLost, vars, world, proxy, pool
<1>2. loop' \in Users \cup {Nobody}
  BY DEF TipMoves, DaemonChanges, AuxExpires, LoopAsks, GotWorkLost, vars, world, proxy, pool,
         MMInv, MMType, Given
<1>3. tip' \in [Chains -> 0 .. MaxTip]
  BY DEF TipMoves, DaemonChanges, AuxExpires, LoopAsks, GotWorkLost, vars, world, proxy, pool,
         MMInv, MMType, Given
<1> QED
  BY <1>1, <1>2, <1>3, QuietStep DEF MMInv, MMType

LEMMA ProxyRests ==
  ASSUME MMInv, (\E p \in Chains \cup {Parent} : CooldownOver(p)) \/ (\E p \in Users \cup {Pool} : SolverResultExpires(p))
  PROVE  MMInv'
<1>1. /\ UNCHANGED <<world, sending, restarts, pool, solves>> /\ ProxyOK(mmp)
      /\ tip \in [Chains -> 0 .. MaxTip] /\ loop \in Users \cup {Nobody}
  BY DEF CooldownOver, SolverResultExpires, MMInv, MMType
<1>2. CASE \E p \in Chains \cup {Parent} : CooldownOver(p)
  <2>1. PICK c : mmp' = [mmp EXCEPT !.conn = c]
    BY <1>2 DEF CooldownOver
  <2>2. mmp' \in Shape(mmp') /\ mmp'.queue = mmp.queue /\ mmp'.bare = mmp.bare /\ mmp'.cache = mmp.cache
    BY <1>1, <2>1 DEF ProxyOK, Shape
  <2>3. ProxyOK(mmp')
    BY <1>1, <2>2 DEF ProxyOK
  <2> QED
    BY <1>1, <2>2, <2>3, QuietStep DEF Remembers, CacheKept, world, pool
<1>3. CASE \E p \in Users \cup {Pool} : SolverResultExpires(p)
  <2>1. PICK p : mmp' = [mmp EXCEPT !.cache = [q \in DOMAIN mmp.cache \ {p} |-> mmp.cache[q]]]
    BY <1>3 DEF SolverResultExpires
  <2>2. PICK S \in SUBSET Payees : mmp.cache \in [S -> Results]
    BY <1>1 DEF ProxyOK, Shape
  <2>3. PICK cache : cache = [q \in S \ {p} |-> mmp.cache[q]]
    OBVIOUS
  <2>4. mmp' = [mmp EXCEPT !.cache = cache]
    BY <2>1, <2>2, <2>3
  <2>5. cache \in [S \ {p} -> Results]
    BY <2>2, <2>3
  <2>6. cache \in UNION {[T -> Results] : T \in SUBSET Payees}
    BY <2>5
  <2>7. mmp' \in Shape(mmp') /\ mmp'.queue = mmp.queue /\ mmp'.bare = mmp.bare /\ mmp'.cache = cache
    BY <1>1, <2>4, <2>6 DEF ProxyOK, Shape
  <2>8. \A q \in DOMAIN cache : q \in DOMAIN mmp.cache /\ cache[q] = mmp.cache[q]
    BY <2>2, <2>3
  <2>9. ProxyOK(mmp')
    BY <1>1, <2>7, <2>8 DEF ProxyOK
  <2>10. (\A r : Remembers(mmp', r) <=> Remembers(mmp, r)) /\ (CacheKept(mmp) => CacheKept(mmp'))
    BY <2>7, <2>8 DEF Remembers, CacheKept
  <2> QED
    BY <1>1, <2>7, <2>9, <2>10, QuietStep DEF world, pool
<1> QED
  BY <1>2, <1>3

LEMMA UpdateKeeps ==
  ASSUME NEW m, ProxyOK(m), NEW tips \in [Chains -> 0 .. MaxTip], Update(m, tips)
  PROVE  /\ ProxyOK(mmp') /\ CacheKept(mmp') /\ mmp'.bare = m.bare
         /\ \A r : Remembers(mmp', r) <=> Remembers(m, r)
         /\ sending' \in Roots \cup {None}
         /\ sending' # None => PaysOnly(sending', Pool) /\ ~Remembers(mmp', sending')
<1>1. PICK w : w = [m EXCEPT !.cache = <<>>]
  OBVIOUS
<1>2. DOMAIN <<>> = {} /\ <<>> \in [{} -> Results]
  OBVIOUS
<1>3. <<>> \in UNION {[T -> Results] : T \in SUBSET Payees}
  BY <1>2
<1>4. w \in Shape(w) /\ w.queue = m.queue /\ w.bare = m.bare /\ w.cache = <<>>
  BY <1>1, <1>3 DEF ProxyOK, Shape
<1>5. ProxyOK(w)
  BY <1>2, <1>4 DEF ProxyOK
<1>6. mmp' = Fetched(w, status)
  BY <1>1 DEF Update
<1>7. /\ ProxyOK(mmp') /\ mmp'.bare = m.bare /\ mmp'.cache = <<>>
      /\ \A r : Remembers(mmp', r) <=> Remembers(m, r)
  BY <1>4, <1>5, <1>6, FetchedKeeps DEF Remembers
<1>8. Pool \in Payees
  BY DEF Payees
<1>9. PICK root \in Roots : root = Template(m, status, tips, Pool) /\ PaysOnly(root, Pool)
  BY <1>8, TemplateIsRoot
<1>10. sending' = IF Remembers(mmp', root) THEN None ELSE root
  BY <1>1, <1>6, <1>9 DEF Update
<1> QED
  BY <1>2, <1>7, <1>9, <1>10 DEF CacheKept

\* Steps that leave what was given out alone.
LEMMA ProxyStep ==
  ASSUME MMInv, ProxyOK(mmp'), Room => \A r : Remembers(mmp, r) => Remembers(mmp', r),
         sending' \in Roots \cup {None},
         sending' # None => PaysOnly(sending', Pool) /\ ~Remembers(mmp', sending'),
         Room /\ restarts = 0 => mmp'.bare = mmp.bare /\ CacheKept(mmp'),
         tip' \in [Chains -> 0 .. MaxTip],
         UNCHANGED <<restarts, pool>>, solves' \subseteq solves
  PROVE  MMInv'
<1>1. MMType'
  BY DEF MMInv, MMType, pool
<1>2. PoolIsPaid' /\ PaysItsMiner'
  BY DEF MMInv, PoolIsPaid, PaysItsMiner, pool
<1>3. Room => \A root : Kept(root) => Kept(root)'
  BY DEF Kept
<1>4. TreesKept'
  BY <1>3 DEF MMInv, TreesKept, Kept, pool
<1> QED
  BY <1>1, <1>2, <1>4 DEF MMInv

LEMMA UpdateStep == ASSUME MMInv, UpdateAuxs PROVE MMInv'
<1>1. /\ ProxyOK(mmp) /\ tip \in [Chains -> 0 .. MaxTip] /\ Update(mmp, tip)
      /\ UNCHANGED <<world, restarts, pool, solves>>
  BY DEF MMInv, MMType, UpdateAuxs
<1> QED
  BY <1>1, UpdateKeeps, ProxyStep DEF world

LEMMA GotWorkStep == ASSUME MMInv, Given, NEW sol \in solves, GotWork(sol) PROVE MMInv'
<1>1. /\ ProxyOK(mmp) /\ tip \in [Chains -> 0 .. MaxTip] /\ sol.root \in Roots
      /\ UNCHANGED <<restarts, pool>> /\ solves' \subseteq solves /\ sending = None
  BY DEF MMInv, MMType, GotWork, ProxyIsFree
<1>2. PICK m : m = Looked(mmp, sol.root)
  OBVIOUS
<1>3. PICK after : after = Submitted(m, status, sol.root)
  OBVIOUS
<1>4. /\ ProxyOK(m) /\ m.cache = mmp.cache
      /\ Room => \A r : Remembers(mmp, r) => Remembers(m, r)
      /\ Room /\ restarts = 0 => m = mmp
  BY <1>1, <1>2, LookedKeeps DEF MMInv, TreesKept
<1>5. /\ ProxyOK(after) /\ after.cache = mmp.cache
      /\ Room => \A r : Remembers(mmp, r) => Remembers(after, r)
      /\ Room /\ restarts = 0 => after.bare = mmp.bare
  BY <1>3, <1>4, SubmittedKeeps
<1>6. PICK meets \in SUBSET {c \in Chains : tip[c] < MaxTip}, parent_valid \in BOOLEAN :
        /\ tip' = [c \in Chains |-> IF c \in Accepting(m, status, tip, sol.root, meets) THEN tip[c] + 1 ELSE tip[c]]
        /\ Update(after, tip') \/ (mmp' = after /\ UNCHANGED sending)
  BY <1>2, <1>3 DEF GotWork
<1>7. tip' \in [Chains -> 0 .. MaxTip]
  <2>1. \A c \in Chains : c \in Accepting(m, status, tip, sol.root, meets) => tip[c] < MaxTip
    BY DEF Accepting
  <2>2. \A c \in Chains : tip[c] \in 0 .. MaxTip /\ (tip[c] < MaxTip => tip[c] + 1 \in 0 .. MaxTip)
    BY <1>1 DEF Given
  <2> QED
    BY <1>6, <2>1, <2>2
<1>8. CASE Update(after, tip')
  <2>1. /\ ProxyOK(mmp') /\ CacheKept(mmp') /\ mmp'.bare = after.bare
        /\ \A r : Remembers(mmp', r) <=> Remembers(after, r)
        /\ sending' \in Roots \cup {None}
        /\ sending' # None => PaysOnly(sending', Pool) /\ ~Remembers(mmp', sending')
    BY <1>5, <1>7, <1>8, UpdateKeeps
  <2> QED
    BY <1>1, <1>5, <1>7, <2>1, ProxyStep
<1>9. CASE mmp' = after /\ UNCHANGED sending
  <2>1. Room /\ restarts = 0 => CacheKept(mmp')
    BY <1>5, <1>9 DEF MMInv, TreesKept, CacheKept
  <2> QED
    BY <1>1, <1>5, <1>7, <1>9, <2>1, ProxyStep
<1> QED
  BY <1>6, <1>8, <1>9

\* What is sent to the parent is remembered, however the call ends.
LEMMA SentStep == ASSUME MMInv, SetWorkAux \/ NotSent \/ TimeOut PROVE MMInv'
<1>1. /\ sending \in Roots /\ sending # None /\ ProxyOK(mmp) /\ ~Remembers(mmp, sending)
      /\ UNCHANGED <<tip, restarts, loop, job, solves>>
  BY DEF MMInv, MMType, TreesKept, SetWorkAux, NotSent, TimeOut, ProxyIsFree, world, pool
<1>2. /\ Sent("up") \/ Sent("failing")
      /\ aux' \in {aux, sending} /\ late' \subseteq late \cup {sending}
  BY DEF SetWorkAux, NotSent, TimeOut, pool
<1>3. PICK c : mmp' = Add([mmp EXCEPT !.conn = c], sending, FALSE) /\ sending' = None
  BY <1>2 DEF Sent
<1>4. PICK w : w = [mmp EXCEPT !.conn = c]
  OBVIOUS
<1>5. w \in Shape(w) /\ w.queue = mmp.queue /\ w.bare = mmp.bare /\ w.cache = mmp.cache
  BY <1>1, <1>4 DEF ProxyOK, Shape
<1>6. ProxyOK(w) /\ ~Remembers(w, sending)
  BY <1>1, <1>5 DEF ProxyOK, Remembers
<1>7. /\ ProxyOK(mmp') /\ mmp'.cache = mmp.cache
      /\ Room => /\ \A r : Remembers(mmp, r) \/ r = sending => Remembers(mmp', r)
                 /\ mmp'.bare = mmp.bare
  <2>1. /\ ProxyOK(mmp') /\ mmp'.cache = w.cache
        /\ Room => /\ \A r : Remembers(w, r) \/ r = sending => Remembers(mmp', r)
                   /\ mmp'.bare = w.bare
    <3>1. PICK a : a = Add(w, sending, FALSE)
      OBVIOUS
    <3>2. /\ ProxyOK(a) /\ a.cache = w.cache
          /\ Room => /\ \A r : Remembers(w, r) \/ r = sending => Remembers(a, r)
                     /\ a.bare = w.bare
      BY <1>1, <1>6, <3>1, AddKeeps
    <3>3. mmp' = a
      BY <1>3, <1>4, <3>1
    <3> QED
      BY <3>2, <3>3
  <2>2. \A r : Remembers(w, r) <=> Remembers(mmp, r)
    BY <1>5 DEF Remembers
  <2> QED
    BY <1>5, <2>1, <2>2
<1>8. MMType'
  BY <1>1, <1>2, <1>3, <1>7 DEF MMInv, MMType
<1>9. PoolIsPaid' /\ PaysItsMiner'
  BY <1>1, <1>2, <1>3 DEF MMInv, PoolIsPaid, PaysItsMiner
<1>10. Room => \A root : Kept(root) \/ root = sending => Kept(root)'
  BY <1>7 DEF Kept
<1>11. Room /\ CacheKept(mmp) => CacheKept(mmp')
  BY <1>7 DEF CacheKept
<1>12. TreesKept'
  BY <1>1, <1>2, <1>3, <1>7, <1>10, <1>11 DEF MMInv, TreesKept, Kept
<1> QED
  BY <1>8, <1>9, <1>12 DEF MMInv

LEMMA ParentStep == ASSUME MMInv, SetWorkAuxLate \/ Restart PROVE MMInv'
<1>1. CASE SetWorkAuxLate
  <2>1. PICK root \in late : aux' = root /\ late' = late \ {root}
    BY <1>1 DEF SetWorkAuxLate
  <2>2. UNCHANGED <<tip, mmp, sending, restarts, loop, job, solves>>
    BY <1>1 DEF SetWorkAuxLate, world, proxy
  <2>3. MMType'
    BY <2>1, <2>2 DEF MMInv, MMType
  <2>4. PoolIsPaid' /\ PaysItsMiner'
    BY <2>1, <2>2 DEF MMInv, PoolIsPaid, PaysItsMiner
  <2>5. TreesKept'
    BY <2>1, <2>2 DEF MMInv, TreesKept, Kept
  <2> QED
    BY <2>3, <2>4, <2>5 DEF MMInv
<1>2. CASE Restart
  <2>1. mmp' = Started /\ sending' = None /\ restarts' = restarts + 1 /\ restarts \in Nat
        /\ UNCHANGED <<tip, aux, late, loop, job, solves>>
    BY <1>2 DEF Restart, world, pool, MMInv, MMType
  <2>2. ProxyOK(mmp')
    <3>1. <<>> \in Seq(Roots) /\ Len(<<>>) = 0 /\ DOMAIN <<>> = {} /\ <<>> \in [{} -> Results]
      OBVIOUS
    <3>2. PICK m : m = Started
      OBVIOUS
    <3>3. /\ m = [conn |-> m.conn, known |-> m.known, unhealthy |-> m.unhealthy,
                  queue |-> <<>>, bare |-> {}, cache |-> <<>>]
          /\ m.queue = <<>> /\ m.bare = {} /\ m.cache = <<>>
      BY <3>2 DEF Started
    <3>4. <<>> \in UNION {[S -> Results] : S \in SUBSET Payees}
      BY <3>1
    <3>5. m \in Shape(m)
      BY <3>1, <3>3, <3>4 DEF Shape
    <3>6. EachOnce(<<>>)
      BY <3>1 DEF EachOnce
    <3> QED
      BY <2>1, <3>1, <3>2, <3>3, <3>5, <3>6 DEF ProxyOK
  <2>3. MMType'
    BY <2>1, <2>2 DEF MMInv, MMType
  <2>4. PoolIsPaid' /\ PaysItsMiner'
    BY <2>1 DEF MMInv, PoolIsPaid, PaysItsMiner
  <2>5. TreesKept'
    BY <2>1 DEF TreesKept
  <2> QED
    BY <2>3, <2>4, <2>5 DEF MMInv
<1> QED
  BY <1>1, <1>2

\* A job gets a root from a look into the caches, or what the parent was sent.
LEMMA JobStep ==
  ASSUME MMInv, NEW u \in Users, NEW look, Job(u, look), loop' \in Users \cup {Nobody},
         ProxyOK(look.mmp), Room => \A r : Remembers(mmp, r) => Remembers(look.mmp, r),
         look.mmp = mmp \/ sending = None,
         Room => look.mmp.bare = mmp.bare, Room /\ CacheKept(mmp) => CacheKept(look.mmp),
         look.root # None =>
           /\ look.root \in Roots
           /\ \A c \in DOMAIN look.root : look.root[c].pays \in {u, Pool}
           /\ (Room /\ restarts = 0 => Remembers(look.mmp, look.root))
  PROVE  MMInv'
<1>1. /\ UNCHANGED <<tip, sending, restarts, aux, late, solves>> /\ mmp' = look.mmp
      /\ job \in [Users -> Roots \cup {None}]
  BY DEF Job, world, MMInv, MMType
<1>2. PICK root \in Roots \cup {None} :
        /\ job' = [job EXCEPT ![u] = root]
        /\ root # None => \A c \in DOMAIN root : root[c].pays \in {u, Pool}
        /\ Room /\ restarts = 0 => root = None \/ Remembers(mmp', root)
  <2>1. CASE look.root = None
    <3>1. aux \in Roots \cup {None} /\ (aux # None => PaysOnly(aux, Pool))
      BY DEF MMInv, MMType, PoolIsPaid
    <3>2. Room /\ restarts = 0 => aux = None \/ Remembers(mmp', aux)
      BY <1>1 DEF MMInv, TreesKept, Kept
    <3>3. job' = [job EXCEPT ![u] = aux]
      BY <2>1 DEF Job
    <3> QED
      BY <3>1, <3>2, <3>3 DEF PaysOnly
  <2>2. CASE look.root # None
    <3>1. job' = [job EXCEPT ![u] = look.root]
      BY <2>2 DEF Job
    <3> QED
      BY <1>1, <2>2, <3>1
  <2> QED
    BY <2>1, <2>2
<1>3. /\ job' \in [Users -> Roots \cup {None}] /\ job'[u] = root
      /\ \A v \in Users : v # u => job'[v] = job[v]
  BY <1>1, <1>2
<1>4. MMType'
  BY <1>1, <1>3 DEF MMInv, MMType
<1>5. PoolIsPaid'
  BY <1>1 DEF MMInv, PoolIsPaid
<1>6. PaysItsMiner'
  BY <1>1, <1>2, <1>3 DEF MMInv, PaysItsMiner
<1>7. Room => \A r : Kept(r) => Kept(r)'
  BY <1>1 DEF Kept
<1>8. sending' # None => ~Remembers(mmp', sending')
  BY <1>1 DEF MMInv, TreesKept
<1>9. ASSUME Room, restarts' = 0 PROVE \A v \in Users : Kept(job[v])'
  BY <1>1, <1>2, <1>3, <1>7, <1>9 DEF MMInv, TreesKept, Kept
<1>10. TreesKept'
  BY <1>1, <1>7, <1>8, <1>9 DEF MMInv, TreesKept, Kept
<1> QED
  BY <1>4, <1>5, <1>6, <1>10 DEF MMInv

LEMMA FoundStep ==
  ASSUME MMInv, Given, NEW u \in Users, NEW look \in Found(u) \cup Unreached(u), Job(u, look),
         loop' \in Users \cup {Nobody}
  PROVE  MMInv'
<1>1. /\ ProxyOK(mmp) /\ job[u] \in Roots \cup {None} /\ tip \in [Chains -> 0 .. MaxTip]
  BY DEF MMInv, MMType
<1>2. CASE look \in Unreached(u)
  <2>1. look.mmp = mmp /\ look.root = None
    BY <1>2 DEF Unreached
  <2> QED
    BY <1>1, <2>1, JobStep
<1>3. CASE look \in Found(u) /\ u \in cached
  <2>1. look.mmp = mmp /\ look.root = job[u]
    BY <1>3 DEF Found
  <2>2. look.root # None => /\ look.root \in Roots
                            /\ \A c \in DOMAIN look.root : look.root[c].pays \in {u, Pool}
    BY <1>1, <2>1 DEF MMInv, PaysItsMiner
  <2>3. Room /\ look.root # None /\ restarts = 0 => Remembers(look.mmp, look.root)
    BY <2>1 DEF MMInv, TreesKept, Kept
  <2> QED
    BY <1>1, <2>1, <2>2, <2>3, JobStep
<1>4. CASE look \in Found(u) /\ u \notin cached
  <2>1. PICK g : g = GetAux(mmp, status, tip, Pays(u))
    OBVIOUS
  <2>2. /\ look.mmp = g.mmp /\ ProxyIsFree
        /\ look.root # None => look.root = g.result.root
    BY <1>4, <2>1 DEF Found
  <2>3. Pays(u) \in Payees /\ Pays(u) \in {u, Pool}
    BY DEF Payees, Pays
  <2>4. /\ ProxyOK(g.mmp) /\ g.result \in Results /\ PaysOnly(g.result.root, Pays(u))
        /\ Room => (\A r : Remembers(mmp, r) => Remembers(g.mmp, r)) /\ g.mmp.bare = mmp.bare
        /\ Room /\ CacheKept(mmp) => CacheKept(g.mmp) /\ Remembers(g.mmp, g.result.root)
    BY <1>1, <2>1, <2>3, GetAuxKeeps
  <2>5. g.result.root \in Roots /\ \A c \in DOMAIN g.result.root : g.result.root[c].pays \in {u, Pool}
    BY <2>3, <2>4 DEF Results, PaysOnly
  <2>6. Room /\ restarts = 0 => CacheKept(mmp)
    BY DEF MMInv, TreesKept
  <2> QED
    BY <2>2, <2>4, <2>5, <2>6, JobStep DEF ProxyIsFree
<1> QED
  BY <1>2, <1>3, <1>4

LEMMA SolveStep == ASSUME MMInv, NEW u \in Users, Solve(u) PROVE MMInv'
<1>1. /\ UNCHANGED <<tip, mmp, sending, restarts, aux, late, loop, job>>
      /\ solves' = solves \cup {[by |-> u, root |-> job[u]]} /\ job[u] # None
  BY DEF Solve, world, proxy, pool
<1>2. MMType'
  BY <1>1 DEF MMInv, MMType
<1>3. PoolIsPaid' /\ PaysItsMiner'
  BY <1>1 DEF MMInv, PoolIsPaid, PaysItsMiner
<1>4. TreesKept'
  BY <1>1 DEF MMInv, TreesKept, Kept
<1> QED
  BY <1>2, <1>3, <1>4 DEF MMInv

LEMMA NextOK == ASSUME Given, MMInv, [Next]_vars PROVE MMInv'
<1>1. ASSUME NEW u \in Users, NewJob(u) PROVE MMInv'
  <2>1. loop' \in Users \cup {Nobody}
    BY <1>1 DEF NewJob, NewJobOf, MMInv, MMType
  <2> QED
    BY <1>1, <2>1, FoundStep DEF NewJob, NewJobOf
<1>2. CASE LoopIsAnswered
  <2>1. loop \in Users /\ loop' \in Users \cup {Nobody} /\ \E look \in Found(loop) : Job(loop, look)
    BY <1>2 DEF LoopIsAnswered, MMInv, MMType
  <2> QED
    BY <2>1, FoundStep
<1> QED
  BY <1>1, <1>2, WorldStep, ProxyRests, UpdateStep, SentStep, ParentStep, SolveStep, GotWorkStep DEF Next

-----------------------------------------------------------------------------
\* Whatever is cached on either side, whoever asks first and however the child chains
\* and the proxy behave, what a miner works on pays it or the pool on every chain.
THEOREM MinersArePaid == ASSUME Given PROVE Spec => []PaysItsMiner
<1>1. MMInv /\ [Next]_vars => MMInv'
  BY NextOK
<1>2. Init => MMInv
  BY InitOK
<1>3. MMInv => PaysItsMiner
  BY DEF MMInv
<1> QED
  BY <1>1, <1>2, <1>3, PTL DEF Spec

\* With room for the trees of all roots, the proxy knows every root in a job until it
\* is restarted.
THEOREM TreesAreKept == ASSUME Given, Room PROVE Spec => []SolutionsAreKnown
<1>1. MMInv /\ [Next]_vars => MMInv'
  BY NextOK
<1>2. Init => MMInv
  BY InitOK
<1>3. MMInv => SolutionsAreKnown
  BY DEF MMInv, TreesKept, Kept, SolutionsAreKnown
<1> QED
  BY <1>1, <1>2, <1>3, PTL DEF Spec
=============================================================================
