---------------------------- MODULE MCMerkleMaker ----------------------------
\* Instances of MerkleMaker for TLC.
EXTENDS MerkleMaker, SequencesExt

\* A chain of three heights, one of two, and two heights with rivals at the
\* second; the retarget that makes the bits unknown falls on odd heights.
b(prev, height, bits) == [prev |-> prev, height |-> height, bits |-> bits]
LineTemplates == {b("A", 2, "x"), b("B", 3, "x"), b("D", 4, "y")}
PairTemplates == {b("A", 2, "x"), b("B", 3, "y")}
ForkTemplates == {b("A", 2, "x"), b("B", 3, "x"), b("C", 3, "y")}
Undisturbed == disturbed = Nothing

\* Which numbers the Queue objects have does not matter, only which references
\* name the same one: each is known by the first reference to it, and the
\* contents of those that nothing refers to are left out.
ThreadSeq == SetToSeq(Threads)
References == <<self.clearMerkleRoots, self.nextMerkleRoots, got, making.into>>
              \o [i \in DOMAIN ThreadSeq |-> thread[ThreadSeq[i]].upd.ocmr]
FirstReference(q) == CHOOSE i \in DOMAIN References :
  References[i] = q /\ \A j \in 1 .. i - 1 : References[j] # q
UpToNames ==
  <<tip, news, found, disturbed, making.root, making.at,
    [self EXCEPT !.clearMerkleRoots = 1, !.nextMerkleRoots = 2],
    [t \in Threads |-> [thread[t] EXCEPT !.upd.ocmr = None]],
    [i \in DOMAIN References |->
       LET q == References[i] IN
       IF q \in Queues THEN <<FirstReference(q), queue[q]>> ELSE <<q>>]>>
=============================================================================
