------------------------- MODULE MCShareSubmission -------------------------
\* Instances of ShareSubmission for TLC: a share that is sent twice, and a
\* block.  A cfg takes the submissions it is about.
EXTENDS ShareSubmission

Twice == [first |-> "share", again |-> "share"]
Once == [found |-> "solution"]
Solving == [d \in Data |-> "w"]
Over == [d \in Data |-> "stratum"]
ThreeUpstreams == <<"primary", "second", "third">>
TwoUpstreams == <<"primary", "second">>
=============================================================================
