--------------------------- MODULE MCMergedMining ---------------------------
EXTENDS MergedMining
\* With room for all roots (Keep) nothing is forgotten, and the order of the
\* queue is of no consequence.
View == <<world, [mmp EXCEPT !.queue = ToSet(@)], sending, restarts, pool, solves>>
=============================================================================
