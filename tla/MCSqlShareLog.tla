--------------------------- MODULE MCSqlShareLog ---------------------------
\* Instances of SqlShareLog for TLC: the first row of one chain is refused.
EXTENDS SqlShareLog

OneRefused == {[chain |-> "blc", n |-> 1]}
=============================================================================
