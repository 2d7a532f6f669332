--------------------------- MODULE MCFloodCounters ---------------------------
(* Instance of FloodCounters for TLC.                                        *)
EXTENDS FloodCounters

CONSTANTS s1, s2, q1, q2

\* The second sender's socket has a completion ring of its own.
OneEach == [s \in {s1, s2} |-> IF s = s1 THEN q1 ELSE q2]
=============================================================================
