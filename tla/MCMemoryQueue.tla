--------------------------- MODULE MCMemoryQueue ---------------------------
(* TLC instances of MemoryQueue. *)
EXTENDS MemoryQueue, TLC

CONSTANTS m1, m2, m3

\* m3 outranks the others.
MCPriority == [m \in Messages |-> IF m = m3 THEN 2 ELSE 1]

\* Producers are interchangeable, and so are the workers of a consumer.
Symmetry == Permutations(Producers) \cup Permutations(Workers)
===========================================================================
