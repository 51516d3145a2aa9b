----------------------------- MODULE MCLooseCAS -----------------------------
(* Instances of LooseCAS for TLC.                                          *)
EXTENDS LooseCAS, TLC

CONSTANTS c1, c2, c3

\* c1 and c2 share a shard directory, c3 has its own.
TwoShards == [x \in {c1, c2, c3} |-> IF x = c3 THEN "s2" ELSE "s1"]
\* One repeats a chunk, so that its second copy meets the first in flight.
Overlapping == {<<c1, c3, c2, c1>>, <<c1>>}
Symmetry == Permutations(Writers)
=============================================================================
