----------------------------- MODULE MCNamespace -----------------------------
(* Instances of Namespace for TLC.                                         *)
EXTENDS Namespace, TLC

CONSTANTS x, y

TwoBodies == {<<x>>, <<y>>}
\* With minPart = 2 a one-block part may only come last.
SmallAndLarge(a, b) == {<<a>>, <<b, b>>}

Inst(clients, bodies, partNos, minPart, offered, frames, mans) ==
  [clients |-> clients, bodies |-> bodies, partNos |-> partNos, minPart |-> minPart,
   offered |-> offered, frames |-> frames, manifests |-> mans]

\* Two requests at a time.
Objects ==
  Inst(2, TwoBodies, {1}, 1, {"failures", "createBucket", "deleteBucket", "put", "delete",
                              "copy", "conditional"}, 4, 3)
Multipart ==
  Inst(2, TwoBodies, {1}, 1, {"createBucket", "deleteBucket", "multipart"}, 5, 2)
MultipartFailures ==
  Inst(2, TwoBodies, {1}, 1, {"failures", "createBucket", "deleteBucket", "multipart"}, 4, 2)
\* Longer sequences of one request after the other.
History(a) ==
  Inst(1, {<<a>>}, {1}, 1, {"failures", "createBucket", "deleteBucket", "put", "delete",
                            "restore", "prune", "multipart"}, 5, 2)
Assembly(a, b) ==
  Inst(1, SmallAndLarge(a, b), {1, 2}, 2, {"createBucket", "multipart", "partCopy", "copy"}, 6, 2)

\* Closed under exchanging x and y, as the symmetry demands.
RacesAndSequences == {Objects, Multipart, MultipartFailures, History(x), History(y),
                      Assembly(x, y), Assembly(y, x)}

Symmetry == Permutations(Clients) \cup Permutations({x, y})
=============================================================================
