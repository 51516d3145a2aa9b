------------------------------ MODULE ClientProofs ------------------------------
(***************************************************************************)
(* Proofs about Transfer, Reader and Listing, for every value of their     *)
(* constants, and about the four clients of MCReplication together.        *)
(*                                                                         *)
(* Transfer: planBulkBatches cuts the missing chunks into batches in       *)
(* order, each within its limits, and the pool sends each once, within the *)
(* memory budget, whichever worker fails or is canceled (PoolInv).         *)
(* Reader: what a GET has written is its range from the start as far as    *)
(* the reader has come, through the run's queue, the goroutine's buffer    *)
(* and the channel (GetInv).                                               *)
(* Listing: the page loop is followed entry by entry (PageRight); between  *)
(* two pages the cursor separates what has been listed from what has not   *)
(* (CursorInv), whatever other clients add and remove.                     *)
(***************************************************************************)
EXTENDS SyncProofs, SequenceTheorems, MCReplication

-----------------------------------------------------------------------------
(* Sums, by induction over the length.                                     *)

IsSum(f, w, n) == f = [k \in 0 .. n |-> IF k = 0 THEN 0 ELSE f[k - 1] + w[k]]

\* The equation of the running sum, at one index.
LEMMA SumAt ==
  ASSUME NEW f, NEW w, NEW n \in Nat, IsSum(f, w, n), NEW k \in 0 .. n
  PROVE  f[k] = IF k = 0 THEN 0 ELSE f[k - 1] + w[k]
<1> DEFINE h == [j \in 0 .. n |-> IF j = 0 THEN 0 ELSE f[j - 1] + w[j]]
<1>1. f = h
  BY DEF IsSum
<1>2. h[k] = IF k = 0 THEN 0 ELSE f[k - 1] + w[k]
  OBVIOUS
<1> HIDE DEF h
<1> QED BY <1>1, <1>2

\* The loop that sums computes a value for every length.
LEMMA SumExists ==
  ASSUME NEW w
  PROVE  \A n \in Nat : \E f : IsSum(f, w, n)
<1> DEFINE T == {n \in Nat : \E f : IsSum(f, w, n)}
<1>1. 0 \in T
  <2> DEFINE f == [k \in 0 .. 0 |-> 0]
  <2>1. IsSum(f, w, 0)
    BY DEF IsSum
  <2> QED BY <2>1
<1>2. ASSUME NEW n \in T PROVE n + 1 \in T
  <2>1. PICK f : IsSum(f, w, n)
    BY <1>2
  <2> DEFINE step == f[n] + w[n + 1]
             g == [k \in 0 .. n + 1 |-> IF k = n + 1 THEN step ELSE f[k]]
  <2>2. \A k \in 0 .. n : g[k] = f[k] /\ f[k] = IF k = 0 THEN 0 ELSE f[k - 1] + w[k]
    <3>1. \A k \in 0 .. n : g[k] = f[k]
      OBVIOUS
    <3> HIDE DEF g
    <3> QED BY <3>1, <2>1, SumAt
  <2>3. g[n + 1] = step
    OBVIOUS
  <2>4. \A k \in 0 .. n + 1 : g[k] = IF k = 0 THEN 0 ELSE g[k - 1] + w[k]
    <3> SUFFICES ASSUME NEW k \in 0 .. n + 1
                 PROVE  g[k] = IF k = 0 THEN 0 ELSE g[k - 1] + w[k]
      OBVIOUS
    <3> HIDE DEF g
    <3>1. CASE k = n + 1
      <4>1. k - 1 = n /\ n \in 0 .. n /\ k # 0
        BY <3>1
      <4> QED BY <3>1, <4>1, <2>2, <2>3
    <3>2. CASE k \in 0 .. n
      <4>1. k # 0 => k - 1 \in 0 .. n
        BY <3>2
      <4> QED BY <3>2, <4>1, <2>2
    <3> QED BY <3>1, <3>2
  <2>5. IsSum(g, w, n + 1)
    <3>1. g = [k \in 0 .. n + 1 |-> g[k]]
      OBVIOUS
    <3> HIDE DEF g
    <3> QED BY <3>1, <2>4 DEF IsSum
  <2> HIDE DEF g
  <2> QED BY <2>5
<1>3. T = Nat
  <2> HIDE DEF T
  <2>1. T \in SUBSET Nat
    BY DEF T
  <2> QED BY <1>1, <1>2, <2>1, NatSetInduction
<1> QED BY <1>3

\* Sums of what is the same up to n are the same up to n.
LEMMA SumsAgree ==
  ASSUME NEW v, NEW w, NEW m \in Nat, NEW n \in Nat, n <= m, NEW f, IsSum(f, v, m),
         NEW g, IsSum(g, w, n), \A k \in 1 .. n : v[k] = w[k]
  PROVE  \A k \in 0 .. n : f[k] = g[k]
<1> DEFINE T == {k \in Nat : k <= n => f[k] = g[k]}
<1>1. 0 \in T
  BY SumAt
<1>2. ASSUME NEW k \in T PROVE k + 1 \in T
  <2> SUFFICES ASSUME k + 1 <= n PROVE f[k + 1] = g[k + 1]
    OBVIOUS
  <2>1. k \in Nat /\ f[k] = g[k] /\ k + 1 \in 0 .. n /\ k + 1 \in 0 .. m /\ k + 1 \in 1 .. n
    OBVIOUS
  <2>2. f[k + 1] = f[(k + 1) - 1] + v[k + 1]
    <3>1. k + 1 # 0
      BY <2>1
    <3> QED BY <2>1, <3>1, SumAt
  <2>3. g[k + 1] = g[(k + 1) - 1] + w[k + 1]
    <3>1. k + 1 # 0
      BY <2>1
    <3> QED BY <2>1, <3>1, SumAt
  <2>4. (k + 1) - 1 = k
    BY <2>1
  <2> QED BY <2>1, <2>2, <2>3, <2>4
<1>3. T = Nat
  <2> HIDE DEF T
  <2>1. T \in SUBSET Nat
    BY DEF T
  <2> QED BY <1>1, <1>2, <2>1, NatSetInduction
<1> QED BY <1>3

\* SumTo is the last value of its loop.
LEMMA SumIs ==
  ASSUME NEW w, NEW n \in Nat
  PROVE  \E f : IsSum(f, w, n) /\ SumTo(w, n) = f[n]
<1> DEFINE f == CHOOSE g : IsSum(g, w, n)
<1>1. IsSum(f, w, n)
  BY SumExists
<1>2. SumTo(w, n) = f[n]
  BY DEF SumTo, IsSum
<1> HIDE DEF f
<1> QED BY <1>1, <1>2

\* The sum of nothing.
LEMMA SumOfNone == ASSUME NEW w PROVE SumTo(w, 0) = 0
<1>1. PICK f : IsSum(f, w, 0) /\ SumTo(w, 0) = f[0]
  BY SumIs
<1> QED BY <1>1, SumAt

\* Equal terms have equal sums.
LEMMA SumSame ==
  ASSUME NEW v, NEW w, NEW n \in Nat, \A k \in 1 .. n : v[k] = w[k]
  PROVE  SumTo(v, n) = SumTo(w, n)
<1>1. PICK f : IsSum(f, v, n) /\ SumTo(v, n) = f[n]
  BY SumIs
<1>2. PICK g : IsSum(g, w, n) /\ SumTo(w, n) = g[n]
  BY SumIs
<1>3. n \in 0 .. n
  OBVIOUS
<1> QED BY <1>1, <1>2, <1>3, SumsAgree

\* The sum with one term more.
LEMMA SumNext ==
  ASSUME NEW w, NEW n \in Nat
  PROVE  SumTo(w, n + 1) = SumTo(w, n) + w[n + 1]
<1>1. PICK f : IsSum(f, w, n + 1) /\ SumTo(w, n + 1) = f[n + 1]
  BY SumIs
<1>2. PICK g : IsSum(g, w, n) /\ SumTo(w, n) = g[n]
  BY SumIs
<1>3. f[n] = g[n]
  <2> DEFINE m == n + 1
  <2>1. n \in 0 .. n /\ n <= m /\ m \in Nat /\ IsSum(f, w, m)
    BY <1>1
  <2> HIDE DEF m
  <2>2. \A k \in 0 .. n : f[k] = g[k]
    <3>1. \A v : (\A k \in 1 .. n : v[k] = w[k]) /\ IsSum(f, v, m) => \A k \in 0 .. n : f[k] = g[k]
      BY <1>2, <2>1, SumsAgree
    <3> QED BY <2>1, <3>1
  <2> QED BY <2>1, <2>2
<1>4. f[n + 1] = f[(n + 1) - 1] + w[n + 1]
  <2>1. n + 1 \in 0 .. n + 1 /\ n + 1 # 0 /\ n + 1 \in Nat
    OBVIOUS
  <2> QED BY <1>1, <2>1, SumAt
<1>5. (n + 1) - 1 = n
  OBVIOUS
<1> QED BY <1>1, <1>2, <1>3, <1>4, <1>5

\* A sum of naturals is one.
LEMMA SumIsNat ==
  ASSUME NEW w, NEW n \in Nat, \A k \in 1 .. n : w[k] \in Nat
  PROVE  SumTo(w, n) \in Nat
<1> DEFINE T == {k \in Nat : k <= n => SumTo(w, k) \in Nat}
<1>1. 0 \in T
  BY SumOfNone
<1>2. ASSUME NEW k \in T PROVE k + 1 \in T
  <2> SUFFICES ASSUME k + 1 <= n PROVE SumTo(w, k + 1) \in Nat
    OBVIOUS
  <2>1. k \in Nat /\ SumTo(w, k) \in Nat /\ w[k + 1] \in Nat
    OBVIOUS
  <2>2. SumTo(w, k + 1) = SumTo(w, k) + w[k + 1]
    BY <2>1, SumNext
  <2> QED BY <2>1, <2>2
<1>3. T = Nat
  <2> HIDE DEF T
  <2>1. T \in SUBSET Nat
    BY DEF T
  <2> QED BY <1>1, <1>2, <2>1, NatSetInduction
<1> QED BY <1>3

\* Sums of naturals grow with the number of terms; of positive ones strictly.
LEMMA SumGrows ==
  ASSUME NEW w, NEW n \in Nat, \A k \in 1 .. n : w[k] \in Nat, NEW i \in 0 .. n
  PROVE  \A j \in i .. n : SumTo(w, i) <= SumTo(w, j)
<1> DEFINE T == {k \in Nat : i + k <= n => SumTo(w, i) <= SumTo(w, i + k)}
<1>0. \A k \in 0 .. n : SumTo(w, k) \in Nat
  <2> SUFFICES ASSUME NEW k \in 0 .. n PROVE SumTo(w, k) \in Nat
    OBVIOUS
  <2>1. k \in Nat /\ \A j \in 1 .. k : w[j] \in Nat
    OBVIOUS
  <2> QED BY <2>1, SumIsNat
<1>1. 0 \in T
  <2>1. i + 0 = i /\ SumTo(w, i) \in Nat
    BY <1>0
  <2> QED BY <2>1
<1>2. ASSUME NEW k \in T PROVE k + 1 \in T
  <2> SUFFICES ASSUME i + (k + 1) <= n PROVE SumTo(w, i) <= SumTo(w, i + (k + 1))
    OBVIOUS
  <2>1. k \in Nat /\ SumTo(w, i) <= SumTo(w, i + k) /\ i + k \in 0 .. n /\ (i + k) + 1 \in 1 .. n
    OBVIOUS
  <2>2. SumTo(w, (i + k) + 1) = SumTo(w, i + k) + w[(i + k) + 1]
    BY <2>1, SumNext
  <2>3. w[(i + k) + 1] \in Nat /\ SumTo(w, i + k) \in Nat /\ SumTo(w, i) \in Nat
    BY <2>1, <1>0
  <2>4. i + (k + 1) = (i + k) + 1
    BY <2>1
  <2> QED BY <2>1, <2>2, <2>3, <2>4
<1>3. T = Nat
  <2> HIDE DEF T
  <2>1. T \in SUBSET Nat
    BY DEF T
  <2> QED BY <1>1, <1>2, <2>1, NatSetInduction
<1> SUFFICES ASSUME NEW j \in i .. n PROVE SumTo(w, i) <= SumTo(w, j)
  OBVIOUS
<1>4. j - i \in Nat /\ i + (j - i) = j /\ j <= n
  OBVIOUS
<1>5. j - i \in T
  BY <1>3, <1>4
<1> QED BY <1>4, <1>5

\* One term changes the sum by as much as itself.
LEMMA SumChange ==
  ASSUME NEW v, NEW w, NEW n \in Nat, NEW i \in 1 .. n,
         \A k \in 1 .. n : v[k] \in Nat /\ w[k] \in Nat /\ (k # i => v[k] = w[k])
  PROVE  SumTo(v, n) = SumTo(w, n) - w[i] + v[i]
<1> DEFINE Differ(k) == SumTo(v, k) = IF k < i THEN SumTo(w, k) ELSE SumTo(w, k) - w[i] + v[i]
           T == {k \in Nat : k <= n => Differ(k)}
<1>0. \A k \in 0 .. n : SumTo(w, k) \in Nat /\ SumTo(v, k) \in Nat
  <2> SUFFICES ASSUME NEW k \in 0 .. n PROVE SumTo(w, k) \in Nat /\ SumTo(v, k) \in Nat
    OBVIOUS
  <2>1. k \in Nat /\ \A j \in 1 .. k : w[j] \in Nat /\ v[j] \in Nat
    OBVIOUS
  <2> QED BY <2>1, SumIsNat
<1>1. 0 \in T
  BY SumOfNone
<1>2. ASSUME NEW k \in T PROVE k + 1 \in T
  <2> SUFFICES ASSUME k + 1 <= n PROVE Differ(k + 1)
    OBVIOUS
  <2>1. k \in Nat /\ Differ(k) /\ k \in 0 .. n /\ k + 1 \in 1 .. n
    OBVIOUS
  <2>2. /\ SumTo(w, k + 1) = SumTo(w, k) + w[k + 1]
        /\ SumTo(v, k + 1) = SumTo(v, k) + v[k + 1]
    BY <2>1, SumNext
  <2>3. SumTo(w, k) \in Nat /\ SumTo(v, k) \in Nat
    BY <2>1, <1>0
  <2>4. w[k + 1] \in Nat /\ v[k + 1] \in Nat /\ w[i] \in Nat /\ v[i] \in Nat
    BY <2>1
  <2>5. k + 1 # i => v[k + 1] = w[k + 1]
    BY <2>1
  <2>6. CASE k + 1 < i
    BY <2>1, <2>2, <2>3, <2>4, <2>5, <2>6
  <2>7. CASE k + 1 = i
    <3>1. SumTo(v, k) = SumTo(w, k)
      BY <2>1, <2>7
    <3>2. SumTo(w, k) + v[i] = (SumTo(w, k) + w[i]) - w[i] + v[i]
      BY <2>3, <2>4
    <3> QED BY <3>1, <3>2, <2>2, <2>7
  <2>8. CASE k + 1 > i
    <3>1. SumTo(v, k) = SumTo(w, k) - w[i] + v[i] /\ v[k + 1] = w[k + 1]
      BY <2>1, <2>5, <2>8
    <3>2. (SumTo(w, k) - w[i] + v[i]) + w[k + 1] = (SumTo(w, k) + w[k + 1]) - w[i] + v[i]
      BY <2>3, <2>4
    <3> QED BY <3>1, <3>2, <2>1, <2>2, <2>8
  <2> QED BY <2>1, <2>6, <2>7, <2>8
<1>3. T = Nat
  <2> HIDE DEF T
  <2>1. T \in SUBSET Nat
    BY DEF T
  <2> QED BY <1>1, <1>2, <2>1, NatSetInduction
<1>4. Differ(n)
  BY <1>3
<1> QED BY <1>4

-----------------------------------------------------------------------------
(* Sequences and least elements.                                           *)

\* One element of a sequence, as a sequence.
LEMMA OneOf ==
  ASSUME NEW S, NEW s \in Seq(S), NEW b \in 1 .. Len(s)
  PROVE  SubSeq(s, b, b) \in Seq(S) /\ Len(SubSeq(s, b, b)) = 1 /\ SubSeq(s, b, b)[1] = s[b]
<1>1. b \in Int /\ Len(s) \in Nat /\ 1 <= b /\ b <= Len(s)
  OBVIOUS
<1>2. Len(SubSeq(s, b, b)) = 1
  BY <1>1
<1>3. SubSeq(s, b, b)[1] = s[b]
  BY <1>1
<1>4. SubSeq(s, b, b) \in Seq(S)
  BY <1>1
<1> QED BY <1>2, <1>3, <1>4

\* The larger of two numbers.
LEMMA MaxOfTwo ==
  ASSUME NEW m \in Int, NEW n \in Int
  PROVE  Max({m, n}) = IF m >= n THEN m ELSE n
<1> DEFINE k == IF m >= n THEN m ELSE n
<1>1. k \in {m, n} /\ \A j \in {m, n} : k >= j
  OBVIOUS
<1>2. \A j \in {m, n} : (\A l \in {m, n} : j >= l) => j = k
  OBVIOUS
<1> HIDE DEF k
<1>3. Max({m, n}) = k
  BY <1>1, <1>2 DEF Max
<1> QED BY <1>3 DEF k

\* Taking the top off the free list.
LEMMA PopFree ==
  ASSUME NEW S, NEW s \in Seq(S), s # <<>>
  PROVE  /\ Len(s) \in Nat \ {0} /\ s[Len(s)] \in S
         /\ SubSeq(s, 1, Len(s) - 1) \in Seq(S)
         /\ DOMAIN SubSeq(s, 1, Len(s) - 1) = 1 .. Len(s) - 1
         /\ \A k \in 1 .. Len(s) - 1 : SubSeq(s, 1, Len(s) - 1)[k] = s[k]
<1>1. Len(s) \in Nat \ {0}
  OBVIOUS
<1> DEFINE c == SubSeq(s, 1, Len(s) - 1)
<1>2. /\ c \in Seq(S) /\ Len(c) = Len(s) - 1
      /\ \A k \in 1 .. Len(s) - 1 : c[k] = s[k]
  <2>1. 1 \in Int /\ Len(s) - 1 \in Int /\ \A k \in 1 .. Len(s) - 1 : s[k] \in S
    BY <1>1
  <2>2. /\ c \in Seq(S) /\ Len(c) = IF 1 <= Len(s) - 1 THEN (Len(s) - 1) - 1 + 1 ELSE 0
        /\ \A k \in 1 .. (Len(s) - 1) - 1 + 1 : c[k] = s[1 + k - 1]
    BY <2>1, SubSeqProperties
  <2> HIDE DEF c
  <2>3. (Len(s) - 1) - 1 + 1 = Len(s) - 1 /\ \A k \in 1 .. Len(s) - 1 : 1 + k - 1 = k
    BY <1>1
  <2>4. Len(c) = Len(s) - 1
    <3>1. \A k \in Nat \ {0} : (IF 1 <= k - 1 THEN (k - 1) - 1 + 1 ELSE 0) = k - 1
      OBVIOUS
    <3> QED BY <1>1, <2>2, <3>1
  <2>5. \A k \in 1 .. Len(s) - 1 : c[k] = s[1 + k - 1]
    BY <2>2, <2>3
  <2>6. \A k \in 1 .. Len(s) - 1 : c[k] = s[k]
    <3> SUFFICES ASSUME NEW k \in 1 .. Len(s) - 1 PROVE c[k] = s[k]
      OBVIOUS
    <3>1. c[k] = s[1 + k - 1] /\ 1 + k - 1 = k
      BY <2>3, <2>5
    <3> QED BY <3>1
  <2> QED BY <2>2, <2>4, <2>6
<1>4. s[Len(s)] \in S
  BY <1>1
<1> HIDE DEF c
<1>5. DOMAIN c = 1 .. Len(s) - 1
  BY <1>2
<1> QED BY <1>1, <1>2, <1>4, <1>5 DEF c

\* A function on 1 .. n is a sequence, and a sequence of what its elements are.
LEMMA IsSeq ==
  ASSUME NEW S, NEW n \in Nat, NEW f \in [1 .. n -> S]
  PROVE  f \in Seq(S) /\ Len(f) = n
OBVIOUS

\* An element of a sequence.
LEMMA SeqAt ==
  ASSUME NEW S, NEW s \in Seq(S), NEW k \in DOMAIN s
  PROVE  s[k] \in S
OBVIOUS

\* A sequence of what its elements are.
LEMMA SeqIn ==
  ASSUME NEW S, NEW R, NEW s \in Seq(S), \A k \in DOMAIN s : s[k] \in R
  PROVE  s \in Seq(R)
OBVIOUS

\* The least of some naturals.
LEMMA LeastIs ==
  ASSUME NEW S \in SUBSET Nat, S # {}
  PROVE  Min(S) \in S /\ \A j \in S : Min(S) <= j
<1>1. PICK k \in S : \A j \in S : <<j, k>> \notin OpToRel(<, Nat)
  BY WFMin, NatLessThanWellFounded
<1>2. \A j \in S : ~(j < k)
  BY <1>1 DEF OpToRel
<1>2a. \A j \in S : k <= j
  BY <1>2
<1>3. \E l \in S : \A j \in S : l <= j
  BY <1>2a
<1> QED BY <1>3 DEF Min

-----------------------------------------------------------------------------
(* planBulkBatches.                                                        *)

Lengths == Seq(Nat \ {0})
Sizes(bs) == [b \in DOMAIN bs |-> Len(bs[b])]

\* bs are the first i lengths of p, in order.
Cut(bs, p, i) ==
  /\ bs \in Seq(Lengths) /\ SumTo(Sizes(bs), Len(bs)) = i
  /\ \A b \in DOMAIN bs :
       /\ bs[b] = SubSeq(p.lengths, SumTo(Sizes(bs), b - 1) + 1, SumTo(Sizes(bs), b))
       /\ bs[b] # <<>>

\* Each batch is within the bounds, and could not have taken the next chunk.
Within(s, p) == Len(s) <= p.maxRecords /\ (SumOf(s) <= p.target \/ Len(s) = 1)
Closed(s, d, p) == Len(s) = p.maxRecords \/ SumOf(s) + d > p.target
Bounded(bs, p) ==
  /\ \A b \in DOMAIN bs : Within(bs[b], p)
  /\ \A b \in DOMAIN bs : b < Len(bs) => Closed(bs[b], bs[b + 1][1], p)

\* A batch more.
LEMMA SizesMore ==
  ASSUME NEW bs \in Seq(Lengths), NEW s \in Lengths
  PROVE  /\ SumTo(Sizes(Append(bs, s)), Len(bs) + 1) = SumTo(Sizes(bs), Len(bs)) + Len(s)
         /\ \A b \in 0 .. Len(bs) : SumTo(Sizes(Append(bs, s)), b) = SumTo(Sizes(bs), b)
<1> DEFINE v == Sizes(Append(bs, s))
           w == Sizes(bs)
<1>1. Len(bs) \in Nat /\ v[Len(bs) + 1] = Len(s) /\ \A b \in 1 .. Len(bs) : v[b] = w[b]
  BY DEF Sizes
<1> HIDE DEF v, w
<1>2. \A b \in 0 .. Len(bs) : SumTo(v, b) = SumTo(w, b)
  <2> SUFFICES ASSUME NEW b \in 0 .. Len(bs) PROVE SumTo(v, b) = SumTo(w, b)
    OBVIOUS
  <2>1. b \in Nat /\ \A k \in 1 .. b : v[k] = w[k]
    BY <1>1
  <2> QED BY <2>1, SumSame
<1>3. SumTo(v, Len(bs) + 1) = SumTo(v, Len(bs)) + v[Len(bs) + 1]
  BY <1>1, SumNext
<1>4. SumTo(v, Len(bs)) = SumTo(w, Len(bs))
  BY <1>1, <1>2
<1> QED BY <1>1, <1>2, <1>3, <1>4 DEF v, w

\* The next lengths make one batch more.
LEMMA CutMore ==
  ASSUME NEW bs, NEW p, NEW i \in Nat, Cut(bs, p, i), NEW s \in Lengths, s # <<>>,
         s = SubSeq(p.lengths, i + 1, i + Len(s))
  PROVE  Cut(Append(bs, s), p, i + Len(s))
<1> DEFINE more == Append(bs, s)
<1>1. /\ bs \in Seq(Lengths) /\ more \in Seq(Lengths) /\ Len(bs) \in Nat
      /\ Len(more) = Len(bs) + 1 /\ DOMAIN bs = 1 .. Len(bs) /\ DOMAIN more = 1 .. Len(bs) + 1
      /\ more[Len(bs) + 1] = s /\ \A b \in 1 .. Len(bs) : more[b] = bs[b]
  BY DEF Cut
<1>2. /\ SumTo(Sizes(more), Len(bs) + 1) = i + Len(s)
      /\ \A b \in 0 .. Len(bs) : SumTo(Sizes(more), b) = SumTo(Sizes(bs), b)
      /\ SumTo(Sizes(bs), Len(bs)) = i
  BY <1>1, SizesMore DEF Cut
<1> HIDE DEF more
<1>3. ASSUME NEW b \in DOMAIN more
      PROVE  /\ more[b] = SubSeq(p.lengths, SumTo(Sizes(more), b - 1) + 1, SumTo(Sizes(more), b))
             /\ more[b] # <<>>
  <2>1. CASE b = Len(bs) + 1
    <3>1. b - 1 = Len(bs) /\ Len(bs) \in 0 .. Len(bs)
      BY <2>1, <1>1
    <3>2. SumTo(Sizes(more), b - 1) = i /\ SumTo(Sizes(more), b) = i + Len(s)
      BY <3>1, <2>1, <1>2
    <3> QED BY <3>2, <2>1, <1>1
  <2>2. CASE b \in 1 .. Len(bs)
    <3>1. b - 1 \in 0 .. Len(bs) /\ b \in 0 .. Len(bs)
      BY <2>2, <1>1
    <3>2. /\ bs[b] = SubSeq(p.lengths, SumTo(Sizes(bs), b - 1) + 1, SumTo(Sizes(bs), b))
          /\ bs[b] # <<>>
      BY <2>2, <1>1 DEF Cut
    <3> QED BY <3>1, <3>2, <2>2, <1>1, <1>2
  <2> QED BY <2>1, <2>2, <1>1
<1>4. Cut(more, p, i + Len(s))
  BY <1>1, <1>2, <1>3 DEF Cut
<1> QED BY <1>4 DEF more

\* A batch added to bounded ones, when the last of them was full.
LEMMA BoundedMore ==
  ASSUME NEW bs \in Seq(Lengths), NEW p, Bounded(bs, p), NEW s \in Lengths, Within(s, p),
         bs # <<>> => Closed(bs[Len(bs)], s[1], p)
  PROVE  Bounded(Append(bs, s), p)
<1> DEFINE more == Append(bs, s)
<1>1. /\ Len(bs) \in Nat
      /\ Len(more) = Len(bs) + 1 /\ DOMAIN bs = 1 .. Len(bs) /\ DOMAIN more = 1 .. Len(bs) + 1
      /\ more[Len(bs) + 1] = s /\ \A b \in 1 .. Len(bs) : more[b] = bs[b]
  OBVIOUS
<1> HIDE DEF more
<1>2. \A b \in DOMAIN more : Within(more[b], p)
  <2> SUFFICES ASSUME NEW b \in DOMAIN more PROVE Within(more[b], p)
    OBVIOUS
  <2>1. b = Len(bs) + 1 \/ b \in 1 .. Len(bs)
    BY <1>1
  <2> QED BY <1>1, <2>1 DEF Bounded
<1>3. ASSUME NEW b \in DOMAIN more, b < Len(more) PROVE Closed(more[b], more[b + 1][1], p)
  <2>1. b \in 1 .. Len(bs) /\ more[b] = bs[b]
    BY <1>1, <1>3
  <2>2. CASE b = Len(bs)
    <3>1. bs # <<>> /\ more[b + 1] = s
      BY <2>1, <2>2, <1>1
    <3> QED BY <3>1, <2>1, <2>2
  <2>3. CASE b < Len(bs)
    <3>1. b + 1 \in 1 .. Len(bs)
      BY <2>1, <2>3, <1>1
    <3>2. more[b + 1] = bs[b + 1]
      BY <3>1, <1>1
    <3>3. Closed(bs[b], bs[b + 1][1], p)
      BY <2>1, <2>3, <1>1 DEF Bounded
    <3> QED BY <2>1, <3>2, <3>3
  <2> QED BY <2>1, <2>2, <2>3, <1>1
<1>4. Bounded(more, p)
  BY <1>2, <1>3 DEF Bounded
<1> QED BY <1>4 DEF more

\* A batch with one chunk more: its sum, and the lengths it stands for.
LEMMA SumOfMore ==
  ASSUME NEW s \in Lengths, NEW d \in Nat \ {0}
  PROVE  SumOf(Append(s, d)) = SumOf(s) + d /\ SumOf(s) \in Nat
<1>1. /\ Len(s) \in Nat /\ Len(Append(s, d)) = Len(s) + 1 /\ Append(s, d)[Len(s) + 1] = d
      /\ \A k \in 1 .. Len(s) : Append(s, d)[k] = s[k] /\ s[k] \in Nat
  BY DEF Lengths
<1>2. SumTo(Append(s, d), Len(s) + 1) = SumTo(Append(s, d), Len(s)) + Append(s, d)[Len(s) + 1]
  BY <1>1, SumNext
<1>3. SumTo(Append(s, d), Len(s)) = SumTo(s, Len(s))
  BY <1>1, SumSame
<1>4. SumTo(s, Len(s)) \in Nat
  BY <1>1, SumIsNat
<1> QED BY <1>1, <1>2, <1>3, <1>4 DEF SumOf

\* A segment of the lengths, and the same with one length more.
LEMMA SubSeqMore ==
  ASSUME NEW s \in Lengths, NEW m \in Nat, NEW n \in Nat, m <= n, n < Len(s)
  PROVE  /\ SubSeq(s, m + 1, n) \in Lengths /\ Len(SubSeq(s, m + 1, n)) = n - m
         /\ SubSeq(s, m + 1, n + 1) = Append(SubSeq(s, m + 1, n), s[n + 1])
<1> DEFINE a == SubSeq(s, m + 1, n)
           b == SubSeq(s, m + 1, n + 1)
<1>1. Len(s) \in Nat /\ \A k \in 1 .. Len(s) : s[k] \in Nat \ {0}
  BY DEF Lengths
<1>2. /\ a \in Seq(Nat \ {0}) /\ Len(a) = n - m
      /\ \A k \in 1 .. n - m : a[k] = s[m + k]
  BY <1>1 DEF Lengths
<1>3. /\ b \in Seq(Nat \ {0}) /\ Len(b) = n - m + 1
      /\ \A k \in 1 .. n - m + 1 : b[k] = s[m + k]
  BY <1>1 DEF Lengths
<1> HIDE DEF a, b
<1>4. /\ Append(a, s[n + 1]) \in Seq(Nat \ {0}) /\ Len(Append(a, s[n + 1])) = n - m + 1
      /\ \A k \in 1 .. n - m : Append(a, s[n + 1])[k] = a[k]
      /\ Append(a, s[n + 1])[n - m + 1] = s[n + 1]
  <2> DEFINE d == s[n + 1]
  <2>1. d \in Nat \ {0} /\ n - m \in Nat
    BY <1>1
  <2> HIDE DEF d
  <2>2. /\ Append(a, d) \in Seq(Nat \ {0}) /\ Len(Append(a, d)) = n - m + 1
        /\ \A k \in 1 .. n - m : Append(a, d)[k] = a[k]
    BY <1>2, <2>1
  <2>3. Append(a, d)[Len(a) + 1] = d
    BY <1>2, <2>1
  <2> QED BY <1>2, <2>2, <2>3 DEF d
<1>5. \A k \in 1 .. n - m + 1 : b[k] = Append(a, s[n + 1])[k]
  <2> SUFFICES ASSUME NEW k \in 1 .. n - m + 1 PROVE b[k] = Append(a, s[n + 1])[k]
    OBVIOUS
  <2>1. CASE k = n - m + 1
    <3>1. m + k = n + 1
      BY <2>1
    <3>2. b[k] = s[m + k]
      BY <1>3
    <3> QED BY <2>1, <3>1, <3>2, <1>4
  <2>2. CASE k \in 1 .. n - m
    BY <2>2, <1>2, <1>3, <1>4
  <2>3. k = n - m + 1 \/ k \in 1 .. n - m
    <3>1. k \in Nat /\ 1 <= k /\ k <= n - m + 1 /\ n - m \in Nat
      OBVIOUS
    <3> QED BY <3>1
  <2> QED BY <2>1, <2>2, <2>3
<1>6. b = Append(a, s[n + 1])
  <2> DEFINE c == Append(a, s[n + 1])
  <2>1. c \in Seq(Nat \ {0}) /\ Len(c) = n - m + 1 /\ \A k \in 1 .. n - m + 1 : b[k] = c[k]
    BY <1>4, <1>5
  <2> HIDE DEF c
  <2>2. b = c
    <3>1. DOMAIN b = 1 .. n - m + 1 /\ DOMAIN c = 1 .. n - m + 1
      BY <1>3, <2>1
    <3>2. b = [k \in 1 .. n - m + 1 |-> b[k]] /\ c = [k \in 1 .. n - m + 1 |-> c[k]]
      BY <3>1, <1>3, <2>1
    <3> QED BY <3>2, <2>1
  <2> QED BY <2>2 DEF c
<1> QED BY <1>2, <1>6 DEF a, b, Lengths

\* The loop's variables, after i chunks: the batches and the open one.
PlanStart == [out |-> <<>>, open |-> <<>>]
PlanNext(q, d, p) ==
  IF q.open # <<>> /\ Full(q.open, SumOf(q.open), d, p)
  THEN [out |-> Append(q.out, q.open), open |-> <<d>>]
  ELSE [q EXCEPT !.open = Append(@, d)]
IsPlan(f, p, n) ==
  f = [i \in 0 .. n |-> IF i = 0 THEN PlanStart ELSE PlanNext(f[i - 1], p.lengths[i], p)]

\* The equation of the loop's variables, at one index.
LEMMA PlanAt ==
  ASSUME NEW f, NEW p, NEW n \in Nat, IsPlan(f, p, n), NEW i \in 0 .. n
  PROVE  f[i] = IF i = 0 THEN PlanStart ELSE PlanNext(f[i - 1], p.lengths[i], p)
<1> DEFINE h == [j \in 0 .. n |-> IF j = 0 THEN PlanStart ELSE PlanNext(f[j - 1], p.lengths[j], p)]
<1>1. f = h
  BY DEF IsPlan
<1>2. h[i] = IF i = 0 THEN PlanStart ELSE PlanNext(f[i - 1], p.lengths[i], p)
  OBVIOUS
<1> HIDE DEF h
<1> QED BY <1>1, <1>2

\* The loop computes a value for every number of chunks.
LEMMA PlanExists ==
  ASSUME NEW p
  PROVE  \A n \in Nat : \E f : IsPlan(f, p, n)
<1> DEFINE T == {n \in Nat : \E f : IsPlan(f, p, n)}
<1>1. 0 \in T
  <2> DEFINE f == [i \in 0 .. 0 |-> PlanStart]
  <2>1. IsPlan(f, p, 0)
    BY DEF IsPlan
  <2> QED BY <2>1
<1>2. ASSUME NEW n \in T PROVE n + 1 \in T
  <2>1. PICK f : IsPlan(f, p, n)
    BY <1>2
  <2> DEFINE step == PlanNext(f[n], p.lengths[n + 1], p)
             g == [i \in 0 .. n + 1 |-> IF i = n + 1 THEN step ELSE f[i]]
  <2>2. \A i \in 0 .. n : g[i] = f[i] /\ f[i] = IF i = 0 THEN PlanStart
                                                ELSE PlanNext(f[i - 1], p.lengths[i], p)
    <3>1. \A i \in 0 .. n : g[i] = f[i]
      OBVIOUS
    <3> HIDE DEF g
    <3> QED BY <3>1, <2>1, PlanAt
  <2>3. g[n + 1] = step
    OBVIOUS
  <2>4. \A i \in 0 .. n + 1 : g[i] = IF i = 0 THEN PlanStart ELSE PlanNext(g[i - 1], p.lengths[i], p)
    <3> SUFFICES ASSUME NEW i \in 0 .. n + 1
                 PROVE  g[i] = IF i = 0 THEN PlanStart ELSE PlanNext(g[i - 1], p.lengths[i], p)
      OBVIOUS
    <3> HIDE DEF g
    <3>1. CASE i = n + 1
      <4>1. i - 1 = n /\ n \in 0 .. n /\ i # 0
        BY <3>1
      <4> QED BY <3>1, <4>1, <2>2, <2>3
    <3>2. CASE i \in 0 .. n
      <4>1. i # 0 => i - 1 \in 0 .. n
        BY <3>2
      <4> QED BY <3>2, <4>1, <2>2
    <3> QED BY <3>1, <3>2
  <2>5. IsPlan(g, p, n + 1)
    <3>1. g = [i \in 0 .. n + 1 |-> g[i]]
      OBVIOUS
    <3> HIDE DEF g
    <3> QED BY <3>1, <2>4 DEF IsPlan
  <2> HIDE DEF g
  <2> QED BY <2>5
<1>3. T = Nat
  <2> HIDE DEF T
  <2>1. T \in SUBSET Nat
    BY DEF T
  <2> QED BY <1>1, <1>2, <2>1, NatSetInduction
<1> QED BY <1>3

\* After i chunks: j are in closed batches, the rest is open and within bounds.
PlanOK(q, i, p) ==
  /\ q \in [out : Seq(Lengths), open : Lengths] /\ Len(q.open) <= i
  /\ Cut(q.out, p, i - Len(q.open)) /\ Bounded(q.out, p)
  /\ q.open = SubSeq(p.lengths, (i - Len(q.open)) + 1, i)
  /\ i # 0 => q.open # <<>> /\ Within(q.open, p)
  /\ q.out # <<>> => q.open # <<>> /\ Closed(q.out[Len(q.out)], q.open[1], p)

\* One round of the loop.
LEMMA PlanRound ==
  ASSUME NEW p, p.lengths \in Lengths, p.maxRecords \in Nat \ {0}, p.target \in Nat,
         NEW i \in Nat, i < Len(p.lengths), NEW q, PlanOK(q, i, p)
  PROVE  PlanOK(PlanNext(q, p.lengths[i + 1], p), i + 1, p)
<1> DEFINE d == p.lengths[i + 1]
           open == q.open
           done == q.out
           j == i - Len(open)
           next == PlanNext(q, d, p)
<1>1. /\ d \in Nat \ {0} /\ Len(p.lengths) \in Nat /\ done \in Seq(Lengths) /\ open \in Lengths
      /\ Len(open) \in Nat /\ j \in Nat /\ j <= i
  <2>1. d \in Nat \ {0} /\ Len(p.lengths) \in Nat
    BY DEF Lengths
  <2>2. done \in Seq(Lengths) /\ open \in Lengths /\ Len(open) <= i
    BY DEF PlanOK
  <2> HIDE DEF open, done
  <2>3. Len(open) \in Nat
    BY <2>2 DEF Lengths
  <2> QED BY <2>1, <2>2, <2>3
<1>2. open = SubSeq(p.lengths, j + 1, i) /\ Cut(done, p, j) /\ Bounded(done, p)
  BY DEF PlanOK
<1>2a. i # 0 => open # <<>> /\ Within(open, p)
  BY DEF PlanOK
<1>2b. done # <<>> => open # <<>> /\ Closed(done[Len(done)], open[1], p)
  BY DEF PlanOK
<1>2c. q = [out |-> done, open |-> open]
  BY DEF PlanOK
<1>3. CASE open # <<>> /\ Full(open, SumOf(open), d, p)
  <2>1. next = [out |-> Append(done, open), open |-> <<d>>]
    BY <1>3 DEF PlanNext
  <2>2. Cut(Append(done, open), p, i)
    <3>1. j + Len(open) = i
      BY <1>1
    <3> QED BY <1>1, <1>2, <1>3, <3>1, CutMore
  <2>3. Len(open) # 0 /\ i # 0
    BY <1>1, <1>3 DEF Lengths
  <2>4. Within(open, p)
    BY <2>3, <1>2a
  <2>5. Bounded(Append(done, open), p)
    BY <1>1, <1>2, <1>2b, <2>4, BoundedMore
  <2>6. Closed(open, d, p)
    BY <1>1, <1>3, <2>4 DEF Full, Within, Closed
  <2>7. <<d>> = SubSeq(p.lengths, i + 1, i + 1)
    <3> DEFINE c == SubSeq(p.lengths, i + 1, i + 1)
    <3>1. c \in Seq(Nat \ {0}) /\ Len(c) = 1 /\ c[1] = d
      BY <1>1 DEF Lengths
    <3> HIDE DEF c, d
    <3>2. c = <<d>>
      BY <3>1
    <3> QED BY <3>2 DEF c
  <2>8. Within(<<d>>, p) /\ <<d>> \in Lengths /\ Len(<<d>>) = 1 /\ <<d>>[1] = d /\ <<d>> # <<>>
    BY <1>1 DEF Within, Lengths
  <2>9. /\ Append(done, open) \in Seq(Lengths) /\ Append(done, open)[Len(Append(done, open))] = open
    BY <1>1
  <2> HIDE DEF d, open, done
  <2>10. next.out = Append(done, open) /\ next.open = <<d>> /\ next \in [out : Seq(Lengths), open : Lengths]
    BY <2>1, <2>8, <2>9
  <2>11. (i + 1) - Len(next.open) = i /\ Len(next.open) <= i + 1
    BY <2>10, <2>8
  <2> HIDE DEF next
  <2>12. PlanOK(next, i + 1, p)
    BY <2>2, <2>5, <2>6, <2>7, <2>8, <2>9, <2>10, <2>11 DEF PlanOK
  <2> QED BY <2>12 DEF next, d
<1>4. CASE ~(open # <<>> /\ Full(open, SumOf(open), d, p))
  <2>1. next.out = done /\ next.open = Append(open, d) /\ next = [out |-> done, open |-> Append(open, d)]
    BY <1>4, <1>2c DEF PlanNext
  <2>2. /\ Append(open, d) \in Lengths /\ Len(Append(open, d)) = Len(open) + 1
        /\ Append(open, d) # <<>> /\ (open # <<>> => Append(open, d)[1] = open[1])
    <3> HIDE DEF open, d
    <3>1. open \in Seq(Nat \ {0}) /\ d \in Nat \ {0}
      BY <1>1 DEF Lengths
    <3>2. /\ Append(open, d) \in Seq(Nat \ {0}) /\ Append(open, d) # <<>>
          /\ Len(Append(open, d)) = Len(open) + 1
          /\ \A k \in 1 .. Len(open) : Append(open, d)[k] = open[k]
      BY <3>1, AppendProperties
    <3>3. open # <<>> => 1 \in 1 .. Len(open)
      BY <3>1
    <3> QED BY <3>2, <3>3 DEF Lengths
  <2>3. Append(open, d) = SubSeq(p.lengths, j + 1, i + 1)
    <3>1. SubSeq(p.lengths, j + 1, i + 1) = Append(SubSeq(p.lengths, j + 1, i), p.lengths[i + 1])
      <4> HIDE DEF j
      <4> QED BY <1>1, SubSeqMore
    <3> QED BY <3>1, <1>2
  <2>4. Within(Append(open, d), p)
    <3>1. CASE open = <<>>
      BY <3>1, <2>2 DEF Within
    <3>2. CASE open # <<>>
      <4>1. SumOf(Append(open, d)) = SumOf(open) + d /\ SumOf(open) \in Nat
        BY <1>1, SumOfMore
      <4> QED BY <4>1, <3>2, <1>4, <1>1, <2>2 DEF Full, Within
    <3> QED BY <3>1, <3>2
  <2> HIDE DEF d, open, done
  <2>5. (i + 1) - Len(next.open) = j /\ Len(next.open) <= i + 1
    BY <2>1, <2>2, <1>1
  <2>6. next \in [out : Seq(Lengths), open : Lengths]
    BY <2>1, <2>2, <1>1
  <2>7. done # <<>> => Append(open, d) # <<>> /\ Closed(done[Len(done)], Append(open, d)[1], p)
    BY <1>2b, <2>2
  <2> HIDE DEF next, j
  <2>8. PlanOK(next, i + 1, p)
    BY <1>2, <2>1, <2>2, <2>3, <2>4, <2>5, <2>6, <2>7 DEF PlanOK
  <2> QED BY <2>8 DEF next, d
<1> QED BY <1>3, <1>4

\* planBulkBatches cuts the chunks in order, within its bounds.
LEMMA PlanFits ==
  ASSUME NEW p, p.lengths \in Lengths, p.maxRecords \in Nat \ {0}, p.target \in Nat
  PROVE  Cut(PlanBulkBatches(p), p, Len(p.lengths)) /\ Bounded(PlanBulkBatches(p), p)
<1> DEFINE N == Len(p.lengths)
           f == CHOOSE g : IsPlan(g, p, N)
           T == {i \in Nat : i <= N => PlanOK(f[i], i, p)}
           q == f[N]
<1>1. N \in Nat
  BY DEF Lengths
<1>2. IsPlan(f, p, N)
  BY <1>1, PlanExists
<1>3. PlanBulkBatches(p) = IF q.open = <<>> THEN q.out ELSE Append(q.out, q.open)
  BY DEF PlanBulkBatches, IsPlan, PlanNext, PlanStart
<1> HIDE DEF f
<1>4. 0 \in T
  <2>1. f[0] = PlanStart
    BY <1>1, <1>2, PlanAt
  <2>2. PlanStart.out = <<>> /\ PlanStart.open = <<>> /\ PlanStart \in [out : Seq(Lengths), open : Lengths]
    BY DEF PlanStart, Lengths
  <2>3. SumTo(Sizes(<<>>), 0) = 0
    BY SumOfNone
  <2>4. <<>> \in Seq(Lengths) /\ Len(<<>>) = 0 /\ DOMAIN <<>> = {}
    OBVIOUS
  <2>5. Cut(<<>>, p, 0) /\ Bounded(<<>>, p)
    BY <2>3, <2>4 DEF Cut, Bounded
  <2>6. SubSeq(p.lengths, 1, 0) = <<>>
    BY DEF Lengths
  <2>7. PlanOK(PlanStart, 0, p)
    BY <2>2, <2>4, <2>5, <2>6 DEF PlanOK
  <2> QED BY <2>1, <2>7
<1>5. ASSUME NEW i \in T PROVE i + 1 \in T
  <2> SUFFICES ASSUME i + 1 <= N PROVE PlanOK(f[i + 1], i + 1, p)
    OBVIOUS
  <2>1. i \in Nat /\ PlanOK(f[i], i, p) /\ i < N /\ i + 1 \in 0 .. N /\ i + 1 # 0 /\ (i + 1) - 1 = i
    BY <1>1
  <2>2. f[i + 1] = PlanNext(f[(i + 1) - 1], p.lengths[i + 1], p)
    BY <1>1, <1>2, <2>1, PlanAt
  <2>3. f[i + 1] = PlanNext(f[i], p.lengths[i + 1], p)
    BY <2>1, <2>2
  <2> QED BY <2>1, <2>3, PlanRound
<1>6. T = Nat
  <2> HIDE DEF T
  <2>1. T \in SUBSET Nat
    BY DEF T
  <2> QED BY <1>4, <1>5, <2>1, NatSetInduction
<1>7. PlanOK(q, N, p)
  BY <1>1, <1>6
<1> HIDE DEF q
<1>8. /\ q.out \in Seq(Lengths) /\ q.open \in Lengths /\ Len(q.open) \in Nat /\ Len(q.open) <= N
      /\ N - Len(q.open) \in Nat
  <2>1. q.out \in Seq(Lengths) /\ q.open \in Lengths /\ Len(q.open) <= N
    BY <1>7 DEF PlanOK
  <2>2. Len(q.open) \in Nat
    BY <2>1 DEF Lengths
  <2> QED BY <2>1, <2>2, <1>1
<1>9. CASE q.open = <<>>
  <2>1. Len(q.open) = 0 /\ N - Len(q.open) = N
    BY <1>9, <1>1
  <2>2. Cut(q.out, p, N) /\ Bounded(q.out, p)
    BY <1>7, <2>1 DEF PlanOK
  <2> QED BY <1>3, <1>9, <2>2
<1>10. CASE q.open # <<>>
  <2> DEFINE j == N - Len(q.open)
  <2>1. j \in Nat /\ j + Len(q.open) = N
    BY <1>8, <1>1
  <2>2. Cut(q.out, p, j) /\ Bounded(q.out, p) /\ q.open = SubSeq(p.lengths, j + 1, N)
    BY <1>7 DEF PlanOK
  <2>3. N # 0
    BY <1>8, <1>10, <1>1 DEF Lengths
  <2>4. Within(q.open, p) /\ (q.out # <<>> => Closed(q.out[Len(q.out)], q.open[1], p))
    BY <1>7, <2>3 DEF PlanOK
  <2> HIDE DEF j
  <2>5. Cut(Append(q.out, q.open), p, N)
    BY <1>8, <1>10, <2>1, <2>2, CutMore
  <2>6. Bounded(Append(q.out, q.open), p)
    BY <1>8, <2>2, <2>4, BoundedMore
  <2> QED BY <1>3, <1>10, <2>5, <2>6
<1> QED BY <1>9, <1>10

\* Transfers of single chunks.
LEMMA SinglesFit ==
  ASSUME NEW p, p.lengths \in Lengths
  PROVE  Cut([i \in DOMAIN p.lengths |-> <<p.lengths[i]>>], p, Len(p.lengths))
<1> DEFINE N == Len(p.lengths)
           bs == [i \in DOMAIN p.lengths |-> <<p.lengths[i]>>]
           w == Sizes(bs)
           T == {k \in Nat : k <= N => SumTo(w, k) = k}
<1>1. N \in Nat /\ DOMAIN p.lengths = 1 .. N /\ \A i \in 1 .. N : p.lengths[i] \in Nat \ {0}
  BY DEF Lengths
<1>2. /\ DOMAIN bs = 1 .. N /\ \A i \in 1 .. N : bs[i] = <<p.lengths[i]>>
  BY <1>1
<1>2a. \A i \in 1 .. N : bs[i] \in Lengths /\ Len(bs[i]) = 1 /\ bs[i] # <<>>
  <2> SUFFICES ASSUME NEW i \in 1 .. N PROVE bs[i] \in Lengths /\ Len(bs[i]) = 1 /\ bs[i] # <<>>
    OBVIOUS
  <2> DEFINE d == p.lengths[i]
  <2>1. d \in Nat \ {0} /\ bs[i] = <<d>>
    BY <1>1, <1>2
  <2> HIDE DEF d, bs
  <2> QED BY <2>1 DEF Lengths
<1>3. bs \in Seq(Lengths) /\ Len(bs) = N
  <2>1. bs = [i \in 1 .. N |-> bs[i]]
    BY <1>1
  <2> HIDE DEF bs
  <2>2. bs \in [1 .. N -> Lengths]
    BY <2>1, <1>2, <1>2a
  <2> QED BY <2>2, <1>1
<1> HIDE DEF bs
<1>4. \A k \in 1 .. N : w[k] = 1
  BY <1>2, <1>2a DEF Sizes
<1> HIDE DEF w
<1>5. 0 \in T
  BY SumOfNone
<1>6. ASSUME NEW k \in T PROVE k + 1 \in T
  <2> SUFFICES ASSUME k + 1 <= N PROVE SumTo(w, k + 1) = k + 1
    OBVIOUS
  <2>1. k \in Nat /\ SumTo(w, k) = k /\ w[k + 1] = 1
    BY <1>1, <1>4
  <2>2. SumTo(w, k + 1) = SumTo(w, k) + w[k + 1]
    BY <2>1, SumNext
  <2> QED BY <2>1, <2>2
<1>7. T = Nat
  <2> HIDE DEF T
  <2>1. T \in SUBSET Nat
    BY DEF T
  <2> QED BY <1>5, <1>6, <2>1, NatSetInduction
<1>8. \A k \in 0 .. N : SumTo(w, k) = k
  BY <1>1, <1>7
<1>9. ASSUME NEW b \in DOMAIN bs
      PROVE  bs[b] = SubSeq(p.lengths, SumTo(w, b - 1) + 1, SumTo(w, b)) /\ bs[b] # <<>>
  <2>1. b \in 1 .. N /\ b \in 0 .. N /\ b - 1 \in 0 .. N /\ (b - 1) + 1 = b
    BY <1>1, <1>2
  <2>2. SumTo(w, b - 1) + 1 = b /\ SumTo(w, b) = b
    BY <2>1, <1>8
  <2> DEFINE c == SubSeq(p.lengths, b, b)
             d == p.lengths[b]
  <2>3. c \in Seq(Nat \ {0}) /\ Len(c) = 1 /\ c[1] = d
    BY <2>1, OneOf DEF Lengths
  <2> HIDE DEF c, d
  <2>4. c = <<d>>
    BY <2>3
  <2> QED BY <2>1, <2>2, <2>4, <1>2, <1>2a DEF c, d
<1>10. SumTo(w, N) = N
  BY <1>1, <1>8
<1>11. Cut(bs, p, N)
  BY <1>3, <1>9, <1>10 DEF Cut, w
<1> QED BY <1>11 DEF bs
-----------------------------------------------------------------------------
(* runTransferWorkers.  A frame is of the item that holds it or is free; a *)
(* cancellation has a cause that failed; what is held of the budget is     *)
(* what the items hold.                                                    *)

PoolSpec == PoolInit /\ [][PoolNext]_poolVars

States == {"todo", "acquire", "fetch", "upload", "drain", "settled"}
AtWork == {"acquire", "fetch", "upload", "drain"}
ItemRec == [at : States, frame : Nat, err : {"none", "failed", "canceled"}]

PoolTypes ==
  /\ pool \in PoolInstances /\ batches \in Seq(Lengths) /\ dispatch \in 1 .. Len(batches) + 1
  /\ items \in [Items -> ItemRec] /\ avail \in Nat /\ frames \in Seq([of : Nat, cap : Nat])
  /\ free \in Seq(1 .. Len(frames)) /\ reading \subseteq Items /\ canceled \in BOOLEAN
FrameInv ==
  /\ \A i \in Items : items[i].frame # 0 =>
       /\ items[i].at \in {"fetch", "upload", "drain"}
       /\ items[i].frame \in 1 .. Len(frames) /\ frames[items[i].frame].of = i
       /\ \A n \in DOMAIN free : free[n] # items[i].frame
  /\ \A m, n \in DOMAIN free : free[m] = free[n] => m = n
  /\ \A i \in reading : items[i].at \in {"upload", "drain"}
ErrorInv ==
  /\ \A i \in Items : i >= dispatch <=> items[i].at = "todo"
  /\ \A i \in Items : items[i].at \notin {"drain", "settled"} => items[i].err = "none"
  /\ \A i \in Items : items[i].err = "canceled" => canceled
  /\ canceled => \E i \in Items : items[i].at = "settled" /\ items[i].err = "failed"
VerdictInv == verdict # -1 => Running = {} /\ dispatch \notin Items /\ verdict = FirstTransferError
SlotInv == Cardinality(Running) <= pool.workers
PoolInv == /\ PoolTypes /\ FrameInv /\ ErrorInv /\ VerdictInv /\ SlotInv
           /\ BudgetKept /\ BatchesFit

\* What PoolAssumption says of the instance.
LEMMA PoolFacts ==
  ASSUME NEW p \in PoolInstances
  PROVE  /\ p.lengths \in Lengths /\ p.maxRecords \in Nat \ {0} /\ p.target \in Nat
         /\ p.workers \in Nat \ {0} /\ p.budget \in Nat \ {0} /\ p.frameCap \in Nat
         /\ p.bulk \in BOOLEAN /\ p.cancelOnError \in BOOLEAN
BY PoolAssumption DEF Lengths

\* An item needs a part of the budget, and at least one byte of it.
LEMMA NeedFacts ==
  ASSUME PoolTypes
  PROVE  /\ Items = 1 .. Len(batches) /\ Len(batches) \in Nat
         /\ \A i \in Items : FrameSize(i) \in Nat \ {0} /\ Need(i) \in 1 .. pool.budget /\ Need(i) \in Nat
<1>1. Items = 1 .. Len(batches) /\ Len(batches) \in Nat /\ pool.budget \in Nat \ {0}
  BY PoolFacts DEF PoolTypes, Items
<1> SUFFICES ASSUME NEW i \in Items
             PROVE  FrameSize(i) \in Nat \ {0} /\ Need(i) \in 1 .. pool.budget /\ Need(i) \in Nat
  BY <1>1
<1>2. batches[i] \in Lengths
  BY DEF PoolTypes, Items
<1>3. Len(batches[i]) \in Nat /\ \A k \in 1 .. Len(batches[i]) : batches[i][k] \in Nat
  BY <1>2 DEF Lengths
<1>4. SumOf(batches[i]) \in Nat
  BY <1>3, SumIsNat DEF SumOf
<1> QED BY <1>1, <1>4 DEF FrameSize, Need

\* What the items hold, one by one.
LEMMA HoldsFacts ==
  ASSUME PoolTypes
  PROVE  /\ Len(Holds) = Len(batches) /\ DOMAIN Holds = 1 .. Len(batches)
         /\ \A i \in 1 .. Len(batches) : /\ Holds[i] \in Nat
                                         /\ Holds[i] = IF items[i].frame = 0 THEN 0 ELSE Need(i)
<1>1. Items = 1 .. Len(batches) /\ Len(batches) \in Nat /\ \A i \in Items : Need(i) \in Nat
  BY NeedFacts
<1>2. DOMAIN Holds = 1 .. Len(batches) /\ \A i \in 1 .. Len(batches) :
        Holds[i] \in Nat /\ Holds[i] = IF items[i].frame = 0 THEN 0 ELSE Need(i)
  BY <1>1 DEF Holds
<1>3. Holds = [i \in 1 .. Len(batches) |-> Holds[i]]
  BY <1>1 DEF Holds
<1> HIDE DEF Holds
<1>4. Holds \in Seq(Nat)
  <2>1. Holds \in [1 .. Len(batches) -> Nat]
    BY <1>2, <1>3
  <2> QED BY <2>1, <1>1
<1> QED BY <1>1, <1>2, <1>4

\* While an item is not settled the pool has not returned.
LEMMA StillWorking ==
  ASSUME PoolInv, NEW i \in Items, items[i].at # "settled"
  PROVE  verdict = -1
<1>1. Items = 1 .. Len(batches) /\ Len(batches) \in Nat
  BY NeedFacts DEF PoolInv
<1>2. items[i].at \in States
  BY DEF PoolInv, PoolTypes, ItemRec
<1>3. CASE items[i].at = "todo"
  <2>1. i >= dispatch /\ dispatch \in 1 .. Len(batches) + 1
    BY <1>3 DEF PoolInv, ErrorInv, PoolTypes
  <2>2. dispatch \in Items
    BY <2>1, <1>1
  <2> QED BY <2>2 DEF PoolInv, VerdictInv
<1>4. CASE items[i].at # "todo"
  <2>1. i \in Running
    BY <1>2, <1>4 DEF Running, At, States
  <2> QED BY <2>1 DEF PoolInv, VerdictInv
<1> QED BY <1>3, <1>4

\* The items at work are finitely many.
LEMMA RunningFinite ==
  ASSUME PoolTypes
  PROVE  IsFiniteSet(Running) /\ Cardinality(Running) \in Nat
<1>1. Items = 1 .. Len(batches) /\ Len(batches) \in Nat /\ Running \subseteq Items
  BY NeedFacts DEF Running, At
<1>2. IsFiniteSet(1 .. Len(batches))
  BY <1>1, FS_Interval
<1> QED BY <1>1, <1>2, FS_Subset, FS_CardinalityType

\* The items at work after one of them changes its state.
LEMMA RunningAfter ==
  ASSUME PoolTypes, SlotInv, NEW i \in Items, UNCHANGED <<pool, batches>>, NEW r \in ItemRec,
         items' = [items EXCEPT ![i] = r], i \in Running \/ r.at \notin AtWork \/ SlotFree
  PROVE  SlotInv'
<1>1. IsFiniteSet(Running) /\ Cardinality(Running) \in Nat
  BY RunningFinite
<1>2. Items' = Items /\ Running' \subseteq Running \cup {i} /\ (r.at \notin AtWork => Running' \subseteq Running)
  BY DEF Running, At, PoolTypes, Items, AtWork
<1>3. pool.workers \in Nat /\ pool' = pool
  BY PoolFacts DEF PoolTypes
<1>4. CASE Running' \subseteq Running
  <2>1. Cardinality(Running') <= Cardinality(Running) /\ IsFiniteSet(Running')
    BY <1>1, <1>4, FS_Subset
  <2>2. Cardinality(Running') \in Nat
    BY <2>1, FS_CardinalityType
  <2> QED BY <1>1, <1>3, <2>1, <2>2 DEF SlotInv
<1>5. CASE ~(Running' \subseteq Running)
  <2>1. i \notin Running /\ SlotFree
    BY <1>2, <1>5
  <2>2. IsFiniteSet(Running \cup {i}) /\ Cardinality(Running \cup {i}) = Cardinality(Running) + 1
    BY <1>1, <2>1, FS_AddElement
  <2>3. Cardinality(Running') <= Cardinality(Running \cup {i}) /\ IsFiniteSet(Running')
    BY <1>2, <2>2, FS_Subset
  <2>4. Cardinality(Running') \in Nat
    BY <2>3, FS_CardinalityType
  <2> QED BY <1>1, <1>3, <2>1, <2>2, <2>3, <2>4 DEF SlotInv, SlotFree
<1> QED BY <1>4, <1>5

\* A step that leaves the frames, the budget and the cancellation alone.
LEMMA QuietKeeps ==
  ASSUME PoolInv, NEW i \in Items, NEW r \in ItemRec, items' = [items EXCEPT ![i] = r],
         UNCHANGED <<pool, batches, avail, frames, free, canceled, verdict>>,
         items[i].at # "settled", r.frame = items[i].frame,
         r.frame # 0 => r.at \in {"fetch", "upload", "drain"},
         reading' \subseteq Items, i \in reading' => r.at \in {"upload", "drain"},
         \A k \in reading' : k # i => k \in reading,
         dispatch' \in 1 .. Len(batches) + 1,
         \A k \in Items : k # i => (k >= dispatch' <=> k >= dispatch),
         i >= dispatch' <=> r.at = "todo",
         r.at \notin {"drain", "settled"} => r.err = "none", r.err = "canceled" => canceled,
         i \in Running \/ r.at \notin AtWork \/ SlotFree
  PROVE  PoolInv'
<1>1. /\ Items' = Items /\ pool' = pool /\ batches' = batches /\ frames' = frames /\ free' = free
      /\ canceled' = canceled /\ avail' = avail /\ verdict' = verdict
  BY DEF Items
<1>2. items' \in [Items -> ItemRec] /\ items'[i] = r /\ \A k \in Items : k # i => items'[k] = items[k]
  BY DEF PoolInv, PoolTypes
<1>3. PoolTypes'
  BY <1>1, <1>2 DEF PoolInv, PoolTypes
<1>4. FrameInv'
  <2>1. \A k \in Items : items'[k].frame = items[k].frame
    BY <1>2
  <2>2. \A k \in Items : items'[k].frame # 0 => items'[k].at \in {"fetch", "upload", "drain"}
    BY <1>2 DEF PoolInv, FrameInv
  <2>3. \A k \in reading' : items'[k].at \in {"upload", "drain"}
    BY <1>2 DEF PoolInv, FrameInv
  <2> QED BY <1>1, <2>1, <2>2, <2>3 DEF PoolInv, FrameInv
<1>5. ErrorInv'
  <2>1. \A k \in Items : k >= dispatch' <=> items'[k].at = "todo"
    BY <1>2 DEF PoolInv, ErrorInv
  <2>2. \A k \in Items : items'[k].at \notin {"drain", "settled"} => items'[k].err = "none"
    BY <1>2 DEF PoolInv, ErrorInv
  <2>3. \A k \in Items : items'[k].err = "canceled" => canceled
    BY <1>2 DEF PoolInv, ErrorInv
  <2>4. canceled => \E k \in Items : items'[k].at = "settled" /\ items'[k].err = "failed"
    <3> SUFFICES ASSUME canceled PROVE \E k \in Items : items'[k].at = "settled" /\ items'[k].err = "failed"
      OBVIOUS
    <3>1. PICK k \in Items : items[k].at = "settled" /\ items[k].err = "failed"
      BY DEF PoolInv, ErrorInv
    <3> QED BY <3>1, <1>2
  <2> QED BY <1>1, <2>1, <2>2, <2>3, <2>4 DEF ErrorInv
<1>6. VerdictInv'
  BY <1>1, StillWorking DEF VerdictInv
<1>7. SlotInv'
  BY RunningAfter DEF PoolInv
<1>8. BudgetKept'
  <2>1. \A k \in Items : Need(k)' = Need(k)
    BY <1>1 DEF Need, FrameSize
  <2>2. Holds' = Holds
    BY <1>1, <1>2, <2>1 DEF Holds
  <2> QED BY <1>1, <2>2 DEF BudgetKept, PoolInv
<1>9. BatchesFit'
  BY <1>1 DEF BatchesFit, PoolInv
<1> QED BY <1>3, <1>4, <1>5, <1>6, <1>7, <1>8, <1>9 DEF PoolInv

\* An item's record, and what holds of it by its state.
LEMMA ItemFacts ==
  ASSUME PoolInv, NEW i \in Items
  PROVE  /\ items[i] \in ItemRec /\ items \in [Items -> ItemRec]
         /\ i \in Nat /\ dispatch \in Nat /\ Len(batches) \in Nat /\ i <= Len(batches)
         /\ (items[i].at = "todo" <=> i >= dispatch)
         /\ items[i].at \in {"todo", "acquire", "settled"} => items[i].frame = 0
         /\ items[i].at \notin {"drain", "settled"} => items[i].err = "none"
         /\ items[i].at \in AtWork <=> i \in Running
<1>1. Items = 1 .. Len(batches) /\ Len(batches) \in Nat
  BY NeedFacts DEF PoolInv
<1>2. items[i] \in ItemRec /\ items \in [Items -> ItemRec] /\ dispatch \in 1 .. Len(batches) + 1
  BY DEF PoolInv, PoolTypes
<1>3. items[i].at \in {"todo", "acquire", "settled"} => items[i].frame = 0
  BY DEF PoolInv, FrameInv
<1>4. items[i].at \in AtWork <=> i \in Running
  BY DEF Running, At, AtWork
<1> QED BY <1>1, <1>2, <1>3, <1>4 DEF PoolInv, ErrorInv

\* Dispatch keeps the invariant.
LEMMA DispatchKeeps == ASSUME PoolInv, Dispatch PROVE PoolInv'
<1> DEFINE i == dispatch
<1>1. i \in Items /\ dispatch' = dispatch + 1 /\ UNCHANGED <<pool, batches, avail, frames, free, reading, canceled, verdict>>
  BY DEF Dispatch
<1>2. /\ items[i] \in ItemRec /\ items \in [Items -> ItemRec] /\ items[i].at = "todo" /\ items[i].frame = 0
      /\ items[i].err = "none" /\ i \in Nat /\ i <= Len(batches) /\ Len(batches) \in Nat
      /\ \A k \in Items : k \in Nat
  BY <1>1, ItemFacts
<1>3. dispatch' \in 1 .. Len(batches) + 1 /\ ~(i >= dispatch') /\ reading' \subseteq Items
      /\ \A k \in Items : k # i => (k >= dispatch' <=> k >= dispatch)
  BY <1>1, <1>2 DEF PoolInv, PoolTypes
<1>4. i \notin reading'
  BY <1>1, <1>2 DEF PoolInv, FrameInv
<1> DEFINE off == [at |-> "settled", frame |-> 0, err |-> "canceled"]
           on  == [items[i] EXCEPT !.at = IF pool.bulk THEN "acquire" ELSE "fetch"]
<1>5. CASE canceled /\ Settle(i, "canceled")
  <2>1. items' = [items EXCEPT ![i] = off] /\ canceled
    BY <1>5 DEF Settle
  <2>2. /\ off \in ItemRec /\ off.frame = 0 /\ off.at = "settled" /\ off.err = "canceled"
    BY DEF ItemRec, States
  <2> HIDE DEF off, i
  <2>3. off.at \notin AtWork /\ off.at # "todo"
    BY <2>2 DEF AtWork
  <2> QED BY <1>1, <1>2, <1>3, <1>4, <2>1, <2>2, <2>3, QuietKeeps
<1>6. CASE SlotFree /\ Move(i, IF pool.bulk THEN "acquire" ELSE "fetch")
  <2>1. items' = [items EXCEPT ![i] = on] /\ SlotFree
    BY <1>6, <1>1, <1>2 DEF Move
  <2>2. on \in ItemRec /\ on.frame = 0 /\ on.at \in {"acquire", "fetch"} /\ on.err = "none"
    BY <1>2 DEF ItemRec, States
  <2> HIDE DEF on, i
  <2> QED BY <1>1, <1>2, <1>3, <1>4, <2>1, <2>2, QuietKeeps
<1> QED BY <1>5, <1>6 DEF Dispatch

\* A step of an item that only moves it, or ends its requests with an error.
LEMMA ItemMoves ==
  ASSUME PoolInv, NEW i \in Items, NEW r \in ItemRec, items' = [items EXCEPT ![i] = r],
         UNCHANGED <<pool, batches, dispatch, avail, frames, free, canceled, verdict>>,
         items[i].at \in AtWork, r.frame = items[i].frame, r.at # "todo",
         r.frame # 0 => r.at \in {"fetch", "upload", "drain"},
         reading' \subseteq Items, i \in reading' => r.at \in {"upload", "drain"},
         \A k \in reading' : k # i => k \in reading,
         r.at \notin {"drain", "settled"} => r.err = "none", r.err = "canceled" => canceled
  PROVE  PoolInv'
<1>1. i \in Running /\ (items[i].at = "todo" <=> i >= dispatch) /\ items[i].at \notin {"todo", "settled"}
  BY ItemFacts DEF AtWork
<1>2. dispatch' = dispatch /\ dispatch \in 1 .. Len(batches) + 1
  BY DEF PoolInv, PoolTypes
<1> QED BY <1>1, <1>2, QuietKeeps

\* The other steps that leave the frames alone keep the invariant.
LEMMA MovesKeep ==
  ASSUME PoolInv, NEW i \in Items,
         AcquireCanceled(i) \/ FetchBulkChunks(i) \/ UploadAnswered(i) \/ TransportDone(i)
  PROVE  PoolInv'
<1>1. /\ items[i] \in ItemRec /\ items \in [Items -> ItemRec]
      /\ items[i].at \in {"todo", "acquire", "settled"} => items[i].frame = 0
      /\ items[i].at \notin {"drain", "settled"} => items[i].err = "none"
      /\ items[i].err = "canceled" => canceled
  BY ItemFacts DEF PoolInv, ErrorInv
<1>2. reading \subseteq Items /\ \A k \in reading : items[k].at \in {"upload", "drain"}
  BY DEF PoolInv, PoolTypes, FrameInv
<1>3. CASE AcquireCanceled(i)
  <2> DEFINE r == [at |-> "settled", frame |-> 0, err |-> "canceled"]
  <2>1. /\ r \in ItemRec /\ r.at = "settled" /\ r.frame = 0 /\ r.err = "canceled"
        /\ items' = [items EXCEPT ![i] = r]
    BY <1>3 DEF AcquireCanceled, Settle, ItemRec, States
  <2>2. /\ UNCHANGED <<pool, batches, dispatch, avail, frames, free, reading, canceled, verdict>>
        /\ items[i].at = "acquire" /\ canceled
    BY <1>3 DEF AcquireCanceled
  <2> HIDE DEF r
  <2>3. i \notin reading' /\ items[i].at \in AtWork /\ items[i].frame = 0
    BY <1>1, <1>2, <2>2 DEF AtWork
  <2> QED BY <1>2, <2>1, <2>2, <2>3, ItemMoves
<1>4. CASE FetchBulkChunks(i)
  <2>1. /\ UNCHANGED <<pool, batches, dispatch, avail, frames, free, canceled, verdict>>
        /\ items[i].at = "fetch" /\ items[i].at \in AtWork
    BY <1>4 DEF FetchBulkChunks, AtWork
  <2>2. CASE Move(i, "upload") /\ reading' = IF pool.bulk THEN reading \cup {i} ELSE reading
    <3> DEFINE r == [items[i] EXCEPT !.at = "upload"]
    <3>1. /\ r \in ItemRec /\ r.at = "upload" /\ r.frame = items[i].frame /\ r.err = items[i].err
          /\ items' = [items EXCEPT ![i] = r]
      BY <2>2, <1>1 DEF Move, ItemRec, States
    <3> HIDE DEF r
    <3>2. reading' \subseteq Items /\ \A k \in reading' : k # i => k \in reading
      BY <2>2, <1>2
    <3> QED BY <1>1, <2>1, <3>1, <3>2, ItemMoves
  <2>3. CASE \E err \in Errors : items' = [items EXCEPT ![i].at = "drain", ![i].err = err] /\ UNCHANGED reading
    <3>1. PICK err \in Errors : items' = [items EXCEPT ![i].at = "drain", ![i].err = err]
      BY <2>3
    <3> DEFINE r == [items[i] EXCEPT !.at = "drain", !.err = err]
    <3>2. err \in {"failed", "canceled"} /\ (err = "canceled" => canceled)
      BY <3>1 DEF Errors
    <3>3. /\ r \in ItemRec /\ r.at = "drain" /\ r.frame = items[i].frame /\ r.err = err
          /\ items' = [items EXCEPT ![i] = r]
      BY <3>1, <3>2, <1>1 DEF ItemRec, States
    <3> HIDE DEF r
    <3>4. reading' \subseteq Items /\ \A k \in reading' : k # i => k \in reading
      BY <2>3, <1>2
    <3> QED BY <1>1, <2>1, <3>2, <3>3, <3>4, ItemMoves
  <2> QED BY <1>4, <2>2, <2>3 DEF FetchBulkChunks
<1>5. CASE UploadAnswered(i)
  <2>1. /\ UNCHANGED <<pool, batches, dispatch, avail, frames, free, reading, canceled, verdict>>
        /\ items[i].at = "upload" /\ items[i].at \in AtWork
    BY <1>5 DEF UploadAnswered, AtWork
  <2>2. PICK err \in Errors \cup {"none"} : items' = [items EXCEPT ![i].at = "drain", ![i].err = err]
    BY <1>5 DEF UploadAnswered
  <2> DEFINE r == [items[i] EXCEPT !.at = "drain", !.err = err]
  <2>3. err \in {"none", "failed", "canceled"} /\ (err = "canceled" => canceled)
    BY <2>2 DEF Errors
  <2>4. /\ r \in ItemRec /\ r.at = "drain" /\ r.frame = items[i].frame /\ r.err = err
        /\ items' = [items EXCEPT ![i] = r]
    BY <2>2, <2>3, <1>1 DEF ItemRec, States
  <2> HIDE DEF r
  <2>5. reading' \subseteq Items /\ \A k \in reading' : k # i => k \in reading
    BY <2>1, <1>2
  <2> QED BY <1>1, <2>1, <2>3, <2>4, <2>5, ItemMoves
<1>6. CASE TransportDone(i)
  <2> DEFINE r == items[i]
  <2>1. /\ UNCHANGED <<pool, batches, dispatch, items, avail, frames, free, canceled, verdict>>
        /\ i \in reading /\ reading' \subseteq reading
    BY <1>6 DEF TransportDone
  <2>2. r \in ItemRec /\ r.at \in {"upload", "drain"} /\ r.at \in AtWork /\ items' = [items EXCEPT ![i] = r]
    BY <1>1, <1>2, <2>1 DEF AtWork
  <2> QED BY <1>1, <1>2, <2>1, <2>2, ItemMoves
<1> QED BY <1>3, <1>4, <1>5, <1>6

HoldsAreNat ==
  /\ Len(Holds) = Len(batches)
  /\ \A i \in 1 .. Len(batches) : /\ Holds[i] \in Nat
                                  /\ Holds[i] = IF items[i].frame = 0 THEN 0 ELSE Need(i)

\* The same, to be used of the next state too.
LEMMA HoldsNat == PoolTypes => HoldsAreNat
BY HoldsFacts DEF HoldsAreNat

\* What the items hold when one of them takes or returns its part.
LEMMA HoldsAfter ==
  ASSUME PoolTypes, PoolTypes', NEW i \in Items, UNCHANGED <<pool, batches>>, NEW r \in ItemRec,
         items' = [items EXCEPT ![i] = r]
  PROVE  SumOf(Holds') = SumOf(Holds) - (IF items[i].frame = 0 THEN 0 ELSE Need(i))
                                      + (IF r.frame = 0 THEN 0 ELSE Need(i))
<1>0. HoldsAreNat'
  BY HoldsNat, PTL
<1>1. /\ Len(Holds) = Len(batches) /\ Len(Holds') = Len(batches)
      /\ Items = 1 .. Len(batches) /\ Len(batches) \in Nat /\ batches' = batches /\ pool' = pool
  BY <1>0, HoldsFacts, NeedFacts DEF HoldsAreNat
<1>2. \A k \in Items : Need(k)' = Need(k)
  BY <1>1 DEF Need, FrameSize
<1>3. \A k \in Items : /\ Holds[k] \in Nat /\ Holds'[k] \in Nat
                       /\ Holds[k] = IF items[k].frame = 0 THEN 0 ELSE Need(k)
                       /\ Holds'[k] = IF items'[k].frame = 0 THEN 0 ELSE Need(k)
  BY <1>0, <1>1, <1>2, HoldsFacts DEF HoldsAreNat
<1>4. \A k \in Items : items'[k] = IF k = i THEN r ELSE items[k]
  BY DEF PoolTypes
<1>5. \A k \in Items : k # i => Holds'[k] = Holds[k]
  BY <1>3, <1>4
<1>6. SumTo(Holds', Len(batches)) = SumTo(Holds, Len(batches)) - Holds[i] + Holds'[i]
  BY <1>1, <1>3, <1>5, SumChange
<1>7. Holds'[i] = IF r.frame = 0 THEN 0 ELSE Need(i)
  BY <1>3, <1>4
<1> QED BY <1>1, <1>3, <1>6, <1>7 DEF SumOf

\* A frame for item i, new or taken from the free list: nobody else holds it.
LEMMA FrameTaken ==
  ASSUME PoolInv, NEW i \in Items, Acquire(i)
  PROVE  \E f \in 1 .. Len(frames'), cap \in Nat :
           /\ items' = [items EXCEPT ![i].at = "fetch", ![i].frame = f]
           /\ frames' \in Seq([of : Nat, cap : Nat]) /\ Len(frames) \in Nat /\ Len(frames') >= Len(frames)
           /\ frames'[f] = [of |-> i, cap |-> cap]
           /\ \A g \in 1 .. Len(frames) : g # f => frames'[g] = frames[g]
           /\ free' \in Seq(1 .. Len(frames')) /\ DOMAIN free' \subseteq DOMAIN free
           /\ \A n \in DOMAIN free' : free'[n] = free[n] /\ free[n] # f
           /\ \A k \in Items : items[k].frame # f
<1> DEFINE L == Len(frames)
           pop == free # <<>>
           top == free[Len(free)]
           old == pop /\ frames[top].cap >= FrameSize(i)
           f   == IF old THEN top ELSE L + 1
           cap == IF old THEN frames[top].cap ELSE Max({pool.frameCap, FrameSize(i)})
           m   == Max({f, L})
<1>1. /\ free' = IF pop THEN SubSeq(free, 1, Len(free) - 1) ELSE free
      /\ frames' = [g \in 1 .. m |-> IF g = f THEN [of |-> i, cap |-> cap] ELSE frames[g]]
      /\ items' = [items EXCEPT ![i].at = "fetch", ![i].frame = f]
  BY DEF Acquire
<1>2. /\ L \in Nat /\ frames \in Seq([of : Nat, cap : Nat]) /\ free \in Seq(1 .. L)
      /\ pool.frameCap \in Nat /\ FrameSize(i) \in Nat /\ i \in Nat
  BY PoolFacts, NeedFacts DEF PoolInv, PoolTypes
<1>3. pop => top \in 1 .. L /\ Len(free) \in Nat \ {0}
  BY <1>2, PopFree
<1> DEFINE R == [of : Nat, cap : Nat]
<1>4. \A g \in 1 .. L : frames[g] \in R
  <2> HIDE DEF R
  <2>1. frames \in Seq(R)
    BY <1>2 DEF R
  <2> QED BY <2>1
<1>4a. \A j, k \in Int : Max({j, k}) = IF j >= k THEN j ELSE k
  BY MaxOfTwo
<1> HIDE DEF L
<1>5. cap \in Nat
  <2>1. old => cap \in Nat
    BY <1>3, <1>4
  <2>2. Max({pool.frameCap, FrameSize(i)}) \in Nat
    BY <1>2, <1>4a
  <2> QED BY <2>1, <2>2
<1>6. f \in 1 .. L + 1
  BY <1>2, <1>3
<1> HIDE DEF cap
<1>7. m \in Nat /\ m >= L /\ f \in 1 .. m /\ (m = L \/ m = f)
  <2> HIDE DEF f
  <2>1. m = IF f >= L THEN f ELSE L
    <3>1. f \in Int /\ L \in Int
      BY <1>2, <1>6
    <3> QED BY <3>1, <1>4a
  <2> QED BY <2>1, <1>2, <1>6
<1> HIDE DEF m
<1>8. \A k \in Items : items[k].frame # f
  <2> SUFFICES ASSUME NEW k \in Items PROVE items[k].frame # f
    OBVIOUS
  <2>1. items[k].frame # 0 => items[k].frame \in 1 .. L /\ \A n \in DOMAIN free : free[n] # items[k].frame
    BY DEF PoolInv, FrameInv, L
  <2>2. items[k].frame \in Nat
    BY DEF PoolInv, PoolTypes, ItemRec
  <2>3. CASE old
    <3>1. Len(free) \in DOMAIN free /\ f = free[Len(free)] /\ f # 0
      BY <2>3, <1>2, <1>3, <1>6
    <3> QED BY <3>1, <2>1
  <2>4. CASE ~old
    <3>1. f = L + 1
      BY <2>4
    <3> HIDE DEF f
    <3> QED BY <3>1, <2>1, <2>2, <1>2
  <2> QED BY <2>3, <2>4
<1>9. /\ free' \in Seq(1 .. L) /\ DOMAIN free' \subseteq DOMAIN free
      /\ \A n \in DOMAIN free' : free'[n] = free[n] /\ free[n] # f
  <2>0. \A n \in DOMAIN free : free[n] \in 1 .. L /\ n \in 1 .. Len(free) /\ Len(free) \in Nat
    BY <1>2
  <2>1. CASE pop
    <3>1. /\ free' \in Seq(1 .. L) /\ DOMAIN free' = 1 .. Len(free) - 1
          /\ \A n \in 1 .. Len(free) - 1 : free'[n] = free[n]
      BY <2>1, <1>1, <1>2, PopFree
    <3>2. DOMAIN free = 1 .. Len(free) /\ Len(free) \in Nat \ {0}
      BY <2>1, <1>2, <1>3
    <3>3. DOMAIN free' \subseteq DOMAIN free
      BY <3>1, <3>2
    <3>4. ASSUME NEW n \in 1 .. Len(free) - 1 PROVE free[n] # f
      <4>1. n \in DOMAIN free /\ Len(free) \in DOMAIN free /\ n # Len(free)
        <5>1. n \in 1 .. Len(free) /\ Len(free) \in 1 .. Len(free) /\ n # Len(free)
          BY <3>4, <1>3, <2>1
        <5> QED BY <5>1, <3>2
      <4>2. free[n] # free[Len(free)]
        BY <4>1 DEF PoolInv, FrameInv
      <4>3. free[n] # L + 1
        BY <4>1, <2>0, <1>2
      <4> QED BY <4>2, <4>3
    <3> QED BY <3>1, <3>3, <3>4
  <2>2. CASE ~pop
    <3>1. free' = <<>> /\ free = <<>>
      BY <2>2, <1>1
    <3> QED BY <3>1
  <2> QED BY <2>1, <2>2
<1> HIDE DEF f
<1>10. /\ DOMAIN frames' = 1 .. m /\ frames'[f] = [of |-> i, cap |-> cap]
       /\ \A g \in 1 .. m : g # f => frames'[g] = frames[g]
  BY <1>1, <1>7
<1>11. \A g \in 1 .. m : frames'[g] \in [of : Nat, cap : Nat]
  <2> SUFFICES ASSUME NEW g \in 1 .. m PROVE frames'[g] \in [of : Nat, cap : Nat]
    OBVIOUS
  <2>1. CASE g = f
    BY <2>1, <1>10, <1>5, <1>2
  <2>2. CASE g # f
    <3>0. L \in Int /\ f \in Int /\ f <= L + 1 /\ (m = L \/ m = f)
      BY <1>2, <1>6, <1>7
    <3>1. g \in 1 .. L
      BY <3>0, <2>2
    <3> QED BY <3>1, <2>2, <1>10, <1>4 DEF R
  <2> QED BY <2>1, <2>2
<1>12. frames' \in Seq([of : Nat, cap : Nat]) /\ Len(frames') = m
  <2>1. frames' \in [1 .. m -> [of : Nat, cap : Nat]]
    <3>1. frames' = [g \in 1 .. m |-> frames'[g]]
      BY <1>1, <1>10
    <3> QED BY <3>1, <1>11
  <2> QED BY <2>1, <1>7, IsSeq
<1>13. free' \in Seq(1 .. Len(frames'))
  <2>1. 1 .. L \subseteq 1 .. m
    BY <1>2, <1>7
  <2>2. free' \in Seq(1 .. m)
    <3>1. \A n \in DOMAIN free' : free'[n] \in 1 .. L
      BY <1>9, SeqAt
    <3> QED BY <2>1, <3>1, <1>9, SeqIn
  <2> QED BY <2>2, <1>12
<1>14. \A g \in 1 .. L : g # f => frames'[g] = frames[g]
  <2>1. 1 .. L \subseteq 1 .. m
    BY <1>2, <1>7
  <2> QED BY <2>1, <1>10
<1> QED BY <1>1, <1>2, <1>5, <1>7, <1>8, <1>9, <1>10, <1>12, <1>13, <1>14 DEF L

\* Acquire keeps the invariant.
LEMMA AcquireKeeps == ASSUME PoolInv, NEW i \in Items, Acquire(i) PROVE PoolInv'
<1>1. PICK f \in 1 .. Len(frames'), cap \in Nat :
           /\ items' = [items EXCEPT ![i].at = "fetch", ![i].frame = f]
           /\ frames' \in Seq([of : Nat, cap : Nat]) /\ Len(frames) \in Nat /\ Len(frames') >= Len(frames)
           /\ frames'[f] = [of |-> i, cap |-> cap]
           /\ \A g \in 1 .. Len(frames) : g # f => frames'[g] = frames[g]
           /\ free' \in Seq(1 .. Len(frames')) /\ DOMAIN free' \subseteq DOMAIN free
           /\ \A n \in DOMAIN free' : free'[n] = free[n] /\ free[n] # f
           /\ \A k \in Items : items[k].frame # f
  BY FrameTaken
<1> DEFINE r == [items[i] EXCEPT !.at = "fetch", !.frame = f]
<1>2. /\ items[i] \in ItemRec /\ items[i].at = "acquire" /\ items[i].frame = 0 /\ items[i].err = "none"
      /\ i \in Running /\ i \in Nat /\ (items[i].at = "todo" <=> i >= dispatch)
  BY ItemFacts DEF Acquire, AtWork
<1>3. Len(frames') \in Nat /\ f \in Nat \ {0}
  BY <1>1
<1>4. r \in ItemRec /\ r.at = "fetch" /\ r.frame = f /\ r.err = "none" /\ items' = [items EXCEPT ![i] = r]
  BY <1>1, <1>2, <1>3 DEF ItemRec, States, PoolInv, PoolTypes
<1> HIDE DEF r
<1>5. /\ Items' = Items /\ UNCHANGED <<pool, batches, dispatch, reading, canceled, verdict>>
      /\ avail' = avail - Need(i) /\ avail >= Need(i)
  BY DEF Items, Acquire
<1>6. items' \in [Items -> ItemRec] /\ items'[i] = r /\ \A k \in Items : k # i => items'[k] = items[k]
  BY <1>4 DEF PoolInv, PoolTypes
<1>7. Need(i) \in Nat \ {0} /\ avail \in Nat
  BY NeedFacts DEF PoolInv, PoolTypes
<1>8. PoolTypes'
  <2>1. avail' \in Nat
    BY <1>5, <1>7
  <2> QED BY <1>1, <1>5, <1>6, <2>1 DEF PoolInv, PoolTypes
<1>9. FrameInv'
  <2>1. ASSUME NEW k \in Items, items'[k].frame # 0
        PROVE  /\ items'[k].at \in {"fetch", "upload", "drain"}
               /\ items'[k].frame \in 1 .. Len(frames') /\ frames'[items'[k].frame].of = k
               /\ \A n \in DOMAIN free' : free'[n] # items'[k].frame
    <3>1. CASE k = i
      BY <3>1, <1>1, <1>4, <1>6
    <3>2. CASE k # i
      <4>1. /\ items[k].at \in {"fetch", "upload", "drain"}
            /\ items[k].frame \in 1 .. Len(frames) /\ frames[items[k].frame].of = k
            /\ \A n \in DOMAIN free : free[n] # items[k].frame
        BY <2>1, <3>2, <1>6 DEF PoolInv, FrameInv
      <4>2. items[k].frame # f /\ items[k].frame \in 1 .. Len(frames')
        BY <4>1, <1>1, <1>3
      <4> QED BY <4>1, <4>2, <3>2, <1>1, <1>6
    <3> QED BY <3>1, <3>2
  <2>2. \A m, n \in DOMAIN free' : free'[m] = free'[n] => m = n
    BY <1>1 DEF PoolInv, FrameInv
  <2>3. \A k \in reading' : items'[k].at \in {"upload", "drain"}
    BY <1>2, <1>5, <1>6 DEF PoolInv, FrameInv, PoolTypes
  <2> QED BY <1>5, <2>1, <2>2, <2>3 DEF FrameInv
<1>10. ErrorInv'
  <2>1. \A k \in Items : k >= dispatch' <=> items'[k].at = "todo"
    BY <1>2, <1>4, <1>5, <1>6 DEF PoolInv, ErrorInv
  <2>2. \A k \in Items : items'[k].at \notin {"drain", "settled"} => items'[k].err = "none"
    BY <1>4, <1>6 DEF PoolInv, ErrorInv
  <2>3. \A k \in Items : items'[k].err = "canceled" => canceled
    BY <1>4, <1>6 DEF PoolInv, ErrorInv
  <2>4. ~canceled
    BY DEF Acquire
  <2> QED BY <1>5, <2>1, <2>2, <2>3, <2>4 DEF ErrorInv
<1>11. VerdictInv'
  BY <1>2, <1>5, StillWorking DEF VerdictInv
<1>12. SlotInv'
  BY <1>2, <1>4, <1>5, RunningAfter DEF PoolInv
<1>13. BudgetKept'
  <2>1. SumOf(Holds') = SumOf(Holds) - 0 + Need(i)
    <3>1. SumOf(Holds') = SumOf(Holds) - (IF items[i].frame = 0 THEN 0 ELSE Need(i))
                                      + (IF r.frame = 0 THEN 0 ELSE Need(i))
      BY <1>4, <1>5, <1>8, HoldsAfter DEF PoolInv
    <3> QED BY <3>1, <1>2, <1>3, <1>4
  <2>2. SumOf(Holds) \in Nat /\ avail + SumOf(Holds) = pool.budget
    <3>1. SumTo(Holds, Len(batches)) \in Nat
      BY HoldsFacts, NeedFacts, SumIsNat DEF PoolInv
    <3> QED BY <3>1, HoldsFacts DEF SumOf, PoolInv, BudgetKept
  <2>3. avail' + SumOf(Holds') = pool'.budget
    BY <1>5, <1>7, <2>1, <2>2
  <2> QED BY <2>3 DEF BudgetKept, SumOf
<1>14. BatchesFit'
  BY <1>5 DEF BatchesFit, PoolInv
<1> QED BY <1>8, <1>9, <1>10, <1>11, <1>12, <1>13, <1>14 DEF PoolInv

\* Finish keeps the invariant.
LEMMA FinishKeeps == ASSUME PoolInv, NEW i \in Items, Finish(i) PROVE PoolInv'
<1> DEFINE r == [at |-> "settled", frame |-> 0, err |-> items[i].err]
           f == items[i].frame
<1>1. /\ items[i] \in ItemRec /\ items \in [Items -> ItemRec] /\ items[i].at = "drain" /\ i \in Running
      /\ (items[i].at = "todo" <=> i >= dispatch) /\ i \notin reading
  BY ItemFacts DEF Finish, AtWork, BodyClosed
<1>2. r \in ItemRec /\ r.at = "settled" /\ r.frame = 0 /\ r.err = items[i].err /\ items' = [items EXCEPT ![i] = r]
  BY <1>1 DEF Finish, Settle, ItemRec, States
<1> HIDE DEF r
<1>3. /\ Items' = Items /\ UNCHANGED <<pool, batches, dispatch, frames, reading, verdict>>
      /\ canceled' = (canceled \/ (items[i].err # "none" /\ pool.cancelOnError))
      /\ f = 0 => free' = free /\ avail' = avail
      /\ f # 0 => (free' = IF Recycled(f) THEN Append(free, f) ELSE free) /\ avail' = avail + Need(i)
  BY DEF Items, Finish
<1>4. items' \in [Items -> ItemRec] /\ items'[i] = r /\ \A k \in Items : k # i => items'[k] = items[k]
  BY <1>1, <1>2
<1>5. /\ Need(i) \in Nat /\ avail \in Nat /\ free \in Seq(1 .. Len(frames)) /\ f \in Nat
      /\ f # 0 => f \in 1 .. Len(frames) /\ frames[f].of = i /\ \A n \in DOMAIN free : free[n] # f
  BY <1>1, NeedFacts DEF PoolInv, PoolTypes, FrameInv, ItemRec
<1>6. avail' = avail + (IF f = 0 THEN 0 ELSE Need(i)) /\ avail' \in Nat
  BY <1>3, <1>5
<1> DEFINE Grown == /\ free' \in Seq(1 .. Len(frames))
                    /\ \A n \in DOMAIN free' : (n \in DOMAIN free /\ free'[n] = free[n]) \/ (f # 0 /\ free'[n] = f)
                    /\ \A m, n \in DOMAIN free' : free'[m] = free'[n] => m = n
<1>8. Grown
  <2>1. \A m, n \in DOMAIN free : free[m] = free[n] => m = n
    BY DEF PoolInv, FrameInv
  <2>2. CASE f # 0 /\ Recycled(f)
    <3> DEFINE more == Append(free, f)
               top  == Len(free) + 1
    <3>1. free' = more
      BY <1>3, <2>2
    <3>2. /\ more \in Seq(1 .. Len(frames)) /\ DOMAIN more = 1 .. top /\ DOMAIN free = 1 .. Len(free)
          /\ Len(free) \in Nat /\ more[top] = f /\ \A n \in 1 .. Len(free) : more[n] = free[n]
      BY <1>5, <2>2
    <3> HIDE DEF more
    <3>3. \A n \in DOMAIN more : n = top \/ n \in DOMAIN free
      BY <3>2
    <3>4. \A n \in DOMAIN free : free[n] # f
      BY <1>5, <2>2
    <3>5. \A n \in DOMAIN more : (n \in DOMAIN free /\ more[n] = free[n]) \/ more[n] = f
      BY <3>2, <3>3
    <3>6. \A m, n \in DOMAIN more : more[m] = more[n] => m = n
      <4> SUFFICES ASSUME NEW m \in DOMAIN more, NEW n \in DOMAIN more, more[m] = more[n] PROVE m = n
        OBVIOUS
      <4>1. CASE m = top
        <5>1. n \notin DOMAIN free
          BY <4>1, <3>2, <3>4
        <5> QED BY <5>1, <4>1, <3>3
      <4>2. CASE n = top
        <5>1. m \notin DOMAIN free
          BY <4>2, <3>2, <3>4
        <5> QED BY <5>1, <4>2, <3>3
      <4>3. CASE m \in DOMAIN free /\ n \in DOMAIN free
        BY <4>3, <3>2, <2>1
      <4> QED BY <4>1, <4>2, <4>3, <3>3
    <3> QED BY <3>1, <3>2, <3>5, <3>6, <2>2
  <2>3. CASE ~(f # 0 /\ Recycled(f))
    <3>1. free' = free /\ free' \in Seq(1 .. Len(frames))
      BY <1>3, <1>5, <2>3
    <3>2. \A n \in DOMAIN free' : n \in DOMAIN free /\ free'[n] = free[n]
      BY <3>1
    <3>3. \A m, n \in DOMAIN free' : free'[m] = free'[n] => m = n
      BY <3>1, <2>1
    <3> QED BY <3>1, <3>2, <3>3
  <2> QED BY <2>2, <2>3
<1> HIDE DEF f
<1>9. PoolTypes'
  <2>1. canceled' \in BOOLEAN
    BY <1>3
  <2> QED BY <1>3, <1>4, <1>6, <1>8, <2>1 DEF PoolInv, PoolTypes
<1>10. FrameInv'
  <2>1. ASSUME NEW k \in Items, items'[k].frame # 0
        PROVE  /\ items'[k].at \in {"fetch", "upload", "drain"}
               /\ items'[k].frame \in 1 .. Len(frames') /\ frames'[items'[k].frame].of = k
               /\ \A n \in DOMAIN free' : free'[n] # items'[k].frame
    <3>1. k # i /\ items'[k] = items[k]
      BY <2>1, <1>2, <1>4
    <3>2. /\ items[k].at \in {"fetch", "upload", "drain"}
          /\ items[k].frame \in 1 .. Len(frames) /\ frames[items[k].frame].of = k
          /\ \A n \in DOMAIN free : free[n] # items[k].frame
      BY <2>1, <3>1 DEF PoolInv, FrameInv
    <3>3. f # 0 => items[k].frame # f
      BY <3>1, <3>2, <1>5
    <3> QED BY <3>1, <3>2, <3>3, <1>3, <1>8
  <2>2. \A m, n \in DOMAIN free' : free'[m] = free'[n] => m = n
    BY <1>8
  <2>3. \A k \in reading' : items'[k].at \in {"upload", "drain"}
    BY <1>1, <1>3, <1>4 DEF PoolInv, FrameInv, PoolTypes
  <2> QED BY <1>3, <2>1, <2>2, <2>3 DEF FrameInv
<1>11. ErrorInv'
  <2>1. \A k \in Items : k >= dispatch' <=> items'[k].at = "todo"
    BY <1>1, <1>2, <1>3, <1>4 DEF PoolInv, ErrorInv
  <2>2. \A k \in Items : items'[k].at \notin {"drain", "settled"} => items'[k].err = "none"
    BY <1>2, <1>4 DEF PoolInv, ErrorInv
  <2>3. \A k \in Items : items'[k].err = "canceled" => canceled
    BY <1>2, <1>4 DEF PoolInv, ErrorInv
  <2>4. canceled => \E k \in Items : items'[k].at = "settled" /\ items'[k].err = "failed"
    <3> SUFFICES ASSUME canceled PROVE \E k \in Items : items'[k].at = "settled" /\ items'[k].err = "failed"
      OBVIOUS
    <3>1. PICK k \in Items : items[k].at = "settled" /\ items[k].err = "failed"
      BY DEF PoolInv, ErrorInv
    <3> QED BY <3>1, <1>1, <1>4
  <2>5. items[i].err = "failed" => \E k \in Items : items'[k].at = "settled" /\ items'[k].err = "failed"
    BY <1>2, <1>4
  <2>6. items[i].err \in {"none", "failed", "canceled"} /\ (items[i].err = "canceled" => canceled)
    BY <1>1 DEF PoolInv, ErrorInv, ItemRec
  <2>7. canceled' => \E k \in Items : items'[k].at = "settled" /\ items'[k].err = "failed"
    BY <1>3, <2>4, <2>5, <2>6
  <2> QED BY <1>3, <2>1, <2>2, <2>3, <2>7 DEF ErrorInv
<1>12. VerdictInv'
  BY <1>1, <1>3, StillWorking DEF VerdictInv
<1>13. SlotInv'
  BY <1>1, <1>2, <1>3, RunningAfter DEF PoolInv
<1>14. BudgetKept'
  <2>1. SumOf(Holds') = SumOf(Holds) - (IF f = 0 THEN 0 ELSE Need(i)) + 0
    <3>1. SumOf(Holds') = SumOf(Holds) - (IF items[i].frame = 0 THEN 0 ELSE Need(i))
                                      + (IF r.frame = 0 THEN 0 ELSE Need(i))
      BY <1>2, <1>3, <1>9, HoldsAfter DEF PoolInv
    <3> QED BY <3>1, <1>2 DEF f
  <2>2. SumOf(Holds) \in Nat /\ avail + SumOf(Holds) = pool.budget
    <3>1. SumTo(Holds, Len(batches)) \in Nat
      BY HoldsFacts, NeedFacts, SumIsNat DEF PoolInv
    <3> QED BY <3>1, HoldsFacts DEF SumOf, PoolInv, BudgetKept
  <2>3. avail' + SumOf(Holds') = pool'.budget
    BY <1>3, <1>5, <1>6, <2>1, <2>2
  <2> QED BY <2>3 DEF BudgetKept, SumOf
<1>15. BatchesFit'
  BY <1>3 DEF BatchesFit, PoolInv
<1> QED BY <1>9, <1>10, <1>11, <1>12, <1>13, <1>14, <1>15 DEF PoolInv

\* Return, and a step of another component, keep the invariant.
LEMMA ReturnKeeps == ASSUME PoolInv, Return PROVE PoolInv'
<1>1. /\ UNCHANGED <<pool, batches, dispatch, items, avail, frames, free, reading, canceled>>
      /\ verdict' = FirstTransferError /\ dispatch \notin Items /\ Running = {}
  BY DEF Return, NoneRunning
<1>2. Items' = Items /\ Running' = Running /\ FirstTransferError' = FirstTransferError
  BY <1>1 DEF Items, Running, At, FirstTransferError, FirstOfAny
<1>3. PoolTypes' /\ FrameInv' /\ ErrorInv' /\ SlotInv'
  BY <1>1, <1>2 DEF PoolInv, PoolTypes, FrameInv, ErrorInv, SlotInv
<1>4. VerdictInv'
  BY <1>1, <1>2 DEF VerdictInv
<1>5. Holds' = Holds
  BY <1>1, <1>2 DEF Holds, Need, FrameSize
<1>6. BudgetKept' /\ BatchesFit'
  BY <1>1, <1>5 DEF BudgetKept, BatchesFit, PoolInv
<1> QED BY <1>3, <1>4, <1>6 DEF PoolInv

\* The invariant holds initially.
LEMMA PoolStart == PoolInit => PoolInv
<1> SUFFICES ASSUME PoolInit PROVE PoolInv
  OBVIOUS
<1>1. /\ pool \in PoolInstances /\ dispatch = 1 /\ avail = pool.budget /\ frames = <<>> /\ free = <<>>
      /\ reading = {} /\ canceled = FALSE /\ verdict = -1
      /\ items = [i \in Items |-> [at |-> "todo", frame |-> 0, err |-> "none"]]
  BY DEF PoolInit
<1>2. pool.lengths \in Lengths /\ pool.budget \in Nat \ {0} /\ pool.workers \in Nat \ {0} /\ pool.bulk \in BOOLEAN
  BY <1>1, PoolFacts
<1>3. Cut(batches, pool, Len(pool.lengths)) /\ (pool.bulk => Bounded(batches, pool))
  <2>1. CASE pool.bulk
    BY <2>1, <1>1, <1>2, PlanFits, PoolFacts DEF PoolInit
  <2>2. CASE ~pool.bulk
    BY <2>2, <1>2, SinglesFit DEF PoolInit
  <2> QED BY <2>1, <2>2
<1>4. batches \in Seq(Lengths) /\ Items = 1 .. Len(batches) /\ Len(batches) \in Nat
  BY <1>3 DEF Cut, Items
<1>5. BatchesFit
  <2>1. Len(Sizes(batches)) = Len(batches)
    BY <1>4 DEF Sizes
  <2> QED BY <1>3, <2>1 DEF Cut, Bounded, Within, Closed, BatchesFit, Sizes, SumOf
<1>6. \A i \in Items : items[i].at = "todo" /\ items[i].frame = 0 /\ items[i].err = "none"
  BY <1>1
<1>7. PoolTypes
  <2>1. items \in [Items -> ItemRec]
    BY <1>1 DEF ItemRec, States
  <2>2. free \in Seq(1 .. Len(frames)) /\ frames \in Seq([of : Nat, cap : Nat])
    BY <1>1
  <2>3. dispatch \in 1 .. Len(batches) + 1
    BY <1>1, <1>4
  <2>4. avail \in Nat /\ reading \subseteq Items /\ canceled \in BOOLEAN
    BY <1>1, <1>2
  <2> QED BY <1>1, <1>4, <2>1, <2>2, <2>3, <2>4 DEF PoolTypes
<1>8. FrameInv /\ ErrorInv /\ VerdictInv
  BY <1>1, <1>4, <1>6 DEF FrameInv, ErrorInv, VerdictInv
<1>9. SlotInv
  <2>1. Running = {}
    BY <1>6 DEF Running, At
  <2> QED BY <2>1, <1>2, FS_EmptySet DEF SlotInv
<1>10. BudgetKept
  <2>1. Len(Holds) = Len(batches) /\ \A i \in 1 .. Len(batches) : Holds[i] = 0
    BY <1>4, <1>6, <1>7, HoldsFacts
  <2> DEFINE T == {n \in Nat : n <= Len(batches) => SumTo(Holds, n) = 0}
  <2>2. 0 \in T
    BY SumOfNone
  <2>3. ASSUME NEW n \in T PROVE n + 1 \in T
    <3> SUFFICES ASSUME n + 1 <= Len(batches) PROVE SumTo(Holds, n + 1) = 0
      OBVIOUS
    <3>1. n \in Nat /\ SumTo(Holds, n) = 0 /\ Holds[n + 1] = 0
      BY <1>4, <2>1, <2>3
    <3>2. SumTo(Holds, n + 1) = SumTo(Holds, n) + Holds[n + 1]
      BY <3>1, SumNext
    <3> QED BY <3>1, <3>2
  <2>4. T = Nat
    <3> HIDE DEF T
    <3>1. T \in SUBSET Nat
      BY DEF T
    <3> QED BY <2>2, <2>3, <3>1, NatSetInduction
  <2>5. SumOf(Holds) = 0
    BY <1>4, <2>1, <2>4 DEF SumOf
  <2> QED BY <1>1, <1>2, <2>5 DEF BudgetKept
<1> QED BY <1>5, <1>7, <1>8, <1>9, <1>10 DEF PoolInv

\* Every step keeps the invariant.
LEMMA PoolKeeps == PoolInv /\ [PoolNext]_poolVars => PoolInv'
<1> SUFFICES ASSUME PoolInv, [PoolNext]_poolVars PROVE PoolInv'
  OBVIOUS
<1>1. CASE Dispatch
  BY <1>1, DispatchKeeps
<1>2. CASE Return
  BY <1>2, ReturnKeeps
<1>3. CASE \E i \in Items : ItemStep(i)
  <2>1. PICK i \in Items : ItemStep(i)
    BY <1>3
  <2> QED BY <2>1, AcquireKeeps, MovesKeep, FinishKeeps DEF ItemStep
<1>4. CASE UNCHANGED poolVars
  <2>1. UNCHANGED <<pool, batches, dispatch, items, avail, frames, free, reading, canceled, verdict>>
    BY <1>4 DEF poolVars
  <2>2. Items' = Items /\ Running' = Running /\ FirstTransferError' = FirstTransferError
    BY <2>1 DEF Items, Running, At, FirstTransferError, FirstOfAny
  <2>3. PoolTypes' /\ FrameInv' /\ ErrorInv' /\ SlotInv' /\ VerdictInv'
    BY <2>1, <2>2 DEF PoolInv, PoolTypes, FrameInv, ErrorInv, SlotInv, VerdictInv
  <2>4. Holds' = Holds
    BY <2>1, <2>2 DEF Holds, Need, FrameSize
  <2>5. BudgetKept' /\ BatchesFit'
    BY <2>1, <2>4 DEF BudgetKept, BatchesFit, PoolInv
  <2> QED BY <2>3, <2>5 DEF PoolInv
<1> QED BY <1>1, <1>2, <1>3, <1>4 DEF PoolNext

\* What the pool returns is honest.
LEMMA HonestInv == ASSUME PoolInv PROVE VerdictIsHonest
<1> SUFFICES ASSUME verdict # -1 PROVE
      /\ Running = {} /\ reading = {} /\ dispatch = Len(batches) + 1
      /\ \A i \in Items : items[i].at = "settled"
      /\ IF verdict = 0 THEN \A i \in Items : items[i].err = "none"
         ELSE items[verdict].err = "failed" /\ \A i \in 1 .. verdict - 1 : items[i].err # "failed"
  BY DEF VerdictIsHonest
<1>1. Running = {} /\ dispatch \notin Items /\ verdict = FirstTransferError
  BY DEF PoolInv, VerdictInv
<1>2. Items = 1 .. Len(batches) /\ Len(batches) \in Nat /\ dispatch \in 1 .. Len(batches) + 1
  BY NeedFacts DEF PoolInv, PoolTypes
<1>3. dispatch = Len(batches) + 1
  BY <1>1, <1>2
<1>4. \A i \in Items : items[i].at = "settled"
  <2> SUFFICES ASSUME NEW i \in Items PROVE items[i].at = "settled"
    OBVIOUS
  <2>1. ~(i >= dispatch)
    BY <1>2, <1>3
  <2>2. items[i].at \in States /\ items[i].at # "todo"
    BY <2>1 DEF PoolInv, PoolTypes, ErrorInv, ItemRec
  <2>3. items[i].at \notin AtWork
    BY <1>1 DEF Running, At, AtWork
  <2> QED BY <2>2, <2>3 DEF States, AtWork
<1>5. reading = {}
  BY <1>4 DEF PoolInv, PoolTypes, FrameInv
<1> DEFINE failed == {i \in Items : items[i].err = "failed"}
           any    == {i \in Items : items[i].err # "none"}
<1>6. verdict = IF failed # {} THEN Min(failed) ELSE FirstOfAny(any)
  BY <1>1 DEF FirstTransferError
<1>7. failed \in SUBSET Nat /\ any \in SUBSET Nat /\ 0 \notin failed
  BY <1>2
<1>8. \A i \in Items : items[i].err \in {"none", "failed", "canceled"}
  BY DEF PoolInv, PoolTypes, ItemRec
<1>9. any # {} => failed # {}
  BY <1>8 DEF PoolInv, ErrorInv
<1>10. CASE failed # {}
  <2>1. verdict \in failed /\ \A j \in failed : verdict <= j
    BY <1>6, <1>7, <1>10, LeastIs
  <2>2. verdict \in Items /\ items[verdict].err = "failed" /\ verdict # 0
    BY <2>1, <1>7
  <2>3. \A i \in 1 .. verdict - 1 : items[i].err # "failed"
    <3> SUFFICES ASSUME NEW i \in 1 .. verdict - 1, items[i].err = "failed" PROVE FALSE
      OBVIOUS
    <3>1. i \in Items /\ ~(verdict <= i)
      BY <2>2, <1>2
    <3> QED BY <3>1, <2>1
  <2> QED BY <2>2, <2>3, <1>1, <1>3, <1>4, <1>5
<1>11. CASE failed = {}
  <2>1. any = {} /\ verdict = 0
    BY <1>6, <1>9, <1>11 DEF FirstOfAny
  <2> QED BY <2>1, <1>1, <1>3, <1>4, <1>5
<1> QED BY <1>10, <1>11

\* Frames are not shared.
LEMMA NotSharedInv == ASSUME PoolInv PROVE FramesNotShared
<1>1. reading \subseteq Items /\ \A i \in Items : items[i].frame \in Nat
  BY DEF PoolInv, PoolTypes, ItemRec
<1>2. \A i \in Items : items[i].frame # 0 =>
        /\ items[i].frame \in 1 .. Len(frames) /\ frames[items[i].frame].of = i
        /\ \A n \in DOMAIN free : free[n] # items[i].frame
  BY DEF PoolInv, FrameInv
<1>3. \A n \in DOMAIN free : free[n] # 0
  <2>1. free \in Seq(1 .. Len(frames)) /\ Len(frames) \in Nat
    BY DEF PoolInv, PoolTypes
  <2>2. \A n \in DOMAIN free : free[n] \in 1 .. Len(frames)
    BY <2>1, SeqAt
  <2> QED BY <2>1, <2>2
<1> QED BY <1>1, <1>2, <1>3 DEF FramesNotShared

\* The inductive invariant of the pool.
LEMMA PoolAlways == PoolSpec => []PoolInv
BY PoolStart, PoolKeeps, PTL DEF PoolSpec

\* For every instance - any chunk lengths, batch bounds, workers, budget and
\* free list - and every order of failures, cancellations and late reads by
\* the transport: a frame belongs to one batch until its body is closed, the
\* budget is accounted for to the byte, planBulkBatches cuts the chunks into
\* batches within the bounds and none smaller than it must be, and the pool
\* returns when nothing runs, with the first item that itself failed.
THEOREM TransfersAreSafe == PoolSpec => []PoolSafe
<1>1. PoolInv => PoolSafe
  BY NotSharedInv, HonestInv DEF PoolSafe, PoolInv
<1> QED BY <1>1, PoolAlways, PTL

\* Types of Transfer, with the bound on the goroutines at work and the budget
\* that is never overdrawn.
THEOREM TransferTypesHold == PoolSpec => []PoolTypeOK
<1>1. PoolInv => PoolTypeOK
  <2> SUFFICES ASSUME PoolInv PROVE PoolTypeOK
    OBVIOUS
  <2>1. avail \in 0 .. pool.budget
    <3>1. SumTo(Holds, Len(batches)) \in Nat
      BY HoldsFacts, NeedFacts, SumIsNat DEF PoolInv
    <3>2. SumOf(Holds) \in Nat
      BY <3>1, HoldsFacts DEF SumOf, PoolInv
    <3> QED BY <3>2 DEF PoolInv, PoolTypes, BudgetKept
  <2>2. \A i \in Items : items[i].frame \in 0 .. Len(frames)
    <3>1. Len(frames) \in Nat
      BY DEF PoolInv, PoolTypes
    <3> QED BY <3>1 DEF PoolInv, FrameInv
  <2>3. \A i \in Items : /\ items[i].at \in {"todo", "acquire", "fetch", "upload", "drain", "settled"}
                         /\ items[i].err \in {"none", "failed", "canceled"}
    BY DEF PoolInv, PoolTypes, ItemRec, States
  <2> QED BY <2>1, <2>2, <2>3 DEF PoolTypeOK, PoolInv, PoolTypes, SlotInv
<1> QED BY <1>1, PoolAlways, PTL

-----------------------------------------------------------------------------
(* Reader.  Until the range is known nothing is written; from then on what *)
(* is written is the range from its start, as far as the reader has come.  *)

GetSpec == GetInit /\ [][GetNext]_getVars

Refusals == {"failed", "unmodified", "unsatisfiable"}
Answers == Refusals \cup {"none", "complete", "error", "truncated", "gone"}
Places == {"parse", "open", "chunks", "first", "pieces", "closing", "done"}
Fetch == [idx : Nat, ok : BOOLEAN]

GetTypes ==
  /\ get \in GetInstances /\ out \in Seq(Nat)
  /\ handler \in [pc : Places, start : Nat, end : Int, answer : Answers]
  /\ reader = [idx |-> reader.idx, queue |-> reader.queue, bad |-> reader.bad]
  /\ reader.idx \in 1 .. Len(get.lengths) + 1 /\ reader.queue \in Seq(Fetch)
  /\ stream \in [ch : Seq(Seq(Nat)), canceled : BOOLEAN, open : BOOLEAN]
  /\ producer \in [on : BOOLEAN, at : Nat, buf : Seq(Nat), err : BOOLEAN]
  /\ Len(stream.ch) <= ChannelCap /\ Len(producer.buf) <= Piece /\ (producer.on => stream.open)

RangeInv ==
  /\ handler.start <= handler.end + 1 /\ handler.end < Size /\ (Size > 0 => handler.start <= handler.end)
  /\ handler.answer = "unsatisfiable" => Requested = {} \/ get.range.start >= Size
  /\ handler.pc # "parse" /\ handler.answer \notin Refusals => Requested = handler.start .. handler.end
  /\ handler.pc \in {"parse", "open", "first"} \/ handler.answer \in Refusals => out = <<>>
  /\ \A n \in DOMAIN out : out[n] = handler.start + n - 1
  /\ Len(out) <= handler.end + 1 - handler.start

\* The bytes of the range before chunk i.
DoneTo(i) == IF Upto(i - 1) <= handler.start THEN 0
             ELSE IF Upto(i - 1) > handler.end THEN handler.end + 1 - handler.start
             ELSE Upto(i - 1) - handler.start
ChunkInv ==
  /\ handler.pc \in {"parse", "open", "first"} => reader = ReaderIdle
  /\ handler.pc = "chunks" => Len(out) = DoneTo(reader.idx)
  /\ \A n \in DOMAIN reader.queue : reader.queue[n].idx = reader.idx + n - 1
  /\ reader.queue # <<>> => Upto(reader.idx - 1) > handler.start

\* The pieces in the channel and the goroutine's buffer go on from byte n, up
\* to byte at; e is the last byte there may be.  o[k]: where piece k begins.
Run(s, from) == \A j \in 1 .. Len(s) : s[j] = from + j - 1
ChainedBy(o, ch, buf, at, n) ==
  /\ o[1] = n /\ at = o[Len(ch) + 1] + Len(buf) /\ Run(buf, o[Len(ch) + 1])
  /\ \A k \in 1 .. Len(ch) : o[k + 1] = o[k] + Len(ch[k]) /\ Run(ch[k], o[k])
Chained(ch, buf, at, n, e) ==
  at <= e + 1 /\ \E o \in [1 .. Len(ch) + 1 -> 0 .. e + 1] : ChainedBy(o, ch, buf, at, n)
StreamInv == handler.pc \in {"first", "pieces"} =>
  /\ Chained(stream.ch, producer.buf, producer.at, handler.start + Len(out), handler.end)
  /\ producer.on \/ producer.err \/ (producer.at = handler.end + 1 /\ producer.buf = <<>>)

LostInv == \A i \in Positions : ~Served(i) => i \in lost
FailureInv == handler.answer \in {"error", "truncated"} =>
  \/ producer.err /\ handler.answer = "truncated"
  \/ \E i \in lost : \E b \in Requested : Upto(i - 1) <= b /\ b < Upto(i)
AnswerInv ==
  /\ handler.pc # "done" => handler.answer = "none"
  /\ handler.answer = "complete" => Len(out) = handler.end + 1 - handler.start
  /\ FailureInv

GetInv == GetTypes /\ RangeInv /\ ChunkInv /\ StreamInv /\ LostInv /\ AnswerInv

\* The largest of some naturals up to m.
LEMMA GreatestIs ==
  ASSUME NEW m \in Nat, NEW S \in SUBSET (0 .. m), S # {}
  PROVE  Max(S) \in S /\ \A j \in S : Max(S) >= j
<1> DEFINE R == {m - j : j \in S}
<1>0. \A j \in S : j \in 0 .. m /\ m - j \in Nat
  OBVIOUS
<1>1. R \in SUBSET Nat /\ R # {}
  BY <1>0
<1> HIDE DEF R
<1>2. Min(R) \in R /\ \A j \in R : Min(R) <= j
  BY <1>1, LeastIs
<1>3. PICK k \in S : Min(R) = m - k
  BY <1>2 DEF R
<1>4. \A j \in S : m - j \in R
  BY DEF R
<1>5. \A j \in S : k >= j
  <2> SUFFICES ASSUME NEW j \in S PROVE k >= j
    OBVIOUS
  <2>1. m - k <= m - j
    BY <1>2, <1>3, <1>4
  <2> QED BY <2>1
<1>6. \E l \in S : \A j \in S : l >= j
  BY <1>5
<1> QED BY <1>6 DEF Max

\* What ReaderAssumption says of the request.
LEMMA GetFacts ==
  ASSUME NEW g \in GetInstances
  PROVE  /\ g.lengths \in Seq(Nat \ {0}) /\ g.cond \in {"proceed", "failed", "unmodified"}
         /\ g.range \in [kind : {"none", "suffix", "from"}, n : Nat, start : Nat, end : Nat \cup {-1}]
         /\ g.fails \in Nat
BY ReaderAssumption

\* The bounds of runs, pieces and the channel are positive.
LEMMA BoundFacts == RunMaxRecords \in Nat \ {0} /\ Piece \in Nat \ {0} /\ ChannelCap \in Nat \ {0}
BY ReaderAssumption

\* The offsets of the chunks.
LEMMA UptoFacts ==
  ASSUME get \in GetInstances
  PROVE  /\ Len(get.lengths) \in Nat /\ Positions = 1 .. Len(get.lengths) /\ Size \in Nat
         /\ \A i \in 0 .. Len(get.lengths) : Upto(i) \in Nat /\ Upto(i) <= Size
         /\ Upto(0) = 0 /\ Size = Upto(Len(get.lengths))
         /\ \A i \in Positions : i - 1 \in 0 .. Len(get.lengths) /\ i \in 0 .. Len(get.lengths) /\ Upto(i - 1) < Upto(i)
<1> DEFINE s == get.lengths
           n == Len(s)
<1>1. s \in Seq(Nat \ {0})
  BY GetFacts
<1>2. n \in Nat /\ DOMAIN s = 1 .. n
  BY <1>1
<1>3. \A k \in 1 .. n : s[k] \in Nat \ {0} /\ s[k] \in Nat
  BY <1>1
<1> HIDE DEF n, s
<1>4. \A i \in 0 .. n : SumTo(s, i) \in Nat
  <2> SUFFICES ASSUME NEW i \in 0 .. n PROVE SumTo(s, i) \in Nat
    OBVIOUS
  <2>1. i \in Nat /\ \A k \in 1 .. i : s[k] \in Nat
    BY <1>2, <1>3
  <2> QED BY <2>1, SumIsNat
<1>5. \A i \in 0 .. n : SumTo(s, i) <= SumTo(s, n)
  <2> SUFFICES ASSUME NEW i \in 0 .. n PROVE SumTo(s, i) <= SumTo(s, n)
    OBVIOUS
  <2>1. n \in i .. n
    BY <1>2
  <2> QED BY <2>1, <1>2, <1>3, SumGrows
<1>6. SumTo(s, 0) = 0
  BY SumOfNone
<1>7. \A i \in 1 .. n : i - 1 \in 0 .. n /\ i \in 0 .. n /\ SumTo(s, i - 1) < SumTo(s, i)
  <2> SUFFICES ASSUME NEW i \in 1 .. n
               PROVE  i - 1 \in 0 .. n /\ i \in 0 .. n /\ SumTo(s, i - 1) < SumTo(s, i)
    OBVIOUS
  <2>1. i - 1 \in Nat /\ (i - 1) + 1 = i /\ i - 1 \in 0 .. n /\ i \in 0 .. n
    BY <1>2
  <2>2. SumTo(s, (i - 1) + 1) = SumTo(s, i - 1) + s[(i - 1) + 1]
    BY <2>1, SumNext
  <2>3. SumTo(s, i - 1) \in Nat /\ s[i] \in Nat \ {0}
    BY <2>1, <1>3, <1>4
  <2> QED BY <2>1, <2>2, <2>3
<1>8. n \in 0 .. n
  BY <1>2
<1> QED BY <1>2, <1>4, <1>5, <1>6, <1>7, <1>8 DEF Upto, Size, Positions, n, s

\* parseRangeSpec names the bytes that are requested.
LEMMA ParseIs ==
  ASSUME get \in GetInstances, NEW sp, sp = ParseRangeSpec(get.range)
  PROVE  /\ sp.ok \in BOOLEAN
         /\ sp.ok => /\ sp.start \in Nat /\ sp.end \in Int /\ Requested = sp.start .. sp.end
                     /\ sp.start <= sp.end + 1 /\ sp.end < Size /\ (Size > 0 => sp.start <= sp.end)
         /\ ~sp.ok => Requested = {} \/ get.range.start >= Size
<1> DEFINE r == get.range
<1>1. /\ r.kind \in {"none", "suffix", "from"} /\ r.n \in Nat /\ r.start \in Nat /\ r.end \in Nat \cup {-1}
      /\ Size \in Nat
  BY GetFacts, UptoFacts
<1> HIDE DEF r
<1>2. CASE r.kind = "none"
  <2>1. sp = [present |-> FALSE, ok |-> TRUE, start |-> 0, end |-> Size - 1]
    BY <1>2 DEF ParseRangeSpec, r
  <2>2. Requested = 0 .. Size - 1
    BY <1>2 DEF Requested, r
  <2> QED BY <1>1, <2>1, <2>2
<1>3. CASE r.kind = "suffix"
  <2> DEFINE from == IF r.n > Size THEN 0 ELSE Size - r.n
  <2>1. Requested = {b \in 0 .. Size - 1 : b >= Size - r.n}
    BY <1>3 DEF Requested, r
  <2>2. CASE r.n = 0 \/ Size = 0
    <3>1. sp = [present |-> TRUE, ok |-> FALSE, start |-> 0, end |-> 0]
      BY <1>3, <2>2 DEF ParseRangeSpec, r
    <3>2. Requested = {}
      BY <1>1, <2>1, <2>2
    <3> QED BY <3>1, <3>2
  <2>3. CASE r.n # 0 /\ Size # 0
    <3>1. sp = [present |-> TRUE, ok |-> TRUE, start |-> from, end |-> Size - 1]
      BY <1>3, <2>3 DEF ParseRangeSpec, r
    <3>2. Requested = from .. Size - 1 /\ from \in Nat /\ from <= Size - 1
      BY <1>1, <2>1, <2>3
    <3> HIDE DEF from
    <3> QED BY <1>1, <3>1, <3>2
  <2> QED BY <2>2, <2>3
<1>4. CASE r.kind = "from"
  <2>1. CASE r.start >= Size
    <3>1. sp = [present |-> TRUE, ok |-> FALSE, start |-> 0, end |-> 0]
      BY <1>4, <2>1 DEF ParseRangeSpec, r
    <3> QED BY <3>1, <2>1 DEF r
  <2>2. CASE ~(r.start >= Size) /\ r.end = -1
    <3>1. sp = [present |-> TRUE, ok |-> TRUE, start |-> r.start, end |-> Size - 1]
      BY <1>4, <2>2 DEF ParseRangeSpec, r
    <3>2. Requested = {b \in 0 .. Size - 1 : b >= r.start}
      BY <1>4, <2>2 DEF Requested, r
    <3>3. Requested = r.start .. Size - 1
      BY <3>2, <1>1
    <3> QED BY <3>1, <3>3, <2>2, <1>1
  <2>3. CASE ~(r.start >= Size) /\ r.end # -1 /\ r.end < r.start
    <3>1. sp = [present |-> FALSE, ok |-> TRUE, start |-> 0, end |-> Size - 1]
      BY <1>4, <2>3 DEF ParseRangeSpec, r
    <3>2. Requested = 0 .. Size - 1
      BY <1>4, <2>3 DEF Requested, r
    <3> QED BY <1>1, <3>1, <3>2
  <2>4. CASE ~(r.start >= Size) /\ r.end # -1 /\ ~(r.end < r.start)
    <3> DEFINE last == IF r.end >= Size THEN Size - 1 ELSE r.end
    <3>1. sp = [present |-> TRUE, ok |-> TRUE, start |-> r.start, end |-> last]
      BY <1>4, <2>4 DEF ParseRangeSpec, ClampedEnd, r
    <3>2. Requested = {b \in 0 .. Size - 1 : b >= r.start /\ b <= r.end}
      BY <1>4, <2>4 DEF Requested, r
    <3>3. Requested = r.start .. last /\ last \in Int /\ r.start <= last /\ last < Size
      BY <3>2, <2>4, <1>1
    <3> HIDE DEF last
    <3> QED BY <1>1, <3>1, <3>3
  <2> QED BY <2>1, <2>2, <2>3, <2>4
<1> QED BY <1>1, <1>2, <1>3, <1>4

\* The pieces as the handler and the goroutine go on.
LEMMA ChainStart ==
  ASSUME NEW s \in Nat, NEW e \in Int, s <= e + 1
  PROVE  Chained(<<>>, <<>>, s, s, e)
<1> DEFINE o == [k \in 1 .. 1 |-> s]
<1>1. o \in [1 .. Len(<<>>) + 1 -> 0 .. e + 1] /\ o[1] = s /\ Len(<<>>) = 0 /\ Len(<<>>) + 1 = 1
  OBVIOUS
<1>2. ChainedBy(o, <<>>, <<>>, s, s)
  BY <1>1 DEF ChainedBy, Run
<1> QED BY <1>1, <1>2 DEF Chained

\* With nothing under way the goroutine is where the handler is.
LEMMA ChainEmpty ==
  ASSUME NEW at \in Nat, NEW n, NEW e, Chained(<<>>, <<>>, at, n, e), NEW lo \in Nat, n = lo
  PROVE  at = n
<1>1. Len(<<>>) = 0 /\ Len(<<>>) + 1 = 1
  OBVIOUS
<1> QED BY <1>1 DEF Chained, ChainedBy

\* The goroutine adds a byte to its buffer,
LEMMA ChainMore ==
  ASSUME NEW ch \in Seq(Seq(Nat)), NEW buf \in Seq(Nat), NEW at \in Nat, NEW n \in Nat, NEW e \in Int,
         Chained(ch, buf, at, n, e), at <= e
  PROVE  Chained(ch, Append(buf, at), at + 1, n, e)
<1>1. PICK o \in [1 .. Len(ch) + 1 -> 0 .. e + 1] : ChainedBy(o, ch, buf, at, n)
  BY DEF Chained
<1> DEFINE b == o[Len(ch) + 1]
           more == Append(buf, at)
<1>2. b \in Nat /\ Len(ch) \in Nat
  <2>1. Len(ch) \in Nat /\ Len(ch) + 1 \in 1 .. Len(ch) + 1
    OBVIOUS
  <2>2. b \in 0 .. e + 1
    BY <2>1, <1>1
  <2>3. \A k \in 0 .. e + 1 : k \in Nat
    OBVIOUS
  <2> QED BY <2>1, <2>2, <2>3
<1> HIDE DEF b
<1>3. at = b + Len(buf) /\ \A j \in 1 .. Len(buf) : buf[j] = b + j - 1
  BY <1>1 DEF ChainedBy, Run, b
<1>4. /\ Len(more) = Len(buf) + 1 /\ Len(buf) \in Nat /\ more[Len(buf) + 1] = at
      /\ \A j \in 1 .. Len(buf) : more[j] = buf[j]
  OBVIOUS
<1> HIDE DEF more
<1>5. \A j \in 1 .. Len(more) : more[j] = b + j - 1
  <2> SUFFICES ASSUME NEW j \in 1 .. Len(more) PROVE more[j] = b + j - 1
    OBVIOUS
  <2>1. CASE j = Len(buf) + 1
    BY <2>1, <1>2, <1>3, <1>4
  <2>2. CASE j \in 1 .. Len(buf)
    BY <2>2, <1>3, <1>4
  <2> QED BY <2>1, <2>2, <1>4
<1>6. ChainedBy(o, ch, more, at + 1, n)
  <2>1. at + 1 = b + Len(more)
    BY <1>2, <1>3, <1>4
  <2> QED BY <2>1, <1>1, <1>5 DEF ChainedBy, Run, b
<1> QED BY <1>6 DEF Chained, more

\* sends the buffer to the channel,
LEMMA ChainFlush ==
  ASSUME NEW ch \in Seq(Seq(Nat)), NEW buf \in Seq(Nat), NEW at \in Nat, NEW n \in Nat, NEW e \in Int,
         Chained(ch, buf, at, n, e)
  PROVE  Chained(Append(ch, buf), <<>>, at, n, e)
<1>1. PICK o \in [1 .. Len(ch) + 1 -> 0 .. e + 1] : ChainedBy(o, ch, buf, at, n)
  BY DEF Chained
<1> DEFINE K == Len(ch)
           more == Append(ch, buf)
           q == [k \in 1 .. K + 2 |-> IF k = K + 2 THEN at ELSE o[k]]
<1>2. K \in Nat /\ Len(more) = K + 1 /\ more[K + 1] = buf /\ \A k \in 1 .. K : more[k] = ch[k]
  OBVIOUS
<1> HIDE DEF K, more
<1>3. /\ o[1] = n /\ at = o[K + 1] + Len(buf) /\ Run(buf, o[K + 1])
      /\ \A k \in 1 .. K : o[k + 1] = o[k] + Len(ch[k]) /\ Run(ch[k], o[k])
      /\ o \in [1 .. K + 1 -> 0 .. e + 1] /\ at \in 0 .. e + 1
  BY <1>1 DEF ChainedBy, K, Chained
<1>4. q[K + 2] = at /\ \A k \in 1 .. K + 1 : q[k] = o[k]
  BY <1>2
<1>5. q \in [1 .. (K + 1) + 1 -> 0 .. e + 1]
  <2>1. (K + 1) + 1 = K + 2 /\ \A k \in 1 .. K + 2 : k = K + 2 \/ k \in 1 .. K + 1
    BY <1>2
  <2> QED BY <2>1, <1>3
<1> HIDE DEF q
<1>6. \A k \in 1 .. K + 1 : q[k + 1] = q[k] + Len(more[k]) /\ Run(more[k], q[k])
  <2> SUFFICES ASSUME NEW k \in 1 .. K + 1 PROVE q[k + 1] = q[k] + Len(more[k]) /\ Run(more[k], q[k])
    OBVIOUS
  <2>1. CASE k = K + 1
    <3>1. k + 1 = K + 2 /\ K + 1 \in 1 .. K + 1
      BY <2>1, <1>2
    <3> QED BY <3>1, <2>1, <1>2, <1>3, <1>4
  <2>2. CASE k \in 1 .. K
    <3>1. k + 1 \in 1 .. K + 1 /\ k \in 1 .. K + 1
      BY <2>2, <1>2
    <3> QED BY <3>1, <2>2, <1>2, <1>3, <1>4
  <2> QED BY <2>1, <2>2, <1>2
<1>7. ChainedBy(q, more, <<>>, at, n)
  <2>1. q[1] = n
    BY <1>2, <1>3, <1>4
  <2>2. Len(more) + 1 = K + 2 /\ Len(<<>>) = 0 /\ at + 0 = at
    BY <1>2
  <2>3. at = q[Len(more) + 1] + Len(<<>>) /\ Run(<<>>, q[Len(more) + 1])
    BY <2>2, <1>4 DEF Run
  <2> QED BY <2>1, <2>3, <1>2, <1>6 DEF ChainedBy
<1>8. q \in [1 .. Len(more) + 1 -> 0 .. e + 1]
  BY <1>2, <1>5
<1> QED BY <1>7, <1>8 DEF Chained, more

\* and the handler takes the first piece.
LEMMA ChainTail ==
  ASSUME NEW ch \in Seq(Seq(Nat)), NEW buf \in Seq(Nat), NEW at \in Nat, NEW n \in Nat, NEW e \in Int,
         Chained(ch, buf, at, n, e), ch # <<>>
  PROVE  /\ Run(ch[1], n) /\ n + Len(ch[1]) <= e + 1
         /\ Chained(Tail(ch), buf, at, n + Len(ch[1]), e)
<1>1. PICK o \in [1 .. Len(ch) + 1 -> 0 .. e + 1] : ChainedBy(o, ch, buf, at, n)
  BY DEF Chained
<1> DEFINE K == Len(ch)
           rest == Tail(ch)
           q == [k \in 1 .. K |-> o[k + 1]]
<1>2. K \in Nat \ {0} /\ Len(rest) = K - 1 /\ \A k \in 1 .. K - 1 : rest[k] = ch[k + 1]
  OBVIOUS
<1> HIDE DEF K, rest
<1>3. /\ o[1] = n /\ at = o[K + 1] + Len(buf) /\ Run(buf, o[K + 1])
      /\ \A k \in 1 .. K : o[k + 1] = o[k] + Len(ch[k]) /\ Run(ch[k], o[k])
      /\ o \in [1 .. K + 1 -> 0 .. e + 1]
  BY <1>1 DEF ChainedBy, K
<1>4. 1 \in 1 .. K /\ 1 + 1 = 2 /\ 2 \in 1 .. K + 1
  BY <1>2
<1>5. o[2] = n + Len(ch[1]) /\ Run(ch[1], n) /\ o[2] \in 0 .. e + 1
  BY <1>3, <1>4
<1>6. \A k \in 1 .. K : q[k] = o[k + 1] /\ k + 1 \in 1 .. K + 1
  BY <1>2
<1>7. q \in [1 .. (K - 1) + 1 -> 0 .. e + 1]
  <2>1. (K - 1) + 1 = K
    BY <1>2
  <2> QED BY <2>1, <1>3, <1>6
<1> HIDE DEF q
<1>8. \A k \in 1 .. K - 1 : q[k + 1] = q[k] + Len(rest[k]) /\ Run(rest[k], q[k])
  <2> SUFFICES ASSUME NEW k \in 1 .. K - 1 PROVE q[k + 1] = q[k] + Len(rest[k]) /\ Run(rest[k], q[k])
    OBVIOUS
  <2>1. k \in 1 .. K /\ k + 1 \in 1 .. K
    BY <1>2
  <2> QED BY <2>1, <1>2, <1>3, <1>6
<1>9. ChainedBy(q, rest, buf, at, n + Len(ch[1]))
  <2>1. q[1] = n + Len(ch[1])
    BY <1>4, <1>5, <1>6
  <2>2. Len(rest) + 1 = K /\ q[K] = o[K + 1]
    BY <1>2, <1>6
  <2> QED BY <2>1, <2>2, <1>2, <1>3, <1>8 DEF ChainedBy
<1>10. q \in [1 .. Len(rest) + 1 -> 0 .. e + 1]
  BY <1>2, <1>7
<1>11. n + Len(ch[1]) <= e + 1
  <2>1. o[2] <= e + 1
    BY <1>5
  <2> QED BY <2>1, <1>5
<1> QED BY <1>5, <1>9, <1>10, <1>11 DEF Chained, rest

\* What depends on the object and the request alone.
LEMMA SameObject ==
  ASSUME UNCHANGED get
  PROVE  Size' = Size /\ Requested' = Requested /\ Positions' = Positions /\ \A i : Upto(i)' = Upto(i)
BY DEF Size, Requested, Positions, Upto

\* What is lost depends on the copies alone.
LEMMA SameCopies ==
  ASSUME LostInv, UNCHANGED <<get, intact, absent, lost>>
  PROVE  LostInv'
BY DEF LostInv, Served, Copies, Positions

\* The records of the goroutine and its channel.
LEMMA StreamRecords ==
  ASSUME NEW S, NEW R, NEW p \in [on : BOOLEAN, at : Nat, buf : S, err : BOOLEAN],
         NEW t \in [ch : R, canceled : BOOLEAN, open : BOOLEAN],
         NEW a \in Nat, NEW b \in S, NEW g \in BOOLEAN, NEW c \in R
  PROVE  /\ [p EXCEPT !.at = a, !.buf = b] \in [on : BOOLEAN, at : Nat, buf : S, err : BOOLEAN]
         /\ [p EXCEPT !.buf = b, !.on = g] \in [on : BOOLEAN, at : Nat, buf : S, err : BOOLEAN]
         /\ [t EXCEPT !.ch = c] \in [ch : R, canceled : BOOLEAN, open : BOOLEAN]
OBVIOUS

\* The goroutine's steps keep the invariant.
LEMMA ProducerKeeps == ASSUME GetInv, GetProducer PROVE GetInv'
<1>1. UNCHANGED <<get, intact, absent, lost, handler, out, reader, wear>>
  BY DEF GetProducer, Produce, Flush, Left
<1>2. Size' = Size /\ Requested' = Requested /\ \A i : Upto(i)' = Upto(i)
  BY <1>1, SameObject
<1>3. RangeInv' /\ ChunkInv' /\ LostInv'
  BY <1>1, <1>2, SameCopies DEF GetInv, RangeInv, ChunkInv, DoneTo
<1>4. /\ producer \in [on : BOOLEAN, at : Nat, buf : Seq(Nat), err : BOOLEAN]
      /\ stream \in [ch : Seq(Seq(Nat)), canceled : BOOLEAN, open : BOOLEAN]
      /\ Len(stream.ch) <= ChannelCap /\ Len(producer.buf) <= Piece /\ (producer.on => stream.open)
      /\ handler.start \in Nat /\ handler.end \in Int /\ Len(out) \in Nat
  BY DEF GetInv, GetTypes
<1> DEFINE ch == stream.ch
           buf == producer.buf
           at == producer.at
<1>4a. /\ ch \in Seq(Seq(Nat)) /\ buf \in Seq(Nat) /\ at \in Nat /\ handler.start + Len(out) \in Nat
       /\ Len(ch) \in Nat /\ Len(buf) \in Nat
  BY <1>4
<1>5. Piece \in Nat /\ ChannelCap \in Nat
  BY BoundFacts
<1> DEFINE NewTypes == /\ producer' \in [on : BOOLEAN, at : Nat, buf : Seq(Nat), err : BOOLEAN]
                       /\ stream' \in [ch : Seq(Seq(Nat)), canceled : BOOLEAN, open : BOOLEAN]
                       /\ Len(stream'.ch) <= ChannelCap /\ Len(producer'.buf) <= Piece
                       /\ (producer'.on => stream'.open) /\ (producer.err => producer'.err)
<1>6. NewTypes /\ StreamInv'
  <2>1. CASE Produce /\ producer' = [producer EXCEPT !.on = FALSE, !.err = TRUE]
    <3>1. stream' = stream
      BY <2>1 DEF Produce
    <3>2. /\ producer'.on = FALSE /\ producer'.err = TRUE /\ producer'.at = at /\ producer'.buf = buf
          /\ producer' \in [on : BOOLEAN, at : Nat, buf : Seq(Nat), err : BOOLEAN]
      BY <2>1, <1>4
    <3> QED BY <3>1, <3>2, <1>1, <1>4 DEF StreamInv, GetInv
  <2>2. CASE Produce /\ producer' = [producer EXCEPT !.at = @ + 1, !.buf = Append(@, producer.at)]
    <3>1. stream' = stream /\ producer.on /\ Len(buf) < Piece /\ at <= handler.end
      BY <2>2 DEF Produce
    <3> DEFINE more == Append(buf, at)
    <3>2. more \in Seq(Nat) /\ Len(more) = Len(buf) + 1
      BY <1>4a
    <3>3. /\ producer'.on = producer.on /\ producer'.err = producer.err /\ producer'.at = at + 1 /\ producer'.buf = more
      BY <2>2, <1>4
    <3> HIDE DEF more
    <3>4. producer' \in [on : BOOLEAN, at : Nat, buf : Seq(Nat), err : BOOLEAN]
      <4>1. producer' = [producer EXCEPT !.at = at + 1, !.buf = more]
        BY <2>2 DEF more
      <4>2. at + 1 \in Nat
        BY <1>4a
      <4> QED BY <4>1, <4>2, <3>2, <1>4, StreamRecords
    <3>5. NewTypes
      BY <3>1, <3>2, <3>3, <3>4, <1>4, <1>4a, <1>5
    <3>6. StreamInv'
      <4> SUFFICES ASSUME handler.pc \in {"first", "pieces"}
                   PROVE  Chained(ch, more, at + 1, handler.start + Len(out), handler.end)
        BY <3>1, <3>3, <1>1 DEF StreamInv
      <4>1. Chained(ch, buf, at, handler.start + Len(out), handler.end)
        BY DEF GetInv, StreamInv
      <4> QED BY <4>1, <3>1, <1>4, <1>4a, ChainMore DEF more
    <3> QED BY <3>5, <3>6
  <2>3. CASE Flush /\ stream.canceled /\ producer' = [producer EXCEPT !.on = FALSE, !.err = TRUE] /\ UNCHANGED stream
    <3>2. /\ producer'.on = FALSE /\ producer'.err = TRUE /\ producer'.at = at /\ producer'.buf = buf
          /\ producer' \in [on : BOOLEAN, at : Nat, buf : Seq(Nat), err : BOOLEAN]
      BY <2>3, <1>4
    <3> QED BY <2>3, <3>2, <1>1, <1>4 DEF StreamInv, GetInv
  <2>4. CASE /\ Flush /\ Len(stream.ch) < ChannelCap
             /\ stream' = [stream EXCEPT !.ch = Append(@, producer.buf)]
             /\ producer' = [producer EXCEPT !.buf = <<>>, !.on = producer.at <= handler.end]
    <3> DEFINE more == Append(ch, buf)
               go == at <= handler.end
    <3>1. more \in Seq(Seq(Nat)) /\ Len(more) = Len(ch) + 1 /\ go \in BOOLEAN /\ producer.on
      BY <1>4a, <2>4 DEF Flush
    <3>2. /\ producer'.on = go /\ producer'.err = producer.err /\ producer'.at = at /\ producer'.buf = <<>>
          /\ stream'.ch = more /\ stream'.open = stream.open /\ stream'.canceled = stream.canceled
      BY <2>4, <1>4
    <3> HIDE DEF more, go
    <3>3. /\ producer' \in [on : BOOLEAN, at : Nat, buf : Seq(Nat), err : BOOLEAN]
          /\ stream' \in [ch : Seq(Seq(Nat)), canceled : BOOLEAN, open : BOOLEAN]
      <4>1. producer' = [producer EXCEPT !.buf = <<>>, !.on = go] /\ stream' = [stream EXCEPT !.ch = more]
        BY <2>4 DEF more, go
      <4>2. <<>> \in Seq(Nat)
        OBVIOUS
      <4> QED BY <4>1, <4>2, <3>1, <1>4, StreamRecords
    <3>4. NewTypes
      <4>1. Len(<<>>) <= Piece
        BY <1>5
      <4>2. Len(more) <= ChannelCap
        BY <3>1, <2>4, <1>4a, <1>5
      <4> QED BY <3>1, <3>2, <3>3, <4>1, <4>2, <1>4
    <3>5. StreamInv'
      <4> SUFFICES ASSUME handler.pc \in {"first", "pieces"}
                   PROVE  /\ Chained(more, <<>>, at, handler.start + Len(out), handler.end)
                          /\ go \/ at = handler.end + 1
        BY <3>2, <1>1 DEF StreamInv
      <4>1. Chained(ch, buf, at, handler.start + Len(out), handler.end)
        BY DEF GetInv, StreamInv
      <4>2. Chained(more, <<>>, at, handler.start + Len(out), handler.end)
        BY <4>1, <1>4, <1>4a, ChainFlush DEF more
      <4>3. at <= handler.end + 1
        BY <4>1 DEF Chained
      <4> QED BY <4>2, <4>3, <1>4, <1>4a DEF go
    <3> QED BY <3>4, <3>5
  <2> QED BY <2>1, <2>2, <2>3, <2>4 DEF GetProducer, Produce, Flush
<1> HIDE DEF ch, buf, at
<1>7. GetTypes'
  BY <1>1, <1>6 DEF GetInv, GetTypes
<1>8. AnswerInv'
  BY <1>1, <1>2, <1>6 DEF GetInv, AnswerInv, FailureInv
<1> QED BY <1>3, <1>6, <1>7, <1>8 DEF GetInv

HandlerRec == [pc : Places, start : Nat, end : Int, answer : Answers]
StreamRec == [ch : Seq(Seq(Nat)), canceled : BOOLEAN, open : BOOLEAN]

\* A step of the handler that writes nothing and reads no chunk.
LEMMA QuietHandler ==
  ASSUME GetInv, UNCHANGED <<get, intact, absent, lost, out, reader, producer>>,
         NEW h \in HandlerRec, handler' = h, h.start = handler.start, h.end = handler.end,
         handler.pc \notin {"parse", "open", "done"}, h.pc \in {"chunks", "closing", "done"},
         h.pc = "chunks" => handler.pc = "first",
         stream' \in StreamRec, Len(stream'.ch) <= ChannelCap, producer.on => stream'.open,
         h.answer \notin Refusals, h.pc # "done" => h.answer = "none",
         h.answer = "complete" => Len(out) = h.end + 1 - h.start, h.answer # "error",
         h.answer = "truncated" => producer.err
  PROVE  GetInv'
<1>1. Size' = Size /\ Requested' = Requested /\ Positions' = Positions /\ \A i : Upto(i)' = Upto(i)
  BY SameObject
<1>2. handler.answer = "none" /\ handler.answer \notin Refusals
  BY DEF GetInv, AnswerInv, Refusals
<1>3. GetTypes'
  BY DEF GetInv, GetTypes, HandlerRec, StreamRec
<1>4. RangeInv'
  BY <1>1, <1>2 DEF GetInv, RangeInv, Refusals
<1>5. ChunkInv'
  <2>1. h.pc = "chunks" => Len(out) = 0 /\ reader.idx = 1 /\ Upto(1 - 1) = 0 /\ handler.start \in Nat
    <3>1. Upto(0) = 0 /\ 1 - 1 = 0 /\ handler.start \in Nat
      BY UptoFacts DEF GetInv, GetTypes
    <3>2. h.pc = "chunks" => out = <<>> /\ reader = ReaderIdle
      BY DEF GetInv, RangeInv, ChunkInv
    <3> QED BY <3>1, <3>2 DEF ReaderIdle
  <2>2. h.pc = "chunks" => Len(out') = DoneTo(reader.idx)'
    BY <2>1, <1>1 DEF DoneTo
  <2> QED BY <1>1, <2>2 DEF GetInv, ChunkInv
<1>6. StreamInv' /\ LostInv'
  BY SameCopies DEF GetInv, StreamInv
<1>7. AnswerInv'
  BY <1>1 DEF GetInv, AnswerInv, FailureInv
<1> QED BY <1>3, <1>4, <1>5, <1>6, <1>7 DEF GetInv

\* What the invariant says of the handler, the stream and the goroutine.
LEMMA GetShape ==
  ASSUME GetInv
  PROVE  /\ get \in GetInstances /\ handler \in HandlerRec /\ stream \in StreamRec /\ out \in Seq(Nat)
         /\ stream.ch \in Seq(Seq(Nat)) /\ Len(out) \in Nat /\ Len(stream.ch) \in Nat /\ ChannelCap \in Nat
         /\ producer.at \in Nat /\ producer.buf \in Seq(Nat) /\ Len(stream.ch) <= ChannelCap
         /\ (producer.on => stream.open) /\ handler.start \in Nat /\ handler.end \in Int
         /\ (handler.pc # "done" => handler.answer = "none")
<1>1. /\ get \in GetInstances /\ handler \in HandlerRec /\ stream \in StreamRec /\ out \in Seq(Nat)
      /\ producer.at \in Nat /\ producer.buf \in Seq(Nat) /\ Len(stream.ch) <= ChannelCap
      /\ (producer.on => stream.open) /\ (handler.pc # "done" => handler.answer = "none")
  BY DEF GetInv, GetTypes, HandlerRec, StreamRec, AnswerInv
<1>2. stream.ch \in Seq(Seq(Nat)) /\ handler.start \in Nat /\ handler.end \in Int
  BY <1>1 DEF HandlerRec, StreamRec
<1>3. Len(out) \in Nat /\ Len(stream.ch) \in Nat
  BY <1>1, <1>2
<1> QED BY <1>1, <1>2, <1>3, BoundFacts

\* The ends of a GET keep the invariant.
LEMMA HandlerEnds ==
  ASSUME GetInv, ChunksDone \/ StreamEnds \/ ClientGone \/ Drain
  PROVE  GetInv'
<1>0. /\ get \in GetInstances /\ handler \in HandlerRec /\ stream \in StreamRec
      /\ stream.ch \in Seq(Seq(Nat)) /\ Len(out) \in Nat /\ Len(stream.ch) \in Nat /\ ChannelCap \in Nat
      /\ producer.at \in Nat /\ producer.buf \in Seq(Nat) /\ Len(stream.ch) <= ChannelCap
      /\ (producer.on => stream.open) /\ handler.start \in Nat /\ handler.end \in Int
      /\ (handler.pc # "done" => handler.answer = "none")
  BY GetShape
<1>1. UNCHANGED <<get, intact, absent, lost, out, reader, producer>>
  BY DEF ChunksDone, StreamEnds, ClientGone, Drain, Kept
<1> DEFINE done(a) == [handler EXCEPT !.pc = "done", !.answer = a]
           at(p) == [handler EXCEPT !.pc = p]
<1>2. \A a \in Answers : /\ done(a) \in HandlerRec /\ done(a).pc = "done" /\ done(a).answer = a
                         /\ done(a).start = handler.start /\ done(a).end = handler.end
  BY <1>0 DEF HandlerRec, Places
<1>3. \A p \in Places : /\ at(p) \in HandlerRec /\ at(p).pc = p /\ at(p).answer = handler.answer
                        /\ at(p).start = handler.start /\ at(p).end = handler.end
  BY <1>0 DEF HandlerRec
<1>4. /\ {"complete", "truncated", "gone"} \subseteq Answers /\ {"chunks", "closing"} \subseteq Places
      /\ "complete" \notin Refusals /\ "truncated" \notin Refusals /\ "gone" \notin Refusals /\ "none" \notin Refusals
  BY DEF Answers, Places, Refusals
<1>5. \A a : Ends(a) <=> handler' = done(a)
  BY DEF Ends
<1>6. \A p : Goes(p) <=> handler' = at(p)
  BY DEF Goes
<1> HIDE DEF done, at
<1>7. CASE ChunksDone
  <2>1. /\ handler.pc = "chunks" /\ handler' = done("complete") /\ stream' = stream
        /\ reader.idx \notin Positions \/ Upto(reader.idx - 1) > handler.end
    BY <1>7, <1>5 DEF ChunksDone
  <2>2. Len(out) = handler.end + 1 - handler.start
    <3>1. /\ Len(get.lengths) \in Nat /\ Positions = 1 .. Len(get.lengths) /\ Size = Upto(Len(get.lengths)) /\ Size \in Nat
          /\ \A i \in 0 .. Len(get.lengths) : Upto(i) \in Nat
      BY <1>0, UptoFacts
    <3>2. reader.idx \in 1 .. Len(get.lengths) + 1 /\ Len(out) = DoneTo(reader.idx)
      BY <2>1 DEF GetInv, GetTypes, ChunkInv
    <3>3. Upto(reader.idx - 1) > handler.end
      <4> SUFFICES ASSUME reader.idx \notin Positions PROVE Upto(reader.idx - 1) > handler.end
        BY <2>1
      <4>1. reader.idx - 1 = Len(get.lengths)
        BY <3>1, <3>2
      <4>2. handler.end < Size
        BY DEF GetInv, RangeInv
      <4> QED BY <4>1, <4>2, <3>1, <1>0
    <3>4. Upto(reader.idx - 1) \in Nat
      BY <3>1, <3>2
    <3>5. handler.start <= handler.end + 1
      BY DEF GetInv, RangeInv
    <3> QED BY <3>2, <3>3, <3>4, <3>5, <1>0 DEF DoneTo
  <2> QED BY <2>1, <2>2, <1>0, <1>1, <1>2, <1>4, QuietHandler
<1>8. CASE StreamEnds
  <2>1. /\ handler.pc \in {"first", "pieces"} /\ stream.ch = <<>> /\ ~producer.on
        /\ stream' = [stream EXCEPT !.canceled = TRUE, !.open = FALSE]
    BY <1>8 DEF StreamEnds
  <2>2. stream' \in StreamRec /\ stream'.ch = stream.ch
    BY <2>1, <1>0 DEF StreamRec
  <2>3. CASE ~producer.err
    <3>1. handler' = done("complete")
      BY <2>3, <1>5, <1>8 DEF StreamEnds
    <3>2. /\ Chained(<<>>, <<>>, producer.at, handler.start + Len(out), handler.end)
          /\ producer.at = handler.end + 1
      BY <2>1, <2>3 DEF GetInv, StreamInv
    <3>3. producer.at = handler.start + Len(out)
      <4>1. handler.start + Len(out) \in Nat
        BY <1>0
      <4> QED BY <3>2, <4>1, <1>0, ChainEmpty
    <3>4. Len(out) = handler.end + 1 - handler.start
      BY <3>2, <3>3, <1>0
    <3> QED BY <3>1, <3>4, <2>1, <2>2, <1>0, <1>1, <1>2, <1>4, QuietHandler
  <2>4. CASE producer.err /\ handler.pc = "first"
    <3>1. handler' = at("chunks")
      BY <2>4, <1>6, <1>8 DEF StreamEnds, FallsBack
    <3> QED BY <3>1, <2>1, <2>2, <2>4, <1>0, <1>1, <1>3, <1>4, QuietHandler
  <2>5. CASE producer.err /\ handler.pc # "first"
    <3>1. handler' = done("truncated")
      BY <2>5, <1>5, <1>8 DEF StreamEnds, FallsBack
    <3> QED BY <3>1, <2>1, <2>2, <2>5, <1>0, <1>1, <1>2, <1>4, QuietHandler
  <2> QED BY <2>3, <2>4, <2>5
<1>9. CASE ClientGone
  <2>1. handler.pc \in {"chunks", "pieces"} /\ stream' = [stream EXCEPT !.canceled = TRUE]
    BY <1>9 DEF ClientGone
  <2>2. stream' \in StreamRec /\ stream'.ch = stream.ch /\ stream'.open = stream.open
    BY <2>1, <1>0 DEF StreamRec
  <2>3. CASE stream.open
    <3>1. handler' = at("closing")
      BY <2>3, <1>6, <1>9 DEF ClientGone
    <3> QED BY <3>1, <2>1, <2>2, <1>0, <1>1, <1>3, <1>4, QuietHandler
  <2>4. CASE ~stream.open
    <3>1. handler' = done("gone")
      BY <2>4, <1>5, <1>9 DEF ClientGone
    <3> QED BY <3>1, <2>1, <2>2, <1>0, <1>1, <1>2, <1>4, QuietHandler
  <2> QED BY <2>3, <2>4
<1>10. CASE Drain
  <2>1. handler.pc = "closing"
    BY <1>10 DEF Drain
  <2>2. CASE Drained
    <3>1. handler' = done("gone") /\ stream' = [stream EXCEPT !.open = FALSE] /\ ~producer.on
      BY <2>2, <1>5, <1>10 DEF Drain, Drained
    <3>2. stream' \in StreamRec /\ stream'.ch = stream.ch
      BY <3>1, <1>0 DEF StreamRec
    <3> QED BY <3>1, <3>2, <2>1, <1>0, <1>1, <1>2, <1>4, QuietHandler
  <2>3. CASE ~Drained
    <3>1. handler' = handler /\ stream.ch # <<>> /\ stream' = [stream EXCEPT !.ch = Tail(@)]
      BY <2>3, <1>10 DEF Drain
    <3> DEFINE rest == Tail(stream.ch)
    <3>2. rest \in Seq(Seq(Nat)) /\ Len(rest) = Len(stream.ch) - 1
      BY <3>1, <1>0
    <3>3. stream'.ch = rest /\ stream'.open = stream.open /\ stream' = [stream EXCEPT !.ch = rest]
      BY <3>1, <1>0 DEF StreamRec
    <3> HIDE DEF rest
    <3>4. stream' \in StreamRec
      BY <3>2, <3>3, <1>0 DEF StreamRec
    <3>5. Len(stream'.ch) <= ChannelCap
      BY <3>2, <3>3, <1>0
    <3> QED BY <3>1, <3>3, <3>4, <3>5, <2>1, <1>0, <1>1, <1>4, QuietHandler
  <2> QED BY <2>2, <2>3
<1> QED BY <1>7, <1>8, <1>9, <1>10

\* Bytes written on: the range from its start goes on.
LEMMA WritesOn ==
  ASSUME NEW s \in Nat, NEW o \in Seq(Nat), NEW more \in Seq(Nat), Run(o, s), Run(more, s + Len(o))
  PROVE  o \o more \in Seq(Nat) /\ Len(o \o more) = Len(o) + Len(more) /\ Run(o \o more, s)
<1> DEFINE all == o \o more
<1>1. /\ all \in Seq(Nat) /\ Len(all) = Len(o) + Len(more) /\ Len(o) \in Nat /\ Len(more) \in Nat
      /\ \A j \in 1 .. Len(o) : all[j] = o[j]
      /\ \A j \in 1 .. Len(more) : all[Len(o) + j] = more[j]
  OBVIOUS
<1> HIDE DEF all
<1>2. ASSUME NEW j \in 1 .. Len(all) PROVE all[j] = s + j - 1
  <2>1. CASE j \in 1 .. Len(o)
    BY <2>1, <1>1 DEF Run
  <2>2. CASE j \notin 1 .. Len(o)
    <3> DEFINE k == j - Len(o)
    <3>1. k \in 1 .. Len(more) /\ Len(o) + k = j
      BY <2>2, <1>1, <1>2
    <3>2. all[j] = more[k] /\ more[k] = s + Len(o) + k - 1
      BY <3>1, <1>1 DEF Run
    <3> QED BY <3>1, <3>2, <1>1
  <2> QED BY <2>1, <2>2
<1>3. Run(all, s)
  BY <1>2 DEF Run
<1> QED BY <1>1, <1>3 DEF all

\* What is written is a run of bytes from the start of the range.
LEMMA WrittenRuns ==
  ASSUME GetInv
  PROVE  Run(out, handler.start) /\ Len(out) <= handler.end + 1 - handler.start
<1>1. out \in Seq(Nat) /\ DOMAIN out = 1 .. Len(out)
  BY DEF GetInv, GetTypes
<1> QED BY <1>1 DEF GetInv, RangeInv, Run

\* The range is parsed.
LEMMA ParseKeeps == ASSUME GetInv, HandleGetObject PROVE GetInv'
<1>0. /\ get \in GetInstances /\ handler \in HandlerRec /\ handler.start \in Nat /\ handler.end \in Int
      /\ handler.pc = "parse" /\ handler.answer = "none"
      /\ UNCHANGED <<get, intact, absent, lost, out, reader, stream, producer, wear>>
  BY GetShape DEF HandleGetObject
<1>1. Size' = Size /\ Requested' = Requested /\ Positions' = Positions /\ \A i : Upto(i)' = Upto(i)
  BY <1>0, SameObject
<1>2. out = <<>> /\ reader = ReaderIdle
  BY <1>0 DEF GetInv, RangeInv, ChunkInv
<1>2a. Len(out) = 0 /\ DOMAIN out = {} /\ reader.queue = <<>> /\ DOMAIN reader.queue = {}
  BY <1>2 DEF ReaderIdle
<1>3. LostInv'
  BY <1>0, SameCopies DEF GetInv
<1> DEFINE sp == ParseRangeSpec(get.range)
<1>4. CASE handler' = [handler EXCEPT !.pc = "done", !.answer = get.cond] /\ get.cond # "proceed"
  <2>1. get.cond \in {"failed", "unmodified"}
    BY <1>0, <1>4, GetFacts
  <2>2. /\ handler' \in HandlerRec /\ handler'.pc = "done" /\ handler'.answer = get.cond
        /\ handler'.start = handler.start /\ handler'.end = handler.end
    BY <1>0, <1>4, <2>1 DEF HandlerRec, Places, Answers, Refusals
  <2>3. GetTypes'
    BY <2>2, <1>0 DEF GetInv, GetTypes, HandlerRec
  <2>4. RangeInv' /\ ChunkInv' /\ StreamInv' /\ AnswerInv'
    BY <2>1, <2>2, <1>0, <1>1, <1>2, <1>2a DEF GetInv, RangeInv, ChunkInv, StreamInv, AnswerInv, FailureInv, Refusals
  <2> QED BY <2>3, <2>4, <1>3 DEF GetInv
<1>5. CASE handler' = [handler EXCEPT !.pc = "done", !.answer = "unsatisfiable"] /\ ~sp.ok
  <2>1. Requested = {} \/ get.range.start >= Size
    BY <1>0, <1>5, ParseIs
  <2>2. /\ handler' \in HandlerRec /\ handler'.pc = "done" /\ handler'.answer = "unsatisfiable"
        /\ handler'.start = handler.start /\ handler'.end = handler.end
    BY <1>0, <1>5 DEF HandlerRec, Places, Answers, Refusals
  <2>3. GetTypes'
    BY <2>2, <1>0 DEF GetInv, GetTypes, HandlerRec
  <2>4. RangeInv' /\ ChunkInv' /\ StreamInv' /\ AnswerInv'
    BY <2>1, <2>2, <1>0, <1>1, <1>2, <1>2a DEF GetInv, RangeInv, ChunkInv, StreamInv, AnswerInv, FailureInv, Refusals
  <2> QED BY <2>3, <2>4, <1>3 DEF GetInv
<1>6. CASE handler' = [pc |-> "open", start |-> sp.start, end |-> sp.end, answer |-> "none"] /\ sp.ok
  <2>1. /\ sp.start \in Nat /\ sp.end \in Int /\ Requested = sp.start .. sp.end
        /\ sp.start <= sp.end + 1 /\ sp.end < Size /\ (Size > 0 => sp.start <= sp.end)
    BY <1>0, <1>6, ParseIs
  <2>2. /\ handler' \in HandlerRec /\ handler'.pc = "open" /\ handler'.answer = "none"
        /\ handler'.start = sp.start /\ handler'.end = sp.end
    BY <1>6, <2>1 DEF HandlerRec, Places, Answers, Refusals
  <2> HIDE DEF sp
  <2>3. GetTypes'
    BY <2>2, <1>0 DEF GetInv, GetTypes, HandlerRec
  <2>4. 0 <= sp.end + 1 - sp.start
    BY <2>1
  <2>5. RangeInv'
    BY <2>1, <2>2, <2>4, <1>0, <1>1, <1>2, <1>2a DEF RangeInv, Refusals
  <2>6. ChunkInv' /\ StreamInv' /\ AnswerInv'
    BY <2>2, <1>0, <1>1, <1>2, <1>2a DEF GetInv, ChunkInv, StreamInv, AnswerInv, FailureInv
  <2> QED BY <2>3, <2>5, <2>6, <1>3 DEF GetInv
<1>7. sp.ok \in BOOLEAN
  BY <1>0, ParseIs
<1> QED BY <1>4, <1>5, <1>6, <1>7 DEF HandleGetObject, Ends

\* A reader is opened.
LEMMA OpenKeeps == ASSUME GetInv, OpenObjectReader PROVE GetInv'
<1>0. /\ get \in GetInstances /\ handler \in HandlerRec /\ handler.start \in Nat /\ handler.end \in Int
      /\ handler.pc = "open" /\ handler.answer = "none"
      /\ UNCHANGED <<get, intact, absent, lost, out, reader, wear>>
  BY GetShape DEF OpenObjectReader
<1>1. Size' = Size /\ Requested' = Requested /\ Positions' = Positions /\ \A i : Upto(i)' = Upto(i)
  BY <1>0, SameObject
<1>2. out = <<>> /\ reader = ReaderIdle
  BY <1>0 DEF GetInv, RangeInv, ChunkInv
<1>2a. Len(out) = 0 /\ DOMAIN out = {} /\ reader.queue = <<>> /\ DOMAIN reader.queue = {} /\ reader.idx = 1
  BY <1>2 DEF ReaderIdle
<1>3. LostInv'
  BY <1>0, SameCopies DEF GetInv
<1>4. CASE /\ stream' = [StreamIdle EXCEPT !.open = TRUE]
           /\ producer' = [ProducerIdle EXCEPT !.on = TRUE, !.at = handler.start]
           /\ handler' = [handler EXCEPT !.pc = "first"]
  <2>1. /\ handler' \in HandlerRec /\ handler'.pc = "first" /\ handler'.answer = "none"
        /\ handler'.start = handler.start /\ handler'.end = handler.end
    BY <1>0, <1>4 DEF HandlerRec, Places
  <2>2. /\ stream' = [ch |-> <<>>, canceled |-> FALSE, open |-> TRUE]
        /\ producer' = [on |-> TRUE, at |-> handler.start, buf |-> <<>>, err |-> FALSE]
    BY <1>4 DEF StreamIdle, ProducerIdle
  <2>3. /\ stream'.ch = <<>> /\ stream'.open /\ producer'.on /\ producer'.at = handler.start /\ producer'.buf = <<>>
        /\ stream' \in StreamRec /\ producer' \in [on : BOOLEAN, at : Nat, buf : Seq(Nat), err : BOOLEAN]
    BY <2>2, <1>0 DEF StreamRec
  <2>4. GetTypes'
    <3>1. Len(<<>>) <= ChannelCap /\ Len(<<>>) <= Piece
      BY BoundFacts
    <3> QED BY <3>1, <2>1, <2>3, <1>0 DEF GetInv, GetTypes, HandlerRec, StreamRec
  <2>5. StreamInv'
    <3>1. handler.start <= handler.end + 1 /\ handler.start + 0 = handler.start
      BY <1>0 DEF GetInv, RangeInv
    <3>2. Chained(<<>>, <<>>, handler.start, handler.start, handler.end)
      BY <3>1, <1>0, ChainStart
    <3> QED BY <3>1, <3>2, <2>1, <2>3, <1>0, <1>2a DEF StreamInv
  <2>6. RangeInv' /\ ChunkInv' /\ AnswerInv'
    BY <2>1, <1>0, <1>1, <1>2, <1>2a DEF GetInv, RangeInv, ChunkInv, AnswerInv, FailureInv, Refusals
  <2> QED BY <2>4, <2>5, <2>6, <1>3 DEF GetInv
<1>5. CASE handler' = [handler EXCEPT !.pc = "chunks"] /\ UNCHANGED <<stream, producer>>
  <2>1. /\ handler' \in HandlerRec /\ handler'.pc = "chunks" /\ handler'.answer = "none"
        /\ handler'.start = handler.start /\ handler'.end = handler.end
    BY <1>0, <1>5 DEF HandlerRec, Places
  <2>2. GetTypes'
    BY <2>1, <1>0, <1>5 DEF GetInv, GetTypes, HandlerRec
  <2>3. DoneTo(1)' = 0
    <3>1. Upto(0) = 0 /\ 1 - 1 = 0
      BY <1>0, UptoFacts
    <3> QED BY <3>1, <2>1, <1>0, <1>1 DEF DoneTo
  <2>4. RangeInv' /\ ChunkInv' /\ StreamInv' /\ AnswerInv'
    BY <2>1, <2>3, <1>0, <1>1, <1>2, <1>2a
      DEF GetInv, RangeInv, ChunkInv, StreamInv, AnswerInv, FailureInv, Refusals
  <2> QED BY <2>2, <2>4, <1>3 DEF GetInv
<1> QED BY <1>4, <1>5 DEF OpenObjectReader, Goes

\* A piece is written to the client.
LEMMA PieceKeeps == ASSUME GetInv, NextPiece PROVE GetInv'
<1>0. /\ get \in GetInstances /\ handler \in HandlerRec /\ stream \in StreamRec /\ out \in Seq(Nat)
      /\ stream.ch \in Seq(Seq(Nat)) /\ Len(out) \in Nat /\ Len(stream.ch) \in Nat /\ ChannelCap \in Nat
      /\ producer.at \in Nat /\ producer.buf \in Seq(Nat) /\ Len(stream.ch) <= ChannelCap
      /\ (producer.on => stream.open) /\ handler.start \in Nat /\ handler.end \in Int
      /\ (handler.pc # "done" => handler.answer = "none")
  BY GetShape
<1>1. /\ handler.pc \in {"first", "pieces"} /\ stream.ch # <<>> /\ handler.answer = "none"
      /\ out' = out \o Head(stream.ch) /\ stream' = [stream EXCEPT !.ch = Tail(@)]
      /\ handler' = [handler EXCEPT !.pc = "pieces"] /\ UNCHANGED <<get, intact, absent, lost, reader, wear, producer>>
  BY <1>0 DEF NextPiece, Goes, Kept
<1>2. Size' = Size /\ Requested' = Requested /\ Positions' = Positions /\ \A i : Upto(i)' = Upto(i)
  BY <1>1, SameObject
<1> DEFINE p == stream.ch[1]
           n == handler.start + Len(out)
           rest == Tail(stream.ch)
<1>3. p \in Seq(Nat) /\ Head(stream.ch) = p /\ n \in Nat /\ Len(p) \in Nat
  <2>1. p \in Seq(Nat) /\ Head(stream.ch) = p
    BY <1>0, <1>1
  <2> QED BY <2>1, <1>0
<1>4. /\ Run(p, n) /\ n + Len(p) <= handler.end + 1
      /\ Chained(rest, producer.buf, producer.at, n + Len(p), handler.end)
      /\ producer.on \/ producer.err \/ (producer.at = handler.end + 1 /\ producer.buf = <<>>)
  <2>1. /\ Chained(stream.ch, producer.buf, producer.at, n, handler.end)
        /\ producer.on \/ producer.err \/ (producer.at = handler.end + 1 /\ producer.buf = <<>>)
    BY <1>1 DEF GetInv, StreamInv
  <2> HIDE DEF n
  <2> QED BY <2>1, <1>0, <1>1, <1>3, ChainTail
<1>5. rest \in Seq(Seq(Nat)) /\ Len(rest) = Len(stream.ch) - 1
  BY <1>0, <1>1
<1>6. /\ handler' \in HandlerRec /\ handler'.pc = "pieces" /\ handler'.answer = "none"
      /\ handler'.start = handler.start /\ handler'.end = handler.end
  BY <1>0, <1>1 DEF HandlerRec, Places
<1>7. stream'.ch = rest /\ stream'.open = stream.open /\ stream' = [stream EXCEPT !.ch = rest]
  BY <1>0, <1>1 DEF StreamRec
<1> HIDE DEF p, rest
<1>8. stream' \in StreamRec /\ Len(stream'.ch) <= ChannelCap
  <2>1. stream' \in StreamRec
    BY <1>0, <1>5, <1>7 DEF StreamRec
  <2> QED BY <2>1, <1>0, <1>5, <1>7
<1>9. out' \in Seq(Nat) /\ Len(out') = Len(out) + Len(p) /\ Run(out', handler.start)
  BY <1>0, <1>1, <1>3, <1>4, WritesOn, WrittenRuns
<1>10. Len(out') <= handler.end + 1 - handler.start /\ handler.start + Len(out') = n + Len(p)
  <2>1. \A a, b, c, d \in Int : a + b + c <= d + 1 => b + c <= d + 1 - a /\ a + (b + c) = a + b + c
    OBVIOUS
  <2>2. handler.start \in Int /\ Len(out) \in Int /\ Len(p) \in Int /\ handler.end \in Int
    BY <1>0, <1>3
  <2> QED BY <2>1, <2>2, <1>4, <1>9
<1>11. GetTypes'
  BY <1>0, <1>1, <1>6, <1>8, <1>9, <1>7 DEF GetInv, GetTypes, HandlerRec, StreamRec
<1>12. RangeInv'
  <2>1. \A k \in DOMAIN out' : out'[k] = handler.start + k - 1
    BY <1>9 DEF Run
  <2>2. Requested = handler.start .. handler.end
    BY <1>1 DEF GetInv, RangeInv, Refusals
  <2> QED BY <2>1, <2>2, <1>2, <1>6, <1>10 DEF GetInv, RangeInv, Refusals
<1>13. ChunkInv' /\ AnswerInv'
  BY <1>1, <1>2, <1>6 DEF GetInv, ChunkInv, AnswerInv, FailureInv
<1>14. StreamInv'
  BY <1>1, <1>4, <1>6, <1>7, <1>10 DEF StreamInv
<1>15. LostInv'
  BY <1>1, SameCopies DEF GetInv
<1> QED BY <1>11, <1>12, <1>13, <1>14, <1>15 DEF GetInv

\* The queue of a run: the chunk at hand and those that follow it.
QueueFrom(q, i) == q \in Seq(Fetch) /\ q # <<>> /\ \A n \in DOMAIN q : q[n].idx = i + n - 1

\* The rest of a queue is the queue of the next chunk.
LEMMA QueueTail ==
  ASSUME NEW i \in Nat, NEW q, QueueFrom(q, i)
  PROVE  Tail(q) \in Seq(Fetch) /\ \A n \in DOMAIN Tail(q) : Tail(q)[n].idx = (i + 1) + n - 1
<1> DEFINE t == Tail(q)
           K == Len(q)
<1>1. /\ t \in Seq(Fetch) /\ K \in Nat \ {0} /\ DOMAIN q = 1 .. K /\ Len(t) = K - 1
      /\ \A n \in 1 .. K - 1 : t[n] = q[n + 1]
  BY DEF QueueFrom
<1> HIDE DEF t, K
<1>2. DOMAIN t = 1 .. K - 1
  BY <1>1
<1>3. ASSUME NEW n \in DOMAIN t PROVE t[n].idx = (i + 1) + n - 1
  <2>1. n \in 1 .. K - 1 /\ n + 1 \in 1 .. K /\ n \in Int
    BY <1>1, <1>2, <1>3
  <2>2. t[n] = q[n + 1] /\ q[n + 1].idx = i + (n + 1) - 1
    BY <2>1, <1>1 DEF QueueFrom
  <2> QED BY <2>1, <2>2
<1> QED BY <1>1, <1>3 DEF t

\* fetchRun returns at least the chunk at hand.
LEMMA FetchedIs ==
  ASSUME get \in GetInstances, NEW i \in Positions
  PROVE  QueueFrom(Fetched(i), i)
<1> DEFINE S == {n \in 1 .. RunMaxRecords : i + n - 1 \in Positions /\
             /\ \A j \in i + 1 .. i + n - 1 : Upto(j - 1) <= handler.end /\ Extending(j)
             /\ n > 1 => Upto(i + n - 1) - Upto(i - 1) <= RunMaxLogical}
           R == RunLength(i)
           q == [n \in 1 .. R |-> [idx |-> i + n - 1, ok |-> <<i + n - 1, 1>> \in intact]]
<1>1. i \in Nat \ {0} /\ RunMaxRecords \in Nat \ {0}
  BY UptoFacts, BoundFacts
<1>2. 1 \in S
  <2>1. i + 1 - 1 = i /\ 1 \in 1 .. RunMaxRecords /\ ~(1 > 1) /\ i + 1 .. i + 1 - 1 = {}
    BY <1>1
  <2> QED BY <2>1
<1>3. S \in SUBSET (0 .. RunMaxRecords) /\ R = Max(S)
  BY <1>1 DEF RunLength
<1>4. \A n \in S : n \in Nat \ {0}
  BY <1>1
<1> HIDE DEF S
<1>5. R \in S
  BY <1>1, <1>2, <1>3, GreatestIs
<1>6. R \in Nat \ {0}
  BY <1>4, <1>5
<1>7. q = Fetched(i)
  BY DEF Fetched
<1> HIDE DEF R
<1>8. \A n \in 1 .. R : q[n] \in Fetch /\ q[n].idx = i + n - 1
  <2> SUFFICES ASSUME NEW n \in 1 .. R PROVE q[n] \in Fetch /\ q[n].idx = i + n - 1
    OBVIOUS
  <2>1. q[n] = [idx |-> i + n - 1, ok |-> <<i + n - 1, 1>> \in intact] /\ i + n - 1 \in Nat
    BY <1>1, <1>6
  <2> QED BY <2>1 DEF Fetch
<1>9. q \in Seq(Fetch) /\ Len(q) = R
  <2>1. q = [n \in 1 .. R |-> q[n]]
    OBVIOUS
  <2> HIDE DEF q
  <2>2. q \in [1 .. R -> Fetch]
    BY <2>1, <1>8
  <2> QED BY <2>2, <1>6, IsSeq
<1> HIDE DEF q
<1>10. DOMAIN q = 1 .. R /\ q # <<>>
  BY <1>6, <1>9
<1>11. QueueFrom(q, i)
  BY <1>8, <1>9, <1>10 DEF QueueFrom
<1> QED BY <1>7, <1>11

\* The slice of a chunk goes on where the bytes before it end.
LEMMA SliceIs ==
  ASSUME get \in GetInstances, handler.start \in Nat, handler.end \in Int, handler.start <= handler.end + 1,
         NEW i \in Positions, Upto(i - 1) <= handler.end, Upto(i) > handler.start
  PROVE  /\ Slice(i) \in Seq(Nat) /\ Run(Slice(i), handler.start + DoneTo(i)) /\ DoneTo(i) \in Nat
         /\ DoneTo(i) + Len(Slice(i)) = DoneTo(i + 1) /\ DoneTo(i + 1) <= handler.end + 1 - handler.start
<1> DEFINE S == handler.start
           E == handler.end
           u == Upto(i - 1)
           v == Upto(i)
           lo == IF S > u THEN S ELSE u
           hi == IF E < v - 1 THEN E ELSE v - 1
           L == hi - lo + 1
           q == [n \in 1 .. L |-> lo + n - 1]
<1>1. u \in Nat /\ v \in Nat /\ u < v /\ S \in Nat /\ E \in Int /\ S <= E + 1 /\ u <= E /\ v > S /\ i \in Nat
  BY UptoFacts
<1>2. Slice(i) = q
  BY DEF Slice, LastOf
<1>3. DoneTo(i) = (IF u <= S THEN 0 ELSE IF u > E THEN E + 1 - S ELSE u - S)
  BY DEF DoneTo
<1>4. DoneTo(i + 1) = (IF v <= S THEN 0 ELSE IF v > E THEN E + 1 - S ELSE v - S)
  <2>1. (i + 1) - 1 = i
    BY <1>1
  <2> QED BY <2>1 DEF DoneTo
<1> HIDE DEF S, E, u, v
<1>5. S + DoneTo(i) = lo /\ DoneTo(i) \in Nat /\ lo \in Nat /\ L \in Nat
  BY <1>1, <1>3
<1>6. DoneTo(i) + L = DoneTo(i + 1) /\ DoneTo(i + 1) <= E + 1 - S
  BY <1>1, <1>3, <1>4
<1> HIDE DEF lo, L
<1>7. \A n \in 1 .. L : q[n] = lo + n - 1 /\ q[n] \in Nat
  BY <1>5
<1>8. q \in Seq(Nat) /\ Len(q) = L
  <2>1. q \in [1 .. L -> Nat]
    BY <1>7
  <2> HIDE DEF q
  <2> QED BY <2>1, <1>5, IsSeq
<1> HIDE DEF q
<1>9. Run(q, lo)
  BY <1>7, <1>8 DEF Run
<1> QED BY <1>2, <1>5, <1>6, <1>8, <1>9 DEF S, E

\* A chunk is read, or skipped, or found lost.
LEMMA ChunkKeeps == ASSUME GetInv, NextChunk PROVE GetInv'
<1> DEFINE i == reader.idx
           queue == IF reader.queue # <<>> THEN reader.queue
                    ELSE IF Primary(i) THEN Fetched(i) ELSE <<[idx |-> i, ok |-> FALSE]>>
           S == handler.start
           E == handler.end
<1>0. /\ get \in GetInstances /\ handler \in HandlerRec /\ out \in Seq(Nat) /\ Len(out) \in Nat
      /\ S \in Nat /\ E \in Int /\ (handler.pc # "done" => handler.answer = "none")
  BY GetShape
<1>1. /\ handler.pc = "chunks" /\ i \in Positions /\ Upto(i - 1) <= E /\ handler.answer = "none"
      /\ UNCHANGED <<get, intact, absent, lost, stream, producer, wear>>
  BY <1>0 DEF NextChunk
<1>2. Size' = Size /\ Requested' = Requested /\ Positions' = Positions /\ \A k : Upto(k)' = Upto(k)
  BY <1>1, SameObject
<1>3. /\ i \in Nat \ {0} /\ i \in 1 .. Len(get.lengths) /\ i + 1 \in 1 .. Len(get.lengths) + 1 /\ (i + 1) - 1 = i
      /\ Upto(i - 1) \in Nat /\ Upto(i) \in Nat /\ Upto(i - 1) < Upto(i) /\ Size \in Nat /\ Upto(i) <= Size
  <2>1. /\ Len(get.lengths) \in Nat /\ Positions = 1 .. Len(get.lengths) /\ Size \in Nat
        /\ \A k \in 0 .. Len(get.lengths) : Upto(k) \in Nat /\ Upto(k) <= Size
        /\ \A k \in Positions : k - 1 \in 0 .. Len(get.lengths) /\ k \in 0 .. Len(get.lengths) /\ Upto(k - 1) < Upto(k)
    BY <1>0, UptoFacts
  <2> HIDE DEF i
  <2>2. i \in Nat \ {0} /\ i \in 1 .. Len(get.lengths) /\ i + 1 \in 1 .. Len(get.lengths) + 1 /\ (i + 1) - 1 = i
    BY <1>1, <2>1
  <2> QED BY <1>1, <2>1, <2>2
<1>4. /\ Requested = S .. E /\ S <= E + 1 /\ E < Size /\ (Size > 0 => S <= E)
      /\ Run(out, S) /\ Len(out) = DoneTo(i)
      /\ reader = [idx |-> i, queue |-> reader.queue, bad |-> reader.bad] /\ reader.queue \in Seq(Fetch)
  BY <1>1, WrittenRuns DEF GetInv, GetTypes, RangeInv, ChunkInv, Refusals
<1>5. LostInv' /\ StreamInv'
  <2>1. StreamInv'
    <3>1. handler'.pc \notin {"first", "pieces"}
      <4>1. handler' = handler \/ \E a : handler' = [handler EXCEPT !.pc = "done", !.answer = a]
        BY DEF NextChunk, Ends
      <4> QED BY <4>1, <1>0, <1>1 DEF HandlerRec
    <3> QED BY <3>1 DEF StreamInv
  <2> QED BY <2>1, <1>1, SameCopies DEF GetInv
<1>6. CASE Upto(i) <= S
  <2>1. reader' = [reader EXCEPT !.idx = i + 1] /\ UNCHANGED <<handler, out>>
    BY <1>6 DEF NextChunk
  <2>2. /\ reader'.idx = i + 1 /\ reader'.queue = reader.queue /\ reader'.bad = reader.bad
        /\ reader' = [idx |-> i + 1, queue |-> reader.queue, bad |-> reader.bad]
    BY <2>1, <1>4
  <2>3. reader.queue = <<>>
    <3>1. ~(Upto(i - 1) > S)
      BY <1>0, <1>3, <1>6
    <3> QED BY <3>1 DEF GetInv, ChunkInv
  <2>4. DoneTo(i) = 0 /\ DoneTo(i + 1) = 0
    BY <1>0, <1>3, <1>6 DEF DoneTo
  <2>5. GetTypes'
    BY <2>1, <2>2, <1>1, <1>3, <1>4 DEF GetInv, GetTypes
  <2>6. DoneTo(reader.idx)' = DoneTo(i + 1)
    <3>1. Upto(reader.idx - 1)' = Upto(i)
      BY <2>2, <1>1, <1>3 DEF Upto
    <3> QED BY <3>1, <2>1, <1>3 DEF DoneTo
  <2>7. ChunkInv'
    BY <2>1, <2>2, <2>3, <2>4, <2>6, <1>1, <1>4 DEF ChunkInv
  <2>8. RangeInv' /\ AnswerInv'
    BY <2>1, <1>1, <1>2 DEF GetInv, RangeInv, AnswerInv, FailureInv
  <2> QED BY <2>5, <2>7, <2>8, <1>5 DEF GetInv
<1>7. CASE ~(Upto(i) <= S)
  <2>0. Upto(i) > S
    BY <1>0, <1>3, <1>7
  <2>1. QueueFrom(queue, i)
    <3>1. CASE reader.queue # <<>>
      BY <3>1, <1>4 DEF GetInv, ChunkInv, QueueFrom
    <3>2. CASE reader.queue = <<>> /\ Primary(i)
      BY <3>2, <1>0, <1>1, FetchedIs
    <3>3. CASE reader.queue = <<>> /\ ~Primary(i)
      <4> DEFINE r == [idx |-> i, ok |-> FALSE]
      <4>0. queue = <<r>>
        BY <3>3
      <4> HIDE DEF queue
      <4>1. r \in Fetch /\ r.idx = i /\ queue = <<r>> /\ i + 1 - 1 = i
        BY <4>0, <1>3 DEF Fetch
      <4> HIDE DEF r, queue
      <4>2. queue \in Seq(Fetch) /\ queue # <<>> /\ DOMAIN queue = {1} /\ queue[1] = r
        BY <4>1
      <4> QED BY <4>1, <4>2 DEF QueueFrom
    <3> QED BY <3>1, <3>2, <3>3
  <2>2. \E bad : reader' = [idx |-> i + 1, queue |-> Tail(queue), bad |-> bad]
    BY <1>7 DEF NextChunk
  <2>3. \/ out' = out \o Slice(i) /\ UNCHANGED handler
        \/ ~ReadAgain(i, queue[1]) /\ handler' = [handler EXCEPT !.pc = "done", !.answer = Failed] /\ UNCHANGED out
    BY <1>7 DEF NextChunk, Ends
  <2> HIDE DEF queue
  <2>4. Tail(queue) \in Seq(Fetch) /\ \A n \in DOMAIN Tail(queue) : Tail(queue)[n].idx = (i + 1) + n - 1
    BY <2>1, <1>3, QueueTail
  <2>5. /\ reader'.idx = i + 1 /\ reader'.queue = Tail(queue)
        /\ reader' = [idx |-> reader'.idx, queue |-> reader'.queue, bad |-> reader'.bad]
    BY <2>2
  <2>6. CASE out' = out \o Slice(i) /\ UNCHANGED handler
    <3>1. /\ Slice(i) \in Seq(Nat) /\ Run(Slice(i), S + DoneTo(i))
          /\ DoneTo(i) + Len(Slice(i)) = DoneTo(i + 1) /\ DoneTo(i + 1) <= E + 1 - S
      BY <1>0, <1>1, <1>4, <2>0, SliceIs
    <3>2. out' \in Seq(Nat) /\ Len(out') = DoneTo(i + 1) /\ Run(out', S)
      BY <3>1, <2>6, <1>0, <1>4, WritesOn
    <3>3. DoneTo(reader.idx)' = DoneTo(i + 1)
      <4>1. Upto(reader.idx - 1)' = Upto(i)
        BY <2>5, <1>1, <1>3 DEF Upto
      <4> QED BY <4>1, <2>6, <1>3 DEF DoneTo
    <3>4. GetTypes'
      BY <3>2, <2>4, <2>5, <2>6, <1>1, <1>3 DEF GetInv, GetTypes
    <3>5. RangeInv'
      <4>1. \A k \in DOMAIN out' : out'[k] = S + k - 1
        BY <3>2 DEF Run
      <4> QED BY <4>1, <3>1, <3>2, <2>6, <1>1, <1>2, <1>4 DEF GetInv, RangeInv, Refusals
    <3>6. ChunkInv'
      <4>1. Upto(reader.idx - 1)' > S
        BY <2>0, <2>5, <1>1, <1>3 DEF Upto
      <4> QED BY <4>1, <3>2, <3>3, <2>4, <2>5, <2>6, <1>1 DEF ChunkInv
    <3>7. AnswerInv'
      BY <2>6, <1>1 DEF AnswerInv, FailureInv
    <3> QED BY <3>4, <3>5, <3>6, <3>7, <1>5 DEF GetInv
  <2>7. CASE ~ReadAgain(i, queue[1]) /\ handler' = [handler EXCEPT !.pc = "done", !.answer = Failed] /\ UNCHANGED out
    <3>1. Failed \in {"error", "truncated"}
      BY DEF Failed
    <3>2. /\ handler' \in HandlerRec /\ handler'.pc = "done" /\ handler'.answer \in {"error", "truncated"}
          /\ handler'.start = S /\ handler'.end = E
      BY <3>1, <2>7, <1>0 DEF HandlerRec, Places, Answers
    <3>3. i \in lost
      BY <2>7, <1>1 DEF ReadAgain, GetInv, LostInv
    <3> DEFINE b == IF S > Upto(i - 1) THEN S ELSE Upto(i - 1)
    <3>4. b \in Requested /\ Upto(i - 1) <= b /\ b < Upto(i)
      BY <2>0, <1>0, <1>1, <1>3, <1>4
    <3>5. GetTypes'
      BY <3>2, <2>4, <2>5, <2>7, <1>1, <1>3 DEF GetInv, GetTypes, HandlerRec
    <3>6. RangeInv'
      BY <3>2, <2>7, <1>1, <1>2, <1>4 DEF GetInv, RangeInv, Refusals
    <3>7. ChunkInv'
      <4>1. Upto(reader.idx - 1)' > S
        BY <2>0, <2>5, <1>1, <1>3 DEF Upto
      <4> QED BY <4>1, <3>2, <2>4, <2>5 DEF ChunkInv
    <3>8. AnswerInv'
      <4> HIDE DEF b
      <4> QED BY <3>2, <3>3, <3>4, <1>1, <1>2 DEF AnswerInv, FailureInv
    <3> QED BY <3>5, <3>6, <3>7, <3>8, <1>5 DEF GetInv
  <2> QED BY <2>3, <2>6, <2>7
<1> QED BY <1>6, <1>7

\* A copy decays, or a chunk that had none is published again.
LEMMA WearKeeps ==
  ASSUME GetInv, (\E copy \in intact : Decay(copy)) \/ (\E i \in Positions : Repaired(i))
  PROVE  GetInv'
<1>1. UNCHANGED <<get, handler, out, reader, stream, producer>> /\ lost \subseteq lost'
  BY DEF Decay, Repaired
<1>2. Size' = Size /\ Requested' = Requested /\ Positions' = Positions /\ \A i : Upto(i)' = Upto(i)
  BY <1>1, SameObject
<1>3. LostInv'
  <2>1. CASE \E copy \in intact : Decay(copy)
    <3>1. absent' = absent /\ lost' = lost \cup {i \in Positions : Copies(i) \cap intact' = {}}
      BY <2>1 DEF Decay
    <3>2. \A i \in Positions : Copies(i)' = Copies(i)
      BY <3>1, <1>1 DEF Copies
    <3> QED BY <3>1, <3>2, <1>2 DEF LostInv, Served
  <2>2. CASE \E i \in Positions : Repaired(i)
    <3>1. intact \subseteq intact' /\ absent' \subseteq absent /\ lost' = lost
      BY <2>2 DEF Repaired
    <3>2. \A i \in Positions : Copies(i) \subseteq Copies(i)'
      BY <3>1, <1>1 DEF Copies
    <3> QED BY <3>1, <3>2, <1>2 DEF GetInv, LostInv, Served
  <2> QED BY <2>1, <2>2
<1>4. GetTypes'
  BY <1>1 DEF GetInv, GetTypes
<1>5. RangeInv' /\ ChunkInv' /\ StreamInv'
  BY <1>1, <1>2 DEF GetInv, RangeInv, ChunkInv, StreamInv, DoneTo
<1>6. AnswerInv'
  BY <1>1, <1>2 DEF GetInv, AnswerInv, FailureInv
<1> QED BY <1>3, <1>4, <1>5, <1>6 DEF GetInv

\* The invariant holds initially, and every step keeps it.
LEMMA GetStart == GetInit => GetInv
<1> SUFFICES ASSUME GetInit PROVE GetInv
  OBVIOUS
<1>1. /\ get \in GetInstances /\ lost = {i \in Positions : ~Served(i)} /\ out = <<>>
      /\ handler = [pc |-> "parse", start |-> 0, end |-> Size - 1, answer |-> "none"]
      /\ reader = [idx |-> 1, queue |-> <<>>, bad |-> {}]
      /\ stream = [ch |-> <<>>, canceled |-> FALSE, open |-> FALSE]
      /\ producer = [on |-> FALSE, at |-> 0, buf |-> <<>>, err |-> FALSE]
  BY DEF GetInit, ReaderIdle, StreamIdle, ProducerIdle
<1>2. Size \in Nat /\ Len(get.lengths) \in Nat
  BY <1>1, UptoFacts
<1>3. /\ handler.pc = "parse" /\ handler.start = 0 /\ handler.end = Size - 1 /\ handler.answer = "none"
      /\ handler \in [pc : Places, start : Nat, end : Int, answer : Answers]
  BY <1>1, <1>2 DEF Places, Answers
<1>4. GetTypes
  <2>1. Len(<<>>) <= ChannelCap /\ Len(<<>>) <= Piece
    BY BoundFacts
  <2>2. /\ stream \in [ch : Seq(Seq(Nat)), canceled : BOOLEAN, open : BOOLEAN] /\ stream.ch = <<>>
        /\ producer \in [on : BOOLEAN, at : Nat, buf : Seq(Nat), err : BOOLEAN] /\ producer.buf = <<>> /\ ~producer.on
    BY <1>1
  <2>3. /\ reader = [idx |-> reader.idx, queue |-> reader.queue, bad |-> reader.bad]
        /\ reader.idx \in 1 .. Len(get.lengths) + 1 /\ reader.queue \in Seq(Fetch)
    BY <1>1, <1>2
  <2> QED BY <2>1, <2>2, <2>3, <1>1, <1>3 DEF GetTypes
<1>5. RangeInv
  <2>1. Len(out) = 0 /\ DOMAIN out = {}
    BY <1>1
  <2>2. 0 <= (Size - 1) + 1 /\ Size - 1 < Size /\ (Size > 0 => 0 <= Size - 1) /\ 0 <= (Size - 1) + 1 - 0
    BY <1>2
  <2> QED BY <2>1, <2>2, <1>1, <1>3 DEF RangeInv, Refusals
<1>6. ChunkInv
  <2>1. reader = ReaderIdle /\ reader.queue = <<>> /\ DOMAIN reader.queue = {}
    BY <1>1 DEF ReaderIdle
  <2> QED BY <2>1, <1>3 DEF ChunkInv
<1>7. StreamInv /\ LostInv /\ AnswerInv
  BY <1>1, <1>3 DEF StreamInv, LostInv, AnswerInv, FailureInv
<1> QED BY <1>4, <1>5, <1>6, <1>7 DEF GetInv

\* Every step of a GET keeps the invariant.
LEMMA GetKeeps == GetInv /\ [GetNext]_getVars => GetInv'
<1> SUFFICES ASSUME GetInv, [GetNext]_getVars PROVE GetInv'
  OBVIOUS
<1>1. CASE UNCHANGED getVars
  <2>1. UNCHANGED <<get, intact, absent, lost, handler, out, reader, stream, producer, wear>>
    BY <1>1 DEF getVars
  <2>2. Size' = Size /\ Requested' = Requested /\ Positions' = Positions /\ \A i : Upto(i)' = Upto(i)
    BY <2>1, SameObject
  <2>3. LostInv'
    BY <2>1, SameCopies DEF GetInv
  <2>4. GetTypes'
    BY <2>1 DEF GetInv, GetTypes
  <2>5. RangeInv' /\ ChunkInv' /\ StreamInv'
    BY <2>1, <2>2 DEF GetInv, RangeInv, ChunkInv, StreamInv, DoneTo
  <2>6. AnswerInv'
    BY <2>1, <2>2 DEF GetInv, AnswerInv, FailureInv
  <2> QED BY <2>3, <2>4, <2>5, <2>6 DEF GetInv
<1> QED BY <1>1, ProducerKeeps, HandlerEnds, ParseKeeps, OpenKeeps, PieceKeeps, ChunkKeeps, WearKeeps
      DEF GetNext, GetHandler

\* The inductive invariant of a GET.
LEMMA GetAlways == GetSpec => []GetInv
BY GetStart, GetKeeps, PTL DEF GetSpec

\* For every object, layout of its chunks, range header and bounds of the run
\* and the channel, whatever decays, is repaired or fails under way: a GET
\* writes the bytes its range names from the first one on, each once, says it
\* is complete only with all of them, fails only for a chunk of the range with
\* no valid copy or a failed representation, and closes the source of a
\* representation only after its goroutine has ended.
THEOREM GetsAreFaithful == GetSpec => []ReadsAreFaithful
<1>1. GetInv => ReadsAreFaithful
  <2> SUFFICES ASSUME GetInv PROVE ReadsAreFaithful
    OBVIOUS
  <2>1. out \in Seq(Nat) /\ handler.start \in Nat /\ handler.end \in Int /\ Len(out) \in Nat
    BY GetShape
  <2>2. /\ DOMAIN out = 1 .. Len(out) /\ Len(out) <= handler.end + 1 - handler.start
        /\ \A n \in DOMAIN out : out[n] = handler.start + n - 1
    BY <2>1 DEF GetInv, RangeInv
  <2>3. out # <<>> => Requested = handler.start .. handler.end
    BY DEF GetInv, RangeInv
  <2>4. ASSUME NEW n \in DOMAIN out PROVE out[n] \in Requested /\ (n > 1 => out[n] = out[n - 1] + 1)
    <3>1. n \in 1 .. Len(out) /\ (n > 1 => n - 1 \in 1 .. Len(out)) /\ out # <<>>
      BY <2>1, <2>2, <2>4
    <3>2. out[n] = handler.start + n - 1 /\ (n > 1 => out[n - 1] = handler.start + (n - 1) - 1)
      BY <3>1, <2>2
    <3>3. handler.start + n - 1 \in handler.start .. handler.end
      <4>1. \A a, e, l, m \in Int : 1 <= m /\ m <= l /\ l <= e + 1 - a => a + m - 1 \in a .. e
        OBVIOUS
      <4>2. n \in Int /\ 1 <= n /\ n <= Len(out)
        BY <3>1, <2>1
      <4>3. handler.start \in Int /\ handler.end \in Int /\ Len(out) \in Int
        BY <2>1
      <4>4. Len(out) <= handler.end + 1 - handler.start
        BY <2>2
      <4> QED BY <4>1, <4>2, <4>3, <4>4
    <3>4. \A a, m \in Int : a + m - 1 = (a + (m - 1) - 1) + 1
      OBVIOUS
    <3>5. n > 1 => out[n] = out[n - 1] + 1
      BY <3>1, <3>2, <3>4, <2>1
    <3> QED BY <3>1, <3>2, <3>3, <3>5, <2>3
  <2>5. out # <<>> => out[1] = Min(Requested)
    <3> SUFFICES ASSUME out # <<>> PROVE out[1] = Min(Requested)
      OBVIOUS
    <3>1. 1 \in 1 .. Len(out) /\ out[1] = handler.start /\ handler.start \in Requested
      <4>1. 1 \in 1 .. Len(out)
        BY <2>1
      <4>2. out[1] = handler.start + 1 - 1 /\ out[1] \in Requested
        BY <4>1, <2>2, <2>4
      <4> QED BY <4>1, <4>2, <2>1
    <3>2. Requested \in SUBSET Nat /\ \A k \in Requested : handler.start <= k
      BY <2>1, <2>3
    <3>3. Min(Requested) \in Requested /\ \A k \in Requested : Min(Requested) <= k
      BY <3>1, <3>2, LeastIs
    <3>4. Min(Requested) <= handler.start /\ handler.start <= Min(Requested) /\ Min(Requested) \in Nat
      BY <3>1, <3>2, <3>3
    <3> QED BY <3>1, <3>4, <2>1
  <2>6. handler.answer = "complete" => Len(out) = Cardinality(Requested)
    <3> SUFFICES ASSUME handler.answer = "complete" PROVE Len(out) = Cardinality(Requested)
      OBVIOUS
    <3>1. Len(out) = handler.end + 1 - handler.start /\ handler.pc = "done"
      BY DEF GetInv, AnswerInv
    <3>2. Requested = handler.start .. handler.end /\ handler.start <= handler.end + 1
      BY <3>1 DEF GetInv, RangeInv, Refusals
    <3>3. Cardinality(handler.start .. handler.end) =
            IF handler.start > handler.end THEN 0 ELSE handler.end - handler.start + 1
      <4>1. \A a, b \in Int : Cardinality(a .. b) = IF a > b THEN 0 ELSE b - a + 1
        BY FS_Interval
      <4>2. handler.start \in Int
        BY <2>1
      <4> QED BY <4>1, <4>2, <2>1
    <3> QED BY <3>1, <3>2, <3>3, <2>1
  <2>7. handler.answer = "unsatisfiable" => Requested = {} \/ get.range.start >= Size
    BY DEF GetInv, RangeInv
  <2>8. producer.on => stream.open
    BY DEF GetInv, GetTypes
  <2> QED BY <2>4, <2>5, <2>6, <2>7, <2>8 DEF ReadsAreFaithful, GetInv, AnswerInv, FailureInv
<1> QED BY <1>1, GetAlways, PTL

\* Types of Reader: the channel and the goroutine's buffer stay within their
\* bounds, and the records queued from a run are those of the next chunks.
THEOREM GetTypesHold == GetSpec => []GetTypeOK
<1>1. GetInv => GetTypeOK
  BY DEF GetInv, GetTypes, ChunkInv, GetTypeOK, Places, Answers, Refusals
<1> QED BY <1>1, GetAlways, PTL

-----------------------------------------------------------------------------
(* Listings.                                                               *)

\* A listing on its own.
ListSpec == ListInit /\ [][ListNext]_listVars

\* The unit an entry is listed as, and those an earlier page has returned.
Shows(e, delimited) == IF GroupOf(e, delimited) # 0 THEN PrefixUnit(GroupOf(e, delimited)) ELSE e
Returned(marker) == {PrefixUnit(p) : p \in 1 .. Key(marker)}
NewUnits(T, delimited, marker) == {Shows(e, delimited) : e \in T} \ Returned(marker)

Ordered(s) == \A i, j \in DOMAIN s : i < j => Before(s[i], s[j])

\* e0 is the entry a page had no room for.
Stops(page, T, delimited, marker, max, e0) ==
  /\ e0 \in T /\ Shows(e0, delimited) \notin Range(page.units) \cup Returned(marker)
  /\ Range(page.units) \subseteq {Shows(d, delimited) : d \in {e \in T : Before(e, e0)}}
  /\ \A d \in T : Before(d, e0) => Shows(d, delimited) \in Range(page.units) \cup Returned(marker)
  /\ page.last \in T /\ Before(page.last, e0)
  /\ \A d \in T : Before(page.last, d) => d = e0 \/ Before(e0, d)
  /\ Len(page.units) = max

\* What the loop has built of the entries in T.
Pages == [units : Seq(Int \X Int), group : Nat, last : Nat \X Nat, truncated : BOOLEAN]
PageRight(page, T, delimited, marker, max) ==
  /\ page \in Pages /\ Len(page.units) <= max /\ Ordered(page.units)
  /\ Range(page.units) \subseteq NewUnits(T, delimited, marker)
  /\ \A p \in Nat \ {0} : PrefixUnit(p) \in Range(page.units) => p <= page.group
  /\ page.group # 0 => PrefixUnit(page.group) \in Range(page.units)
  /\ IF page.truncated THEN \E e0 \in T : Stops(page, T, delimited, marker, max, e0)
     ELSE /\ NewUnits(T, delimited, marker) \subseteq Range(page.units)
          /\ T # {} => IsLast(page.last, T)

\* The pages of a walk.
Requests == [api : {"objects", "uploads", "parts"}, delimited : BOOLEAN, max : Nat,
             from : SUBSET (Keys \X Nat), changes : Nat]
ListTypes ==
  /\ request \in Requests /\ container \in BOOLEAN /\ walk \in {"paging", "done", "failed"}
  /\ seen \in SUBSET (Keys \X Nat) /\ IsFiniteSet(seen)
  /\ lasting \subseteq entries /\ entries \subseteq seen /\ cursor \in seen \cup {Start}
  /\ \A e \in seen : e[2] = 0 <=> request.api # "uploads"
  /\ units \in Seq(Int \X Int)

\* Between two pages: what is listed are units of entries up to the cursor;
\* the cursor's own unit is one of them, and so is that of every lasting entry
\* up to it; and but for uploads no lasting entry beyond it has been listed.
CursorInv ==
  walk = "paging" =>
    /\ Range(units) \subseteq {UnitOf(d) : d \in {e \in seen : ~Before(cursor, e)}}
    /\ cursor # Start => UnitOf(cursor) \in Range(units)
    /\ request.max > 0 => \A e \in lasting : ~Before(cursor, e) => UnitOf(e) \in Range(units)
    /\ request.api # "uploads" => \A e \in lasting : Before(cursor, e) => UnitOf(e) \notin Range(units)
WalkInv == ListTypes /\ CursorInv /\ ListedHaveExisted /\ ListedOnce /\ LastingAreListed

\* Every entry there can be.
Entries == Keys \X Nat

\* What is needed of one entry.
LEMMA EntryFacts ==
  ASSUME NEW e \in Entries
  PROVE  /\ e[1] \in Keys /\ e[1] \in Nat \ {0} /\ e[2] \in Nat /\ e = <<e[1], e[2]>>
         /\ e \in Nat \X Nat /\ e \in Int \X Int
         /\ Prefix[e[1]] \in Nat /\ Prefix[e[1]] <= e[1]
<1>1. e[1] \in Keys /\ e[2] \in Nat /\ e = <<e[1], e[2]>>
  BY DEF Entries
<1>2. e[1] \in Nat \ {0} /\ Prefix[e[1]] \in Nat /\ Prefix[e[1]] <= e[1]
  BY <1>1, PrefixAssumption
<1>3. \A i, j \in Nat : <<i, j>> \in Nat \X Nat /\ <<i, j>> \in Int \X Int
  OBVIOUS
<1>4. <<e[1], e[2]>> \in Nat \X Nat /\ <<e[1], e[2]>> \in Int \X Int
  BY <1>1, <1>2, <1>3
<1>5. e \in Nat \X Nat /\ e \in Int \X Int
  BY <1>1, <1>4
<1> QED BY <1>1, <1>2, <1>5

\* The unit of an entry: the entry, or its common prefix at or before it.
LEMMA UnitFacts ==
  ASSUME NEW e \in Entries, NEW delimited \in BOOLEAN
  PROVE  /\ Shows(e, delimited) \in Int \X Int
         /\ GroupOf(e, delimited) \in Nat /\ GroupOf(e, delimited) <= e[1]
         /\ GroupOf(e, delimited) = 0 => Shows(e, delimited) = e
         /\ GroupOf(e, delimited) # 0 => Shows(e, delimited) = <<GroupOf(e, delimited), -1>>
<1>1. GroupOf(e, delimited) \in Nat /\ GroupOf(e, delimited) <= e[1]
  BY EntryFacts DEF GroupOf, Key
<1>2. \A p \in Nat : <<p, -1>> \in Int \X Int
  OBVIOUS
<1> QED BY <1>1, <1>2, EntryFacts DEF Shows, PrefixUnit

\* Entries under one prefix follow it without a gap.
LEMMA GroupKept ==
  ASSUME NEW d \in Entries, NEW e \in Entries, NEW delimited \in BOOLEAN,
         GroupOf(e, delimited) # 0, GroupOf(e, delimited) <= d[1], d[1] <= e[1]
  PROVE  GroupOf(d, delimited) = GroupOf(e, delimited) /\ Shows(d, delimited) = Shows(e, delimited)
<1>1. delimited /\ GroupOf(e, delimited) = Prefix[e[1]] /\ GroupOf(d, delimited) = Prefix[d[1]]
  BY DEF GroupOf, Key
<1>2. d[1] \in Keys /\ e[1] \in Keys
  BY EntryFacts
<1>3. Prefix[d[1]] = Prefix[e[1]]
  BY <1>1, <1>2, PrefixAssumption
<1> QED BY <1>1, <1>3 DEF Shows

\* The order of entries is the order of their units.
LEMMA UnitsFollow ==
  ASSUME NEW d \in Entries, NEW e \in Entries, NEW delimited \in BOOLEAN, Before(d, e)
  PROVE  Shows(d, delimited) = Shows(e, delimited) \/ Before(Shows(d, delimited), Shows(e, delimited))
<1> DEFINE g == GroupOf(d, delimited)
           h == GroupOf(e, delimited)
<1>1. /\ g \in Nat /\ h \in Nat /\ g <= d[1] /\ h <= e[1]
      /\ d[1] \in Nat /\ e[1] \in Nat /\ d[2] \in Nat /\ e[2] \in Nat /\ d[1] <= e[1]
  BY UnitFacts, EntryFacts DEF Before
<1>2. CASE h # 0 /\ h <= d[1]
  BY <1>1, <1>2, GroupKept
<1>3. CASE h # 0 /\ ~(h <= d[1])
  <2>1. Shows(e, delimited) = <<h, -1>> /\ d[1] < h
    BY <1>1, <1>3, UnitFacts
  <2>2. Shows(d, delimited)[1] <= d[1] /\ Shows(d, delimited)[1] \in Int
    BY <1>1, UnitFacts
  <2> HIDE DEF g, h
  <2> QED BY <1>1, <2>1, <2>2 DEF Before
<1>4. CASE h = 0 /\ g = 0
  BY <1>4, UnitFacts
<1>5. CASE h = 0 /\ g # 0
  <2>1. Shows(e, delimited) = e /\ Shows(d, delimited) = <<g, -1>>
    BY <1>5, UnitFacts
  <2> HIDE DEF g, h
  <2> QED BY <2>1, <1>1 DEF Before
<1> QED BY <1>1, <1>2, <1>3, <1>4, <1>5

\* Two entries with one unit share a prefix.
LEMMA SameUnit ==
  ASSUME NEW d \in Entries, NEW e \in Entries, NEW delimited \in BOOLEAN, d # e,
         Shows(d, delimited) = Shows(e, delimited)
  PROVE  /\ GroupOf(e, delimited) # 0 /\ GroupOf(d, delimited) = GroupOf(e, delimited)
         /\ Shows(e, delimited) = PrefixUnit(GroupOf(e, delimited))
<1> DEFINE g == GroupOf(d, delimited)
           h == GroupOf(e, delimited)
<1>1. d[2] \in Nat /\ e[2] \in Nat /\ g \in Nat /\ h \in Nat
  BY EntryFacts, UnitFacts
<1>2. CASE h = 0
  <2>1. Shows(e, delimited) = e /\ Shows(e, delimited)[2] \in Nat
    BY <1>1, <1>2, UnitFacts
  <2>2. g # 0 => Shows(d, delimited) = <<g, -1>>
    BY UnitFacts
  <2>3. g = 0 => Shows(d, delimited) = d
    BY UnitFacts
  <2> QED BY <2>1, <2>2, <2>3
<1>3. CASE h # 0
  <2>1. Shows(e, delimited) = <<h, -1>>
    BY <1>3, UnitFacts
  <2>2. g # 0
    <3> SUFFICES ASSUME g = 0 PROVE FALSE
      OBVIOUS
    <3>1. Shows(d, delimited) = d
      BY UnitFacts
    <3>2. d = <<h, -1>>
      BY <3>1, <2>1
    <3>3. <<h, -1>>[2] = -1 /\ d[2] = -1
      BY <3>2
    <3> QED BY <3>3, <1>1
  <2>3. Shows(d, delimited) = <<g, -1>>
    BY <2>2, UnitFacts
  <2> HIDE DEF g, h
  <2>4. g = h
    BY <2>1, <2>3
  <2> QED BY <2>1, <2>4, <1>3 DEF g, h, PrefixUnit
<1> QED BY <1>2, <1>3

\* Before is a strict order on units.
LEMMA BeforeOrder ==
  /\ \A d, e, f \in Int \X Int : Before(d, e) /\ Before(e, f) => Before(d, f)
  /\ \A d, e \in Int \X Int : Before(d, e) => ~Before(e, d) /\ d # e
  /\ \A d, e \in Int \X Int : d = e \/ Before(d, e) \/ Before(e, d)
<1>1. \A d \in Int \X Int : d[1] \in Int /\ d[2] \in Int /\ d = <<d[1], d[2]>>
  OBVIOUS
<1>2. \A d, e, f \in Int \X Int : Before(d, e) /\ Before(e, f) => Before(d, f)
  BY <1>1 DEF Before
<1>3. \A d, e \in Int \X Int : Before(d, e) => ~Before(e, d) /\ d # e
  BY <1>1 DEF Before
<1>4. \A d, e \in Int \X Int : d = e \/ Before(d, e) \/ Before(e, d)
  <2> SUFFICES ASSUME NEW d \in Int \X Int, NEW e \in Int \X Int, ~Before(d, e), ~Before(e, d)
               PROVE  d = e
    OBVIOUS
  <2>1. d[1] = e[1] /\ d[2] = e[2]
    BY <1>1 DEF Before
  <2> QED BY <2>1, <1>1
<1> QED BY <1>2, <1>3, <1>4

\* An ordered sequence has as many elements as its length.
LEMMA OrderedCount ==
  ASSUME NEW s \in Seq(Int \X Int), Ordered(s)
  PROVE  Cardinality(Range(s)) = Len(s) /\ Len(s) \in Nat
<1>1. s \in [1 .. Len(s) -> Range(s)] /\ Len(s) \in Nat /\ DOMAIN s = 1 .. Len(s)
  BY DEF Range
<1>2. \A i, j \in 1 .. Len(s) : s[i] = s[j] => i = j
  <2> SUFFICES ASSUME NEW i \in 1 .. Len(s), NEW j \in 1 .. Len(s), s[i] = s[j], i # j PROVE FALSE
    OBVIOUS
  <2>1. Before(s[i], s[j]) \/ Before(s[j], s[i])
    BY <1>1 DEF Ordered
  <2>2. s[i] \in Int \X Int /\ s[j] \in Int \X Int
    BY <1>1
  <2> QED BY <2>1, <2>2, BeforeOrder
<1>3. s \in Bijection(1 .. Len(s), Range(s))
  <2>1. \A u \in Range(s) : \E i \in 1 .. Len(s) : s[i] = u
    BY <1>1 DEF Range
  <2> QED BY <1>1, <1>2, <2>1 DEF Bijection, Injection, Surjection, IsInjective
<1>4. ExistsBijection(1 .. Len(s), Range(s))
  BY <1>3 DEF ExistsBijection
<1> QED BY <1>1, <1>4, FS_CountingElements

\* One more unit at the end.
LEMMA AppendUnit ==
  ASSUME NEW s \in Seq(Int \X Int), NEW u \in Int \X Int, Ordered(s), \A v \in Range(s) : Before(v, u)
  PROVE  /\ Append(s, u) \in Seq(Int \X Int) /\ Ordered(Append(s, u))
         /\ Range(Append(s, u)) = Range(s) \cup {u}
         /\ Len(Append(s, u)) = Len(s) + 1 /\ Len(s) \in Nat
<1> DEFINE S == Int \X Int
           t == Append(s, u)
           n == Len(s)
<1>1. s \in Seq(S) /\ u \in S
  OBVIOUS
<1> HIDE DEF S
<1>2. /\ t \in Seq(S) /\ Len(t) = n + 1 /\ n \in Nat /\ t[n + 1] = u
      /\ \A i \in 1 .. n : t[i] = s[i]
  BY <1>1
<1>3. DOMAIN t = 1 .. n + 1 /\ DOMAIN s = 1 .. n
  BY <1>1, <1>2
<1> HIDE DEF t, n
<1>4. \A i \in 1 .. n + 1 : i = n + 1 \/ i \in 1 .. n
  BY <1>2
<1>5. \A i \in 1 .. n : i \in 1 .. n + 1 /\ n + 1 \in 1 .. n + 1
  BY <1>2
<1>6. Ordered(t)
  <2> SUFFICES ASSUME NEW i \in 1 .. n + 1, NEW j \in 1 .. n + 1, i < j PROVE Before(t[i], t[j])
    BY <1>3 DEF Ordered
  <2>1. i \in 1 .. n
    BY <1>2
  <2>2. CASE j = n + 1
    <3>1. s[i] \in Range(s)
      BY <2>1, <1>3 DEF Range
    <3> QED BY <2>1, <2>2, <3>1, <1>2
  <2>3. CASE j \in 1 .. n
    BY <2>1, <2>3, <1>2, <1>3 DEF Ordered
  <2> QED BY <2>2, <2>3, <1>4
<1>7. Range(t) = Range(s) \cup {u}
  <2>1. \A v \in Range(t) : v \in Range(s) \cup {u}
    BY <1>2, <1>3, <1>4 DEF Range
  <2>2. \A v \in Range(s) : v \in Range(t)
    BY <1>2, <1>3, <1>5 DEF Range
  <2>3. n + 1 \in 1 .. n + 1
    BY <1>2
  <2>4. u \in Range(t)
    BY <1>2, <1>3, <2>3 DEF Range
  <2> QED BY <2>1, <2>2, <2>4
<1> QED BY <1>2, <1>6, <1>7 DEF t, n, S

\* The unit of the next entry, when the loop does not pass over it: it is
\* neither on the page nor on an earlier one, and follows the page's units.
LEMMA FreshUnit ==
  ASSUME NEW T \in SUBSET Entries, NEW e, IsLast(e, T), NEW max \in Nat \ {0},
         NEW delimited \in BOOLEAN, NEW marker \in Nat \X Nat, NEW page,
         PageRight(page, T \ {e}, delimited, marker, max),
         GroupOf(e, delimited) = 0 \/ ~AlreadyReturned(GroupOf(e, delimited), page, marker)
  PROVE  /\ Shows(e, delimited) \notin Range(page.units) \cup Returned(marker)
         /\ \A v \in Range(page.units) : Before(v, Shows(e, delimited))
<1> DEFINE u == Shows(e, delimited)
           g == GroupOf(e, delimited)
           V == T \ {e}
<1>1. /\ e \in T /\ e \in Entries /\ g \in Nat /\ e[2] \in Nat
      /\ \A d \in V : d \in Entries /\ Before(d, e) /\ d # e
  BY UnitFacts, EntryFacts DEF IsLast
<1>2. \A v \in Range(page.units) : \E d \in V : v = Shows(d, delimited)
  BY DEF PageRight, NewUnits
<1>3. CASE g = 0
  <2>1. u = e
    BY <1>1, <1>3, UnitFacts
  <2>2. u \notin Returned(marker)
    <3>1. \A p \in Int : <<p, -1>>[2] = -1
      OBVIOUS
    <3>2. \A p \in Int : e # <<p, -1>>
      BY <3>1, <1>1
    <3> QED BY <2>1, <3>2 DEF Returned, PrefixUnit
  <2>3. \A d \in V : Shows(d, delimited) # u
    BY <1>1, <1>3, SameUnit
  <2> HIDE DEF u, g, V
  <2> QED BY <2>2, <2>3, <1>1, <1>2, UnitsFollow DEF u
<1>4. CASE g # 0
  <2>1. u = PrefixUnit(g) /\ u = <<g, -1>>
    BY <1>1, <1>4, UnitFacts DEF PrefixUnit
  <2>2. marker[1] \in Nat /\ g > marker[1] /\ g # page.group /\ page.group \in Nat
    BY <1>1, <1>4 DEF AlreadyReturned, Key, PageRight, Pages
  <2>3. u \notin Returned(marker)
    <3> SUFFICES ASSUME NEW p \in 1 .. marker[1], u = <<p, -1>> PROVE FALSE
      BY DEF Returned, PrefixUnit, Key
    <3>1. p = g
      BY <2>1
    <3> QED BY <3>1, <2>2
  <2>4. u \notin Range(page.units)
    <3> SUFFICES ASSUME u \in Range(page.units) PROVE FALSE
      OBVIOUS
    <3> DEFINE h == page.group
    <3>1. g <= h
      BY <1>1, <1>4, <2>1 DEF PageRight
    <3>2. h # 0 /\ PrefixUnit(h) \in Range(page.units)
      BY <3>1, <1>1, <1>4, <2>2 DEF PageRight
    <3>3. PICK d \in V : PrefixUnit(h) = Shows(d, delimited)
      BY <3>2, <1>2
    <3> HIDE DEF u, g, V, h
    <3>4. <<h, -1>> = <<g, -1>> \/ Before(<<h, -1>>, <<g, -1>>)
      BY <3>3, <2>1, <1>1, UnitsFollow DEF PrefixUnit, u
    <3>5. h <= g
      <4>1. <<h, -1>>[1] = h /\ <<g, -1>>[1] = g /\ <<h, -1>>[2] = -1 /\ <<g, -1>>[2] = -1
        OBVIOUS
      <4> QED BY <3>4, <4>1, <1>1, <2>2 DEF Before, h
    <3> QED BY <3>1, <3>5, <1>1, <2>2 DEF h
  <2> HIDE DEF u, g, V
  <2> QED BY <2>3, <2>4, <1>1, <1>2, UnitsFollow DEF u
<1> QED BY <1>3, <1>4

\* The units of one entry more.
LEMMA OneMoreUnit ==
  ASSUME NEW T, NEW e \in T, NEW delimited, NEW marker
  PROVE  /\ NewUnits(T, delimited, marker) =
              NewUnits(T \ {e}, delimited, marker) \cup ({Shows(e, delimited)} \ Returned(marker))
         /\ NewUnits(T \ {e}, delimited, marker) \subseteq NewUnits(T, delimited, marker)
BY DEF NewUnits

\* The loop's round keeps the page right: the page was full before,
LEMMA RoundStopped ==
  ASSUME NEW T \in SUBSET Entries, NEW e, IsLast(e, T), NEW max \in Nat \ {0},
         NEW delimited \in BOOLEAN, NEW marker \in Nat \X Nat, NEW page,
         PageRight(page, T \ {e}, delimited, marker, max), page.truncated
  PROVE  PageRight(page, T, delimited, marker, max)
<1> DEFINE V == T \ {e}
<1>1. e \in T /\ \A d \in T : d \in Entries /\ d \in Int \X Int
  BY EntryFacts DEF IsLast
<1>2. PICK e0 \in V : Stops(page, V, delimited, marker, max, e0)
  BY DEF PageRight
<1>3. Before(e0, e) /\ ~Before(e, e0)
  BY <1>1, BeforeOrder DEF IsLast
<1>4. Stops(page, T, delimited, marker, max, e0)
  <2>1. {d \in V : Before(d, e0)} = {d \in T : Before(d, e0)}
    BY <1>3
  <2>2. \A d \in T : Before(page.last, d) => d = e0 \/ Before(e0, d)
    BY <1>2, <1>3 DEF Stops
  <2>3. \A d \in T : Before(d, e0) => Shows(d, delimited) \in Range(page.units) \cup Returned(marker)
    BY <1>2, <2>1 DEF Stops
  <2> QED BY <1>2, <2>1, <2>2, <2>3 DEF Stops
<1>5. Range(page.units) \subseteq NewUnits(T, delimited, marker)
  BY <1>1, OneMoreUnit DEF PageRight
<1> QED BY <1>4, <1>5 DEF PageRight

\* its unit has been returned already,
LEMMA RoundSkips ==
  ASSUME NEW T \in SUBSET Entries, NEW e, IsLast(e, T), NEW max \in Nat \ {0},
         NEW delimited \in BOOLEAN, NEW marker \in Nat \X Nat, NEW page,
         PageRight(page, T \ {e}, delimited, marker, max), ~page.truncated,
         GroupOf(e, delimited) # 0, AlreadyReturned(GroupOf(e, delimited), page, marker)
  PROVE  PageRight([page EXCEPT !.last = e], T, delimited, marker, max)
<1> DEFINE V == T \ {e}
           g == GroupOf(e, delimited)
           next == [page EXCEPT !.last = e]
<1>1. e \in T /\ e \in Entries /\ e \in Nat \X Nat /\ g \in Nat /\ g # 0
  BY EntryFacts, UnitFacts DEF IsLast
<1>2. Shows(e, delimited) \in Range(page.units) \cup Returned(marker)
  <2>1. Shows(e, delimited) = PrefixUnit(g)
    BY DEF Shows
  <2>2. CASE g = page.group
    BY <1>1, <2>1, <2>2 DEF PageRight
  <2>3. CASE g <= Key(marker)
    <3>1. Key(marker) \in Nat
      BY DEF Key
    <3>2. g \in 1 .. Key(marker)
      BY <1>1, <2>3, <3>1
    <3> QED BY <2>1, <3>2 DEF Returned
  <2> QED BY <2>2, <2>3 DEF AlreadyReturned
<1>3. page \in Pages
  BY DEF PageRight
<1>4. /\ next \in Pages /\ next.units = page.units /\ next.group = page.group
      /\ next.truncated = page.truncated /\ next.last = e
  BY <1>1, <1>3 DEF Pages
<1>5. NewUnits(T, delimited, marker) \subseteq Range(page.units)
      /\ Range(page.units) \subseteq NewUnits(T, delimited, marker)
  BY <1>1, <1>2, OneMoreUnit DEF PageRight
<1> HIDE DEF next
<1>6. /\ Len(page.units) <= max /\ Ordered(page.units)
      /\ \A p \in Nat \ {0} : PrefixUnit(p) \in Range(page.units) => p <= page.group
      /\ page.group # 0 => PrefixUnit(page.group) \in Range(page.units)
  BY DEF PageRight
<1>7. PageRight(next, T, delimited, marker, max)
  BY <1>4, <1>5, <1>6 DEF PageRight
<1> QED BY <1>7 DEF next

\* it does not fit,
LEMMA RoundFull ==
  ASSUME NEW T \in SUBSET Entries, NEW e, IsLast(e, T), NEW max \in Nat \ {0},
         NEW delimited \in BOOLEAN, NEW marker \in Nat \X Nat, NEW page,
         PageRight(page, T \ {e}, delimited, marker, max), ~page.truncated, ~Fits(page, max),
         GroupOf(e, delimited) = 0 \/ ~AlreadyReturned(GroupOf(e, delimited), page, marker)
  PROVE  PageRight([page EXCEPT !.truncated = TRUE], T, delimited, marker, max)
<1> DEFINE V == T \ {e}
           next == [page EXCEPT !.truncated = TRUE]
<1>1. e \in T /\ \A d \in V : d \in Int \X Int /\ Before(d, e)
  BY EntryFacts DEF IsLast
<1>2. page \in Pages /\ page.units \in Seq(Int \X Int) /\ Len(page.units) \in Nat /\ Len(page.units) <= max
  BY DEF PageRight, Pages
<1>3. /\ next \in Pages /\ next.units = page.units /\ next.group = page.group
      /\ next.truncated = TRUE /\ next.last = page.last
  BY <1>2 DEF Pages
<1>4. Len(page.units) = max /\ page.units[1] \in Range(page.units)
  <2>1. Len(page.units) = max
    BY <1>2 DEF Fits
  <2>2. 1 \in DOMAIN page.units
    BY <1>2, <2>1
  <2> QED BY <2>1, <2>2 DEF Range
<1>5. /\ Range(page.units) \subseteq NewUnits(V, delimited, marker)
      /\ NewUnits(V, delimited, marker) \subseteq Range(page.units)
  BY DEF PageRight
<1>6. V # {} /\ IsLast(page.last, V)
  <2>1. V # {}
    BY <1>4, <1>5 DEF NewUnits
  <2> QED BY <2>1 DEF PageRight
<1>7. page.last \in V /\ \A d \in V : ~Before(page.last, d)
  BY <1>1, <1>6, BeforeOrder DEF IsLast
<1>8. Stops(page, T, delimited, marker, max, e)
  <2>1. {d \in T : Before(d, e)} = V
    <3>1. e \in Int \X Int
      BY <1>1, EntryFacts
    <3>2. ~Before(e, e)
      BY <3>1, BeforeOrder
    <3> QED BY <3>2, <1>1
  <2>2. Shows(e, delimited) \notin Range(page.units) \cup Returned(marker)
    BY FreshUnit
  <2>3. Range(page.units) \subseteq {Shows(d, delimited) : d \in V}
    BY <1>5 DEF NewUnits
  <2>4. \A d \in V : Shows(d, delimited) \in Range(page.units) \cup Returned(marker)
    BY <1>5 DEF NewUnits
  <2>5. page.last \in T /\ Before(page.last, e) /\ \A d \in T : Before(page.last, d) => d = e
    BY <1>1, <1>7
  <2> QED BY <2>1, <2>2, <2>3, <2>4, <2>5, <1>1, <1>4 DEF Stops
<1>9. Stops(next, T, delimited, marker, max, e)
  BY <1>3, <1>8 DEF Stops
<1>10. Range(page.units) \subseteq NewUnits(T, delimited, marker)
  BY <1>1, <1>5, OneMoreUnit
<1> HIDE DEF next
<1>11. /\ Len(page.units) <= max /\ Ordered(page.units)
       /\ \A p \in Nat \ {0} : PrefixUnit(p) \in Range(page.units) => p <= page.group
       /\ page.group # 0 => PrefixUnit(page.group) \in Range(page.units)
  BY DEF PageRight
<1>12. PageRight(next, T, delimited, marker, max)
  BY <1>1, <1>3, <1>9, <1>10, <1>11 DEF PageRight
<1> QED BY <1>12 DEF next

\* or it is the next unit of the page.
LEMMA RoundEmits ==
  ASSUME NEW T \in SUBSET Entries, NEW e, IsLast(e, T), NEW max \in Nat \ {0},
         NEW delimited \in BOOLEAN, NEW marker \in Nat \X Nat, NEW page,
         PageRight(page, T \ {e}, delimited, marker, max), ~page.truncated, Fits(page, max),
         GroupOf(e, delimited) = 0 \/ ~AlreadyReturned(GroupOf(e, delimited), page, marker),
         NEW group, group = IF GroupOf(e, delimited) = 0 THEN page.group ELSE GroupOf(e, delimited),
         NEW next, next = [page EXCEPT !.units = Append(@, Shows(e, delimited)), !.group = group, !.last = e]
  PROVE  PageRight(next, T, delimited, marker, max)
<1> DEFINE V == T \ {e}
           u == Shows(e, delimited)
           g == GroupOf(e, delimited)
           units2 == Append(page.units, u)
<1>0. next = [page EXCEPT !.units = units2, !.group = group, !.last = e]
  OBVIOUS
<1>1. e \in T /\ e \in Entries /\ e \in Nat \X Nat /\ e[2] \in Nat /\ g \in Nat /\ u \in Int \X Int
  BY EntryFacts, UnitFacts DEF IsLast
<1>2. /\ page \in Pages /\ page.units \in Seq(Int \X Int) /\ Ordered(page.units)
      /\ page.group \in Nat
  BY DEF PageRight, Pages
<1>3. u \notin Range(page.units) \cup Returned(marker) /\ \A v \in Range(page.units) : Before(v, u)
  BY FreshUnit
<1>4. /\ units2 \in Seq(Int \X Int) /\ Ordered(units2) /\ Range(units2) = Range(page.units) \cup {u}
      /\ Len(units2) = Len(page.units) + 1 /\ Len(page.units) \in Nat
  BY <1>1, <1>2, <1>3, AppendUnit
<1>5. group \in Nat
  BY <1>1, <1>2
<1> HIDE DEF units2, u
<1>6. /\ next \in Pages /\ next.units = units2 /\ next.group = group
      /\ next.truncated = page.truncated /\ next.last = e
  BY <1>0, <1>1, <1>2, <1>4, <1>5 DEF Pages
<1>7. Range(units2) \subseteq NewUnits(T, delimited, marker) /\ NewUnits(T, delimited, marker) \subseteq Range(units2)
  <2>1. NewUnits(T, delimited, marker) = NewUnits(V, delimited, marker) \cup {u}
    BY <1>1, <1>3, OneMoreUnit DEF u
  <2>2. Range(page.units) = NewUnits(V, delimited, marker)
    BY DEF PageRight
  <2> QED BY <2>1, <2>2, <1>4
<1>8. Len(units2) <= max
  BY <1>4 DEF Fits
<1>9. ASSUME NEW p \in Nat \ {0}, PrefixUnit(p) \in Range(units2) PROVE p <= group
  <2>1. CASE g = 0
    <3>1. u = e /\ group = page.group
      BY <2>1, <1>1, UnitFacts DEF u
    <3>2. PrefixUnit(p) # e
      <4>1. PrefixUnit(p)[2] = -1
        BY DEF PrefixUnit
      <4> QED BY <4>1, <1>1
    <3>3. PrefixUnit(p) \in Range(page.units)
      BY <3>1, <3>2, <1>4, <1>9
    <3> QED BY <3>1, <3>3 DEF PageRight
  <2>2. CASE g # 0
    <3>1. u = <<g, -1>> /\ group = g
      BY <2>2, <1>1, UnitFacts DEF u
    <3>2. PrefixUnit(p) = u \/ Before(PrefixUnit(p), u)
      BY <1>3, <1>4, <1>9
    <3>3. /\ PrefixUnit(p)[1] = p /\ PrefixUnit(p)[2] = -1
          /\ <<g, -1>>[1] = g /\ <<g, -1>>[2] = -1
      BY DEF PrefixUnit
    <3> HIDE DEF g
    <3> QED BY <3>1, <3>2, <3>3, <1>1 DEF Before
  <2> QED BY <2>1, <2>2
<1>10. group # 0 => PrefixUnit(group) \in Range(units2)
  <2>1. CASE g = 0
    BY <2>1, <1>4 DEF PageRight
  <2>2. CASE g # 0
    BY <2>2, <1>4 DEF u, Shows
  <2> QED BY <2>1, <2>2
<1> QED BY <1>4, <1>6, <1>7, <1>8, <1>9, <1>10 DEF PageRight

\* So every round keeps it.
LEMMA RoundRight ==
  ASSUME NEW T \in SUBSET Entries, NEW e, IsLast(e, T), NEW max \in Nat \ {0},
         NEW delimited \in BOOLEAN, NEW marker \in Nat \X Nat, NEW page,
         PageRight(page, T \ {e}, delimited, marker, max)
  PROVE  PageRight(Step(page, e, GroupOf(e, delimited),
                        AlreadyReturned(GroupOf(e, delimited), page, marker), max),
                   T, delimited, marker, max)
<1> DEFINE g == GroupOf(e, delimited)
           skipped == AlreadyReturned(g, page, marker)
           next == Step(page, e, g, skipped, max)
<1>1. CASE page.truncated
  <2>1. next = page
    BY <1>1 DEF Step
  <2> QED BY <2>1, <1>1, RoundStopped
<1>2. CASE ~page.truncated /\ g # 0 /\ skipped
  <2>1. next = [page EXCEPT !.last = e]
    BY <1>2 DEF Step
  <2> QED BY <2>1, <1>2, RoundSkips
<1>3. CASE ~page.truncated /\ (g = 0 \/ ~skipped) /\ ~Fits(page, max)
  <2>1. next = [page EXCEPT !.truncated = TRUE]
    BY <1>3 DEF Step, Emit
  <2> QED BY <2>1, <1>3, RoundFull
<1>4. CASE ~page.truncated /\ (g = 0 \/ ~skipped) /\ Fits(page, max)
  <2> DEFINE group == IF g = 0 THEN page.group ELSE g
  <2>1. next = [page EXCEPT !.units = Append(@, Shows(e, delimited)), !.group = group, !.last = e]
    BY <1>4 DEF Step, Emit, Shows
  <2>2. group = IF g = 0 THEN page.group ELSE g
    OBVIOUS
  <2> HIDE DEF group, next
  <2>3. PageRight(next, T, delimited, marker, max)
    BY <2>1, <2>2, <1>4, RoundEmits
  <2> QED BY <2>3 DEF next
<1> QED BY <1>1, <1>2, <1>3, <1>4

\* The page of a listing.
LEMMA PageOfRight ==
  ASSUME NEW S \in SUBSET Entries, IsFiniteSet(S), NEW max \in Nat \ {0},
         NEW delimited \in BOOLEAN, NEW marker \in Nat \X Nat
  PROVE  PageRight(PageOf(S, delimited, marker, max), S, delimited, marker, max)
<1> DEFINE f == CHOOSE g : IsBuilt(g, S, delimited, marker, max)
           Right(T) == PageRight(f[T], T, delimited, marker, max)
           N == {n \in Nat : \A T \in SUBSET S : Cardinality(T) = n => Right(T)}
<1>1. S \in SUBSET (Nat \X Nat)
  BY EntryFacts
<1>2. IsBuilt(f, S, delimited, marker, max)
  BY <1>1, BuiltExists
<1>3. PageOf(S, delimited, marker, max) = f[S]
  BY DEF PageOf, IsBuilt, Turn, Round
<1> HIDE DEF f
<1>4. \A T \in SUBSET S : f[T] = Turn(f, T, delimited, marker, max)
  <2> DEFINE h == [T \in SUBSET S |-> Turn(f, T, delimited, marker, max)]
  <2>1. f = h
    BY <1>2 DEF IsBuilt
  <2>2. \A T \in SUBSET S : h[T] = Turn(f, T, delimited, marker, max)
    OBVIOUS
  <2> HIDE DEF h
  <2> QED BY <2>1, <2>2
<1>5. \A T \in SUBSET S : /\ T \in SUBSET (Nat \X Nat) /\ T \in SUBSET Entries
                          /\ IsFiniteSet(T) /\ Cardinality(T) \in Nat
  BY <1>1, FS_Subset, FS_CardinalityType
<1>6. 0 \in N
  <2> SUFFICES ASSUME NEW T \in SUBSET S, Cardinality(T) = 0 PROVE Right(T)
    OBVIOUS
  <2>1. T = {}
    BY <1>5, FS_EmptySet
  <2>2. f[T] = NoPage
    BY <1>4, <2>1 DEF Turn
  <2>3. /\ NoPage.units = <<>> /\ NoPage.truncated = FALSE /\ NoPage.group = 0 /\ NoPage \in Pages
        /\ Len(<<>>) = 0 /\ DOMAIN <<>> = {}
    BY DEF NoPage, Pages, Start
  <2>4. Range(<<>>) = {} /\ Ordered(<<>>)
    BY <2>3 DEF Range, Ordered
  <2>5. NewUnits({}, delimited, marker) = {}
    BY DEF NewUnits
  <2> QED BY <2>1, <2>2, <2>3, <2>4, <2>5 DEF PageRight
<1>7. ASSUME NEW n \in N PROVE n + 1 \in N
  <2> SUFFICES ASSUME NEW T \in SUBSET S, Cardinality(T) = n + 1 PROVE Right(T)
    OBVIOUS
  <2> DEFINE e == LastEntry(T)
             V == T \ {e}
  <2>1. T # {}
    <3>1. n \in Nat
      BY <1>7
    <3>2. Cardinality(T) # 0
      BY <3>1
    <3> QED BY <3>2, FS_EmptySet
  <2>2. IsLast(e, T) /\ e \in T
    BY <2>1, <1>5, LastEntryIsLast DEF IsLast
  <2>3. V \in SUBSET S /\ Cardinality(V) = n
    <3>1. Cardinality(V) = Cardinality(T) - 1
      BY <2>2, <1>5, FS_RemoveElement
    <3> QED BY <3>1, <1>7
  <2>4. Right(V)
    BY <2>3, <1>7
  <2>5. f[T] = Step(f[V], e, GroupOf(e, delimited), AlreadyReturned(GroupOf(e, delimited), f[V], marker), max)
    BY <1>4, <2>1 DEF Turn, Round
  <2> HIDE DEF e
  <2> QED BY <2>2, <2>4, <2>5, <1>5, RoundRight
<1>8. N = Nat
  <2> HIDE DEF N
  <2>1. N \in SUBSET Nat
    BY DEF N
  <2> QED BY <1>6, <1>7, <2>1, NatSetInduction
<1>9. Right(S)
  <2>1. Cardinality(S) \in N /\ S \in SUBSET S
    BY <1>5, <1>8
  <2> QED BY <2>1
<1> QED BY <1>3, <1>9

\* From the entry a page had no room for on, nothing is on it, and nothing
\* was returned before.
LEMMA PastTheStop ==
  ASSUME NEW S \in SUBSET Entries, NEW max \in Nat \ {0}, NEW delimited \in BOOLEAN,
         NEW marker \in Nat \X Nat, \A e \in S : marker[1] <= e[1], NEW page, page.units \in Seq(Int \X Int),
         NEW e0 \in S, Stops(page, S, delimited, marker, max, e0),
         NEW e \in S, e = e0 \/ Before(e0, e)
  PROVE  /\ Shows(e, delimited) \notin Returned(marker)
         /\ \A v \in Range(page.units) : Before(v, Shows(e, delimited))
<1> DEFINE u0 == Shows(e0, delimited)
           u == Shows(e, delimited)
<1>1. /\ e0 \in Entries /\ e \in Entries /\ u0 \in Int \X Int /\ u \in Int \X Int
      /\ e0 \in Int \X Int /\ marker[1] \in Nat
  BY UnitFacts, EntryFacts
<1>2. u = u0 \/ Before(u0, u)
  BY <1>1, UnitsFollow
<1>3. \A v \in Range(page.units) : Before(v, u0) /\ v \in Int \X Int
  <2> SUFFICES ASSUME NEW v \in Range(page.units) PROVE Before(v, u0) /\ v \in Int \X Int
    OBVIOUS
  <2>1. PICK d \in S : Before(d, e0) /\ v = Shows(d, delimited)
    BY DEF Stops
  <2>2. d \in Entries /\ v # u0
    BY DEF Stops
  <2> QED BY <2>1, <2>2, <1>1, UnitsFollow, UnitFacts
<1>4. u \notin Returned(marker)
  <2> SUFFICES ASSUME NEW p \in 1 .. marker[1], u = <<p, -1>> PROVE FALSE
    BY DEF Returned, PrefixUnit, Key
  <2>1. u # u0
    BY DEF Stops, Returned, PrefixUnit, Key
  <2>2. Before(u0, <<p, -1>>)
    BY <1>2, <2>1
  <2>3. GroupOf(e0, delimited) \in Nat /\ GroupOf(e0, delimited) <= e0[1] /\ marker[1] <= e0[1]
        /\ e0[1] \in Nat /\ e0[2] \in Nat
    BY <1>1, UnitFacts, EntryFacts
  <2>4. CASE GroupOf(e0, delimited) = 0
    <3>1. u0 = e0
      BY <1>1, <2>4, UnitFacts
    <3>2. <<p, -1>>[1] = p /\ <<p, -1>>[2] = -1
      OBVIOUS
    <3> HIDE DEF u0
    <3> QED BY <3>1, <3>2, <2>2, <2>3, <1>1 DEF Before
  <2>5. CASE GroupOf(e0, delimited) # 0
    <3> DEFINE g == GroupOf(e0, delimited)
    <3>1. u0 = <<g, -1>>
      BY <1>1, <2>5, UnitFacts
    <3>2. /\ <<p, -1>>[1] = p /\ <<p, -1>>[2] = -1
          /\ <<g, -1>>[1] = g /\ <<g, -1>>[2] = -1
      OBVIOUS
    <3>3. u0 \notin Returned(marker)
      BY DEF Stops
    <3> HIDE DEF u0, g
    <3>4. g < p
      BY <3>1, <3>2, <2>2, <2>3 DEF Before, g
    <3>5. g \in 1 .. marker[1]
      BY <3>4, <2>3, <2>5, <1>1 DEF g
    <3> QED BY <3>1, <3>3, <3>5 DEF Returned, PrefixUnit, Key
  <2> QED BY <2>4, <2>5
<1>5. ASSUME NEW v \in Range(page.units) PROVE Before(v, u)
  BY <1>1, <1>2, <1>3, BeforeOrder
<1> QED BY <1>4, <1>5

\* What a page is, for a reader of it.
FirstUnits(page, S, Shown, New, delimited, max) ==
  /\ Shown \subseteq New /\ Cardinality(Shown) = Len(page.units)
  /\ \A u \in Shown, v \in New \ Shown : Before(u, v)
  /\ page.truncated <=> Shown # New
  /\ Len(page.units) <= max /\ (page.truncated => Len(page.units) = max)
  /\ page.truncated => /\ page.last \in S
                       /\ \A e \in S : ~Before(page.last, e) <=> Shows(e, delimited) \notin New \ Shown
                       /\ Shown \subseteq {Shows(d, delimited) : d \in {e \in S : ~Before(page.last, e)}}

\* The page the loop builds is that.
LEMMA PageShows ==
  ASSUME NEW S \in SUBSET Entries, NEW max \in Nat \ {0}, NEW delimited \in BOOLEAN,
         NEW marker \in Nat \X Nat, \A e \in S : marker[1] <= e[1], NEW page,
         PageRight(page, S, delimited, marker, max)
  PROVE  FirstUnits(page, S, Range(page.units), NewUnits(S, delimited, marker), delimited, max)
<1> DEFINE Shown == Range(page.units)
           New == NewUnits(S, delimited, marker)
<1>1. /\ Shown \subseteq New /\ page.units \in Seq(Int \X Int) /\ page.truncated \in BOOLEAN
      /\ Len(page.units) <= max /\ Ordered(page.units)
  BY DEF PageRight, Pages
<1>2. Cardinality(Shown) = Len(page.units)
  BY <1>1, OrderedCount
<1>3. CASE ~page.truncated
  BY <1>1, <1>2, <1>3 DEF PageRight, FirstUnits
<1>4. CASE page.truncated
  <2>1. PICK e0 \in S : Stops(page, S, delimited, marker, max, e0)
    BY <1>4 DEF PageRight
  <2>2. /\ page.last \in S /\ Before(page.last, e0) /\ Len(page.units) = max
        /\ \A d \in S : Before(page.last, d) => d = e0 \/ Before(e0, d)
        /\ \A d \in S : Before(d, e0) => Shows(d, delimited) \in Shown \cup Returned(marker)
        /\ Shown \subseteq {Shows(d, delimited) : d \in {e \in S : Before(e, e0)}}
    BY <2>1 DEF Stops
  <2>3. \A d \in S : d \in Int \X Int /\ d \in Entries
    BY EntryFacts
  <2>4. \A d \in S : Before(page.last, d) <=> ~Before(d, e0)
    <3> SUFFICES ASSUME NEW d \in S PROVE Before(page.last, d) <=> ~Before(d, e0)
      OBVIOUS
    <3>1. d \in Int \X Int /\ e0 \in Int \X Int /\ page.last \in Int \X Int
      BY <2>2, <2>3
    <3>2. Before(page.last, d) => ~Before(d, e0)
      BY <3>1, <2>2, BeforeOrder
    <3>3. ~Before(d, e0) => Before(page.last, d)
      BY <3>1, <2>2, BeforeOrder
    <3> QED BY <3>2, <3>3
  <2>5. \A d \in S : ~Before(d, e0) => /\ Shows(d, delimited) \notin Returned(marker)
                                       /\ \A v \in Shown : Before(v, Shows(d, delimited))
    <3> SUFFICES ASSUME NEW d \in S, ~Before(d, e0)
                 PROVE  /\ Shows(d, delimited) \notin Returned(marker)
                        /\ \A v \in Shown : Before(v, Shows(d, delimited))
      OBVIOUS
    <3>1. d = e0 \/ Before(e0, d)
      BY <2>2, <2>4
    <3> QED BY <3>1, <2>1, <1>1, PastTheStop
  <2>6. \A d \in S : ~Before(d, e0) => Shows(d, delimited) \in New \ Shown
    <3> SUFFICES ASSUME NEW d \in S, ~Before(d, e0) PROVE Shows(d, delimited) \in New \ Shown
      OBVIOUS
    <3>1. Shows(d, delimited) \in Int \X Int
      BY <2>3, UnitFacts
    <3>2. Shows(d, delimited) \notin Shown
      BY <2>5, <3>1, BeforeOrder
    <3> QED BY <3>2, <2>5 DEF NewUnits
  <2>7. \A d \in S : Before(d, e0) => Shows(d, delimited) \notin New \ Shown
    BY <2>2 DEF NewUnits
  <2>8. \A u \in Shown, v \in New \ Shown : Before(u, v)
    <3> SUFFICES ASSUME NEW u \in Shown, NEW v \in New \ Shown PROVE Before(u, v)
      OBVIOUS
    <3>1. PICK d \in S : v = Shows(d, delimited)
      BY DEF NewUnits
    <3>2. ~Before(d, e0)
      BY <3>1, <2>7
    <3> QED BY <3>1, <3>2, <2>5
  <2>9. Shown # New
    <3>1. e0 \in Int \X Int /\ ~Before(e0, e0)
      BY <2>3, BeforeOrder
    <3> QED BY <3>1, <2>6
  <2>10. Shown \subseteq {Shows(d, delimited) : d \in {e \in S : ~Before(page.last, e)}}
    BY <2>2, <2>4
  <2>11. \A e \in S : ~Before(page.last, e) <=> Shows(e, delimited) \notin New \ Shown
    BY <2>4, <2>6, <2>7
  <2> HIDE DEF Shown, New
  <2> QED BY <2>2, <2>8, <2>9, <2>10, <2>11, <1>1, <1>2, <1>4 DEF FirstUnits, Shown, New
<1> QED BY <1>1, <1>3, <1>4

\* The listing of the state: its delimiter and marker, and the entries ahead.
Delimits == request.api # "parts" /\ request.delimited
Marker == IF request.api = "uploads" THEN cursor ELSE Start
Ahead == {e \in entries : Before(cursor, e)}

\* What the types say of the walk's values.
LEMMA ListShape ==
  ASSUME ListTypes
  PROVE  /\ request.api \in {"objects", "uploads", "parts"} /\ request.max \in Nat /\ request.delimited \in BOOLEAN
         /\ Delimits \in BOOLEAN /\ cursor \in Nat \X Nat /\ Marker \in Nat \X Nat
         /\ cursor # Start => cursor \in Entries /\ cursor \in seen
         /\ seen \in SUBSET Entries /\ entries \in SUBSET Entries /\ lasting \in SUBSET Entries
         /\ IsFiniteSet(entries)
<1>1. request.api \in {"objects", "uploads", "parts"} /\ request.max \in Nat /\ request.delimited \in BOOLEAN
  BY DEF ListTypes, Requests
<1>2. seen \in SUBSET Entries /\ entries \in SUBSET Entries /\ lasting \in SUBSET Entries
  BY DEF ListTypes, Entries
<1>3. Start \in Nat \X Nat
  BY DEF Start
<1>4. cursor \in Nat \X Nat /\ (cursor # Start => cursor \in Entries /\ cursor \in seen)
  BY <1>2, <1>3, EntryFacts DEF ListTypes
<1>5. IsFiniteSet(entries)
  BY FS_Subset DEF ListTypes
<1> QED BY <1>1, <1>2, <1>3, <1>4, <1>5 DEF Delimits, Marker

\* The three ways to say what lies beyond the cursor agree.
LEMMA CursorOrder ==
  ASSUME ListTypes, NEW e \in seen
  PROVE  /\ Before(cursor, e) <=> IF request.api = "uploads" THEN AfterMultipartMarker(e, cursor)
                                                             ELSE Key(e) > Key(cursor)
         /\ Before(cursor, e) => cursor[1] <= e[1]
<1>1. /\ e \in Entries /\ e[1] \in Nat \ {0} /\ e[2] \in Nat /\ cursor[1] \in Nat /\ cursor[2] \in Nat
      /\ e[2] = 0 <=> request.api # "uploads"
  <2>1. e \in Entries /\ cursor \in Nat \X Nat
    BY ListShape
  <2> QED BY <2>1, EntryFacts DEF ListTypes
<1>2. cursor = Start => cursor[1] = 0 /\ cursor[2] = 0
  BY DEF Start
<1>3. cursor # Start => (cursor[2] = 0 <=> request.api # "uploads")
  BY DEF ListTypes
<1>4. CASE request.api = "uploads"
  <2>1. e[2] > 0
    BY <1>1, <1>4
  <2>2. CASE cursor = Start
    BY <1>1, <1>2, <1>4, <2>1, <2>2 DEF Before, AfterMultipartMarker, Key
  <2>3. CASE cursor # Start
    BY <1>1, <1>3, <1>4, <2>1, <2>3 DEF Before, AfterMultipartMarker, Key
  <2> QED BY <2>2, <2>3
<1>5. CASE request.api # "uploads"
  <2>1. e[2] = 0 /\ cursor[2] = 0
    BY <1>1, <1>2, <1>3, <1>5
  <2> QED BY <2>1, <1>1, <1>5 DEF Before, Key
<1> QED BY <1>4, <1>5

\* The unit of an entry in this listing.
LEMMA UnitShown ==
  ASSUME ListTypes, NEW e
  PROVE  UnitOf(e) = Shows(e, Delimits)
<1>1. request.delimited \in BOOLEAN
  BY ListShape
<1> QED BY <1>1 DEF UnitOf, Shows, Delimits, GroupOf

\* The page of the state is right for the entries ahead of the cursor.
LEMMA PageIsRight ==
  ASSUME ListTypes, request.max > 0
  PROVE  /\ Ahead \in SUBSET Entries /\ \A e \in Ahead : Marker[1] <= e[1]
         /\ PageRight(Page, Ahead, Delimits, Marker, request.max)
<1>1. /\ request.api \in {"objects", "uploads", "parts"} /\ request.max \in Nat \ {0}
      /\ Delimits \in BOOLEAN /\ Marker \in Nat \X Nat
      /\ entries \in SUBSET Entries /\ IsFiniteSet(entries)
  BY ListShape
<1>2. Ahead \in SUBSET Entries /\ IsFiniteSet(Ahead)
  BY <1>1, FS_Subset DEF Ahead
<1>3. \A e \in Ahead : Marker[1] <= e[1]
  <2> SUFFICES ASSUME NEW e \in Ahead PROVE Marker[1] <= e[1]
    OBVIOUS
  <2>1. e \in seen /\ Before(cursor, e) /\ e[1] \in Nat
    BY <1>2, EntryFacts DEF Ahead, ListTypes
  <2>2. Start[1] = 0
    BY DEF Start
  <2> QED BY <2>1, <2>2, CursorOrder DEF Marker
<1>4. Page = PageOf(Ahead, Delimits, Marker, request.max)
  <2>1. \A e \in entries : e \in seen
    BY DEF ListTypes
  <2>2. CASE request.api = "objects"
    <3>1. {e \in entries : Key(e) > Key(cursor)} = Ahead
      BY <2>1, <2>2, CursorOrder DEF Ahead
    <3>2. Delimits = request.delimited /\ Marker = Start
      BY <2>2, ListShape DEF Delimits, Marker
    <3> QED BY <2>2, <3>1, <3>2 DEF Page, ListObjectsV2
  <2>3. CASE request.api = "uploads"
    <3>1. {e \in entries : AfterMultipartMarker(e, cursor)} = Ahead
      BY <2>1, <2>3, CursorOrder DEF Ahead
    <3>2. Delimits = request.delimited /\ Marker = cursor
      BY <2>3, ListShape DEF Delimits, Marker
    <3> QED BY <2>3, <3>1, <3>2 DEF Page, ListMultipartUploads
  <2>4. CASE request.api = "parts"
    <3>1. {e \in entries : Key(e) > Key(cursor)} = Ahead
      BY <2>1, <2>4, CursorOrder DEF Ahead
    <3>2. Delimits = FALSE /\ Marker = Start
      BY <2>4 DEF Delimits, Marker
    <3> QED BY <2>4, <3>1, <3>2 DEF Page, ListPartsPage
  <2> QED BY <1>1, <2>2, <2>3, <2>4
<1>5. PageRight(PageOf(Ahead, Delimits, Marker, request.max), Ahead, Delimits, Marker, request.max)
  BY <1>1, <1>2, PageOfRight
<1> QED BY <1>2, <1>3, <1>4, <1>5

\* What the page is, in the words of the listing.
LEMMA PageSays ==
  ASSUME ListTypes, request.max > 0
  PROVE  /\ Page.units \in Seq(Int \X Int) /\ Ordered(Page.units) /\ Page.truncated \in BOOLEAN
         /\ FirstUnits(Page, Ahead, Range(Page.units), {UnitOf(e) : e \in Ahead} \ Returned(Marker),
                       Delimits, request.max)
<1>1. /\ Ahead \in SUBSET Entries /\ \A e \in Ahead : Marker[1] <= e[1]
      /\ PageRight(Page, Ahead, Delimits, Marker, request.max)
  BY PageIsRight
<1>2. request.max \in Nat \ {0} /\ Delimits \in BOOLEAN /\ Marker \in Nat \X Nat
  BY ListShape
<1>3. {UnitOf(e) : e \in Ahead} \ Returned(Marker) = NewUnits(Ahead, Delimits, Marker)
  BY UnitShown DEF NewUnits
<1>4. Page.units \in Seq(Int \X Int) /\ Ordered(Page.units) /\ Page.truncated \in BOOLEAN
  BY <1>1 DEF PageRight, Pages
<1>5. FirstUnits(Page, Ahead, Range(Page.units), NewUnits(Ahead, Delimits, Marker), Delimits, request.max)
  BY <1>1, <1>2, PageShows
<1> QED BY <1>3, <1>4, <1>5

\* Every page is the first units of what lies beyond the cursor.
LEMMA PagesAreFirst == ListTypes => PageIsFirstUnits
<1> SUFFICES ASSUME ListTypes, request.max > 0
             PROVE  PageIsFirstUnits
  BY DEF PageIsFirstUnits
<1> DEFINE Beyond == {e \in entries : IF request.api = "uploads" THEN AfterMultipartMarker(e, cursor)
                                                                 ELSE Key(e) > Key(cursor)}
           New == {UnitOf(e) : e \in Beyond} \
                    IF request.api = "uploads" THEN {PrefixUnit(p) : p \in 1 .. Key(cursor)} ELSE {}
           Shown == Range(Page.units)
<1>1. Beyond = Ahead
  BY CursorOrder DEF Ahead, ListTypes
<1>2. Returned(Marker) = IF request.api = "uploads" THEN {PrefixUnit(p) : p \in 1 .. Key(cursor)} ELSE {}
  <2>1. Key(Start) = 0 /\ 1 .. 0 = {}
    BY DEF Start, Key
  <2> QED BY <2>1 DEF Returned, Marker
<1>3. New = {UnitOf(e) : e \in Ahead} \ Returned(Marker)
  BY <1>1, <1>2
<1> HIDE DEF Beyond, New, Shown
<1>4. FirstUnits(Page, Ahead, Shown, New, Delimits, request.max)
  BY <1>3, PageSays DEF Shown
<1>5. \A e : UnitOf(e) = Shows(e, Delimits)
  BY UnitShown
<1>6. /\ Shown \subseteq New /\ Cardinality(Shown) = Len(Page.units)
      /\ \A u \in Shown, v \in New \ Shown : Before(u, v)
      /\ Page.truncated <=> Shown # New
      /\ Len(Page.units) <= request.max /\ (Page.truncated => Len(Page.units) = request.max)
      /\ Page.truncated => \A e \in Ahead : ~Before(Page.last, e) <=> UnitOf(e) \notin New \ Shown
  BY <1>4, <1>5 DEF FirstUnits
<1> QED BY <1>1, <1>6 DEF PageIsFirstUnits, Beyond, New, Shown

\* Two listings one after the other.
LEMMA ConcatUnits ==
  ASSUME NEW s \in Seq(Int \X Int), NEW t \in Seq(Int \X Int)
  PROVE  /\ s \o t \in Seq(Int \X Int) /\ Range(s \o t) = Range(s) \cup Range(t)
         /\ \A i, j \in DOMAIN (s \o t) : i < j =>
              \/ i \in DOMAIN s /\ j \in DOMAIN s /\ (s \o t)[i] = s[i] /\ (s \o t)[j] = s[j]
              \/ (s \o t)[i] \in Range(s) /\ (s \o t)[j] \in Range(t)
              \/ \E k, l \in DOMAIN t : k < l /\ (s \o t)[i] = t[k] /\ (s \o t)[j] = t[l]
<1> DEFINE S == Int \X Int
           r == s \o t
           m == Len(s)
           n == Len(t)
<1>1. s \in Seq(S) /\ t \in Seq(S)
  OBVIOUS
<1> HIDE DEF S
<1>2. m \in Nat /\ n \in Nat /\ DOMAIN s = 1 .. m /\ DOMAIN t = 1 .. n
  BY <1>1
<1>3. r \in Seq(S) /\ Len(r) = m + n
  BY <1>1
<1>4. DOMAIN r = 1 .. m + n
  BY <1>3
<1>5. \A i \in 1 .. m + n : r[i] = IF i <= m THEN s[i] ELSE t[i - m]
  BY <1>1
<1> HIDE DEF r, m, n
<1>6. \A i \in 1 .. m + n : IF i <= m THEN i \in 1 .. m ELSE i - m \in 1 .. n
  BY <1>2
<1>7. (\A i \in 1 .. m : i \in 1 .. m + n) /\ (\A k \in 1 .. n : k + m \in 1 .. m + n /\ ~(k + m <= m) /\ (k + m) - m = k)
  BY <1>2
<1>8. Range(r) = Range(s) \cup Range(t)
  <2>1. ASSUME NEW i \in 1 .. m + n PROVE r[i] \in Range(s) \cup Range(t)
    BY <1>2, <1>5, <1>6 DEF Range
  <2>2. ASSUME NEW i \in 1 .. m PROVE s[i] \in Range(r)
    <3>1. i <= m /\ i \in 1 .. m + n
      BY <1>2, <1>7
    <3>2. r[i] = s[i]
      BY <3>1, <1>5
    <3> QED BY <3>1, <3>2, <1>4 DEF Range
  <2>3. ASSUME NEW k \in 1 .. n PROVE t[k] \in Range(r)
    <3>1. r[k + m] = t[k]
      BY <1>5, <1>7
    <3> QED BY <3>1, <1>4, <1>7 DEF Range
  <2>4. /\ Range(r) = {r[i] : i \in 1 .. m + n} /\ Range(s) = {s[i] : i \in 1 .. m}
        /\ Range(t) = {t[i] : i \in 1 .. n}
    BY <1>2, <1>4 DEF Range
  <2> QED BY <2>1, <2>2, <2>3, <2>4
<1>9. ASSUME NEW i \in 1 .. m + n, NEW j \in 1 .. m + n, i < j
      PROVE  \/ i \in DOMAIN s /\ j \in DOMAIN s /\ r[i] = s[i] /\ r[j] = s[j]
             \/ r[i] \in Range(s) /\ r[j] \in Range(t)
             \/ \E k, l \in DOMAIN t : k < l /\ r[i] = t[k] /\ r[j] = t[l]
  <2>1. CASE j <= m
    <3>1. i <= m
      BY <2>1, <1>2, <1>9
    <3> QED BY <2>1, <3>1, <1>2, <1>5, <1>6
  <2>2. CASE i <= m /\ ~(j <= m)
    BY <2>2, <1>2, <1>5, <1>6 DEF Range
  <2>3. CASE ~(i <= m) /\ ~(j <= m)
    <3>1. i - m \in 1 .. n /\ j - m \in 1 .. n /\ i - m < j - m
      BY <2>3, <1>2, <1>6, <1>9
    <3>2. r[i] = t[i - m] /\ r[j] = t[j - m]
      BY <2>3, <1>5
    <3>3. i - m \in DOMAIN t /\ j - m \in DOMAIN t
      BY <3>1, <1>2
    <3> QED BY <3>1, <3>2, <3>3
  <2>4. j <= m => i <= m
    BY <1>2, <1>9
  <2> QED BY <2>1, <2>2, <2>3, <2>4
<1>10. r \in Seq(Int \X Int)
  BY <1>3 DEF S
<1>11. \A i, j \in DOMAIN r : i < j =>
         \/ i \in DOMAIN s /\ j \in DOMAIN s /\ r[i] = s[i] /\ r[j] = s[j]
         \/ r[i] \in Range(s) /\ r[j] \in Range(t)
         \/ \E k, l \in DOMAIN t : k < l /\ r[i] = t[k] /\ r[j] = t[l]
  BY <1>4, <1>9
<1> QED BY <1>8, <1>10, <1>11, Zenon DEF r

\* A unit an earlier page of uploads has returned is in the listing.
LEMMA ReturnedIsListed ==
  ASSUME ListTypes, CursorInv, walk = "paging", NEW e \in Ahead, UnitOf(e) \in Returned(Marker)
  PROVE  UnitOf(e) \in Range(units)
<1>1. /\ e \in seen /\ Before(cursor, e) /\ e \in Entries /\ Delimits \in BOOLEAN /\ cursor \in Nat \X Nat
      /\ e[1] \in Nat /\ e[2] \in Nat
  BY ListShape, EntryFacts DEF Ahead, ListTypes
<1>2. PICK p \in 1 .. Marker[1] : UnitOf(e) = <<p, -1>>
  BY DEF Returned, PrefixUnit, Key
<1>3. Marker = cursor /\ p \in Nat \ {0} /\ p <= cursor[1] /\ cursor[1] \in Nat
  <2>1. Start[1] = 0
    BY DEF Start
  <2>2. Marker = Start \/ Marker = cursor
    BY DEF Marker
  <2>3. Marker # Start
    BY <2>1, <1>2
  <2> QED BY <2>2, <2>3, <1>1, <1>2
<1>4. cursor # Start
  <2>1. Start[1] = 0
    BY DEF Start
  <2> QED BY <2>1, <1>3
<1>5. cursor \in Entries /\ cursor[1] <= e[1]
  BY <1>1, <1>4, ListShape, CursorOrder
<1>6. Shows(e, Delimits) = <<p, -1>>
  BY <1>2, UnitShown
<1>7. GroupOf(e, Delimits) # 0 /\ GroupOf(e, Delimits) = p
  <2> DEFINE g == GroupOf(e, Delimits)
  <2>1. g # 0
    <3> SUFFICES ASSUME g = 0 PROVE FALSE
      OBVIOUS
    <3>1. e = <<p, -1>>
      BY <1>1, <1>6, UnitFacts
    <3>2. <<p, -1>>[2] = -1
      OBVIOUS
    <3> QED BY <3>1, <3>2, <1>1
  <2>2. <<g, -1>> = <<p, -1>>
    BY <2>1, <1>1, <1>6, UnitFacts
  <2> HIDE DEF g
  <2>3. g = p
    BY <2>2
  <2> QED BY <2>1, <2>3 DEF g
<1>8. Shows(cursor, Delimits) = Shows(e, Delimits)
  BY <1>1, <1>3, <1>5, <1>7, GroupKept
<1>9. UnitOf(cursor) = UnitOf(e)
  BY <1>8, UnitShown
<1> QED BY <1>4, <1>9 DEF CursorInv

\* What one page lists follows what the pages before it have listed.
LEMMA PagesFollow ==
  ASSUME ListTypes, CursorInv, walk = "paging", request.max > 0,
         NEW v \in Range(units), NEW w \in Range(Page.units)
  PROVE  Before(v, w) \/ (v = w /\ v[2] = -1 /\ AddedUnder(v))
<1>1. PICK d \in seen : ~Before(cursor, d) /\ v = UnitOf(d)
  BY DEF CursorInv
<1>2. w \in {UnitOf(e) : e \in Ahead} /\ w \notin Returned(Marker)
  BY PageSays DEF FirstUnits
<1>3. PICK e \in Ahead : w = UnitOf(e)
  BY <1>2
<1>4. /\ e \in seen /\ e \in Entries /\ d \in Entries /\ Before(cursor, e) /\ Delimits \in BOOLEAN
      /\ v = Shows(d, Delimits) /\ w = Shows(e, Delimits)
  BY <1>1, <1>3, ListShape, UnitShown DEF Ahead, ListTypes
<1>5. d \in Int \X Int /\ e \in Int \X Int /\ cursor \in Int \X Int
  BY <1>4, EntryFacts, ListShape
<1>6. Before(d, e) /\ d # e
  BY <1>1, <1>4, <1>5, BeforeOrder
<1>7. v = w \/ Before(v, w)
  BY <1>4, <1>6, UnitsFollow
<1>8. ASSUME v = w PROVE v[2] = -1 /\ AddedUnder(v)
  <2> DEFINE g == GroupOf(e, Delimits)
  <2>1. g # 0 /\ GroupOf(d, Delimits) = g /\ w = PrefixUnit(g)
    BY <1>4, <1>6, <1>8, SameUnit
  <2>2. g \in Nat /\ g <= d[1] /\ d[1] \in Nat /\ cursor[1] \in Nat
    BY <1>4, <2>1, UnitFacts, EntryFacts, ListShape
  <2>3. d[1] <= cursor[1]
    BY <1>1, <2>2 DEF Before
  <2>4. request.api # "uploads"
    <3> SUFFICES ASSUME request.api = "uploads" PROVE FALSE
      OBVIOUS
    <3>1. g \in 1 .. cursor[1]
      BY <2>1, <2>2, <2>3
    <3>2. Marker = cursor
      BY DEF Marker
    <3> QED BY <2>1, <3>1, <3>2, <1>2 DEF Returned, Key
  <2>5. request.api = "objects"
    <3>1. request.api # "parts"
      BY <2>1 DEF Delimits, GroupOf
    <3> QED BY <3>1, <2>4, ListShape
  <2>6. e \notin lasting
    BY <2>4, <1>3, <1>4, <1>8 DEF CursorInv
  <2>7. v[2] = -1
    BY <2>1, <1>8 DEF PrefixUnit
  <2> QED BY <2>5, <2>6, <2>7, <1>3, <1>4, <1>8 DEF AddedUnder
<1> QED BY <1>7, <1>8

\* The next page keeps the listing in order, and made of what has existed.
LEMMA NextPageLists ==
  ASSUME WalkInv, walk = "paging", request.max > 0
  PROVE  /\ units \o Page.units \in Seq(Int \X Int)
         /\ Range(units \o Page.units) = Range(units) \cup Range(Page.units)
         /\ Range(units \o Page.units) \subseteq {UnitOf(e) : e \in seen}
         /\ \A i, j \in DOMAIN (units \o Page.units) : i < j =>
              LET s == units \o Page.units
              IN Before(s[i], s[j]) \/ (s[i] = s[j] /\ s[i][2] = -1 /\ AddedUnder(s[i]))
<1> DEFINE t == Page.units
           s == units \o t
<1>1. ListTypes /\ CursorInv /\ ListedHaveExisted /\ ListedOnce
  BY DEF WalkInv
<1>2. units \in Seq(Int \X Int) /\ t \in Seq(Int \X Int) /\ Ordered(t)
  BY <1>1, PageSays DEF ListTypes
<1>3. /\ s \in Seq(Int \X Int) /\ Range(s) = Range(units) \cup Range(t)
      /\ \A i, j \in DOMAIN s : i < j =>
           \/ i \in DOMAIN units /\ j \in DOMAIN units /\ s[i] = units[i] /\ s[j] = units[j]
           \/ s[i] \in Range(units) /\ s[j] \in Range(t)
           \/ \E k, l \in DOMAIN t : k < l /\ s[i] = t[k] /\ s[j] = t[l]
  BY <1>2, ConcatUnits
<1> HIDE DEF s
<1>4. Range(t) \subseteq {UnitOf(e) : e \in seen}
  <2>1. Range(t) \subseteq {UnitOf(e) : e \in Ahead}
    BY <1>1, PageSays DEF FirstUnits
  <2>2. Ahead \subseteq seen
    BY <1>1 DEF Ahead, ListTypes
  <2> QED BY <2>1, <2>2
<1>5. ASSUME NEW i \in DOMAIN s, NEW j \in DOMAIN s, i < j
      PROVE  Before(s[i], s[j]) \/ (s[i] = s[j] /\ s[i][2] = -1 /\ AddedUnder(s[i]))
  <2>1. CASE i \in DOMAIN units /\ j \in DOMAIN units /\ s[i] = units[i] /\ s[j] = units[j]
    BY <2>1, <1>1, <1>5 DEF ListedOnce
  <2>2. CASE s[i] \in Range(units) /\ s[j] \in Range(t)
    BY <2>2, <1>1, PagesFollow
  <2>3. CASE \E k, l \in DOMAIN t : k < l /\ s[i] = t[k] /\ s[j] = t[l]
    BY <2>3, <1>2 DEF Ordered
  <2> QED BY <2>1, <2>2, <2>3, <1>3, <1>5
<1>6. Range(s) \subseteq {UnitOf(e) : e \in seen}
  BY <1>1, <1>3, <1>4 DEF ListedHaveExisted
<1> QED BY <1>3, <1>5, <1>6 DEF s

\* A request for a next page keeps the invariant.
LEMMA NextPageKeeps ==
  ASSUME WalkInv, NextPage
  PROVE  WalkInv'
<1>1. /\ walk = "paging" /\ units' = units \o Page.units
      /\ UNCHANGED <<request, container, entries, lasting, seen>>
      /\ IF Page.truncated THEN cursor' = NextCursor(Page) /\ walk' = walk
         ELSE walk' = "done" /\ cursor' = cursor
  BY DEF NextPage
<1>2. ListTypes /\ CursorInv /\ ListedHaveExisted /\ ListedOnce /\ LastingAreListed
  BY DEF WalkInv
<1>3. (\A e : UnitOf(e)' = UnitOf(e)) /\ \A u : AddedUnder(u)' = AddedUnder(u)
  BY <1>1 DEF UnitOf, AddedUnder
<1>4. CASE request.max = 0
  <2>1. Page = NoPage /\ NoPage.truncated = FALSE /\ NoPage.units = <<>>
    <3>1. \A S, delimited, marker : PageOf(S, delimited, marker, 0) = NoPage
      BY DEF PageOf
    <3> QED BY <3>1, <1>4 DEF Page, ListObjectsV2, ListMultipartUploads, ListPartsPage, NoPage
  <2>2. units \o <<>> = units
    BY <1>2 DEF ListTypes
  <2>3. units' = units /\ walk' = "done" /\ cursor' = cursor
    BY <2>1, <2>2, <1>1
  <2>4. ListTypes'
    BY <2>3, <1>1, <1>2 DEF ListTypes
  <2>5. ListedHaveExisted' /\ ListedOnce'
    BY <2>3, <1>1, <1>2, <1>3 DEF ListedHaveExisted, ListedOnce
  <2>6. CursorInv' /\ LastingAreListed'
    BY <2>3, <1>1, <1>4 DEF CursorInv, LastingAreListed
  <2> QED BY <2>4, <2>5, <2>6 DEF WalkInv
<1>5. CASE request.max > 0
  <2> DEFINE Shown == Range(Page.units)
             New == {UnitOf(e) : e \in Ahead} \ Returned(Marker)
  <2>1. /\ units' \in Seq(Int \X Int) /\ Range(units') = Range(units) \cup Shown
        /\ Range(units') \subseteq {UnitOf(e) : e \in seen}
        /\ \A i, j \in DOMAIN units' : i < j =>
             Before(units'[i], units'[j]) \/ (units'[i] = units'[j] /\ units'[i][2] = -1 /\ AddedUnder(units'[i]))
    BY <1>1, <1>5, NextPageLists
  <2>2. FirstUnits(Page, Ahead, Shown, New, Delimits, request.max) /\ Page.truncated \in BOOLEAN
    BY <1>2, <1>5, PageSays
  <2>3. ListedHaveExisted'
    BY <2>1, <1>1, <1>3 DEF ListedHaveExisted
  <2>4. ListedOnce'
    BY <2>1, <1>3 DEF ListedOnce
  <2>5. \A e \in Ahead : UnitOf(e) \in New \/ UnitOf(e) \in Range(units)
    BY <1>1, <1>2, ReturnedIsListed
  <2> HIDE DEF Shown, New
  <2>6. CASE ~Page.truncated
    <3>1. walk' = "done" /\ cursor' = cursor /\ Shown = New
      BY <2>2, <2>6, <1>1 DEF FirstUnits
    <3>2. ListTypes'
      BY <3>1, <2>1, <1>1, <1>2 DEF ListTypes
    <3>3. ASSUME NEW e \in lasting PROVE UnitOf(e) \in Range(units')
      <4>1. CASE Before(cursor, e)
        <5>1. e \in Ahead
          BY <4>1, <1>2 DEF Ahead, ListTypes
        <5> QED BY <5>1, <3>1, <2>1, <2>5
      <4>2. CASE ~Before(cursor, e)
        BY <4>2, <2>1, <1>1, <1>2, <1>5 DEF CursorInv
      <4> QED BY <4>1, <4>2
    <3>4. LastingAreListed' /\ CursorInv'
      BY <3>1, <3>3, <1>1, <1>3 DEF LastingAreListed, CursorInv
    <3> QED BY <3>2, <3>4, <2>3, <2>4 DEF WalkInv
  <2>7. CASE Page.truncated
    <3> DEFINE last == Page.last
    <3>1. /\ last \in Ahead /\ walk' = walk
          /\ \A e \in Ahead : ~Before(last, e) <=> UnitOf(e) \notin New \ Shown
          /\ Shown \subseteq {UnitOf(d) : d \in {e \in Ahead : ~Before(last, e)}}
      <4>1. \A e : UnitOf(e) = Shows(e, Delimits)
        BY <1>2, UnitShown
      <4> QED BY <4>1, <2>2, <2>7, <1>1 DEF FirstUnits
    <3>2. last \in entries /\ last \in seen /\ last \in Entries /\ Before(cursor, last)
      BY <3>1, <1>2, ListShape DEF Ahead, ListTypes
    <3>3. cursor' = last
      <4>1. CASE request.api = "uploads"
        BY <4>1, <2>7, <1>1 DEF NextCursor
      <4>2. CASE request.api # "uploads"
        <5>1. last[2] = 0 /\ last = <<last[1], last[2]>>
          BY <4>2, <3>2, <1>2, EntryFacts DEF ListTypes
        <5> QED BY <5>1, <4>2, <2>7, <1>1 DEF NextCursor, Key
      <4> QED BY <4>1, <4>2
    <3> HIDE DEF last
    <3>4. \A d \in seen : d \in Int \X Int
      BY <1>2, ListShape, EntryFacts
    <3>5. cursor \in Int \X Int /\ last \in Int \X Int
      BY <1>2, ListShape, <3>2, <3>4
    <3>6. \A d \in seen : Before(last, d) => Before(cursor, d)
      BY <3>2, <3>4, <3>5, BeforeOrder
    <3>7. \A e \in Ahead : ~Before(last, e) => UnitOf(e) \in Range(units')
      BY <3>1, <2>1, <2>5
    <3>8. ListTypes'
      BY <3>1, <3>2, <3>3, <2>1, <1>1, <1>2 DEF ListTypes
    <3>9. Range(units') \subseteq {UnitOf(d) : d \in {e \in seen : ~Before(last, e)}}
      <4>1. Range(units) \subseteq {UnitOf(d) : d \in {e \in seen : ~Before(cursor, e)}}
        BY <1>1, <1>2 DEF CursorInv
      <4>2. Ahead \subseteq seen
        BY <1>2 DEF Ahead, ListTypes
      <4> QED BY <4>1, <4>2, <3>1, <3>6, <2>1
    <3>10. UnitOf(last) \in Range(units')
      <4>1. ~Before(last, last)
        BY <3>5, BeforeOrder
      <4> QED BY <4>1, <3>1, <3>7
    <3>11. ASSUME NEW e \in lasting, ~Before(last, e) PROVE UnitOf(e) \in Range(units')
      <4>1. CASE Before(cursor, e)
        <5>1. e \in Ahead
          BY <4>1, <1>2 DEF Ahead, ListTypes
        <5> QED BY <5>1, <3>7, <3>11
      <4>2. CASE ~Before(cursor, e)
        BY <4>2, <2>1, <1>1, <1>2, <1>5 DEF CursorInv
      <4> QED BY <4>1, <4>2
    <3>12. ASSUME request.api # "uploads", NEW e \in lasting, Before(last, e) PROVE UnitOf(e) \notin Range(units')
      <4>1. e \in seen /\ e \in entries /\ Before(cursor, e)
        BY <3>6, <3>12, <1>2 DEF ListTypes
      <4>2. e \in Ahead
        BY <4>1 DEF Ahead
      <4>3. UnitOf(e) \notin Shown
        BY <4>2, <3>1, <3>12
      <4>4. UnitOf(e) \notin Range(units)
        BY <4>1, <3>12, <1>1, <1>2 DEF CursorInv
      <4> QED BY <4>3, <4>4, <2>1
    <3>13. CursorInv'
      BY <3>3, <3>9, <3>10, <3>11, <3>12, <1>1, <1>3 DEF CursorInv
    <3>14. LastingAreListed'
      BY <3>1, <1>1 DEF LastingAreListed
    <3> QED BY <3>8, <3>13, <3>14, <2>3, <2>4 DEF WalkInv
  <2> QED BY <2>2, <2>6, <2>7
<1>6. request.max \in Nat
  BY <1>2, ListShape
<1> QED BY <1>4, <1>5, <1>6

\* A change to the entries keeps the invariant.
LEMMA ChangeKeeps ==
  ASSUME WalkInv, NEW now, Changes(now), container' \in BOOLEAN,
         now \in SUBSET Entries, IsFiniteSet(now), \A e \in now : e[2] = 0 <=> request.api # "uploads"
  PROVE  WalkInv'
<1>1. /\ request' = [request EXCEPT !.changes = @ - 1] /\ request.changes > 0
      /\ entries' = now /\ lasting' = lasting \cap now /\ seen' = seen \cup now
      /\ cursor' = cursor /\ units' = units /\ walk' = walk
  BY DEF Changes
<1>2. ListTypes /\ CursorInv /\ ListedHaveExisted /\ ListedOnce /\ LastingAreListed
  BY DEF WalkInv
<1>3. /\ request' \in Requests /\ request'.api = request.api /\ request'.delimited = request.delimited
      /\ request'.max = request.max
  <2>1. request \in Requests /\ request.changes \in Nat /\ request.changes - 1 \in Nat
    BY <1>1, <1>2 DEF ListTypes, Requests
  <2> QED BY <2>1, <1>1 DEF Requests
<1>4. \A e : UnitOf(e)' = UnitOf(e)
  BY <1>3 DEF UnitOf
<1>5. \A u : AddedUnder(u) => AddedUnder(u)'
  BY <1>1, <1>3, <1>4 DEF AddedUnder
<1>6. ListTypes'
  <2>1. IsFiniteSet(seen \cup now)
    BY <1>2, FS_Union DEF ListTypes
  <2>2. seen \cup now \in SUBSET (Keys \X Nat)
    BY <1>2 DEF ListTypes, Entries
  <2> QED BY <2>1, <2>2, <1>1, <1>2, <1>3 DEF ListTypes
<1>7. ListedHaveExisted'
  BY <1>1, <1>2, <1>4 DEF ListedHaveExisted
<1>8. ListedOnce'
  BY <1>1, <1>2, <1>5 DEF ListedOnce
<1>9. LastingAreListed'
  BY <1>1, <1>2, <1>3, <1>4 DEF LastingAreListed
<1>10. CursorInv'
  BY <1>1, <1>2, <1>3, <1>4 DEF CursorInv
<1> QED BY <1>6, <1>7, <1>8, <1>9, <1>10 DEF WalkInv

\* A new upload id is a natural number, and not 0.
LEMMA NewIdType ==
  ASSUME ListTypes
  PROVE  NewId \in Nat /\ (NewId = 0 <=> request.api # "uploads")
<1> DEFINE I == {0} \cup {e[2] : e \in seen}
           f == [e \in seen |-> e[2]]
           h == [i \in I |-> <<i, 0>>]
           P == {h[i] : i \in I}
<1>1. I \in SUBSET Nat /\ IsFiniteSet(I) /\ 0 \in I
  <2>1. \A e \in seen : e[2] \in Nat
    BY DEF ListTypes
  <2>2. f \in Surjection(seen, {e[2] : e \in seen})
    BY DEF Surjection
  <2>3. IsFiniteSet({e[2] : e \in seen})
    BY <2>2, FS_Surjection DEF ListTypes
  <2>4. IsFiniteSet({0} \cup {e[2] : e \in seen})
    BY <2>3, FS_Singleton, FS_Union
  <2> QED BY <2>1, <2>4
<1> HIDE DEF I
<1>2. P \in SUBSET (Nat \X Nat) /\ IsFiniteSet(P) /\ P # {} /\ \A i \in I : <<i, 0>> \in P
  <2>1. \A i \in I : h[i] = <<i, 0>> /\ <<i, 0>> \in Nat \X Nat
    BY <1>1
  <2>2. h \in Surjection(I, P)
    BY DEF Surjection
  <2>3. IsFiniteSet(P)
    BY <1>1, <2>2, FS_Surjection
  <2>4. P \in SUBSET (Nat \X Nat) /\ P # {} /\ \A i \in I : <<i, 0>> \in P
    <3> HIDE DEF h
    <3>1. \A i \in I : <<i, 0>> \in P
      BY <2>1
    <3>2. \A d \in P : d \in Nat \X Nat
      BY <2>1
    <3> QED BY <3>1, <3>2, <1>1
  <2> QED BY <2>3, <2>4
<1>3. IsLast(LastEntry(P), P)
  <2> HIDE DEF P
  <2> QED BY <1>2, LastEntryIsLast
<1>4. PICK m \in I : LastEntry(P) = <<m, 0>>
  <2>1. PICK i \in I : LastEntry(P) = h[i]
    BY <1>3 DEF IsLast
  <2> QED BY <2>1
<1> HIDE DEF P, h
<1>5. \A i \in I : m >= i
  <2> SUFFICES ASSUME NEW i \in I PROVE m >= i
    OBVIOUS
  <2>1. <<i, 0>> = <<m, 0>> \/ Before(<<i, 0>>, <<m, 0>>)
    BY <1>2, <1>3, <1>4 DEF IsLast
  <2>2. i \in Nat /\ m \in Nat
    BY <1>1
  <2> QED BY <2>1, <2>2 DEF Before
<1>6. Max(I) \in I
  BY <1>5 DEF Max
<1>7. Max(I) \in Nat /\ 1 + Max(I) \in Nat /\ 1 + Max(I) # 0
  <2>1. \A n \in Nat : 1 + n \in Nat /\ 1 + n # 0
    OBVIOUS
  <2>2. Max(I) \in Nat
    BY <1>1, <1>6
  <2> QED BY <2>1, <2>2
<1> QED BY <1>7 DEF NewId, I

\* The other clients keep the invariant.
LEMMA OthersKeep ==
  ASSUME WalkInv, AddEntry \/ RemoveEntry \/ RemoveContainer \/ CreateBucket
  PROVE  WalkInv'
<1>1. ListTypes /\ container \in BOOLEAN
  BY DEF WalkInv, ListTypes
<1>2. entries \in SUBSET Entries /\ IsFiniteSet(entries) /\ \A e \in entries : e[2] = 0 <=> request.api # "uploads"
  BY <1>1, ListShape DEF ListTypes
<1>3. CASE AddEntry
  <2>1. PICK k \in Keys : Changes(entries \cup {<<k, NewId>>}) /\ container' = container
    BY <1>3 DEF AddEntry
  <2> DEFINE e == <<k, NewId>>
             now == entries \cup {e}
  <2>2. e \in Entries /\ e[2] = NewId
    BY <1>1, NewIdType DEF Entries
  <2>3. e[2] = 0 <=> request.api # "uploads"
    BY <2>2, <1>1, NewIdType
  <2>4. Changes(now)
    BY <2>1
  <2> HIDE DEF e
  <2>5. now \in SUBSET Entries /\ IsFiniteSet(now) /\ \A d \in now : d[2] = 0 <=> request.api # "uploads"
    BY <2>2, <2>3, <1>2, FS_AddElement
  <2> HIDE DEF now
  <2> QED BY <2>1, <2>4, <2>5, <1>1, ChangeKeeps
<1>4. CASE RemoveEntry
  <2>1. PICK e \in entries : Changes(entries \ {e}) /\ container' = container
    BY <1>4 DEF RemoveEntry
  <2>2. IsFiniteSet(entries \ {e})
    BY <1>2, FS_Subset
  <2> QED BY <2>1, <2>2, <1>1, <1>2, ChangeKeeps
<1>5. CASE RemoveContainer
  <2>1. Changes({}) /\ container' = FALSE
    BY <1>5 DEF RemoveContainer
  <2> QED BY <2>1, FS_EmptySet, ChangeKeeps
<1>6. CASE CreateBucket
  <2>1. Changes(entries) /\ container' = TRUE
    BY <1>6 DEF CreateBucket
  <2> QED BY <2>1, <1>2, ChangeKeeps
<1> QED BY <1>3, <1>4, <1>5, <1>6

\* The invariant of a walk holds initially, and every step keeps it.
LEMMA WalkStarts == ListInit => WalkInv
<1> SUFFICES ASSUME ListInit PROVE WalkInv
  OBVIOUS
<1>1. /\ request \in ListInstances /\ container = TRUE /\ entries = request.from
      /\ cursor = Start /\ units = <<>> /\ walk = "paging" /\ lasting = entries /\ seen = entries
  BY DEF ListInit
<1>2. request \in Requests /\ request.from \in SUBSET (Keys \X Nat)
  BY <1>1, ListAssumption DEF Requests
<1>3. IsFiniteSet(request.from) /\ \A e \in request.from : e[2] = 0 <=> request.api # "uploads"
  BY <1>1, ListAssumption
<1>4. ListTypes
  BY <1>1, <1>2, <1>3 DEF ListTypes
<1>5. Range(units) = {} /\ DOMAIN units = {}
  BY <1>1 DEF Range
<1>6. \A e \in entries : Before(cursor, e)
  <2> SUFFICES ASSUME NEW e \in entries PROVE Before(cursor, e)
    OBVIOUS
  <2>1. e \in Entries /\ cursor[1] = 0
    BY <1>1, <1>2 DEF Entries, Start
  <2> QED BY <2>1, EntryFacts DEF Before
<1>7. CursorInv
  BY <1>1, <1>5, <1>6 DEF CursorInv
<1>8. ListedHaveExisted /\ ListedOnce /\ LastingAreListed
  BY <1>1, <1>5 DEF ListedHaveExisted, ListedOnce, LastingAreListed
<1> QED BY <1>4, <1>7, <1>8 DEF WalkInv

\* Every step of a walk keeps the invariant.
LEMMA WalkKeeps == WalkInv /\ [ListNext]_listVars => WalkInv'
<1> SUFFICES ASSUME WalkInv, [ListNext]_listVars PROVE WalkInv'
  OBVIOUS
<1>1. CASE PageFails \/ UNCHANGED listVars
  <2>1. /\ UNCHANGED <<request, container, entries, cursor, units, lasting, seen>>
        /\ walk' = "failed" \/ walk' = walk
    BY <1>1 DEF PageFails, listVars
  <2>2. (\A e : UnitOf(e)' = UnitOf(e)) /\ \A u : AddedUnder(u)' = AddedUnder(u)
    BY <2>1 DEF UnitOf, AddedUnder
  <2>3. ListTypes'
    BY <2>1 DEF WalkInv, ListTypes
  <2>4. ListedHaveExisted' /\ ListedOnce'
    BY <2>1, <2>2 DEF WalkInv, ListedHaveExisted, ListedOnce
  <2>5. CursorInv' /\ LastingAreListed'
    BY <2>1, <2>2 DEF WalkInv, CursorInv, LastingAreListed
  <2> QED BY <2>3, <2>4, <2>5 DEF WalkInv
<1> QED BY <1>1, NextPageKeeps, OthersKeep DEF ListNext

\* The inductive invariant of a walk.
LEMMA WalkAlways == ListSpec => []WalkInv
BY WalkStarts, WalkKeeps, PTL DEF ListSpec

\* For every set of keys and prefixes, every page size and every sequence of
\* changes between the pages: a walk that ended has shown every entry that was
\* there throughout, shows nothing that never existed, shows nothing twice but
\* a common prefix of ListObjectsV2 under which a key was added meanwhile, and
\* each of its pages is the first units of what then lay beyond the cursor.
THEOREM ListingsAreFaithful == ListSpec => []ListingFaithful
<1>1. WalkInv => ListingFaithful
  BY PagesAreFirst DEF WalkInv, ListingFaithful
<1> QED BY <1>1, WalkAlways, PTL

\* Types of Listing.
THEOREM ListTypesHold == ListSpec => []ListTypeOK
<1>1. WalkInv => ListTypeOK
  <2> SUFFICES ASSUME WalkInv PROVE ListTypeOK
    OBVIOUS
  <2>1. ListTypes /\ request.changes \in Nat
    BY DEF WalkInv, ListTypes, Requests
  <2>2. cursor \in (Keys \cup {0}) \X Nat
    <3>1. Start \in (Keys \cup {0}) \X Nat
      BY DEF Start
    <3>2. \A e \in Keys \X Nat : e \in (Keys \cup {0}) \X Nat
      OBVIOUS
    <3> QED BY <3>1, <3>2, <2>1 DEF ListTypes
  <2> QED BY <2>1, <2>2 DEF ListTypes, ListTypeOK
<1> QED BY <1>1, WalkAlways, PTL

-----------------------------------------------------------------------------
(* The four together.                                                      *)

\* A behaviour of the clients is one of each of the four modules.
THEOREM ClientsImplement == Spec => ListSpec /\ SyncSpec /\ PoolSpec /\ GetSpec
<1>1. Init => ListInit /\ SyncInit /\ PoolInit /\ GetInit
  BY DEF Init, NoListing, NoSync, NoTransfer, NoGet
<1>2. [Next]_vars => /\ [ListNext]_listVars /\ [SyncNext]_syncVars
                     /\ [PoolNext]_poolVars /\ [GetNext]_getVars
  <2> SUFFICES ASSUME [Next]_vars
               PROVE  /\ [ListNext]_listVars /\ [SyncNext]_syncVars
                      /\ [PoolNext]_poolVars /\ [GetNext]_getVars
    OBVIOUS
  <2>1. CASE Of("listing", ListNext /\ OnlyListing)
    BY <2>1 DEF Of, OnlyListing
  <2>2. CASE Of("sync", SyncNext /\ OnlySync)
    BY <2>2 DEF Of, OnlySync
  <2>3. CASE Of("transfer", PoolNext /\ OnlyTransfer)
    BY <2>3 DEF Of, OnlyTransfer
  <2>4. CASE Of("get", GetNext /\ OnlyGet)
    BY <2>4 DEF Of, OnlyGet
  <2>5. CASE UNCHANGED vars
    BY <2>5 DEF vars
  <2> QED BY <2>1, <2>2, <2>3, <2>4, <2>5 DEF Next
<1> QED BY <1>1, <1>2, PTL DEF Spec, ListSpec, SyncSpec, PoolSpec, GetSpec

\* Types of all four.
THEOREM ClientTypesHold == Spec => []ClientTypes
<1>1. ListTypeOK /\ SyncTypeOK /\ PoolTypeOK /\ GetTypeOK => ClientTypes
  BY DEF ClientTypes
<1> QED BY <1>1, ClientsImplement, ListTypesHold, SyncTypesHold, TransferTypesHold, GetTypesHold, PTL

\* What the four promise holds of the clients together.
THEOREM ClientsAreFaithful ==
  Spec => [](ListingFaithful /\ PoolSafe /\ ReadsAreFaithful)
BY ClientsImplement, ListingsAreFaithful, TransfersAreSafe, GetsAreFaithful, PTL
=================================================================================
