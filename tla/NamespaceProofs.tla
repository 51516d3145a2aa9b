--------------------------- MODULE NamespaceProofs ---------------------------
(***************************************************************************)
(* Proofs about Namespace, for every set of buckets, keys and clients and  *)
(* every instance: replay rebuilds what the handlers made, and what was    *)
(* acknowledged was right when it was committed.                           *)
(*                                                                         *)
(* The invariant speaks of the whole chain of namespaces the journal has   *)
(* gone through, not of the current one: a kill, a lost tail or a poisoned *)
(* journal leads back to any of them.                                      *)
(***************************************************************************)
EXTENDS Namespace, WellFoundedInduction, TLAPS

\* A namespace is well formed: its roots, rows and uploads have their types,
\* no key has a root without a manifest, and every upload has its bucket.
UpsWf(ups, buckets, partNos) ==
  \A u \in DOMAIN ups :
    /\ u \in Nat \ {0}
    /\ ups[u] \in [bucket : buckets, key : Keys, parts : {ups[u].parts}]
    /\ DOMAIN ups[u].parts \subseteq partNos
NsWf(ns, partNos) ==
  /\ ns \in [buckets : SUBSET Buckets, objs : [Slots -> Root],
             hist : [Slots -> Seq(Row)], ups : {ns.ups}]
  /\ \A s \in Slots : ns.objs[s].man = 0 => ns.objs[s] = NoRoot
  /\ UpsWf(ns.ups, ns.buckets, partNos)

\* It names manifests up to the k-th only.
Names(ns, k) ==
  \A s \in Slots : /\ ns.objs[s].man <= k
                   /\ \A i \in DOMAIN ns.hist[s] : ns.hist[s][i].man <= k

\* A version of a key is there, as its root or as a row of its history.
Holds(ns, slot, man) == ns.objs[slot].man = man \/ RowFor(ns, slot, man)
Drops(rec, ns, slot, man) ==
  /\ rec.type = "prune" /\ rec.b = slot[1]
  /\ \E i \in DOMAIN ns.hist[slot] :
       ns.hist[slot][i].man = man /\ ns.hist[slot][i].seq \in rec.drop[slot[2]]
Commits(rec) == rec.type \in {"put", "complete"}
SlotOf(rec) == <<rec.b, rec.k>>

\* Record number seq leads from ns to after, by the rules of replay; an
\* upload it creates has its number; the version it commits is there, and it
\* takes no version away but by pruning.
Leads(ns, seq, rec, after) ==
  /\ Accepts(ns, rec) /\ after = ApplyRecord(ns, seq, rec)
  /\ DOMAIN after.ups \subseteq DOMAIN ns.ups \cup {seq}
  /\ Commits(rec) => /\ SlotOf(rec) \in Slots /\ rec.man \in Nat \ {0}
                     /\ after.objs[SlotOf(rec)].man = rec.man
  /\ \A slot \in Slots : \A man \in Nat \ {0} :
       Holds(ns, slot, man) => Holds(after, slot, man) \/ Drops(rec, ns, slot, man)

\* A journal and the namespaces it went through.
ChainOK(jr, ch, partNos, k) ==
  /\ Len(jr) \in Nat /\ Len(ch) = Len(jr) + 1 /\ ch[1] = EmptyNs
  /\ \A n \in 1 .. Len(ch) : /\ NsWf(ch[n], partNos) /\ Names(ch[n], k)
                             /\ \A u \in DOMAIN ch[n].ups : u < n
  /\ \A n \in 1 .. Len(jr) : Leads(ch[n], n, jr[n], ch[n + 1])

\* NoVersionLost, of every namespace of the chain.
Found(jr, ch, n, m) ==
  \/ Holds(ch[m + 1], SlotOf(jr[n]), jr[n].man)
  \/ \E p \in n + 1 .. m : Drops(jr[p], ch[p], SlotOf(jr[n]), jr[n].man)
VersionsFound(jr, ch) ==
  \A n \in 1 .. Len(jr) : Commits(jr[n]) => \A m \in n .. Len(jr) : Found(jr, ch, n, m)

\* What a request holds when it comes back to commit.
WantedParts(want) ==
  LET order == Ascending(DOMAIN want) IN [i \in 1 .. Len(order) |-> want[order[i]]]
ReqWf(r, mans) ==
  /\ r.op \in {"commit", "copy", "assemble", "retire"} => r.b \in Buckets /\ r.k \in Keys
  /\ r.op \in {"commit", "copy", "retire"} => r.man \in 1 .. Len(mans)
  /\ r.op = "copy" /\ r.cond.kind = "match" => mans[r.man].etag = r.cond.etag
  /\ r.op = "commit" => r.src.man \in 0 .. Len(mans)
  /\ r.op = "commit" /\ r.src.man # 0 =>
       /\ mans[r.man] = mans[r.src.man]
       /\ r.src.cond.kind = "match" => mans[r.man].etag = r.src.cond.etag
  /\ r.op = "assemble" => r.parts = WantedParts(r.want)
  /\ r.op = "retire" => mans[r.man].body = FlattenSeq(WantedParts(r.want))

\* What is known of an acknowledged request, from its frame on.
MetIn(ns, r, mans) ==
  LET cur == ns.objs[<<r.b, r.k>>] IN
  /\ r.cond.kind = "absent" => cur = NoRoot
  /\ r.cond.kind = "match" => cur # NoRoot /\ mans[cur.man].etag = r.cond.etag
Retires(r) == r.op \in {"retire", "abort"}
AckOK(a, ch, sy, mans) ==
  /\ a.seq \in 1 .. sy /\ ReqWf(a.req, mans)
  /\ a.req.op = "commit" => MetIn(ch[a.seq], a.req, mans)
  /\ Retires(a.req) => /\ a.req.u \in DOMAIN ch[a.seq].ups
                       /\ \A m \in a.seq + 1 .. Len(ch) : a.req.u \notin DOMAIN ch[m].ups

ChainInv == ChainOK(journal, chain, inst.partNos, Len(manifests))

\* Memory is a namespace of the chain, the last one while appends are possible.
ProcessInv ==
  /\ synced \in 0 .. Len(journal) /\ applied \in 0 .. Len(journal)
  /\ status \in {"down", "replaying", "serve", "tool"} /\ role \in {"serve", "tool"}
  /\ poisoned \in BOOLEAN /\ inst \in Instances /\ Len(manifests) \in Nat
  /\ live = chain[applied + 1]
  /\ status \in {"serve", "tool"} /\ ~poisoned => applied = Len(journal)

PartNosOK(r, partNos) == r.op = "part" => r.n \in partNos
PendInv == /\ DOMAIN pend = Clients
           /\ \A c \in Clients : ReqWf(pend[c], manifests) /\ PartNosOK(pend[c], inst.partNos)
AckInv ==
  /\ \A a \in acks : AckOK(a, chain, synced, manifests)
  /\ \A a1, a2 \in acks : a1.seq = a2.seq => a1 = a2

VersionInv == VersionsFound(journal, chain)

IInv == ChainInv /\ ProcessInv /\ PendInv /\ AckInv /\ VersionInv
-----------------------------------------------------------------------------
(* Induction over the naturals, as a fact about sets; and the loop of      *)
(* removeHistoryLocked.                                                    *)

\* A set of naturals with 0 and the successor of each member is all of Nat.
LEMMA NatSetInduction ==
  ASSUME NEW T \in SUBSET Nat, 0 \in T, \A n \in T : n + 1 \in T
  PROVE  T = Nat
<1> SUFFICES ASSUME Nat \ T # {} PROVE FALSE
  OBVIOUS
<1>1. PICK x \in Nat \ T : \A y \in Nat \ T : <<y, x>> \notin OpToRel(<, Nat)
  BY WFMin, NatLessThanWellFounded
<1>2. \A y \in Nat \ T : ~(y < x)
  BY <1>1 DEF OpToRel
<1>3. x # 0 /\ x - 1 \in Nat
  OBVIOUS
<1>4. x - 1 \in T
  BY <1>2, <1>3
<1> QED BY <1>3, <1>4

\* The loop's variable, after i rows.
IsKept(f, rows, drop, n) ==
  f = [i \in 0 .. n |->
         IF i = 0 THEN <<>>
         ELSE IF rows[i].seq \in drop THEN f[i - 1] ELSE Append(f[i - 1], rows[i])]

\* The equation of the loop's variable, at one index.
LEMMA KeptAt ==
  ASSUME NEW f, NEW rows, NEW drop, NEW n \in Nat, IsKept(f, rows, drop, n), NEW i \in 0 .. n
  PROVE  f[i] = IF i = 0 THEN <<>>
                ELSE IF rows[i].seq \in drop THEN f[i - 1] ELSE Append(f[i - 1], rows[i])
<1> DEFINE h == [j \in 0 .. n |->
                   IF j = 0 THEN <<>>
                   ELSE IF rows[j].seq \in drop THEN f[j - 1] ELSE Append(f[j - 1], rows[j])]
<1>1. f = h
  BY DEF IsKept
<1>2. h[i] = IF i = 0 THEN <<>>
             ELSE IF rows[i].seq \in drop THEN f[i - 1] ELSE Append(f[i - 1], rows[i])
  OBVIOUS
<1> HIDE DEF h
<1> QED BY <1>1, <1>2

\* The loop of removeHistoryLocked computes a value for every length.
LEMMA KeptExists ==
  ASSUME NEW rows, NEW drop
  PROVE  \A n \in Nat : \E f : IsKept(f, rows, drop, n)
<1> DEFINE T == {n \in Nat : \E f : IsKept(f, rows, drop, n)}
<1>1. 0 \in T
  <2> DEFINE f == [i \in 0 .. 0 |-> <<>>]
  <2>1. IsKept(f, rows, drop, 0)
    BY DEF IsKept
  <2> QED BY <2>1
<1>2. ASSUME NEW n \in T PROVE n + 1 \in T
  <2>1. PICK f : IsKept(f, rows, drop, n)
    BY <1>2
  <2> DEFINE step == IF rows[n + 1].seq \in drop THEN f[n] ELSE Append(f[n], rows[n + 1])
             g == [i \in 0 .. n + 1 |-> IF i = n + 1 THEN step ELSE f[i]]
  <2>2. \A i \in 0 .. n : g[i] = f[i] /\ f[i] = IF i = 0 THEN <<>>
           ELSE IF rows[i].seq \in drop THEN f[i - 1] ELSE Append(f[i - 1], rows[i])
    <3>1. \A i \in 0 .. n : g[i] = f[i]
      OBVIOUS
    <3> HIDE DEF g
    <3> QED BY <3>1, <2>1, KeptAt
  <2>3. g[n + 1] = step
    OBVIOUS
  <2>4. \A i \in 0 .. n + 1 : g[i] = IF i = 0 THEN <<>>
           ELSE IF rows[i].seq \in drop THEN g[i - 1] ELSE Append(g[i - 1], rows[i])
    <3> SUFFICES ASSUME NEW i \in 0 .. n + 1
                 PROVE  g[i] = IF i = 0 THEN <<>>
                          ELSE IF rows[i].seq \in drop THEN g[i - 1] ELSE Append(g[i - 1], rows[i])
      OBVIOUS
    <3> HIDE DEF g
    <3>1. CASE i = n + 1
      <4>1. i - 1 = n /\ n \in 0 .. n /\ i # 0
        BY <3>1
      <4> QED BY <3>1, <4>1, <2>2, <2>3
    <3>2. CASE i \in 0 .. n
      <4>1. i # 0 => i - 1 \in 0 .. n
        BY <3>2
      <4> QED BY <3>2, <4>1, <2>2
    <3> QED BY <3>1, <3>2
  <2>5. IsKept(g, rows, drop, n + 1)
    <3>1. g = [i \in 0 .. n + 1 |-> g[i]]
      OBVIOUS
    <3> HIDE DEF g
    <3> QED BY <3>1, <2>4 DEF IsKept
  <2> HIDE DEF g
  <2> QED BY <2>5
<1>3. T = Nat
  <2> HIDE DEF T
  <2>1. T \in SUBSET Nat
    BY DEF T
  <2> QED BY <1>1, <1>2, <2>1, NatSetInduction
<1> QED BY <1>3

\* A row that is not dropped is kept, and nothing else is.
LEMMA KeptRowsSound ==
  ASSUME NEW rows \in Seq(Row), NEW drop
  PROVE  /\ KeptRows(rows, drop) \in Seq(Row)
         /\ \A i \in DOMAIN rows : rows[i].seq \notin drop =>
              \E j \in DOMAIN KeptRows(rows, drop) : KeptRows(rows, drop)[j] = rows[i]
         /\ \A j \in DOMAIN KeptRows(rows, drop) :
              \E i \in DOMAIN rows : KeptRows(rows, drop)[j] = rows[i]
<1> DEFINE N == Len(rows)
           f == CHOOSE g : IsKept(g, rows, drop, N)
           Sound(i) ==
             /\ f[i] \in Seq(Row)
             /\ \A k \in 1 .. i : rows[k].seq \notin drop => \E j \in DOMAIN f[i] : f[i][j] = rows[k]
             /\ \A j \in DOMAIN f[i] : \E k \in 1 .. i : f[i][j] = rows[k]
           T == {i \in Nat : i <= N => Sound(i)}
<1>1. N \in Nat /\ DOMAIN rows = 1 .. N
  OBVIOUS
<1>2. IsKept(f, rows, drop, N)
  BY <1>1, KeptExists
<1>3. KeptRows(rows, drop) = f[N]
  BY DEF KeptRows, IsKept
<1> HIDE DEF f
<1>4. f[0] = <<>> /\ \A i \in 1 .. N :
        f[i] = IF rows[i].seq \in drop THEN f[i - 1] ELSE Append(f[i - 1], rows[i])
  <2>1. f[0] = <<>>
    BY <1>1, <1>2, KeptAt
  <2> QED BY <1>1, <1>2, <2>1, KeptAt
<1>5. 0 \in T
  <2>1. f[0] \in Seq(Row) /\ DOMAIN f[0] = {} /\ 1 .. 0 = {}
    BY <1>4
  <2> QED BY <2>1
<1>6. ASSUME NEW n \in T PROVE n + 1 \in T
  <2> SUFFICES ASSUME n + 1 <= N PROVE Sound(n + 1)
    OBVIOUS
  <2>1. n \in Nat /\ Sound(n) /\ n + 1 \in 1 .. N /\ rows[n + 1] \in Row
    BY <1>1
  <2>2. f[n + 1] = IF rows[n + 1].seq \in drop THEN f[n] ELSE Append(f[n], rows[n + 1])
    BY <1>4, <2>1
  <2>3. CASE rows[n + 1].seq \in drop
    BY <2>1, <2>2, <2>3
  <2>4. CASE rows[n + 1].seq \notin drop
    <3>1. /\ f[n] \in Seq(Row) /\ f[n + 1] = Append(f[n], rows[n + 1])
      BY <2>1, <2>2, <2>4
    <3>2. /\ f[n + 1] \in Seq(Row) /\ Len(f[n]) \in Nat /\ DOMAIN f[n + 1] = 1 .. Len(f[n]) + 1
          /\ f[n + 1][Len(f[n]) + 1] = rows[n + 1] /\ DOMAIN f[n] = 1 .. Len(f[n])
          /\ \A j \in DOMAIN f[n] : f[n + 1][j] = f[n][j]
      BY <2>1, <3>1
    <3>3. ASSUME NEW k \in 1 .. n + 1, rows[k].seq \notin drop
          PROVE  \E j \in DOMAIN f[n + 1] : f[n + 1][j] = rows[k]
      <4>1. CASE k = n + 1
        <5>1. Len(f[n]) + 1 \in DOMAIN f[n + 1]
          BY <3>2
        <5> QED BY <4>1, <3>2, <5>1
      <4>2. CASE k \in 1 .. n
        <5>1. PICK j \in DOMAIN f[n] : f[n][j] = rows[k]
          BY <4>2, <3>3, <2>1
        <5> QED BY <5>1, <3>2
      <4> QED BY <4>1, <4>2, <2>1
    <3>4. ASSUME NEW j \in DOMAIN f[n + 1]
          PROVE  \E k \in 1 .. n + 1 : f[n + 1][j] = rows[k]
      <4>1. CASE j = Len(f[n]) + 1
        BY <4>1, <3>2, <2>1
      <4>2. CASE j \in DOMAIN f[n]
        <5>1. PICK k \in 1 .. n : f[n][j] = rows[k]
          BY <4>2, <2>1
        <5> QED BY <5>1, <4>2, <3>2, <2>1
      <4> QED BY <4>1, <4>2, <3>2
    <3> QED BY <3>2, <3>3, <3>4
  <2> QED BY <2>3, <2>4
<1>7. T = Nat
  <2> HIDE DEF T
  <2>1. T \in SUBSET Nat
    BY DEF T
  <2> QED BY <1>5, <1>6, <2>1, NatSetInduction
<1>8. Sound(N)
  BY <1>7, <1>1
<1> QED BY <1>8, <1>3, <1>1
-----------------------------------------------------------------------------
(* What the effects do to the fields of a well-formed namespace.           *)

\* A put or a delete: a key's root, and its history with a row more or not.
KeyEffect(ns, slot, root, rows) ==
  [ns EXCEPT !.objs = [ns.objs EXCEPT ![slot] = root],
             !.hist = [ns.hist EXCEPT ![slot] = rows]]

RowsUpTo(rows, k) == rows \in Seq(Row) /\ \A i \in DOMAIN rows : rows[i].man <= k
RootUpTo(root, k) == root \in Root /\ root.man <= k /\ (root.man = 0 => root = NoRoot)
Extends(more, rows) == \A i \in DOMAIN rows : i \in DOMAIN more /\ more[i] = rows[i]
VersionsKept(ns, after) ==
  \A s \in Slots : \A man \in Nat \ {0} : Holds(ns, s, man) => Holds(after, s, man)
RowsKept(ns, after) ==
  \A s \in Slots : \A man \in Nat : RowFor(ns, s, man) => RowFor(after, s, man)
OtherRootsKept(ns, after, slot) ==
  \A s \in Slots : s # slot => after.objs[s] = ns.objs[s]
HasRow(rows, man) == \E i \in DOMAIN rows : rows[i].man = man

\* A key effect keeps a namespace well formed, every row, and the other keys' roots.
LEMMA KeyEffects ==
  ASSUME NEW P, NEW K \in Nat, NEW ns, NsWf(ns, P), Names(ns, K),
         NEW slot \in Slots, NEW root, RootUpTo(root, K),
         NEW rows, RowsUpTo(rows, K), Extends(rows, ns.hist[slot]),
         NEW after, after = KeyEffect(ns, slot, root, rows)
  PROVE  /\ NsWf(after, P) /\ Names(after, K) /\ after.ups = ns.ups
         /\ after.objs[slot] = root /\ after.hist[slot] = rows
         /\ RowsKept(ns, after) /\ OtherRootsKept(ns, after, slot)
<1>1. /\ ns.objs \in [Slots -> Root] /\ ns.hist \in [Slots -> Seq(Row)]
      /\ ns = [buckets |-> ns.buckets, objs |-> ns.objs, hist |-> ns.hist, ups |-> ns.ups]
      /\ ns.buckets \in SUBSET Buckets
  BY DEF NsWf
<1>2. /\ after.buckets = ns.buckets /\ after.ups = ns.ups
      /\ after.objs = [ns.objs EXCEPT ![slot] = root]
      /\ after.hist = [ns.hist EXCEPT ![slot] = rows]
      /\ after = [buckets |-> after.buckets, objs |-> after.objs, hist |-> after.hist,
                  ups |-> after.ups]
  BY <1>1 DEF KeyEffect
<1>3. /\ after.objs \in [Slots -> Root] /\ after.objs[slot] = root
      /\ \A s \in Slots : s # slot => after.objs[s] = ns.objs[s]
      /\ after.hist \in [Slots -> Seq(Row)] /\ after.hist[slot] = rows
      /\ \A s \in Slots : s # slot => after.hist[s] = ns.hist[s]
  BY <1>1, <1>2 DEF RowsUpTo, RootUpTo
<1>4. NsWf(after, P)
  <2>1. \A s \in Slots : after.objs[s].man = 0 => after.objs[s] = NoRoot
    BY <1>3 DEF NsWf, RootUpTo
  <2>2. after \in [buckets : SUBSET Buckets, objs : [Slots -> Root],
                   hist : [Slots -> Seq(Row)], ups : {after.ups}]
    BY <1>1, <1>2, <1>3
  <2> QED BY <2>1, <2>2, <1>2 DEF NsWf
<1>5. Names(after, K)
  BY <1>3 DEF Names, RowsUpTo, RootUpTo
<1>6. ASSUME NEW s \in Slots, NEW man \in Nat, RowFor(ns, s, man) PROVE RowFor(after, s, man)
  <2>1. CASE s # slot
    BY <1>6, <2>1, <1>3 DEF RowFor
  <2>2. CASE s = slot
    BY <1>6, <2>2, <1>3 DEF RowFor, Extends
  <2> QED BY <2>1, <2>2
<1> QED BY <1>2, <1>3, <1>4, <1>5, <1>6 DEF RowsKept, OtherRootsKept

\* archiveVersionLocked's append keeps the rows there were and adds its own.
LEMMA RowAppended ==
  ASSUME NEW K \in Nat, NEW rows, RowsUpTo(rows, K), NEW row \in Row, row.man <= K,
         NEW more, more = Append(rows, row)
  PROVE  RowsUpTo(more, K) /\ Extends(more, rows) /\ HasRow(more, row.man)
<1>1. /\ Len(rows) \in Nat /\ DOMAIN rows = 1 .. Len(rows)
      /\ more \in Seq(Row)
      /\ DOMAIN more = 1 .. Len(rows) + 1
      /\ \A i \in DOMAIN rows : more[i] = rows[i]
      /\ more[Len(rows) + 1] = row
  BY DEF RowsUpTo
<1>2. ASSUME NEW i \in DOMAIN more PROVE more[i].man <= K
  <2>1. CASE i \in DOMAIN rows
    BY <2>1, <1>1 DEF RowsUpTo
  <2>2. CASE i = Len(rows) + 1
    BY <2>2, <1>1
  <2> QED BY <2>1, <2>2, <1>1
<1>3. Len(rows) + 1 \in DOMAIN more
  BY <1>1
<1> QED BY <1>1, <1>2, <1>3 DEF RowsUpTo, Extends, HasRow

\* The handler's record and replay's agree on a put, and it keeps every version.
LEMMA PutLeads ==
  ASSUME NEW P, NEW K \in Nat, NEW ns, NsWf(ns, P), Names(ns, K), NEW b \in ns.buckets,
         NEW k \in Keys, NEW seq \in Nat \ {0}, NEW man \in 1 .. K, NEW rec,
         NEW after, rec.b = b, rec.k = k, rec.man = man, rec.prev = ns.objs[<<b, k>>].man,
         after = ReplayPut(ns, seq, rec)
  PROVE  /\ NsWf(after, P) /\ Names(after, K) /\ after.ups = ns.ups
         /\ <<b, k>> \in Slots /\ after.objs[<<b, k>>].man = man
         /\ VersionsKept(ns, after)
         /\ after = LET root == WithRoot(ns, <<b, k>>, seq, man) IN
                    IF ns.objs[<<b, k>>] = NoRoot THEN root
                    ELSE Archived(root, <<b, k>>, seq, ns.objs[<<b, k>>].man, "overwritten")
<1> DEFINE slot == <<b, k>>
           root == [man |-> man, seq |-> seq]
           cur == ns.objs[slot]
           row == [man |-> cur.man, seq |-> seq, reason |-> "overwritten"]
           rows == IF cur.man = 0 THEN ns.hist[slot] ELSE Append(ns.hist[slot], row)
<1>1. /\ slot \in Slots /\ ns.objs \in [Slots -> Root] /\ ns.hist \in [Slots -> Seq(Row)]
      /\ ns = [buckets |-> ns.buckets, objs |-> ns.objs, hist |-> ns.hist, ups |-> ns.ups]
  BY DEF NsWf, Slots
<1>2. cur \in Root /\ cur.man \in Nat /\ cur.man <= K /\ (cur.man = 0 <=> cur = NoRoot)
  BY <1>1 DEF NsWf, Names, Root, NoRoot
<1>3. /\ RootUpTo(root, K) /\ root.man = man
      /\ cur.man # 0 => row \in Row /\ row.man <= K
      /\ row.man = cur.man
  BY <1>2 DEF Root, Row, RootUpTo
<1>4. after = KeyEffect(ns, slot, root, rows)
  BY <1>1, <1>2 DEF KeyEffect, ReplayPut, WithRoot, Archived
<1>5. after = IF cur = NoRoot THEN WithRoot(ns, slot, seq, man)
              ELSE Archived(WithRoot(ns, slot, seq, man), slot, seq, cur.man, "overwritten")
  BY <1>1, <1>2 DEF ReplayPut, WithRoot, Archived
<1>6. RowsUpTo(ns.hist[slot], K)
  BY <1>1 DEF Names, RowsUpTo
<1>7. /\ RowsUpTo(rows, K) /\ Extends(rows, ns.hist[slot])
      /\ cur.man # 0 => HasRow(rows, cur.man)
  <2>1. CASE cur.man = 0
    BY <2>1, <1>6 DEF Extends
  <2>2. CASE cur.man # 0
    <3> HIDE DEF row, slot
    <3>1. rows = Append(ns.hist[slot], row)
      BY <2>2
    <3> QED BY <3>1, <2>2, <1>3, <1>6, RowAppended
  <2> QED BY <2>1, <2>2
<1> HIDE DEF root, row, rows, slot
<1>8. /\ NsWf(after, P) /\ Names(after, K) /\ after.ups = ns.ups
      /\ after.objs[slot] = root /\ after.hist[slot] = rows
      /\ RowsKept(ns, after) /\ OtherRootsKept(ns, after, slot)
  <2>1. /\ slot \in Slots /\ RootUpTo(root, K)
        /\ RowsUpTo(rows, K) /\ Extends(rows, ns.hist[slot])
    BY <1>1, <1>3, <1>7
  <2> QED BY <2>1, <1>4, KeyEffects
<1>9. ASSUME NEW s \in Slots, NEW m \in Nat \ {0}, Holds(ns, s, m) PROVE Holds(after, s, m)
  <2>1. CASE RowFor(ns, s, m)
    BY <2>1, <1>8 DEF Holds, RowsKept
  <2>2. CASE ns.objs[s].man = m /\ s # slot
    BY <2>2, <1>8 DEF Holds, OtherRootsKept
  <2>3. CASE ns.objs[s].man = m /\ s = slot
    BY <2>3, <1>7, <1>8 DEF Holds, RowFor, HasRow
  <2> QED BY <2>1, <2>2, <2>3, <1>9 DEF Holds
<1> QED BY <1>1, <1>3, <1>5, <1>8, <1>9 DEF slot, VersionsKept

\* The same for a delete.
LEMMA DeleteLeads ==
  ASSUME NEW P, NEW K \in Nat, NEW ns, NsWf(ns, P), Names(ns, K), NEW b \in ns.buckets,
         NEW k \in Keys, NEW seq \in Nat \ {0}, NEW rec, NEW after,
         ns.objs[<<b, k>>] # NoRoot, rec.b = b, rec.k = k, rec.prev = ns.objs[<<b, k>>].man,
         after = ReplayDelete(ns, seq, rec)
  PROVE  /\ NsWf(after, P) /\ Names(after, K) /\ after.ups = ns.ups
         /\ VersionsKept(ns, after)
         /\ after = Archived([ns EXCEPT !.objs[<<b, k>>] = NoRoot], <<b, k>>, seq,
                             ns.objs[<<b, k>>].man, "deleted")
<1> DEFINE slot == <<b, k>>
           cur == ns.objs[slot]
           row == [man |-> cur.man, seq |-> seq, reason |-> "deleted"]
           rows == Append(ns.hist[slot], row)
<1>1. /\ slot \in Slots /\ ns.objs \in [Slots -> Root] /\ ns.hist \in [Slots -> Seq(Row)]
      /\ ns = [buckets |-> ns.buckets, objs |-> ns.objs, hist |-> ns.hist, ups |-> ns.ups]
  BY DEF NsWf, Slots
<1>2. cur.man \in Nat \ {0} /\ cur.man <= K
  BY <1>1 DEF NsWf, Names, Root
<1>3. RootUpTo(NoRoot, K) /\ row \in Row /\ row.man = cur.man /\ row.man <= K
  BY <1>2 DEF Root, Row, NoRoot, RootUpTo
<1>4. after = KeyEffect(ns, slot, NoRoot, rows)
  BY <1>1 DEF KeyEffect, ReplayDelete, Archived
<1>5. after = Archived([ns EXCEPT !.objs[slot] = NoRoot], slot, seq, cur.man, "deleted")
  BY <1>1 DEF ReplayDelete, Archived
<1>6. RowsUpTo(ns.hist[slot], K)
  BY <1>1 DEF Names, RowsUpTo
<1> HIDE DEF row, slot
<1>7. RowsUpTo(rows, K) /\ Extends(rows, ns.hist[slot]) /\ HasRow(rows, cur.man)
  BY <1>3, <1>6, RowAppended
<1> HIDE DEF rows
<1>8. /\ NsWf(after, P) /\ Names(after, K) /\ after.ups = ns.ups
      /\ after.hist[slot] = rows
      /\ RowsKept(ns, after) /\ OtherRootsKept(ns, after, slot)
  <2>1. /\ slot \in Slots /\ RootUpTo(NoRoot, K)
        /\ RowsUpTo(rows, K) /\ Extends(rows, ns.hist[slot])
    BY <1>1, <1>3, <1>7
  <2> QED BY <2>1, <1>4, KeyEffects
<1>9. ASSUME NEW s \in Slots, NEW m \in Nat \ {0}, Holds(ns, s, m) PROVE Holds(after, s, m)
  <2>1. CASE RowFor(ns, s, m)
    BY <2>1, <1>8 DEF Holds, RowsKept
  <2>2. CASE ns.objs[s].man = m /\ s # slot
    BY <2>2, <1>8 DEF Holds, OtherRootsKept
  <2>3. CASE ns.objs[s].man = m /\ s = slot
    BY <2>3, <1>7, <1>8 DEF Holds, RowFor, HasRow
  <2> QED BY <2>1, <2>2, <2>3, <1>9 DEF Holds
<1> QED BY <1>5, <1>8, <1>9 DEF slot, VersionsKept

StepOK(ns, seq, rec, after, partNos, k) ==
  NsWf(after, partNos) /\ Names(after, k) /\ Leads(ns, seq, rec, after)

\* The frame of commitObjectRootChecked leads to the namespace its handler makes.
LEMMA PutStep ==
  ASSUME NEW P, NEW K \in Nat, NEW ns, NsWf(ns, P), Names(ns, K), NEW b \in ns.buckets,
         NEW k \in Keys, NEW seq \in Nat \ {0}, NEW man \in 1 .. K, NEW rec, NEW after,
         rec = [type |-> "put", b |-> b, k |-> k, man |-> man, prev |-> ns.objs[<<b, k>>].man],
         after = LET root == WithRoot(ns, <<b, k>>, seq, man) IN
                 IF ns.objs[<<b, k>>] = NoRoot THEN root
                 ELSE Archived(root, <<b, k>>, seq, ns.objs[<<b, k>>].man, "overwritten")
  PROVE  StepOK(ns, seq, rec, after, P, K)
<1>1. /\ rec.type = "put" /\ rec.b = b /\ rec.k = k /\ rec.man = man
      /\ rec.prev = ns.objs[<<b, k>>].man
  OBVIOUS
<1> DEFINE put == ReplayPut(ns, seq, rec)
<1>2. /\ NsWf(put, P) /\ Names(put, K) /\ put.ups = ns.ups
      /\ <<b, k>> \in Slots /\ put.objs[<<b, k>>].man = man
      /\ VersionsKept(ns, put)
      /\ put = after
  <2> HIDE DEF put
  <2>1. put = ReplayPut(ns, seq, rec)
    BY DEF put
  <2>2. /\ NsWf(put, P) /\ Names(put, K) /\ put.ups = ns.ups
        /\ <<b, k>> \in Slots /\ put.objs[<<b, k>>].man = man
        /\ VersionsKept(ns, put)
    BY <1>1, <2>1, PutLeads
  <2>3. put = after
    BY <1>1, <2>1, PutLeads
  <2> QED BY <2>2, <2>3
<1>3. Accepts(ns, rec) /\ ApplyRecord(ns, seq, rec) = put
  BY <1>1 DEF Accepts, ApplyRecord
<1> HIDE DEF put
<1> QED BY <1>1, <1>2, <1>3 DEF StepOK, Leads, Commits, SlotOf, VersionsKept

\* So does the frame of DeleteObject.
LEMMA DeleteStep ==
  ASSUME NEW P, NEW K \in Nat, NEW ns, NsWf(ns, P), Names(ns, K), NEW b \in ns.buckets,
         NEW k \in Keys, NEW seq \in Nat \ {0}, NEW rec, NEW after, ns.objs[<<b, k>>] # NoRoot,
         rec = [type |-> "delete", b |-> b, k |-> k, prev |-> ns.objs[<<b, k>>].man],
         after = Archived([ns EXCEPT !.objs[<<b, k>>] = NoRoot], <<b, k>>, seq,
                          ns.objs[<<b, k>>].man, "deleted")
  PROVE  StepOK(ns, seq, rec, after, P, K)
<1>1. /\ rec.type = "delete" /\ rec.b = b /\ rec.k = k /\ rec.prev = ns.objs[<<b, k>>].man
  OBVIOUS
<1> DEFINE del == ReplayDelete(ns, seq, rec)
<1>2. /\ NsWf(del, P) /\ Names(del, K) /\ del.ups = ns.ups
      /\ VersionsKept(ns, del)
      /\ del = after
  <2> HIDE DEF del
  <2>1. del = ReplayDelete(ns, seq, rec)
    BY DEF del
  <2> QED BY <1>1, <2>1, DeleteLeads
<1>3. Accepts(ns, rec) /\ ApplyRecord(ns, seq, rec) = del
  BY <1>1 DEF Accepts, ApplyRecord
<1> HIDE DEF del
<1> QED BY <1>1, <1>2, <1>3 DEF StepOK, Leads, Commits, VersionsKept

\* The uploads are replaced and the rest is not.
LEMMA UploadEffects ==
  ASSUME NEW P, NEW K \in Nat, NEW ns, NsWf(ns, P), Names(ns, K),
         NEW ups, UpsWf(ups, ns.buckets, P), NEW after, after = [ns EXCEPT !.ups = ups]
  PROVE  /\ NsWf(after, P) /\ Names(after, K) /\ after.ups = ups
         /\ after.objs = ns.objs /\ after.hist = ns.hist
         /\ VersionsKept(ns, after)
<1>1. /\ ns.objs \in [Slots -> Root] /\ ns.hist \in [Slots -> Seq(Row)]
      /\ ns = [buckets |-> ns.buckets, objs |-> ns.objs, hist |-> ns.hist, ups |-> ns.ups]
      /\ ns.buckets \in SUBSET Buckets
  BY DEF NsWf
<1>2. after = [buckets |-> ns.buckets, objs |-> ns.objs, hist |-> ns.hist, ups |-> ups]
  BY <1>1
<1>3. /\ after.objs = ns.objs /\ after.hist = ns.hist /\ after.ups = ups
      /\ after.buckets = ns.buckets
      /\ after \in [buckets : SUBSET Buckets, objs : [Slots -> Root],
                    hist : [Slots -> Seq(Row)], ups : {after.ups}]
  BY <1>1, <1>2
<1> QED BY <1>3 DEF NsWf, Names, Holds, RowFor, VersionsKept

\* The frame of CreateMultipartUpload adds the upload its number names.
LEMMA CreateUploadStep ==
  ASSUME NEW P, NEW K \in Nat, NEW ns, NsWf(ns, P), Names(ns, K), NEW b \in ns.buckets,
         NEW k \in Keys, NEW seq \in Nat \ {0}, NEW rec, NEW after,
         rec = [type |-> "createUpload", u |-> seq, b |-> b, k |-> k],
         after = WithUpload(ns, seq, NewUpload(b, k))
  PROVE  StepOK(ns, seq, rec, after, P, K)
<1> DEFINE ups == [v \in DOMAIN ns.ups \cup {seq} |->
                     IF v = seq THEN NewUpload(b, k) ELSE ns.ups[v]]
<1>1. UpsWf(ups, ns.buckets, P)
  BY DEF NsWf, UpsWf, NewUpload
<1>2. after = [ns EXCEPT !.ups = ups]
  BY DEF WithUpload, NsWf
<1>3. DOMAIN ups = DOMAIN ns.ups \cup {seq}
  OBVIOUS
<1> HIDE DEF ups
<1>4. /\ NsWf(after, P) /\ Names(after, K) /\ after.ups = ups
      /\ VersionsKept(ns, after)
  BY <1>1, <1>2, UploadEffects
<1>5. Accepts(ns, rec) /\ ApplyRecord(ns, seq, rec) = after /\ ~Commits(rec)
  BY DEF Accepts, ApplyRecord, Commits
<1> QED BY <1>3, <1>4, <1>5 DEF StepOK, Leads, VersionsKept

\* The frame of AbortMultipartUpload takes the upload away.
LEMMA AbortStep ==
  ASSUME NEW P, NEW K \in Nat, NEW ns, NsWf(ns, P), Names(ns, K), NEW u \in DOMAIN ns.ups,
         NEW seq \in Nat \ {0}, NEW rec, NEW after,
         rec = [type |-> "abort", u |-> u], after = WithoutUpload(ns, u)
  PROVE  StepOK(ns, seq, rec, after, P, K) /\ u \notin DOMAIN after.ups
<1> DEFINE ups == [v \in DOMAIN ns.ups \ {u} |-> ns.ups[v]]
<1>1. UpsWf(ups, ns.buckets, P)
  BY DEF NsWf, UpsWf
<1>2. after = [ns EXCEPT !.ups = ups]
  BY DEF WithoutUpload, NsWf
<1>3. DOMAIN ups = DOMAIN ns.ups \ {u}
  OBVIOUS
<1> HIDE DEF ups
<1>4. /\ NsWf(after, P) /\ Names(after, K) /\ after.ups = ups
      /\ VersionsKept(ns, after)
  BY <1>1, <1>2, UploadEffects
<1>5. Accepts(ns, rec) /\ ApplyRecord(ns, seq, rec) = after /\ ~Commits(rec)
  BY DEF Accepts, ApplyRecord, Commits
<1> QED BY <1>3, <1>4, <1>5 DEF StepOK, Leads, VersionsKept

\* The frame of commitPart changes one part of one upload.
LEMMA PartStep ==
  ASSUME NEW P, NEW K \in Nat, NEW ns, NsWf(ns, P), Names(ns, K), NEW u \in DOMAIN ns.ups,
         NEW n \in P, NEW body, NEW seq \in Nat \ {0}, NEW rec, NEW after,
         rec = [type |-> "part", u |-> u, n |-> n, body |-> body],
         after = WithPart(ns, u, n, body)
  PROVE  StepOK(ns, seq, rec, after, P, K)
<1> DEFINE old == ns.ups[u].parts
           parts == [m \in DOMAIN old \cup {n} |-> IF m = n THEN body ELSE old[m]]
           ups == [ns.ups EXCEPT ![u] = [ns.ups[u] EXCEPT !.parts = parts]]
<1>1. DOMAIN parts = DOMAIN old \cup {n}
  OBVIOUS
<1>2. after = [ns EXCEPT !.ups = ups]
  BY DEF WithPart, NsWf
<1> HIDE DEF parts
<1>3. UpsWf(ups, ns.buckets, P)
  <2>1. /\ DOMAIN ups = DOMAIN ns.ups
        /\ \A v \in DOMAIN ns.ups :
             ups[v] = IF v = u THEN [ns.ups[u] EXCEPT !.parts = parts] ELSE ns.ups[v]
    OBVIOUS
  <2> HIDE DEF ups
  <2>2. \A v \in DOMAIN ns.ups :
          /\ v \in Nat \ {0}
          /\ ns.ups[v] \in [bucket : ns.buckets, key : Keys, parts : {ns.ups[v].parts}]
          /\ DOMAIN ns.ups[v].parts \subseteq P
    BY DEF NsWf, UpsWf
  <2>3. /\ ups[u] \in [bucket : ns.buckets, key : Keys, parts : {ups[u].parts}]
        /\ ups[u].parts = parts /\ DOMAIN parts \subseteq P
    BY <1>1, <2>1, <2>2
  <2> QED BY <2>1, <2>2, <2>3 DEF UpsWf
<1>4. DOMAIN ups = DOMAIN ns.ups
  OBVIOUS
<1> HIDE DEF ups
<1>5. /\ NsWf(after, P) /\ Names(after, K) /\ after.ups = ups
      /\ VersionsKept(ns, after)
  BY <1>2, <1>3, UploadEffects
<1>6. Accepts(ns, rec) /\ ApplyRecord(ns, seq, rec) = after /\ ~Commits(rec)
  BY DEF Accepts, ApplyRecord, Commits
<1> QED BY <1>4, <1>5, <1>6 DEF StepOK, Leads, VersionsKept

\* The frame of a completion puts the object and takes the upload away; handler
\* and replay do it in different orders and agree.
LEMMA CompleteStep ==
  ASSUME NEW P, NEW K \in Nat, NEW ns, NsWf(ns, P), Names(ns, K), NEW b \in ns.buckets,
         NEW k \in Keys, NEW seq \in Nat \ {0}, NEW man \in 1 .. K, NEW u \in DOMAIN ns.ups,
         NEW rec, NEW after,
         rec = [type |-> "complete", u |-> u, b |-> b, k |-> k, man |-> man,
                prev |-> ns.objs[<<b, k>>].man],
         after = LET done == WithoutUpload(WithRoot(ns, <<b, k>>, seq, man), u) IN
                 IF ns.objs[<<b, k>>] = NoRoot THEN done
                 ELSE Archived(done, <<b, k>>, seq, ns.objs[<<b, k>>].man, "overwritten")
  PROVE  StepOK(ns, seq, rec, after, P, K) /\ u \notin DOMAIN after.ups
<1>1. /\ rec.type = "complete" /\ rec.b = b /\ rec.k = k /\ rec.man = man /\ rec.u = u
      /\ rec.prev = ns.objs[<<b, k>>].man
  OBVIOUS
<1> DEFINE put == ReplayPut(ns, seq, rec)
           ups == [v \in DOMAIN ns.ups \ {u} |-> ns.ups[v]]
<1>2. /\ NsWf(put, P) /\ Names(put, K) /\ put.ups = ns.ups
      /\ <<b, k>> \in Slots /\ put.objs[<<b, k>>].man = man
      /\ VersionsKept(ns, put)
  <2> HIDE DEF put
  <2>1. put = ReplayPut(ns, seq, rec)
    BY DEF put
  <2> QED BY <1>1, <2>1, PutLeads
<1>3. put.buckets = ns.buckets
  BY DEF ReplayPut, WithRoot, Archived, NsWf
<1>4. WithoutUpload(put, u) = after
  <2>1. ns = [buckets |-> ns.buckets, objs |-> ns.objs, hist |-> ns.hist, ups |-> ns.ups]
    BY DEF NsWf
  <2>2. ns.objs[<<b, k>>].man = 0 <=> ns.objs[<<b, k>>] = NoRoot
    BY <1>2 DEF NsWf, NoRoot
  <2> HIDE DEF ups
  <2>3. WithoutUpload(put, u) =
          [ns EXCEPT !.objs = [ns.objs EXCEPT ![<<b, k>>] = [man |-> man, seq |-> seq]],
                     !.hist = IF ns.objs[<<b, k>>].man = 0 THEN ns.hist
                              ELSE [ns.hist EXCEPT ![<<b, k>>] =
                                      Append(ns.hist[<<b, k>>],
                                        [man |-> ns.objs[<<b, k>>].man, seq |-> seq,
                                         reason |-> "overwritten"])],
                     !.ups = ups]
    BY <1>1, <2>1 DEF WithoutUpload, ReplayPut, WithRoot, Archived, ups
  <2>4. after =
          [ns EXCEPT !.objs = [ns.objs EXCEPT ![<<b, k>>] = [man |-> man, seq |-> seq]],
                     !.hist = IF ns.objs[<<b, k>>].man = 0 THEN ns.hist
                              ELSE [ns.hist EXCEPT ![<<b, k>>] =
                                      Append(ns.hist[<<b, k>>],
                                        [man |-> ns.objs[<<b, k>>].man, seq |-> seq,
                                         reason |-> "overwritten"])],
                     !.ups = ups]
    BY <2>1, <2>2 DEF WithoutUpload, WithRoot, Archived, ups
  <2> QED BY <2>3, <2>4
<1>5. Accepts(ns, rec) /\ ApplyRecord(ns, seq, rec) = after
  BY <1>1, <1>4 DEF Accepts, ApplyRecord, ReplayComplete
<1> HIDE DEF put
<1>6. UpsWf(ups, put.buckets, P)
  BY <1>3 DEF NsWf, UpsWf
<1>7. after = [put EXCEPT !.ups = ups]
  BY <1>2, <1>4 DEF WithoutUpload, NsWf
<1>8. DOMAIN ups = DOMAIN ns.ups \ {u}
  OBVIOUS
<1> HIDE DEF ups
<1>9. /\ NsWf(after, P) /\ Names(after, K) /\ after.ups = ups /\ after.objs = put.objs
      /\ VersionsKept(put, after)
  BY <1>2, <1>6, <1>7, UploadEffects
<1> QED BY <1>1, <1>2, <1>5, <1>8, <1>9 DEF StepOK, Leads, Commits, SlotOf, VersionsKept

\* Creating a bucket, and deleting one that is empty.
LEMMA CreateBucketStep ==
  ASSUME NEW P, NEW K \in Nat, NEW ns, NsWf(ns, P), Names(ns, K), NEW b \in Buckets,
         NEW seq \in Nat \ {0}, NEW rec, NEW after,
         rec = [type |-> "createBucket", b |-> b],
         after = [ns EXCEPT !.buckets = @ \cup {b}]
  PROVE  StepOK(ns, seq, rec, after, P, K)
<1>1. /\ ns.objs \in [Slots -> Root] /\ ns.hist \in [Slots -> Seq(Row)]
      /\ ns = [buckets |-> ns.buckets, objs |-> ns.objs, hist |-> ns.hist, ups |-> ns.ups]
      /\ ns.buckets \in SUBSET Buckets
  BY DEF NsWf
<1>2. /\ after.buckets = ns.buckets \cup {b} /\ after.objs = ns.objs
      /\ after.hist = ns.hist /\ after.ups = ns.ups
      /\ after \in [buckets : SUBSET Buckets, objs : [Slots -> Root],
                    hist : [Slots -> Seq(Row)], ups : {after.ups}]
  BY <1>1
<1>3. UpsWf(after.ups, after.buckets, P)
  BY <1>2 DEF NsWf, UpsWf
<1>4. NsWf(after, P) /\ Names(after, K) /\ VersionsKept(ns, after)
  BY <1>2, <1>3 DEF NsWf, Names, VersionsKept, Holds, RowFor
<1>5. Accepts(ns, rec) /\ ApplyRecord(ns, seq, rec) = after /\ ~Commits(rec)
  BY DEF Accepts, ApplyRecord, Commits
<1> QED BY <1>2, <1>4, <1>5 DEF StepOK, Leads, VersionsKept

\* DeleteBucket's guard is what keeps roots and uploads inside buckets.
LEMMA DeleteBucketStep ==
  ASSUME NEW P, NEW K \in Nat, NEW ns, NsWf(ns, P), Names(ns, K), NEW b \in ns.buckets,
         NEW seq \in Nat \ {0}, NEW rec, NEW after,
         \A k \in Keys : ns.objs[<<b, k>>] = NoRoot,
         \A u \in DOMAIN ns.ups : ns.ups[u].bucket # b,
         rec = [type |-> "deleteBucket", b |-> b], after = WithoutBucket(ns, b)
  PROVE  StepOK(ns, seq, rec, after, P, K)
<1>1. /\ ns.objs \in [Slots -> Root] /\ ns.hist \in [Slots -> Seq(Row)]
      /\ ns = [buckets |-> ns.buckets, objs |-> ns.objs, hist |-> ns.hist, ups |-> ns.ups]
      /\ ns.buckets \in SUBSET Buckets
  BY DEF NsWf
<1>2. ns.objs = [s \in Slots |-> IF s[1] = b THEN NoRoot ELSE ns.objs[s]]
  BY <1>1 DEF Slots
<1>3. /\ after.buckets = ns.buckets \ {b} /\ after.objs = ns.objs
      /\ after.hist = ns.hist /\ after.ups = ns.ups
      /\ after \in [buckets : SUBSET Buckets, objs : [Slots -> Root],
                    hist : [Slots -> Seq(Row)], ups : {after.ups}]
  BY <1>1, <1>2 DEF WithoutBucket
<1>4. UpsWf(after.ups, after.buckets, P)
  BY <1>3 DEF NsWf, UpsWf
<1>5. NsWf(after, P) /\ Names(after, K) /\ VersionsKept(ns, after)
  BY <1>3, <1>4 DEF NsWf, Names, VersionsKept, Holds, RowFor
<1>6. Accepts(ns, rec) /\ ApplyRecord(ns, seq, rec) = after /\ ~Commits(rec)
  BY DEF Accepts, ApplyRecord, Commits
<1> QED BY <1>3, <1>5, <1>6 DEF StepOK, Leads, VersionsKept

\* A prune takes away the rows it names and no other.
LEMMA PruneStep ==
  ASSUME NEW P, NEW K \in Nat, NEW ns, NsWf(ns, P), Names(ns, K), NEW b \in Buckets,
         NEW seq \in Nat \ {0}, NEW drop, NEW rec, NEW after,
         rec = [type |-> "prune", b |-> b, drop |-> drop], after = WithoutHistory(ns, b, drop)
  PROVE  StepOK(ns, seq, rec, after, P, K)
<1>1. /\ ns.objs \in [Slots -> Root] /\ ns.hist \in [Slots -> Seq(Row)]
      /\ ns = [buckets |-> ns.buckets, objs |-> ns.objs, hist |-> ns.hist, ups |-> ns.ups]
      /\ ns.buckets \in SUBSET Buckets
  BY DEF NsWf
<1>2. /\ after.buckets = ns.buckets /\ after.objs = ns.objs /\ after.ups = ns.ups
      /\ after.hist = [s \in Slots |-> IF s[1] = b THEN KeptRows(ns.hist[s], drop[s[2]])
                                       ELSE ns.hist[s]]
      /\ after = [buckets |-> after.buckets, objs |-> after.objs, hist |-> after.hist,
                  ups |-> after.ups]
  BY <1>1 DEF WithoutHistory
<1>3. ASSUME NEW s \in Slots
      PROVE  /\ after.hist[s] \in Seq(Row)
             /\ \A i \in DOMAIN ns.hist[s] :
                  (s[1] = b => ns.hist[s][i].seq \notin drop[s[2]]) =>
                    \E j \in DOMAIN after.hist[s] : after.hist[s][j] = ns.hist[s][i]
             /\ \A j \in DOMAIN after.hist[s] :
                  \E i \in DOMAIN ns.hist[s] : after.hist[s][j] = ns.hist[s][i]
  <2>1. ns.hist[s] \in Seq(Row)
    BY <1>1
  <2>2. CASE s[1] = b
    <3>1. after.hist[s] = KeptRows(ns.hist[s], drop[s[2]])
      BY <1>2, <2>2
    <3> QED BY <2>1, <2>2, <3>1, KeptRowsSound
  <2>3. CASE s[1] # b
    <3>1. after.hist[s] = ns.hist[s]
      BY <1>2, <2>3
    <3> QED BY <2>1, <2>3, <3>1
  <2> QED BY <2>2, <2>3
<1>4. after \in [buckets : SUBSET Buckets, objs : [Slots -> Root],
                 hist : [Slots -> Seq(Row)], ups : {after.ups}]
  BY <1>1, <1>2, <1>3
<1>5. NsWf(after, P)
  BY <1>2, <1>4 DEF NsWf
<1>6. Names(after, K)
  BY <1>2, <1>3 DEF Names
<1>7. ASSUME NEW s \in Slots, NEW man \in Nat \ {0}, Holds(ns, s, man)
      PROVE  Holds(after, s, man) \/ Drops(rec, ns, s, man)
  <2>1. CASE ns.objs[s].man = man
    BY <2>1, <1>2 DEF Holds
  <2>2. CASE RowFor(ns, s, man)
    <3>1. PICK i \in DOMAIN ns.hist[s] : ns.hist[s][i].man = man
      BY <2>2 DEF RowFor
    <3>2. CASE s[1] = b /\ ns.hist[s][i].seq \in drop[s[2]]
      BY <3>1, <3>2 DEF Drops
    <3>3. CASE ~(s[1] = b /\ ns.hist[s][i].seq \in drop[s[2]])
      <4>1. \E j \in DOMAIN after.hist[s] : after.hist[s][j] = ns.hist[s][i]
        BY <3>1, <3>3, <1>3
      <4> QED BY <4>1, <3>1 DEF Holds, RowFor
    <3> QED BY <3>2, <3>3
  <2> QED BY <2>1, <2>2, <1>7 DEF Holds
<1>8. Accepts(ns, rec) /\ ApplyRecord(ns, seq, rec) = after /\ ~Commits(rec)
  BY DEF Accepts, ApplyRecord, Commits
<1> QED BY <1>2, <1>5, <1>6, <1>7, <1>8 DEF StepOK, Leads
-----------------------------------------------------------------------------
(* The chain grows by a frame, and a power failure cuts it.                *)

\* A frame that leads to after extends the chain by after.
LEMMA ChainGrows ==
  ASSUME NEW jr, NEW ch, NEW P, NEW k, ChainOK(jr, ch, P, k), NEW rec, NEW after,
         StepOK(ch[Len(ch)], Len(jr) + 1, rec, after, P, k)
  PROVE  ChainOK(Append(jr, rec), Append(ch, after), P, k)
<1> DEFINE jr2 == Append(jr, rec)
           ch2 == Append(ch, after)
<1>1. Len(jr) \in Nat /\ Len(ch) = Len(jr) + 1 /\ ch[1] = EmptyNs
  BY DEF ChainOK
<1>2. /\ Len(jr2) = Len(jr) + 1 /\ jr2[Len(jr) + 1] = rec
      /\ \A n \in 1 .. Len(jr) : jr2[n] = jr[n]
      /\ Len(ch2) = Len(ch) + 1 /\ ch2[Len(ch) + 1] = after
      /\ \A n \in 1 .. Len(ch) : ch2[n] = ch[n]
  BY <1>1
<1> HIDE DEF jr2, ch2
<1>3. \A n \in 1 .. Len(ch) : /\ NsWf(ch[n], P) /\ Names(ch[n], k)
                              /\ \A u \in DOMAIN ch[n].ups : u < n
  BY DEF ChainOK
<1>4. \A n \in 1 .. Len(jr) : Leads(ch[n], n, jr[n], ch[n + 1])
  BY DEF ChainOK
<1>5. /\ NsWf(after, P) /\ Names(after, k) /\ Leads(ch[Len(ch)], Len(jr) + 1, rec, after)
  BY DEF StepOK
<1>6. \A u \in DOMAIN after.ups : u < Len(ch) + 1
  <2>1. DOMAIN after.ups \subseteq DOMAIN ch[Len(ch)].ups \cup {Len(jr) + 1}
    BY <1>5 DEF Leads
  <2>2. \A u \in DOMAIN after.ups : u \in Nat
    BY <1>5 DEF NsWf, UpsWf
  <2>3. \A u \in DOMAIN ch[Len(ch)].ups : u < Len(ch)
    BY <1>1, <1>3
  <2> QED BY <1>1, <2>1, <2>2, <2>3
<1>7. ASSUME NEW n \in 1 .. Len(ch2)
      PROVE  /\ NsWf(ch2[n], P) /\ Names(ch2[n], k)
             /\ \A u \in DOMAIN ch2[n].ups : u < n
  <2>1. CASE n \in 1 .. Len(ch)
    BY <2>1, <1>2, <1>3
  <2>2. CASE n = Len(ch) + 1
    BY <2>2, <1>2, <1>5, <1>6
  <2> QED BY <2>1, <2>2, <1>1, <1>2
<1>8. ASSUME NEW n \in 1 .. Len(jr2) PROVE Leads(ch2[n], n, jr2[n], ch2[n + 1])
  <2>1. CASE n \in 1 .. Len(jr)
    <3>1. n \in 1 .. Len(ch) /\ n + 1 \in 1 .. Len(ch)
      BY <2>1, <1>1
    <3> QED BY <2>1, <3>1, <1>2, <1>4
  <2>2. CASE n = Len(jr) + 1
    <3>1. ch2[n] = ch[Len(ch)] /\ jr2[n] = rec /\ ch2[n + 1] = after
      BY <2>2, <1>1, <1>2
    <3> QED BY <2>2, <3>1, <1>5
  <2> QED BY <2>1, <2>2, <1>1, <1>2
<1>9. /\ Len(jr2) \in Nat /\ Len(ch2) = Len(jr2) + 1 /\ ch2[1] = EmptyNs
  BY <1>1, <1>2
<1>10. ChainOK(jr2, ch2, P, k)
  BY <1>7, <1>8, <1>9 DEF ChainOK
<1> QED BY <1>10 DEF jr2, ch2

\* Versions that could be found before the frame can be found after it.
LEMMA VersionsGrow ==
  ASSUME NEW jr, NEW ch, NEW P, NEW k, ChainOK(jr, ch, P, k), VersionsFound(jr, ch),
         NEW rec, NEW after, StepOK(ch[Len(ch)], Len(jr) + 1, rec, after, P, k)
  PROVE  VersionsFound(Append(jr, rec), Append(ch, after))
<1> DEFINE N == Len(jr)
           jr2 == Append(jr, rec)
           ch2 == Append(ch, after)
<1>1. N \in Nat /\ Len(ch) = N + 1
  BY DEF ChainOK
<1>2. /\ Len(jr2) = N + 1 /\ jr2[N + 1] = rec
      /\ \A n \in 1 .. N : jr2[n] = jr[n]
      /\ ch2[N + 2] = after
      /\ \A n \in 1 .. N + 1 : ch2[n] = ch[n]
  BY <1>1
<1> HIDE DEF jr2, ch2, N
<1>3. Leads(ch[N + 1], N + 1, rec, after)
  BY <1>1 DEF StepOK, N
<1>4. ASSUME NEW n \in 1 .. N + 1, Commits(jr2[n]), NEW m \in n .. N + 1
      PROVE  Found(jr2, ch2, n, m)
  <2> DEFINE slot == SlotOf(jr2[n])
             man == jr2[n].man
  <2>1. CASE n \in 1 .. N /\ m \in n .. N
    <3>1. jr2[n] = jr[n] /\ ch2[m + 1] = ch[m + 1]
      BY <2>1, <1>1, <1>2
    <3>2. \A p \in n + 1 .. m : jr2[p] = jr[p] /\ ch2[p] = ch[p]
      BY <2>1, <1>1, <1>2
    <3>3. Found(jr, ch, n, m)
      BY <2>1, <3>1, <1>4 DEF VersionsFound, N
    <3> QED BY <3>1, <3>2, <3>3 DEF Found
  <2>2. CASE n \in 1 .. N /\ m = N + 1
    <3>1. jr2[n] = jr[n] /\ ch2[m + 1] = after /\ N \in n .. N
      BY <2>2, <1>1, <1>2
    <3>2. Found(jr, ch, n, N)
      BY <2>2, <3>1, <1>4 DEF VersionsFound, N
    <3>3. slot \in Slots /\ man \in Nat \ {0}
      BY <2>2, <3>1, <1>4 DEF ChainOK, Leads, N
    <3> HIDE DEF slot, man
    <3>4. CASE Holds(ch[N + 1], slot, man)
      <4>1. Holds(after, slot, man) \/ Drops(rec, ch[N + 1], slot, man)
        BY <3>3, <3>4, <1>3 DEF Leads
      <4>2. jr2[N + 1] = rec /\ ch2[N + 1] = ch[N + 1] /\ N + 1 \in n + 1 .. m
        BY <2>2, <1>1, <1>2
      <4> QED BY <4>1, <4>2, <3>1 DEF Found, slot, man
    <3>5. CASE \E p \in n + 1 .. N : Drops(jr[p], ch[p], slot, man)
      <4>1. PICK p \in n + 1 .. N : Drops(jr[p], ch[p], slot, man)
        BY <3>5
      <4>2. p \in n + 1 .. m /\ jr2[p] = jr[p] /\ ch2[p] = ch[p]
        BY <2>2, <1>1, <1>2
      <4> QED BY <4>1, <4>2 DEF Found, slot, man
    <3> QED BY <3>1, <3>2, <3>4, <3>5 DEF Found, slot, man
  <2>3. CASE n = N + 1
    <3>1. m = N + 1 /\ jr2[n] = rec /\ ch2[m + 1] = after
      BY <2>3, <1>1, <1>2
    <3> QED BY <3>1, <1>3, <1>4 DEF Leads, Found, Holds
  <2> QED BY <2>1, <2>2, <2>3, <1>1
<1>5. VersionsFound(jr2, ch2)
  BY <1>2, <1>4 DEF VersionsFound
<1> QED BY <1>5 DEF jr2, ch2

\* What was known of an acknowledged request stays so: an upload that is gone
\* does not come back, because a new one has the number of a new frame.
LEMMA AcksGrow ==
  ASSUME NEW jr, NEW ch, NEW P, NEW k, ChainOK(jr, ch, P, k), NEW rec, NEW after, NEW mans,
         StepOK(ch[Len(ch)], Len(jr) + 1, rec, after, P, k),
         NEW sy \in 0 .. Len(jr), NEW sy2 \in sy .. Len(jr) + 1, NEW a, AckOK(a, ch, sy, mans)
  PROVE  AckOK(a, Append(ch, after), sy2, mans)
<1> DEFINE ch2 == Append(ch, after)
<1>1. Len(jr) \in Nat /\ Len(ch) = Len(jr) + 1 /\ a.seq \in 1 .. Len(jr) /\ a.seq \in 1 .. sy2
  BY DEF ChainOK, AckOK
<1>2. /\ Len(ch2) = Len(ch) + 1 /\ ch2[Len(ch) + 1] = after
      /\ \A n \in 1 .. Len(ch) : ch2[n] = ch[n]
  BY <1>1
<1> HIDE DEF ch2
<1>3. ch2[a.seq] = ch[a.seq]
  BY <1>1, <1>2
<1>4. ASSUME Retires(a.req), NEW m \in a.seq + 1 .. Len(ch2)
      PROVE  a.req.u \notin DOMAIN ch2[m].ups
  <2>1. /\ a.req.u \in DOMAIN ch[a.seq].ups
        /\ \A i \in a.seq + 1 .. Len(ch) : a.req.u \notin DOMAIN ch[i].ups
    BY <1>4 DEF AckOK
  <2>2. CASE m \in a.seq + 1 .. Len(ch)
    BY <2>1, <2>2, <1>1, <1>2
  <2>3. CASE m = Len(ch) + 1
    <3>1. a.req.u \notin DOMAIN ch[Len(ch)].ups
      BY <1>1, <2>1
    <3>2. a.req.u < a.seq /\ a.req.u \in Nat
      BY <1>1, <2>1 DEF ChainOK, NsWf, UpsWf
    <3>3. DOMAIN after.ups \subseteq DOMAIN ch[Len(ch)].ups \cup {Len(jr) + 1}
      BY DEF StepOK, Leads
    <3>4. a.req.u # Len(jr) + 1
      BY <1>1, <3>2
    <3> QED BY <3>1, <3>3, <3>4, <2>3, <1>2
  <2> QED BY <2>2, <2>3, <1>1, <1>2
<1>5. AckOK(a, ch2, sy2, mans)
  BY <1>1, <1>3, <1>4 DEF AckOK
<1> QED BY <1>5 DEF ch2

\* What a power failure leaves is a shorter journal with its chain.
CutAt(n, jr, ch, jr2, ch2) == jr2 = SubSeq(jr, 1, n) /\ ch2 = SubSeq(ch, 1, n + 1)

\* The part of the chain before a cut is a chain.
LEMMA ChainCut ==
  ASSUME NEW jr, NEW ch, NEW P, NEW k, ChainOK(jr, ch, P, k), VersionsFound(jr, ch),
         NEW n \in 0 .. Len(jr), NEW jr2, NEW ch2, CutAt(n, jr, ch, jr2, ch2)
  PROVE  /\ ChainOK(jr2, ch2, P, k) /\ VersionsFound(jr2, ch2)
         /\ Len(jr2) = n
<1>1. Len(jr) \in Nat /\ Len(ch) = Len(jr) + 1 /\ ch[1] = EmptyNs
  BY DEF ChainOK
<1>2. /\ Len(jr2) = n /\ \A i \in 1 .. n : jr2[i] = jr[i]
      /\ Len(ch2) = n + 1 /\ \A i \in 1 .. n + 1 : ch2[i] = ch[i]
  BY <1>1 DEF CutAt
<1>3. ChainOK(jr2, ch2, P, k)
  <2>1. ASSUME NEW i \in 1 .. n + 1
        PROVE  NsWf(ch2[i], P) /\ Names(ch2[i], k) /\ \A u \in DOMAIN ch2[i].ups : u < i
    BY <1>1, <1>2 DEF ChainOK
  <2>2. ASSUME NEW i \in 1 .. n PROVE Leads(ch2[i], i, jr2[i], ch2[i + 1])
    <3>1. jr2[i] = jr[i] /\ ch2[i] = ch[i] /\ ch2[i + 1] = ch[i + 1] /\ i \in 1 .. Len(jr)
      BY <1>1, <1>2
    <3> QED BY <3>1 DEF ChainOK
  <2>3. n \in Nat /\ ch2[1] = EmptyNs
    BY <1>1, <1>2
  <2> QED BY <1>2, <2>1, <2>2, <2>3 DEF ChainOK
<1>4. ASSUME NEW i \in 1 .. n, Commits(jr2[i]), NEW m \in i .. n PROVE Found(jr2, ch2, i, m)
  <2>1. jr2[i] = jr[i] /\ ch2[m + 1] = ch[m + 1] /\ i \in 1 .. Len(jr) /\ m \in i .. Len(jr)
    BY <1>1, <1>2
  <2>2. \A p \in i + 1 .. m : jr2[p] = jr[p] /\ ch2[p] = ch[p]
    BY <1>1, <1>2
  <2>3. Found(jr, ch, i, m)
    BY <2>1, <1>4 DEF VersionsFound
  <2> QED BY <2>1, <2>2, <2>3 DEF Found
<1> QED BY <1>2, <1>3, <1>4 DEF VersionsFound
-----------------------------------------------------------------------------
(* A manifest more leaves everything that names manifests as it was.       *)

\* What a request relies on survives publishManifest by another.
LEMMA RequestsOutliveAppends ==
  ASSUME NEW mans, Len(mans) \in Nat, NEW man, NEW r, ReqWf(r, mans)
  PROVE  ReqWf(r, Append(mans, man))
<1> DEFINE mans2 == Append(mans, man)
<1>1. Len(mans2) = Len(mans) + 1 /\ \A i \in 1 .. Len(mans) : mans2[i] = mans[i]
  OBVIOUS
<1> HIDE DEF mans2
<1>2. ReqWf(r, mans2)
  BY <1>1 DEF ReqWf
<1> QED BY <1>2 DEF mans2

\* So do the namespaces of the chain,
LEMMA ChainOutlivesAppends ==
  ASSUME NEW jr, NEW ch, NEW P, NEW k \in Nat, ChainOK(jr, ch, P, k)
  PROVE  ChainOK(jr, ch, P, k + 1)
<1>1. ASSUME NEW n \in 1 .. Len(ch) PROVE Names(ch[n], k + 1)
  <2>1. NsWf(ch[n], P) /\ Names(ch[n], k)
    BY DEF ChainOK
  <2>2. ASSUME NEW s \in Slots
        PROVE  /\ ch[n].objs[s].man \in Nat
               /\ \A i \in DOMAIN ch[n].hist[s] : ch[n].hist[s][i].man \in Nat
    <3>1. ch[n].objs \in [Slots -> Root] /\ ch[n].hist \in [Slots -> Seq(Row)]
      BY <2>1 DEF NsWf
    <3>2. ch[n].objs[s] \in Root /\ ch[n].hist[s] \in Seq(Row)
      BY <3>1
    <3>3. \A i \in DOMAIN ch[n].hist[s] : ch[n].hist[s][i] \in Row
      BY <3>2
    <3> QED BY <3>2, <3>3 DEF Root, Row
  <2> QED BY <2>1, <2>2 DEF Names
<1> QED BY <1>1 DEF ChainOK

\* and what is known of acknowledged requests.
LEMMA AcksOutliveAppends ==
  ASSUME NEW jr, NEW ch, NEW P, NEW mans, Len(mans) \in Nat, ChainOK(jr, ch, P, Len(mans)),
         NEW sy \in 0 .. Len(jr), NEW man, NEW a, AckOK(a, ch, sy, mans)
  PROVE  AckOK(a, ch, sy, Append(mans, man))
<1> DEFINE mans2 == Append(mans, man)
<1>1. Len(mans2) = Len(mans) + 1 /\ \A i \in 1 .. Len(mans) : mans2[i] = mans[i]
  OBVIOUS
<1>2. ReqWf(a.req, mans2)
  BY RequestsOutliveAppends DEF AckOK
<1> HIDE DEF mans2
<1>3. ASSUME a.req.op = "commit" PROVE MetIn(ch[a.seq], a.req, mans2)
  <2> DEFINE cur == ch[a.seq].objs[<<a.req.b, a.req.k>>]
  <2>1. MetIn(ch[a.seq], a.req, mans)
    BY <1>3 DEF AckOK
  <2>2. a.seq \in 1 .. Len(ch)
    BY DEF AckOK, ChainOK
  <2>3. <<a.req.b, a.req.k>> \in Slots
    BY <1>3 DEF AckOK, ReqWf, Slots
  <2>4. NsWf(ch[a.seq], P) /\ Names(ch[a.seq], Len(mans))
    BY <2>2 DEF ChainOK
  <2>5. cur.man \in Nat /\ cur.man <= Len(mans) /\ (cur.man = 0 => cur = NoRoot)
    BY <2>3, <2>4 DEF NsWf, Names, Root
  <2> HIDE DEF cur
  <2>6. cur # NoRoot => cur.man \in 1 .. Len(mans)
    BY <2>5
  <2> QED BY <2>1, <2>6, <1>1 DEF MetIn, cur
<1>4. AckOK(a, ch, sy, mans2)
  BY <1>2, <1>3 DEF AckOK
<1> QED BY <1>4 DEF mans2
-----------------------------------------------------------------------------
(* Steps that append a frame, and steps that only move a request on.       *)

PendOK(p, mans, partNos) ==
  DOMAIN p = Clients /\ \A c \in Clients : ReqWf(p[c], mans) /\ PartNosOK(p[c], partNos)

\* What the code has established when it appends the frame of a request.
Justified(ns, after, req, mans) ==
  /\ ReqWf(req, mans)
  /\ req.op = "commit" => MetIn(ns, req, mans)
  /\ Retires(req) => req.u \in DOMAIN ns.ups /\ req.u \notin DOMAIN after.ups

\* A frame appended for a justified request keeps the invariant, whether
\* the append succeeds, fails with the frame in the file, or fails without.
LEMMA JournaledKeeps ==
  ASSUME IInv, status \in {"serve", "tool"}, NEW rec, NEW after, NEW req,
         Journaled(rec, after, req), ProcessUnchanged, manifests' = manifests,
         PendOK(pend', manifests, inst.partNos),
         StepOK(live, Len(journal) + 1, rec, after, inst.partNos, Len(manifests)),
         Justified(live, after, req, manifests)
  PROVE  IInv'
<1>1. /\ ChainOK(journal, chain, inst.partNos, Len(manifests))
      /\ VersionsFound(journal, chain)
  BY DEF IInv, ChainInv, VersionInv
<1>2. /\ ~poisoned /\ applied = Len(journal) /\ live = chain[applied + 1]
      /\ synced \in 0 .. Len(journal) /\ applied \in 0 .. Len(journal)
      /\ status' = status /\ role' = role /\ inst' = inst
      /\ inst \in Instances /\ Len(manifests) \in Nat /\ role \in {"serve", "tool"}
  BY DEF IInv, ProcessInv, Journaled, ProcessUnchanged
<1>3. Len(journal) \in Nat /\ Len(chain) = Len(journal) + 1 /\ live = chain[Len(chain)]
  BY <1>1, <1>2 DEF ChainOK
<1>4. /\ ChainOK(Append(journal, rec), Append(chain, after), inst.partNos, Len(manifests))
      /\ VersionsFound(Append(journal, rec), Append(chain, after))
  BY <1>1, <1>3, ChainGrows, VersionsGrow
<1>5. /\ Len(Append(journal, rec)) = Len(journal) + 1
      /\ Len(Append(chain, after)) = Len(journal) + 2
      /\ Append(chain, after)[Len(journal) + 2] = after
      /\ \A i \in 1 .. Len(journal) + 1 : Append(chain, after)[i] = chain[i]
  BY <1>3
<1>6. PendInv'
  BY <1>2 DEF PendOK, PendInv
<1>7. \A a \in acks : \A sy \in {synced, Len(journal) + 1} :
        AckOK(a, Append(chain, after), sy, manifests)
  <2> SUFFICES ASSUME NEW a \in acks, NEW sy \in {synced, Len(journal) + 1}
               PROVE  AckOK(a, Append(chain, after), sy, manifests)
    OBVIOUS
  <2>1. AckOK(a, chain, synced, manifests)
    BY DEF IInv, AckInv
  <2>2. sy \in synced .. Len(journal) + 1
    BY <1>2, <1>3
  <2> QED BY <2>1, <2>2, <1>1, <1>2, <1>3, AcksGrow
<1>8. CASE /\ journal' = Append(journal, rec) /\ chain' = Append(chain, after)
           /\ live' = after /\ applied' = NextSeq /\ synced' = NextSeq
           /\ acks' = acks \cup {[seq |-> NextSeq, req |-> req]} /\ UNCHANGED poisoned
  <2> DEFINE new == [seq |-> NextSeq, req |-> req]
  <2>1. ChainInv' /\ VersionInv'
    BY <1>2, <1>4, <1>8 DEF ChainInv, VersionInv
  <2>2. ProcessInv'
    <3>1. poisoned' \in BOOLEAN
      BY <1>8 DEF IInv, ProcessInv
    <3>2. /\ Len(journal') = Len(journal) + 1 /\ applied' = Len(journal')
          /\ synced' = Len(journal') /\ live' = chain'[applied' + 1]
      BY <1>3, <1>5, <1>8 DEF NextSeq
    <3>3. synced' \in 0 .. Len(journal') /\ applied' \in 0 .. Len(journal')
      BY <1>3, <3>2
    <3> QED BY <1>2, <3>1, <3>2, <3>3 DEF ProcessInv
  <2>3. AckOK(new, Append(chain, after), NextSeq, manifests)
    <3>1. new.seq = Len(journal) + 1 /\ new.req = req
      BY DEF NextSeq
    <3>2. /\ Append(chain, after)[new.seq] = live
          /\ \A m \in new.seq + 1 .. Len(Append(chain, after)) : Append(chain, after)[m] = after
      BY <3>1, <1>3, <1>5
    <3>3. new.seq \in 1 .. NextSeq
      BY <3>1, <1>3 DEF NextSeq
    <3> HIDE DEF new
    <3> QED BY <3>1, <3>2, <3>3 DEF AckOK, Justified
  <2>4. \A a \in acks : AckOK(a, Append(chain, after), NextSeq, manifests)
    BY <1>7 DEF NextSeq
  <2>5. \A a \in acks' : AckOK(a, chain', synced', manifests')
    BY <2>3, <2>4, <1>8
  <2>6. \A a \in acks : a.seq # NextSeq
    BY <1>2, <1>3 DEF IInv, AckInv, AckOK, NextSeq
  <2>7. \A a1, a2 \in acks' : a1.seq = a2.seq => a1 = a2
    BY <2>6, <1>8 DEF IInv, AckInv
  <2> QED BY <2>1, <2>2, <2>5, <2>7, <1>6 DEF IInv, AckInv
<1>9. CASE /\ poisoned' = TRUE
           /\ \/ journal' = Append(journal, rec) /\ chain' = Append(chain, after)
              \/ UNCHANGED <<journal, chain>>
           /\ UNCHANGED <<live, applied, synced, acks>>
  <2>1. ChainInv' /\ VersionInv'
    BY <1>1, <1>2, <1>4, <1>9 DEF ChainInv, VersionInv
  <2>2. ProcessInv'
    BY <1>2, <1>3, <1>5, <1>9 DEF ProcessInv, IInv
  <2>3. \A a \in acks' : AckOK(a, chain', synced', manifests')
    BY <1>7, <1>9 DEF IInv, AckInv
  <2>4. \A a1, a2 \in acks' : a1.seq = a2.seq => a1 = a2
    BY <1>9 DEF IInv, AckInv
  <2> QED BY <2>1, <2>2, <2>3, <2>4, <1>6 DEF IInv, AckInv
<1> QED BY <1>8, <1>9 DEF Journaled

\* A step that only changes what a request holds keeps the invariant.
LEMMA RequestMoves ==
  ASSUME IInv, NamespaceUnchanged, ProcessUnchanged, manifests' = manifests,
         PendOK(pend', manifests, inst.partNos)
  PROVE  IInv'
<1>1. ChainInv' /\ VersionInv'
  BY DEF IInv, NamespaceUnchanged, ProcessUnchanged, ChainInv, VersionInv
<1>2. ProcessInv'
  BY DEF IInv, NamespaceUnchanged, ProcessUnchanged, ProcessInv
<1>3. PendInv'
  BY DEF ProcessUnchanged, PendInv, PendOK
<1>4. AckInv'
  BY DEF IInv, NamespaceUnchanged, AckInv
<1> QED BY <1>1, <1>2, <1>3, <1>4 DEF IInv

\* So does one that also publishes a manifest.
LEMMA PublishMoves ==
  ASSUME IInv, NamespaceUnchanged, ProcessUnchanged, NEW man,
         manifests' = Append(manifests, man), PendOK(pend', manifests', inst.partNos)
  PROVE  IInv'
<1>1. /\ ChainOK(journal, chain, inst.partNos, Len(manifests)) /\ Len(manifests) \in Nat
      /\ synced \in 0 .. Len(journal)
  BY DEF IInv, ChainInv, ProcessInv
<1>2. Len(manifests') = Len(manifests) + 1
  BY <1>1
<1>3. ChainInv' /\ VersionInv'
  <2>1. ChainOK(journal, chain, inst.partNos, Len(manifests'))
    BY <1>1, <1>2, ChainOutlivesAppends
  <2> QED BY <2>1 DEF IInv, NamespaceUnchanged, ProcessUnchanged, ChainInv, VersionInv
<1>4. ProcessInv'
  BY <1>1, <1>2 DEF IInv, NamespaceUnchanged, ProcessUnchanged, ProcessInv
<1>5. PendInv'
  BY DEF ProcessUnchanged, PendInv, PendOK
<1>6. \A a \in acks : AckOK(a, chain, synced, manifests')
  <2> SUFFICES ASSUME NEW a \in acks PROVE AckOK(a, chain, synced, manifests')
    OBVIOUS
  <2>1. AckOK(a, chain, synced, manifests)
    BY DEF IInv, AckInv
  <2> QED BY <2>1, <1>1, AcksOutliveAppends
<1>7. AckInv'
  BY <1>6 DEF IInv, NamespaceUnchanged, AckInv
<1> QED BY <1>3, <1>4, <1>5, <1>7 DEF IInv
-----------------------------------------------------------------------------
(* The requests.                                                           *)

\* The namespace in memory is well formed and names published manifests.
LEMMA LiveWf ==
  ASSUME IInv
  PROVE  /\ NsWf(live, inst.partNos) /\ Names(live, Len(manifests))
         /\ Len(manifests) \in Nat /\ Len(journal) + 1 \in Nat \ {0}
         /\ PendOK(pend, manifests, inst.partNos)
         /\ live.buckets \subseteq Buckets
<1>1. applied + 1 \in 1 .. Len(chain) /\ live = chain[applied + 1] /\ Len(journal) \in Nat
  BY DEF IInv, ChainInv, ChainOK, ProcessInv
<1>2. NsWf(live, inst.partNos) /\ Names(live, Len(manifests))
  BY <1>1 DEF IInv, ChainInv, ChainOK
<1>3. live.buckets \subseteq Buckets
  BY <1>2 DEF NsWf
<1>4. PendOK(pend, manifests, inst.partNos)
  BY DEF IInv, PendInv, PendOK
<1> QED BY <1>1, <1>2, <1>3, <1>4 DEF IInv, ProcessInv

\* A well-formed request may be left pending.
LEMMA Asked ==
  ASSUME NEW p, NEW mans, NEW P, PendOK(p, mans, P), NEW c \in Clients, NEW req,
         ReqWf(req, mans), PartNosOK(req, P), NEW p2, p2 = [p EXCEPT ![c] = req]
  PROVE  PendOK(p2, mans, P)
BY DEF PendOK

\* A request may end.
LEMMA Ended ==
  ASSUME NEW p, NEW mans, NEW P, PendOK(p, mans, P), NEW c \in Clients,
         NEW p2, p2 = [p EXCEPT ![c] = Idle]
  PROVE  PendOK(p2, mans, P)
<1>1. ReqWf(Idle, mans) /\ PartNosOK(Idle, P)
  BY DEF ReqWf, PartNosOK, Idle
<1> QED BY <1>1, Asked

\* Pending requests survive publishManifest by another.
LEMMA PendOutlivesAppends ==
  ASSUME NEW p, NEW mans, Len(mans) \in Nat, NEW man, NEW P, PendOK(p, mans, P)
  PROVE  PendOK(p, Append(mans, man), P)
BY RequestsOutliveAppends DEF PendOK

\* A root the namespace has is that of a published manifest.
LEMMA RootsArePublished ==
  ASSUME NEW ns, NEW P, NEW k \in Nat, NsWf(ns, P), Names(ns, k), NEW s \in Slots
  PROVE  /\ ns.objs[s] # NoRoot => ns.objs[s].man \in 1 .. k
         /\ \A i \in DOMAIN ns.hist[s] : ns.hist[s][i].man \in 1 .. k
<1>1. ns.objs[s] \in Root /\ ns.hist[s] \in Seq(Row)
  BY DEF NsWf
<1>2. \A i \in DOMAIN ns.hist[s] : ns.hist[s][i] \in Row
  BY <1>1
<1>3. ns.objs[s].man \in Nat /\ ns.objs[s].man <= k
  BY <1>1 DEF Names, Root
<1>4. ns.objs[s] # NoRoot => ns.objs[s].man # 0
  BY DEF NsWf
<1>5. \A i \in DOMAIN ns.hist[s] : ns.hist[s][i].man \in 1 .. k
  BY <1>2 DEF Names, Row
<1> QED BY <1>3, <1>4, <1>5

\* CreateBucket and DeleteBucket.
LEMMA BucketRequests ==
  ASSUME IInv, NEW c \in Clients, NEW b \in Buckets, CreateBucket(c, b) \/ DeleteBucket(c, b)
  PROVE  IInv'
<1>1. CASE CreateBucket(c, b)
  <2> DEFINE rec == [type |-> "createBucket", b |-> b]
             after == [live EXCEPT !.buckets = @ \cup {b}]
             req == [op |-> "createBucket", b |-> b]
  <2>1. /\ Journaled(rec, after, req) /\ ProcessUnchanged /\ manifests' = manifests
        /\ pend' = pend /\ status \in {"serve", "tool"}
    BY <1>1 DEF CreateBucket, Ready, Serving
  <2>2. Justified(live, after, req, manifests)
    BY DEF Justified, ReqWf, Retires
  <2> HIDE DEF req
  <2>3. StepOK(live, Len(journal) + 1, rec, after, inst.partNos, Len(manifests))
    BY LiveWf, CreateBucketStep
  <2> HIDE DEF rec, after
  <2> QED BY <2>1, <2>2, <2>3, LiveWf, JournaledKeeps
<1>2. CASE DeleteBucket(c, b)
  <2> DEFINE rec == [type |-> "deleteBucket", b |-> b]
             after == WithoutBucket(live, b)
             req == [op |-> "deleteBucket", b |-> b]
  <2>1. /\ Journaled(rec, after, req) /\ ProcessUnchanged /\ manifests' = manifests
        /\ pend' = pend /\ status \in {"serve", "tool"}
    BY <1>2 DEF DeleteBucket, Ready, Serving
  <2>2. Justified(live, after, req, manifests)
    BY DEF Justified, ReqWf, Retires
  <2> HIDE DEF req
  <2>3. /\ b \in live.buckets /\ \A k \in Keys : live.objs[<<b, k>>] = NoRoot
        /\ \A u \in DOMAIN live.ups : live.ups[u].bucket # b
    BY <1>2 DEF DeleteBucket, BucketEmpty
  <2>4. StepOK(live, Len(journal) + 1, rec, after, inst.partNos, Len(manifests))
    BY <2>3, LiveWf, DeleteBucketStep
  <2> HIDE DEF rec, after
  <2> QED BY <2>1, <2>2, <2>4, LiveWf, JournaledKeeps
<1> QED BY <1>1, <1>2

\* DeleteObject and CreateMultipartUpload.
LEMMA KeyRequests ==
  ASSUME IInv, NEW c \in Clients, NEW b \in Buckets, NEW k \in Keys,
         DeleteObject(c, b, k) \/ CreateMultipartUpload(c, b, k)
  PROVE  IInv'
<1>1. CASE DeleteObject(c, b, k)
  <2> DEFINE cur == live.objs[<<b, k>>]
             rec == [type |-> "delete", b |-> b, k |-> k, prev |-> cur.man]
             after == Archived([live EXCEPT !.objs[<<b, k>>] = NoRoot], <<b, k>>,
                               Len(journal) + 1, cur.man, "deleted")
             req == [op |-> "delete", b |-> b, k |-> k]
  <2>1. /\ Journaled(rec, after, req) /\ ProcessUnchanged /\ manifests' = manifests
        /\ pend' = pend /\ status \in {"serve", "tool"} /\ b \in live.buckets /\ cur # NoRoot
    BY <1>1 DEF DeleteObject, Ready, Serving, Removed, NextSeq
  <2>2. Justified(live, after, req, manifests)
    BY DEF Justified, ReqWf, Retires
  <2> HIDE DEF req
  <2>3. StepOK(live, Len(journal) + 1, rec, after, inst.partNos, Len(manifests))
    BY <2>1, LiveWf, DeleteStep
  <2> HIDE DEF rec, after
  <2> QED BY <2>1, <2>2, <2>3, LiveWf, JournaledKeeps
<1>2. CASE CreateMultipartUpload(c, b, k)
  <2> DEFINE rec == [type |-> "createUpload", u |-> Len(journal) + 1, b |-> b, k |-> k]
             after == WithUpload(live, Len(journal) + 1, NewUpload(b, k))
             req == [op |-> "createUpload", b |-> b, k |-> k]
  <2>1. /\ Journaled(rec, after, req) /\ ProcessUnchanged /\ manifests' = manifests
        /\ pend' = pend /\ status \in {"serve", "tool"} /\ b \in live.buckets
    BY <1>2 DEF CreateMultipartUpload, Ready, Serving, NextSeq
  <2>2. Justified(live, after, req, manifests)
    BY DEF Justified, ReqWf, Retires
  <2> HIDE DEF req
  <2>3. StepOK(live, Len(journal) + 1, rec, after, inst.partNos, Len(manifests))
    BY <2>1, LiveWf, CreateUploadStep
  <2> HIDE DEF rec, after
  <2> QED BY <2>1, <2>2, <2>3, LiveWf, JournaledKeeps
<1> QED BY <1>1, <1>2

\* AbortMultipartUpload.
LEMMA Abort ==
  ASSUME IInv, NEW c \in Clients, NEW u \in DOMAIN live.ups, AbortMultipartUpload(c, u)
  PROVE  IInv'
<1> DEFINE rec == [type |-> "abort", u |-> u]
           after == WithoutUpload(live, u)
           req == [op |-> "abort", u |-> u]
<1>1. /\ Journaled(rec, after, req) /\ ProcessUnchanged /\ manifests' = manifests
      /\ pend' = pend /\ status \in {"serve", "tool"}
  BY DEF AbortMultipartUpload, Ready, Serving
<1>2. /\ StepOK(live, Len(journal) + 1, rec, after, inst.partNos, Len(manifests))
      /\ u \notin DOMAIN after.ups
  BY LiveWf, AbortStep
<1>3. Justified(live, after, req, manifests)
  BY <1>2 DEF Justified, ReqWf, Retires
<1> HIDE DEF rec, after, req
<1> QED BY <1>1, <1>2, <1>3, LiveWf, JournaledKeeps

\* commitObjectRootChecked: the precondition is evaluated on the root it replaces.
LEMMA CommitRoot ==
  ASSUME IInv, NEW c \in Clients, CommitObjectRoot(c)
  PROVE  IInv'
<1> DEFINE req == pend[c]
           b == req.b
           k == req.k
           cur == live.objs[<<b, k>>]
           rec == [type |-> "put", b |-> b, k |-> k, man |-> req.man, prev |-> cur.man]
           root == WithRoot(live, <<b, k>>, Len(journal) + 1, req.man)
           after == IF cur = NoRoot THEN root
                    ELSE Archived(root, <<b, k>>, Len(journal) + 1, cur.man, "overwritten")
<1>1. /\ Journaled(rec, after, req) /\ ProcessUnchanged /\ manifests' = manifests
      /\ pend' = [pend EXCEPT ![c] = Idle] /\ status \in {"serve", "tool"}
      /\ req.op = "commit" /\ b \in live.buckets
  BY DEF CommitObjectRoot, NextSeq, Ends, Asks, BucketStillThere
<1>2. MetIn(live, req, manifests)
  BY DEF CommitObjectRoot, ConditionHolds, CheckPasses, ETagOf, MetIn
<1>3. ReqWf(req, manifests)
  BY LiveWf DEF PendOK
<1>4. k \in Keys /\ req.man \in 1 .. Len(manifests)
  BY <1>1, <1>3 DEF ReqWf
<1>5. PendOK(pend', manifests, inst.partNos)
  BY <1>1, LiveWf, Ended
<1> HIDE DEF req, b, k, cur
<1>6. StepOK(live, Len(journal) + 1, rec, after, inst.partNos, Len(manifests))
  BY <1>1, <1>4, LiveWf, PutStep DEF cur
<1> HIDE DEF rec, after
<1>7. Justified(live, after, req, manifests)
  BY <1>1, <1>2, <1>3 DEF Justified, Retires
<1> QED BY <1>1, <1>5, <1>6, <1>7, JournaledKeeps

\* commitPart.
LEMMA PartCommitted ==
  ASSUME IInv, NEW c \in Clients, CommitPart(c)
  PROVE  IInv'
<1> DEFINE req == pend[c]
           rec == [type |-> "part", u |-> req.u, n |-> req.n, body |-> req.body]
           after == WithPart(live, req.u, req.n, req.body)
<1>1. /\ Journaled(rec, after, req) /\ ProcessUnchanged /\ manifests' = manifests
      /\ pend' = [pend EXCEPT ![c] = Idle] /\ status \in {"serve", "tool"}
      /\ req.op = "part" /\ req.u \in DOMAIN live.ups
  BY DEF CommitPart, Serving, Ends, Asks
<1>2. ReqWf(req, manifests) /\ PartNosOK(req, inst.partNos)
  BY LiveWf DEF PendOK
<1>3. req.n \in inst.partNos
  BY <1>1, <1>2 DEF PartNosOK
<1>4. PendOK(pend', manifests, inst.partNos)
  BY <1>1, LiveWf, Ended
<1> HIDE DEF req
<1>5. StepOK(live, Len(journal) + 1, rec, after, inst.partNos, Len(manifests))
  BY <1>1, <1>3, LiveWf, PartStep
<1> HIDE DEF rec, after
<1>6. Justified(live, after, req, manifests)
  BY <1>1, <1>2 DEF Justified, Retires
<1> QED BY <1>1, <1>4, <1>5, <1>6, JournaledKeeps

\* CompleteMultipartUpload's second critical section.
LEMMA CompleteCommitted ==
  ASSUME IInv, NEW c \in Clients, CommitComplete(c)
  PROVE  IInv'
<1> DEFINE req == pend[c]
           b == req.b
           k == req.k
           cur == live.objs[<<b, k>>]
           rec == [type |-> "complete", u |-> req.u, b |-> b, k |-> k, man |-> req.man,
                   prev |-> cur.man]
           done == WithoutUpload(WithRoot(live, <<b, k>>, Len(journal) + 1, req.man), req.u)
           after == IF cur = NoRoot THEN done
                    ELSE Archived(done, <<b, k>>, Len(journal) + 1, cur.man, "overwritten")
<1>1. /\ Journaled(rec, after, req) /\ ProcessUnchanged /\ manifests' = manifests
      /\ pend' = [pend EXCEPT ![c] = Idle] /\ status \in {"serve", "tool"}
      /\ req.op = "retire" /\ b \in live.buckets /\ req.u \in DOMAIN live.ups
  BY DEF CommitComplete, Serving, NextSeq, Ends, Asks, UploadStillOpen
<1>2. ReqWf(req, manifests)
  BY LiveWf DEF PendOK
<1>3. k \in Keys /\ req.man \in 1 .. Len(manifests)
  BY <1>1, <1>2 DEF ReqWf
<1>4. PendOK(pend', manifests, inst.partNos)
  BY <1>1, LiveWf, Ended
<1> HIDE DEF req, b, k, cur
<1>5. /\ StepOK(live, Len(journal) + 1, rec, after, inst.partNos, Len(manifests))
      /\ req.u \notin DOMAIN after.ups
  <2> DEFINE u == req.u
             man == req.man
             seq == Len(journal) + 1
  <2>1. b \in live.buckets /\ u \in DOMAIN live.ups /\ k \in Keys /\ man \in 1 .. Len(manifests)
    BY <1>1, <1>3
  <2>2. rec = [type |-> "complete", u |-> u, b |-> b, k |-> k, man |-> man,
               prev |-> live.objs[<<b, k>>].man]
    BY DEF cur
  <2>3. after = LET put == WithoutUpload(WithRoot(live, <<b, k>>, seq, man), u) IN
                IF live.objs[<<b, k>>] = NoRoot THEN put
                ELSE Archived(put, <<b, k>>, seq, live.objs[<<b, k>>].man, "overwritten")
    BY DEF cur
  <2> HIDE DEF rec, after, u, man
  <2>4. StepOK(live, seq, rec, after, inst.partNos, Len(manifests)) /\ u \notin DOMAIN after.ups
    BY <2>1, <2>2, <2>3, LiveWf, CompleteStep
  <2> QED BY <2>4 DEF u
<1> HIDE DEF rec, after
<1>6. Justified(live, after, req, manifests)
  BY <1>1, <1>2, <1>5 DEF Justified, Retires
<1> QED BY <1>1, <1>4, <1>5, <1>6, JournaledKeeps

\* A frame of applyHistoryPrune.
LEMMA Pruned ==
  ASSUME IInv, NEW b \in Buckets, NEW keep, PruneFrame(b, keep)
  PROVE  IInv'
<1>1. PICK drop : /\ Journaled([type |-> "prune", b |-> b, drop |-> drop],
                               WithoutHistory(live, b, drop), [op |-> "prune", b |-> b])
  BY DEF PruneFrame
<1> DEFINE rec == [type |-> "prune", b |-> b, drop |-> drop]
           after == WithoutHistory(live, b, drop)
           req == [op |-> "prune", b |-> b]
<1>2. /\ Journaled(rec, after, req) /\ ProcessUnchanged /\ manifests' = manifests
      /\ pend' = pend /\ status \in {"serve", "tool"}
  BY <1>1 DEF PruneFrame
<1>3. Justified(live, after, req, manifests)
  BY DEF Justified, ReqWf, Retires
<1> HIDE DEF req
<1>4. StepOK(live, Len(journal) + 1, rec, after, inst.partNos, Len(manifests))
  BY LiveWf, PruneStep
<1> HIDE DEF rec, after
<1> QED BY <1>2, <1>3, <1>4, LiveWf, JournaledKeeps

\* handlePutObject up to its commit.
LEMMA PutIngested ==
  ASSUME IInv, NEW c \in Clients, NEW b \in Buckets, NEW k \in Keys, NEW body, NEW cond,
         PutObject(c, b, k, body, cond)
  PROVE  IInv'
<1> DEFINE man == [body |-> body, etag |-> Md5(body)]
           req == ToCommit(b, k, Len(manifests) + 1, cond, NoSource)
<1>1. /\ manifests' = Append(manifests, man) /\ pend' = [pend EXCEPT ![c] = req]
      /\ ProcessUnchanged /\ NamespaceUnchanged
  BY DEF PutObject, Publish, Asks
<1> HIDE DEF man
<1>2. Len(manifests) \in Nat /\ Len(manifests') = Len(manifests) + 1
  BY <1>1, LiveWf
<1>3. ReqWf(req, manifests') /\ PartNosOK(req, inst.partNos)
  BY <1>2 DEF ReqWf, PartNosOK, ToCommit, NoSource
<1> HIDE DEF req
<1>4. PendOK(pend, manifests', inst.partNos)
  BY <1>1, LiveWf, PendOutlivesAppends
<1>5. PendOK(pend', manifests', inst.partNos)
  BY <1>1, <1>3, <1>4, Asked
<1> QED BY <1>1, <1>5, PublishMoves

\* CopyObject captures and checks its source.
LEMMA CopyChecked ==
  ASSUME IInv, NEW c \in Clients, NEW b \in Buckets, NEW k \in Keys, NEW sb \in Buckets,
         NEW sk \in Keys, NEW cond, CopyObject(c, sb, sk, b, k, cond)
  PROVE  IInv'
<1> DEFINE src == live.objs[<<sb, sk>>]
           req == [op |-> "copy", sb |-> sb, sk |-> sk, man |-> src.man, b |-> b, k |-> k,
                   cond |-> cond]
<1>1. /\ src # NoRoot
      /\ cond.kind = "match" => manifests[src.man].etag = cond.etag
      /\ pend' = [pend EXCEPT ![c] = req]
      /\ ProcessUnchanged /\ NamespaceUnchanged /\ manifests' = manifests
  BY DEF CopyObject, Asks, ETagOf
<1>2. src.man \in 1 .. Len(manifests)
  <2>1. <<sb, sk>> \in Slots
    BY DEF Slots
  <2> QED BY <2>1, <1>1, LiveWf, RootsArePublished
<1> HIDE DEF src
<1>3. ReqWf(req, manifests) /\ PartNosOK(req, inst.partNos)
  BY <1>1, <1>2 DEF ReqWf, PartNosOK
<1> HIDE DEF req
<1>4. PendOK(pend', manifests, inst.partNos)
  BY <1>1, <1>3, LiveWf, Asked
<1> QED BY <1>1, <1>4, RequestMoves

\* CopyObject publishes a manifest equal to the one it checked.
LEMMA CopyPublished ==
  ASSUME IInv, NEW c \in Clients, PublishCopy(c)
  PROVE  IInv'
<1> DEFINE old == pend[c]
           man == manifests[old.man]
           req == ToCommit(old.b, old.k, Len(manifests) + 1, NoCondition,
                           [cond |-> old.cond, man |-> old.man])
<1>1. /\ manifests' = Append(manifests, man) /\ pend' = [pend EXCEPT ![c] = req]
      /\ ProcessUnchanged /\ NamespaceUnchanged /\ old.op = "copy"
  BY DEF PublishCopy, Publish, Asks, CopySource
<1>2. ReqWf(old, manifests)
  BY LiveWf DEF PendOK
<1>3. Len(manifests) \in Nat
  BY LiveWf
<1>4. /\ Len(manifests') = Len(manifests) + 1 /\ manifests'[Len(manifests) + 1] = man
      /\ \A i \in 1 .. Len(manifests) : manifests'[i] = manifests[i]
  BY <1>1, <1>3
<1> HIDE DEF old
<1>5. /\ old.b \in Buckets /\ old.k \in Keys /\ old.man \in 1 .. Len(manifests)
      /\ old.cond.kind = "match" => man.etag = old.cond.etag
  BY <1>1, <1>2 DEF ReqWf
<1>6. manifests'[old.man] = man
  BY <1>4, <1>5
<1> HIDE DEF man
<1>7. ReqWf(req, manifests') /\ PartNosOK(req, inst.partNos)
  BY <1>3, <1>4, <1>5, <1>6 DEF ReqWf, PartNosOK, ToCommit
<1> HIDE DEF req
<1>8. PendOK(pend, manifests', inst.partNos)
  BY <1>1, <1>3, LiveWf, PendOutlivesAppends
<1>9. PendOK(pend', manifests', inst.partNos)
  BY <1>1, <1>7, <1>8, Asked
<1> QED BY <1>1, <1>9, PublishMoves

\* RestoreObjectVersion takes the manifest of a history row.
LEMMA RestoreChosen ==
  ASSUME IInv, NEW c \in Clients, NEW b \in Buckets, NEW k \in Keys,
         RestoreObjectVersion(c, b, k)
  PROVE  IInv'
<1>1. /\ ProcessUnchanged /\ NamespaceUnchanged /\ manifests' = manifests
  BY DEF RestoreObjectVersion
<1>2. PICK i \in DOMAIN live.hist[<<b, k>>] :
        Asks(c, ToCommit(b, k, RestoredManifest(live.hist[<<b, k>>][i]), NoCondition, NoSource))
  BY DEF RestoreObjectVersion
<1> DEFINE man == live.hist[<<b, k>>][i].man
           req == ToCommit(b, k, man, NoCondition, NoSource)
<1>3. pend' = [pend EXCEPT ![c] = req]
  BY <1>2 DEF Asks, RestoredManifest
<1>4. man \in 1 .. Len(manifests)
  <2>1. <<b, k>> \in Slots
    BY DEF Slots
  <2> QED BY <2>1, LiveWf, RootsArePublished
<1> HIDE DEF man
<1>5. ReqWf(req, manifests) /\ PartNosOK(req, inst.partNos)
  BY <1>4 DEF ReqWf, PartNosOK, ToCommit, NoSource, NoCondition
<1> HIDE DEF req
<1>6. PendOK(pend', manifests, inst.partNos)
  BY <1>3, <1>5, LiveWf, Asked
<1> QED BY <1>1, <1>6, RequestMoves

\* handleUploadPart and handleUploadPartCopy up to their commit.
LEMMA PartIngested ==
  ASSUME IInv, NEW c \in Clients, NEW u, NEW n \in inst.partNos,
         \/ \E body : UploadPart(c, u, n, body)
         \/ \E sb \in Buckets, sk \in Keys : UploadPartCopy(c, u, n, sb, sk)
  PROVE  IInv'
<1>1. /\ ProcessUnchanged /\ NamespaceUnchanged /\ manifests' = manifests
      /\ \E body : pend' = [pend EXCEPT ![c] = [op |-> "part", u |-> u, n |-> n, body |-> body]]
  BY DEF UploadPart, UploadPartCopy, Asks
<1>2. PICK body : pend' = [pend EXCEPT ![c] = [op |-> "part", u |-> u, n |-> n, body |-> body]]
  BY <1>1
<1> DEFINE req == [op |-> "part", u |-> u, n |-> n, body |-> body]
<1>3. ReqWf(req, manifests) /\ PartNosOK(req, inst.partNos)
  BY DEF ReqWf, PartNosOK
<1>4. pend' = [pend EXCEPT ![c] = req]
  BY <1>2
<1> HIDE DEF req
<1>5. PendOK(pend', manifests, inst.partNos)
  BY <1>3, <1>4, LiveWf, Asked
<1> QED BY <1>1, <1>5, RequestMoves

\* CompleteMultipartUpload's first critical section: the parts it captures are
\* the ones the client named.
LEMMA CompletionChecked ==
  ASSUME IInv, NEW c \in Clients, NEW u \in DOMAIN live.ups, NEW want,
         CompleteMultipartUpload(c, u, want)
  PROVE  IInv'
<1> DEFINE order == Ascending(DOMAIN want)
           parts == [i \in 1 .. Len(order) |-> live.ups[u].parts[order[i]]]
           b == live.ups[u].bucket
           k == live.ups[u].key
           req == [op |-> "assemble", u |-> u, b |-> b, k |-> k, want |-> want, parts |-> parts]
<1>1. /\ ProcessUnchanged /\ NamespaceUnchanged /\ manifests' = manifests
      /\ pend' = [pend EXCEPT ![c] = req]
      /\ \A i \in 1 .. Len(order) : live.ups[u].parts[order[i]] = want[order[i]]
  BY DEF CompleteMultipartUpload, Asks
<1>2. parts = WantedParts(want)
  <2> HIDE DEF order
  <2>1. parts = [i \in 1 .. Len(order) |-> want[order[i]]]
    BY <1>1
  <2> QED BY <2>1 DEF WantedParts, order
<1>3. b \in Buckets /\ k \in Keys
  BY LiveWf DEF NsWf, UpsWf
<1> HIDE DEF parts, b, k
<1>4. ReqWf(req, manifests) /\ PartNosOK(req, inst.partNos)
  BY <1>2, <1>3 DEF ReqWf, PartNosOK
<1> HIDE DEF req
<1>5. PendOK(pend', manifests, inst.partNos)
  BY <1>1, <1>4, LiveWf, Asked
<1> QED BY <1>1, <1>5, RequestMoves

\* The parts captured are what is assembled.
LEMMA Assembled ==
  ASSUME IInv, NEW c \in Clients, AssembleParts(c)
  PROVE  IInv'
<1> DEFINE old == pend[c]
           man == [body |-> FlattenSeq(old.parts), etag |-> MultipartETag(old.parts)]
           req == [op |-> "retire", u |-> old.u, b |-> old.b, k |-> old.k,
                   want |-> old.want, man |-> Len(manifests) + 1]
<1>1. /\ manifests' = Append(manifests, man) /\ pend' = [pend EXCEPT ![c] = req]
      /\ ProcessUnchanged /\ NamespaceUnchanged /\ old.op = "assemble"
  BY DEF AssembleParts, Publish, Asks, PartsCaptured
<1>2. ReqWf(old, manifests) /\ Len(manifests) \in Nat
  BY LiveWf DEF PendOK
<1>3. Len(manifests') = Len(manifests) + 1 /\ manifests'[Len(manifests) + 1] = man
  BY <1>1, <1>2
<1> HIDE DEF old
<1>4. old.b \in Buckets /\ old.k \in Keys /\ old.parts = WantedParts(old.want)
  BY <1>1, <1>2 DEF ReqWf
<1>5. man.body = FlattenSeq(WantedParts(old.want))
  BY <1>4
<1> HIDE DEF man
<1>6. ReqWf(req, manifests') /\ PartNosOK(req, inst.partNos)
  BY <1>2, <1>3, <1>4, <1>5 DEF ReqWf, PartNosOK
<1> HIDE DEF req
<1>7. PendOK(pend, manifests', inst.partNos)
  BY <1>1, <1>2, LiveWf, PendOutlivesAppends
<1>8. PendOK(pend', manifests', inst.partNos)
  BY <1>1, <1>6, <1>7, Asked
<1> QED BY <1>1, <1>8, PublishMoves

\* A request that fails.
LEMMA RequestGivenUp ==
  ASSUME IInv, NEW c \in Clients, RequestFails(c)
  PROVE  IInv'
<1>1. /\ ProcessUnchanged /\ NamespaceUnchanged /\ manifests' = manifests
      /\ pend' = [pend EXCEPT ![c] = Idle]
  BY DEF RequestFails, Ends, Asks
<1>2. PendOK(pend', manifests, inst.partNos)
  BY <1>1, LiveWf, Ended
<1> QED BY <1>1, <1>2, RequestMoves

\* Every step of a request keeps the invariant.
LEMMA RequestKeeps ==
  ASSUME IInv, NEW c \in Clients, Request(c)
  PROVE  IInv'
<1>1. CASE \E b \in Buckets : CreateBucket(c, b) \/ DeleteBucket(c, b)
  BY <1>1, BucketRequests
<1>2. CASE \E b \in Buckets, k \in Keys :
             DeleteObject(c, b, k) \/ CreateMultipartUpload(c, b, k)
  BY <1>2, KeyRequests
<1>3. CASE \E b \in Buckets, k \in Keys : RestoreObjectVersion(c, b, k)
  BY <1>3, RestoreChosen
<1>4. CASE \E b \in Buckets, k \in Keys, body \in Bodies, cond \in Conditions :
             PutObject(c, b, k, body, cond)
  BY <1>4, PutIngested
<1>5. CASE \E b \in Buckets, k \in Keys, sb \in Buckets, sk \in Keys,
             cond \in Conditions \ {IfAbsent} : CopyObject(c, sb, sk, b, k, cond)
  BY <1>5, CopyChecked
<1>6. CASE \E u \in DOMAIN live.ups : AbortMultipartUpload(c, u)
  BY <1>6, Abort
<1>7. CASE \E u \in DOMAIN live.ups, want \in Wants : CompleteMultipartUpload(c, u, want)
  BY <1>7, CompletionChecked
<1>8. CASE \E u \in DOMAIN live.ups, n \in PartNos :
             \/ \E body \in Bodies : UploadPart(c, u, n, body)
             \/ \E sb \in Buckets, sk \in Keys : UploadPartCopy(c, u, n, sb, sk)
  <2>1. PICK u \in DOMAIN live.ups, n \in PartNos :
             \/ \E body \in Bodies : UploadPart(c, u, n, body)
             \/ \E sb \in Buckets, sk \in Keys : UploadPartCopy(c, u, n, sb, sk)
    BY <1>8
  <2>2. n \in inst.partNos
    BY DEF PartNos
  <2> QED BY <2>1, <2>2, PartIngested
<1>9. CASE \/ PublishCopy(c) \/ CommitObjectRoot(c) \/ CommitPart(c)
           \/ AssembleParts(c) \/ CommitComplete(c) \/ RequestFails(c)
  BY <1>9, CopyPublished, CommitRoot, PartCommitted, Assembled, CompleteCommitted,
     RequestGivenUp
<1> QED BY <1>1, <1>2, <1>3, <1>4, <1>5, <1>6, <1>7, <1>8, <1>9 DEF Request
-----------------------------------------------------------------------------
(* The life of the process.                                                *)

\* After a restart nobody waits.
LEMMA NothingPending ==
  ASSUME NEW mans, NEW P, NEW p, p = [c \in Clients |-> Idle]
  PROVE  PendOK(p, mans, P)
<1>1. ReqWf(Idle, mans) /\ PartNosOK(Idle, P)
  BY DEF ReqWf, PartNosOK, Idle
<1> QED BY <1>1 DEF PendOK

\* A kill loses memory, and nothing acknowledged.
LEMMA Killed ==
  ASSUME IInv, Kill
  PROVE  IInv'
<1>1. /\ journal' = journal /\ synced' = synced /\ chain' = chain /\ status' = "down"
      /\ live' = EmptyNs /\ applied' = 0 /\ poisoned' = FALSE /\ role' = role
      /\ pend' = [c \in Clients |-> Idle] /\ manifests' = manifests /\ acks' = acks
      /\ inst' = inst
  BY DEF Kill, ProcessGone
<1>2. ChainInv' /\ VersionInv' /\ AckInv'
  BY <1>1 DEF IInv, ChainInv, VersionInv, AckInv
<1>3. PendInv'
  <2>1. PendOK(pend', manifests', inst'.partNos)
    BY <1>1, NothingPending
  <2> QED BY <2>1 DEF PendInv, PendOK
<1>4. /\ Len(journal) \in Nat /\ chain[1] = EmptyNs /\ synced \in 0 .. Len(journal)
      /\ role \in {"serve", "tool"} /\ inst \in Instances /\ Len(manifests) \in Nat
  BY DEF IInv, ChainInv, ChainOK, ProcessInv
<1>5. ProcessInv'
  <2>1. poisoned' \in BOOLEAN /\ status' \notin {"serve", "tool"}
    BY <1>1
  <2> QED BY <2>1, <1>1, <1>4 DEF ProcessInv
<1> QED BY <1>2, <1>3, <1>5 DEF IInv

\* A power failure cuts the journal at or after the last synced frame, so every
\* acknowledged frame is before the cut.
LEMMA PowerFailed ==
  ASSUME IInv, PowerFail
  PROVE  IInv'
<1>1. PICK n \in synced .. Len(journal) :
        /\ journal' = SubSeq(journal, 1, n) /\ synced' = n
        /\ chain' = SubSeq(chain, 1, n + 1)
  BY DEF PowerFail
<1>2. /\ status' = "down" /\ live' = EmptyNs /\ applied' = 0 /\ poisoned' = FALSE
      /\ pend' = [c \in Clients |-> Idle] /\ role' = role /\ manifests' = manifests
      /\ acks' = acks /\ inst' = inst
  BY DEF PowerFail, ProcessGone
<1>3. /\ ChainOK(journal, chain, inst.partNos, Len(manifests))
      /\ VersionsFound(journal, chain) /\ synced \in 0 .. Len(journal)
  BY DEF IInv, ChainInv, VersionInv, ProcessInv
<1>4. Len(journal) \in Nat /\ n \in 0 .. Len(journal)
  BY <1>3 DEF ChainOK
<1>5. /\ ChainOK(journal', chain', inst.partNos, Len(manifests))
      /\ VersionsFound(journal', chain')
      /\ Len(journal') = n /\ \A i \in 1 .. n + 1 : chain'[i] = chain[i]
  <2>1. n \in 0 .. Len(journal) /\ CutAt(n, journal, chain, journal', chain')
    BY <1>1, <1>4 DEF CutAt
  <2>2. /\ ChainOK(journal', chain', inst.partNos, Len(manifests))
        /\ VersionsFound(journal', chain') /\ Len(journal') = n
    BY <2>1, <1>3, ChainCut
  <2>3. \A i \in 1 .. n + 1 : chain'[i] = chain[i]
    BY <2>1, <1>3 DEF ChainOK, CutAt
  <2> QED BY <2>2, <2>3
<1>6. ChainInv' /\ VersionInv'
  BY <1>2, <1>5 DEF ChainInv, VersionInv
<1>7. PendInv'
  <2>1. PendOK(pend', manifests', inst'.partNos)
    BY <1>2, NothingPending
  <2> QED BY <2>1 DEF PendInv, PendOK
<1>8. Len(chain') = n + 1 /\ chain'[1] = EmptyNs /\ Len(chain) = Len(journal) + 1
  BY <1>3, <1>5 DEF ChainOK
<1>9. ProcessInv'
  <2>1. poisoned' \in BOOLEAN /\ status' \notin {"serve", "tool"}
    BY <1>2
  <2>2. role \in {"serve", "tool"} /\ inst \in Instances /\ Len(manifests) \in Nat
    BY DEF IInv, ProcessInv
  <2> QED BY <2>1, <2>2, <1>1, <1>2, <1>4, <1>5, <1>8 DEF ProcessInv
<1>10. ASSUME NEW a \in acks PROVE AckOK(a, chain', n, manifests)
  <2>1. AckOK(a, chain, synced, manifests)
    BY DEF IInv, AckInv
  <2>2. a.seq \in 1 .. n /\ chain'[a.seq] = chain[a.seq]
    BY <2>1, <1>3, <1>4, <1>5 DEF AckOK
  <2>3. \A m \in a.seq + 1 .. Len(chain') : m \in a.seq + 1 .. Len(chain) /\ chain'[m] = chain[m]
    BY <2>2, <1>4, <1>5, <1>8
  <2> QED BY <2>1, <2>2, <2>3 DEF AckOK
<1>11. AckInv'
  BY <1>1, <1>2, <1>10 DEF IInv, AckInv
<1> QED BY <1>6, <1>7, <1>9, <1>11 DEF IInv

\* OpenStore, before and after replay.
LEMMA Opened ==
  ASSUME IInv, (\E r \in {"serve", "tool"} : OpenStore(r)) \/ ReplayDone
  PROVE  IInv'
<1>1. /\ journal' = journal /\ synced' = synced /\ chain' = chain /\ live' = live
      /\ applied' = applied /\ poisoned' = poisoned /\ pend' = pend
      /\ manifests' = manifests /\ acks' = acks /\ inst' = inst
      /\ role' \in {"serve", "tool"}
      /\ \/ status' = "replaying"
         \/ status' = role /\ applied = Len(journal)
  BY DEF OpenStore, ReplayDone, IInv, ProcessInv
<1>2. ChainInv' /\ VersionInv' /\ AckInv' /\ PendInv'
  BY <1>1 DEF IInv, ChainInv, VersionInv, AckInv, PendInv
<1>3. ProcessInv'
  BY <1>1 DEF IInv, ProcessInv
<1> QED BY <1>2, <1>3 DEF IInv

\* Replay finds each record acceptable, and makes of it what the handler made.
LEMMA Replayed ==
  ASSUME IInv, Replay
  PROVE  IInv'
<1> DEFINE rec == journal[applied + 1]
<1>1. /\ Len(journal) \in Nat /\ applied \in 0 .. Len(journal) /\ applied < Len(journal)
      /\ live = chain[applied + 1]
  BY DEF IInv, ChainInv, ChainOK, ProcessInv, Replay
<1>2. Accepts(live, rec) /\ chain[applied + 2] = ApplyRecord(live, applied + 1, rec)
  <2>1. applied + 1 \in 1 .. Len(journal)
    BY <1>1
  <2>2. Leads(chain[applied + 1], applied + 1, journal[applied + 1], chain[(applied + 1) + 1])
    BY <2>1 DEF IInv, ChainInv, ChainOK
  <2>3. (applied + 1) + 1 = applied + 2
    BY <1>1
  <2> QED BY <1>1, <2>2, <2>3 DEF Leads
<1>3. /\ live' = ApplyRecord(live, applied + 1, rec) /\ applied' = applied + 1
      /\ status' = status /\ status = "replaying"
      /\ journal' = journal /\ synced' = synced /\ role' = role /\ poisoned' = poisoned
      /\ manifests' = manifests /\ pend' = pend /\ chain' = chain /\ acks' = acks
      /\ inst' = inst
  BY <1>2 DEF Replay
<1>4. ChainInv' /\ VersionInv' /\ AckInv' /\ PendInv'
  BY <1>3 DEF IInv, ChainInv, VersionInv, AckInv, PendInv
<1>5. applied' \in 0 .. Len(journal) /\ live' = chain'[applied' + 1]
  <2>1. applied' + 1 = applied + 2
    BY <1>1, <1>3
  <2> QED BY <1>1, <1>2, <1>3, <2>1
<1>6. ProcessInv'
  BY <1>3, <1>5 DEF IInv, ProcessInv
<1> QED BY <1>4, <1>6 DEF IInv
-----------------------------------------------------------------------------
\* A new store.
LEMMA InitHolds ==
  ASSUME Init
  PROVE  IInv
<1>1. /\ journal = <<>> /\ synced = 0 /\ applied = 0 /\ live = EmptyNs
      /\ status = "serve" /\ role = "serve" /\ poisoned = FALSE
      /\ manifests = <<>> /\ pend = [c \in Clients |-> Idle]
      /\ chain = <<EmptyNs>> /\ acks = {} /\ inst \in Instances
  BY DEF Init
<1>2. /\ Len(journal) = 0 /\ Len(chain) = 1 /\ chain[1] = EmptyNs /\ Len(manifests) = 0
  BY <1>1
<1>3. NsWf(EmptyNs, inst.partNos) /\ Names(EmptyNs, 0) /\ DOMAIN EmptyNs.ups = {}
  <2>1. /\ EmptyNs.buckets = {} /\ EmptyNs.ups = <<>> /\ DOMAIN EmptyNs.ups = {}
        /\ EmptyNs.objs = [s \in Slots |-> NoRoot] /\ EmptyNs.hist = [s \in Slots |-> <<>>]
        /\ EmptyNs = [buckets |-> EmptyNs.buckets, objs |-> EmptyNs.objs,
                      hist |-> EmptyNs.hist, ups |-> EmptyNs.ups]
    BY DEF EmptyNs
  <2>2. NoRoot \in Root /\ NoRoot.man = 0 /\ <<>> \in Seq(Row)
    BY DEF NoRoot, Root
  <2>3. EmptyNs.objs \in [Slots -> Root] /\ EmptyNs.hist \in [Slots -> Seq(Row)]
    BY <2>1, <2>2
  <2>4. EmptyNs \in [buckets : SUBSET Buckets, objs : [Slots -> Root],
                     hist : [Slots -> Seq(Row)], ups : {EmptyNs.ups}]
    BY <2>1, <2>3
  <2>5. \A s \in Slots : EmptyNs.objs[s] = NoRoot /\ EmptyNs.hist[s] = <<>>
    BY <2>1
  <2>6. UpsWf(EmptyNs.ups, EmptyNs.buckets, inst.partNos)
    BY <2>1 DEF UpsWf
  <2>7. NsWf(EmptyNs, inst.partNos)
    BY <2>4, <2>5, <2>6 DEF NsWf
  <2>8. Names(EmptyNs, 0)
    BY <2>2, <2>5 DEF Names
  <2> QED BY <2>1, <2>7, <2>8
<1>4. ChainInv
  BY <1>2, <1>3 DEF ChainInv, ChainOK
<1>5. VersionInv
  BY <1>2 DEF VersionInv, VersionsFound
<1>6. PendInv
  <2>1. PendOK(pend, manifests, inst.partNos)
    BY <1>1, NothingPending
  <2> QED BY <2>1 DEF PendInv, PendOK
<1>7. AckInv
  BY <1>1 DEF AckInv
<1>8. ProcessInv
  <2>1. poisoned \in BOOLEAN
    BY <1>1
  <2>2. /\ synced \in 0 .. Len(journal) /\ applied \in 0 .. Len(journal)
        /\ applied = Len(journal) /\ live = chain[applied + 1] /\ Len(manifests) \in Nat
    BY <1>1, <1>2
  <2>3. /\ status \in {"down", "replaying", "serve", "tool"} /\ role \in {"serve", "tool"}
        /\ inst \in Instances
    BY <1>1
  <2> QED BY <2>1, <2>2, <2>3 DEF ProcessInv
<1> QED BY <1>4, <1>5, <1>6, <1>7, <1>8 DEF IInv

\* Every step keeps the invariant.
LEMMA NextKeeps ==
  ASSUME IInv, [Next]_vars
  PROVE  IInv'
<1>1. CASE UNCHANGED vars
  <2>1. ChainInv' /\ VersionInv' /\ AckInv' /\ PendInv' /\ ProcessInv'
    BY <1>1 DEF vars, IInv, ChainInv, VersionInv, AckInv, PendInv, ProcessInv
  <2> QED BY <2>1 DEF IInv
<1>2. CASE \E c \in Clients : Request(c)
  BY <1>2, RequestKeeps
<1>3. CASE \E b \in Buckets, keep \in 0 .. 1 : PruneFrame(b, keep)
  BY <1>3, Pruned
<1>4. CASE Kill
  BY <1>4, Killed
<1>5. CASE PowerFail
  BY <1>5, PowerFailed
<1>6. CASE (\E r \in {"serve", "tool"} : OpenStore(r)) \/ ReplayDone
  BY <1>6, Opened
<1>7. CASE Replay
  BY <1>7, Replayed
<1> QED BY <1>1, <1>2, <1>3, <1>4, <1>5, <1>6, <1>7 DEF Next

\* The inductive invariant of the namespace, its journal and its requests.
THEOREM InductiveInvariant == Spec => []IInv
BY InitHolds, NextKeeps, PTL DEF Spec

\* The invariant implies the type invariant,
LEMMA InvType ==
  ASSUME IInv
  PROVE  TypeOK
<1>1. /\ Len(journal) \in Nat /\ Len(chain) = Len(journal) + 1
      /\ synced \in 0 .. Len(journal) /\ applied \in 0 .. Len(journal)
      /\ status \in {"down", "replaying", "serve", "tool"} /\ role \in {"serve", "tool"}
      /\ DOMAIN pend = Clients /\ poisoned \in BOOLEAN
  BY DEF IInv, ChainInv, ChainOK, ProcessInv, PendInv
<1>2. NsWf(live, inst.partNos) /\ Names(live, Len(manifests)) /\ Len(manifests) \in Nat
  BY LiveWf
<1>3. NsWf(chain[Len(chain)], inst.partNos)
  BY <1>1 DEF IInv, ChainInv, ChainOK
<1>4. ASSUME NEW ns, NsWf(ns, inst.partNos) PROVE NsOK(ns)
  BY <1>4 DEF NsWf, UpsWf, NsOK, PartNos
<1>5. \A s \in Slots : live.objs[s].man \in 0 .. Len(manifests)
  <2>1. \A s \in Slots : live.objs[s] \in Root
    BY <1>2 DEF NsWf
  <2> QED BY <2>1, <1>2 DEF Names, Root
<1> QED BY <1>1, <1>2, <1>3, <1>4, <1>5 DEF TypeOK

\* that no version is lost,
LEMMA InvVersions ==
  ASSUME IInv
  PROVE  NoVersionLost
<1> SUFFICES ASSUME NEW n \in 1 .. applied, journal[n].type \in {"put", "complete"}
             PROVE  LET slot == <<journal[n].b, journal[n].k>>
                        man  == journal[n].man
                    IN  \/ live.objs[slot].man = man
                        \/ RowFor(live, slot, man)
                        \/ \E p \in n + 1 .. applied : DroppedBy(p, slot, man)
  BY DEF NoVersionLost
<1>1. /\ Len(journal) \in Nat /\ applied \in 0 .. Len(journal) /\ live = chain[applied + 1]
      /\ VersionsFound(journal, chain)
  BY DEF IInv, ChainInv, ChainOK, ProcessInv, VersionInv
<1>2. n \in 1 .. Len(journal) /\ applied \in n .. Len(journal)
  BY <1>1
<1>3. Found(journal, chain, n, applied)
  BY <1>1, <1>2 DEF VersionsFound, Commits
<1> QED BY <1>1, <1>3 DEF Found, Holds, Drops, DroppedBy, SlotOf

\* that an upload is retired once,
LEMMA InvUploads ==
  ASSUME IInv
  PROVE  UploadsEndOnce
<1>1. \A u \in DOMAIN live.ups : live.ups[u].bucket \in live.buckets
  BY LiveWf DEF NsWf, UpsWf
<1>2. ASSUME NEW a1 \in acks, NEW a2 \in acks, Retires(a1.req), Retires(a2.req),
             a1.req.u = a2.req.u
      PROVE  a1 = a2
  <2>1. AckOK(a1, chain, synced, manifests) /\ AckOK(a2, chain, synced, manifests)
    BY DEF IInv, AckInv
  <2>2. /\ synced \in 0 .. Len(journal) /\ Len(chain) = Len(journal) + 1
        /\ Len(journal) \in Nat
    BY DEF IInv, ChainInv, ChainOK, ProcessInv
  <2>3. a1.seq \in 1 .. Len(chain) /\ a2.seq \in 1 .. Len(chain)
    BY <2>1, <2>2 DEF AckOK
  <2>4. ~(a1.seq < a2.seq)
    BY <1>2, <2>1, <2>2, <2>3 DEF AckOK
  <2>5. ~(a2.seq < a1.seq)
    BY <1>2, <2>1, <2>2, <2>3 DEF AckOK
  <2>6. a1.seq = a2.seq
    BY <2>3, <2>4, <2>5
  <2> QED BY <2>6 DEF IInv, AckInv
<1> QED BY <1>1, <1>2 DEF UploadsEndOnce, Retires

\* and that acknowledged requests did what they said.
LEMMA InvRequests ==
  ASSUME IInv
  PROVE  ConditionsHeldAtCommit /\ CopyIsOfCheckedSource /\ CompletionIsWhatWasNamed
<1>1. \A a \in acks : AckOK(a, chain, synced, manifests)
  BY DEF IInv, AckInv
<1>2. ConditionsHeldAtCommit
  BY <1>1 DEF AckOK, MetIn, ConditionsHeldAtCommit, CheckPasses, ETagOf
<1>3. CopyIsOfCheckedSource
  BY <1>1 DEF AckOK, ReqWf, CopyIsOfCheckedSource, ETagOf
<1>4. CompletionIsWhatWasNamed
  BY <1>1 DEF AckOK, ReqWf, WantedParts, CompletionIsWhatWasNamed
<1> QED BY <1>2, <1>3, <1>4
-----------------------------------------------------------------------------
(* The theorems.                                                           *)

\* Roots, rows and uploads have their types, in memory and in what the
\* handlers made, and no root names a manifest that was not published.
THEOREM TypeCorrect == Spec => []TypeOK
BY InductiveInvariant, InvType, PTL

\* The namespace in memory is at all times what the handlers made of the
\* journal's prefix that was applied: what OpenStore rebuilds by applyRecord
\* is the namespace that was served, for any sequence of requests, failed
\* appends, kills and lost tails.
THEOREM ReplayIsFaithful == Spec => []ReplayReproduces
<1>1. IInv => ReplayReproduces
  BY DEF IInv, ProcessInv, ReplayReproduces
<1> QED BY <1>1, InductiveInvariant, PTL

\* OpenStore never fails on a journal the store wrote: no record names a
\* bucket or an upload that replay does not have.
THEOREM ReplaySucceeds == Spec => []ReplayNeverRefuses
<1>1. IInv => ReplayNeverRefuses
  BY DEF IInv, ProcessInv, ReplayNeverRefuses
<1> QED BY <1>1, InductiveInvariant, PTL

\* If-Match and If-None-Match of an acknowledged write held of the very root
\* it replaced, however many requests ran between its arrival and its commit.
THEOREM ConditionalWritesAreAtomic == Spec => []ConditionsHeldAtCommit
BY InductiveInvariant, InvRequests, PTL

\* An acknowledged CopyObject has the bytes and ETag of the source it checked.
THEOREM CopiesAreOfCheckedSources == Spec => []CopyIsOfCheckedSource
BY InductiveInvariant, InvRequests, PTL

\* An acknowledged CompleteMultipartUpload is the concatenation of the parts
\* the client named, whatever was uploaded while it was being assembled.
THEOREM CompletionsAreWhatWasNamed == Spec => []CompletionIsWhatWasNamed
BY InductiveInvariant, InvRequests, PTL

\* Of all completions and aborts of one upload at most one is acknowledged, in
\* all of the store's life, and an open upload has its bucket.
THEOREM UploadsAreRetiredOnce == Spec => []UploadsEndOnce
BY InductiveInvariant, InvUploads, PTL

\* A version that was committed is its key's root or one of its history rows
\* for ever after, unless a prune frame dropped it.
THEOREM VersionsAreKept == Spec => []NoVersionLost
BY InductiveInvariant, InvVersions, PTL
=============================================================================
