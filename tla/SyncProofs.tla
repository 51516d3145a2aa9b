----------------------------- MODULE SyncProofs -----------------------------
(***************************************************************************)
(* Proofs about Sync, for every set of keys and chunks and every instance, *)
(* whatever is lost, killed, restarted or written by others meanwhile:     *)
(* commits replace only what their run saw, what the destination shows is  *)
(* whole, a run that reports success has brought everything, and a         *)
(* conflict without another writer is the run meeting its own work.        *)
(*                                                                         *)
(* One invariant each, resting on the ones before it: the types (TInv),    *)
(* where a commit's precondition comes from (OInv), what is stored (WInv), *)
(* what the command carries of a source that did not change (SInv), what   *)
(* its results say (RInv), the order of its commits (QInv), and what the   *)
(* keys nobody else wrote hold (CInv).                                     *)
(***************************************************************************)
EXTENDS Sync, FiniteSetTheorems, WellFoundedInduction, TLAPS

SyncSpec == SyncInit /\ [][SyncNext]_syncVars

MaybeRevs == Revs \cup {NoRev}
Pres == [absent : BOOLEAN, etag : MaybeRevs]
Outcomes == {"ok", "error", "conflict"}
Pcs == {"idle", "list", "next", "describe", "stat", "scan", "head", "negotiate",
        "relay", "restat", "commit", "wait", "recheck", "put", "end"}

\* The command works on one object; it has something of it in hand; it has
\* seen the destination.
Looking  == {"negotiate", "relay", "restat", "commit", "wait", "recheck"}
Carrying == Looking \cup {"scan", "head", "put"}
Busy     == Carrying \cup {"describe", "stat"}

ClientRec ==
  [pc : Pcs, run : Nat, cursor : Nat, todo : Seq(Keys), rev : MaybeRevs, pre : Pres,
   seen : SUBSET MaybeRevs, missing : SUBSET Chunks, before : [size : Nat, mtime : Nat], plain : BOOLEAN,
   retried : BOOLEAN, results : SUBSET (Keys \X Outcomes), ok : BOOLEAN]
CommitRec ==
  [run : Nat, key : Keys, body : Seq(Chunks), pre : Pres, seen : SUBSET MaybeRevs,
   checked : BOOLEAN, whole : BOOLEAN]
CasFns == [{"src", "dst"} -> [Chunks -> {"absent", "good", "bad"}]]
FileFns == [Keys -> [body : Seq(Chunks), mtime : Nat]]
VersionFns == [Keys -> SUBSET [body : Seq(Chunks), moved : BOOLEAN]]

\* Types, and which steps the command takes in which mode.
ClientOK(cl, mode) ==
  /\ cl \in ClientRec
  /\ cl.pc \in Busy => cl.todo # <<>>
  /\ cl.pc \in Carrying => cl.rev \in Revs
  /\ cl.pc \in {"stat", "scan", "restat", "put"} => mode = "sync"
  /\ mode = "sync" => cl.pc \notin {"list", "describe", "recheck"}
CommitsOK(cs, cl) == cs \subseteq CommitRec /\ \A m \in cs : m.run <= cl.run
TInv ==
  /\ inst \in SyncInstances /\ src \in Objects /\ dst \in Objects
  /\ cas \in CasFns /\ file \in FileFns
  /\ ClientOK(client, inst.mode) /\ CommitsOK(commits, client)
  /\ stable \subseteq Keys /\ quiet \subseteq Keys /\ foreign \subseteq Keys
  /\ versions \in VersionFns

\* A precondition that names an ETag names one the run saw; in the modes that
\* only create, the ETag of what is to be committed.
PreOK(pre, seen, body, mode) ==
  ~pre.absent => /\ pre.etag \in seen
                 /\ mode \in {"fork", "restore"} => pre.etag.body = body
OClient(cl, mode) ==
  /\ PreOK(cl.pre, cl.seen, cl.rev.body, mode)
  /\ cl.pc \notin Looking \cup {"scan", "put"} => cl.pre.absent
OCommits(cs, mode) == \A m \in cs : PreOK(m.pre, m.seen, m.body, mode)
OInv == OClient(client, inst.mode) /\ OCommits(commits, inst.mode) /\ OverwritesAreIntended

\* The chunks of a body are there, good or bad.
Held(body, store) == \A c \in Range(body) : store[c] # "absent"
AllHeld(objects, store) == \A k \in Keys : objects[k] # NoRev => Held(objects[k].body, store)
CommitsHeld(cs, store) == \A m \in cs : m.whole /\ (m.checked => Held(m.body, store))

\* While every write moves the mtime on, what was scanned is a prefix of the
\* file, or all of it, unless its mtime has changed.
PrefixOf(s, t) == Len(s) <= Len(t) /\ \A i \in 1 .. Len(s) : s[i] = t[i]
Known(body, seen) == \E v \in seen : v.body = body
AllKnown(files, vers) == \A k \in Keys : Known(files[k].body, vers[k])
Scanned(cl, body, mtime, moved) ==
  /\ moved /\ cl.pc \in {"head", "scan"} \cup Looking /\ ~cl.plain => cl.before.mtime <= mtime
  /\ cl.pc = "head" => cl.rev.body = <<>> /\ ~cl.plain
  /\ moved /\ cl.pc = "scan" /\ ~cl.plain /\ cl.before.mtime = mtime => PrefixOf(cl.rev.body, body)
  /\ cl.pc \in {"negotiate", "relay", "restat"} =>
       ~cl.plain /\ (moved /\ cl.before.mtime = mtime => cl.rev.body = body)
WClient(cl, files, vers) ==
  /\ cl.pc # "idle" => AllKnown(files, vers)
  /\ cl.pc \in {"next", "stat"} => ~cl.plain
  /\ cl.pc \in Carrying =>
       LET k == Head(cl.todo)
       IN /\ Scanned(cl, files[k].body, files[k].mtime, MovedOn(vers[k]))
          /\ cl.pc = "commit" => OneVersion(cl.rev.body, vers[k])
WInv ==
  /\ AllHeld(dst, cas["dst"]) /\ CommitsHeld(commits, cas["dst"]) /\ applied.whole
  /\ inst.mode = "sync" => WClient(client, file, versions)

\* What the source offers for a key.
OfferedBy(k, mode, source, files) ==
  IF mode = "sync" THEN files[k].body ELSE IF source[k] = NoRev THEN <<>> ELSE source[k].body

\* Of a key whose source is as it was when the run began, the command carries
\* the revision that is still there, or what it has read of the file.
Carries(cl, k, mode, source, files) ==
  IF mode # "sync" THEN cl.pc \in Carrying => cl.rev = source[k]
  ELSE /\ cl.pc \in Carrying => cl.rev.multi = FALSE
       /\ cl.pc = "head" => cl.rev.body = <<>>
       /\ cl.pc = "scan" => PrefixOf(cl.rev.body, files[k].body)
       /\ cl.pc \in Looking \cup {"put"} => cl.rev.body = files[k].body
InHand(cl, st, mode, source, files) ==
  cl.pc \in Busy /\ Head(cl.todo) \in st => Carries(cl, Head(cl.todo), mode, source, files)

\* A commit of such a key, or of one that nobody else ever wrote, brings what
\* the source offers.
Current(m, cl, st, fo) == m.key \notin fo \/ (m.run = cl.run /\ m.key \in st)
Bring(cs, cl, st, fo, mode, source, files) ==
  \A m \in cs : Current(m, cl, st, fo) => m.body = OfferedBy(m.key, mode, source, files)
SInv ==
  /\ client.pc # "idle" => Keys \ foreign \subseteq stable
  /\ InHand(client, stable, inst.mode, src, file)
  /\ Bring(commits, client, stable, foreign, inst.mode, src, file)

\* Every key that stayed the same is listed or has its result, and a result
\* that says ok is true of it.
Covered(cl, keys) == \A k \in keys :
  (\E i \in DOMAIN cl.todo : cl.todo[i] = k) \/ (\E r \in cl.results : r[1] = k)
Progress(cl, keys) ==
  /\ cl.pc = "list" => Covered(cl, {k \in keys : k <= cl.cursor})
  /\ cl.pc \in Busy \cup {"next"} => Covered(cl, keys)
  /\ cl.ok => /\ cl.pc = "end" /\ Covered(cl, keys) /\ cl.todo = <<>>
              /\ \A r \in cl.results : r[2] = "ok"
Brought(k, objects, mode, source, files) ==
  objects[k] # NoRev /\ objects[k].body = OfferedBy(k, mode, source, files)
Honest(results, keys, objects, mode, source, files) ==
  \A r \in results : r[2] = "ok" /\ r[1] \in keys => Brought(r[1], objects, mode, source, files)
ToBring(st, mode, source, files) == {k \in st : OfferedBy(k, mode, source, files) # <<>>}
RInv ==
  /\ \A k \in Keys : inst.file[k] = <<>> => file[k].body = <<>>
  /\ Progress(client, ToBring(stable, inst.mode, src, file))
  /\ Honest(client.results, stable \cap quiet, dst, inst.mode, src, file)

\* The list is in order, without repetition, and a commit of the run is for a
\* key that is dealt with, or the one it waits for.
InOrder(todo) == \A i, j \in DOMAIN todo : i < j => todo[i] < todo[j]
Retries(cl) == cl.retried => cl.pc \in {"commit", "wait", "recheck"} /\ ~cl.pre.absent
Awaited(cl, cs) == \A m \in cs : m.run = cl.run =>
  /\ cl.pc # "list"
  /\ \A i \in DOMAIN cl.todo : m.key = cl.todo[i] => i = 1 /\ cl.pc = "wait" /\ m.pre = cl.pre
OneEach(cs) == \A m, n \in cs : m.run = n.run /\ m.key = n.key => m = n
QInv ==
  /\ InOrder(client.todo) /\ Retries(client) /\ Awaited(client, commits) /\ OneEach(commits)
  /\ client.pc = "list" => \A i \in DOMAIN client.todo : client.todo[i] <= client.cursor

\* A key nobody else wrote: the destination has what it had at first, or what
\* was brought to it, and then it keeps that.
Landed(k, mode, source, files) == Rev(OfferedBy(k, mode, source, files), FALSE)
Saw(pre, k, i, objects, source, files) ==
  LET landed == Landed(k, i.mode, source, files) IN
    /\ pre.absent <=> pre.etag = NoRev
    /\ pre.etag \in {i.dst[k], landed}
    /\ pre.etag = landed => objects[k] = landed
CKeys(fo, i, objects, source, files) ==
  \A k \in Keys \ fo : objects[k] \in {i.dst[k], Landed(k, i.mode, source, files)}
CCommits(cs, fo, i, objects, source, files) ==
  \A m \in cs : m.key \notin fo => Saw(m.pre, m.key, i, objects, source, files)
CClient(cl, fo, i, objects, source, files) ==
  cl.pc \in Looking \cup {"scan"} /\ Head(cl.todo) \notin fo =>
    LET k == Head(cl.todo) IN
      /\ cl.pc # "scan" \/ ~cl.plain => Saw(cl.pre, k, i, objects, source, files)
      /\ cl.pc = "recheck" => objects[k] = Landed(k, i.mode, source, files)
CResults(results, fo, i, objects, source, files) ==
  \A r \in results : r[2] = "conflict" /\ r[1] \notin fo =>
    /\ objects[r[1]] = Landed(r[1], i.mode, source, files)
    /\ i.mode = "fork" => source[r[1]].multi
CInv ==
  /\ CKeys(foreign, inst, dst, src, file) /\ CCommits(commits, foreign, inst, dst, src, file)
  /\ CClient(client, foreign, inst, dst, src, file)
  /\ CResults(client.results, foreign, inst, dst, src, file)
-----------------------------------------------------------------------------
(* Induction over the naturals, as a fact about sets; and the loop of      *)
(* ListObjectsV2.                                                          *)

\* A set of naturals with 0 and the successor of each member is all of Nat.
LEMMA NatSetInduction ==
  ASSUME NEW T \in SUBSET Nat, 0 \in T, \A n \in T : n + 1 \in T
  PROVE  T = Nat
<1> SUFFICES ASSUME Nat \ T # {} PROVE FALSE
  OBVIOUS
<1>1. PICK x \in Nat \ T : \A y \in Nat \ T : <<y, x>> \notin OpToRel(<, Nat)
  BY WFMin, NatLessThanWellFounded
<1>2. \A y \in Nat \ T : ~(y < x)
  BY <1>1 DEF OpToRel
<1>3. x # 0 /\ x - 1 \in Nat
  OBVIOUS
<1>4. x - 1 \in T
  BY <1>2, <1>3
<1> QED BY <1>3, <1>4

\* e is the last of the entries in S.
IsLast(e, S) == e \in S /\ \A d \in S : d = e \/ Before(d, e)

\* Finitely many entries have a last one.
LEMMA LastEntryIsLast ==
  ASSUME NEW S \in SUBSET (Nat \X Nat), IsFiniteSet(S), S # {}
  PROVE  IsLast(LastEntry(S), S)
<1> DEFINE Good(n) == \A U \in SUBSET (Nat \X Nat) :
             IsFiniteSet(U) /\ U # {} /\ Cardinality(U) = n => \E e \in U : IsLast(e, U)
           T == {n \in Nat : Good(n)}
<1>1. 0 \in T
  <2> SUFFICES ASSUME NEW U \in SUBSET (Nat \X Nat), IsFiniteSet(U), U # {}, Cardinality(U) = 0
               PROVE  FALSE
    OBVIOUS
  <2> QED BY FS_EmptySet
<1>2. ASSUME NEW n \in T PROVE n + 1 \in T
  <2> SUFFICES ASSUME NEW U \in SUBSET (Nat \X Nat), IsFiniteSet(U), U # {}, Cardinality(U) = n + 1
               PROVE  \E e \in U : IsLast(e, U)
    OBVIOUS
  <2>1. PICK x \in U : TRUE
    OBVIOUS
  <2> DEFINE V == U \ {x}
  <2>2. IsFiniteSet(V) /\ Cardinality(V) = n /\ V \in SUBSET (Nat \X Nat)
    <3>1. IsFiniteSet(V) /\ Cardinality(V) = Cardinality(U) - 1
      BY <2>1, FS_RemoveElement
    <3> QED BY <3>1, <1>2
  <2>3. CASE V = {}
    BY <2>3, <2>1 DEF IsLast
  <2>4. CASE V # {}
    <3>1. PICK l \in V : IsLast(l, V)
      BY <1>2, <2>2, <2>4
    <3>2. x[1] \in Nat /\ x[2] \in Nat /\ l[1] \in Nat /\ l[2] \in Nat
          /\ x = <<x[1], x[2]>> /\ l = <<l[1], l[2]>> /\ x # l
      BY <2>1, <3>1
    <3>3. CASE Before(l, x)
      <4>1. ASSUME NEW d \in U, d # x PROVE Before(d, x)
        <5>1. d = l \/ Before(d, l)
          BY <3>1, <4>1 DEF IsLast
        <5>2. d[1] \in Nat /\ d[2] \in Nat
          OBVIOUS
        <5> QED BY <5>1, <5>2, <3>2, <3>3 DEF Before
      <4> QED BY <4>1, <2>1 DEF IsLast
    <3>4. CASE Before(x, l)
      <4>1. \A d \in U : d = l \/ Before(d, l)
        BY <3>1, <3>4 DEF IsLast
      <4> QED BY <4>1, <3>1 DEF IsLast
    <3> QED BY <3>2, <3>3, <3>4 DEF Before
  <2> QED BY <2>3, <2>4
<1>3. T = Nat
  <2> HIDE DEF T
  <2>1. T \in SUBSET Nat
    BY DEF T
  <2> QED BY <1>1, <1>2, <2>1, NatSetInduction
<1>4. \E e \in S : IsLast(e, S)
  <2>1. Cardinality(S) \in T
    BY <1>3, FS_CardinalityType
  <2> QED BY <2>1
<1> QED BY <1>4 DEF LastEntry, IsLast

\* One round of the loop, with the page of the entries before the last one.
Round(page, T, delimited, marker, max) ==
  Step(page, LastEntry(T), GroupOf(LastEntry(T), delimited),
       AlreadyReturned(GroupOf(LastEntry(T), delimited), page, marker), max)
Turn(f, T, delimited, marker, max) ==
  IF T = {} THEN NoPage ELSE Round(f[T \ {LastEntry(T)}], T, delimited, marker, max)
IsBuilt(f, S, delimited, marker, max) ==
  f = [T \in SUBSET S |-> Turn(f, T, delimited, marker, max)]

\* The loop computes a page for every finite set of entries.
LEMMA BuiltExists ==
  ASSUME NEW S \in SUBSET (Nat \X Nat), IsFiniteSet(S), NEW delimited, NEW marker, NEW max
  PROVE  \E f : IsBuilt(f, S, delimited, marker, max)
<1> DEFINE P == SUBSET S
           Upto(f, n) == /\ f = [T \in P |-> f[T]]
                         /\ \A T \in P : Cardinality(T) <= n => f[T] = Turn(f, T, delimited, marker, max)
           N == {n \in Nat : \E f : Upto(f, n)}
<1>0. \A T \in P : /\ IsFiniteSet(T) /\ Cardinality(T) \in Nat /\ T \in SUBSET (Nat \X Nat)
                   /\ Cardinality(T) <= Cardinality(S)
  BY FS_Subset, FS_CardinalityType
<1>1. \A T \in P : T # {} => T \ {LastEntry(T)} \in P
                             /\ Cardinality(T \ {LastEntry(T)}) = Cardinality(T) - 1
  <2> SUFFICES ASSUME NEW T \in P, T # {}
               PROVE  T \ {LastEntry(T)} \in P /\ Cardinality(T \ {LastEntry(T)}) = Cardinality(T) - 1
    OBVIOUS
  <2>1. LastEntry(T) \in T
    BY <1>0, LastEntryIsLast DEF IsLast
  <2> QED BY <2>1, <1>0, FS_RemoveElement
<1>2. 0 \in N
  <2> DEFINE f == [T \in P |-> NoPage]
  <2>1. f = [T \in P |-> f[T]]
    OBVIOUS
  <2>2. ASSUME NEW T \in P, Cardinality(T) <= 0 PROVE f[T] = Turn(f, T, delimited, marker, max)
    <3>1. T = {}
      BY <2>2, <1>0, FS_EmptySet
    <3> QED BY <3>1 DEF Turn
  <2>3. Upto(f, 0)
    <3> HIDE DEF f
    <3> QED BY <2>1, <2>2
  <2> HIDE DEF Upto, f
  <2> QED BY <2>3
<1>3. ASSUME NEW n \in N PROVE n + 1 \in N
  <2>1. PICK f : Upto(f, n)
    BY <1>3
  <2> DEFINE g == [T \in P |-> IF Cardinality(T) <= n THEN f[T] ELSE Turn(f, T, delimited, marker, max)]
  <2>2. g = [T \in P |-> g[T]]
    OBVIOUS
  <2>3. \A T \in P : g[T] = IF Cardinality(T) <= n THEN f[T] ELSE Turn(f, T, delimited, marker, max)
    OBVIOUS
  <2> HIDE DEF g
  <2>4. ASSUME NEW T \in P, Cardinality(T) <= n + 1 PROVE g[T] = Turn(g, T, delimited, marker, max)
    <3>1. g[T] = Turn(f, T, delimited, marker, max)
      BY <2>1, <2>3
    <3>2. T # {} => g[T \ {LastEntry(T)}] = f[T \ {LastEntry(T)}]
      <4> SUFFICES ASSUME T # {} PROVE g[T \ {LastEntry(T)}] = f[T \ {LastEntry(T)}]
        OBVIOUS
      <4>1. T \ {LastEntry(T)} \in P /\ Cardinality(T \ {LastEntry(T)}) <= n
        BY <1>1, <1>0, <2>4
      <4> QED BY <4>1, <2>3
    <3> QED BY <3>1, <3>2 DEF Turn
  <2>5. Upto(g, n + 1)
    BY <2>2, <2>4
  <2> HIDE DEF Upto
  <2> QED BY <2>5
<1>4. N = Nat
  <2> HIDE DEF N
  <2>1. N \in SUBSET Nat
    BY DEF N
  <2> QED BY <1>2, <1>3, <2>1, NatSetInduction
<1>5. PICK f : Upto(f, Cardinality(S))
  <2>1. Cardinality(S) \in N
    BY <1>4, FS_CardinalityType
  <2> HIDE DEF Upto
  <2> QED BY <2>1
<1>6. \A T \in P : f[T] = Turn(f, T, delimited, marker, max)
  BY <1>5, <1>0
<1>7. IsBuilt(f, S, delimited, marker, max)
  <2>1. f = [T \in P |-> f[T]]
    BY <1>5
  <2>2. [T \in P |-> f[T]] = [T \in P |-> Turn(f, T, delimited, marker, max)]
    BY <1>6
  <2> QED BY <2>1, <2>2 DEF IsBuilt
<1> QED BY <1>7

\* A page of entries without a delimiter: it names entries of S in order, all
\* of them up to its last one, and all of S unless it says it is truncated.
PageSound(page, T) ==
  /\ page.units \in Seq(T) /\ page.truncated \in BOOLEAN /\ page.last \in T \cup {Start}
  /\ T # {} => page.last \in T
  /\ \A i, j \in DOMAIN page.units : i < j => Before(page.units[i], page.units[j])
  /\ \A i \in DOMAIN page.units : ~Before(page.last, page.units[i])
  /\ IF page.truncated THEN T # {} /\ \A e \in T : ~Before(page.last, e) => e \in Range(page.units)
     ELSE T \subseteq Range(page.units)

\* What one round adds to a sound page.
LEMMA RoundSound ==
  ASSUME NEW T \in SUBSET (Nat \X Nat), NEW e, IsLast(e, T), NEW max \in Nat \ {0},
         NEW page \in [units : Seq(T \ {e}), group : Nat, last : (T \ {e}) \cup {Start}, truncated : BOOLEAN],
         PageSound(page, T \ {e}), NEW skipped, NEW next, next = Step(page, e, 0, skipped, max)
  PROVE  /\ next \in [units : Seq(T), group : Nat, last : T \cup {Start}, truncated : BOOLEAN]
         /\ PageSound(next, T)
<1> DEFINE V == T \ {e}
<1>1. /\ e \in T /\ e[1] \in Nat /\ e[2] \in Nat
      /\ \A d \in V : Before(d, e) /\ d[1] \in Nat /\ d[2] \in Nat
  BY DEF IsLast
<1>2. page.units \in Seq(T) /\ page.units \in Seq(V) /\ Len(page.units) \in Nat
  OBVIOUS
<1>3. CASE page.truncated
  <2>1. next = page
    BY <1>3 DEF Step
  <2>2. page.last \in V /\ V # {}
    BY <1>3 DEF PageSound
  <2>3. \A d \in T : ~Before(page.last, d) => d \in Range(page.units)
    BY <1>1, <1>3, <2>2 DEF PageSound
  <2> QED BY <2>1, <2>2, <2>3, <1>2, <1>3 DEF PageSound
<1>4. CASE ~page.truncated /\ Fits(page, max)
  <2> DEFINE units == Append(page.units, e)
  <2>1. next = [page EXCEPT !.units = units, !.last = e]
    BY <1>4 DEF Step, Emit
  <2>2. /\ units \in Seq(T) /\ Len(units) = Len(page.units) + 1
        /\ units[Len(page.units) + 1] = e
        /\ \A i \in 1 .. Len(page.units) : units[i] = page.units[i] /\ page.units[i] \in V
    BY <1>1, <1>2
  <2>2a. DOMAIN units = 1 .. Len(page.units) + 1 /\ DOMAIN page.units = 1 .. Len(page.units)
    BY <1>2, <2>2
  <2> HIDE DEF units
  <2>3. next.units = units /\ next.last = e /\ next.truncated = FALSE
        /\ next \in [units : Seq(T), group : Nat, last : T \cup {Start}, truncated : BOOLEAN]
    BY <2>1, <2>2, <1>1, <1>4
  <2>4. \A i, j \in DOMAIN units : i < j => Before(units[i], units[j])
    <3> SUFFICES ASSUME NEW i \in DOMAIN units, NEW j \in DOMAIN units, i < j
                 PROVE  Before(units[i], units[j])
      OBVIOUS
    <3>1. i \in 1 .. Len(page.units)
      BY <2>2a, <1>2
    <3>2. CASE j = Len(page.units) + 1
      BY <3>1, <3>2, <2>2, <1>1
    <3>3. CASE j \in 1 .. Len(page.units)
      BY <3>1, <3>3, <2>2, <2>2a DEF PageSound
    <3> QED BY <3>2, <3>3, <2>2a, <1>2
  <2>4a. \A i \in DOMAIN units : ~Before(e, units[i])
    <3> SUFFICES ASSUME NEW i \in DOMAIN units PROVE ~Before(e, units[i])
      OBVIOUS
    <3>1. CASE i = Len(page.units) + 1
      BY <3>1, <2>2, <1>1 DEF Before
    <3>2. CASE i \in 1 .. Len(page.units)
      <4>1. Before(units[i], e) /\ units[i][1] \in Nat /\ units[i][2] \in Nat
        BY <3>2, <2>2, <1>1
      <4> QED BY <4>1, <1>1 DEF Before
    <3> QED BY <3>1, <3>2, <2>2a, <1>2
  <2>5. T \subseteq Range(units)
    <3> SUFFICES ASSUME NEW d \in T PROVE \E i \in DOMAIN units : units[i] = d
      BY DEF Range
    <3>1. CASE d = e
      <4>1. Len(page.units) + 1 \in DOMAIN units
        BY <2>2a, <1>2
      <4> QED BY <3>1, <4>1, <2>2
    <3>2. CASE d \in V
      <4>1. PICK i \in DOMAIN page.units : page.units[i] = d
        BY <3>2, <1>4 DEF PageSound, Range
      <4>2. i \in 1 .. Len(page.units)
        BY <4>1, <2>2a
      <4>3. i \in 1 .. Len(page.units) + 1
        BY <4>2, <1>2
      <4>4. units[i] = page.units[i]
        BY <4>2, <2>2
      <4> QED BY <4>1, <4>3, <4>4, <2>2a
    <3> QED BY <3>1, <3>2
  <2> QED BY <2>2, <2>3, <2>4, <2>4a, <2>5, <1>1 DEF PageSound
<1>5. CASE ~page.truncated /\ ~Fits(page, max)
  <2>1. next = [page EXCEPT !.truncated = TRUE]
    BY <1>5 DEF Step, Emit
  <2>2. V # {}
    <3>1. Len(page.units) # 0
      BY <1>5, <1>2 DEF Fits
    <3>2. page.units[1] \in V
      BY <3>1, <1>2
    <3> QED BY <3>2
  <2>3. page.last \in V /\ V \subseteq Range(page.units)
    BY <1>5, <2>2 DEF PageSound
  <2>4. \A d \in T : ~Before(page.last, d) => d \in Range(page.units)
    BY <1>1, <2>3
  <2>5. /\ next.units = page.units /\ next.last = page.last /\ next.truncated = TRUE
        /\ next \in [units : Seq(T), group : Nat, last : T \cup {Start}, truncated : BOOLEAN]
    BY <2>1, <1>2
  <2> QED BY <2>3, <2>4, <2>5, <1>1, <1>2 DEF PageSound
<1> QED BY <1>3, <1>4, <1>5

\* ListObjectsV2 without a delimiter.
LEMMA ListObjectsSound ==
  ASSUME NEW objects \in SUBSET (Nat \X Nat), IsFiniteSet(objects), NEW after, NEW max \in Nat \ {0}
  PROVE  PageSound(ListObjectsV2(objects, FALSE, after, max), {e \in objects : Key(e) > Key(after)})
<1> DEFINE S == {e \in objects : Key(e) > Key(after)}
           f == CHOOSE g : IsBuilt(g, S, FALSE, Start, max)
           Pages(T) == [units : Seq(T), group : Nat, last : T \cup {Start}, truncated : BOOLEAN]
           Sound(T) == f[T] \in Pages(T) /\ PageSound(f[T], T)
           N == {n \in Nat : \A T \in SUBSET S : Cardinality(T) = n => Sound(T)}
<1>1. S \in SUBSET (Nat \X Nat) /\ IsFiniteSet(S)
  BY FS_Subset
<1>2. IsBuilt(f, S, FALSE, Start, max)
  BY <1>1, BuiltExists
<1>3. ListObjectsV2(objects, FALSE, after, max) = f[S]
  BY DEF ListObjectsV2, PageOf, IsBuilt, Turn, Round
<1> HIDE DEF f, S
<1>4. \A T \in SUBSET S : f[T] = Turn(f, T, FALSE, Start, max)
  <2> DEFINE h == [T \in SUBSET S |-> Turn(f, T, FALSE, Start, max)]
  <2>1. f = h
    BY <1>2 DEF IsBuilt
  <2>2. \A T \in SUBSET S : h[T] = Turn(f, T, FALSE, Start, max)
    OBVIOUS
  <2> HIDE DEF h
  <2> QED BY <2>1, <2>2
<1>5. \A T \in SUBSET S : T \in SUBSET (Nat \X Nat) /\ IsFiniteSet(T) /\ Cardinality(T) \in Nat
  BY <1>1, FS_Subset, FS_CardinalityType
<1>6. 0 \in N
  <2> SUFFICES ASSUME NEW T \in SUBSET S, Cardinality(T) = 0 PROVE Sound(T)
    OBVIOUS
  <2>1. T = {}
    BY <1>5, FS_EmptySet
  <2>2. f[T] = NoPage
    BY <1>4, <2>1 DEF Turn
  <2>3. NoPage.units = <<>> /\ NoPage.last = Start /\ NoPage.truncated = FALSE /\ NoPage \in Pages(T)
    BY DEF NoPage
  <2> QED BY <2>1, <2>2, <2>3 DEF PageSound
<1>7. ASSUME NEW n \in N PROVE n + 1 \in N
  <2> SUFFICES ASSUME NEW T \in SUBSET S, Cardinality(T) = n + 1 PROVE Sound(T)
    OBVIOUS
  <2> DEFINE e == LastEntry(T)
             V == T \ {e}
  <2>1. T # {}
    <3>1. n \in Nat
      BY <1>7
    <3>2. Cardinality(T) # 0
      BY <3>1
    <3> QED BY <3>2, FS_EmptySet
  <2>2. IsLast(e, T) /\ e \in T
    BY <2>1, <1>5, LastEntryIsLast DEF IsLast
  <2>3. V \in SUBSET S /\ Cardinality(V) = n
    <3>1. Cardinality(V) = Cardinality(T) - 1
      BY <2>2, <1>5, FS_RemoveElement
    <3> QED BY <3>1, <1>7
  <2>4. Sound(V)
    BY <2>3, <1>7
  <2>5. f[T] = Round(f[V], T, FALSE, Start, max)
    BY <1>4, <2>1 DEF Turn
  <2>6. PICK skipped : f[T] = Step(f[V], e, 0, skipped, max)
    BY <2>5 DEF Round, GroupOf
  <2>7. f[V] \in Pages(V) /\ PageSound(f[V], V) /\ T \in SUBSET (Nat \X Nat)
    BY <2>4, <1>5
  <2> HIDE DEF e
  <2> QED BY <2>2, <2>6, <2>7, RoundSound
<1>8. N = Nat
  <2> HIDE DEF N
  <2>1. N \in SUBSET Nat
    BY DEF N
  <2> QED BY <1>6, <1>7, <2>1, NatSetInduction
<1>9. Sound(S)
  <2>1. Cardinality(S) \in N /\ S \in SUBSET S
    BY <1>5, <1>8
  <2> QED BY <2>1
<1> QED BY <1>9, <1>3 DEF S

\* The keys of a page: keys beyond the cursor, in order, none passed over.
KeysOK(keys, page, live, after) ==
  /\ keys \in Seq({k \in live : k > after})
  /\ page.truncated \in BOOLEAN /\ Key(page.last) \in Nat
  /\ \A i, j \in DOMAIN keys : i < j => keys[i] < keys[j]
  /\ page.truncated => Key(page.last) > after /\ \A i \in DOMAIN keys : keys[i] <= Key(page.last)
  /\ \A k \in live : k > after /\ (page.truncated => k <= Key(page.last)) =>
       \E i \in DOMAIN keys : keys[i] = k

\* The keys of a page, given what the page is of the entries beyond the cursor.
LEMMA KeysOfPage ==
  ASSUME NEW live \in SUBSET Nat, NEW after \in Nat, NEW page, NEW S, PageSound(page, S),
         \A e \in S : e[1] \in live /\ e[1] > after /\ e[2] = 0 /\ e[1] \in Nat,
         \A k \in live : k > after => <<k, 0>> \in S,
         NEW keys, keys = Listed(page.units)
  PROVE  KeysOK(keys, page, live, after)
<1> DEFINE Some == {k \in live : k > after}
<1>4. \A e \in S : e[1] \in Some /\ e[2] = 0 /\ e[1] \in Nat
  OBVIOUS
<1>6. page.units \in Seq(S) /\ DOMAIN page.units = 1 .. Len(page.units) /\ Len(page.units) \in Nat
  BY DEF PageSound
<1>7. /\ DOMAIN keys = DOMAIN page.units
      /\ \A i \in DOMAIN keys : keys[i] = page.units[i][1] /\ page.units[i] \in S
  BY <1>6 DEF Listed, Key
<1>8. keys \in Seq(Some)
  <2>1. keys = [i \in 1 .. Len(page.units) |-> keys[i]]
    BY <1>6 DEF Listed
  <2>2. \A i \in 1 .. Len(page.units) : keys[i] \in Some
    BY <1>4, <1>6, <1>7
  <2> HIDE DEF Some
  <2>3. keys \in [1 .. Len(page.units) -> Some]
    BY <2>1, <2>2
  <2> QED BY <2>3, <1>6
<1>9. ASSUME NEW i \in DOMAIN keys, NEW j \in DOMAIN keys, i < j PROVE keys[i] < keys[j]
  <2>1. Before(page.units[i], page.units[j])
    BY <1>7, <1>9 DEF PageSound
  <2> QED BY <2>1, <1>4, <1>7 DEF Before
<1>10. /\ page.truncated \in BOOLEAN /\ Key(page.last) \in Nat
       /\ page.truncated => page.last \in S /\ Key(page.last) > after
  <2>1. page.last \in S \cup {Start} /\ page.truncated \in BOOLEAN /\ (page.truncated => page.last \in S)
    BY DEF PageSound
  <2> QED BY <2>1, <1>4 DEF Start, Key
<1>11. ASSUME page.truncated, NEW i \in DOMAIN keys PROVE keys[i] <= Key(page.last)
  <2>1. ~Before(page.last, page.units[i])
    BY <1>7 DEF PageSound
  <2> QED BY <2>1, <1>4, <1>7, <1>10, <1>11 DEF Before, Key
<1>12. ASSUME NEW k \in live, k > after, page.truncated => k <= Key(page.last)
       PROVE  \E i \in DOMAIN keys : keys[i] = k
  <2>1. <<k, 0>> \in S
    BY <1>12
  <2>2. <<k, 0>> \in Range(page.units)
    <3>1. CASE page.truncated
      <4>1. ~Before(page.last, <<k, 0>>)
        BY <1>4, <1>10, <1>12, <3>1 DEF Before, Key
      <4> QED BY <4>1, <3>1, <2>1 DEF PageSound
    <3>2. CASE ~page.truncated
      BY <3>2, <2>1 DEF PageSound
    <3> QED BY <3>1, <3>2
  <2>3. PICK i \in DOMAIN page.units : page.units[i] = <<k, 0>>
    BY <2>2 DEF Range
  <2>4. i \in DOMAIN keys /\ keys[i] = k
    BY <2>3, <1>7
  <2> QED BY <2>4
<1> QED BY <1>8, <1>9, <1>10, <1>11, <1>12 DEF KeysOK

PageFrom(live, after, max) == ListObjectsV2({<<k, 0>> : k \in live}, FALSE, <<after, 0>>, max)

\* A page of keys: keys beyond the cursor, in order, none passed over.
LEMMA PageOfKeys ==
  ASSUME NEW live \in SUBSET Keys, NEW after \in Nat, NEW max \in Nat, max # 0 \/ live = {},
         NEW page, page = PageFrom(live, after, max),
         NEW keys, keys = Listed(page.units)
  PROVE  KeysOK(keys, page, live, after)
<1> DEFINE objects == {<<k, 0>> : k \in live}
           S == {e \in objects : Key(e) > Key(<<after, 0>>)}
           Some == {k \in live : k > after}
<1>1. live \subseteq Nat /\ IsFiniteSet(live)
  BY PrefixAssumption, FS_Subset
<1>2. IsFiniteSet(objects) /\ objects \in SUBSET (Nat \X Nat)
  <2>1. IsFiniteSet(objects)
    <3> DEFINE f == [k \in live |-> <<k, 0>>]
    <3>1. f \in Surjection(live, objects)
      BY DEF Surjection
    <3> HIDE DEF f
    <3> QED BY <3>1, <1>1, FS_Surjection
  <2> QED BY <2>1, <1>1
<1>3. PageSound(page, S)
  <2>1. CASE max # 0
    BY <2>1, <1>2, ListObjectsSound DEF PageFrom
  <2>2. CASE max = 0
    <3>0. live = {} /\ S = {}
      BY <2>2
    <3>1. page = NoPage
      BY <2>2 DEF PageFrom, ListObjectsV2, PageOf
    <3> HIDE DEF S
    <3>2. NoPage.units = <<>> /\ NoPage.last = Start /\ NoPage.truncated = FALSE
      BY DEF NoPage
    <3>3. /\ page.units = <<>> /\ page.last = Start /\ page.truncated = FALSE
          /\ page.units \in Seq(S) /\ DOMAIN page.units = {}
      BY <3>1, <3>2
    <3> QED BY <3>0, <3>3 DEF PageSound
  <2> QED BY <2>1, <2>2
<1>4. \A e \in S : e[1] \in live /\ e[1] > after /\ e[2] = 0 /\ e[1] \in Nat
  BY <1>1 DEF Key
<1>5. \A k \in live : k > after => <<k, 0>> \in S
  BY <1>1 DEF Key
<1> HIDE DEF S
<1>6. live \in SUBSET Nat
  BY <1>1
<1> HIDE DEF objects
<1> QED BY <1>3, <1>4, <1>5, <1>6, KeysOfPage
-----------------------------------------------------------------------------
(* Types.                                                                  *)

\* What SyncAssumption says of one instance.
LEMMA InstanceFacts ==
  ASSUME NEW i \in SyncInstances
  PROVE  /\ i.mode \in {"sync", "replicate", "fork", "restore"} /\ i.same \in BOOLEAN
         /\ i.src \in Objects /\ i.dst \in Objects /\ i.file \in [Keys -> Seq(Chunks)]
         /\ i.written \subseteq Keys /\ i.revs \subseteq Revs
BY SyncAssumption

\* The object in hand is done with: nothing of it is left but its result.
Settled(old, new, outcome) ==
  /\ new \in ClientRec /\ new.pc = "next" /\ new.run = old.run /\ new.todo = Tail(old.todo)
  /\ new.results = old.results \cup {<<Head(old.todo), outcome>>}
  /\ new.pre.absent /\ ~new.retried /\ ~new.ok /\ ~new.plain

\* NewClient is a record of its type, with these fields.
LEMMA NewClientFacts ==
  /\ NewClient \in ClientRec /\ NewClient.pc = "idle" /\ NewClient.todo = <<>>
  /\ NewClient.pre = Pre(TRUE, NoRev) /\ NewClient.pre.absent /\ NewClient.results = {}
  /\ NewClient.retried = FALSE /\ NewClient.ok = FALSE /\ NewClient.rev = NoRev
  /\ NewClient.plain = FALSE
<1>1. Pre(TRUE, NoRev) \in Pres /\ Pre(TRUE, NoRev).absent = TRUE
  BY DEF Pre, Pres, MaybeRevs
<1>2. <<>> \in Seq(Keys) /\ NoRev \in MaybeRevs
  BY DEF MaybeRevs
<1> QED BY <1>1, <1>2 DEF NewClient, ClientRec, Pcs

\* ObjectDone settles the object.
LEMMA DoneSettles ==
  ASSUME client \in ClientRec, client.todo # <<>>, NEW outcome \in Outcomes, ObjectDone(outcome)
  PROVE  Settled(client, client', outcome)
<1> DEFINE tail == Tail(client.todo)
           results == client.results \cup {<<Wanted, outcome>>}
<1>1. tail \in Seq(Keys) /\ Head(client.todo) \in Keys /\ client.run \in Nat
  BY DEF ClientRec
<1>2. results \in SUBSET (Keys \X Outcomes)
  <2>1. client.results \in SUBSET (Keys \X Outcomes)
    BY DEF ClientRec
  <2> QED BY <1>1, <2>1 DEF Wanted
<1>3. client' = [NewClient EXCEPT !.pc = "next", !.run = client.run, !.todo = tail, !.results = results]
  BY DEF ObjectDone
<1> HIDE DEF tail, results
<1>4. /\ client' \in ClientRec /\ client'.pc = "next" /\ client'.run = client.run /\ client'.todo = tail
      /\ client'.results = results /\ client'.pre = NewClient.pre /\ client'.retried = NewClient.retried
      /\ client'.ok = NewClient.ok /\ client'.plain = NewClient.plain
  BY <1>1, <1>2, <1>3, NewClientFacts DEF ClientRec, Pcs
<1> QED BY <1>4, NewClientFacts DEF Settled, tail, results, Wanted

\* A settled command is well typed again.
LEMMA SettledOK ==
  ASSUME NEW old, NEW new, NEW outcome, Settled(old, new, outcome), NEW mode
  PROVE  ClientOK(new, mode)
BY DEF Settled, ClientOK, Busy, Carrying, Looking

\* Stored adds chunks and takes none away.
LEMMA StoredFacts ==
  ASSUME cas \in CasFns, NEW store \in {"src", "dst"}, NEW body
  PROVE  /\ Stored(store, body) \in CasFns
         /\ \A c \in Chunks : cas["dst"][c] # "absent" => Stored(store, body)["dst"][c] # "absent"
         /\ \A c \in Chunks : c \in Range(body) => Stored(store, body)[store][c] # "absent"
<1> DEFINE new == [c \in Chunks |-> IF c \in Range(body) /\ cas[store][c] = "absent"
                                    THEN "good" ELSE cas[store][c]]
<1>1. Stored(store, body) = [cas EXCEPT ![store] = new]
  BY DEF Stored
<1>2. new \in [Chunks -> {"absent", "good", "bad"}]
  BY DEF CasFns
<1>3. \A c \in Chunks : /\ cas[store][c] # "absent" => new[c] # "absent"
                        /\ c \in Range(body) => new[c] # "absent"
  OBVIOUS
<1> HIDE DEF new
<1> QED BY <1>1, <1>2, <1>3 DEF CasFns

\* The command stays on the same object, in the same run; it keeps what it
\* has in hand.
Stays(old, new) ==
  /\ new \in ClientRec /\ new.run = old.run /\ new.todo = old.todo /\ new.results = old.results
  /\ new.ok = old.ok
KeepsPre(old, new) == new.pre = old.pre /\ new.seen = old.seen /\ new.retried = old.retried
KeepsScan(old, new) == new.plain = old.plain /\ new.before = old.before
Keeps(old, new) == Stays(old, new) /\ KeepsPre(old, new) /\ KeepsScan(old, new) /\ new.rev = old.rev

\* Goto moves the command and nothing of what it has.
LEMMA GotoKeeps ==
  ASSUME client \in ClientRec, NEW pc \in Pcs, Goto(pc)
  PROVE  Keeps(client, client') /\ client'.pc = pc
BY DEF Goto, Keeps, Stays, KeepsPre, KeepsScan, ClientRec

\* What the command works on is a key.
LEMMA WantedIsKey ==
  ASSUME TInv, client.pc \in Busy
  PROVE  /\ client \in ClientRec /\ client.todo # <<>> /\ Wanted \in Keys /\ Wanted = Head(client.todo)
         /\ client.todo \in Seq(Keys) /\ src[Wanted] \in MaybeRevs /\ dst[Wanted] \in MaybeRevs
         /\ file[Wanted].body \in Seq(Chunks) /\ file[Wanted].mtime \in Nat
         /\ versions[Wanted] \in SUBSET [body : Seq(Chunks), moved : BOOLEAN]
<1>1. client \in ClientRec /\ client.todo # <<>> /\ client.todo \in Seq(Keys)
  BY DEF TInv, ClientOK, ClientRec
<1>2. Wanted \in Keys /\ Wanted = Head(client.todo)
  BY <1>1 DEF Wanted
<1> QED BY <1>1, <1>2 DEF TInv, Objects, MaybeRevs, FileFns, VersionFns

\* fetchSourceDescriptor captures the revision that is there.
LEMMA FetchFacts ==
  ASSUME TInv, FetchSourceDescriptor
  PROVE  \/ Settled(client, client', "error")
         \/ /\ Stays(client, client') /\ KeepsPre(client, client') /\ KeepsScan(client, client')
            /\ client'.pc = "head" /\ client'.rev = src[Wanted] /\ client'.rev \in Revs
<1>1. client.pc = "describe" /\ "describe" \in Busy /\ "head" \in Pcs
  BY DEF FetchSourceDescriptor, Busy, Pcs
<1>2. client \in ClientRec /\ client.todo # <<>> /\ Wanted \in Keys /\ src[Wanted] \in MaybeRevs
  BY <1>1, WantedIsKey
<1>3. CASE src[Wanted] = NoRev
  <2>1. ObjectDone("error") /\ "error" \in Outcomes
    BY <1>3 DEF FetchSourceDescriptor, Outcomes
  <2> QED BY <2>1, <1>2, DoneSettles
<1>4. CASE src[Wanted] # NoRev
  <2>1. client' = [client EXCEPT !.pc = "head", !.rev = src[Wanted]] /\ src[Wanted] \in Revs
    BY <1>2, <1>4 DEF FetchSourceDescriptor, MaybeRevs
  <2> QED BY <1>1, <1>2, <2>1 DEF Stays, KeepsPre, KeepsScan, ClientRec
<1> QED BY <1>3, <1>4

\* The stat before the scan.
LEMMA StatFacts ==
  ASSUME TInv, StatLocalFile
  PROVE  /\ Stays(client, client') /\ KeepsPre(client, client')
         /\ client'.rev = Rev(<<>>, FALSE) /\ client'.rev \in Revs
         /\ client'.rev.body = <<>> /\ client'.rev.multi = FALSE
         /\ \/ client'.pc = "head" /\ client'.before = Stat(Wanted) /\ client'.plain = client.plain
            \/ client'.pc = "scan" /\ client'.plain = TRUE
<1>1. client.pc = "stat" /\ "stat" \in Busy /\ {"head", "scan"} \subseteq Pcs
  BY DEF StatLocalFile, Busy, Pcs
<1>2. client \in ClientRec /\ Stat(Wanted) \in [size : Nat, mtime : Nat]
  BY <1>1, WantedIsKey DEF Stat
<1>3. /\ Rev(<<>>, FALSE) \in Revs /\ Rev(<<>>, FALSE) \in MaybeRevs
      /\ Rev(<<>>, FALSE).body = <<>> /\ Rev(<<>>, FALSE).multi = FALSE
  BY DEF Rev, Revs, MaybeRevs
<1>r. PICK rev : rev = Rev(<<>>, FALSE)
  OBVIOUS
<1>4. \/ client' = [client EXCEPT !.pc = "head", !.before = Stat(Wanted), !.rev = rev]
      \/ client' = [client EXCEPT !.pc = "scan", !.plain = TRUE, !.rev = rev]
  BY <1>r DEF StatLocalFile
<1>5. /\ Stays(client, client') /\ KeepsPre(client, client') /\ client'.rev = rev
      /\ \/ client'.pc = "head" /\ client'.before = Stat(Wanted) /\ client'.plain = client.plain
         \/ client'.pc = "scan" /\ client'.plain = TRUE
  <2>1. rev \in MaybeRevs
    BY <1>3, <1>r
  <2>2. CASE client' = [client EXCEPT !.pc = "head", !.before = Stat(Wanted), !.rev = rev]
    BY <1>1, <1>2, <2>1, <2>2 DEF Stays, KeepsPre, ClientRec
  <2>3. CASE client' = [client EXCEPT !.pc = "scan", !.plain = TRUE, !.rev = rev]
    <3>1. client' \in ClientRec
      BY <1>1, <1>2, <2>1, <2>3 DEF ClientRec
    <3>2. Stays(client, client') /\ client'.rev = rev /\ client'.pc = "scan" /\ client'.plain = TRUE
      BY <1>2, <2>3, <3>1 DEF Stays, ClientRec
    <3>3. KeepsPre(client, client')
      BY <1>2, <2>3 DEF KeepsPre, ClientRec
    <3> QED BY <3>2, <3>3
  <2> QED BY <1>4, <2>2, <2>3
<1>6. client'.rev = Rev(<<>>, FALSE)
  BY <1>5, <1>r
<1>7. client'.rev \in Revs /\ client'.rev.body = <<>> /\ client'.rev.multi = FALSE
  BY <1>3, <1>6
<1> QED BY <1>5, <1>6, <1>7

\* One block more, or the end of the file.
LEMMA ScanFacts ==
  ASSUME TInv, ScanLocalFile
  PROVE  /\ Stays(client, client') /\ KeepsPre(client, client') /\ KeepsScan(client, client')
         /\ client.rev \in Revs /\ client.rev.body \in Seq(Chunks) /\ client'.rev \in Revs
         /\ client'.rev.multi = client.rev.multi
         /\ \/ /\ client'.pc = "scan" /\ Len(client.rev.body) + 1 <= Len(file[Wanted].body)
               /\ client'.rev.body = Append(client.rev.body, file[Wanted].body[Len(client.rev.body) + 1])
            \/ /\ client'.pc = (IF client.plain THEN "put" ELSE "negotiate")
               /\ Len(client.rev.body) >= Len(file[Wanted].body) /\ client'.rev = client.rev
<1>1. client.pc = "scan" /\ "scan" \in Busy /\ "scan" \in Carrying /\ {"put", "negotiate", "scan"} \subseteq Pcs
  BY DEF ScanLocalFile, Busy, Carrying, Pcs
<1>2. client \in ClientRec /\ file[Wanted].body \in Seq(Chunks) /\ client.pc = "scan"
  BY <1>1, WantedIsKey
<1>3. client.rev \in Revs /\ client.rev.body \in Seq(Chunks)
  BY <1>1 DEF TInv, ClientOK, Revs
<1> DEFINE n == Len(client.rev.body) + 1
<1>4. n \in Nat \ {0} /\ Len(file[Wanted].body) \in Nat
  BY <1>2, <1>3
<1>5. CASE n <= Len(file[Wanted].body)
  <2> DEFINE body == Append(client.rev.body, file[Wanted].body[n])
             rev == [client.rev EXCEPT !.body = body]
  <2>1. body \in Seq(Chunks)
    BY <1>2, <1>3, <1>4, <1>5
  <2>2. client' = [client EXCEPT !.rev = rev]
    BY <1>5 DEF ScanLocalFile
  <2> HIDE DEF body
  <2>3. rev \in Revs /\ rev.body = body /\ rev.multi = client.rev.multi /\ rev \in MaybeRevs
    BY <1>3, <2>1 DEF Revs, MaybeRevs
  <2> HIDE DEF rev
  <2>4. /\ Stays(client, client') /\ KeepsPre(client, client') /\ KeepsScan(client, client')
        /\ client'.rev = rev /\ client'.pc = "scan"
    BY <1>1, <1>2, <2>2, <2>3 DEF Stays, KeepsPre, KeepsScan, ClientRec
  <2> QED BY <2>3, <2>4, <1>3, <1>5 DEF body
<1>6. CASE ~(n <= Len(file[Wanted].body))
  <2>1. Goto(IF client.plain THEN "put" ELSE "negotiate")
    BY <1>6 DEF ScanLocalFile
  <2>2. Keeps(client, client') /\ client'.pc = (IF client.plain THEN "put" ELSE "negotiate")
    BY <1>1, <1>2, <2>1, GotoKeeps
  <2> QED BY <2>2, <1>3, <1>4, <1>6 DEF Keeps
<1> QED BY <1>5, <1>6

\* The look at the destination, and the precondition made of it.
LEMMA HeadFacts ==
  ASSUME TInv, HeadSyncDestination
  PROVE  \/ /\ Settled(client, client', "conflict") /\ inst.mode = "restore"
            /\ dst[Wanted] \notin {NoRev, client.rev}
         \/ /\ Stays(client, client') /\ KeepsScan(client, client')
            /\ client'.rev = client.rev /\ client'.retried = client.retried
            /\ client'.pc = (IF inst.mode = "sync" THEN "scan" ELSE "negotiate")
            /\ client'.pre = Precondition(dst[Wanted]) /\ client'.seen = {dst[Wanted]}
<1>1. client.pc = "head" /\ "head" \in Busy /\ {"scan", "negotiate"} \subseteq Pcs /\ "conflict" \in Outcomes
  BY DEF HeadSyncDestination, Busy, Carrying, Pcs, Outcomes
<1>2. client \in ClientRec /\ client.todo # <<>> /\ dst[Wanted] \in MaybeRevs
  BY <1>1, WantedIsKey
<1>3. CASE inst.mode = "restore" /\ dst[Wanted] \notin {NoRev, client.rev}
  <2>1. ObjectDone("conflict")
    BY <1>3 DEF HeadSyncDestination
  <2> QED BY <2>1, <1>1, <1>2, <1>3, DoneSettles
<1>4. CASE ~(inst.mode = "restore" /\ dst[Wanted] \notin {NoRev, client.rev})
  <2> DEFINE pc == IF inst.mode = "sync" THEN "scan" ELSE "negotiate"
             pre == Precondition(dst[Wanted])
             seen == {dst[Wanted]}
  <2>1. client' = [client EXCEPT !.pc = pc, !.pre = pre, !.seen = seen]
    BY <1>4 DEF HeadSyncDestination
  <2>2. pre \in Pres
    BY <1>2 DEF Precondition, Pre, Pres, MaybeRevs
  <2>3. seen \in SUBSET MaybeRevs /\ pc \in Pcs
    BY <1>1, <1>2
  <2> HIDE DEF pre, seen, pc
  <2>4. client' \in ClientRec
    BY <1>2, <2>1, <2>2, <2>3 DEF ClientRec
  <2>5. /\ Stays(client, client') /\ KeepsScan(client, client')
        /\ client'.rev = client.rev /\ client'.retried = client.retried
        /\ client'.pc = pc /\ client'.pre = pre /\ client'.seen = seen
    BY <1>2, <2>1, <2>4 DEF Stays, KeepsScan, ClientRec
  <2> QED BY <2>5 DEF pre, seen, pc
<1> QED BY <1>3, <1>4

\* What is missing is asked for.
LEMMA NegotiateFacts ==
  ASSUME TInv, NegotiateSyncMissing
  PROVE  Keeps(client, client') /\ client'.pc = "relay"
<1> DEFINE missing == {c \in Range(client.rev.body) : cas["dst"][c] = "absent"}
<1>1. client.pc = "negotiate" /\ "negotiate" \in Carrying /\ "relay" \in Pcs
  BY DEF NegotiateSyncMissing, Looking, Carrying, Pcs
<1>2. client \in ClientRec /\ client.rev \in Revs
  BY <1>1 DEF TInv, ClientOK
<1>3. missing \in SUBSET Chunks
  <2>1. client.rev.body \in Seq(Chunks)
    BY <1>2 DEF Revs
  <2> QED BY <2>1 DEF Range
<1>4. client' = [client EXCEPT !.pc = "relay", !.missing = missing]
  BY DEF NegotiateSyncMissing
<1> HIDE DEF missing
<1> QED BY <1>1, <1>2, <1>3, <1>4 DEF Keeps, Stays, KeepsPre, KeepsScan, ClientRec

\* One chunk is sent, or the object fails.
LEMMA RelayFacts ==
  ASSUME TInv, RelayChunk
  PROVE  \E c \in Chunks :
           \/ Settled(client, client', "error") /\ cas' = cas
           \/ /\ Keeps(client, client') /\ client'.pc = "relay" /\ client.pc = "relay"
              /\ cas' = Stored("dst", <<c>>)
<1>1. PICK c \in client.missing :
        /\ client.pc = "relay"
        /\ \/ cas' = Stored("dst", <<c>>) /\ client' = [client EXCEPT !.missing = @ \ {c}]
           \/ UNCHANGED cas /\ ObjectDone("error")
  BY DEF RelayChunk
<1>2. "relay" \in Busy /\ "relay" \in Pcs /\ "error" \in Outcomes
  BY DEF Busy, Carrying, Looking, Pcs, Outcomes
<1>3. client \in ClientRec /\ client.todo # <<>> /\ c \in Chunks
  <2>1. client \in ClientRec /\ client.todo # <<>>
    BY <1>1, <1>2, WantedIsKey
  <2> QED BY <2>1 DEF ClientRec
<1>4. CASE client' = [client EXCEPT !.missing = @ \ {c}] /\ cas' = Stored("dst", <<c>>)
  <2>1. Keeps(client, client') /\ client'.pc = client.pc
    BY <1>3, <1>4 DEF Keeps, Stays, KeepsPre, KeepsScan, ClientRec
  <2> QED BY <2>1, <1>1, <1>3, <1>4
<1>5. CASE UNCHANGED cas /\ ObjectDone("error")
  <2>1. Settled(client, client', "error")
    BY <1>2, <1>3, <1>5, DoneSettles
  <2> QED BY <2>1, <1>3, <1>5
<1> QED BY <1>1, <1>4, <1>5

\* The moves that only look at what is in hand.
LEMMA RelayedFacts ==
  ASSUME TInv, Relayed
  PROVE  Keeps(client, client') /\ client'.pc = (IF inst.mode = "sync" THEN "restat" ELSE "commit")
BY GotoKeeps DEF Relayed, TInv, ClientOK, Pcs
\* The file is as it was before the scan, or the object fails.
LEMMA RestatFacts ==
  ASSUME TInv, RestatLocalFile
  PROVE  \/ Settled(client, client', "error")
         \/ Keeps(client, client') /\ client'.pc = "commit" /\ file[Wanted].mtime = client.before.mtime
<1>1. client.pc = "restat" /\ "restat" \in Busy /\ "commit" \in Pcs /\ "error" \in Outcomes
  BY DEF RestatLocalFile, Busy, Carrying, Looking, Pcs, Outcomes
<1>2. client \in ClientRec /\ client.todo # <<>>
  BY <1>1, WantedIsKey
<1> QED BY <1>1, <1>2, DoneSettles, GotoKeeps DEF RestatLocalFile, FileUnchanged, Stat

\* The commit request as it is sent.
Sent == [run |-> client.run, key |-> Wanted, body |-> client.rev.body,
         pre |-> client.pre, seen |-> client.seen, checked |-> FALSE,
         whole |-> inst.mode # "sync" \/ OneVersion(client.rev.body, versions[Wanted])]
\* What CommitSyncObject sends.
LEMMA CommitFacts ==
  ASSUME TInv, CommitSyncObject
  PROVE  /\ Keeps(client, client') /\ client'.pc = "wait" /\ commits' = commits \cup {Sent}
         /\ Sent \in CommitRec /\ Sent.run = client.run /\ Sent.key = Wanted
         /\ Sent.body = client.rev.body /\ Sent.pre = client.pre /\ Sent.seen = client.seen
         /\ Sent.checked = FALSE
         /\ (inst.mode # "sync" \/ OneVersion(client.rev.body, versions[Wanted])) => Sent.whole
<1>1. client.pc = "commit" /\ "commit" \in Busy /\ "commit" \in Carrying /\ "wait" \in Pcs
  BY DEF CommitSyncObject, Busy, Carrying, Looking, Pcs
<1>2. client \in ClientRec /\ Wanted \in Keys
  BY <1>1, WantedIsKey
<1>3. client.rev \in Revs /\ client.rev.body \in Seq(Chunks)
  BY <1>1 DEF TInv, ClientOK, Revs
<1>4. Keeps(client, client') /\ client'.pc = "wait"
  BY <1>1, <1>2, GotoKeeps DEF CommitSyncObject
<1>5. commits' = commits \cup {Sent}
  BY DEF CommitSyncObject, Sent
<1>6. client.run \in Nat /\ client.pre \in Pres /\ client.seen \in SUBSET MaybeRevs
  BY <1>2 DEF ClientRec
<1>7. (inst.mode # "sync" \/ OneVersion(client.rev.body, versions[Wanted])) \in BOOLEAN
  BY DEF OneVersion
<1>8. Sent \in CommitRec /\ Sent.run = client.run /\ Sent.key = Wanted
      /\ Sent.body = client.rev.body /\ Sent.pre = client.pre /\ Sent.seen = client.seen
      /\ Sent.checked = FALSE
  BY <1>2, <1>3, <1>6, <1>7 DEF Sent, CommitRec
<1>9. (inst.mode # "sync" \/ OneVersion(client.rev.body, versions[Wanted])) => Sent.whole
  BY DEF Sent
<1> QED BY <1>4, <1>5, <1>8, <1>9

\* A fork looks again after a conflict.
LEMMA RecheckFacts ==
  ASSUME TInv, Recheck
  PROVE  \/ Settled(client, client', "conflict") /\ dst[Wanted] # client.rev
         \/ /\ Stays(client, client') /\ KeepsScan(client, client') /\ client'.rev = client.rev
            /\ client'.pc = "commit" /\ client'.retried = TRUE /\ dst[Wanted] = client.rev
            /\ client'.pre = Pre(FALSE, dst[Wanted]) /\ client'.seen = client.seen \cup {dst[Wanted]}
<1>1. client.pc = "recheck" /\ "recheck" \in Busy /\ "commit" \in Pcs /\ "conflict" \in Outcomes
  BY DEF Recheck, Busy, Carrying, Looking, Pcs, Outcomes
<1>2. client \in ClientRec /\ client.todo # <<>> /\ dst[Wanted] \in MaybeRevs
  BY <1>1, WantedIsKey
<1>3. CASE dst[Wanted] # client.rev
  BY <1>1, <1>2, <1>3, DoneSettles DEF Recheck, LookAgain
<1>4. CASE dst[Wanted] = client.rev
  <2> DEFINE pre == Pre(FALSE, dst[Wanted])
             seen == client.seen \cup {dst[Wanted]}
  <2>1. client' = [client EXCEPT !.pc = "commit", !.retried = TRUE, !.pre = pre, !.seen = seen]
    BY <1>4 DEF Recheck, LookAgain
  <2>2. pre \in Pres
    BY <1>2 DEF Pre, Pres
  <2>3. seen \in SUBSET MaybeRevs
    BY <1>2 DEF ClientRec
  <2> HIDE DEF pre, seen
  <2>4. client' \in ClientRec
    BY <1>1, <1>2, <2>1, <2>2, <2>3 DEF ClientRec
  <2>5. /\ Stays(client, client') /\ KeepsScan(client, client') /\ client'.rev = client.rev
        /\ client'.pc = "commit" /\ client'.retried = TRUE
        /\ client'.pre = pre /\ client'.seen = seen
    BY <1>2, <2>1, <2>4 DEF Stays, KeepsScan, ClientRec
  <2> QED BY <2>5, <1>4 DEF pre, seen
<1> QED BY <1>3, <1>4

\* A plain PUT ends the object either way.
LEMMA PlainPutFacts ==
  ASSUME TInv, PlainPut
  PROVE  /\ client.pc = "put" /\ \E outcome \in {"ok", "error"} : Settled(client, client', outcome)
<1>1. client.pc = "put" /\ "put" \in Busy /\ "ok" \in Outcomes /\ "error" \in Outcomes
  BY DEF PlainPut, Busy, Carrying, Outcomes
<1>2. client \in ClientRec /\ client.todo # <<>>
  BY <1>1, WantedIsKey
<1> QED BY <1>1, <1>2, DoneSettles DEF PlainPut

\* A run that is cut off leaves nothing.
Dropped(old, new) ==
  /\ new \in ClientRec /\ new.pc = "end" /\ new.run = old.run /\ new.todo = <<>>
  /\ new.results = {} /\ new.pre.absent /\ ~new.retried /\ ~new.ok
\* NewClient at "end" is such a command.
LEMMA DropFacts ==
  ASSUME TInv, client' = [NewClient EXCEPT !.pc = "end", !.run = client.run]
  PROVE  Dropped(client, client')
<1>1. client.run \in Nat /\ "end" \in Pcs
  BY DEF TInv, ClientOK, ClientRec, Pcs
<1>2. client' \in ClientRec /\ client'.pc = "end" /\ client'.run = client.run
      /\ client'.todo = NewClient.todo /\ client'.results = NewClient.results /\ client'.pre = NewClient.pre
      /\ client'.retried = NewClient.retried /\ client'.ok = NewClient.ok
  BY <1>1, NewClientFacts DEF ClientRec
<1> QED BY <1>2, NewClientFacts DEF Dropped
\* A lost request, an ended connection or a kill settles the object as failed
\* or cuts the run off.
LEMMA EndFacts ==
  ASSUME TInv, RequestFails \/ ConnectionEnds \/ KillClient
  PROVE  \/ Dropped(client, client')
         \/ Settled(client, client', "error") /\ client.pc \in Busy
<1>1. CASE KillClient
  BY <1>1, DropFacts DEF KillClient
<1>2. CASE client.pc \in Busy /\ ObjectDone("error")
  <2>1. client \in ClientRec /\ client.todo # <<>> /\ "error" \in Outcomes
    BY <1>2, WantedIsKey DEF Outcomes
  <2> QED BY <1>2, <2>1, DoneSettles
<1>3. CASE ConnectionEnds
  BY <1>2, <1>3 DEF ConnectionEnds, Busy, Carrying, Looking
<1>4. CASE RequestFails
  BY <1>2, <1>4, DropFacts DEF RequestFails, Busy, Carrying, Looking
<1> QED BY <1>1, <1>3, <1>4

\* A new run, with a walk of the files or a listing to come.
LEMMA StartFacts ==
  ASSUME TInv, StartRun
  PROVE  /\ client' \in ClientRec /\ client'.run = client.run + 1 /\ client'.cursor = 0
         /\ client'.pc = (IF inst.mode = "sync" THEN "next" ELSE "list")
         /\ client'.results = {} /\ client'.pre.absent /\ ~client'.retried /\ ~client'.ok
         /\ ~client'.plain
         /\ IF inst.mode = "sync" THEN client'.todo \in Walked ELSE client'.todo = <<>>
         /\ client.pc \in {"idle", "end"}
<1> DEFINE pc == IF inst.mode = "sync" THEN "next" ELSE "list"
<1>1. PICK walk \in Walked :
        client' = [NewClient EXCEPT !.pc = pc,
                                    !.todo = IF inst.mode = "sync" THEN walk ELSE <<>>,
                                    !.run = client.run + 1]
  BY DEF StartRun
<1> DEFINE todo == IF inst.mode = "sync" THEN walk ELSE <<>>
           run == client.run + 1
<1>2. pc \in Pcs /\ run \in Nat
  BY DEF Pcs, TInv, ClientOK, ClientRec
<1>3. todo \in Seq(Keys)
  <2>1. IsFiniteSet(FileKeys) /\ FileKeys \subseteq Keys
    BY PrefixAssumption, FS_Subset DEF FileKeys
  <2>2. Cardinality(FileKeys) \in Nat
    BY <2>1, FS_CardinalityType
  <2>3. walk \in [1 .. Cardinality(FileKeys) -> FileKeys]
    BY DEF Walked
  <2>4. walk \in [1 .. Cardinality(FileKeys) -> Keys]
    BY <2>1, <2>3
  <2>5. walk \in Seq(Keys)
    BY <2>2, <2>4
  <2> QED BY <2>5
<1>4. client' = [NewClient EXCEPT !.pc = pc, !.todo = todo, !.run = run]
  BY <1>1
<1>5. IF inst.mode = "sync" THEN todo \in Walked ELSE todo = <<>>
  BY <1>1
<1> HIDE DEF pc, todo, run
<1>6. NewClient.cursor = 0
  BY DEF NewClient
<1>7. client' \in ClientRec /\ client'.pc = pc /\ client'.run = run /\ client'.todo = todo
      /\ client'.results = NewClient.results /\ client'.pre = NewClient.pre /\ client'.cursor = NewClient.cursor
      /\ client'.retried = NewClient.retried /\ client'.ok = NewClient.ok /\ client'.plain = NewClient.plain
  BY <1>2, <1>3, <1>4, NewClientFacts DEF ClientRec
<1>8. client.pc \in {"idle", "end"}
  BY DEF StartRun
<1> QED BY <1>5, <1>6, <1>7, <1>8, NewClientFacts DEF pc, run

\* A page is appended to the list.
LEMMA ListFacts ==
  ASSUME TInv, ListSourceObjects
  PROVE  \E page, keys :
           /\ KeysOK(keys, page, {k \in Keys : src[k] # NoRev}, client.cursor) /\ keys \in Seq(Keys)
           /\ client' \in ClientRec /\ KeepsPre(client, client') /\ client'.ok = client.ok
           /\ client'.run = client.run /\ client'.results = client.results
           /\ client'.todo = client.todo \o keys
           /\ client'.pc = (IF page.truncated THEN "list" ELSE "next")
           /\ page.truncated => client'.cursor = Key(page.last)
<1> DEFINE live == {k \in Keys : src[k] # NoRev}
           max  == IF inst.mode = "restore" THEN Cardinality(Keys) ELSE PageKeys
           page == PageFrom(live, client.cursor, max)
           keys == Listed(page.units)
           todo == client.todo \o keys
           cursor == IF page.truncated THEN Key(page.last) ELSE 0
           pc == IF page.truncated THEN "list" ELSE "next"
<1>1. client \in ClientRec
  BY DEF TInv, ClientOK
<1>2. client.cursor \in Nat /\ client.todo \in Seq(Keys)
  BY <1>1 DEF ClientRec
<1>3. max \in Nat /\ (max # 0 \/ live = {})
  <2>1. Cardinality(Keys) \in Nat /\ (Cardinality(Keys) = 0 => Keys = {})
    BY PrefixAssumption, FS_CardinalityType, FS_EmptySet
  <2> QED BY <2>1, SyncAssumption
<1>4. client' = [client EXCEPT !.todo = todo, !.cursor = cursor, !.pc = pc]
  BY DEF ListSourceObjects, PageFrom, Continues
<1>5. KeysOK(keys, page, live, client.cursor)
  <2>1. live \in SUBSET Keys
    OBVIOUS
  <2> HIDE DEF live, max, page, keys
  <2>2. page = PageFrom(live, client.cursor, max) /\ keys = Listed(page.units)
    BY DEF page, keys
  <2> QED BY <2>1, <2>2, <1>2, <1>3, PageOfKeys
<1> HIDE DEF page, keys, max
<1>6. keys \in Seq(Keys) /\ page.truncated \in BOOLEAN /\ Key(page.last) \in Nat
  <2>1. {k \in live : k > client.cursor} \subseteq Keys
    OBVIOUS
  <2>2. keys \in Seq({k \in live : k > client.cursor})
    BY <1>5 DEF KeysOK
  <2> QED BY <2>1, <2>2, <1>5 DEF KeysOK
<1>7. todo \in Seq(Keys) /\ cursor \in Nat /\ pc \in Pcs
  BY <1>2, <1>6 DEF Pcs
<1> HIDE DEF live, todo, cursor, pc
<1>8. client' \in ClientRec
  BY <1>1, <1>4, <1>7 DEF ClientRec
<1>9. /\ KeepsPre(client, client') /\ client'.ok = client.ok /\ client'.run = client.run
      /\ client'.results = client.results /\ client'.todo = todo /\ client'.cursor = cursor
      /\ client'.pc = pc
  BY <1>1, <1>4 DEF KeepsPre, ClientRec
<1>10. /\ KeysOK(keys, page, {k \in Keys : src[k] # NoRev}, client.cursor) /\ keys \in Seq(Keys)
       /\ client' \in ClientRec /\ KeepsPre(client, client') /\ client'.ok = client.ok
       /\ client'.run = client.run /\ client'.results = client.results
       /\ client'.todo = client.todo \o keys
       /\ client'.pc = (IF page.truncated THEN "list" ELSE "next")
       /\ page.truncated => client'.cursor = Key(page.last)
  BY <1>5, <1>6, <1>8, <1>9 DEF live, todo, cursor, pc
<1> QED BY <1>10

\* The next object, or the end of the run.
LEMMA NextFacts ==
  ASSUME TInv, NextObject
  PROVE  \/ /\ client.todo # <<>> /\ Keeps(client, client')
            /\ client'.pc = (IF inst.mode = "sync" THEN "stat" ELSE "describe")
         \/ /\ client.todo = <<>> /\ client' \in ClientRec /\ client'.pc = "end"
            /\ client'.run = client.run /\ client'.todo = client.todo /\ client'.results = client.results
            /\ KeepsPre(client, client')
            /\ client'.ok => \A r \in client.results : r[2] = "ok"
<1>1. client \in ClientRec /\ {"stat", "describe", "end"} \subseteq Pcs
  BY DEF TInv, ClientOK, Pcs
<1>2. CASE client.todo # <<>>
  BY <1>1, <1>2, GotoKeeps DEF NextObject
<1>3. CASE client.todo = <<>>
  <2> DEFINE ok == \A r \in client.results : r[2] = "ok"
  <2>1. client' = [client EXCEPT !.pc = "end", !.ok = ok] /\ ok \in BOOLEAN
    BY <1>3 DEF NextObject
  <2>2. (ok = TRUE) => \A r \in client.results : r[2] = "ok"
    OBVIOUS
  <2> HIDE DEF ok
  <2>3. client' \in ClientRec
    BY <1>1, <2>1 DEF ClientRec
  <2>4. /\ client'.pc = "end" /\ client'.run = client.run /\ client'.todo = client.todo
        /\ client'.results = client.results /\ KeepsPre(client, client') /\ client'.ok = ok
    BY <1>1, <2>1 DEF ClientRec, KeepsPre
  <2>5. client'.ok => \A r \in client.results : r[2] = "ok"
    BY <2>1, <2>2, <2>4
  <2> QED BY <1>3, <2>3, <2>4, <2>5
<1> QED BY <1>2, <1>3

\* An answer reaches the command that waits for it, or nobody.
LEMMA AnswerFacts ==
  ASSUME TInv, NEW m, NEW outcome \in Outcomes, Answer(m, outcome)
  PROVE  \/ client' = client
         \/ /\ Waiting(m) /\ client.pc = "wait" /\ Keeps(client, client') /\ client'.pc = "recheck"
            /\ outcome = "conflict" /\ inst.mode = "fork"
         \/ /\ Waiting(m) /\ client.pc = "wait" /\ Settled(client, client', outcome)
            /\ outcome = "conflict" /\ inst.mode = "fork" => client.retried
<1>1. "wait" \in Busy /\ "recheck" \in Pcs
  BY DEF Busy, Carrying, Looking, Pcs
<1>2. CASE ~Waiting(m)
  BY <1>2 DEF Answer
<1>3. CASE Waiting(m)
  <2>1. client.pc = "wait" /\ client \in ClientRec /\ client.todo # <<>>
    BY <1>1, <1>3, WantedIsKey DEF Waiting
  <2> QED BY <1>1, <1>3, <2>1, GotoKeeps, DoneSettles DEF Answer
<1> QED BY <1>2, <1>3

\* A step that only moves the command keeps the types, if the command's are.
LEMMA OnlyClientTyped ==
  ASSUME TInv, UNCHANGED <<inst, src, dst, cas, file, commits, stable, quiet, foreign, versions>>,
         ClientOK(client', inst.mode), client.run <= client'.run
  PROVE  TInv'
<1>1. client.run \in Nat /\ client'.run \in Nat /\ \A m \in commits : m.run \in Nat
  BY DEF TInv, ClientOK, ClientRec, CommitsOK, CommitRec
<1>2. CommitsOK(commits', client')
  BY <1>1 DEF TInv, CommitsOK
<1> QED BY <1>2 DEF TInv

\* The initial state is well typed.
LEMMA TInit == SyncInit => TInv
<1> SUFFICES ASSUME SyncInit PROVE TInv
  OBVIOUS
<1>1. inst \in SyncInstances /\ src = inst.src /\ dst = inst.dst /\ client = NewClient /\ commits = {}
      /\ stable = {} /\ quiet = {} /\ foreign = {} /\ versions = [k \in Keys |-> {}]
  BY DEF SyncInit
<1>2. src \in Objects /\ dst \in Objects /\ inst.file \in [Keys -> Seq(Chunks)]
  BY <1>1, InstanceFacts
<1>3. file \in FileFns
  <2>1. file = [k \in Keys |-> [body |-> inst.file[k], mtime |-> 0]]
    BY DEF SyncInit
  <2> QED BY <2>1, <1>2 DEF FileFns
<1>4. cas \in CasFns
  BY DEF SyncInit, CasFns
<1>5. ClientOK(client, inst.mode)
  BY <1>1, NewClientFacts DEF ClientOK, Busy, Carrying, Looking
<1> QED BY <1>1, <1>2, <1>3, <1>4, <1>5 DEF TInv, CommitsOK, VersionFns

\* One write of a file, and what may be written.
FileWritten(k, body, mtime) ==
  /\ file' = [file EXCEPT ![k] = [body |-> body, mtime |-> mtime]]
  /\ versions' = [versions EXCEPT ![k] = @ \cup {[body |-> body, moved |-> mtime > file[k].mtime]}]
  /\ stable' = stable \ {k} /\ foreign' = foreign \cup {k}
  /\ UNCHANGED <<inst, src, dst, cas, client, commits, quiet, applied>>
\* What is written is a file again.
LEMMA RewritesTyped ==
  ASSUME NEW old \in Seq(Chunks), NEW new \in Rewrites(old)
  PROVE  new \in Seq(Chunks)
<1>1. CASE \E i \in DOMAIN old, c \in Chunks : new = [old EXCEPT ![i] = c]
  BY <1>1
<1>2. CASE \E c \in Chunks : new = Append(old, c)
  BY <1>2
<1>3. CASE \E n \in 0 .. Len(old) - 1 : new = SubSeq(old, 1, n)
  BY <1>3
<1> QED BY <1>1, <1>2, <1>3 DEF Rewrites

\* Everyone else's steps keep the types.
LEMMA OthersTyped == ASSUME TInv, Others PROVE TInv'
<1>0. /\ inst.written \subseteq Keys /\ inst.revs \subseteq Revs /\ inst.same \in BOOLEAN
      /\ SrcStore \in {"src", "dst"}
  BY InstanceFacts DEF TInv, SrcStore
<1>1. CASE SrcWrite
  <2>1. PICK k \in inst.written, r \in inst.revs \cup {NoRev} :
          /\ src' = [src EXCEPT ![k] = r]
          /\ cas' = IF r = NoRev THEN cas ELSE Stored(SrcStore, r.body)
          /\ stable' = stable \ {k} /\ foreign' = foreign \cup {k}
          /\ UNCHANGED <<inst, dst, file, client, commits, quiet, versions>>
    BY <1>1 DEF SrcWrite
  <2>2. src' \in Objects /\ foreign' \subseteq Keys /\ stable' \subseteq Keys
    BY <1>0, <2>1 DEF TInv, Objects
  <2>3. cas' \in CasFns
    <3>1. cas \in CasFns
      BY DEF TInv
    <3>2. CASE r = NoRev
      BY <3>1, <3>2, <2>1
    <3>3. CASE r # NoRev
      BY <3>1, <3>3, <2>1, <1>0, StoredFacts
    <3> QED BY <3>2, <3>3
  <2> QED BY <2>1, <2>2, <2>3 DEF TInv, CommitsOK
<1>2. CASE DstWrite
  <2>1. PICK k \in inst.written, r \in inst.revs \cup {NoRev} :
          /\ dst' = [dst EXCEPT ![k] = r]
          /\ cas' = IF r = NoRev THEN cas ELSE Stored("dst", r.body)
          /\ quiet' = quiet \ {k} /\ foreign' = foreign \cup {k}
          /\ UNCHANGED <<inst, src, file, client, commits, stable, versions>>
    BY <1>2 DEF DstWrite
  <2>2. dst' \in Objects /\ foreign' \subseteq Keys /\ quiet' \subseteq Keys
    BY <1>0, <2>1 DEF TInv, Objects
  <2>3. cas' \in CasFns
    <3>1. cas \in CasFns
      BY DEF TInv
    <3>2. CASE r = NoRev
      BY <3>1, <3>2, <2>1
    <3>3. CASE r # NoRev
      BY <3>1, <3>3, <2>1, StoredFacts
    <3> QED BY <3>2, <3>3
  <2> QED BY <2>1, <2>2, <2>3 DEF TInv, CommitsOK
<1>3. CASE FileWrite
  <2>1. PICK k \in FileKeys : \E body \in Rewrites(file[k].body), mtime \in 0 .. file[k].mtime + 1 :
          FileWritten(k, body, mtime)
    BY <1>3 DEF FileWrite, FileWritten
  <2>2. PICK body \in Rewrites(file[k].body), mtime \in 0 .. file[k].mtime + 1 : FileWritten(k, body, mtime)
    BY <2>1
  <2>3. k \in Keys /\ file[k].body \in Seq(Chunks) /\ file[k].mtime \in Nat
    BY DEF FileKeys, TInv, FileFns
  <2>4. body \in Seq(Chunks) /\ mtime \in Nat
    BY <2>3, RewritesTyped
  <2>5. file' \in FileFns
    BY <2>2, <2>3, <2>4 DEF TInv, FileFns, FileWritten
  <2> DEFINE made == [body |-> body, moved |-> mtime > file[k].mtime]
  <2>6. made \in [body : Seq(Chunks), moved : BOOLEAN]
    BY <2>4
  <2>7. versions' = [versions EXCEPT ![k] = @ \cup {made}]
    BY <2>2 DEF FileWritten
  <2> HIDE DEF made
  <2>8. versions' \in VersionFns
    BY <2>3, <2>6, <2>7 DEF TInv, VersionFns
  <2>9. stable' \subseteq Keys /\ foreign' \subseteq Keys
    BY <2>2, <2>3 DEF TInv, FileWritten
  <2> QED BY <2>2, <2>5, <2>8, <2>9 DEF TInv, CommitsOK, FileWritten
<1>4. CASE Rot
  <2>1. PICK s \in {"src", "dst"}, c \in Chunks :
          /\ cas' = [cas EXCEPT ![s][c] = "bad"]
          /\ UNCHANGED <<inst, src, dst, file, client, commits, stable, quiet, foreign, versions>>
    BY <1>4 DEF Rot
  <2>2. cas' \in CasFns
    BY <2>1 DEF TInv, CasFns
  <2> QED BY <2>1, <2>2 DEF TInv, CommitsOK
<1>5. CASE RestartWithGC
  <2>1. PICK gone \in SUBSET (Chunks \ KeptByRoots) :
          /\ commits' = {}
          /\ cas' = [cas EXCEPT !["dst"] = [c \in Chunks |-> IF c \in gone THEN "absent" ELSE @[c]]]
          /\ UNCHANGED <<inst, src, dst, file, client, stable, quiet, foreign, versions>>
    BY <1>5 DEF RestartWithGC
  <2> DEFINE new == [c \in Chunks |-> IF c \in gone THEN "absent" ELSE cas["dst"][c]]
  <2>2. new \in [Chunks -> {"absent", "good", "bad"}]
    BY DEF TInv, CasFns
  <2>3. cas' = [cas EXCEPT !["dst"] = new]
    BY <2>1
  <2> HIDE DEF new
  <2>4. cas' \in CasFns
    BY <2>2, <2>3 DEF TInv, CasFns
  <2> QED BY <2>1, <2>4 DEF TInv, CommitsOK
<1> QED BY <1>1, <1>2, <1>3, <1>4, <1>5 DEF Others

\* The command's steps keep the types.
LEMMA ClientTyped ==
  ASSUME TInv, StartRun \/ ClientStep \/ RequestFails \/ KillClient PROVE TInv'
<1> USE DEF ServersUnchanged
<1>0. /\ inst.mode \in {"sync", "replicate", "fork", "restore"} /\ client \in ClientRec
      /\ ClientOK(client, inst.mode) /\ client.run \in Nat
  BY InstanceFacts DEF TInv, ClientOK, ClientRec
<1>a. ASSUME NEW outcome \in Outcomes, Settled(client, client', outcome)
      PROVE  ClientOK(client', inst.mode) /\ client.run <= client'.run
  <2>1. client'.run = client.run
    BY <1>a DEF Settled
  <2> QED BY <1>a, <1>0, <2>1, SettledOK
<1>b. ASSUME Dropped(client, client')
      PROVE  ClientOK(client', inst.mode) /\ client.run <= client'.run
  BY <1>0, <1>b DEF Dropped, ClientOK, Busy, Carrying, Looking
<1>o. "error" \in Outcomes /\ "conflict" \in Outcomes /\ "ok" \in Outcomes
  BY DEF Outcomes
<1>1. CASE StartRun
  <2>0. /\ stable' = Keys /\ quiet' = Keys /\ versions' = [k \in Keys |-> {[body |-> file[k].body, moved |-> TRUE]}]
        /\ UNCHANGED <<inst, src, dst, cas, file, commits, foreign, applied>>
    BY <1>1 DEF StartRun
  <2>1. ClientOK(client', inst.mode) /\ client.run <= client'.run
    BY <1>0, <1>1, StartFacts DEF ClientOK, Busy, Carrying, Looking
  <2>2. client'.run \in Nat /\ \A m \in commits : m.run \in Nat /\ m.run <= client.run
    BY <2>1 DEF TInv, ClientOK, ClientRec, CommitsOK, CommitRec
  <2>3. CommitsOK(commits', client')
    <3>1. \A m \in commits : m.run <= client'.run
      BY <1>0, <2>1, <2>2
    <3> QED BY <2>0, <3>1 DEF TInv, CommitsOK
  <2>4. versions' \in VersionFns
    <3>1. \A k \in Keys : file[k].body \in Seq(Chunks)
      BY DEF TInv, FileFns
    <3> QED BY <2>0, <3>1 DEF VersionFns
  <2> QED BY <2>0, <2>1, <2>3, <2>4 DEF TInv
<1>2. CASE ListSourceObjects
  <2>0. inst.mode # "sync"
    BY <1>2 DEF ListSourceObjects, TInv, ClientOK
  <2>1. ClientOK(client', inst.mode) /\ client.run <= client'.run
    <3>1. /\ client' \in ClientRec /\ client'.run = client.run /\ client'.pc \in {"list", "next"}
      BY <1>2, ListFacts
    <3> QED BY <2>0, <3>1, <1>0 DEF ClientOK, Busy, Carrying, Looking
  <2> QED BY <1>2, <2>1, OnlyClientTyped DEF ListSourceObjects
<1>3. CASE NextObject
  <2>1. ClientOK(client', inst.mode) /\ client.run <= client'.run
    BY <1>0, <1>3, NextFacts DEF ClientOK, Busy, Carrying, Looking, Keeps, Stays
  <2> QED BY <1>3, <2>1, OnlyClientTyped DEF NextObject
<1>4. CASE FetchSourceDescriptor
  <2>0. client.pc = "describe" /\ client.todo # <<>>
    BY <1>4 DEF FetchSourceDescriptor, TInv, ClientOK, Busy
  <2>1. ClientOK(client', inst.mode) /\ client.run <= client'.run
    BY <1>0, <1>4, <1>a, <1>o, <2>0, FetchFacts DEF ClientOK, Busy, Carrying, Looking, Stays
  <2> QED BY <1>4, <2>1, OnlyClientTyped DEF FetchSourceDescriptor
<1>5. CASE StatLocalFile
  <2>0. client.pc = "stat" /\ client.todo # <<>> /\ inst.mode = "sync"
    BY <1>5 DEF StatLocalFile, TInv, ClientOK, Busy
  <2>1. ClientOK(client', inst.mode) /\ client.run <= client'.run
    <3>1. /\ Stays(client, client') /\ client'.rev \in Revs /\ client'.pc \in {"head", "scan"}
      BY <1>5, StatFacts
    <3> QED BY <3>1, <2>0, <1>0 DEF ClientOK, Busy, Carrying, Looking, Stays
  <2> QED BY <1>5, <2>1, OnlyClientTyped DEF StatLocalFile
<1>6. CASE ScanLocalFile
  <2>0. client.pc = "scan" /\ client.todo # <<>> /\ inst.mode = "sync"
    BY <1>6 DEF ScanLocalFile, TInv, ClientOK, Busy, Carrying
  <2>1. ClientOK(client', inst.mode) /\ client.run <= client'.run
    BY <1>0, <1>6, <2>0, ScanFacts DEF ClientOK, Busy, Carrying, Looking, Stays
  <2> QED BY <1>6, <2>1, OnlyClientTyped DEF ScanLocalFile
<1>7. CASE HeadSyncDestination
  <2>0. client.pc = "head" /\ client.todo # <<>> /\ client.rev \in Revs
    BY <1>7 DEF HeadSyncDestination, TInv, ClientOK, Busy, Carrying
  <2>1. ClientOK(client', inst.mode) /\ client.run <= client'.run
    BY <1>0, <1>7, <1>a, <1>o, <2>0, HeadFacts DEF ClientOK, Busy, Carrying, Looking, Stays
  <2> QED BY <1>7, <2>1, OnlyClientTyped DEF HeadSyncDestination
<1>8. CASE NegotiateSyncMissing
  <2>0. client.pc = "negotiate" /\ client.todo # <<>> /\ client.rev \in Revs
    BY <1>8 DEF NegotiateSyncMissing, TInv, ClientOK, Busy, Carrying, Looking
  <2>1. ClientOK(client', inst.mode) /\ client.run <= client'.run
    BY <1>0, <1>8, <2>0, NegotiateFacts DEF ClientOK, Busy, Carrying, Looking, Keeps, Stays
  <2> QED BY <1>8, <2>1, OnlyClientTyped DEF NegotiateSyncMissing
<1>9. CASE RelayChunk
  <2>0. client.pc = "relay" /\ client.todo # <<>> /\ client.rev \in Revs
    BY <1>9 DEF RelayChunk, TInv, ClientOK, Busy, Carrying, Looking
  <2>1. ClientOK(client', inst.mode) /\ client.run <= client'.run
    <3>1. \/ Settled(client, client', "error")
          \/ Keeps(client, client') /\ client'.pc = "relay"
      BY <1>9, RelayFacts
    <3>2. CASE Keeps(client, client') /\ client'.pc = "relay"
      BY <1>0, <2>0, <3>2 DEF ClientOK, Busy, Carrying, Looking, Keeps, Stays
    <3> QED BY <3>1, <3>2, <1>a, <1>o
  <2>2. cas' \in CasFns
    <3>1. cas \in CasFns
      BY DEF TInv
    <3> QED BY <3>1, <1>9, RelayFacts, StoredFacts
  <2>3. CommitsOK(commits', client')
    <3>1. client'.run = client.run
      BY <1>9, RelayFacts DEF Settled, Keeps, Stays
    <3> QED BY <1>9, <3>1 DEF RelayChunk, TInv, CommitsOK
  <2> QED BY <1>9, <2>1, <2>2, <2>3 DEF RelayChunk, TInv
<1>10. CASE Relayed
  <2>0. client.pc = "relay" /\ client.todo # <<>> /\ client.rev \in Revs
    BY <1>10 DEF Relayed, TInv, ClientOK, Busy, Carrying, Looking
  <2>1. ClientOK(client', inst.mode) /\ client.run <= client'.run
    BY <1>0, <1>10, <2>0, RelayedFacts DEF ClientOK, Busy, Carrying, Looking, Keeps, Stays
  <2> QED BY <1>10, <2>1, OnlyClientTyped DEF Relayed
<1>11. CASE RestatLocalFile
  <2>0. client.pc = "restat" /\ client.todo # <<>> /\ client.rev \in Revs
    BY <1>11 DEF RestatLocalFile, TInv, ClientOK, Busy, Carrying, Looking
  <2>1. ClientOK(client', inst.mode) /\ client.run <= client'.run
    BY <1>0, <1>11, <1>a, <1>o, <2>0, RestatFacts DEF ClientOK, Busy, Carrying, Looking, Keeps, Stays
  <2> QED BY <1>11, <2>1, OnlyClientTyped DEF RestatLocalFile
<1>12. CASE CommitSyncObject
  <2>0. client.pc = "commit" /\ client.todo # <<>> /\ client.rev \in Revs
    BY <1>12 DEF CommitSyncObject, TInv, ClientOK, Busy, Carrying, Looking
  <2>1. ClientOK(client', inst.mode) /\ client'.run = client.run
    BY <1>0, <1>12, <2>0, CommitFacts DEF ClientOK, Busy, Carrying, Looking, Keeps, Stays
  <2>2. CommitsOK(commits', client')
    <3>1. commits' = commits \cup {Sent} /\ Sent \in CommitRec /\ Sent.run = client.run
      BY <1>12, CommitFacts
    <3> QED BY <3>1, <1>0, <2>1 DEF TInv, CommitsOK
  <2> QED BY <1>12, <2>1, <2>2 DEF CommitSyncObject, TInv
<1>13. CASE Recheck
  <2>0. client.pc = "recheck" /\ client.todo # <<>> /\ client.rev \in Revs
    BY <1>13 DEF Recheck, TInv, ClientOK, Busy, Carrying, Looking
  <2>1. ClientOK(client', inst.mode) /\ client.run <= client'.run
    <3>1. \/ Settled(client, client', "conflict")
          \/ Stays(client, client') /\ client'.rev = client.rev /\ client'.pc = "commit"
      BY <1>13, RecheckFacts
    <3>2. CASE Stays(client, client') /\ client'.rev = client.rev /\ client'.pc = "commit"
      BY <1>0, <2>0, <3>2 DEF ClientOK, Busy, Carrying, Looking, Stays
    <3> QED BY <3>1, <3>2, <1>a, <1>o
  <2> QED BY <1>13, <2>1, OnlyClientTyped DEF Recheck
<1>14. CASE PlainPut
  <2>0. client.pc = "put" /\ "put" \in Busy /\ client.rev \in Revs
    BY <1>14 DEF PlainPut, TInv, ClientOK, Busy, Carrying, Looking
  <2>1. ClientOK(client', inst.mode) /\ client'.run = client.run
    BY <1>14, <1>a, <1>o, PlainPutFacts DEF Settled
  <2>2. cas' \in CasFns
    BY <1>14, StoredFacts DEF PlainPut, TInv
  <2>3. dst' \in Objects
    BY <1>14, <2>0, WantedIsKey DEF PlainPut, TInv, Objects
  <2> QED BY <1>14, <2>1, <2>2, <2>3 DEF PlainPut, TInv, CommitsOK
<1>15. CASE RequestFails \/ ConnectionEnds \/ KillClient
  <2>1. ClientOK(client', inst.mode) /\ client.run <= client'.run
    BY <1>15, <1>a, <1>b, <1>o, EndFacts
  <2> QED BY <1>15, <2>1, OnlyClientTyped DEF RequestFails, ConnectionEnds, KillClient
<1> QED BY <1>1, <1>2, <1>3, <1>4, <1>5, <1>6, <1>7, <1>8, <1>9, <1>10, <1>11, <1>12, <1>13, <1>14, <1>15
    DEF ClientStep

\* An answer keeps the types of the command.
LEMMA AnswerTyped ==
  ASSUME TInv, NEW m, NEW outcome \in Outcomes, Answer(m, outcome)
  PROVE  ClientOK(client', inst.mode) /\ client'.run = client.run
<1>1. ClientOK(client, inst.mode)
  BY DEF TInv
<1>2. CASE client' = client
  BY <1>1, <1>2
<1>3. CASE client.pc = "wait" /\ Keeps(client, client') /\ client'.pc = "recheck" /\ inst.mode = "fork"
  BY <1>1, <1>3 DEF Keeps, Stays, ClientOK, Busy, Carrying, Looking
<1>4. CASE Settled(client, client', outcome)
  BY <1>4, SettledOK DEF Settled
<1> QED BY <1>2, <1>3, <1>4, AnswerFacts

\* The destination's steps keep the types.
LEMMA ServerTyped == ASSUME TInv, ServerStep \/ CommitFails PROVE TInv'
<1>o. "error" \in Outcomes /\ "conflict" \in Outcomes /\ "ok" \in Outcomes
  BY DEF Outcomes
<1>0. ClientOK(client, inst.mode)
  BY DEF TInv
<1>1. CASE ReadBackChunks
  <2>1. PICK m \in commits :
          /\ \/ commits' = (commits \ {m}) \cup {[m EXCEPT !.checked = TRUE]} /\ UNCHANGED client
             \/ commits' = commits \ {m} /\ Answer(m, "error")
          /\ UNCHANGED <<inst, left, src, dst, cas, file, stable, quiet, foreign, versions, applied>>
    BY <1>1 DEF ReadBackChunks
  <2>2. m \in CommitRec /\ [m EXCEPT !.checked = TRUE] \in CommitRec
        /\ [m EXCEPT !.checked = TRUE].run = m.run
    BY DEF TInv, CommitsOK, CommitRec
  <2>3. ClientOK(client', inst.mode) /\ client'.run = client.run
    BY <2>1, <1>0, <1>o, AnswerTyped
  <2>4. CommitsOK(commits', client')
    BY <2>1, <2>2, <2>3 DEF TInv, CommitsOK
  <2> QED BY <2>1, <2>3, <2>4 DEF TInv
<1>2. CASE CommitObjectRootChecked
  <2>1. PICK m \in commits :
          /\ commits' = commits \ {m}
          /\ \/ /\ dst' = [dst EXCEPT ![m.key] = Rev(m.body, FALSE)]
                /\ quiet' = IF m.run = client.run THEN quiet ELSE quiet \ {m.key}
                /\ Answer(m, "ok")
             \/ UNCHANGED <<dst, quiet>> /\ Answer(m, "conflict")
          /\ UNCHANGED <<inst, left, src, cas, file, stable, foreign, versions>>
    BY <1>2 DEF CommitObjectRootChecked
  <2>2. m \in CommitRec /\ m.key \in Keys /\ Rev(m.body, FALSE) \in Revs
    BY DEF TInv, CommitsOK, CommitRec, Rev, Revs
  <2>3. ClientOK(client', inst.mode) /\ client'.run = client.run
    BY <2>1, <1>0, <1>o, AnswerTyped
  <2>4. CommitsOK(commits', client')
    BY <2>1, <2>3 DEF TInv, CommitsOK
  <2>5. dst' \in Objects /\ quiet' \subseteq Keys
    BY <2>1, <2>2 DEF TInv, Objects
  <2> QED BY <2>1, <2>3, <2>4, <2>5 DEF TInv
<1>3. CASE CommitFails
  <2>1. PICK m \in commits :
          /\ commits' = commits \ {m} /\ Answer(m, "error")
          /\ UNCHANGED <<inst, left, src, dst, cas, file, stable, quiet, foreign, versions, applied>>
    BY <1>3 DEF CommitFails
  <2>3. ClientOK(client', inst.mode) /\ client'.run = client.run
    BY <2>1, <1>o, AnswerTyped
  <2>4. CommitsOK(commits', client')
    BY <2>1, <2>3 DEF TInv, CommitsOK
  <2> QED BY <2>1, <2>3, <2>4 DEF TInv
<1> QED BY <1>1, <1>2, <1>3 DEF ServerStep

\* Every step keeps the types.
LEMMA TNext == TInv /\ [SyncNext]_syncVars => TInv'
<1> SUFFICES ASSUME TInv, [SyncNext]_syncVars PROVE TInv'
  OBVIOUS
<1>1. CASE UNCHANGED syncVars
  BY <1>1 DEF syncVars, TInv
<1>2. CASE SyncNext
  BY <1>2, OthersTyped, ClientTyped, ServerTyped DEF SyncNext
<1> QED BY <1>1, <1>2

\* TInv holds throughout.
LEMMA Typed == SyncSpec => []TInv
BY TInit, TNext, PTL DEF SyncSpec

\* The types of Sync: SyncTypeOK is what TInv says of the states it names.
THEOREM SyncTypesHold == SyncSpec => []SyncTypeOK
<1>1. TInv => SyncTypeOK
  <2> SUFFICES ASSUME TInv PROVE SyncTypeOK
    OBVIOUS
  <2>1. client.pc \in Pcs /\ client.missing \subseteq Chunks
    BY DEF TInv, ClientOK, ClientRec
  <2> QED BY <2>1 DEF TInv, SyncTypeOK, CasFns, Pcs, CommitsOK
<1> QED BY <1>1, Typed, PTL
-----------------------------------------------------------------------------
(* What a commit may replace.                                              *)

\* A command that has just settled an object, was cut off or starts anew asks
\* for nothing.
LEMMA OFresh ==
  ASSUME NEW cl, cl.pre.absent, NEW mode
  PROVE  OClient(cl, mode)
BY DEF OClient, PreOK

\* A command that keeps what it has in hand keeps what its precondition says.
LEMMA OKeeps ==
  ASSUME NEW old, NEW new, NEW mode, OClient(old, mode), Keeps(old, new),
         new.pc \in Looking \cup {"scan", "put"} \/ old.pre.absent
  PROVE  OClient(new, mode)
BY DEF OClient, PreOK, Keeps, KeepsPre

\* The command's steps keep OClient.
LEMMA OClientNext ==
  ASSUME TInv, OClient(client, inst.mode), StartRun \/ ClientStep \/ RequestFails \/ KillClient
  PROVE  OClient(client', inst.mode)
<1>0. /\ inst.mode \in {"sync", "replicate", "fork", "restore"} /\ client \in ClientRec
  BY InstanceFacts DEF TInv, ClientOK
<1>a. ASSUME NEW outcome \in Outcomes, Settled(client, client', outcome) PROVE OClient(client', inst.mode)
  BY <1>a, OFresh DEF Settled
<1>o. "error" \in Outcomes /\ "conflict" \in Outcomes /\ "ok" \in Outcomes
  BY DEF Outcomes
<1>1. CASE StartRun
  BY <1>1, StartFacts, OFresh
<1>2. CASE ListSourceObjects
  <2>1. client.pre.absent
    BY <1>2 DEF ListSourceObjects, OClient, Looking
  <2>2. KeepsPre(client, client')
    BY <1>2, ListFacts
  <2> QED BY <2>1, <2>2, OFresh DEF KeepsPre
<1>3. CASE NextObject
  <2>1. client.pre.absent
    BY <1>3 DEF NextObject, OClient, Looking
  <2>2. KeepsPre(client, client')
    BY <1>3, NextFacts DEF Keeps
  <2> QED BY <2>1, <2>2, OFresh DEF KeepsPre
<1>4. CASE FetchSourceDescriptor
  <2>1. client.pre.absent
    BY <1>4 DEF FetchSourceDescriptor, OClient, Looking
  <2>2. Settled(client, client', "error") \/ KeepsPre(client, client')
    BY <1>4, FetchFacts
  <2> QED BY <2>1, <2>2, <1>a, <1>o, OFresh DEF KeepsPre
<1>5. CASE StatLocalFile
  <2>1. client.pre.absent
    BY <1>5 DEF StatLocalFile, OClient, Looking
  <2>2. KeepsPre(client, client')
    BY <1>5, StatFacts
  <2> QED BY <2>1, <2>2, OFresh DEF KeepsPre
<1>6. CASE ScanLocalFile
  <2>1. inst.mode = "sync"
    BY <1>6 DEF ScanLocalFile, TInv, ClientOK
  <2>2. KeepsPre(client, client') /\ client'.pc \in {"scan", "put", "negotiate"}
    BY <1>6, ScanFacts
  <2> QED BY <2>1, <2>2 DEF OClient, PreOK, KeepsPre, Looking
<1>7. CASE HeadSyncDestination
  <2>1. CASE Settled(client, client', "conflict")
    BY <2>1, <1>a, <1>o
  <2>2. CASE /\ client'.rev = client.rev /\ client'.pc \in {"scan", "negotiate"}
             /\ client'.pre = Precondition(dst[Wanted]) /\ client'.seen = {dst[Wanted]}
    <3>1. PreOK(client'.pre, client'.seen, client'.rev.body, inst.mode)
      <4>1. CASE inst.mode \in {"sync", "replicate"}
        <5>1. client'.pre = Pre(dst[Wanted] = NoRev, dst[Wanted])
          BY <4>1, <2>2 DEF Precondition
        <5> QED BY <4>1, <5>1, <2>2 DEF PreOK, Pre
      <4>2. CASE inst.mode \in {"fork", "restore"} /\ dst[Wanted] = client.rev
        <5>1. client'.pre = Pre(FALSE, dst[Wanted])
          BY <4>2, <2>2 DEF Precondition
        <5> QED BY <4>2, <5>1, <2>2 DEF PreOK, Pre
      <4>3. CASE inst.mode \in {"fork", "restore"} /\ dst[Wanted] # client.rev
        <5>1. client'.pre = Pre(TRUE, NoRev)
          BY <4>3, <2>2 DEF Precondition
        <5> QED BY <5>1 DEF PreOK, Pre
      <4> QED BY <4>1, <4>2, <4>3, <1>0
    <3> QED BY <3>1, <2>2 DEF OClient, Looking
  <2> QED BY <1>7, <2>1, <2>2, HeadFacts
<1>8. CASE NegotiateSyncMissing
  BY <1>8, NegotiateFacts, OKeeps DEF Looking
<1>9. CASE RelayChunk
  <2>1. \/ Settled(client, client', "error")
        \/ Keeps(client, client') /\ client'.pc = "relay"
    BY <1>9, RelayFacts
  <2> QED BY <2>1, <1>a, <1>o, OKeeps DEF Looking
<1>10. CASE Relayed
  BY <1>10, RelayedFacts, OKeeps DEF Looking
<1>11. CASE RestatLocalFile
  BY <1>11, <1>a, <1>o, RestatFacts, OKeeps DEF Looking
<1>12. CASE CommitSyncObject
  BY <1>12, CommitFacts, OKeeps DEF Looking
<1>13. CASE Recheck
  <2>1. CASE Settled(client, client', "conflict")
    BY <2>1, <1>a, <1>o
  <2>2. CASE /\ client'.rev = client.rev /\ client'.pc = "commit" /\ dst[Wanted] = client.rev
             /\ client'.pre = Pre(FALSE, dst[Wanted]) /\ client'.seen = client.seen \cup {dst[Wanted]}
    BY <2>2 DEF OClient, PreOK, Pre, Looking
  <2> QED BY <1>13, <2>1, <2>2, RecheckFacts
<1>14. CASE PlainPut
  BY <1>14, <1>a, <1>o, PlainPutFacts
<1>15. CASE RequestFails \/ ConnectionEnds \/ KillClient
  BY <1>15, <1>a, <1>o, EndFacts, OFresh DEF Dropped
<1> QED BY <1>1, <1>2, <1>3, <1>4, <1>5, <1>6, <1>7, <1>8, <1>9, <1>10, <1>11, <1>12, <1>13, <1>14, <1>15
    DEF ClientStep

\* An answer keeps OClient.
LEMMA OAnswer ==
  ASSUME TInv, OClient(client, inst.mode), NEW m, NEW outcome \in Outcomes, Answer(m, outcome)
  PROVE  OClient(client', inst.mode)
<1>1. CASE client' = client
  BY <1>1
<1>2. CASE Keeps(client, client') /\ client'.pc = "recheck"
  BY <1>2, OKeeps DEF Looking
<1>3. CASE Settled(client, client', outcome)
  BY <1>3, OFresh DEF Settled
<1> QED BY <1>1, <1>2, <1>3, AnswerFacts

\* Initially nothing is asked for.
LEMMA OInit == SyncInit => OInv
<1> SUFFICES ASSUME SyncInit PROVE OInv
  OBVIOUS
<1>1. client = NewClient /\ commits = {} /\ applied.over = NoRev
  BY DEF SyncInit, NothingApplied
<1> QED BY <1>1, NewClientFacts, OFresh DEF OInv, OCommits, OverwritesAreIntended

\* Every step keeps OInv.
LEMMA ONext == TInv /\ OInv /\ [SyncNext]_syncVars => OInv'
<1> SUFFICES ASSUME TInv, OInv, [SyncNext]_syncVars PROVE OInv'
  OBVIOUS
<1>o. "error" \in Outcomes /\ "conflict" \in Outcomes /\ "ok" \in Outcomes
  BY DEF Outcomes
<1>0. OClient(client, inst.mode) /\ OCommits(commits, inst.mode) /\ OverwritesAreIntended
  BY DEF OInv
<1>1. CASE UNCHANGED syncVars
  BY <1>1, <1>0 DEF syncVars, OInv, OverwritesAreIntended
<1>2. CASE Others
  <2>1. UNCHANGED <<inst, client, applied>> /\ commits' \subseteq commits
    BY <1>2 DEF Others, SrcWrite, DstWrite, FileWrite, Rot, RestartWithGC
  <2> QED BY <2>1, <1>0 DEF OInv, OCommits, OverwritesAreIntended
<1>3. CASE CommitSyncObject
  <2>1. OClient(client', inst.mode)
    BY <1>0, <1>3, OClientNext DEF ClientStep
  <2>2. UNCHANGED <<inst, applied>>
    BY <1>3 DEF CommitSyncObject
  <2>3. commits' = commits \cup {Sent} /\ Sent.body = client.rev.body /\ Sent.pre = client.pre
        /\ Sent.seen = client.seen
    BY <1>3, CommitFacts
  <2>4. PreOK(Sent.pre, Sent.seen, Sent.body, inst.mode)
    BY <1>0, <2>3 DEF OClient
  <2>5. OCommits(commits', inst.mode)
    BY <1>0, <2>3, <2>4 DEF OCommits
  <2> QED BY <1>0, <2>1, <2>2, <2>5 DEF OInv, OverwritesAreIntended
<1>4. CASE (StartRun \/ ClientStep \/ RequestFails \/ KillClient) /\ ~CommitSyncObject
  <2>1. OClient(client', inst.mode)
    BY <1>0, <1>4, OClientNext
  <2>2. UNCHANGED <<inst, applied, commits>>
    BY <1>4 DEF StartRun, ClientStep, RequestFails, KillClient, ServersUnchanged, ListSourceObjects, NextObject,
       FetchSourceDescriptor, StatLocalFile, ScanLocalFile, HeadSyncDestination, NegotiateSyncMissing,
       RelayChunk, Relayed, RestatLocalFile, Recheck, PlainPut, ConnectionEnds
  <2> QED BY <1>0, <2>1, <2>2 DEF OInv, OCommits, OverwritesAreIntended
<1>5. CASE ReadBackChunks
  <2>1. PICK m \in commits :
          /\ \/ commits' = (commits \ {m}) \cup {[m EXCEPT !.checked = TRUE]} /\ UNCHANGED client
             \/ commits' = commits \ {m} /\ Answer(m, "error")
          /\ UNCHANGED <<inst, applied>>
    BY <1>5 DEF ReadBackChunks
  <2>2. m \in CommitRec
    BY DEF TInv, CommitsOK
  <2>3. LET n == [m EXCEPT !.checked = TRUE] IN n.pre = m.pre /\ n.seen = m.seen /\ n.body = m.body
    BY <2>2 DEF CommitRec
  <2>4. OCommits(commits', inst.mode)
    BY <1>0, <2>1, <2>3 DEF OCommits
  <2>5. OClient(client', inst.mode)
    BY <1>0, <1>o, <2>1, OAnswer
  <2> QED BY <1>0, <2>1, <2>4, <2>5 DEF OInv, OverwritesAreIntended
<1>6. CASE CommitFails
  <2>1. PICK m \in commits :
          commits' = commits \ {m} /\ Answer(m, "error") /\ UNCHANGED <<inst, applied>>
    BY <1>6 DEF CommitFails
  <2>2. OClient(client', inst.mode)
    BY <1>0, <1>o, <2>1, OAnswer
  <2> QED BY <1>0, <2>1, <2>2 DEF OInv, OCommits, OverwritesAreIntended
<1>7. CASE CommitObjectRootChecked
  <2>1. PICK m \in commits :
          /\ commits' = commits \ {m} /\ UNCHANGED inst
          /\ \/ /\ PreconditionHolds(m, dst[m.key])
                /\ applied' = [over |-> dst[m.key], body |-> m.body, seen |-> m.seen,
                               mode |-> inst.mode, whole |-> m.whole]
                /\ Answer(m, "ok")
             \/ UNCHANGED applied /\ Answer(m, "conflict")
    BY <1>7 DEF CommitObjectRootChecked
  <2>2. OClient(client', inst.mode)
    BY <1>0, <1>o, <2>1, OAnswer
  <2>3. OCommits(commits', inst.mode)
    BY <1>0, <2>1 DEF OCommits
  <2>4. OverwritesAreIntended'
    <3>1. CASE UNCHANGED applied
      BY <1>0, <3>1 DEF OverwritesAreIntended
    <3>2. CASE /\ PreconditionHolds(m, dst[m.key])
               /\ applied' = [over |-> dst[m.key], body |-> m.body, seen |-> m.seen,
                              mode |-> inst.mode, whole |-> m.whole]
      <4>1. PreOK(m.pre, m.seen, m.body, inst.mode)
        BY <1>0 DEF OCommits
      <4>2. applied'.over = dst[m.key] /\ applied'.body = m.body /\ applied'.seen = m.seen
            /\ applied'.mode = inst.mode
        BY <3>2
      <4>3. dst[m.key] # NoRev => ~m.pre.absent /\ dst[m.key] = m.pre.etag
        BY <3>2 DEF PreconditionHolds
      <4> QED BY <4>1, <4>2, <4>3 DEF PreOK, OverwritesAreIntended
    <3> QED BY <2>1, <3>1, <3>2
  <2> QED BY <2>1, <2>2, <2>3, <2>4 DEF OInv
<1> QED BY <1>1, <1>2, <1>3, <1>4, <1>5, <1>6, <1>7 DEF SyncNext, ServerStep

\* A commit replaces nothing but what its run saw (OverwritesAreIntended),
\* however late it lands and whatever was lost: commitObjectRootChecked holds
\* the precondition against the object under the lock, and the precondition
\* was made of the run's own HEAD.
THEOREM NoBlindOverwrite == SyncSpec => []OverwritesAreIntended
<1>1. OInv => OverwritesAreIntended
  BY DEF OInv
<1>2. SyncSpec => []OInv
  BY OInit, ONext, Typed, PTL DEF SyncSpec
<1> QED BY <1>1, <1>2, PTL
-----------------------------------------------------------------------------
(* What the destination shows is whole.                                    *)

\* Between two objects there is nothing in hand.
LEMMA WBetween ==
  ASSUME NEW cl, NEW files, NEW vers, cl.pc \in {"next", "end"}, cl.pc = "next" => ~cl.plain,
         AllKnown(files, vers)
  PROVE  WClient(cl, files, vers)
BY DEF WClient, Carrying, Looking

\* One block more of a prefix is a prefix, and a prefix as long is all of it.
LEMMA PrefixGrows ==
  ASSUME NEW s \in Seq(Chunks), NEW t \in Seq(Chunks), PrefixOf(s, t)
  PROVE  /\ Len(s) + 1 <= Len(t) => PrefixOf(Append(s, t[Len(s) + 1]), t)
         /\ Len(s) >= Len(t) => s = t
<1>1. Len(s) \in Nat /\ Len(t) \in Nat
  OBVIOUS
<1>2. ASSUME Len(s) + 1 <= Len(t) PROVE PrefixOf(Append(s, t[Len(s) + 1]), t)
  <2> DEFINE u == Append(s, t[Len(s) + 1])
  <2>1. t[Len(s) + 1] \in Chunks
    BY <1>1, <1>2
  <2>2. Len(u) = Len(s) + 1 /\ u[Len(s) + 1] = t[Len(s) + 1] /\ \A i \in 1 .. Len(s) : u[i] = s[i]
    BY <2>1
  <2> HIDE DEF u
  <2>3. \A i \in 1 .. Len(u) : u[i] = t[i]
    BY <1>1, <2>2 DEF PrefixOf
  <2>4. PrefixOf(u, t)
    BY <1>2, <2>2, <2>3 DEF PrefixOf
  <2> QED BY <2>4 DEF u
<1>3. ASSUME Len(s) >= Len(t) PROVE s = t
  <2>1. Len(s) = Len(t) /\ \A i \in 1 .. Len(s) : s[i] = t[i]
    BY <1>1, <1>3 DEF PrefixOf
  <2> QED BY <2>1
<1> QED BY <1>2, <1>3

\* The command's steps, when it sends files.
LEMMA WClientNext ==
  ASSUME TInv, inst.mode = "sync", WClient(client, file, versions),
         StartRun \/ ClientStep \/ RequestFails \/ KillClient
  PROVE  WClient(client', file', versions')
<1>0. client \in ClientRec /\ client.pc \notin {"list", "describe", "recheck"}
  BY DEF TInv, ClientOK
<1>u. StartRun \/ UNCHANGED <<file, versions>>
  BY DEF ClientStep, RequestFails, KillClient, ServersUnchanged, ListSourceObjects, NextObject,
     FetchSourceDescriptor, StatLocalFile, ScanLocalFile, HeadSyncDestination, NegotiateSyncMissing,
     RelayChunk, Relayed, RestatLocalFile, Recheck, PlainPut, ConnectionEnds, CommitSyncObject
<1>a. ASSUME NEW outcome, Settled(client, client', outcome), client.pc # "idle", UNCHANGED <<file, versions>>
      PROVE  WClient(client', file', versions')
  <2>1. client'.pc = "next" /\ ~client'.plain
    BY <1>a DEF Settled
  <2>2. AllKnown(file', versions')
    BY <1>a DEF WClient
  <2> QED BY <2>1, <2>2, WBetween
<1>1. CASE StartRun
  <2>1. client'.pc = "next" /\ ~client'.plain
    BY <1>1, StartFacts
  <2>2. AllKnown(file', versions')
    BY <1>1 DEF StartRun, AllKnown, Known
  <2> QED BY <2>1, <2>2, WBetween
<1>2. CASE NextObject
  <2>0. client.pc = "next" /\ UNCHANGED <<file, versions>>
    BY <1>2 DEF NextObject, ServersUnchanged
  <2>1. CASE Keeps(client, client') /\ client'.pc = "stat"
    BY <2>0, <2>1 DEF WClient, Carrying, Looking, Keeps, KeepsScan
  <2>2. CASE client'.pc = "end"
    <3>1. AllKnown(file', versions')
      BY <2>0 DEF WClient
    <3> QED BY <2>2, <3>1, WBetween
  <2> QED BY <1>2, <2>1, <2>2, NextFacts
<1>3. CASE StatLocalFile
  <2>0. client.pc = "stat" /\ ~client.plain /\ UNCHANGED <<file, versions>> /\ "stat" \in Busy
    BY <1>3 DEF StatLocalFile, ServersUnchanged, WClient, Busy
  <2>1. Stays(client, client') /\ client'.rev.body = <<>> /\ Wanted = Head(client.todo)
        /\ file[Wanted].mtime \in Nat /\ file[Wanted].body \in Seq(Chunks)
    BY <1>3, <2>0, StatFacts, WantedIsKey
  <2>2. AllKnown(file', versions')
    BY <2>0 DEF WClient
  <2> DEFINE body == file[Wanted].body
             mtime == file[Wanted].mtime
             moved == MovedOn(versions[Wanted])
  <2>3. /\ Head(client'.todo) = Wanted
        /\ file'[Wanted].body = body /\ file'[Wanted].mtime = mtime /\ MovedOn(versions'[Wanted]) = moved
    BY <2>0, <2>1 DEF Stays
  <2>a. Stat(Wanted).mtime = mtime /\ mtime \in Nat
    BY <2>1 DEF Stat
  <2> HIDE DEF body, mtime, moved
  <2>4. CASE client'.pc = "head" /\ client'.before = Stat(Wanted) /\ client'.plain = client.plain
    <3>1. Scanned(client', body, mtime, moved)
      BY <2>0, <2>1, <2>4, <2>a DEF Scanned, Looking
    <3> QED BY <2>2, <2>3, <2>4, <3>1 DEF WClient
  <2>5. CASE client'.pc = "scan" /\ client'.plain = TRUE
    <3>1. Scanned(client', body, mtime, moved)
      BY <2>5 DEF Scanned, Looking
    <3> QED BY <2>2, <2>3, <2>5, <3>1 DEF WClient
  <2> QED BY <1>3, <2>4, <2>5, StatFacts
<1>4. CASE ScanLocalFile
  <2>0. client.pc = "scan" /\ UNCHANGED <<file, versions>> /\ "scan" \in Busy /\ "scan" \in Carrying
    BY <1>4 DEF ScanLocalFile, ServersUnchanged, Busy, Carrying
  <2> DEFINE body == file[Wanted].body
             mtime == file[Wanted].mtime
             moved == MovedOn(versions[Wanted])
  <2>1. /\ Stays(client, client') /\ KeepsScan(client, client') /\ Wanted = Head(client.todo)
        /\ mtime \in Nat /\ body \in Seq(Chunks) /\ client.rev.body \in Seq(Chunks)
    BY <1>4, <2>0, ScanFacts, WantedIsKey
  <2>2. AllKnown(file', versions')
    BY <2>0 DEF WClient
  <2>3. /\ Head(client'.todo) = Wanted /\ client'.plain = client.plain /\ client'.before = client.before
        /\ file'[Wanted].body = body /\ file'[Wanted].mtime = mtime /\ MovedOn(versions'[Wanted]) = moved
    BY <2>0, <2>1 DEF Stays, KeepsScan
  <2>4. Scanned(client, body, mtime, moved)
    BY <2>0, <2>1 DEF WClient
  <2> HIDE DEF body, mtime, moved
  <2>5. CASE /\ client'.pc = "scan" /\ Len(client.rev.body) + 1 <= Len(body)
             /\ client'.rev.body = Append(client.rev.body, body[Len(client.rev.body) + 1])
    <3>1. Scanned(client', body, mtime, moved)
      BY <2>0, <2>1, <2>3, <2>4, <2>5, PrefixGrows DEF Scanned, Looking
    <3> QED BY <2>2, <2>3, <2>5, <3>1 DEF WClient
  <2>6. CASE /\ client'.pc = (IF client.plain THEN "put" ELSE "negotiate")
             /\ Len(client.rev.body) >= Len(body) /\ client'.rev = client.rev
    <3>1. CASE client.plain
      <4>1. Scanned(client', body, mtime, moved)
        BY <2>6, <3>1 DEF Scanned, Looking
      <4> QED BY <2>2, <2>3, <2>6, <3>1, <4>1 DEF WClient
    <3>2. CASE ~client.plain
      <4>1. moved /\ client.before.mtime = mtime => client.rev.body = body
        BY <2>0, <2>1, <2>4, <2>6, <3>2, PrefixGrows DEF Scanned
      <4>2. Scanned(client', body, mtime, moved)
        BY <2>0, <2>3, <2>4, <2>6, <3>2, <4>1 DEF Scanned, Looking
      <4> QED BY <2>2, <2>3, <2>6, <3>2, <4>2 DEF WClient
    <3> QED BY <3>1, <3>2
  <2> QED BY <1>4, <2>5, <2>6, ScanFacts DEF body
<1>5. CASE HeadSyncDestination
  <2>0. client.pc = "head" /\ UNCHANGED <<file, versions>> /\ "head" \in Busy /\ "head" \in Carrying
    BY <1>5 DEF HeadSyncDestination, ServersUnchanged, Busy, Carrying
  <2>1. CASE Settled(client, client', "conflict")
    BY <2>0, <2>1, <1>a
  <2>2. CASE /\ Stays(client, client') /\ KeepsScan(client, client')
             /\ client'.rev = client.rev /\ client'.pc = "scan"
    <3> DEFINE body == file[Wanted].body
               mtime == file[Wanted].mtime
               moved == MovedOn(versions[Wanted])
    <3>1. Wanted = Head(client.todo) /\ Head(client'.todo) = Wanted /\ body \in Seq(Chunks)
      BY <2>0, <2>2, WantedIsKey DEF Stays
    <3>2. Scanned(client, body, mtime, moved) /\ AllKnown(file', versions')
      BY <2>0, <3>1 DEF WClient
    <3> HIDE DEF body, mtime, moved
    <3>3. client.rev.body = <<>> /\ (moved => client'.before.mtime <= mtime)
      BY <2>0, <2>2, <3>2 DEF Scanned, KeepsScan
    <3>4. PrefixOf(<<>>, body)
      BY <3>1 DEF PrefixOf
    <3>5. Scanned(client', body, mtime, moved)
      BY <2>2, <3>3, <3>4 DEF Scanned, Looking
    <3> QED BY <2>0, <2>2, <3>1, <3>2, <3>5 DEF WClient, body, mtime, moved
  <2> QED BY <1>5, <2>1, <2>2, HeadFacts
<1>6. ASSUME Keeps(client, client'), UNCHANGED <<file, versions>>,
             \/ client.pc \in {"negotiate", "relay"} /\ client'.pc \in {"relay", "restat"}
             \/ client.pc = "restat" /\ client'.pc = "commit" /\ file[Wanted].mtime = client.before.mtime
             \/ client.pc = "commit" /\ client'.pc = "wait"
      PROVE  WClient(client', file', versions')
  <2>0. client.pc \in Busy /\ client.pc \in Carrying
    BY <1>6 DEF Busy, Carrying, Looking
  <2> DEFINE body == file[Wanted].body
             mtime == file[Wanted].mtime
             moved == MovedOn(versions[Wanted])
  <2>1. Wanted = Head(client.todo) /\ Head(client'.todo) = Wanted /\ Wanted \in Keys
    BY <1>6, <2>0, WantedIsKey DEF Keeps, Stays
  <2>2. client.pc # "idle"
    BY <1>6
  <2>3. Scanned(client, body, mtime, moved) /\ AllKnown(file, versions)
    BY <2>0, <2>1, <2>2 DEF WClient
  <2>4. client'.rev = client.rev /\ client'.plain = client.plain /\ client'.before = client.before
    BY <1>6 DEF Keeps, KeepsScan
  <2>5. Known(body, versions[Wanted])
    BY <2>1, <2>3 DEF AllKnown
  <2> HIDE DEF body, mtime, moved
  <2>6. Scanned(client', body, mtime, moved)
    BY <1>6, <2>3, <2>4 DEF Scanned, Looking
  <2>7. client'.pc = "commit" => OneVersion(client'.rev.body, versions[Wanted])
    <3> SUFFICES ASSUME client'.pc = "commit", moved PROVE Known(client'.rev.body, versions[Wanted])
      BY DEF OneVersion, Known, moved
    <3>1. client.pc = "restat" /\ mtime = client.before.mtime
      BY <1>6 DEF mtime
    <3>2. client.rev.body = body
      BY <3>1, <2>3 DEF Scanned
    <3> QED BY <3>2, <2>4, <2>5
  <2> QED BY <1>6, <2>1, <2>3, <2>6, <2>7 DEF WClient, body, mtime, moved
<1>7. CASE NegotiateSyncMissing
  <2>1. UNCHANGED <<file, versions>> /\ client.pc = "negotiate"
    BY <1>7 DEF NegotiateSyncMissing, ServersUnchanged
  <2> QED BY <2>1, <1>6, <1>7, NegotiateFacts
<1>8. CASE RelayChunk
  <2>1. UNCHANGED <<file, versions>> /\ client.pc = "relay"
    BY <1>8 DEF RelayChunk
  <2>2. \/ Settled(client, client', "error")
        \/ Keeps(client, client') /\ client'.pc = "relay"
    BY <1>8, RelayFacts
  <2> QED BY <2>1, <2>2, <1>6, <1>a
<1>9. CASE Relayed
  <2>1. UNCHANGED <<file, versions>> /\ client.pc = "relay"
    BY <1>9 DEF Relayed, ServersUnchanged
  <2> QED BY <2>1, <1>6, <1>9, RelayedFacts
<1>10. CASE RestatLocalFile
  <2>1. UNCHANGED <<file, versions>> /\ client.pc = "restat"
    BY <1>10 DEF RestatLocalFile, ServersUnchanged
  <2> QED BY <2>1, <1>6, <1>10, <1>a, RestatFacts
<1>11. CASE CommitSyncObject
  <2>1. UNCHANGED <<file, versions>> /\ client.pc = "commit"
    BY <1>11 DEF CommitSyncObject
  <2> QED BY <2>1, <1>6, <1>11, CommitFacts
<1>12. CASE PlainPut
  <2>1. UNCHANGED <<file, versions>> /\ client.pc = "put"
    BY <1>12 DEF PlainPut
  <2> QED BY <2>1, <1>12, <1>a, PlainPutFacts
<1>13. CASE RequestFails \/ ConnectionEnds \/ KillClient
  <2>1. UNCHANGED <<file, versions>> /\ client.pc # "idle"
    BY <1>13 DEF RequestFails, ConnectionEnds, KillClient, ServersUnchanged
  <2>2. CASE Dropped(client, client')
    <3>1. AllKnown(file', versions')
      BY <2>1 DEF WClient
    <3> QED BY <2>2, <3>1, WBetween DEF Dropped
  <2>3. CASE Settled(client, client', "error")
    BY <2>1, <2>3, <1>a
  <2> QED BY <1>13, <2>2, <2>3, EndFacts
<1>14. ~ListSourceObjects /\ ~FetchSourceDescriptor /\ ~Recheck
  BY <1>0 DEF ListSourceObjects, FetchSourceDescriptor, Recheck
<1> QED BY <1>1, <1>2, <1>3, <1>4, <1>5, <1>7, <1>8, <1>9, <1>10, <1>11, <1>12, <1>13, <1>14
    DEF ClientStep

\* An answer leaves the command between two objects, or as it is.
LEMMA WAnswer ==
  ASSUME TInv, inst.mode = "sync", WClient(client, file, versions), UNCHANGED <<file, versions>>,
         NEW m, NEW outcome \in Outcomes, Answer(m, outcome)
  PROVE  WClient(client', file', versions')
<1>1. CASE client' = client
  BY <1>1
<1>2. CASE client.pc = "wait" /\ Settled(client, client', outcome)
  <2>1. AllKnown(file', versions')
    BY <1>2 DEF WClient
  <2> QED BY <1>2, <2>1, WBetween DEF Settled
<1> QED BY <1>1, <1>2, AnswerFacts

\* A file is written: its contents are a version of it, and its mtime moves on
\* or the versions say that it did not.
LEMMA WFileWrite ==
  ASSUME TInv, inst.mode = "sync", WClient(client, file, versions), FileWrite
  PROVE  WClient(client', file', versions')
<1>1. PICK k \in FileKeys : \E body \in Rewrites(file[k].body), mtime \in 0 .. file[k].mtime + 1 :
        FileWritten(k, body, mtime)
  BY DEF FileWrite, FileWritten
<1>2. PICK body \in Rewrites(file[k].body), mtime \in 0 .. file[k].mtime + 1 : FileWritten(k, body, mtime)
  BY <1>1
<1>3. k \in Keys /\ file[k].mtime \in Nat /\ mtime \in Nat /\ file \in FileFns /\ versions \in VersionFns
  BY DEF FileKeys, TInv, FileFns
<1> DEFINE made == [body |-> body, moved |-> mtime > file[k].mtime]
<1>m. made.body = body /\ (made.moved <=> mtime > file[k].mtime)
  OBVIOUS
<1>4. /\ file'[k].mtime = mtime /\ file'[k].body = body
      /\ \A j \in Keys : j # k => file'[j] = file[j]
  BY <1>2, <1>3 DEF FileFns, FileWritten
<1>v. versions' = [versions EXCEPT ![k] = @ \cup {made}] /\ client' = client
  BY <1>2 DEF FileWritten
<1> HIDE DEF made
<1>5. /\ versions'[k] = versions[k] \cup {made}
      /\ \A j \in Keys : j # k => versions'[j] = versions[j]
  BY <1>3, <1>v DEF VersionFns
<1>6. client.pc # "idle" => AllKnown(file', versions')
  <2> SUFFICES ASSUME client.pc # "idle", NEW j \in Keys PROVE Known(file'[j].body, versions'[j])
    BY DEF AllKnown
  <2>1. CASE j = k
    BY <1>4, <1>5, <1>m, <2>1 DEF Known
  <2>2. CASE j # k
    BY <1>4, <1>5, <2>2 DEF WClient, AllKnown
  <2> QED BY <2>1, <2>2
<1>7. ASSUME client.pc \in Carrying
      PROVE  LET j == Head(client.todo) IN
               /\ Scanned(client, file'[j].body, file'[j].mtime, MovedOn(versions'[j]))
               /\ client.pc = "commit" => OneVersion(client.rev.body, versions'[j])
  <2> DEFINE j == Head(client.todo)
  <2>1. j \in Keys /\ client.before.mtime \in Nat
    BY <1>7, WantedIsKey DEF Busy, ClientRec
  <2>2. /\ Scanned(client, file[j].body, file[j].mtime, MovedOn(versions[j]))
        /\ client.pc = "commit" => OneVersion(client.rev.body, versions[j])
    BY <1>7 DEF WClient
  <2> HIDE DEF j
  <2>3. CASE j # k
    <3>1. file'[j] = file[j] /\ versions'[j] = versions[j]
      BY <1>4, <1>5, <2>1, <2>3
    <3> QED BY <2>2, <3>1 DEF j
  <2>4. CASE j = k
    <3>0. MovedOn(versions'[k]) => MovedOn(versions[k]) /\ mtime > file[k].mtime
      BY <1>5, <1>m DEF MovedOn
    <3>1. /\ MovedOn(versions[k]) /\ client.pc \in {"head", "scan"} \cup Looking /\ ~client.plain =>
               client.before.mtime <= file[k].mtime
          /\ client.pc = "head" => client.rev.body = <<>> /\ ~client.plain
          /\ client.pc \in {"negotiate", "relay", "restat"} => ~client.plain
      BY <2>2, <2>4 DEF Scanned
    <3>2. MovedOn(versions'[k]) /\ client.pc \in {"head", "scan"} \cup Looking /\ ~client.plain =>
            client.before.mtime < mtime
      BY <1>3, <2>1, <3>0, <3>1
    <3>3. Scanned(client, body, mtime, MovedOn(versions'[k]))
      BY <1>3, <2>1, <3>1, <3>2 DEF Scanned, Looking
    <3>4. client.pc = "commit" => OneVersion(client.rev.body, versions'[k])
      BY <1>5, <2>2, <2>4, <3>0 DEF OneVersion
    <3> QED BY <1>4, <2>4, <3>3, <3>4 DEF j
  <2> QED BY <2>3, <2>4
<1>8. client' = client
  BY <1>v
<1>9. client.pc \in {"next", "stat"} => ~client.plain
  BY DEF WClient
<1> QED BY <1>6, <1>7, <1>8, <1>9 DEF WClient

\* Chunks that are kept keep objects and checked commits whole.
LEMMA HeldGrows ==
  ASSUME NEW old, NEW new, \A c \in Chunks : old[c] # "absent" => new[c] # "absent",
         NEW objects \in Objects, NEW cs \in SUBSET CommitRec
  PROVE  /\ AllHeld(objects, old) => AllHeld(objects, new)
         /\ CommitsHeld(cs, old) => CommitsHeld(cs, new)
<1>1. ASSUME NEW body \in Seq(Chunks), Held(body, old) PROVE Held(body, new)
  <2>1. Range(body) \subseteq Chunks
    BY DEF Range
  <2> QED BY <1>1, <2>1 DEF Held
<1>2. ASSUME NEW k \in Keys, objects[k] # NoRev PROVE objects[k].body \in Seq(Chunks)
  BY <1>2 DEF Objects, Revs
<1>3. ASSUME NEW m \in cs PROVE m.body \in Seq(Chunks)
  BY DEF CommitRec
<1> QED BY <1>1, <1>2, <1>3 DEF AllHeld, CommitsHeld

\* An object that takes its place with its chunks there leaves all whole.
LEMMA HeldReplaced ==
  ASSUME NEW objects \in Objects, NEW store, AllHeld(objects, store), NEW k \in Keys, NEW r,
         r # NoRev => Held(r.body, store)
  PROVE  AllHeld([objects EXCEPT ![k] = r], store)
BY DEF AllHeld, Objects

\* Initially every chunk of an object is there.
LEMMA WInit == SyncInit => WInv
<1> SUFFICES ASSUME SyncInit PROVE WInv
  OBVIOUS
<1>0. TInv
  BY TInit
<1>1. /\ client = NewClient /\ commits = {} /\ applied = NothingApplied
  BY DEF SyncInit
<1>2. AllHeld(dst, cas["dst"])
  <2> SUFFICES ASSUME NEW k \in Keys, dst[k] # NoRev, NEW c \in Range(dst[k].body)
               PROVE  cas["dst"][c] # "absent"
    BY DEF AllHeld, Held
  <2>1. c \in Chunks
    <3>1. dst[k].body \in Seq(Chunks)
      BY <1>0 DEF TInv, Objects, Revs
    <3> QED BY <3>1 DEF Range
  <2>2. c \in ChunksOf(dst)
    BY DEF ChunksOf
  <2>3. cas["dst"] = [d \in Chunks |-> IF \/ "dst" = SrcStore /\ d \in ChunksOf(src)
                                          \/ "dst" = "dst" /\ d \in ChunksOf(dst)
                                       THEN "good" ELSE "absent"]
    BY DEF SyncInit
  <2> QED BY <2>1, <2>2, <2>3
<1>3. CommitsHeld(commits, cas["dst"]) /\ applied.whole
  BY <1>1 DEF CommitsHeld, NothingApplied
<1>4. WClient(client, file, versions)
  BY <1>1, NewClientFacts DEF WClient, Carrying, Looking
<1> QED BY <1>2, <1>3, <1>4 DEF WInv

\* What everyone else does keeps what is shown whole.
LEMMA WOthers == ASSUME TInv, WInv, Others PROVE WInv'
<1>0. /\ inst.written \subseteq Keys /\ inst.revs \subseteq Revs /\ inst.same \in BOOLEAN
      /\ SrcStore \in {"src", "dst"} /\ cas \in CasFns /\ dst \in Objects /\ commits \in SUBSET CommitRec
  BY InstanceFacts DEF TInv, SrcStore, CommitsOK
<1>w. /\ AllHeld(dst, cas["dst"]) /\ CommitsHeld(commits, cas["dst"]) /\ applied.whole
      /\ inst.mode = "sync" => WClient(client, file, versions)
  BY DEF WInv
<1>1. CASE SrcWrite
  <2>1. PICK k \in inst.written, r \in inst.revs \cup {NoRev} :
          /\ cas' = IF r = NoRev THEN cas ELSE Stored(SrcStore, r.body)
          /\ UNCHANGED <<inst, dst, file, client, commits, versions, applied>>
    BY <1>1 DEF SrcWrite
  <2>2. \A c \in Chunks : cas["dst"][c] # "absent" => cas'["dst"][c] # "absent"
    <3>1. CASE r = NoRev
      BY <2>1, <3>1
    <3>2. CASE r # NoRev
      BY <1>0, <2>1, <3>2, StoredFacts
    <3> QED BY <3>1, <3>2
  <2>3. AllHeld(dst, cas'["dst"]) /\ CommitsHeld(commits, cas'["dst"])
    BY <1>0, <1>w, <2>2, HeldGrows
  <2> QED BY <1>w, <2>1, <2>3 DEF WInv
<1>2. CASE DstWrite
  <2>1. PICK k \in inst.written, r \in inst.revs \cup {NoRev} :
          /\ dst' = [dst EXCEPT ![k] = r]
          /\ cas' = IF r = NoRev THEN cas ELSE Stored("dst", r.body)
          /\ UNCHANGED <<inst, src, file, client, commits, stable, versions, applied>>
    BY <1>2 DEF DstWrite
  <2>2. /\ \A c \in Chunks : cas["dst"][c] # "absent" => cas'["dst"][c] # "absent"
        /\ r # NoRev => Held(r.body, cas'["dst"])
    <3>1. CASE r = NoRev
      BY <2>1, <3>1
    <3>2. CASE r # NoRev
      <4>1. r.body \in Seq(Chunks)
        BY <1>0, <3>2 DEF Revs
      <4>2. Range(r.body) \subseteq Chunks
        BY <4>1 DEF Range
      <4> QED BY <1>0, <2>1, <3>2, <4>2, StoredFacts DEF Held
    <3> QED BY <3>1, <3>2
  <2>3. AllHeld(dst, cas'["dst"]) /\ CommitsHeld(commits, cas'["dst"])
    BY <1>0, <1>w, <2>2, HeldGrows
  <2>4. AllHeld(dst', cas'["dst"])
    <3>1. k \in Keys
      BY <1>0
    <3> QED BY <1>0, <2>1, <2>2, <2>3, <3>1, HeldReplaced
  <2> QED BY <1>w, <2>1, <2>3, <2>4 DEF WInv
<1>3. CASE FileWrite
  <2>1. UNCHANGED <<inst, dst, cas, commits, applied>> /\ inst.mode = "sync"
    BY <1>3 DEF FileWrite
  <2>2. WClient(client', file', versions')
    BY <1>3, <1>w, <2>1, WFileWrite
  <2> QED BY <1>w, <2>1, <2>2 DEF WInv
<1>4. CASE Rot
  <2>1. PICK s \in {"src", "dst"}, c \in Chunks :
          /\ cas' = [cas EXCEPT ![s][c] = "bad"]
          /\ UNCHANGED <<inst, dst, file, client, commits, versions, applied>>
    BY <1>4 DEF Rot
  <2>2. \A d \in Chunks : cas["dst"][d] # "absent" => cas'["dst"][d] # "absent"
    BY <1>0, <2>1 DEF CasFns
  <2>3. AllHeld(dst, cas'["dst"]) /\ CommitsHeld(commits, cas'["dst"])
    BY <1>0, <1>w, <2>2, HeldGrows
  <2> QED BY <1>w, <2>1, <2>3 DEF WInv
<1>5. CASE RestartWithGC
  <2>1. PICK gone \in SUBSET (Chunks \ KeptByRoots) :
          /\ commits' = {}
          /\ cas' = [cas EXCEPT !["dst"] = [c \in Chunks |-> IF c \in gone THEN "absent" ELSE @[c]]]
          /\ UNCHANGED <<inst, src, dst, file, client, versions, applied>>
    BY <1>5 DEF RestartWithGC
  <2> DEFINE new == [c \in Chunks |-> IF c \in gone THEN "absent" ELSE cas["dst"][c]]
  <2>2. cas' = [cas EXCEPT !["dst"] = new]
    BY <2>1
  <2>3. \A c \in Chunks \ gone : new[c] = cas["dst"][c]
    OBVIOUS
  <2> HIDE DEF new
  <2>4. cas'["dst"] = new
    BY <1>0, <2>2 DEF CasFns
  <2>5. AllHeld(dst, cas'["dst"])
    <3> SUFFICES ASSUME NEW k \in Keys, dst[k] # NoRev, NEW c \in Range(dst[k].body)
                 PROVE  new[c] # "absent"
      BY <2>4 DEF AllHeld, Held
    <3>1. c \in Chunks
      <4>1. dst[k].body \in Seq(Chunks)
        BY <1>0 DEF Objects, Revs
      <4> QED BY <4>1 DEF Range
    <3>2. c \in KeptByRoots
      BY DEF KeptByRoots, ChunksOf
    <3>3. c \notin gone
      BY <3>2
    <3>4. cas["dst"][c] # "absent"
      BY <1>w DEF AllHeld, Held
    <3> QED BY <3>1, <3>3, <3>4, <2>3
  <2>6. CommitsHeld(commits', cas'["dst"])
    BY <2>1 DEF CommitsHeld
  <2> QED BY <1>w, <2>1, <2>5, <2>6 DEF WInv
<1> QED BY <1>1, <1>2, <1>3, <1>4, <1>5 DEF Others

\* Every step keeps what is shown whole.
LEMMA WNext == TInv /\ WInv /\ [SyncNext]_syncVars => WInv'
<1> SUFFICES ASSUME TInv, WInv, [SyncNext]_syncVars PROVE WInv'
  OBVIOUS
<1>o. "error" \in Outcomes /\ "conflict" \in Outcomes /\ "ok" \in Outcomes
  BY DEF Outcomes
<1>0. cas \in CasFns /\ dst \in Objects /\ commits \in SUBSET CommitRec
  BY DEF TInv, CommitsOK
<1>w. /\ AllHeld(dst, cas["dst"]) /\ CommitsHeld(commits, cas["dst"]) /\ applied.whole
      /\ inst.mode = "sync" => WClient(client, file, versions)
  BY DEF WInv
<1>1. CASE UNCHANGED syncVars
  BY <1>1, <1>w DEF syncVars, WInv
<1>2. CASE Others
  BY <1>2, WOthers
<1>3. ASSUME StartRun \/ ClientStep \/ RequestFails \/ KillClient
      PROVE  inst' = inst /\ (inst'.mode = "sync" => WClient(client', file', versions'))
  <2>1. inst' = inst
    BY <1>3 DEF StartRun, ClientStep, RequestFails, KillClient, ServersUnchanged, ListSourceObjects, NextObject,
       FetchSourceDescriptor, StatLocalFile, ScanLocalFile, HeadSyncDestination, NegotiateSyncMissing,
       RelayChunk, Relayed, RestatLocalFile, Recheck, PlainPut, ConnectionEnds, CommitSyncObject
  <2> QED BY <1>3, <1>w, <2>1, WClientNext
<1>4. CASE RelayChunk
  <2>1. UNCHANGED <<dst, commits, applied>>
    BY <1>4 DEF RelayChunk
  <2>2. \A c \in Chunks : cas["dst"][c] # "absent" => cas'["dst"][c] # "absent"
    BY <1>0, <1>4, RelayFacts, StoredFacts
  <2>3. AllHeld(dst, cas'["dst"]) /\ CommitsHeld(commits, cas'["dst"])
    BY <1>0, <1>w, <2>2, HeldGrows
  <2> QED BY <1>3, <1>4, <1>w, <2>1, <2>3 DEF WInv, ClientStep
<1>5. CASE PlainPut
  <2>1. dst' = [dst EXCEPT ![Wanted] = client.rev] /\ cas' = Stored("dst", client.rev.body)
        /\ UNCHANGED <<commits, applied>> /\ client.pc = "put" /\ "put" \in Busy /\ "put" \in Carrying
    BY <1>5 DEF PlainPut, Busy, Carrying
  <2>2. Wanted \in Keys /\ client.rev.body \in Seq(Chunks)
    BY <2>1, WantedIsKey DEF TInv, ClientOK, Revs
  <2>3. Range(client.rev.body) \subseteq Chunks
    BY <2>2 DEF Range
  <2>4. Held(client.rev.body, cas'["dst"]) /\ \A c \in Chunks : cas["dst"][c] # "absent" => cas'["dst"][c] # "absent"
    BY <1>0, <2>1, <2>3, StoredFacts DEF Held
  <2>5. AllHeld(dst, cas'["dst"]) /\ CommitsHeld(commits, cas'["dst"])
    BY <1>0, <1>w, <2>4, HeldGrows
  <2>6. AllHeld(dst', cas'["dst"])
    BY <1>0, <2>1, <2>2, <2>4, <2>5, HeldReplaced
  <2> QED BY <1>3, <1>5, <1>w, <2>1, <2>5, <2>6 DEF WInv, ClientStep
<1>6. CASE CommitSyncObject
  <2>1. UNCHANGED <<dst, cas, applied>> /\ client.pc = "commit" /\ "commit" \in Carrying /\ "commit" \in Busy
    BY <1>6 DEF CommitSyncObject, Carrying, Looking, Busy
  <2>2. /\ commits' = commits \cup {Sent} /\ Sent.checked = FALSE
        /\ (inst.mode # "sync" \/ OneVersion(client.rev.body, versions[Wanted])) => Sent.whole
    BY <1>6, CommitFacts
  <2>3. inst.mode = "sync" => OneVersion(client.rev.body, versions[Wanted])
    BY <1>w, <2>1, WantedIsKey DEF WClient
  <2>4. CommitsHeld(commits', cas'["dst"])
    BY <1>w, <2>1, <2>2, <2>3 DEF CommitsHeld
  <2> QED BY <1>3, <1>6, <1>w, <2>1, <2>4 DEF WInv, ClientStep
<1>7. CASE (StartRun \/ ClientStep \/ RequestFails \/ KillClient) /\ ~RelayChunk /\ ~PlainPut /\ ~CommitSyncObject
  <2>1. UNCHANGED <<dst, cas, commits, applied>>
    BY <1>7 DEF StartRun, ClientStep, RequestFails, KillClient, ServersUnchanged, ListSourceObjects, NextObject,
       FetchSourceDescriptor, StatLocalFile, ScanLocalFile, HeadSyncDestination, NegotiateSyncMissing,
       Relayed, RestatLocalFile, Recheck, ConnectionEnds
  <2> QED BY <1>3, <1>7, <1>w, <2>1 DEF WInv
<1>8. CASE ReadBackChunks
  <2>1. PICK m \in commits :
          /\ \/ /\ AllReadBack(m) /\ UNCHANGED client
                /\ commits' = (commits \ {m}) \cup {[m EXCEPT !.checked = TRUE]}
             \/ commits' = commits \ {m} /\ Answer(m, "error")
          /\ UNCHANGED <<inst, dst, cas, file, versions, applied>>
    BY <1>8 DEF ReadBackChunks
  <2>2. CommitsHeld(commits', cas'["dst"])
    <3>1. CASE commits' = commits \ {m}
      BY <3>1, <1>w, <2>1 DEF CommitsHeld
    <3>2. CASE AllReadBack(m) /\ commits' = (commits \ {m}) \cup {[m EXCEPT !.checked = TRUE]}
      <4> DEFINE n == [m EXCEPT !.checked = TRUE]
      <4>1. n.body = m.body /\ n.whole = m.whole
        BY <1>0 DEF CommitRec
      <4>2. Held(m.body, cas["dst"])
        BY <3>2 DEF AllReadBack, Held
      <4>3. commits' = (commits \ {m}) \cup {n}
        BY <3>2
      <4> HIDE DEF n
      <4> QED BY <4>1, <4>2, <4>3, <1>w, <2>1 DEF CommitsHeld
    <3> QED BY <2>1, <3>1, <3>2
  <2>3. inst.mode = "sync" => WClient(client', file', versions')
    BY <1>w, <1>o, <2>1, WAnswer
  <2> QED BY <1>w, <2>1, <2>2, <2>3 DEF WInv
<1>9. CASE CommitFails
  <2>1. PICK m \in commits :
          /\ commits' = commits \ {m} /\ Answer(m, "error")
          /\ UNCHANGED <<inst, dst, cas, file, versions, applied>>
    BY <1>9 DEF CommitFails
  <2>2. CommitsHeld(commits', cas'["dst"])
    BY <1>w, <2>1 DEF CommitsHeld
  <2>3. inst.mode = "sync" => WClient(client', file', versions')
    BY <1>w, <1>o, <2>1, WAnswer
  <2> QED BY <1>w, <2>1, <2>2, <2>3 DEF WInv
<1>10. CASE CommitObjectRootChecked
  <2>1. PICK m \in commits :
          /\ m.checked /\ commits' = commits \ {m} /\ UNCHANGED <<inst, cas, file, versions>>
          /\ \/ /\ dst' = [dst EXCEPT ![m.key] = Rev(m.body, FALSE)]
                /\ applied' = [over |-> dst[m.key], body |-> m.body, seen |-> m.seen,
                               mode |-> inst.mode, whole |-> m.whole]
                /\ Answer(m, "ok")
             \/ UNCHANGED <<dst, applied>> /\ Answer(m, "conflict")
    BY <1>10 DEF CommitObjectRootChecked
  <2>2. m.key \in Keys /\ m.whole /\ Held(m.body, cas["dst"])
    BY <1>0, <1>w, <2>1 DEF CommitRec, CommitsHeld
  <2>3. CommitsHeld(commits', cas'["dst"])
    BY <1>w, <2>1 DEF CommitsHeld
  <2>4. inst.mode = "sync" => WClient(client', file', versions')
    BY <1>w, <1>o, <2>1, WAnswer
  <2>5. AllHeld(dst', cas'["dst"]) /\ applied'.whole
    <3>1. CASE UNCHANGED <<dst, applied>>
      BY <1>w, <2>1, <3>1
    <3>2. CASE /\ dst' = [dst EXCEPT ![m.key] = Rev(m.body, FALSE)]
               /\ applied' = [over |-> dst[m.key], body |-> m.body, seen |-> m.seen,
                              mode |-> inst.mode, whole |-> m.whole]
      <4>1. Rev(m.body, FALSE).body = m.body
        BY DEF Rev
      <4>2. AllHeld([dst EXCEPT ![m.key] = Rev(m.body, FALSE)], cas["dst"])
        BY <1>0, <1>w, <2>2, <4>1, HeldReplaced
      <4> QED BY <2>1, <2>2, <3>2, <4>2
    <3> QED BY <2>1, <3>1, <3>2
  <2> QED BY <2>1, <2>3, <2>4, <2>5 DEF WInv
<1> QED BY <1>1, <1>2, <1>4, <1>5, <1>6, <1>7, <1>8, <1>9, <1>10 DEF SyncNext, ServerStep

\* The destination never shows an object with a chunk missing, and what a run
\* committed is one version of its file if every write during the run moved the
\* file's mtime on (CommitsAreWhole): handleSyncCommit reads every chunk back, a
\* restart ends what it has not published, and syncFile compares the file's size
\* and mtime before it commits.  A write that keeps the mtime, or sets it back,
\* is a step of the specification, and of what it leaves nothing is claimed.
THEOREM ObjectsAreWhole == SyncSpec => []CommitsAreWhole
<1>1. WInv => CommitsAreWhole
  BY DEF WInv, CommitsAreWhole, AllHeld, Held
<1>2. SyncSpec => []WInv
  BY WInit, WNext, Typed, PTL DEF SyncSpec
<1> QED BY <1>1, <1>2, PTL
-----------------------------------------------------------------------------
(* What a run that reports success has brought.                            *)

\* The kinds of steps of a command: the run is cut off, an object is settled,
\* it goes on with the same object, it lists, or it ends.
Moves(old, new) ==
  /\ Stays(old, new) /\ old.pc \in Busy \cup {"next"} /\ new.pc \in Busy /\ old.todo # <<>>
  /\ old.pc # "wait"
  /\ \/ KeepsPre(old, new) /\ (old.pc = "commit" => new.pc = "wait") /\ old.pc # "recheck"
     \/ old.pc = "head" /\ new.retried = old.retried
     \/ old.pc = "recheck" /\ new.pc = "commit" /\ ~new.pre.absent
  /\ new.pc = "wait" => old.pc = "commit"
RunEnds(old, new) ==
  /\ old.pc = "next" /\ old.todo = <<>> /\ new \in ClientRec /\ new.pc = "end"
  /\ new.run = old.run /\ new.todo = old.todo /\ new.results = old.results
  /\ KeepsPre(old, new) /\ (new.ok => \A r \in old.results : r[2] = "ok")
\* Every step of the command is of one of these kinds.
LEMMA StepKinds ==
  ASSUME TInv, ClientStep \/ RequestFails \/ KillClient
  PROVE  \/ Dropped(client, client')
         \/ /\ client.pc \in Busy
            /\ \E o \in Outcomes : /\ Settled(client, client', o) /\ (o = "ok" => PlainPut)
                                   /\ o = "conflict" => HeadSyncDestination \/ Recheck
         \/ Moves(client, client')
         \/ ListSourceObjects
         \/ RunEnds(client, client')
<1>0. client \in ClientRec /\ (client.pc \in Busy => client.todo # <<>>)
  BY DEF TInv, ClientOK
<1>o. "ok" \in Outcomes /\ "error" \in Outcomes /\ "conflict" \in Outcomes
  BY DEF Outcomes
<1>1. CASE RequestFails \/ ConnectionEnds \/ KillClient
  BY <1>1, <1>o, EndFacts
<1>2. CASE NextObject
  <2>1. client.pc = "next"
    BY <1>2 DEF NextObject
  <2>2. CASE client.todo # <<>> /\ Keeps(client, client') /\ client'.pc \in {"stat", "describe"}
    BY <2>1, <2>2 DEF Moves, Keeps, Busy
  <2>3. CASE client.todo = <<>>
    BY <1>2, <2>1, <2>3, NextFacts DEF RunEnds
  <2> QED BY <1>2, <2>2, <2>3, NextFacts
<1>3. CASE FetchSourceDescriptor
  <2>1. client.pc = "describe"
    BY <1>3 DEF FetchSourceDescriptor
  <2>2. CASE Settled(client, client', "error")
    BY <2>1, <2>2, <1>o DEF Busy
  <2>3. CASE Stays(client, client') /\ KeepsPre(client, client') /\ client'.pc = "head"
    BY <2>1, <2>3, <1>0 DEF Moves, Busy, Carrying
  <2> QED BY <1>3, <2>2, <2>3, FetchFacts
<1>4. CASE StatLocalFile
  <2>1. client.pc = "stat"
    BY <1>4 DEF StatLocalFile
  <2>2. Stays(client, client') /\ KeepsPre(client, client') /\ client'.pc \in {"head", "scan"}
    BY <1>4, StatFacts
  <2> QED BY <2>1, <2>2, <1>0 DEF Moves, Busy, Carrying
<1>5. CASE ScanLocalFile
  <2>1. client.pc = "scan"
    BY <1>5 DEF ScanLocalFile
  <2>2. Stays(client, client') /\ KeepsPre(client, client') /\ client'.pc \in {"scan", "put", "negotiate"}
    BY <1>5, ScanFacts
  <2> QED BY <2>1, <2>2, <1>0 DEF Moves, Busy, Carrying, Looking
<1>6. CASE HeadSyncDestination
  <2>1. client.pc = "head"
    BY <1>6 DEF HeadSyncDestination
  <2>2. CASE Settled(client, client', "conflict")
    BY <1>6, <2>1, <2>2, <1>o DEF Busy, Carrying
  <2>3. CASE Stays(client, client') /\ client'.retried = client.retried /\ client'.pc \in {"scan", "negotiate"}
    BY <2>1, <2>3, <1>0 DEF Moves, Busy, Carrying, Looking
  <2> QED BY <1>6, <2>2, <2>3, HeadFacts
<1>7. CASE NegotiateSyncMissing
  <2>1. client.pc = "negotiate"
    BY <1>7 DEF NegotiateSyncMissing
  <2> QED BY <2>1, <1>7, <1>0, NegotiateFacts DEF Moves, Keeps, Busy, Carrying, Looking
<1>8. CASE RelayChunk
  <2>1. client.pc = "relay"
    BY <1>8 DEF RelayChunk
  <2>2. \/ Settled(client, client', "error")
        \/ Keeps(client, client') /\ client'.pc = "relay"
    BY <1>8, RelayFacts
  <2>3. CASE Settled(client, client', "error")
    BY <2>1, <2>3, <1>o DEF Busy, Carrying, Looking
  <2>4. CASE Keeps(client, client') /\ client'.pc = "relay"
    BY <2>1, <2>4, <1>0 DEF Moves, Keeps, Busy, Carrying, Looking
  <2> QED BY <2>2, <2>3, <2>4
<1>9. CASE Relayed
  <2>1. client.pc = "relay"
    BY <1>9 DEF Relayed
  <2>2. Keeps(client, client') /\ client'.pc \in {"restat", "commit"}
    BY <1>9, RelayedFacts
  <2> QED BY <2>1, <2>2, <1>0 DEF Moves, Keeps, Busy, Carrying, Looking
<1>10. CASE RestatLocalFile
  <2>1. client.pc = "restat"
    BY <1>10 DEF RestatLocalFile
  <2>2. CASE Settled(client, client', "error")
    BY <2>1, <2>2, <1>o DEF Busy, Carrying, Looking
  <2>3. CASE Keeps(client, client') /\ client'.pc = "commit"
    BY <2>1, <2>3, <1>0 DEF Moves, Keeps, Busy, Carrying, Looking
  <2> QED BY <1>10, <2>2, <2>3, RestatFacts
<1>11. CASE CommitSyncObject
  <2>1. client.pc = "commit"
    BY <1>11 DEF CommitSyncObject
  <2>2. Keeps(client, client') /\ client'.pc = "wait"
    BY <1>11, CommitFacts
  <2> QED BY <2>1, <2>2, <1>0 DEF Moves, Keeps, Busy, Carrying, Looking
<1>12. CASE Recheck
  <2>1. client.pc = "recheck"
    BY <1>12 DEF Recheck
  <2>2. CASE Settled(client, client', "conflict")
    BY <1>12, <2>1, <2>2, <1>o DEF Busy, Carrying, Looking
  <2>3. CASE Stays(client, client') /\ client'.pc = "commit" /\ client'.pre = Pre(FALSE, dst[Wanted])
    <3>1. ~client'.pre.absent
      BY <2>3 DEF Pre
    <3> QED BY <2>1, <2>3, <3>1, <1>0 DEF Moves, Busy, Carrying, Looking
  <2> QED BY <1>12, <2>2, <2>3, RecheckFacts
<1>13. CASE PlainPut
  <2>1. PICK o \in {"ok", "error"} : Settled(client, client', o)
    BY <1>13, PlainPutFacts
  <2>2. client.pc \in Busy
    BY <1>13 DEF PlainPut, Busy, Carrying
  <2> QED BY <1>13, <2>1, <2>2, <1>o
<1> QED BY <1>1, <1>2, <1>3, <1>4, <1>5, <1>6, <1>7, <1>8, <1>9, <1>10, <1>11, <1>12, <1>13
    DEF ClientStep

\* What is in hand of a key that stayed the same is what the source offers.
LEMMA CarriedIsOffered ==
  ASSUME TInv, SInv, client.pc \in Looking \cup {"put"}, Wanted \in stable
  PROVE  client.rev.body = OfferedBy(Wanted, inst.mode, src, file)
<1>1. client.pc \in Busy /\ client.pc \in Carrying
  BY DEF Busy, Carrying
<1>2. Wanted = Head(client.todo) /\ Wanted \in Keys
  BY <1>1, WantedIsKey
<1>3. client.rev \in Revs /\ NoRev \notin Revs
  BY <1>1, SyncAssumption DEF TInv, ClientOK
<1>4. Carries(client, Wanted, inst.mode, src, file)
  BY <1>1, <1>2 DEF SInv, InHand
<1> QED BY <1>1, <1>3, <1>4 DEF Carries, OfferedBy

\* The command's steps keep it so.
LEMMA InHandNext ==
  ASSUME TInv, InHand(client, stable, inst.mode, src, file), ClientStep \/ RequestFails \/ KillClient
  PROVE  InHand(client', stable, inst.mode, src, file)
<1>0. client \in ClientRec /\ inst.mode \in {"sync", "replicate", "fork", "restore"}
  BY InstanceFacts DEF TInv, ClientOK
<1>b. ASSUME client'.pc \notin Busy PROVE InHand(client', stable, inst.mode, src, file)
  BY <1>b DEF InHand
<1>s. ASSUME Stays(client, client'), client.pc \in Busy,
             Wanted \in stable /\ Carries(client, Wanted, inst.mode, src, file) =>
               Carries(client', Wanted, inst.mode, src, file)
      PROVE  InHand(client', stable, inst.mode, src, file)
  <2>1. Wanted = Head(client.todo) /\ Head(client'.todo) = Wanted
    BY <1>s, WantedIsKey DEF Stays
  <2> QED BY <1>s, <2>1 DEF InHand
<1>d. ASSUME NEW o, Settled(client, client', o) PROVE InHand(client', stable, inst.mode, src, file)
  BY <1>d, <1>b DEF Settled, Busy, Carrying, Looking
<1>1. CASE NextObject
  <2>1. client'.pc \in {"stat", "describe", "end"}
    BY <1>1, NextFacts
  <2> QED BY <2>1 DEF InHand, Carries, Carrying, Looking
<1>2. CASE ListSourceObjects
  <2>1. client'.pc \in {"list", "next"}
    BY <1>2, ListFacts
  <2> QED BY <2>1, <1>b DEF Busy, Carrying, Looking
<1>3. CASE FetchSourceDescriptor
  <2>1. client.pc = "describe" /\ inst.mode # "sync" /\ "describe" \in Busy
    BY <1>3 DEF FetchSourceDescriptor, TInv, ClientOK, Busy
  <2>2. CASE Stays(client, client') /\ client'.rev = src[Wanted]
    BY <2>1, <2>2, <1>s DEF Carries
  <2> QED BY <1>3, <1>d, <2>2, FetchFacts
<1>4. CASE StatLocalFile
  <2>1. client.pc = "stat" /\ inst.mode = "sync" /\ "stat" \in Busy
    BY <1>4 DEF StatLocalFile, TInv, ClientOK, Busy
  <2>2. /\ Stays(client, client') /\ client'.rev.body = <<>> /\ client'.rev.multi = FALSE
        /\ client'.pc \in {"head", "scan"}
    BY <1>4, StatFacts
  <2>3. PrefixOf(<<>>, file[Wanted].body)
    BY <2>1, WantedIsKey DEF PrefixOf
  <2>4. Carries(client', Wanted, inst.mode, src, file)
    BY <2>1, <2>2, <2>3 DEF Carries, Looking
  <2> QED BY <2>1, <2>2, <2>4, <1>s
<1>5. CASE ScanLocalFile
  <2>1. client.pc = "scan" /\ inst.mode = "sync" /\ "scan" \in Busy /\ "scan" \in Carrying
    BY <1>5 DEF ScanLocalFile, TInv, ClientOK, Busy, Carrying
  <2> DEFINE body == file[Wanted].body
  <2>2. /\ Stays(client, client') /\ client.rev.body \in Seq(Chunks) /\ body \in Seq(Chunks)
        /\ client'.rev.multi = client.rev.multi
    BY <1>5, <2>1, ScanFacts, WantedIsKey
  <2>3. ASSUME Carries(client, Wanted, inst.mode, src, file)
        PROVE  Carries(client', Wanted, inst.mode, src, file)
    <3>1. client.rev.multi = FALSE /\ PrefixOf(client.rev.body, body)
      BY <2>1, <2>3 DEF Carries
    <3> HIDE DEF body
    <3>2. CASE /\ client'.pc = "scan" /\ Len(client.rev.body) + 1 <= Len(body)
               /\ client'.rev.body = Append(client.rev.body, body[Len(client.rev.body) + 1])
      <4>1. PrefixOf(client'.rev.body, body)
        BY <2>2, <3>1, <3>2, PrefixGrows
      <4> QED BY <2>1, <2>2, <3>1, <3>2, <4>1 DEF Carries, Looking, body
    <3>3. CASE /\ client'.pc \in {"put", "negotiate"}
               /\ Len(client.rev.body) >= Len(body) /\ client'.rev = client.rev
      <4>1. client'.rev.body = body
        BY <2>2, <3>1, <3>3, PrefixGrows
      <4> QED BY <2>1, <2>2, <3>1, <3>3, <4>1 DEF Carries, body
    <3> QED BY <1>5, <3>2, <3>3, ScanFacts DEF body
  <2> QED BY <2>1, <2>2, <2>3, <1>s
<1>6. CASE HeadSyncDestination
  <2>1. client.pc = "head" /\ "head" \in Busy /\ "head" \in Carrying
    BY <1>6 DEF HeadSyncDestination, Busy, Carrying
  <2>2. CASE /\ Stays(client, client') /\ client'.rev = client.rev
             /\ client'.pc = (IF inst.mode = "sync" THEN "scan" ELSE "negotiate")
    <3>1. PrefixOf(<<>>, file[Wanted].body)
      BY <2>1, WantedIsKey DEF PrefixOf
    <3>2. CASE inst.mode = "sync"
      BY <2>1, <2>2, <3>1, <3>2, <1>s DEF Carries, Looking
    <3>3. CASE inst.mode # "sync"
      BY <2>1, <2>2, <3>3, <1>s DEF Carries
    <3> QED BY <3>2, <3>3
  <2> QED BY <1>6, <1>d, <2>2, HeadFacts
<1>7. ASSUME Stays(client, client'), client'.rev = client.rev, client.pc \in Looking,
             client'.pc \in Looking
      PROVE  InHand(client', stable, inst.mode, src, file)
  <2>1. client.pc \in Busy /\ client.pc \in Carrying /\ client'.pc \notin {"head", "scan"}
    BY <1>7 DEF Busy, Carrying, Looking
  <2> QED BY <1>7, <2>1, <1>s DEF Carries
<1>8. CASE NegotiateSyncMissing
  <2>1. client.pc = "negotiate"
    BY <1>8 DEF NegotiateSyncMissing
  <2> QED BY <2>1, <1>7, <1>8, NegotiateFacts DEF Keeps, Looking
<1>9. CASE RelayChunk
  <2>1. \/ Settled(client, client', "error")
        \/ Keeps(client, client') /\ client'.pc = "relay" /\ client.pc = "relay"
    BY <1>9, RelayFacts
  <2> QED BY <2>1, <1>7, <1>d DEF Keeps, Looking
<1>10. CASE Relayed
  <2>1. client.pc = "relay" /\ Keeps(client, client') /\ client'.pc \in {"restat", "commit"}
    BY <1>10, RelayedFacts DEF Relayed
  <2> QED BY <2>1, <1>7 DEF Keeps, Looking
<1>11. CASE RestatLocalFile
  <2>1. client.pc = "restat"
    BY <1>11 DEF RestatLocalFile
  <2>2. CASE Keeps(client, client') /\ client'.pc = "commit"
    BY <2>1, <2>2, <1>7 DEF Keeps, Looking
  <2> QED BY <1>11, <1>d, <2>2, RestatFacts
<1>12. CASE CommitSyncObject
  <2>1. client.pc = "commit" /\ Keeps(client, client') /\ client'.pc = "wait"
    BY <1>12, CommitFacts DEF CommitSyncObject
  <2> QED BY <2>1, <1>7 DEF Keeps, Looking
<1>13. CASE Recheck
  <2>1. client.pc = "recheck"
    BY <1>13 DEF Recheck
  <2>2. CASE Stays(client, client') /\ client'.rev = client.rev /\ client'.pc = "commit"
    BY <2>1, <2>2, <1>7 DEF Looking
  <2> QED BY <1>13, <1>d, <2>2, RecheckFacts
<1>14. CASE PlainPut
  BY <1>14, <1>d, PlainPutFacts
<1>15. CASE RequestFails \/ ConnectionEnds \/ KillClient
  <2>1. CASE Dropped(client, client')
    BY <2>1, <1>b DEF Dropped, Busy, Carrying, Looking
  <2> QED BY <1>15, <2>1, <1>d, EndFacts
<1> QED BY <1>1, <1>2, <1>3, <1>4, <1>5, <1>6, <1>8, <1>9, <1>10, <1>11, <1>12, <1>13, <1>14, <1>15
    DEF ClientStep

\* What others do: what is stable, quiet or never theirs is as it was.
LEMMA OthersFacts ==
  ASSUME TInv, Others
  PROVE  /\ inst' = inst /\ client' = client /\ commits' \subseteq commits
         /\ stable' \subseteq stable /\ quiet' \subseteq quiet /\ foreign \subseteq foreign'
         /\ \A k \in Keys : k \in stable' \/ k \notin foreign' => src'[k] = src[k] /\ file'[k] = file[k]
         /\ \A k \in Keys : k \in quiet' \/ k \notin foreign' => dst'[k] = dst[k]
         /\ Keys \ foreign \subseteq stable => Keys \ foreign' \subseteq stable'
         /\ \A k \in Keys : inst.file[k] = <<>> => file'[k] = file[k]
<1>0. src \in Objects /\ dst \in Objects /\ file \in FileFns /\ inst.written \subseteq Keys
  BY InstanceFacts DEF TInv
<1>1. CASE SrcWrite
  <2>1. PICK k \in inst.written, r \in inst.revs \cup {NoRev} :
          /\ src' = [src EXCEPT ![k] = r] /\ stable' = stable \ {k} /\ foreign' = foreign \cup {k}
          /\ UNCHANGED <<inst, dst, file, client, commits, quiet>>
    BY <1>1 DEF SrcWrite
  <2>2. \A j \in Keys : j # k => src'[j] = src[j]
    BY <1>0, <2>1 DEF Objects
  <2> QED BY <2>1, <2>2
<1>2. CASE DstWrite
  <2>1. PICK k \in inst.written, r \in inst.revs \cup {NoRev} :
          /\ dst' = [dst EXCEPT ![k] = r] /\ quiet' = quiet \ {k} /\ foreign' = foreign \cup {k}
          /\ UNCHANGED <<inst, src, file, client, commits, stable>>
    BY <1>2 DEF DstWrite
  <2>2. \A j \in Keys : j # k => dst'[j] = dst[j]
    BY <1>0, <2>1 DEF Objects
  <2> QED BY <2>1, <2>2
<1>3. CASE FileWrite
  <2>1. PICK k \in FileKeys : \E body \in Rewrites(file[k].body), mtime \in 0 .. file[k].mtime + 1 :
          FileWritten(k, body, mtime)
    BY <1>3 DEF FileWrite, FileWritten
  <2>2. \A j \in Keys : j # k => file'[j] = file[j]
    BY <1>0, <2>1 DEF FileFns, FileWritten
  <2>3. inst.file[k] # <<>>
    BY DEF FileKeys
  <2>4. /\ stable' = stable \ {k} /\ foreign' = foreign \cup {k}
        /\ UNCHANGED <<inst, src, dst, client, commits, quiet>>
    BY <2>1 DEF FileWritten
  <2> QED BY <2>2, <2>3, <2>4
<1>4. CASE Rot
  BY <1>4 DEF Rot
<1>5. CASE RestartWithGC
  BY <1>5 DEF RestartWithGC
<1> QED BY <1>1, <1>2, <1>3, <1>4, <1>5 DEF Others

\* An answer keeps what is in hand, and the run.
LEMMA AnswerHands ==
  ASSUME TInv, NEW m, NEW o \in Outcomes, Answer(m, o), InHand(client, stable, inst.mode, src, file)
  PROVE  /\ InHand(client', stable, inst.mode, src, file) /\ client'.run = client.run
         /\ client'.pc # "idle" => client.pc # "idle"
<1>1. CASE client' = client
  BY <1>1
<1>2. CASE client.pc = "wait" /\ Keeps(client, client') /\ client'.pc = "recheck"
  BY <1>2 DEF Keeps, Stays, InHand, Carries, Busy, Carrying, Looking
<1>3. CASE client.pc = "wait" /\ Settled(client, client', o)
  BY <1>3 DEF Settled, InHand, Busy, Carrying, Looking
<1> QED BY <1>1, <1>2, <1>3, AnswerFacts

\* Every commit that a step of the destination leaves was there before.
LEMMA ServerFacts ==
  ASSUME TInv, ServerStep \/ CommitFails
  PROVE  /\ UNCHANGED <<inst, src, file, stable, foreign>>
         /\ \A m \in commits' : \E n \in commits :
              n.run = m.run /\ n.key = m.key /\ n.body = m.body /\ n.pre = m.pre
         /\ client' = client \/ \E m \in commits, o \in Outcomes : Answer(m, o)
<1>o. "ok" \in Outcomes /\ "error" \in Outcomes /\ "conflict" \in Outcomes
  BY DEF Outcomes
<1>1. CASE ReadBackChunks
  <2>1. PICK m \in commits :
          /\ \/ /\ UNCHANGED client
                /\ commits' = (commits \ {m}) \cup {[m EXCEPT !.checked = TRUE]}
             \/ commits' = commits \ {m} /\ Answer(m, "error")
          /\ UNCHANGED <<inst, src, file, stable, foreign>>
    BY <1>1 DEF ReadBackChunks
  <2>2. m \in CommitRec
    BY DEF TInv, CommitsOK
  <2> DEFINE n == [m EXCEPT !.checked = TRUE]
  <2>3. n.run = m.run /\ n.key = m.key /\ n.body = m.body /\ n.pre = m.pre
    BY <2>2 DEF CommitRec
  <2>4. commits' \subseteq commits \cup {n}
    BY <2>1
  <2> HIDE DEF n
  <2> QED BY <1>o, <2>1, <2>3, <2>4
<1>2. CASE CommitObjectRootChecked
  BY <1>2, <1>o DEF CommitObjectRootChecked
<1>3. CASE CommitFails
  BY <1>3, <1>o DEF CommitFails
<1> QED BY <1>1, <1>2, <1>3 DEF ServerStep

\* Initially the command has nothing.
LEMMA SInit == SyncInit => SInv
BY NewClientFacts DEF SyncInit, SInv, InHand, Bring, Busy, Carrying, Looking

\* Every step keeps commits of unchanged keys to what the source offers.
LEMMA SNext == TInv /\ SInv /\ [SyncNext]_syncVars => SInv'
<1> SUFFICES ASSUME TInv, SInv, [SyncNext]_syncVars PROVE SInv'
  OBVIOUS
<1>0. /\ client \in ClientRec /\ commits \in SUBSET CommitRec /\ stable \subseteq Keys
      /\ \A m \in commits : m.key \in Keys /\ m.run \in Nat /\ m.run <= client.run
  BY DEF TInv, ClientOK, CommitsOK, CommitRec
<1>s. /\ client.pc # "idle" => Keys \ foreign \subseteq stable
      /\ InHand(client, stable, inst.mode, src, file)
      /\ Bring(commits, client, stable, foreign, inst.mode, src, file)
  BY DEF SInv
<1>1. CASE UNCHANGED syncVars
  BY <1>1, <1>s DEF syncVars, SInv
<1>2. CASE Others
  <2>1. /\ inst' = inst /\ client' = client /\ commits' \subseteq commits
        /\ stable' \subseteq stable /\ foreign \subseteq foreign'
        /\ \A k \in Keys : k \in stable' \/ k \notin foreign' => src'[k] = src[k] /\ file'[k] = file[k]
        /\ Keys \ foreign \subseteq stable => Keys \ foreign' \subseteq stable'
    BY <1>2, OthersFacts
  <2>2. InHand(client, stable', inst.mode, src', file')
    <3> SUFFICES ASSUME client.pc \in Busy, Head(client.todo) \in stable'
                 PROVE  Carries(client, Head(client.todo), inst.mode, src', file')
      BY DEF InHand
    <3>1. Carries(client, Head(client.todo), inst.mode, src, file) /\ Head(client.todo) \in Keys
      BY <1>0, <1>s, <2>1 DEF InHand
    <3>2. src'[Head(client.todo)] = src[Head(client.todo)] /\ file'[Head(client.todo)] = file[Head(client.todo)]
      BY <2>1, <3>1
    <3> QED BY <3>1, <3>2 DEF Carries
  <2>3. Bring(commits', client, stable', foreign', inst.mode, src', file')
    <3> SUFFICES ASSUME NEW m \in commits', Current(m, client, stable', foreign')
                 PROVE  m.body = OfferedBy(m.key, inst.mode, src', file')
      BY DEF Bring
    <3>1. m \in commits /\ m.key \in Keys /\ Current(m, client, stable, foreign)
      BY <1>0, <2>1 DEF Current
    <3>2. m.body = OfferedBy(m.key, inst.mode, src, file)
      BY <1>s, <3>1 DEF Bring
    <3>3. src'[m.key] = src[m.key] /\ file'[m.key] = file[m.key]
      BY <2>1, <3>1 DEF Current
    <3> QED BY <3>2, <3>3 DEF OfferedBy
  <2> QED BY <1>s, <2>1, <2>2, <2>3 DEF SInv
<1>3. CASE StartRun
  <2>1. /\ UNCHANGED <<inst, src, file, commits, foreign>> /\ stable' = Keys
        /\ client'.run = client.run + 1 /\ client'.pc \in {"next", "list"}
    BY <1>3, StartFacts DEF StartRun
  <2>2. InHand(client', stable', inst.mode, src, file)
    BY <2>1 DEF InHand, Busy, Carrying, Looking
  <2>3. Bring(commits, client', stable', foreign, inst.mode, src, file)
    <3> SUFFICES ASSUME NEW m \in commits, Current(m, client', stable', foreign)
                 PROVE  m.body = OfferedBy(m.key, inst.mode, src, file)
      BY DEF Bring
    <3>1. m.run # client'.run
      BY <1>0, <2>1 DEF ClientRec
    <3> QED BY <1>s, <3>1 DEF Bring, Current
  <2> QED BY <2>1, <2>2, <2>3 DEF SInv
<1>4. ASSUME ClientStep \/ RequestFails \/ KillClient
      PROVE  /\ UNCHANGED <<inst, src, file, stable, foreign>> /\ client'.run = client.run /\ client.pc # "idle"
             /\ InHand(client', stable, inst.mode, src, file)
  <2>1. UNCHANGED <<inst, src, file, stable, foreign>>
    BY <1>4 DEF ClientStep, RequestFails, KillClient, ServersUnchanged, ListSourceObjects, NextObject,
       FetchSourceDescriptor, StatLocalFile, ScanLocalFile, HeadSyncDestination, NegotiateSyncMissing,
       RelayChunk, Relayed, RestatLocalFile, Recheck, PlainPut, ConnectionEnds, CommitSyncObject
  <2>2. client.pc # "idle"
    BY <1>4 DEF ClientStep, RequestFails, KillClient, ListSourceObjects, NextObject,
       FetchSourceDescriptor, StatLocalFile, ScanLocalFile, HeadSyncDestination, NegotiateSyncMissing,
       RelayChunk, Relayed, RestatLocalFile, Recheck, PlainPut, ConnectionEnds, CommitSyncObject
  <2>3. InHand(client', stable, inst.mode, src, file)
    BY <1>4, <1>s, InHandNext
  <2>4. client'.run = client.run
    <3>1. CASE ListSourceObjects
      BY <3>1, ListFacts
    <3> QED BY <1>4, <3>1, StepKinds DEF Dropped, Settled, Moves, Stays, RunEnds
  <2> QED BY <2>1, <2>2, <2>3, <2>4
<1>5. CASE CommitSyncObject
  <2>1. ClientStep
    BY <1>5 DEF ClientStep
  <2>2. /\ commits' = commits \cup {Sent} /\ Sent.run = client.run /\ Sent.key = Wanted
        /\ Sent.body = client.rev.body /\ client.pc = "commit"
    BY <1>5, CommitFacts DEF CommitSyncObject
  <2>3. Current(Sent, client', stable, foreign) => Wanted \in stable
    <3>1. Wanted \in Keys
      BY <2>2, WantedIsKey DEF Busy, Carrying, Looking
    <3> QED BY <1>s, <1>4, <2>1, <2>2, <3>1 DEF Current
  <2>4. Wanted \in stable => Sent.body = OfferedBy(Wanted, inst.mode, src, file)
    BY <2>2, CarriedIsOffered DEF Looking
  <2>5. Bring(commits', client', stable, foreign, inst.mode, src, file)
    BY <1>s, <1>4, <2>1, <2>2, <2>3, <2>4 DEF Bring, Current
  <2> QED BY <1>s, <1>4, <2>1, <2>5 DEF SInv
<1>6. CASE (ClientStep \/ RequestFails \/ KillClient) /\ ~CommitSyncObject
  <2>1. commits' = commits
    BY <1>6 DEF ClientStep, RequestFails, KillClient, ServersUnchanged, ListSourceObjects, NextObject,
       FetchSourceDescriptor, StatLocalFile, ScanLocalFile, HeadSyncDestination, NegotiateSyncMissing,
       RelayChunk, Relayed, RestatLocalFile, Recheck, PlainPut, ConnectionEnds
  <2>2. Bring(commits', client', stable, foreign, inst.mode, src, file)
    BY <1>s, <1>4, <1>6, <2>1 DEF Bring, Current
  <2> QED BY <1>s, <1>4, <1>6, <2>2 DEF SInv
<1>7. CASE ServerStep \/ CommitFails
  <2>1. /\ UNCHANGED <<inst, src, file, stable, foreign>>
        /\ \A m \in commits' : \E n \in commits : n.run = m.run /\ n.key = m.key /\ n.body = m.body
    BY <1>7, ServerFacts
  <2>2. /\ InHand(client', stable, inst.mode, src, file) /\ client'.run = client.run
        /\ client'.pc # "idle" => client.pc # "idle"
    BY <1>7, <1>s, ServerFacts, AnswerHands
  <2>3. Bring(commits', client', stable, foreign, inst.mode, src, file)
    BY <1>s, <2>1, <2>2 DEF Bring, Current
  <2> QED BY <1>s, <2>1, <2>2, <2>3 DEF SInv
<1> QED BY <1>1, <1>2, <1>3, <1>5, <1>6, <1>7 DEF SyncNext

\* An object that is settled leaves the list and has its result.
LEMMA SettledCovers ==
  ASSUME NEW old \in ClientRec, NEW new, NEW o, Settled(old, new, o), old.todo # <<>>, NEW keys,
         Covered(old, keys)
  PROVE  Covered(new, keys)
<1> SUFFICES ASSUME NEW k \in keys
             PROVE  (\E i \in DOMAIN new.todo : new.todo[i] = k) \/ (\E r \in new.results : r[1] = k)
  BY DEF Covered
<1>1. /\ new.todo = Tail(old.todo) /\ new.results = old.results \cup {<<Head(old.todo), o>>}
      /\ old.todo \in Seq(Keys)
  BY DEF Settled, ClientRec
<1>2. CASE \E r \in old.results : r[1] = k
  BY <1>1, <1>2
<1>3. CASE \E i \in DOMAIN old.todo : old.todo[i] = k
  <2>1. PICK i \in DOMAIN old.todo : old.todo[i] = k
    BY <1>3
  <2>2. CASE i = 1
    <3>1. <<Head(old.todo), o>>[1] = k /\ <<Head(old.todo), o>> \in new.results
      BY <1>1, <2>1, <2>2
    <3> QED BY <3>1
  <2>3. CASE i # 1
    <3>1. i - 1 \in DOMAIN Tail(old.todo) /\ Tail(old.todo)[i - 1] = old.todo[i]
      BY <1>1, <2>1, <2>3
    <3> QED BY <1>1, <2>1, <3>1
  <2> QED BY <2>2, <2>3
<1> QED BY <1>2, <1>3 DEF Covered

\* A page covers the keys up to its end.
LEMMA ListCovers ==
  ASSUME TInv, ListSourceObjects, Progress(client, ToBring(stable, inst.mode, src, file))
  PROVE  Progress(client', ToBring(stable, inst.mode, src, file))
<1> DEFINE keys == ToBring(stable, inst.mode, src, file)
           live == {k \in Keys : src[k] # NoRev}
<1>0. client.pc = "list" /\ inst.mode # "sync" /\ client \in ClientRec
  BY DEF ListSourceObjects, TInv, ClientOK
<1>1. PICK page, more :
           /\ KeysOK(more, page, live, client.cursor) /\ more \in Seq(Keys)
           /\ client'.ok = client.ok /\ client'.results = client.results
           /\ client'.todo = client.todo \o more
           /\ client'.pc = (IF page.truncated THEN "list" ELSE "next")
           /\ page.truncated => client'.cursor = Key(page.last)
  BY ListFacts
<1>2. keys \subseteq live /\ live \subseteq Nat
  <2>1. \A k \in keys : k \in stable /\ OfferedBy(k, inst.mode, src, file) # <<>>
    BY DEF ToBring
  <2>2. \A k \in keys : k \in Keys /\ src[k] # NoRev
    BY <1>0, <2>1 DEF TInv, OfferedBy
  <2> QED BY <2>2, PrefixAssumption
<1>3. Covered(client, {k \in keys : k <= client.cursor}) /\ ~client.ok
  BY <1>0 DEF Progress
<1>4. /\ page.truncated \in BOOLEAN /\ Key(page.last) \in Nat
      /\ \A k \in live : k > client.cursor /\ (page.truncated => k <= Key(page.last)) =>
           \E i \in DOMAIN more : more[i] = k
  BY <1>1 DEF KeysOK
<1> HIDE DEF keys, live
<1>5. ASSUME NEW k \in keys, page.truncated => k <= Key(page.last)
      PROVE  (\E i \in DOMAIN client'.todo : client'.todo[i] = k) \/ (\E r \in client'.results : r[1] = k)
  <2>0. client.todo \in Seq(Keys) /\ more \in Seq(Keys) /\ k \in Nat /\ client.cursor \in Nat
        /\ client'.todo = client.todo \o more
    BY <1>0, <1>1, <1>2 DEF ClientRec
  <2>1. CASE \E i \in DOMAIN client.todo : client.todo[i] = k
    <3>1. PICK i \in DOMAIN client.todo : client.todo[i] = k
      BY <2>1
    <3>2. i \in DOMAIN client'.todo /\ client'.todo[i] = k
      BY <2>0, <3>1
    <3> QED BY <3>2
  <2>2. CASE \E i \in DOMAIN more : more[i] = k
    <3>1. PICK i \in DOMAIN more : more[i] = k
      BY <2>2
    <3>2. i + Len(client.todo) \in DOMAIN client'.todo /\ client'.todo[i + Len(client.todo)] = k
      BY <2>0, <3>1
    <3> QED BY <3>2
  <2>3. CASE \E r \in client.results : r[1] = k
    BY <1>1, <2>3
  <2>4. CASE k > client.cursor
    BY <1>2, <1>4, <1>5, <2>2, <2>4
  <2>5. CASE k <= client.cursor
    BY <1>3, <2>1, <2>3, <2>5 DEF Covered
  <2> QED BY <2>0, <2>4, <2>5
<1>6. CASE page.truncated
  <2>1. client'.pc = "list" /\ client'.cursor = Key(page.last)
    BY <1>1, <1>6
  <2>2. Covered(client', {k \in keys : k <= client'.cursor})
    BY <1>5, <2>1 DEF Covered
  <2> QED BY <1>1, <1>3, <2>1, <2>2 DEF Progress, Busy, Carrying, Looking, keys
<1>7. CASE ~page.truncated
  <2>1. client'.pc = "next"
    BY <1>1, <1>7
  <2>2. Covered(client', keys)
    BY <1>5, <1>7 DEF Covered
  <2> QED BY <1>1, <1>3, <2>1, <2>2 DEF Progress, Busy, Carrying, Looking, keys
<1> QED BY <1>4, <1>6, <1>7

\* The steps of the command keep every key listed or settled.
LEMMA ProgressNext ==
  ASSUME TInv, Progress(client, ToBring(stable, inst.mode, src, file)),
         ClientStep \/ RequestFails \/ KillClient
  PROVE  Progress(client', ToBring(stable, inst.mode, src, file))
<1> DEFINE keys == ToBring(stable, inst.mode, src, file)
<1> HIDE DEF keys
<1>0. client \in ClientRec /\ (client.pc \in Busy => client.todo # <<>>) /\ Progress(client, keys)
  BY DEF TInv, ClientOK, keys
<1>1. CASE Dropped(client, client')
  BY <1>1 DEF Dropped, Progress, Busy, Carrying, Looking
<1>2. CASE client.pc \in Busy /\ \E o \in Outcomes : Settled(client, client', o)
  <2>1. Covered(client, keys)
    BY <1>0, <1>2 DEF Progress
  <2>2. Covered(client', keys)
    BY <1>0, <1>2, <2>1, SettledCovers
  <2>3. client'.pc = "next" /\ ~client'.ok
    BY <1>2 DEF Settled
  <2> QED BY <2>2, <2>3 DEF Progress, keys
<1>3. CASE Moves(client, client')
  <2>1. /\ client.pc \in Busy \cup {"next"} /\ client'.pc \in Busy /\ client.pc # "end" /\ client'.pc # "list"
        /\ client'.todo = client.todo /\ client'.results = client.results /\ client'.ok = client.ok
    BY <1>3 DEF Moves, Stays, Busy, Carrying, Looking
  <2>2. Covered(client, keys) /\ ~client.ok
    BY <1>0, <2>1 DEF Progress
  <2>3. Covered(client', keys)
    BY <2>1, <2>2 DEF Covered
  <2> QED BY <2>1, <2>2, <2>3 DEF Progress, keys
<1>4. CASE RunEnds(client, client')
  <2>1. /\ client.pc = "next" /\ client'.pc = "end" /\ client.todo = <<>>
        /\ client'.todo = client.todo /\ client'.results = client.results
        /\ client'.ok => \A r \in client.results : r[2] = "ok"
    BY <1>4 DEF RunEnds
  <2>2. Covered(client, keys)
    BY <1>0, <2>1 DEF Progress
  <2>3. Covered(client', keys)
    BY <2>1, <2>2 DEF Covered
  <2> QED BY <2>1, <2>3 DEF Progress, keys, Busy, Carrying, Looking
<1> QED BY <1>1, <1>2, <1>3, <1>4, StepKinds, ListCovers

\* A walk of the files lists all there is to send.
LEMMA StartCovers ==
  ASSUME TInv, RInv, StartRun
  PROVE  Progress(client', ToBring(stable', inst.mode, src, file))
<1> DEFINE keys == ToBring(stable', inst.mode, src, file)
<1>0. /\ client' \in ClientRec /\ client'.cursor = 0 /\ ~client'.ok
      /\ client'.pc = (IF inst.mode = "sync" THEN "next" ELSE "list")
      /\ IF inst.mode = "sync" THEN client'.todo \in Walked ELSE client'.todo = <<>>
      /\ stable' = Keys
  BY StartFacts DEF StartRun
<1>1. \A k \in keys : k \in Keys /\ OfferedBy(k, inst.mode, src, file) # <<>>
  BY <1>0 DEF ToBring
<1>2. \A k \in Keys : k \in Nat /\ k > 0
  BY PrefixAssumption
<1> HIDE DEF keys
<1>3. CASE inst.mode = "sync"
  <2>1. \A k \in keys : k \in FileKeys
    BY <1>1, <1>3 DEF RInv, OfferedBy, FileKeys
  <2>2. FileKeys \subseteq Range(client'.todo)
    BY <1>0, <1>3 DEF Walked
  <2>3. Covered(client', keys)
    BY <2>1, <2>2 DEF Covered, Range
  <2> QED BY <1>0, <1>3, <2>3 DEF Progress, keys
<1>4. CASE inst.mode # "sync"
  <2>1. {k \in keys : k <= client'.cursor} = {}
    BY <1>0, <1>1, <1>2
  <2>2. Covered(client', {k \in keys : k <= client'.cursor})
    BY <2>1 DEF Covered
  <2> QED BY <1>0, <1>4, <2>2 DEF Progress, keys, Busy, Carrying, Looking
<1> QED BY <1>3, <1>4

\* An answer keeps every key listed or settled.
LEMMA AnswerCovers ==
  ASSUME TInv, NEW m, NEW o \in Outcomes, Answer(m, o), NEW keys, Progress(client, keys)
  PROVE  Progress(client', keys)
<1>1. CASE client' = client
  BY <1>1
<1>2. CASE client.pc = "wait" /\ Keeps(client, client') /\ client'.pc = "recheck"
  <2>1. /\ client'.todo = client.todo /\ client'.results = client.results /\ client'.ok = client.ok
        /\ "wait" \in Busy
    BY <1>2 DEF Keeps, Stays, Busy, Carrying, Looking
  <2>2. Covered(client, keys) /\ ~client.ok
    BY <1>2, <2>1 DEF Progress
  <2>3. Covered(client', keys)
    BY <2>1, <2>2 DEF Covered
  <2> QED BY <1>2, <2>1, <2>2, <2>3 DEF Progress
<1>3. CASE client.pc = "wait" /\ Settled(client, client', o)
  <2>1. client \in ClientRec /\ client.todo # <<>> /\ "wait" \in Busy
    BY <1>3 DEF TInv, ClientOK, Busy, Carrying, Looking
  <2>2. Covered(client, keys)
    BY <1>3, <2>1 DEF Progress
  <2>3. Covered(client', keys)
    BY <1>3, <2>1, <2>2, SettledCovers
  <2>4. client'.pc = "next" /\ ~client'.ok
    BY <1>3 DEF Settled
  <2> QED BY <2>3, <2>4 DEF Progress
<1> QED BY <1>1, <1>2, <1>3, AnswerFacts

\* Initially there are no results.
LEMMA RInit == SyncInit => RInv
<1> SUFFICES ASSUME SyncInit PROVE RInv
  OBVIOUS
<1>1. /\ client = NewClient /\ stable = {} /\ \A k \in Keys : file[k].body = inst.file[k]
  BY DEF SyncInit
<1>2. Progress(client, ToBring(stable, inst.mode, src, file))
  BY <1>1, NewClientFacts DEF Progress, Busy, Carrying, Looking
<1>3. Honest(client.results, stable \cap quiet, dst, inst.mode, src, file)
  BY <1>1, NewClientFacts DEF Honest
<1> QED BY <1>1, <1>2, <1>3 DEF RInv

\* The results of a step of the command are those it had, one that is not ok,
\* or the one of a plain PUT.
LEMMA ResultsNext ==
  ASSUME TInv, ClientStep \/ RequestFails \/ KillClient
  PROVE  \A r \in client'.results : r \in client.results \/ r[2] # "ok" \/ (PlainPut /\ r[1] = Wanted)
<1> SUFFICES ASSUME NEW r \in client'.results, r \notin client.results
             PROVE  r[2] # "ok" \/ (PlainPut /\ r[1] = Wanted)
  OBVIOUS
<1>1. CASE Dropped(client, client')
  BY <1>1 DEF Dropped
<1>2. CASE \E o \in Outcomes : Settled(client, client', o) /\ (o = "ok" => PlainPut)
  <2>1. PICK o \in Outcomes : Settled(client, client', o) /\ (o = "ok" => PlainPut)
    BY <1>2
  <2>2. r = <<Head(client.todo), o>>
    BY <2>1 DEF Settled
  <2>3. r[1] = Wanted /\ r[2] = o
    BY <2>2 DEF Wanted
  <2> QED BY <2>1, <2>3
<1>3. CASE Moves(client, client') \/ RunEnds(client, client')
  BY <1>3 DEF Moves, RunEnds, Stays
<1>4. CASE ListSourceObjects
  BY <1>4, ListFacts
<1> QED BY <1>1, <1>2, <1>3, <1>4, StepKinds

\* Every step keeps the results true.
LEMMA RNext == TInv /\ SInv /\ RInv /\ [SyncNext]_syncVars => RInv'
<1> SUFFICES ASSUME TInv, SInv, RInv, [SyncNext]_syncVars PROVE RInv'
  OBVIOUS
<1>0. /\ dst \in Objects /\ stable \subseteq Keys /\ commits \in SUBSET CommitRec
      /\ NoRev \notin Revs /\ client \in ClientRec
  BY SyncAssumption DEF TInv, ClientOK, CommitsOK
<1>r. /\ \A k \in Keys : inst.file[k] = <<>> => file[k].body = <<>>
      /\ Progress(client, ToBring(stable, inst.mode, src, file))
      /\ Honest(client.results, stable \cap quiet, dst, inst.mode, src, file)
  BY DEF RInv
<1>1. CASE UNCHANGED syncVars
  BY <1>1, <1>r DEF syncVars, RInv
<1>2. CASE Others
  <2>1. /\ inst' = inst /\ client' = client /\ stable' \subseteq stable /\ quiet' \subseteq quiet
        /\ \A k \in Keys : k \in stable' => src'[k] = src[k] /\ file'[k] = file[k]
        /\ \A k \in Keys : k \in quiet' => dst'[k] = dst[k]
        /\ \A k \in Keys : inst.file[k] = <<>> => file'[k] = file[k]
    BY <1>2, OthersFacts
  <2>2. \A k \in stable' : OfferedBy(k, inst.mode, src', file') = OfferedBy(k, inst.mode, src, file)
    BY <1>0, <2>1 DEF OfferedBy
  <2>3. ToBring(stable', inst.mode, src', file') \subseteq ToBring(stable, inst.mode, src, file)
    BY <2>1, <2>2 DEF ToBring
  <2>4. Progress(client, ToBring(stable', inst.mode, src', file'))
    BY <1>r, <2>3 DEF Progress, Covered
  <2>5. Honest(client.results, stable' \cap quiet', dst', inst.mode, src', file')
    <3> SUFFICES ASSUME NEW r \in client.results, r[2] = "ok", r[1] \in stable' \cap quiet'
                 PROVE  Brought(r[1], dst', inst.mode, src', file')
      BY DEF Honest
    <3>1. Brought(r[1], dst, inst.mode, src, file)
      BY <1>r, <2>1 DEF Honest
    <3>2. dst'[r[1]] = dst[r[1]]
      BY <1>0, <2>1
    <3> QED BY <2>2, <3>1, <3>2 DEF Brought
  <2> QED BY <1>r, <2>1, <2>4, <2>5 DEF RInv
<1>3. CASE StartRun
  <2>1. UNCHANGED <<inst, src, file>> /\ client'.results = {}
    BY <1>3, StartFacts DEF StartRun
  <2>2. Progress(client', ToBring(stable', inst.mode, src, file))
    BY <1>3, StartCovers
  <2>3. Honest(client'.results, stable' \cap quiet', dst', inst.mode, src, file)
    BY <2>1 DEF Honest
  <2> QED BY <1>r, <2>1, <2>2, <2>3 DEF RInv
<1>4. CASE ClientStep \/ RequestFails \/ KillClient
  <2>1. UNCHANGED <<inst, src, file, stable, quiet>>
    BY <1>4 DEF ClientStep, RequestFails, KillClient, ServersUnchanged, ListSourceObjects, NextObject,
       FetchSourceDescriptor, StatLocalFile, ScanLocalFile, HeadSyncDestination, NegotiateSyncMissing,
       RelayChunk, Relayed, RestatLocalFile, Recheck, PlainPut, ConnectionEnds, CommitSyncObject
  <2>2. Progress(client', ToBring(stable, inst.mode, src, file))
    BY <1>4, <1>r, ProgressNext
  <2>3. CASE PlainPut
    <3>1. dst' = [dst EXCEPT ![Wanted] = client.rev] /\ client.pc = "put"
      BY <2>3 DEF PlainPut
    <3>2. Wanted \in Keys /\ client.rev \in Revs
      BY <3>1, WantedIsKey DEF TInv, ClientOK, Busy, Carrying
    <3>3. dst'[Wanted] = client.rev /\ \A k \in Keys : k # Wanted => dst'[k] = dst[k]
      BY <1>0, <3>1, <3>2 DEF Objects
    <3>4. Wanted \in stable => Brought(Wanted, dst', inst.mode, src, file)
      BY <1>0, <3>1, <3>2, <3>3, CarriedIsOffered DEF Brought
    <3>5. Honest(client'.results, stable \cap quiet, dst', inst.mode, src, file)
      <4> SUFFICES ASSUME NEW r \in client'.results, r[2] = "ok", r[1] \in stable \cap quiet
                   PROVE  Brought(r[1], dst', inst.mode, src, file)
        BY DEF Honest
      <4>1. CASE r[1] = Wanted
        BY <3>4, <4>1
      <4>2. CASE r[1] # Wanted
        <5>1. r \in client.results
          BY <1>4, <4>2, ResultsNext
        <5>2. Brought(r[1], dst, inst.mode, src, file)
          BY <5>1, <1>r DEF Honest
        <5>3. dst'[r[1]] = dst[r[1]]
          BY <1>0, <3>3, <4>2
        <5> QED BY <5>2, <5>3 DEF Brought
      <4> QED BY <4>1, <4>2
    <3> QED BY <1>r, <2>1, <2>2, <3>5 DEF RInv
  <2>4. CASE ~PlainPut
    <3>1. dst' = dst
      BY <1>4, <2>4 DEF ClientStep, RequestFails, KillClient, ServersUnchanged, ListSourceObjects, NextObject,
         FetchSourceDescriptor, StatLocalFile, ScanLocalFile, HeadSyncDestination, NegotiateSyncMissing,
         RelayChunk, Relayed, RestatLocalFile, Recheck, ConnectionEnds, CommitSyncObject
    <3>2. Honest(client'.results, stable \cap quiet, dst', inst.mode, src, file)
      BY <1>4, <1>r, <2>4, <3>1, ResultsNext DEF Honest
    <3> QED BY <1>r, <2>1, <2>2, <3>2 DEF RInv
  <2> QED BY <2>3, <2>4
<1>5. ASSUME NEW m \in commits, NEW o \in Outcomes, Answer(m, o), o # "ok",
             UNCHANGED <<inst, src, dst, file, stable, quiet>>
      PROVE  RInv'
  <2>1. Progress(client', ToBring(stable, inst.mode, src, file))
    BY <1>5, <1>r, AnswerCovers
  <2>2. \A r \in client'.results : r \in client.results \/ r[2] # "ok"
    BY <1>5, AnswerFacts DEF Keeps, Stays, Settled
  <2>3. Honest(client'.results, stable \cap quiet, dst, inst.mode, src, file)
    BY <1>r, <2>2 DEF Honest
  <2> QED BY <1>r, <1>5, <2>1, <2>3 DEF RInv
<1>o. "ok" \in Outcomes /\ "error" \in Outcomes /\ "conflict" \in Outcomes
  BY DEF Outcomes
<1>6. CASE ReadBackChunks
  <2>1. PICK m \in commits :
          /\ client' = client \/ Answer(m, "error")
          /\ UNCHANGED <<inst, src, dst, file, stable, quiet>>
    BY <1>6 DEF ReadBackChunks
  <2> QED BY <1>o, <1>r, <1>5, <2>1 DEF RInv
<1>7. CASE CommitFails
  <2>1. PICK m \in commits : Answer(m, "error") /\ UNCHANGED <<inst, src, dst, file, stable, quiet>>
    BY <1>7 DEF CommitFails
  <2> QED BY <1>o, <1>5, <2>1
<1>8. CASE CommitObjectRootChecked
  <2>1. PICK m \in commits :
          /\ UNCHANGED <<inst, src, file, stable>>
          /\ \/ /\ dst' = [dst EXCEPT ![m.key] = Rev(m.body, FALSE)]
                /\ quiet' = IF m.run = client.run THEN quiet ELSE quiet \ {m.key}
                /\ Answer(m, "ok")
             \/ UNCHANGED <<dst, quiet>> /\ Answer(m, "conflict")
    BY <1>8 DEF CommitObjectRootChecked
  <2>2. CASE UNCHANGED <<dst, quiet>> /\ Answer(m, "conflict")
    BY <1>o, <1>5, <2>1, <2>2
  <2>3. CASE /\ dst' = [dst EXCEPT ![m.key] = Rev(m.body, FALSE)]
             /\ quiet' = IF m.run = client.run THEN quiet ELSE quiet \ {m.key}
             /\ Answer(m, "ok")
    <3>1. m.key \in Keys /\ Rev(m.body, FALSE) \in Revs /\ Rev(m.body, FALSE).body = m.body
      BY <1>0 DEF CommitRec, Rev, Revs
    <3>2. dst'[m.key] = Rev(m.body, FALSE) /\ \A k \in Keys : k # m.key => dst'[k] = dst[k]
      BY <1>0, <2>3, <3>1 DEF Objects
    <3>3. m.key \in stable \cap quiet' => Brought(m.key, dst', inst.mode, src, file)
      <4> SUFFICES ASSUME m.key \in stable \cap quiet' PROVE Brought(m.key, dst', inst.mode, src, file)
        OBVIOUS
      <4>1. m.run = client.run
        BY <2>3
      <4>2. m.body = OfferedBy(m.key, inst.mode, src, file)
        BY <4>1 DEF SInv, Bring, Current
      <4> QED BY <1>0, <3>1, <3>2, <4>2 DEF Brought
    <3>4. \A r \in client'.results : r \in client.results \/ r[1] = m.key
      <4>1. CASE Waiting(m) /\ Settled(client, client', "ok")
        <5>1. Head(client.todo) = m.key /\ client'.results = client.results \cup {<<Head(client.todo), "ok">>}
          BY <4>1 DEF Waiting, Wanted, Settled
        <5> QED BY <5>1
      <4>2. CASE client' = client \/ Keeps(client, client')
        BY <4>2 DEF Keeps, Stays
      <4> QED BY <1>o, <2>3, <4>1, <4>2, AnswerFacts
    <3>5. Honest(client'.results, stable \cap quiet', dst', inst.mode, src, file)
      <4> SUFFICES ASSUME NEW r \in client'.results, r[2] = "ok", r[1] \in stable \cap quiet'
                   PROVE  Brought(r[1], dst', inst.mode, src, file)
        BY DEF Honest
      <4>1. CASE r[1] = m.key
        BY <3>3, <4>1
      <4>2. CASE r[1] # m.key
        <5>1. Brought(r[1], dst, inst.mode, src, file)
          BY <1>r, <2>3, <3>4, <4>2 DEF Honest
        <5>2. dst'[r[1]] = dst[r[1]]
          BY <1>0, <3>2, <4>2
        <5> QED BY <5>1, <5>2 DEF Brought
      <4> QED BY <4>1, <4>2
    <3>6. Progress(client', ToBring(stable, inst.mode, src, file))
      BY <1>o, <1>r, <2>3, AnswerCovers
    <3> QED BY <1>r, <2>1, <3>5, <3>6 DEF RInv
  <2> QED BY <2>1, <2>2, <2>3
<1> QED BY <1>1, <1>2, <1>3, <1>4, <1>6, <1>7, <1>8 DEF SyncNext, ServerStep

\* What the command has in hand, in every reachable state.
LEMMA Steady == SyncSpec => []SInv
BY SInit, SNext, Typed, PTL DEF SyncSpec

\* A run that reports success has brought every key that stayed the same at
\* the source and that nobody else wrote at the destination (OKMeansReplicated):
\* its listing passes over none (listSourceObjects, discoverSyncFiles), and ok
\* is only said of what a commit or a PUT has just made the destination show.
THEOREM SuccessIsComplete == SyncSpec => []OKMeansReplicated
<1>1. TInv /\ RInv => OKMeansReplicated
  <2> SUFFICES ASSUME TInv, RInv, client.pc = "end", client.ok, NEW k \in stable \cap quiet, Offered(k) # <<>>
               PROVE  dst[k] # NoRev /\ dst[k].body = Offered(k)
    BY DEF OKMeansReplicated
  <2>1. OfferedBy(k, inst.mode, src, file) = Offered(k)
    BY DEF OfferedBy, Offered
  <2>2. k \in ToBring(stable, inst.mode, src, file)
    BY <2>1 DEF ToBring
  <2>3. PICK r \in client.results : r[1] = k /\ r[2] = "ok"
    BY <2>2 DEF RInv, Progress, Covered
  <2>4. Brought(k, dst, inst.mode, src, file)
    BY <2>3 DEF RInv, Honest
  <2> QED BY <2>1, <2>4 DEF Brought
<1>2. SyncSpec => []RInv
  BY RInit, RNext, Typed, Steady, PTL DEF SyncSpec
<1> QED BY <1>1, <1>2, Typed, PTL
-----------------------------------------------------------------------------
(* What a conflict means.                                                  *)

\* The list stays in order when its first key is taken off, or a page is
\* added.
LEMMA TailInOrder ==
  ASSUME NEW s \in Seq(Keys), s # <<>>, InOrder(s)
  PROVE  /\ InOrder(Tail(s)) /\ Tail(s) \in Seq(Keys)
         /\ \A i \in DOMAIN Tail(s) : i + 1 \in DOMAIN s /\ Tail(s)[i] = s[i + 1] /\ i \in Nat \ {0}
<1>1. /\ Tail(s) \in Seq(Keys)
      /\ \A i \in DOMAIN Tail(s) : i + 1 \in DOMAIN s /\ Tail(s)[i] = s[i + 1] /\ i \in Nat \ {0}
  OBVIOUS
<1>2. ASSUME NEW i \in DOMAIN Tail(s), NEW j \in DOMAIN Tail(s), i < j PROVE Tail(s)[i] < Tail(s)[j]
  <2>1. i + 1 \in DOMAIN s /\ j + 1 \in DOMAIN s /\ i + 1 < j + 1
    BY <1>1, <1>2
  <2> QED BY <1>1, <2>1 DEF InOrder
<1> QED BY <1>1, <1>2 DEF InOrder
\* A page of later keys is added at the end.
LEMMA ConcatInOrder ==
  ASSUME NEW s \in Seq(Keys), NEW t \in Seq(Keys), NEW n \in Nat, InOrder(s), InOrder(t),
         \A i \in DOMAIN s : s[i] <= n, \A i \in DOMAIN t : t[i] > n
  PROVE  /\ InOrder(s \o t)
         /\ \A i \in DOMAIN (s \o t) : \/ i \in DOMAIN s /\ (s \o t)[i] = s[i]
                                       \/ \E j \in DOMAIN t : (s \o t)[i] = t[j]
<1>0. Keys \subseteq Nat
  BY PrefixAssumption
<1> DEFINE u == s \o t
<1>1. Len(s) \in Nat /\ Len(t) \in Nat /\ DOMAIN s = 1 .. Len(s) /\ DOMAIN t = 1 .. Len(t)
      /\ DOMAIN u = 1 .. (Len(s) + Len(t))
  OBVIOUS
<1>2. /\ \A i \in 1 .. Len(s) : u[i] = s[i]
      /\ \A i \in (Len(s) + 1) .. (Len(s) + Len(t)) : i - Len(s) \in DOMAIN t /\ u[i] = t[i - Len(s)]
  BY <1>1
<1>3. (\A i \in DOMAIN s : s[i] \in Nat) /\ (\A i \in DOMAIN t : t[i] \in Nat)
  <2>1. (\A i \in DOMAIN s : s[i] \in Keys) /\ (\A i \in DOMAIN t : t[i] \in Keys)
    OBVIOUS
  <2> QED BY <1>0, <2>1
<1> HIDE DEF u
<1>4. ASSUME NEW i \in DOMAIN u, NEW j \in DOMAIN u, i < j PROVE u[i] < u[j]
  <2>1. CASE j <= Len(s)
    BY <1>1, <1>2, <1>4, <2>1 DEF InOrder
  <2>2. CASE i > Len(s)
    <3>1. i - Len(s) \in DOMAIN t /\ j - Len(s) \in DOMAIN t /\ i - Len(s) < j - Len(s)
          /\ u[i] = t[i - Len(s)] /\ u[j] = t[j - Len(s)]
      BY <1>1, <1>2, <1>4, <2>2
    <3> QED BY <3>1 DEF InOrder
  <2>3. CASE i <= Len(s) /\ j > Len(s)
    <3>1. i \in DOMAIN s /\ u[i] = s[i] /\ j - Len(s) \in DOMAIN t /\ u[j] = t[j - Len(s)]
      BY <1>1, <1>2, <2>3
    <3> QED BY <1>3, <3>1
  <2> QED BY <1>1, <2>1, <2>2, <2>3
<1>5. ASSUME NEW i \in DOMAIN u
      PROVE  \/ i \in DOMAIN s /\ u[i] = s[i]
             \/ \E j \in DOMAIN t : u[i] = t[j]
  <2>1. i \in Int /\ 1 <= i /\ i <= Len(s) + Len(t)
    BY <1>1, <1>5
  <2>2. CASE i <= Len(s)
    <3>1. i \in 1 .. Len(s)
      BY <1>1, <2>1, <2>2
    <3> QED BY <1>1, <1>2, <3>1
  <2>3. CASE i > Len(s)
    <3>1. i \in (Len(s) + 1) .. (Len(s) + Len(t))
      BY <1>1, <2>1, <2>3
    <3> QED BY <1>2, <3>1
  <2> QED BY <1>1, <2>1, <2>2, <2>3
<1>6. InOrder(u)
  BY <1>4 DEF InOrder
<1> QED BY <1>5, <1>6 DEF u

\* A settled object was the first of the list.
LEMMA SettledAwaits ==
  ASSUME NEW old \in ClientRec, NEW new, NEW o, Settled(old, new, o), old.todo # <<>>,
         InOrder(old.todo), NEW cs, Awaited(old, cs)
  PROVE  InOrder(new.todo) /\ Awaited(new, cs) /\ Retries(new)
<1>1. new.todo = Tail(old.todo) /\ new.run = old.run /\ new.pc = "next" /\ ~new.retried /\ old.todo \in Seq(Keys)
  BY DEF Settled, ClientRec
<1>2. /\ InOrder(Tail(old.todo))
      /\ \A i \in DOMAIN Tail(old.todo) : /\ i + 1 \in DOMAIN old.todo /\ i \in Nat \ {0}
                                          /\ Tail(old.todo)[i] = old.todo[i + 1]
  BY <1>1, TailInOrder
<1>3. ASSUME NEW m \in cs, m.run = new.run, NEW i \in DOMAIN new.todo, m.key = new.todo[i] PROVE FALSE
  <2>1. i + 1 \in DOMAIN old.todo /\ m.key = old.todo[i + 1] /\ i + 1 # 1
    BY <1>1, <1>2, <1>3
  <2> QED BY <1>1, <1>3, <2>1 DEF Awaited
<1>4. Awaited(new, cs)
  BY <1>1, <1>3 DEF Awaited
<1> QED BY <1>1, <1>2, <1>4 DEF Retries

\* The order holds initially.
LEMMA QInit == SyncInit => QInv
<1> SUFFICES ASSUME SyncInit PROVE QInv
  OBVIOUS
<1>1. client = NewClient /\ commits = {}
  BY DEF SyncInit
<1>2. DOMAIN NewClient.todo = {}
  BY NewClientFacts
<1> QED BY <1>1, <1>2, NewClientFacts DEF QInv, InOrder, Retries, Awaited, OneEach

\* Without new commits the command's steps keep the order.
QClient(cl, cs) ==
  /\ InOrder(cl.todo) /\ Retries(cl) /\ Awaited(cl, cs)
  /\ cl.pc = "list" => \A i \in DOMAIN cl.todo : cl.todo[i] <= cl.cursor
\* A page is of keys beyond all those listed.
LEMMA QList ==
  ASSUME TInv, QInv, ListSourceObjects
  PROVE  QClient(client', commits)
<1>0. client.pc = "list" /\ client \in ClientRec
  BY DEF ListSourceObjects, TInv, ClientOK
<1>1. PICK page, more :
           /\ KeysOK(more, page, {k \in Keys : src[k] # NoRev}, client.cursor) /\ more \in Seq(Keys)
           /\ KeepsPre(client, client') /\ client'.run = client.run
           /\ client'.todo = client.todo \o more
           /\ client'.pc = (IF page.truncated THEN "list" ELSE "next")
           /\ page.truncated => client'.cursor = Key(page.last)
  BY ListFacts
<1>2. /\ client.todo \in Seq(Keys) /\ client.cursor \in Nat /\ InOrder(client.todo)
      /\ \A i \in DOMAIN client.todo : client.todo[i] <= client.cursor
  BY <1>0 DEF QInv, ClientRec
<1>3. /\ InOrder(more) /\ \A i \in DOMAIN more : more[i] > client.cursor
      /\ Key(page.last) \in Nat
      /\ page.truncated => Key(page.last) > client.cursor /\ \A i \in DOMAIN more : more[i] <= Key(page.last)
  BY <1>1 DEF KeysOK, InOrder
<1>4. /\ InOrder(client'.todo)
      /\ \A i \in DOMAIN client'.todo : \/ i \in DOMAIN client.todo /\ client'.todo[i] = client.todo[i]
                                        \/ \E j \in DOMAIN more : client'.todo[i] = more[j]
  <2> DEFINE s == client.todo
  <2> HIDE DEF s
  <2>1. s \in Seq(Keys) /\ InOrder(s) /\ \A i \in DOMAIN s : s[i] <= client.cursor
    BY <1>2 DEF s
  <2>2. /\ InOrder(s \o more)
        /\ \A i \in DOMAIN (s \o more) : \/ i \in DOMAIN s /\ (s \o more)[i] = s[i]
                                         \/ \E j \in DOMAIN more : (s \o more)[i] = more[j]
    BY <1>1, <1>2, <1>3, <2>1, ConcatInOrder
  <2> QED BY <1>1, <2>2 DEF s
<1>5. \A m \in commits : m.run # client'.run
  BY <1>0, <1>1 DEF QInv, Awaited
<1>6. Retries(client') /\ Awaited(client', commits)
  BY <1>0, <1>1, <1>5 DEF QInv, Retries, Awaited, KeepsPre
<1>7. ASSUME client'.pc = "list", NEW i \in DOMAIN client'.todo PROVE client'.todo[i] <= client'.cursor
  <2>1. page.truncated /\ client'.cursor = Key(page.last)
    BY <1>1, <1>7
  <2>2. CASE i \in DOMAIN client.todo /\ client'.todo[i] = client.todo[i]
    <3>0. client.todo[i] \in Keys
      BY <1>2, <2>2
    <3>1. client.todo[i] \in Nat /\ client.todo[i] <= client.cursor
      BY <1>2, <2>2, <3>0, PrefixAssumption
    <3> QED BY <1>2, <1>3, <2>1, <2>2, <3>1
  <2>3. CASE \E j \in DOMAIN more : client'.todo[i] = more[j]
    BY <1>3, <2>1, <2>3
  <2> QED BY <1>4, <2>2, <2>3
<1> QED BY <1>4, <1>6, <1>7 DEF QClient
\* The other steps.
LEMMA QClientNext ==
  ASSUME TInv, QInv, ClientStep \/ RequestFails \/ KillClient, ~CommitSyncObject
  PROVE  QClient(client', commits)
<1>0. client \in ClientRec /\ (client.pc \in Busy => client.todo # <<>>)
  BY DEF TInv, ClientOK
<1>q. InOrder(client.todo) /\ Retries(client) /\ Awaited(client, commits)
  BY DEF QInv
<1>1. CASE Dropped(client, client')
  <2>1. client'.todo = <<>> /\ client'.pc = "end" /\ ~client'.retried /\ DOMAIN <<>> = {}
    BY <1>1 DEF Dropped
  <2> QED BY <2>1 DEF QClient, InOrder, Retries, Awaited
<1>2. CASE client.pc \in Busy /\ \E o \in Outcomes : Settled(client, client', o)
  <2>1. InOrder(client'.todo) /\ Awaited(client', commits) /\ Retries(client')
    BY <1>0, <1>q, <1>2, SettledAwaits
  <2>2. client'.pc = "next"
    BY <1>2 DEF Settled
  <2> QED BY <2>1, <2>2 DEF QClient
<1>3. CASE Moves(client, client')
  <2>1. /\ client'.todo = client.todo /\ client'.run = client.run /\ client.pc # "wait"
        /\ client'.pc # "list" /\ client.pc \in Busy \cup {"next"}
    BY <1>3 DEF Moves, Stays, Busy, Carrying, Looking
  <2>2. Awaited(client', commits)
    BY <1>q, <2>1 DEF Awaited
  <2>3. Retries(client')
    <3>1. CASE KeepsPre(client, client') /\ (client.pc = "commit" => client'.pc = "wait") /\ client.pc # "recheck"
      BY <1>q, <2>1, <3>1 DEF Retries, KeepsPre
    <3>2. CASE client.pc = "head" /\ client'.retried = client.retried
      BY <1>q, <3>2 DEF Retries
    <3>3. CASE client.pc = "recheck" /\ client'.pc = "commit" /\ ~client'.pre.absent
      BY <3>3 DEF Retries
    <3> QED BY <1>3, <3>1, <3>2, <3>3 DEF Moves
  <2> QED BY <1>q, <2>1, <2>2, <2>3 DEF QClient
<1>4. CASE RunEnds(client, client')
  <2>1. /\ client'.todo = <<>> /\ client'.pc = "end" /\ client.pc = "next" /\ DOMAIN <<>> = {}
        /\ client'.retried = client.retried
    BY <1>4 DEF RunEnds, KeepsPre
  <2> QED BY <1>q, <2>1 DEF QClient, InOrder, Retries, Awaited
<1> QED BY <1>1, <1>2, <1>3, <1>4, StepKinds, QList

\* An answer is the end of the one commit it answers.
LEMMA QAnswer ==
  ASSUME TInv, QInv, NEW m \in commits, NEW o \in Outcomes, Answer(m, o)
  PROVE  QClient(client', commits \ {m})
<1>0. client \in ClientRec /\ (client.pc \in Busy => client.todo # <<>>)
  BY DEF TInv, ClientOK
<1>q. /\ InOrder(client.todo) /\ Retries(client) /\ Awaited(client, commits) /\ OneEach(commits)
      /\ client.pc = "list" => \A i \in DOMAIN client.todo : client.todo[i] <= client.cursor
  BY DEF QInv
<1>1. Awaited(client, commits \ {m})
  BY <1>q DEF Awaited
<1>2. CASE client' = client
  BY <1>q, <1>1, <1>2 DEF QClient
<1>3. CASE Waiting(m) /\ client.pc = "wait" /\ Keeps(client, client') /\ client'.pc = "recheck"
  <2>1. /\ client'.todo = client.todo /\ client'.run = client.run /\ client'.pre = client.pre
        /\ client'.retried = client.retried /\ client.run = m.run /\ m.key = Head(client.todo)
        /\ client.todo \in Seq(Keys) /\ client.todo # <<>>
    BY <1>0, <1>3 DEF Keeps, Stays, KeepsPre, Waiting, Wanted, ClientRec, Busy, Carrying, Looking
  <2>2. ASSUME NEW n \in commits \ {m}, n.run = client'.run, NEW i \in DOMAIN client'.todo,
               n.key = client'.todo[i]
        PROVE  FALSE
    <3>1. i = 1
      BY <1>1, <2>1, <2>2 DEF Awaited
    <3>2. n.key = m.key
      BY <2>1, <2>2, <3>1
    <3> QED BY <1>q, <2>1, <2>2, <3>2 DEF OneEach
  <2>3. Awaited(client', commits \ {m})
    BY <1>3, <2>2 DEF Awaited
  <2> QED BY <1>q, <1>3, <2>1, <2>3 DEF QClient, Retries
<1>4. CASE client.pc = "wait" /\ Settled(client, client', o)
  <2>1. client.todo # <<>>
    BY <1>0, <1>4 DEF Busy, Carrying, Looking
  <2>2. InOrder(client'.todo) /\ Awaited(client', commits \ {m}) /\ Retries(client')
    BY <1>0, <1>q, <1>1, <1>4, <2>1, SettledAwaits
  <2> QED BY <1>4, <2>2 DEF QClient, Settled
<1> QED BY <1>2, <1>3, <1>4, AnswerFacts

\* Every step keeps the order.
LEMMA QNext == TInv /\ QInv /\ [SyncNext]_syncVars => QInv'
<1> SUFFICES ASSUME TInv, QInv, [SyncNext]_syncVars PROVE QInv'
  OBVIOUS
<1>0. /\ client \in ClientRec /\ commits \in SUBSET CommitRec
      /\ \A m \in commits : m.run \in Nat /\ m.run <= client.run
  BY DEF TInv, ClientOK, CommitsOK, CommitRec
<1>o. "ok" \in Outcomes /\ "error" \in Outcomes /\ "conflict" \in Outcomes
  BY DEF Outcomes
<1>q. QClient(client, commits) /\ OneEach(commits)
  BY DEF QInv, QClient
<1>g. ASSUME QClient(client', commits'), OneEach(commits') PROVE QInv'
  BY <1>g DEF QInv, QClient
<1>1. CASE UNCHANGED syncVars
  BY <1>1, <1>q, <1>g DEF syncVars
<1>2. CASE Others
  <2>1. client' = client /\ commits' \subseteq commits
    BY <1>2, OthersFacts
  <2> QED BY <1>q, <1>g, <2>1 DEF QClient, Awaited, OneEach
<1>3. CASE StartRun
  <2>1. /\ commits' = commits /\ client'.run = client.run + 1 /\ ~client'.retried
        /\ client'.pc = (IF inst.mode = "sync" THEN "next" ELSE "list")
        /\ IF inst.mode = "sync" THEN client'.todo \in Walked ELSE client'.todo = <<>>
    BY <1>3, StartFacts DEF StartRun
  <2>2. \A m \in commits : m.run # client'.run
    BY <1>0, <2>1 DEF ClientRec
  <2>3. CASE inst.mode = "sync"
    <3>1. InOrder(client'.todo)
      BY <2>1, <2>3 DEF Walked, InOrder
    <3> QED BY <1>q, <1>g, <2>1, <2>2, <2>3, <3>1 DEF QClient, Retries, Awaited
  <2>4. CASE inst.mode # "sync"
    <3>1. DOMAIN client'.todo = {}
      BY <2>1, <2>4
    <3> QED BY <1>q, <1>g, <2>1, <2>2, <3>1 DEF QClient, Retries, Awaited, InOrder
  <2> QED BY <2>3, <2>4
<1>4. CASE CommitSyncObject
  <2>0. client.pc = "commit" /\ ClientStep
    BY <1>4 DEF CommitSyncObject, ClientStep
  <2>1. /\ Keeps(client, client') /\ client'.pc = "wait" /\ commits' = commits \cup {Sent}
        /\ Sent.run = client.run /\ Sent.key = Wanted /\ Sent.pre = client.pre
    BY <1>4, CommitFacts
  <2>2. /\ client'.todo = client.todo /\ client'.run = client.run /\ client'.pre = client.pre
        /\ client'.retried = client.retried
    BY <2>1 DEF Keeps, Stays, KeepsPre
  <2>3. client.todo \in Seq(Keys) /\ client.todo # <<>> /\ Wanted = client.todo[1] /\ 1 \in DOMAIN client.todo
        /\ \A i \in DOMAIN client.todo : client.todo[i] \in Nat /\ i \in Nat /\ i >= 1
    <3>1. client.todo \in Seq(Keys) /\ client.todo # <<>> /\ Wanted = Head(client.todo)
      BY <2>0, WantedIsKey DEF Busy, Carrying, Looking
    <3>2. Wanted = client.todo[1] /\ DOMAIN client.todo = 1 .. Len(client.todo) /\ Len(client.todo) \in Nat
      BY <3>1
    <3>3. 1 \in DOMAIN client.todo
      BY <3>1
    <3>4. \A i \in DOMAIN client.todo : i \in Nat /\ i >= 1
      BY <3>2
    <3>5. \A i \in DOMAIN client.todo : client.todo[i] \in Keys
      BY <3>1
    <3>6. \A i \in DOMAIN client.todo : client.todo[i] \in Nat
      BY <3>5, PrefixAssumption
    <3> QED BY <3>1, <3>2, <3>3, <3>4, <3>6
  <2>4. \A m \in commits : m.run = client.run => \A i \in DOMAIN client.todo : m.key # client.todo[i]
    BY <1>q, <2>0 DEF QClient, Awaited
  <2>5. \A i \in DOMAIN client.todo : Wanted = client.todo[i] => i = 1
    <3> SUFFICES ASSUME NEW i \in DOMAIN client.todo, Wanted = client.todo[i], i # 1 PROVE FALSE
      OBVIOUS
    <3>0. InOrder(client.todo) /\ 1 < i /\ 1 \in DOMAIN client.todo
      BY <1>q, <2>3 DEF QClient
    <3>1. client.todo[1] < client.todo[i]
      BY <3>0 DEF InOrder
    <3> QED BY <2>3, <3>1
  <2>6. Awaited(client', commits')
    <3> SUFFICES ASSUME NEW m \in commits', m.run = client'.run, NEW i \in DOMAIN client'.todo,
                        m.key = client'.todo[i]
                 PROVE  i = 1 /\ client'.pc = "wait" /\ m.pre = client'.pre
      BY <2>1 DEF Awaited
    <3>1. m = Sent
      BY <2>1, <2>2, <2>4
    <3> QED BY <2>1, <2>2, <2>5, <3>1
  <2>7. OneEach(commits')
    <3>1. \A m \in commits : ~(m.run = Sent.run /\ m.key = Sent.key)
      BY <2>1, <2>3, <2>4
    <3> QED BY <1>q, <2>1, <3>1 DEF OneEach
  <2> QED BY <1>q, <1>g, <2>0, <2>1, <2>2, <2>6, <2>7 DEF QClient, Retries
<1>5. CASE (ClientStep \/ RequestFails \/ KillClient) /\ ~CommitSyncObject
  <2>1. commits' = commits
    BY <1>5 DEF ClientStep, RequestFails, KillClient, ServersUnchanged, ListSourceObjects, NextObject,
       FetchSourceDescriptor, StatLocalFile, ScanLocalFile, HeadSyncDestination, NegotiateSyncMissing,
       RelayChunk, Relayed, RestatLocalFile, Recheck, PlainPut, ConnectionEnds
  <2> QED BY <1>5, <1>q, <1>g, <2>1, QClientNext
<1>6. ASSUME NEW m \in commits, NEW o \in Outcomes, Answer(m, o), commits' = commits \ {m}
      PROVE  QInv'
  BY <1>6, <1>q, <1>g, QAnswer DEF OneEach
<1>7. CASE ReadBackChunks
  <2>1. PICK m \in commits :
          \/ /\ UNCHANGED client
             /\ commits' = (commits \ {m}) \cup {[m EXCEPT !.checked = TRUE]}
          \/ commits' = commits \ {m} /\ Answer(m, "error")
    BY <1>7 DEF ReadBackChunks
  <2>2. CASE UNCHANGED client /\ commits' = (commits \ {m}) \cup {[m EXCEPT !.checked = TRUE]}
    <3> DEFINE n == [m EXCEPT !.checked = TRUE]
    <3>1. n.run = m.run /\ n.key = m.key /\ n.pre = m.pre
      BY <1>0 DEF CommitRec
    <3>2. commits' = (commits \ {m}) \cup {n}
      BY <2>2
    <3> HIDE DEF n
    <3>3. OneEach(commits')
      BY <1>q, <2>1, <3>1, <3>2 DEF OneEach
    <3>4. Awaited(client, commits')
      BY <1>q, <2>1, <3>1, <3>2 DEF QClient, Awaited
    <3> QED BY <1>q, <1>g, <2>2, <3>3, <3>4 DEF QClient
  <2> QED BY <1>o, <1>6, <2>1, <2>2
<1>8. CASE CommitObjectRootChecked
  BY <1>8, <1>o, <1>6 DEF CommitObjectRootChecked
<1>9. CASE CommitFails
  BY <1>9, <1>o, <1>6 DEF CommitFails
<1> QED BY <1>1, <1>2, <1>3, <1>4, <1>5, <1>7, <1>8, <1>9 DEF SyncNext, ServerStep

\* What lands is a revision.
LEMMA LandedIsRev ==
  ASSUME TInv, NEW k \in Keys
  PROVE  /\ Landed(k, inst.mode, src, file) \in Revs /\ Landed(k, inst.mode, src, file) # NoRev
         /\ dst[k] \in MaybeRevs /\ src[k] \in MaybeRevs
<1>1. OfferedBy(k, inst.mode, src, file) \in Seq(Chunks) /\ dst[k] \in MaybeRevs /\ src[k] \in MaybeRevs
  <2>1. src[k] \in MaybeRevs /\ dst[k] \in MaybeRevs /\ file[k].body \in Seq(Chunks)
    BY DEF TInv, Objects, MaybeRevs, FileFns
  <2>2. src[k] # NoRev => src[k].body \in Seq(Chunks)
    BY <2>1 DEF MaybeRevs, Revs
  <2>3. <<>> \in Seq(Chunks)
    OBVIOUS
  <2> QED BY <2>1, <2>2, <2>3 DEF OfferedBy
<1>2. Landed(k, inst.mode, src, file) \in Revs
  BY <1>1 DEF Landed, Rev, Revs
<1> QED BY <1>1, <1>2, SyncAssumption

\* Where the source stays and the destination keeps or gets what lands, all
\* that was seen is still so.
Settles(fo, i, objects, source, files, new) ==
  \A k \in Keys \ fo : new[k] = objects[k] \/ new[k] = Landed(k, i.mode, source, files)
\* Such a change keeps the four parts of CInv.
LEMMA LandedStays ==
  ASSUME NEW fo, NEW i, NEW objects, NEW source, NEW files, NEW new, NEW cs, NEW cl, NEW results,
         Settles(fo, i, objects, source, files, new), \A m \in cs : m.key \in Keys,
         cl.pc \in Looking \cup {"scan"} => Head(cl.todo) \in Keys, \A r \in results : r[1] \in Keys
  PROVE  /\ CKeys(fo, i, objects, source, files) => CKeys(fo, i, new, source, files)
         /\ CCommits(cs, fo, i, objects, source, files) => CCommits(cs, fo, i, new, source, files)
         /\ CClient(cl, fo, i, objects, source, files) => CClient(cl, fo, i, new, source, files)
         /\ CResults(results, fo, i, objects, source, files) => CResults(results, fo, i, new, source, files)
<1>1. \A k \in Keys \ fo : objects[k] = Landed(k, i.mode, source, files) => new[k] = Landed(k, i.mode, source, files)
  BY DEF Settles
<1>2. \A pre : \A k \in Keys \ fo : Saw(pre, k, i, objects, source, files) => Saw(pre, k, i, new, source, files)
  BY <1>1 DEF Saw
<1>3. CKeys(fo, i, objects, source, files) => CKeys(fo, i, new, source, files)
  BY DEF Settles, CKeys
<1>4. CCommits(cs, fo, i, objects, source, files) => CCommits(cs, fo, i, new, source, files)
  BY <1>2 DEF CCommits
<1>5. CClient(cl, fo, i, objects, source, files) => CClient(cl, fo, i, new, source, files)
  BY <1>1, <1>2 DEF CClient
<1>6. CResults(results, fo, i, objects, source, files) => CResults(results, fo, i, new, source, files)
  BY <1>1 DEF CResults
<1> QED BY <1>3, <1>4, <1>5, <1>6

\* What others do to the keys they have written changes nothing of the rest.
LEMMA COthers == ASSUME TInv, CInv, Others PROVE CInv'
<1>0. /\ inst' = inst /\ client' = client /\ commits' \subseteq commits /\ foreign \subseteq foreign'
      /\ \A k \in Keys : k \notin foreign' => src'[k] = src[k] /\ file'[k] = file[k] /\ dst'[k] = dst[k]
  BY OthersFacts
<1>1. \A k \in Keys \ foreign' : Landed(k, inst.mode, src', file') = Landed(k, inst.mode, src, file)
  BY <1>0 DEF Landed, OfferedBy
<1>2. \A pre : \A k \in Keys \ foreign' :
        Saw(pre, k, inst, dst, src, file) => Saw(pre, k, inst, dst', src', file')
  BY <1>0, <1>1 DEF Saw
<1>3. CKeys(foreign', inst, dst', src', file')
  BY <1>0, <1>1 DEF CInv, CKeys
<1>4. CCommits(commits', foreign', inst, dst', src', file')
  <2>1. \A m \in commits : m.key \in Keys
    BY DEF TInv, CommitsOK, CommitRec
  <2> QED BY <1>0, <1>2, <2>1 DEF CInv, CCommits
<1>5. CClient(client, foreign', inst, dst', src', file')
  <2> SUFFICES ASSUME client.pc \in Looking \cup {"scan"}, Head(client.todo) \notin foreign'
               PROVE  LET k == Head(client.todo) IN
                        /\ client.pc # "scan" \/ ~client.plain => Saw(client.pre, k, inst, dst', src', file')
                        /\ client.pc = "recheck" => dst'[k] = Landed(k, inst.mode, src', file')
    BY DEF CClient
  <2>1. Head(client.todo) \in Keys \ foreign' /\ Head(client.todo) \notin foreign
    BY <1>0, WantedIsKey DEF Busy, Carrying
  <2>2. /\ client.pc # "scan" \/ ~client.plain => Saw(client.pre, Head(client.todo), inst, dst, src, file)
        /\ client.pc = "recheck" => dst[Head(client.todo)] = Landed(Head(client.todo), inst.mode, src, file)
    BY <2>1 DEF CInv, CClient
  <2> QED BY <1>0, <1>1, <1>2, <2>1, <2>2
<1>6. CResults(client.results, foreign', inst, dst', src', file')
  <2>1. \A r \in client.results : r[1] \in Keys
    BY DEF TInv, ClientOK, ClientRec
  <2> QED BY <1>0, <1>1, <2>1 DEF CInv, CResults
<1> QED BY <1>0, <1>3, <1>4, <1>5, <1>6 DEF CInv

\* The instance's destination is empty where the command only creates.
LEMMA CreatesOnEmpty ==
  ASSUME TInv, CreateOnly, inst.mode \notin {"sync", "replicate"}, NEW k \in Keys
  PROVE  inst.dst[k] = NoRev
BY InstanceFacts DEF TInv, CreateOnly

\* A look at the destination yields a precondition that saw what is there.
LEMMA HeadSees ==
  ASSUME TInv, CInv, CreateOnly, NEW k \in Keys \ foreign, client.rev \in Revs
  PROVE  Saw(Precondition(dst[k]), k, inst, dst, src, file)
<1>1. /\ dst[k] \in {inst.dst[k], Landed(k, inst.mode, src, file)}
      /\ Landed(k, inst.mode, src, file) # NoRev /\ client.rev # NoRev
  BY LandedIsRev, SyncAssumption DEF CInv, CKeys
<1>2. /\ \A e : Pre(FALSE, e).absent = FALSE /\ Pre(FALSE, e).etag = e
      /\ Pre(TRUE, NoRev).absent = TRUE /\ Pre(TRUE, NoRev).etag = NoRev
      /\ \A b \in BOOLEAN : \A e : Pre(b, e).absent = b /\ Pre(b, e).etag = e
  BY DEF Pre
<1>3. CASE inst.mode \in {"sync", "replicate"}
  <2>1. Precondition(dst[k]) = Pre(dst[k] = NoRev, dst[k])
    BY <1>3 DEF Precondition
  <2>2. Precondition(dst[k]).etag = dst[k] /\ Precondition(dst[k]).absent = (dst[k] = NoRev)
    BY <1>2, <2>1
  <2> QED BY <1>1, <2>2 DEF Saw
<1>4. CASE inst.mode \notin {"sync", "replicate"} /\ dst[k] = client.rev
  <2>1. Precondition(dst[k]).etag = dst[k] /\ Precondition(dst[k]).absent = FALSE
    BY <1>2, <1>4 DEF Precondition
  <2> QED BY <1>1, <1>4, <2>1 DEF Saw
<1>5. CASE inst.mode \notin {"sync", "replicate"} /\ dst[k] # client.rev
  <2>1. Precondition(dst[k]).etag = NoRev /\ Precondition(dst[k]).absent = TRUE
    BY <1>2, <1>5 DEF Precondition
  <2>2. inst.dst[k] = NoRev
    BY <1>5, CreatesOnEmpty
  <2> QED BY <1>1, <2>1, <2>2 DEF Saw
<1> QED BY <1>3, <1>4, <1>5

\* A commit of such a key is refused only where what it brings has landed, and
\* by a fork only when it was to create the object.
LEMMA RefusedMeansLanded ==
  ASSUME TInv, CInv, CreateOnly, NEW m \in commits, m.key \notin foreign, ~PreconditionHolds(m, dst[m.key])
  PROVE  /\ dst[m.key] = Landed(m.key, inst.mode, src, file)
         /\ inst.mode = "fork" => m.pre.absent
<1>0. m.key \in Keys \ foreign
  BY DEF TInv, CommitsOK, CommitRec
<1>1. /\ dst[m.key] \in {inst.dst[m.key], Landed(m.key, inst.mode, src, file)}
      /\ Saw(m.pre, m.key, inst, dst, src, file)
  BY <1>0 DEF CInv, CKeys, CCommits
<1>2. inst.mode = "fork" => inst.dst[m.key] = NoRev
  BY <1>0, CreatesOnEmpty
<1> QED BY <1>1, <1>2 DEF Saw, PreconditionHolds

\* The command's steps keep what it saw.
LEMMA CClientNext ==
  ASSUME TInv, SInv, CInv, CreateOnly, ClientStep \/ RequestFails \/ KillClient
  PROVE  CClient(client', foreign, inst, dst, src, file)
<1>0. client \in ClientRec /\ CClient(client, foreign, inst, dst, src, file)
  BY DEF TInv, ClientOK, CInv
<1>b. ASSUME client'.pc \notin Looking \cup {"scan"} PROVE CClient(client', foreign, inst, dst, src, file)
  BY <1>b DEF CClient
<1>d. ASSUME NEW o, Settled(client, client', o) PROVE CClient(client', foreign, inst, dst, src, file)
  BY <1>d, <1>b DEF Settled, Looking
<1>k. ASSUME Stays(client, client'), KeepsPre(client, client'), client'.pc \in Looking, client'.pc # "recheck",
             client.pc \in Looking \/ (client.pc = "scan" /\ ~client.plain)
      PROVE  CClient(client', foreign, inst, dst, src, file)
  <2>1. client'.todo = client.todo /\ client'.pre = client.pre
    BY <1>k DEF Stays, KeepsPre
  <2> QED BY <1>0, <1>k, <2>1 DEF CClient, Looking
<1>1. CASE NextObject
  <2>1. client'.pc \in {"stat", "describe", "end"}
    BY <1>1, NextFacts
  <2> QED BY <2>1, <1>b DEF Looking
<1>2. CASE ListSourceObjects
  <2>1. client'.pc \in {"list", "next"}
    BY <1>2, ListFacts
  <2> QED BY <2>1, <1>b DEF Looking
<1>3. CASE FetchSourceDescriptor
  <2>1. CASE client'.pc = "head"
    BY <2>1, <1>b DEF Looking
  <2> QED BY <1>3, <1>d, <2>1, FetchFacts
<1>4. CASE StatLocalFile
  <2>1. client'.pc = "head" \/ (client'.pc = "scan" /\ client'.plain)
    BY <1>4, StatFacts
  <2> QED BY <2>1 DEF CClient, Looking
<1>5. CASE ScanLocalFile
  <2>1. /\ Stays(client, client') /\ KeepsPre(client, client') /\ KeepsScan(client, client')
        /\ client.pc = "scan"
        /\ client'.pc = "scan" \/ client'.pc = (IF client.plain THEN "put" ELSE "negotiate")
    BY <1>5, ScanFacts DEF ScanLocalFile
  <2>2. CASE client'.pc = "scan"
    BY <1>0, <2>1, <2>2 DEF CClient, Stays, KeepsPre, KeepsScan
  <2>3. CASE client'.pc = "put"
    BY <2>3, <1>b DEF Looking
  <2>4. CASE client'.pc = "negotiate" /\ ~client.plain
    BY <2>1, <2>4, <1>k DEF Looking
  <2> QED BY <2>1, <2>2, <2>3, <2>4
<1>6. CASE HeadSyncDestination
  <2>1. client.pc = "head" /\ "head" \in Busy /\ "head" \in Carrying
    BY <1>6 DEF HeadSyncDestination, Busy, Carrying
  <2>2. CASE /\ Stays(client, client') /\ client'.pc \in {"scan", "negotiate"}
             /\ client'.pre = Precondition(dst[Wanted])
    <3>1. Head(client'.todo) = Wanted /\ Wanted \in Keys /\ client.rev \in Revs
      BY <2>1, <2>2, WantedIsKey DEF Stays, TInv, ClientOK
    <3>2. Wanted \notin foreign => Saw(client'.pre, Wanted, inst, dst, src, file)
      BY <2>2, <3>1, HeadSees
    <3> QED BY <2>2, <3>1, <3>2 DEF CClient
  <2> QED BY <1>6, <1>d, <2>2, HeadFacts
<1>7. CASE NegotiateSyncMissing
  <2>1. client.pc = "negotiate"
    BY <1>7 DEF NegotiateSyncMissing
  <2> QED BY <2>1, <1>k, <1>7, NegotiateFacts DEF Keeps, Looking
<1>8. CASE RelayChunk
  <2>1. \/ Settled(client, client', "error")
        \/ Keeps(client, client') /\ client'.pc = "relay" /\ client.pc = "relay"
    BY <1>8, RelayFacts
  <2> QED BY <2>1, <1>k, <1>d DEF Keeps, Looking
<1>9. CASE Relayed
  <2>1. client.pc = "relay" /\ Keeps(client, client') /\ client'.pc \in {"restat", "commit"}
    BY <1>9, RelayedFacts DEF Relayed
  <2> QED BY <2>1, <1>k DEF Keeps, Looking
<1>10. CASE RestatLocalFile
  <2>1. client.pc = "restat"
    BY <1>10 DEF RestatLocalFile
  <2>2. CASE Keeps(client, client') /\ client'.pc = "commit"
    BY <2>1, <2>2, <1>k DEF Keeps, Looking
  <2> QED BY <1>10, <1>d, <2>2, RestatFacts
<1>11. CASE CommitSyncObject
  <2>1. client.pc = "commit" /\ Keeps(client, client') /\ client'.pc = "wait"
    BY <1>11, CommitFacts DEF CommitSyncObject
  <2> QED BY <2>1, <1>k DEF Keeps, Looking
<1>12. CASE Recheck
  <2>1. client.pc = "recheck" /\ "recheck" \in Busy /\ "recheck" \in Carrying
    BY <1>12 DEF Recheck, Busy, Carrying, Looking
  <2>2. CASE /\ Stays(client, client') /\ client'.pc = "commit" /\ dst[Wanted] = client.rev
             /\ client'.pre = Pre(FALSE, dst[Wanted])
    <3>1. Head(client'.todo) = Wanted /\ Wanted \in Keys /\ client.rev \in Revs
      BY <2>1, <2>2, WantedIsKey DEF Stays, TInv, ClientOK
    <3>2. client'.pre.absent = FALSE /\ client'.pre.etag = dst[Wanted] /\ dst[Wanted] # NoRev
      BY <2>2, <3>1, SyncAssumption DEF Pre
    <3>3. Wanted \notin foreign => Saw(client'.pre, Wanted, inst, dst, src, file)
      BY <3>1, <3>2 DEF CInv, CKeys, Saw
    <3> QED BY <2>2, <3>1, <3>3 DEF CClient
  <2> QED BY <1>12, <1>d, <2>2, RecheckFacts
<1>13. CASE PlainPut
  BY <1>13, <1>d, PlainPutFacts
<1>14. CASE RequestFails \/ ConnectionEnds \/ KillClient
  <2>1. CASE Dropped(client, client')
    BY <2>1, <1>b DEF Dropped, Looking
  <2> QED BY <1>14, <2>1, <1>d, EndFacts
<1> QED BY <1>1, <1>2, <1>3, <1>4, <1>5, <1>6, <1>7, <1>8, <1>9, <1>10, <1>11, <1>12, <1>13, <1>14
    DEF ClientStep

\* A restore that gives up, or a fork that looked again, has met what it was
\* to bring.
LEMMA GivesUpOnLanded ==
  ASSUME TInv, SInv, CInv, CreateOnly, HeadSyncDestination \/ Recheck, Settled(client, client', "conflict"),
         Wanted \notin foreign
  PROVE  /\ dst[Wanted] = Landed(Wanted, inst.mode, src, file)
         /\ inst.mode = "fork" => src[Wanted].multi
<1>0. client.pc \in {"head", "recheck"} /\ client.pc \in Busy /\ client.pc \in Carrying
  BY DEF HeadSyncDestination, Recheck, Busy, Carrying, Looking
<1>1. Wanted \in Keys /\ Wanted = Head(client.todo) /\ client.rev \in Revs /\ client.rev # NoRev
  BY <1>0, WantedIsKey, SyncAssumption DEF TInv, ClientOK
<1>2. CASE HeadSyncDestination
  <2>1. inst.mode = "restore" /\ dst[Wanted] \notin {NoRev, client.rev}
    <3>1. client'.pc = "next"
      BY DEF Settled
    <3> QED BY <1>2, <3>1, HeadFacts
  <2>2. inst.dst[Wanted] = NoRev
    BY <1>1, <2>1, CreatesOnEmpty
  <2> QED BY <1>1, <2>1, <2>2 DEF CInv, CKeys
<1>3. CASE Recheck
  <2>1. client.pc = "recheck" /\ dst[Wanted] # client.rev
    <3>1. client'.pc = "next"
      BY DEF Settled
    <3> QED BY <1>3, <3>1, RecheckFacts DEF Recheck
  <2>2. dst[Wanted] = Landed(Wanted, inst.mode, src, file)
    BY <1>1, <2>1 DEF CInv, CClient, Looking
  <2>3. inst.mode = "fork" => src[Wanted].multi
    <3> SUFFICES ASSUME inst.mode = "fork", ~src[Wanted].multi PROVE FALSE
      OBVIOUS
    <3>1. Wanted \in stable
      BY <1>1, <2>1 DEF SInv
    <3>2. client.rev = src[Wanted]
      BY <1>0, <1>1, <3>1 DEF SInv, InHand, Carries
    <3>3. client.rev = Rev(client.rev.body, FALSE)
      <4>1. client.rev.multi \in BOOLEAN
        BY <1>1 DEF Revs
      <4>2. client.rev.multi = FALSE
        BY <3>2, <4>1
      <4> QED BY <1>1, <4>2 DEF Revs, Rev
    <3>4. Landed(Wanted, inst.mode, src, file) = Rev(client.rev.body, FALSE)
      BY <1>1, <3>2 DEF Landed, OfferedBy
    <3> QED BY <2>1, <2>2, <3>3, <3>4
  <2> QED BY <2>2, <2>3
<1> QED BY <1>2, <1>3

\* The conflicts a step of the command reports.
LEMMA CResultsNext ==
  ASSUME TInv, SInv, CInv, CreateOnly, ClientStep \/ RequestFails \/ KillClient
  PROVE  CResults(client'.results, foreign, inst, dst, src, file)
<1>0. CResults(client.results, foreign, inst, dst, src, file)
  BY DEF CInv
<1>1. CASE Dropped(client, client')
  BY <1>1 DEF Dropped, CResults
<1>2. ASSUME NEW o \in Outcomes, Settled(client, client', o), o = "conflict" => HeadSyncDestination \/ Recheck
      PROVE  CResults(client'.results, foreign, inst, dst, src, file)
  <2> SUFFICES ASSUME NEW r \in client'.results, r[2] = "conflict", r[1] \notin foreign
               PROVE  /\ dst[r[1]] = Landed(r[1], inst.mode, src, file)
                      /\ inst.mode = "fork" => src[r[1]].multi
    BY DEF CResults
  <2>1. CASE r \in client.results
    BY <1>0, <2>1 DEF CResults
  <2>2. CASE r \notin client.results
    <3>1. r = <<Head(client.todo), o>>
      BY <1>2, <2>2 DEF Settled
    <3>2. r[1] = Wanted /\ o = "conflict"
      BY <3>1 DEF Wanted
    <3> QED BY <1>2, <3>2, GivesUpOnLanded
  <2> QED BY <2>1, <2>2
<1>3. CASE Moves(client, client') \/ RunEnds(client, client')
  <2>1. client'.results = client.results
    BY <1>3 DEF Moves, RunEnds, Stays
  <2> QED BY <1>0, <2>1
<1>4. CASE ListSourceObjects
  <2>1. client'.results = client.results
    BY <1>4, ListFacts
  <2> QED BY <1>0, <2>1
<1> QED BY <1>1, <1>2, <1>3, <1>4, StepKinds

\* An answer that is no conflict.
LEMMA CAnswer ==
  ASSUME TInv, CInv, NEW m, NEW o \in {"ok", "error"}, Answer(m, o)
  PROVE  /\ CClient(client', foreign, inst, dst, src, file)
         /\ CResults(client'.results, foreign, inst, dst, src, file)
<1>0. /\ CClient(client, foreign, inst, dst, src, file)
      /\ CResults(client.results, foreign, inst, dst, src, file) /\ o \in Outcomes
  BY DEF CInv, Outcomes
<1>1. CASE client' = client
  BY <1>0, <1>1
<1>2. CASE Settled(client, client', o)
  <2>1. client'.pc = "next" /\ client'.results = client.results \cup {<<Head(client.todo), o>>}
    BY <1>2 DEF Settled
  <2>2. \A r \in client'.results : r[2] = "conflict" => r \in client.results
    BY <2>1
  <2> QED BY <1>0, <2>1, <2>2 DEF CClient, CResults, Looking
<1> QED BY <1>0, <1>1, <1>2, AnswerFacts
\* An answer that is one: the run has met what it was to bring.
LEMMA CRefused ==
  ASSUME TInv, QInv, CInv, CreateOnly, NEW m \in commits, Answer(m, "conflict"), ~PreconditionHolds(m, dst[m.key])
  PROVE  /\ CClient(client', foreign, inst, dst, src, file)
         /\ CResults(client'.results, foreign, inst, dst, src, file)
<1>0. /\ CClient(client, foreign, inst, dst, src, file)
      /\ CResults(client.results, foreign, inst, dst, src, file) /\ "conflict" \in Outcomes
  BY DEF CInv, Outcomes
<1>1. m.key \notin foreign => /\ dst[m.key] = Landed(m.key, inst.mode, src, file)
                              /\ inst.mode = "fork" => m.pre.absent
  BY RefusedMeansLanded
<1>2. CASE client' = client
  BY <1>0, <1>2
<1>3. CASE Waiting(m) /\ client.pc = "wait" /\ Keeps(client, client') /\ client'.pc = "recheck"
  <2>1. /\ client'.todo = client.todo /\ client'.pre = client.pre /\ client'.results = client.results
        /\ Head(client.todo) = m.key
    BY <1>3 DEF Keeps, Stays, KeepsPre, Waiting, Wanted
  <2> QED BY <1>0, <1>1, <1>3, <2>1 DEF CClient, Looking
<1>4. CASE /\ Waiting(m) /\ client.pc = "wait" /\ Settled(client, client', "conflict")
           /\ inst.mode = "fork" => client.retried
  <2>1. /\ client'.pc = "next" /\ client'.results = client.results \cup {<<m.key, "conflict">>}
        /\ client.run = m.run /\ Head(client.todo) = m.key
    BY <1>4 DEF Settled, Waiting, Wanted
  <2>2. m.key \notin foreign => inst.mode # "fork"
    <3> SUFFICES ASSUME m.key \notin foreign, inst.mode = "fork" PROVE FALSE
      OBVIOUS
    <3>1. 1 \in DOMAIN client.todo /\ client.todo[1] = m.key
      <4>1. client.todo \in Seq(Keys) /\ client.todo # <<>>
        BY <1>4, WantedIsKey DEF Busy, Carrying, Looking
      <4> QED BY <2>1, <4>1
    <3>2. m.pre = client.pre /\ ~client.pre.absent
      BY <1>4, <2>1, <3>1 DEF QInv, Awaited, Retries
    <3> QED BY <1>1, <3>2
  <2>3. CResults(client'.results, foreign, inst, dst, src, file)
    <3> SUFFICES ASSUME NEW r \in client'.results, r[2] = "conflict", r[1] \notin foreign
                 PROVE  /\ dst[r[1]] = Landed(r[1], inst.mode, src, file)
                        /\ inst.mode = "fork" => src[r[1]].multi
      BY DEF CResults
    <3>1. CASE r \in client.results
      BY <1>0, <3>1 DEF CResults
    <3>2. CASE r = <<m.key, "conflict">>
      BY <1>1, <2>2, <3>2
    <3> QED BY <2>1, <3>1, <3>2
  <2>4. CClient(client', foreign, inst, dst, src, file)
    BY <2>1 DEF CClient, Looking
  <2> QED BY <2>3, <2>4
<1> QED BY <1>0, <1>2, <1>3, <1>4, AnswerFacts

\* Initially the destination is as the instance has it.
LEMMA CInit == SyncInit => CInv
<1> SUFFICES ASSUME SyncInit PROVE CInv
  OBVIOUS
<1>1. client = NewClient /\ commits = {} /\ dst = inst.dst
  BY DEF SyncInit
<1> QED BY <1>1, NewClientFacts DEF CInv, CKeys, CCommits, CClient, CResults, Looking

\* Every step keeps the keys nobody else wrote to what they had, or what was
\* brought to them.
LEMMA CNext == CreateOnly /\ TInv /\ SInv /\ QInv /\ CInv /\ [SyncNext]_syncVars => CInv'
<1> SUFFICES ASSUME CreateOnly, TInv, SInv, QInv, CInv, [SyncNext]_syncVars PROVE CInv'
  OBVIOUS
<1>0. /\ dst \in Objects /\ commits \in SUBSET CommitRec /\ \A m \in commits : m.key \in Keys
      /\ "ok" \in Outcomes /\ "error" \in Outcomes /\ "conflict" \in Outcomes
  BY DEF TInv, CommitsOK, CommitRec, Outcomes
<1>c. /\ CKeys(foreign, inst, dst, src, file) /\ CCommits(commits, foreign, inst, dst, src, file)
      /\ CClient(client, foreign, inst, dst, src, file)
      /\ CResults(client.results, foreign, inst, dst, src, file)
  BY DEF CInv
<1>t. TInv'
  BY TNext
<1>k. /\ \A m \in commits' : m.key \in Keys
      /\ client'.pc \in Looking \cup {"scan"} => Head(client'.todo) \in Keys
      /\ \A r \in client'.results : r[1] \in Keys
  <2>1. client' \in ClientRec /\ (client'.pc \in Busy => client'.todo # <<>>) /\ commits' \subseteq CommitRec
    BY <1>t DEF TInv, ClientOK, CommitsOK
  <2>2. client'.todo \in Seq(Keys) /\ client'.results \in SUBSET (Keys \X Outcomes)
    BY <2>1 DEF ClientRec
  <2>3. client'.pc \in Looking \cup {"scan"} => client'.todo # <<>>
    BY <2>1 DEF Busy, Carrying
  <2> QED BY <2>1, <2>2, <2>3 DEF CommitRec
<1>1. CASE UNCHANGED syncVars
  BY <1>1, <1>c DEF syncVars, CInv
<1>2. CASE Others
  BY <1>2, COthers
<1>3. CASE StartRun
  <2>1. UNCHANGED <<inst, src, dst, file, commits, foreign>> /\ client'.results = {} /\ client'.pc \in {"next", "list"}
    BY <1>3, StartFacts DEF StartRun
  <2>2. CClient(client', foreign, inst, dst, src, file) /\ CResults(client'.results, foreign, inst, dst, src, file)
    BY <2>1 DEF CClient, CResults, Looking
  <2> QED BY <1>c, <2>1, <2>2 DEF CInv
<1>4. ASSUME ClientStep \/ RequestFails \/ KillClient
      PROVE  /\ CClient(client', foreign, inst, dst, src, file)
             /\ CResults(client'.results, foreign, inst, dst, src, file)
             /\ UNCHANGED <<inst, src, file, foreign>>
  <2>1. UNCHANGED <<inst, src, file, foreign>>
    BY <1>4 DEF ClientStep, RequestFails, KillClient, ServersUnchanged, ListSourceObjects, NextObject,
       FetchSourceDescriptor, StatLocalFile, ScanLocalFile, HeadSyncDestination, NegotiateSyncMissing,
       RelayChunk, Relayed, RestatLocalFile, Recheck, PlainPut, ConnectionEnds, CommitSyncObject
  <2> QED BY <1>4, <2>1, CClientNext, CResultsNext
<1>5. CASE CommitSyncObject
  <2>0. ClientStep /\ dst' = dst /\ client.pc = "commit"
    BY <1>5 DEF CommitSyncObject, ClientStep
  <2>1. commits' = commits \cup {Sent} /\ Sent.key = Wanted /\ Sent.pre = client.pre
    BY <1>5, CommitFacts
  <2>2. Wanted \notin foreign => Saw(client.pre, Wanted, inst, dst, src, file)
    BY <1>c, <2>0 DEF CClient, Looking, Wanted
  <2>3. CCommits(commits', foreign, inst, dst, src, file)
    BY <1>c, <2>1, <2>2 DEF CCommits
  <2> QED BY <1>c, <1>4, <2>0, <2>3 DEF CInv
<1>6. CASE PlainPut
  <2>0. ClientStep /\ commits' = commits /\ client.pc = "put" /\ dst' = [dst EXCEPT ![Wanted] = client.rev]
    BY <1>6 DEF PlainPut, ClientStep
  <2>1. Wanted \in Keys /\ client.rev \in Revs /\ inst.mode = "sync" /\ Wanted = Head(client.todo)
        /\ "put" \in Busy /\ "put" \in Carrying
    BY <2>0, WantedIsKey DEF TInv, ClientOK, Busy, Carrying
  <2>2. Wanted \notin foreign => client.rev = Landed(Wanted, inst.mode, src, file)
    <3> SUFFICES ASSUME Wanted \notin foreign PROVE client.rev = Landed(Wanted, inst.mode, src, file)
      OBVIOUS
    <3>1. Wanted \in stable
      BY <2>0, <2>1 DEF SInv
    <3>2. client.rev.body = OfferedBy(Wanted, inst.mode, src, file)
      BY <2>0, <3>1, CarriedIsOffered
    <3>3. client.rev.multi = FALSE
      BY <2>0, <2>1, <3>1 DEF SInv, InHand, Carries
    <3> QED BY <2>1, <3>2, <3>3 DEF Landed, Rev, Revs
  <2>3. Settles(foreign, inst, dst, src, file, dst')
    BY <1>0, <2>0, <2>1, <2>2 DEF Settles, Objects
  <2>4. /\ CClient(client', foreign, inst, dst, src, file)
        /\ CResults(client'.results, foreign, inst, dst, src, file)
        /\ UNCHANGED <<inst, src, file, foreign>>
    BY <1>4, <2>0
  <2>5. CKeys(foreign, inst, dst, src, file) /\ CCommits(commits', foreign, inst, dst, src, file)
    BY <1>c, <2>0
  <2>6. /\ CKeys(foreign, inst, dst', src, file) /\ CCommits(commits', foreign, inst, dst', src, file)
        /\ CClient(client', foreign, inst, dst', src, file)
        /\ CResults(client'.results, foreign, inst, dst', src, file)
    BY <1>k, <2>3, <2>4, <2>5, LandedStays
  <2> QED BY <2>4, <2>6 DEF CInv
<1>7. CASE (ClientStep \/ RequestFails \/ KillClient) /\ ~CommitSyncObject /\ ~PlainPut
  <2>1. UNCHANGED <<dst, commits>>
    BY <1>7 DEF ClientStep, RequestFails, KillClient, ServersUnchanged, ListSourceObjects, NextObject,
       FetchSourceDescriptor, StatLocalFile, ScanLocalFile, HeadSyncDestination, NegotiateSyncMissing,
       RelayChunk, Relayed, RestatLocalFile, Recheck, ConnectionEnds
  <2> QED BY <1>c, <1>4, <1>7, <2>1 DEF CInv
<1>8. ASSUME ServerStep \/ CommitFails, dst' = dst,
             /\ CClient(client', foreign, inst, dst, src, file)
             /\ CResults(client'.results, foreign, inst, dst, src, file)
      PROVE  CInv'
  <2>1. /\ UNCHANGED <<inst, src, file, foreign>>
        /\ \A m \in commits' : \E n \in commits : n.key = m.key /\ n.pre = m.pre
    BY <1>8, ServerFacts
  <2>2. CCommits(commits', foreign, inst, dst, src, file)
    BY <1>c, <2>1 DEF CCommits
  <2> QED BY <1>c, <1>8, <2>1, <2>2 DEF CInv
<1>9. CASE ReadBackChunks
  <2>1. PICK m \in commits : (client' = client \/ Answer(m, "error")) /\ dst' = dst
    BY <1>9 DEF ReadBackChunks
  <2> QED BY <1>c, <1>8, <1>9, <2>1, CAnswer DEF ServerStep
<1>10. CASE CommitFails
  <2>1. PICK m \in commits : Answer(m, "error") /\ dst' = dst
    BY <1>10 DEF CommitFails
  <2> QED BY <1>8, <1>10, <2>1, CAnswer
<1>11. CASE CommitObjectRootChecked
  <2>1. PICK m \in commits :
          /\ commits' = commits \ {m} /\ UNCHANGED <<inst, src, file, foreign>>
          /\ \/ dst' = [dst EXCEPT ![m.key] = Rev(m.body, FALSE)] /\ Answer(m, "ok")
             \/ dst' = dst /\ Answer(m, "conflict") /\ ~PreconditionHolds(m, dst[m.key])
    BY <1>11 DEF CommitObjectRootChecked
  <2>2. CASE dst' = dst /\ Answer(m, "conflict") /\ ~PreconditionHolds(m, dst[m.key])
    BY <1>8, <1>11, <2>2, CRefused DEF ServerStep
  <2>3. CASE dst' = [dst EXCEPT ![m.key] = Rev(m.body, FALSE)] /\ Answer(m, "ok")
    <3>1. m.key \notin foreign => Rev(m.body, FALSE) = Landed(m.key, inst.mode, src, file)
      BY DEF SInv, Bring, Current, Landed
    <3>2. Settles(foreign, inst, dst, src, file, dst')
      BY <1>0, <2>3, <3>1 DEF Settles, Objects
    <3>3. CClient(client', foreign, inst, dst, src, file) /\ CResults(client'.results, foreign, inst, dst, src, file)
      BY <2>3, CAnswer
    <3>4. CCommits(commits', foreign, inst, dst, src, file)
      BY <1>c, <2>1 DEF CCommits
    <3>5. /\ CKeys(foreign, inst, dst', src, file) /\ CCommits(commits', foreign, inst, dst', src, file)
          /\ CClient(client', foreign, inst, dst', src, file)
          /\ CResults(client'.results, foreign, inst, dst', src, file)
      BY <1>c, <1>k, <3>2, <3>3, <3>4, LandedStays
    <3> QED BY <2>1, <3>5 DEF CInv
  <2> QED BY <2>1, <2>2, <2>3
<1> QED BY <1>1, <1>2, <1>3, <1>5, <1>6, <1>7, <1>9, <1>10, <1>11 DEF SyncNext, ServerStep

\* The order of the list and of the commits, in every reachable state.
LEMMA InSequence == SyncSpec => []QInv
BY QInit, QNext, Typed, PTL DEF SyncSpec

\* A conflict on a key nobody else ever wrote is the run meeting what it or an
\* earlier run has already brought, and a fork reports none for an object that
\* was not a multipart upload (ConflictsAreForeign): executeReplicationPlan
\* looks again and commits over its own revision.  fork and restore are taken
\* to start on an empty destination (CreateOnly).
THEOREM ConflictsAreExplained == CreateOnly /\ SyncSpec => []ConflictsAreForeign
<1>1. TInv /\ CInv => ConflictsAreForeign
  <2> SUFFICES ASSUME TInv, CInv, NEW r \in client.results, r[2] = "conflict", r[1] \notin foreign
               PROVE  /\ dst[r[1]] # NoRev /\ dst[r[1]].body = Offered(r[1])
                      /\ inst.mode = "fork" => src[r[1]].multi
    BY DEF ConflictsAreForeign
  <2>1. r[1] \in Keys
    BY DEF TInv, ClientOK, ClientRec
  <2>2. /\ dst[r[1]] = Landed(r[1], inst.mode, src, file)
        /\ inst.mode = "fork" => src[r[1]].multi
    BY DEF CInv, CResults
  <2>3. OfferedBy(r[1], inst.mode, src, file) = Offered(r[1])
    BY DEF OfferedBy, Offered
  <2>4. Landed(r[1], inst.mode, src, file) # NoRev
    BY <2>1, LandedIsRev
  <2>5. Landed(r[1], inst.mode, src, file).body = OfferedBy(r[1], inst.mode, src, file)
    BY DEF Landed, Rev
  <2> QED BY <2>2, <2>3, <2>4, <2>5
<1>2. CreateOnly /\ TInv /\ SInv /\ QInv /\ CInv /\ [SyncNext]_syncVars => CreateOnly' /\ CInv'
  <2>1. CreateOnly => CreateOnly'
    BY DEF CreateOnly
  <2> QED BY <2>1, CNext
<1>3. CreateOnly /\ SyncSpec => []CInv
  BY <1>2, CInit, Typed, Steady, InSequence, PTL DEF SyncSpec
<1> QED BY <1>1, <1>3, Typed, PTL
=============================================================================
