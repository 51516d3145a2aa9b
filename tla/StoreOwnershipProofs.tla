------------------------ MODULE StoreOwnershipProofs ------------------------
(***************************************************************************)
(* Proofs about StoreOwnership, for every set of processes, any journal to *)
(* begin with and any number of frames: the exclusive commands and one     *)
(* server never cut, overwrite or collect what another one has committed.  *)
(***************************************************************************)
EXTENDS StoreOwnership, FiniteSetTheorems, SequenceTheorems, TLAPS

Objs == Existing \cup (Procs \X Nat)
Frames == [id : Objs, puts : SUBSET Objs, drops : SUBSET Objs, state : {"whole", "torn", "hole"}]
Phases == {"new", "locked", "replayed", "opened", "open", "published",
           "writing", "written", "sweeping", "gone"}
ProcSet == [phase : Phases, view : Seq(Frames), garbage : SUBSET (Objs \cup Junk)]

\* Every frame is whole; every one but the last is, and that one is torn.
AllWhole(fs) == \A i \in 1 .. Len(fs) : fs[i].state = "whole"
Shape(fs) == \A i \in 1 .. Len(fs) : \/ fs[i].state = "whole"
                                     \/ fs[i].state = "torn" /\ i = Len(fs)
-----------------------------------------------------------------------------
(* The invariant.  A process is where its command and its lock allow it to *)
(* be, and what it loaded is the journal as it is, but for the frame it is *)
(* writing.                                                                *)

FrameOf(p, c, view, state) ==
  LET id == <<p, Len(view) + 1>>
  IN IF c = "serve" THEN Frame(id, {id}, {}, state) ELSE Frame(id, {}, History(view), state)

\* A server that has not locked the store yet.
Starting == {"new", "replayed", "opened"}

\* lk is the lock of process p, x where it is, fs the journal.
LockInv(c, lk, x) ==
  /\ x.phase \in {"new", "gone"} => lk = "none"
  /\ c = "serve" =>
       /\ x.phase \in Starting \cup {"open", "published", "writing", "written", "gone"}
       /\ x.phase \in Starting => lk = "none"
       /\ x.phase \in {"open", "published", "writing", "written"} => lk = "shared"
  /\ c # "serve" =>
       /\ x.phase \notin {"opened", "published"}
       /\ x.phase \notin {"new", "gone"} => lk = "exclusive"
       /\ c # "prune" => x.phase \notin {"writing", "written"}

ViewInv(p, c, x, fs) ==
  /\ x.phase = "replayed" => x.view = Accepted(fs)
  /\ x.phase \in {"opened", "open", "published", "sweeping"} => fs = x.view /\ AllWhole(fs)
  /\ x.phase = "writing" => fs = Append(x.view, FrameOf(p, c, x.view, "torn")) /\ AllWhole(x.view)
  /\ x.phase = "written" => fs = Append(x.view, FrameOf(p, c, x.view, "whole")) /\ AllWhole(x.view)
  /\ x.phase \in {"published", "writing", "written"} => Len(x.view) < MaxFrames
  /\ c = "serve" /\ x.phase \in Starting => AllWhole(fs)

DataInv(p, c, x, dt) ==
  /\ c = "serve" /\ x.phase \in {"published", "writing", "written"} => <<p, Len(x.view) + 1>> \in dt
  /\ x.phase = "sweeping" => x.garbage \cap Live(x.view) = {}

ProcInv(p, c, lk, x, fs, dt) ==
  /\ LockInv(c, lk, x) /\ ViewInv(p, c, x, fs) /\ DataInv(p, c, x, dt)

\* Who runs, and who holds the lock.
RunInv(r, pr) ==
  /\ r \in [Procs -> {"serve", "gc", "prune"}]
  /\ \A p, q \in Procs : r[p] = "serve" /\ r[q] = "serve" => p = q
  /\ \A p, q \in Procs : r[p] = "serve" /\ r[q] = "prune" => pr[p].phase \notin Starting
LocksInv(l) ==
  /\ l \in [Procs -> {"none", "shared", "exclusive"}]
  /\ \A p, q \in Procs : p # q /\ l[p] = "exclusive" => l[q] = "none"

FileInv(fs, dt, ac) ==
  /\ fs \in Seq(Frames) /\ Shape(fs) /\ Len(fs) <= MaxFrames
  /\ ac \subseteq Ids(Accepted(fs)) /\ Live(Accepted(fs)) \subseteq dt
  /\ dt \subseteq Objs \cup Junk

IInv ==
  /\ RunInv(run, proc) /\ LocksInv(lock) /\ FileInv(file, data, acked)
  /\ proc \in [Procs -> ProcSet]
  /\ \A p \in Procs : ProcInv(p, run[p], lock[p], proc[p], file, data)
-----------------------------------------------------------------------------
(* Journals as sequences.                                                  *)

\* The frames up to N are whole, and the next one, if there is one, is not.
WholeUpTo(fs, N) == /\ \A i \in 1 .. N : fs[i].state = "whole"
                    /\ N < Len(fs) => fs[N + 1].state # "whole"

\* What Append does to a journal, slot by slot.
LEMMA AppendFacts ==
  ASSUME NEW v \in Seq(Frames), NEW f \in Frames
  PROVE  /\ Append(v, f) \in Seq(Frames) /\ Len(Append(v, f)) = Len(v) + 1 /\ Len(v) \in Nat
         /\ Append(v, f) \in [1 .. Len(v) + 1 -> Frames] /\ v \in [1 .. Len(v) -> Frames]
         /\ DOMAIN Append(v, f) = 1 .. Len(v) + 1 /\ DOMAIN v = 1 .. Len(v)
         /\ \A i \in 1 .. Len(v) : Append(v, f)[i] = v[i]
         /\ Append(v, f)[Len(v) + 1] = f
<1>1. /\ Append(v, f) \in Seq(Frames) /\ Len(Append(v, f)) = Len(v) + 1
      /\ \A i \in 1 .. Len(v) : Append(v, f)[i] = v[i]
      /\ Append(v, f)[Len(v) + 1] = f
  BY AppendProperties
<1>2. /\ Len(v) \in Nat /\ v \in [1 .. Len(v) -> Frames] /\ DOMAIN v = 1 .. Len(v)
  BY LenProperties
<1>3. Append(v, f) \in [1 .. Len(v) + 1 -> Frames] /\ DOMAIN Append(v, f) = 1 .. Len(v) + 1
  BY <1>1, LenProperties
<1> QED  BY <1>1, <1>2, <1>3

\* A prefix of a journal, and Padded cutting the file back to one.
LEMMA PrefixFacts ==
  ASSUME NEW fs \in Seq(Frames), NEW N \in 0 .. Len(fs)
  PROVE  /\ SubSeq(fs, 1, N) \in Seq(Frames) /\ Len(SubSeq(fs, 1, N)) = N
         /\ \A i \in 1 .. N : SubSeq(fs, 1, N)[i] = fs[i]
         /\ Padded(fs, N) = SubSeq(fs, 1, N)
<1>1. Len(fs) \in Nat /\ \A i \in 1 .. N : fs[i] \in Frames  BY ElementOfSeq
<1> DEFINE u == SubSeq(fs, 1, N)
<1>2. u \in Seq(Frames) /\ Len(u) = N /\ \A i \in 1 .. N : u[i] = fs[i]
  BY <1>1, SubSeqProperties
<1>3. u \in [1 .. N -> Frames] /\ N \in Nat  BY <1>2, LenProperties
<1>4. Padded(fs, N) = [i \in 1 .. N |-> fs[i]]
  <2>1. \A i \in 1 .. N : i <= Len(fs)  BY <1>1
  <2> QED  BY <2>1 DEF Padded
<1> HIDE DEF u
<1>5. Padded(fs, N) = u  BY <1>2, <1>3, <1>4
<1> QED  BY <1>2, <1>5 DEF u

\* replayJournal returns the frames before the first one that is not whole.
LEMMA AcceptsPrefix ==
  ASSUME NEW fs \in Seq(Frames), NEW N \in 0 .. Len(fs), WholeUpTo(fs, N)
  PROVE  Accepted(fs) = SubSeq(fs, 1, N)
<1> DEFINE whole == {n \in 0 .. Len(fs) : \A i \in 1 .. n : fs[i].state = "whole"}
           top == CHOOSE n \in whole : \A k \in whole : k <= n
<1>1. N \in whole  BY DEF WholeUpTo
<1>2. ASSUME NEW k \in whole PROVE k <= N
  <2> SUFFICES ASSUME k > N PROVE FALSE  BY <1>1
  <2>1. N + 1 \in 1 .. k /\ N < Len(fs)  BY <1>1
  <2> QED  BY <2>1 DEF WholeUpTo
<1>3. top \in whole /\ \A k \in whole : k <= top  BY <1>1, <1>2
<1>4. top = N
  <2>1. top \in Nat /\ N \in Nat  BY <1>3
  <2>2. top <= N /\ N <= top  BY <1>1, <1>2, <1>3
  <2> HIDE DEF top
  <2> QED  BY <2>1, <2>2
<1> HIDE DEF top
<1>5. Accepted(fs) = SubSeq(fs, 1, top)  BY DEF Accepted, top
<1> QED  BY <1>4, <1>5

\* A journal of whole frames is returned whole, and truncating it changes nothing.
LEMMA AcceptsWhole ==
  ASSUME NEW fs \in Seq(Frames), AllWhole(fs)
  PROVE  Accepted(fs) = fs /\ Padded(fs, Len(fs)) = fs
<1>1. Len(fs) \in Nat /\ Len(fs) \in 0 .. Len(fs)  BY LenProperties
<1>2. WholeUpTo(fs, Len(fs))  BY <1>1 DEF AllWhole, WholeUpTo
<1>3. Accepted(fs) = SubSeq(fs, 1, Len(fs))  BY <1>1, <1>2, AcceptsPrefix
<1>4. SubSeq(fs, 1, Len(fs)) = fs  BY <1>1, PrefixFacts, SeqEqual
<1> QED  BY <1>1, <1>3, <1>4, PrefixFacts

\* A torn frame after whole ones is all that replay drops.
LEMMA AcceptsAllButTorn ==
  ASSUME NEW v \in Seq(Frames), NEW f \in Frames, AllWhole(v), f.state = "torn"
  PROVE  Accepted(Append(v, f)) = v
<1> DEFINE fs == Append(v, f)
<1>1. /\ fs \in Seq(Frames) /\ Len(fs) = Len(v) + 1 /\ fs[Len(v) + 1] = f
      /\ \A i \in 1 .. Len(v) : fs[i] = v[i]
  BY AppendFacts
<1>2. Len(v) \in Nat  BY AppendFacts
<1> HIDE DEF fs
<1>3. WholeUpTo(fs, Len(v)) /\ Len(v) \in 0 .. Len(fs)  BY <1>1, <1>2 DEF AllWhole, WholeUpTo
<1>4. Accepted(fs) = SubSeq(fs, 1, Len(v))  BY <1>1, <1>3, AcceptsPrefix
<1>5. /\ SubSeq(fs, 1, Len(v)) \in Seq(Frames) /\ Len(SubSeq(fs, 1, Len(v))) = Len(v)
      /\ \A i \in 1 .. Len(v) : SubSeq(fs, 1, Len(v))[i] = v[i]
  BY <1>1, <1>3, PrefixFacts
<1>6. SubSeq(fs, 1, Len(v)) = v  BY <1>5, SeqEqual
<1> QED  BY <1>4, <1>6 DEF fs

\* A journal with at most a torn frame at its end opens, and OpenStore's
\* Truncate leaves exactly the frames replay returned.
LEMMA AcceptsShape ==
  ASSUME NEW fs \in Seq(Frames), Shape(fs)
  PROVE  /\ Accepted(fs) \in Seq(Frames) /\ AllWhole(Accepted(fs))
         /\ Len(Accepted(fs)) <= Len(fs)
         /\ Padded(fs, Len(Accepted(fs))) = Accepted(fs)
         /\ Opens(fs)
<1>0. Len(fs) \in Nat  BY LenProperties
<1>1. CASE AllWhole(fs)
  <2>1. Accepted(fs) = fs /\ Padded(fs, Len(fs)) = fs  BY <1>1, AcceptsWhole
  <2> QED  BY <1>0, <1>1, <2>1 DEF Opens
<1>2. CASE ~AllWhole(fs)
  <2> DEFINE N == Len(fs) - 1
  <2>1. Len(fs) > 0 /\ fs[Len(fs)].state = "torn" /\ \A i \in 1 .. N : fs[i].state = "whole"
    BY <1>0, <1>2 DEF AllWhole, Shape
  <2>2. N \in 0 .. Len(fs) /\ N + 1 = Len(fs) /\ N <= Len(fs)  BY <1>0, <2>1
  <2>3. WholeUpTo(fs, N)  BY <1>0, <2>1, <2>2 DEF WholeUpTo
  <2> HIDE DEF N
  <2>4. Accepted(fs) = SubSeq(fs, 1, N)  BY <2>2, <2>3, AcceptsPrefix
  <2>5. /\ SubSeq(fs, 1, N) \in Seq(Frames) /\ Len(SubSeq(fs, 1, N)) = N
        /\ \A i \in 1 .. N : SubSeq(fs, 1, N)[i] = fs[i]
        /\ Padded(fs, N) = SubSeq(fs, 1, N)
    BY <2>2, PrefixFacts
  <2>6. AllWhole(Accepted(fs))  BY <2>3, <2>4, <2>5 DEF AllWhole, WholeUpTo
  <2>7. Opens(fs)  BY <2>1, <2>2, <2>4, <2>5 DEF Opens
  <2> QED  BY <2>2, <2>4, <2>5, <2>6, <2>7
<1> QED  BY <1>1, <1>2

\* WriteAt one past the end appends.
LEMMA WriteAtEnd ==
  ASSUME NEW v \in Seq(Frames), NEW f \in Frames
  PROVE  WriteAt(v, Len(v) + 1, f) = Append(v, f)
<1> DEFINE n == Len(v) + 1
           w == Append(v, f)
<1>1. n \in Nat /\ n > Len(v) /\ n \in 1 .. n  BY AppendFacts
<1>2. /\ w \in [1 .. n -> Frames] /\ w[n] = f
  BY AppendFacts
<1>3. \A i \in 1 .. n : i # n => i \in 1 .. Len(v) /\ i <= Len(v)  BY AppendFacts
<1>4. \A i \in 1 .. n : i # n => w[i] = v[i]  BY <1>3, AppendFacts
<1> HIDE DEF n, w
<1>5. WriteAt(v, n, f) = [[i \in 1 .. n |-> IF i <= Len(v) THEN v[i] ELSE Hole] EXCEPT ![n] = f]
  BY <1>1 DEF WriteAt, Padded
<1>6. WriteAt(v, n, f) = [i \in 1 .. n |-> w[i]]  BY <1>1, <1>2, <1>3, <1>4, <1>5
<1>7. WriteAt(v, n, f) = w  BY <1>2, <1>6
<1> QED  BY <1>7 DEF n, w

\* WriteAt over the torn slot replaces it.
LEMMA WriteAgain ==
  ASSUME NEW v \in Seq(Frames), NEW f \in Frames, NEW g \in Frames
  PROVE  WriteAt(Append(v, g), Len(v) + 1, f) = Append(v, f)
<1> DEFINE n == Len(v) + 1
           fs == Append(v, g)
           w == Append(v, f)
<1>1. n \in Nat /\ Len(fs) = n /\ n \in 1 .. n  BY AppendFacts
<1>2. w \in [1 .. n -> Frames] /\ w[n] = f  BY AppendFacts
<1>3. \A i \in 1 .. n : i # n => i \in 1 .. Len(v)  BY AppendFacts
<1>4. \A i \in 1 .. n : i # n => w[i] = fs[i]  BY <1>3, AppendFacts
<1> HIDE DEF n, fs, w
<1>5. WriteAt(fs, n, f) = [[i \in 1 .. n |-> IF i <= Len(fs) THEN fs[i] ELSE Hole] EXCEPT ![n] = f]
  BY <1>1 DEF WriteAt, Padded
<1>6. \A i \in 1 .. n : i <= Len(fs)  BY <1>1
<1>7. WriteAt(fs, n, f) = [i \in 1 .. n |-> w[i]]  BY <1>1, <1>2, <1>4, <1>5, <1>6
<1>8. WriteAt(fs, n, f) = w  BY <1>2, <1>7
<1> QED  BY <1>8 DEF n, fs, w

\* What an appended frame adds to the names and to what is live.
LEMMA Appended ==
  ASSUME NEW v \in Seq(Frames), NEW f \in Frames
  PROVE  /\ Append(v, f) \in Seq(Frames) /\ Len(Append(v, f)) = Len(v) + 1
         /\ Ids(Append(v, f)) = Ids(v) \cup {f.id}
         /\ Live(Append(v, f)) \subseteq Live(v) \cup f.puts
         /\ AllWhole(v) /\ f.state = "whole" => AllWhole(Append(v, f))
         /\ AllWhole(v) /\ f.state \in {"whole", "torn"} => Shape(Append(v, f))
<1> DEFINE fs == Append(v, f)
<1>1. fs \in Seq(Frames) /\ Len(fs) = Len(v) + 1 /\ fs[Len(v) + 1] = f
      /\ \A i \in 1 .. Len(v) : fs[i] = v[i]
  BY AppendFacts
<1>2. DOMAIN fs = 1 .. Len(v) + 1 /\ DOMAIN v = 1 .. Len(v) /\ Len(v) \in Nat  BY AppendFacts
<1> HIDE DEF fs
<1>3. Ids(fs) = Ids(v) \cup {f.id}  BY <1>1, <1>2 DEF Ids
<1>4. Live(fs) \subseteq Live(v) \cup f.puts  BY <1>1, <1>2 DEF Live
<1>5. AllWhole(v) /\ f.state = "whole" => AllWhole(fs)  BY <1>1, <1>2 DEF AllWhole
<1>6. AllWhole(v) /\ f.state \in {"whole", "torn"} => Shape(fs)
  BY <1>1, <1>2 DEF AllWhole, Shape
<1> QED  BY <1>1, <1>3, <1>4, <1>5, <1>6 DEF fs
-----------------------------------------------------------------------------
(* One process takes a step.                                               *)

OthersSame(f, f2, p) == \A q \in Procs : q # p => f2[q] = f[q]
OthersPlaced(r, l, pr, fs, dt, p) ==
  \A q \in Procs : q # p => ProcInv(q, r[q], l[q], pr[q], fs, dt)

\* A step of one process keeps the invariant when the file, its own state
\* and the view of every other process fit together afterwards.
LEMMA ProcessStep ==
  ASSUME IInv, NEW p \in Procs, run' = run, proc' \in [Procs -> ProcSet],
         OthersSame(proc, proc', p), OthersSame(lock, lock', p), LocksInv(lock'),
         FileInv(file', data', acked'), OthersPlaced(run, lock, proc, file', data', p),
         ProcInv(p, run[p], lock'[p], proc'[p], file', data'),
         proc'[p].phase \in Starting => proc[p].phase \in Starting
  PROVE  IInv'
<1>1. RunInv(run, proc')
  <2>1. \A q \in Procs : proc'[q].phase \in Starting => proc[q].phase \in Starting
    BY DEF OthersSame
  <2> QED  BY <2>1 DEF IInv, RunInv
<1>2. ASSUME NEW q \in Procs PROVE ProcInv(q, run[q], lock'[q], proc'[q], file', data')
  <2>1. CASE q = p  BY <2>1
  <2>2. CASE q # p  BY <2>2 DEF OthersSame, OthersPlaced
  <2> QED  BY <2>1, <2>2
<1> QED  BY <1>1, <1>2 DEF IInv

\* The other processes fit a file and data that do not change.
LEMMA OthersStay ==
  ASSUME IInv, NEW p \in Procs
  PROVE  OthersPlaced(run, lock, proc, file, data, p)
  BY DEF IInv, OthersPlaced

\* The process ends, or is killed, and its lock goes with it.
LEMMA EndStep ==
  ASSUME IInv, NEW p \in Procs, proc' = [proc EXCEPT ![p] = Done(p)],
         Unlocked(p) \/ (lock' = lock /\ lock[p] = "none"), UNCHANGED <<run, file, data, acked>>
  PROVE  IInv'
<1>1. proc \in [Procs -> ProcSet] /\ lock \in [Procs -> {"none", "shared", "exclusive"}]
  BY DEF IInv, LocksInv
<1>2. NewProc \in ProcSet
  <2>1. <<>> \in Seq(Frames)  BY EmptySeq
  <2> QED  BY <2>1 DEF NewProc, ProcSet, Phases
<1>3. Done(p) \in ProcSet /\ Done(p).phase = "gone"
  <2> DEFINE x == NewProc
  <2>1. x \in ProcSet /\ Done(p) = [x EXCEPT !.phase = "gone"]  BY <1>2 DEF Done
  <2> HIDE DEF x
  <2> QED  BY <2>1 DEF ProcSet, Phases
<1> HIDE DEF Done
<1>4. proc' \in [Procs -> ProcSet] /\ OthersSame(proc, proc', p) /\ proc'[p] = Done(p)
  BY <1>1, <1>3 DEF OthersSame
<1>5. lock'[p] = "none" /\ OthersSame(lock, lock', p) /\ LocksInv(lock')
  BY <1>1 DEF Unlocked, OthersSame, LocksInv, IInv
<1>6. ProcInv(p, run[p], lock'[p], proc'[p], file', data')
  BY <1>3, <1>4, <1>5 DEF ProcInv, LockInv, ViewInv, DataInv, Starting
<1>7. proc'[p].phase \notin Starting  BY <1>3, <1>4 DEF Starting
<1>8. FileInv(file', data', acked') /\ OthersPlaced(run, lock, proc, file', data', p)
  BY OthersStay DEF IInv
<1> QED  BY <1>4, <1>5, <1>6, <1>7, <1>8, ProcessStep

\* acquireStoreLock, granted or refused, keeps the invariant.
LEMMA AcquireStoreLockStep ==
  ASSUME IInv, NEW p \in Procs, AcquireStoreLock(p)
  PROVE  IInv'
<1>1. /\ proc \in [Procs -> ProcSet] /\ lock \in [Procs -> {"none", "shared", "exclusive"}]
      /\ run \in [Procs -> {"serve", "gc", "prune"}]
  BY DEF IInv, LocksInv, RunInv
<1>2. ProcInv(p, run[p], lock[p], proc[p], file, data)  BY DEF IInv
<1>3. MayLock(p) /\ UNCHANGED <<run, file, data, acked>>  BY DEF AcquireStoreLock
<1>4. lock[p] = "none"
  BY <1>1, <1>2, <1>3 DEF MayLock, LockedFirst, ProcInv, LockInv, Starting
<1>5. CASE Granted(p)
  <2> DEFINE to == IF run[p] \in LockedFirst THEN "locked" ELSE "open"
  <2>1. lock' = [lock EXCEPT ![p] = Mode(p)] /\ proc' = [proc EXCEPT ![p].phase = to]
    BY <1>5 DEF AcquireStoreLock
  <2>2. to \in Phases  BY DEF Phases
  <2>3. /\ proc' \in [Procs -> ProcSet] /\ OthersSame(proc, proc', p) /\ proc'[p].phase = to
        /\ proc'[p].view = proc[p].view
    BY <2>1, <2>2, <1>1 DEF OthersSame, ProcSet
  <2>4. Mode(p) \in {"shared", "exclusive"}  BY DEF Mode
  <2>5. lock'[p] = Mode(p) /\ OthersSame(lock, lock', p) /\ LocksInv(lock')
    <3>1. lock' \in [Procs -> {"none", "shared", "exclusive"}] /\ lock'[p] = Mode(p)
          /\ OthersSame(lock, lock', p)
      BY <2>1, <2>4, <1>1 DEF OthersSame
    <3>2. \A q \in Procs : q # p => lock[q] # "exclusive" /\ (Mode(p) = "exclusive" => lock[q] = "none")
      BY <1>5 DEF Granted
    <3> QED  BY <3>1, <3>2 DEF OthersSame, LocksInv, IInv
  <2>6. ProcInv(p, run[p], lock'[p], proc'[p], file, data)
    <3>1. CASE run[p] = "serve"
      <4>1. proc[p].phase = "opened" /\ to = "open" /\ Mode(p) = "shared"
        BY <3>1, <1>3 DEF MayLock, LockedFirst, Mode, Exclusive
      <4> QED  BY <4>1, <3>1, <2>3, <2>5, <1>2 DEF ProcInv, LockInv, ViewInv, DataInv, Starting
    <3>2. CASE run[p] # "serve"
      <4>1. run[p] \in {"gc", "prune"}  BY <3>2, <1>1
      <4>2. to = "locked" /\ Mode(p) = "exclusive"  BY <4>1 DEF LockedFirst, Mode, Exclusive
      <4> QED  BY <4>1, <4>2, <3>2, <2>3, <2>5 DEF ProcInv, LockInv, ViewInv, DataInv, Starting
    <3> QED  BY <3>1, <3>2
  <2>7. proc'[p].phase \notin Starting  BY <2>3 DEF Starting
  <2>8. FileInv(file', data', acked') /\ OthersPlaced(run, lock, proc, file', data', p)
    BY <1>3, OthersStay DEF IInv
  <2> QED  BY <1>3, <2>3, <2>5, <2>6, <2>7, <2>8, ProcessStep
<1>6. CASE ~Granted(p)
  <2>1. proc' = [proc EXCEPT ![p] = Done(p)] /\ lock' = lock  BY <1>6 DEF AcquireStoreLock
  <2> QED  BY <2>1, <1>3, <1>4, EndStep
<1> QED  BY <1>5, <1>6

\* A command that ends or is killed keeps the invariant.
LEMMA CloseStep == ASSUME IInv, NEW p \in Procs, Close(p) \/ Kill(p) PROVE IInv'
  BY EndStep DEF Close, Kill

\* replayJournal keeps the invariant: what it loads is the journal as it is.
LEMMA ReplayJournalStep == ASSUME IInv, NEW p \in Procs, ReplayJournal(p) PROVE IInv'
<1>1. /\ proc \in [Procs -> ProcSet] /\ run \in [Procs -> {"serve", "gc", "prune"}]
      /\ file \in Seq(Frames) /\ Shape(file)
  BY DEF IInv, RunInv, FileInv
<1>2. ProcInv(p, run[p], lock[p], proc[p], file, data)  BY DEF IInv
<1>3. /\ MayOpen(p) /\ proc' = [proc EXCEPT ![p].phase = "replayed", ![p].view = Accepted(file)]
      /\ UNCHANGED <<run, file, data, acked, lock>>
  BY DEF ReplayJournal
<1>4. Accepted(file) \in Seq(Frames)  BY <1>1, AcceptsShape
<1>5. /\ proc' \in [Procs -> ProcSet] /\ OthersSame(proc, proc', p)
      /\ proc'[p].phase = "replayed" /\ proc'[p].view = Accepted(file)
  BY <1>1, <1>3, <1>4 DEF OthersSame, ProcSet, Phases
<1>6. ProcInv(p, run[p], lock[p], proc'[p], file, data) /\ (run[p] = "serve" => proc[p].phase = "new")
  <2>1. CASE run[p] = "serve"
    <3>1. proc[p].phase = "new"  BY <2>1, <1>3 DEF MayOpen, LockedFirst
    <3> QED  BY <3>1, <2>1, <1>2, <1>5 DEF ProcInv, LockInv, ViewInv, DataInv, Starting
  <2>2. CASE run[p] # "serve"
    <3>1. run[p] \in {"gc", "prune"}  BY <2>2, <1>1
    <3>2. proc[p].phase = "locked"  BY <3>1, <1>3 DEF MayOpen, LockedFirst
    <3> QED  BY <3>2, <2>2, <1>2, <1>5 DEF ProcInv, LockInv, ViewInv, DataInv, Starting
  <2> QED  BY <2>1, <2>2
<1> QED
  <2>1. FileInv(file', data', acked') /\ LocksInv(lock')  BY <1>3 DEF IInv
  <2>2. RunInv(run, proc')
    <3>1. \A q \in Procs : run[q] = "serve" /\ proc'[q].phase \in Starting => proc[q].phase \in Starting
      BY <1>5, <1>6 DEF OthersSame, Starting
    <3> QED  BY <3>1 DEF IInv, RunInv
  <2>3. \A q \in Procs : ProcInv(q, run[q], lock[q], proc'[q], file, data)
    BY <1>5, <1>6, OthersStay DEF OthersSame, OthersPlaced
  <2> QED  BY <2>1, <2>2, <2>3, <1>3, <1>5 DEF IInv
-----------------------------------------------------------------------------
(* Who may be beside a process that changes the file or the data.          *)

\* No step of another process matters to one that is not started or over.
LEMMA IdlePlaced ==
  ASSUME NEW q, NEW c, NEW lk, NEW x, NEW fs, NEW dt, NEW fs2, NEW dt2,
         ProcInv(q, c, lk, x, fs, dt), x.phase \in {"new", "gone"}, c = "serve" => x.phase = "gone"
  PROVE  ProcInv(q, c, lk, x, fs2, dt2)
  BY DEF ProcInv, LockInv, ViewInv, DataInv, Starting

\* Beside the holder of the exclusive lock others are not started, over, or
\* a server that has not asked for the lock yet.
LEMMA BesideExclusive ==
  ASSUME IInv, NEW p \in Procs, lock[p] = "exclusive", NEW q \in Procs, q # p
  PROVE  \/ proc[q].phase \in {"new", "gone"} /\ (run[q] = "serve" => proc[q].phase = "gone")
         \/ run[q] = "serve" /\ proc[q].phase \in Starting
<1>1. lock[q] = "none"  BY DEF IInv, LocksInv
<1>2. ProcInv(q, run[q], lock[q], proc[q], file, data)  BY DEF IInv
<1> QED  BY <1>1, <1>2 DEF ProcInv, LockInv, Starting

\* Beside the running server every other command is not started or over.
LEMMA BesideServer ==
  ASSUME IInv, NEW p \in Procs, run[p] = "serve", lock[p] = "shared", NEW q \in Procs, q # p
  PROVE  run[q] # "serve" /\ proc[q].phase \in {"new", "gone"}
<1>1. lock[q] # "exclusive" /\ run[q] # "serve"  BY DEF IInv, LocksInv, RunInv
<1>2. ProcInv(q, run[q], lock[q], proc[q], file, data)  BY DEF IInv
<1> QED  BY <1>1, <1>2 DEF ProcInv, LockInv

\* Beside a process that writes the journal nobody has loaded it.
LEMMA OthersIdle ==
  ASSUME IInv, NEW p \in Procs,
         \/ proc[p].phase \in {"published", "writing", "written"}
         \/ run[p] = "prune" /\ proc[p].phase = "open",
         NEW fs, NEW dt
  PROVE  OthersPlaced(run, lock, proc, fs, dt, p)
<1>1. ProcInv(p, run[p], lock[p], proc[p], file, data)  BY DEF IInv
<1>2. \/ run[p] = "serve" /\ lock[p] = "shared"
      \/ run[p] = "prune" /\ lock[p] = "exclusive"
  <2>1. run[p] \in {"serve", "gc", "prune"}  BY DEF IInv, RunInv
  <2> QED  BY <1>1, <2>1 DEF ProcInv, LockInv
<1>3. ASSUME NEW q \in Procs, q # p PROVE ProcInv(q, run[q], lock[q], proc[q], fs, dt)
  <2>1. ProcInv(q, run[q], lock[q], proc[q], file, data)  BY DEF IInv
  <2>2. proc[q].phase \in {"new", "gone"} /\ (run[q] = "serve" => proc[q].phase = "gone")
    <3>1. CASE run[p] = "serve" /\ lock[p] = "shared"  BY <1>3, <3>1, BesideServer
    <3>2. CASE run[p] = "prune" /\ lock[p] = "exclusive"
      <4>1. ~(run[q] = "serve" /\ proc[q].phase \in Starting)  BY <3>2 DEF IInv, RunInv
      <4> QED  BY <1>3, <3>2, <4>1, BesideExclusive
    <3> QED  BY <1>2, <3>1, <3>2
  <2> QED  BY <2>1, <2>2, IdlePlaced
<1> QED  BY <1>3 DEF OthersPlaced

\* OpenStore's Truncate keeps the invariant: the tail it cuts is nobody's.
LEMMA TruncateTailStep == ASSUME IInv, NEW p \in Procs, TruncateTail(p) PROVE IInv'
<1>1. /\ proc \in [Procs -> ProcSet] /\ run \in [Procs -> {"serve", "gc", "prune"}]
      /\ file \in Seq(Frames) /\ Shape(file) /\ Len(file) <= MaxFrames /\ MaxFrames \in Nat
  BY OwnershipAssumption DEF IInv, RunInv, FileInv
<1>2. ProcInv(p, run[p], lock[p], proc[p], file, data)  BY DEF IInv
<1> DEFINE to == IF run[p] = "serve" THEN "opened" ELSE "open"
<1>3. /\ proc[p].phase = "replayed" /\ file' = Padded(file, Len(proc[p].view))
      /\ proc' = [proc EXCEPT ![p].phase = to] /\ UNCHANGED <<run, data, acked, lock>>
  BY DEF TruncateTail
<1>4. proc[p].view = Accepted(file)  BY <1>2, <1>3 DEF ProcInv, ViewInv
<1>5. /\ Accepted(file) \in Seq(Frames) /\ AllWhole(Accepted(file))
      /\ Len(Accepted(file)) <= Len(file) /\ file' = Accepted(file)
  BY <1>1, <1>3, <1>4, AcceptsShape
<1>6. Accepted(file') = file' /\ file' \in Seq(Frames) /\ AllWhole(file')
  BY <1>5, AcceptsWhole
<1>7. FileInv(file', data', acked')
  <2>1. Len(file') \in Nat /\ Len(file) \in Nat /\ Len(file') <= Len(file)
    BY <1>1, <1>5, LenProperties
  <2>2. Len(file') <= MaxFrames  BY <2>1, <1>1
  <2>3. Shape(file')  BY <1>6 DEF Shape, AllWhole
  <2>4. Accepted(file') = Accepted(file)  BY <1>5, <1>6
  <2> QED  BY <1>3, <1>6, <2>2, <2>3, <2>4 DEF IInv, FileInv
<1>8. /\ proc' \in [Procs -> ProcSet] /\ OthersSame(proc, proc', p) /\ proc'[p].phase = to
      /\ proc'[p].view = proc[p].view
  BY <1>1, <1>3 DEF OthersSame, ProcSet, Phases
<1>9. OthersPlaced(run, lock, proc, file', data', p)
  <2>1. CASE AllWhole(file)
    <3>1. file' = file  BY <2>1, <1>1, <1>5, AcceptsWhole
    <3> QED  BY <3>1, <1>3, OthersStay
  <2>2. CASE ~AllWhole(file)
    <3>1. \A q \in Procs : ~(run[q] = "serve" /\ proc[q].phase \in Starting)
      BY <2>2 DEF IInv, ProcInv, ViewInv
    <3>2. run[p] # "serve"  BY <3>1, <1>3 DEF Starting
    <3>3. lock[p] = "exclusive"  BY <3>2, <1>2, <1>3 DEF ProcInv, LockInv
    <3>4. ASSUME NEW q \in Procs, q # p PROVE ProcInv(q, run[q], lock[q], proc[q], file', data')
      <4>1. ProcInv(q, run[q], lock[q], proc[q], file, data)  BY DEF IInv
      <4>2. proc[q].phase \in {"new", "gone"} /\ (run[q] = "serve" => proc[q].phase = "gone")
        BY <3>1, <3>3, <3>4, BesideExclusive
      <4> QED  BY <4>1, <4>2, IdlePlaced
    <3> QED  BY <3>4 DEF OthersPlaced
  <2> QED  BY <2>1, <2>2
<1>10. ProcInv(p, run[p], lock'[p], proc'[p], file', data')
  <2>1. file' = proc'[p].view  BY <1>4, <1>5, <1>8
  <2>2. CASE run[p] = "serve"
    BY <2>1, <2>2, <1>2, <1>3, <1>6, <1>8 DEF ProcInv, LockInv, ViewInv, DataInv, Starting
  <2>3. CASE run[p] # "serve"
    BY <2>1, <2>3, <1>2, <1>3, <1>6, <1>8 DEF ProcInv, LockInv, ViewInv, DataInv, Starting
  <2> QED  BY <2>2, <2>3
<1>11. proc'[p].phase \in Starting => proc[p].phase \in Starting  BY <1>3 DEF Starting
<1>12. OthersSame(lock, lock', p) /\ LocksInv(lock')  BY <1>3 DEF OthersSame, IInv
<1> QED  BY <1>3, <1>7, <1>8, <1>9, <1>10, <1>11, <1>12, ProcessStep
-----------------------------------------------------------------------------
(* A server and a prune write a frame.                                     *)

\* What a journal keeps live are objects.
LEMMA LiveObjs == ASSUME NEW v \in Seq(Frames) PROVE Live(v) \subseteq Objs
<1>1. \A i \in DOMAIN v : v[i] \in Frames  BY LenProperties
<1>2. \A i \in DOMAIN v : v[i].puts \subseteq Objs  BY <1>1 DEF Frames
<1> QED  BY <1>2 DEF Live

\* f is the frame process p writes with command c after the frames v.
FrameFor(f, p, c, v, st) ==
  /\ f \in Frames /\ f.state = st /\ f.id = <<p, Len(v) + 1>> /\ f.id \in Objs
  /\ f.puts = IF c = "serve" THEN {f.id} ELSE {}

\* The frame a process writes is a frame, with the name after what it loaded.
LEMMA FrameOfFacts ==
  ASSUME NEW p \in Procs, NEW c, NEW v \in Seq(Frames), NEW st \in {"torn", "whole"}
  PROVE  FrameFor(FrameOf(p, c, v, st), p, c, v, st)
<1> DEFINE id == <<p, Len(v) + 1>>
           h == History(v)
<1>1. id \in Objs  BY LenProperties DEF Objs
<1>2. h \subseteq Objs  BY LiveObjs DEF History
<1> HIDE DEF id, h
<1>3. FrameOf(p, c, v, st) = IF c = "serve" THEN [id |-> id, puts |-> {id}, drops |-> {}, state |-> st]
                             ELSE [id |-> id, puts |-> {}, drops |-> h, state |-> st]
  BY DEF FrameOf, Frame, id, h
<1>4. CASE c = "serve"  BY <1>1, <1>3, <1>4 DEF FrameFor, Frames, id
<1>5. CASE c # "serve"  BY <1>1, <1>2, <1>3, <1>5 DEF FrameFor, Frames, id
<1> QED  BY <1>4, <1>5

\* NextFrame as a function of the process's state.
LEMMA NextFrameIs == \A p, st : NextFrame(p, st) = FrameOf(p, run[p], proc[p].view, st)
  BY DEF NextFrame, FrameOf, NextId

\* More data on disk disturbs no process.
LEMMA MoreData ==
  ASSUME NEW q, NEW c, NEW lk, NEW x, NEW fs, NEW dt, NEW dt2, dt \subseteq dt2,
         ProcInv(q, c, lk, x, fs, dt)
  PROVE  ProcInv(q, c, lk, x, fs, dt2)
  BY DEF ProcInv, DataInv

\* Publishing an object before its frame keeps the invariant.
LEMMA PutObjectStep == ASSUME IInv, NEW p \in Procs, PutObject(p) PROVE IInv'
<1>1. proc \in [Procs -> ProcSet] /\ FileInv(file, data, acked)  BY DEF IInv
<1>2. ProcInv(p, run[p], lock[p], proc[p], file, data)  BY DEF IInv
<1>3. /\ run[p] = "serve" /\ proc[p].phase = "open" /\ Len(proc[p].view) < MaxFrames
      /\ data' = data \cup {<<p, Len(proc[p].view) + 1>>}
      /\ proc' = [proc EXCEPT ![p].phase = "published"] /\ UNCHANGED <<run, file, acked, lock>>
  BY DEF PutObject, NextId
<1>4. proc[p].view \in Seq(Frames)  BY <1>1 DEF ProcSet
<1>5. <<p, Len(proc[p].view) + 1>> \in Objs
  BY <1>4, LenProperties DEF Objs
<1>6. FileInv(file', data', acked')  BY <1>1, <1>3, <1>5 DEF FileInv
<1>7. /\ proc' \in [Procs -> ProcSet] /\ OthersSame(proc, proc', p)
      /\ proc'[p].phase = "published" /\ proc'[p].view = proc[p].view
  BY <1>1, <1>3 DEF OthersSame, ProcSet, Phases
<1>8. OthersPlaced(run, lock, proc, file', data', p)
  <2>1. OthersPlaced(run, lock, proc, file, data, p) /\ data \subseteq data' /\ file' = file
    BY <1>3, OthersStay
  <2> QED  BY <2>1, MoreData DEF OthersPlaced
<1>9. ProcInv(p, run[p], lock'[p], proc'[p], file', data')
  <2>1. /\ file' = proc'[p].view /\ AllWhole(file') /\ Len(proc'[p].view) < MaxFrames
        /\ lock'[p] = "shared" /\ <<p, Len(proc'[p].view) + 1>> \in data'
    BY <1>2, <1>3, <1>7 DEF ProcInv, LockInv, ViewInv
  <2> QED  BY <2>1, <1>3, <1>7 DEF ProcInv, LockInv, ViewInv, DataInv, Starting
<1>10. proc'[p].phase \notin Starting  BY <1>7 DEF Starting
<1>11. OthersSame(lock, lock', p) /\ LocksInv(lock')  BY <1>3 DEF OthersSame, IInv
<1> QED  BY <1>3, <1>6, <1>7, <1>8, <1>9, <1>10, <1>11, ProcessStep

\* What p writes goes after the frames it has loaded, which are the journal.
LEMMA AppendFrameStep ==
  ASSUME IInv, NEW p \in Procs, NEW st \in {"torn", "whole"}, AppendFrame(p, st)
  PROVE  IInv'
<1> DEFINE v == proc[p].view
           f == FrameOf(p, run[p], v, st)
           g == FrameOf(p, run[p], v, "torn")
           to == IF st = "torn" THEN "writing" ELSE "written"
<1>1. /\ proc \in [Procs -> ProcSet] /\ run \in [Procs -> {"serve", "gc", "prune"}]
      /\ FileInv(file, data, acked) /\ MaxFrames \in Nat
  BY OwnershipAssumption DEF IInv, RunInv
<1>2. ProcInv(p, run[p], lock[p], proc[p], file, data)  BY DEF IInv
<1>3. /\ \/ st = "torn" /\ MayAppend(p)
         \/ st = "whole" /\ proc[p].phase = "writing"
      /\ file' = WriteAt(file, Len(v) + 1, f)
      /\ proc' = [proc EXCEPT ![p].phase = to] /\ UNCHANGED <<run, data, acked, lock>>
  BY NextFrameIs DEF AppendFrame
<1>4. v \in Seq(Frames) /\ Len(v) \in Nat  BY <1>1, LenProperties DEF ProcSet
<1>5. /\ f \in Frames /\ f.state = st /\ f.id = <<p, Len(v) + 1>> /\ g \in Frames /\ g.state = "torn"
      /\ f.puts = IF run[p] = "serve" THEN {<<p, Len(v) + 1>>} ELSE {}
  <2>1. FrameFor(f, p, run[p], v, st) /\ FrameFor(g, p, run[p], v, "torn")  BY <1>4, FrameOfFacts
  <2> HIDE DEF v, f, g
  <2> QED  BY <2>1 DEF FrameFor
<1>6. /\ \/ proc[p].phase \in {"published", "writing", "written"}
         \/ run[p] = "prune" /\ proc[p].phase = "open"
      /\ run[p] \in {"serve", "prune"} /\ Len(v) < MaxFrames /\ AllWhole(v)
      /\ (run[p] = "serve" => <<p, Len(v) + 1>> \in data)
      /\ lock[p] = IF run[p] = "serve" THEN "shared" ELSE "exclusive"
  BY <1>1, <1>2, <1>3 DEF MayAppend, ProcInv, LockInv, ViewInv, DataInv
<1>7. \/ st = "torn" /\ file = v
      \/ st = "whole" /\ file = Append(v, g)
  BY <1>2, <1>3 DEF MayAppend, ProcInv, ViewInv
<1>8. /\ proc' \in [Procs -> ProcSet] /\ OthersSame(proc, proc', p)
      /\ proc'[p].phase = to /\ proc'[p].view = v
  BY <1>1, <1>3 DEF OthersSame, ProcSet, Phases
<1> HIDE DEF v, f, g
<1>9. file' = Append(v, f)
  BY <1>3, <1>4, <1>5, <1>7, WriteAtEnd, WriteAgain
<1>10. Accepted(file) = v
  BY <1>4, <1>5, <1>6, <1>7, AcceptsWhole, AcceptsAllButTorn
<1>11. /\ file' \in Seq(Frames) /\ Len(file') = Len(v) + 1
       /\ Ids(file') = Ids(v) \cup {f.id} /\ Live(file') \subseteq Live(v) \cup f.puts
       /\ (f.state = "whole" => AllWhole(file')) /\ Shape(file')
  BY <1>4, <1>5, <1>6, <1>9, Appended
<1>12. FileInv(file', data', acked')
  <2>1. Len(file') <= MaxFrames  BY <1>1, <1>4, <1>6, <1>11
  <2>2. acked \subseteq Ids(v) /\ Live(v) \subseteq data /\ data \subseteq Objs \cup Junk
    BY <1>1, <1>10 DEF FileInv
  <2>3. acked \subseteq Ids(Accepted(file')) /\ Live(Accepted(file')) \subseteq data
    <3>1. CASE st = "torn"
      <4>1. Accepted(file') = v  BY <3>1, <1>4, <1>5, <1>6, <1>9, AcceptsAllButTorn
      <4> QED  BY <4>1, <2>2
    <3>2. CASE st = "whole"
      <4>1. Accepted(file') = file'  BY <3>2, <1>5, <1>11, AcceptsWhole
      <4>2. f.puts \subseteq data  BY <1>5, <1>6
      <4> QED  BY <4>1, <4>2, <2>2, <1>11
    <3> QED  BY <3>1, <3>2
  <2> QED  BY <1>3, <1>11, <2>1, <2>2, <2>3 DEF FileInv
<1>13. OthersPlaced(run, lock, proc, file', data', p)  BY <1>6, OthersIdle
<1>14. ProcInv(p, run[p], lock'[p], proc'[p], file', data')
  <2>1. file' = Append(proc'[p].view, FrameOf(p, run[p], proc'[p].view, st))
    BY <1>8, <1>9 DEF f
  <2>2. /\ AllWhole(proc'[p].view) /\ Len(proc'[p].view) < MaxFrames /\ lock' = lock
        /\ (run[p] = "serve" => <<p, Len(proc'[p].view) + 1>> \in data')
    BY <1>3, <1>6, <1>8
  <2>3. CASE st = "torn"
    BY <2>1, <2>2, <2>3, <1>6, <1>8 DEF ProcInv, LockInv, ViewInv, DataInv, Starting
  <2>4. CASE st = "whole"
    BY <2>1, <2>2, <2>4, <1>6, <1>8 DEF ProcInv, LockInv, ViewInv, DataInv, Starting
  <2> QED  BY <2>3, <2>4
<1>15. proc'[p].phase \notin Starting  BY <1>8 DEF Starting
<1>16. OthersSame(lock, lock', p) /\ LocksInv(lock')  BY <1>3 DEF OthersSame, IInv
<1> QED  BY <1>3, <1>8, <1>12, <1>13, <1>14, <1>15, <1>16, ProcessStep

\* Applying and acknowledging a frame keeps the invariant: it is in the file.
LEMMA AcknowledgeStep == ASSUME IInv, NEW p \in Procs, Acknowledge(p) PROVE IInv'
<1> DEFINE v == proc[p].view
           f == FrameOf(p, run[p], v, "whole")
<1>1. /\ proc \in [Procs -> ProcSet] /\ run \in [Procs -> {"serve", "gc", "prune"}]
      /\ FileInv(file, data, acked)
  BY DEF IInv, RunInv
<1>2. ProcInv(p, run[p], lock[p], proc[p], file, data)  BY DEF IInv
<1>3. /\ proc[p].phase = "written" /\ acked' = acked \cup {<<p, Len(v) + 1>>}
      /\ proc' = [proc EXCEPT ![p].view = Append(v, f), ![p].phase = "open"]
      /\ UNCHANGED <<run, file, data, lock>>
  BY NextFrameIs DEF Acknowledge, NextId
<1>4. v \in Seq(Frames)  BY <1>1 DEF ProcSet
<1>5. f \in Frames /\ f.state = "whole" /\ f.id = <<p, Len(v) + 1>>
  <2>1. FrameFor(f, p, run[p], v, "whole")  BY <1>4, FrameOfFacts
  <2> HIDE DEF v, f
  <2> QED  BY <2>1 DEF FrameFor
<1>6. file = Append(v, f) /\ AllWhole(v)  BY <1>2, <1>3 DEF ProcInv, ViewInv
<1>7. /\ file \in Seq(Frames) /\ AllWhole(file) /\ Ids(file) = Ids(v) \cup {f.id}
  BY <1>4, <1>5, <1>6, Appended
<1>8. Accepted(file) = file  BY <1>7, AcceptsWhole
<1>9. /\ proc' \in [Procs -> ProcSet] /\ OthersSame(proc, proc', p)
      /\ proc'[p].phase = "open" /\ proc'[p].view = file
  <2>1. proc' = [proc EXCEPT ![p].view = file, ![p].phase = "open"]  BY <1>3, <1>6
  <2> HIDE DEF v, f
  <2> QED  BY <2>1, <1>1, <1>7 DEF OthersSame, ProcSet, Phases
<1> HIDE DEF v, f
<1>10. FileInv(file', data', acked')  BY <1>1, <1>3, <1>5, <1>7, <1>8 DEF FileInv
<1>11. OthersPlaced(run, lock, proc, file', data', p)  BY <1>3, OthersStay
<1>12. ProcInv(p, run[p], lock'[p], proc'[p], file', data')
  <2>1. \/ run[p] = "serve" /\ lock[p] = "shared"
        \/ run[p] = "prune" /\ lock[p] = "exclusive"
    BY <1>1, <1>2, <1>3 DEF ProcInv, LockInv
  <2> QED  BY <2>1, <1>3, <1>7, <1>9 DEF ProcInv, LockInv, ViewInv, DataInv, Starting
<1>13. proc'[p].phase \notin Starting  BY <1>9 DEF Starting
<1>14. OthersSame(lock, lock', p) /\ LocksInv(lock')  BY <1>3 DEF OthersSame, IInv
<1> QED  BY <1>3, <1>9, <1>10, <1>11, <1>12, <1>13, <1>14, ProcessStep
-----------------------------------------------------------------------------
(* A collector lists and removes.                                          *)

\* Listing garbage keeps the invariant: nothing listed is live.
LEMMA ScanGarbageStep == ASSUME IInv, NEW p \in Procs, ScanGarbage(p) PROVE IInv'
<1>1. proc \in [Procs -> ProcSet] /\ FileInv(file, data, acked)  BY DEF IInv
<1>2. ProcInv(p, run[p], lock[p], proc[p], file, data)  BY DEF IInv
<1> DEFINE trash == data \ Live(proc[p].view)
<1>3. /\ run[p] = "gc" /\ proc[p].phase = "open"
      /\ proc' = [proc EXCEPT ![p].phase = "sweeping", ![p].garbage = trash]
      /\ UNCHANGED <<run, file, data, acked, lock>>
  BY DEF ScanGarbage, Referenced
<1>4. trash \in SUBSET (Objs \cup Junk)  BY <1>1 DEF FileInv
<1>5. trash \cap Live(proc[p].view) = {}  OBVIOUS
<1> HIDE DEF trash
<1>6. /\ proc' \in [Procs -> ProcSet] /\ OthersSame(proc, proc', p)
      /\ proc'[p].phase = "sweeping" /\ proc'[p].view = proc[p].view /\ proc'[p].garbage = trash
  BY <1>1, <1>3, <1>4 DEF OthersSame, ProcSet, Phases
<1>7. OthersPlaced(run, lock, proc, file', data', p) /\ FileInv(file', data', acked')
  BY <1>1, <1>3, OthersStay
<1>8. ProcInv(p, run[p], lock'[p], proc'[p], file', data')
  BY <1>2, <1>3, <1>5, <1>6 DEF ProcInv, LockInv, ViewInv, DataInv, Starting
<1>9. proc'[p].phase \notin Starting  BY <1>6 DEF Starting
<1>10. OthersSame(lock, lock', p) /\ LocksInv(lock')  BY <1>3 DEF OthersSame, IInv
<1> QED  BY <1>3, <1>6, <1>7, <1>8, <1>9, <1>10, ProcessStep

\* A process that is not started, over, or a server starting needs no data.
LEMMA NeedsNoData ==
  ASSUME NEW q, NEW c, NEW lk, NEW x, NEW fs, NEW dt, NEW dt2,
         ProcInv(q, c, lk, x, fs, dt), x.phase \in Starting \cup {"gone"}
  PROVE  ProcInv(q, c, lk, x, fs, dt2)
  BY DEF ProcInv, DataInv, Starting

\* Removing what was listed keeps the invariant: the journal it was listed
\* from is still the journal.
LEMMA RemoveGarbageStep == ASSUME IInv, NEW p \in Procs, RemoveGarbage(p) PROVE IInv'
<1>1. /\ proc \in [Procs -> ProcSet] /\ FileInv(file, data, acked)
      /\ run \in [Procs -> {"serve", "gc", "prune"}]
  BY DEF IInv, RunInv
<1>2. ProcInv(p, run[p], lock[p], proc[p], file, data)  BY DEF IInv
<1>3. proc[p].phase = "sweeping" /\ UNCHANGED <<run, file, acked, lock>>
  BY DEF RemoveGarbage
<1>4. /\ run[p] # "serve" /\ lock[p] = "exclusive" /\ file = proc[p].view /\ AllWhole(file)
      /\ proc[p].garbage \cap Live(file) = {}
  BY <1>1, <1>2, <1>3 DEF ProcInv, LockInv, ViewInv, DataInv, Starting
<1>5. OthersPlaced(run, lock, proc, file', data', p)
  <2>1. ASSUME NEW q \in Procs, q # p PROVE ProcInv(q, run[q], lock[q], proc[q], file, data')
    <3>1. proc[q].phase \in Starting \cup {"gone"}
      BY <1>4, <2>1, BesideExclusive DEF Starting
    <3>2. ProcInv(q, run[q], lock[q], proc[q], file, data)  BY DEF IInv
    <3> QED  BY <3>1, <3>2, NeedsNoData
  <2> QED  BY <2>1, <1>3 DEF OthersPlaced
<1>6. Accepted(file) = file  BY <1>1, <1>4, AcceptsWhole DEF FileInv
<1>7. OthersSame(lock, lock', p) /\ LocksInv(lock')  BY <1>3 DEF OthersSame, IInv
<1>8. ASSUME NEW x \in proc[p].garbage, data' = data \ {x},
             proc' = [proc EXCEPT ![p].garbage = @ \ {x}]
      PROVE  IInv'
  <2>1. /\ proc' \in [Procs -> ProcSet] /\ OthersSame(proc, proc', p)
        /\ proc'[p].phase = "sweeping" /\ proc'[p].view = proc[p].view
        /\ proc'[p].garbage \subseteq proc[p].garbage
    BY <1>1, <1>3, <1>8 DEF OthersSame, ProcSet
  <2>2. FileInv(file', data', acked')
    BY <1>1, <1>3, <1>4, <1>6, <1>8 DEF FileInv
  <2>3. ProcInv(p, run[p], lock'[p], proc'[p], file', data')
    BY <1>2, <1>3, <1>4, <2>1 DEF ProcInv, LockInv, ViewInv, DataInv, Starting
  <2>4. proc'[p].phase \notin Starting  BY <2>1 DEF Starting
  <2> QED  BY <1>3, <1>5, <1>7, <2>1, <2>2, <2>3, <2>4, ProcessStep
<1>9. ASSUME data' = data, proc' = [proc EXCEPT ![p].phase = "open"]
      PROVE  IInv'
  <2>1. /\ proc' \in [Procs -> ProcSet] /\ OthersSame(proc, proc', p)
        /\ proc'[p].phase = "open" /\ proc'[p].view = proc[p].view
    BY <1>1, <1>9 DEF OthersSame, ProcSet, Phases
  <2>2. FileInv(file', data', acked')  BY <1>1, <1>3, <1>9
  <2>3. ProcInv(p, run[p], lock'[p], proc'[p], file', data')
    BY <1>2, <1>3, <1>4, <2>1 DEF ProcInv, LockInv, ViewInv, DataInv, Starting
  <2>4. proc'[p].phase \notin Starting  BY <2>1 DEF Starting
  <2> QED  BY <1>3, <1>5, <1>7, <2>1, <2>2, <2>3, <2>4, ProcessStep
<1> QED  BY <1>8, <1>9 DEF RemoveGarbage
-----------------------------------------------------------------------------
(* The theorems.                                                           *)

\* fs holds one whole frame for each existing object, in some order.
Begins(fs) == \E seq \in [1 .. Cardinality(Existing) -> Existing] :
  /\ \A o \in Existing : \E i \in DOMAIN seq : seq[i] = o
  /\ fs = [i \in DOMAIN seq |-> Frame(seq[i], {seq[i]}, {}, "whole")]

\* The journal a store begins with names its objects and opens.
LEMMA BeginsWell ==
  ASSUME NEW fs, Begins(fs)
  PROVE  FileInv(fs, Existing \cup Junk, Existing) /\ AllWhole(fs)
<1> DEFINE n == Cardinality(Existing)
<1>1. n \in Nat /\ n <= MaxFrames  BY OwnershipAssumption, FS_CardinalityType
<1> HIDE DEF n
<1>2. PICK seq \in [1 .. n -> Existing] :
        /\ \A o \in Existing : \E i \in 1 .. n : seq[i] = o
        /\ fs = [i \in 1 .. n |-> Frame(seq[i], {seq[i]}, {}, "whole")]
  BY DEF Begins, n
<1>3. \A i \in 1 .. n : Frame(seq[i], {seq[i]}, {}, "whole") \in Frames
  BY DEF Frame, Frames, Objs
<1>4. fs \in [1 .. n -> Frames]  BY <1>2, <1>3
<1>5. fs \in Seq(Frames) /\ Len(fs) = n /\ DOMAIN fs = 1 .. n
  <2>1. fs \in Seq(Frames)  BY <1>1, <1>4
  <2>2. Len(fs) \in Nat /\ DOMAIN fs = 1 .. Len(fs)  BY <2>1, LenProperties
  <2>3. 1 .. Len(fs) = 1 .. n  BY <1>4, <2>2
  <2>4. Len(fs) = n
    <3> DEFINE m == Len(fs)
    <3>1. m \in Nat /\ 1 .. m = 1 .. n  BY <2>2, <2>3
    <3> HIDE DEF m
    <3>2. m = n
      <4>1. CASE m > n
        <5>1. m \in 1 .. m /\ m \notin 1 .. n  BY <4>1, <3>1, <1>1
        <5> QED  BY <5>1, <3>1
      <4>2. CASE n > m
        <5>1. n \in 1 .. n /\ n \notin 1 .. m  BY <4>2, <3>1, <1>1
        <5> QED  BY <5>1, <3>1
      <4> QED  BY <4>1, <4>2, <3>1, <1>1
    <3> QED  BY <3>2 DEF m
  <2> QED  BY <2>1, <2>2, <2>4
<1>6. \A i \in 1 .. n : fs[i].id = seq[i] /\ fs[i].puts = {seq[i]} /\ fs[i].state = "whole"
  BY <1>2 DEF Frame
<1>7. AllWhole(fs)  BY <1>5, <1>6 DEF AllWhole
<1>8. Accepted(fs) = fs  BY <1>5, <1>7, AcceptsWhole
<1>9. ASSUME NEW o \in Existing PROVE o \in Ids(fs)
  <2>1. PICK i \in 1 .. n : seq[i] = o  BY <1>2
  <2>2. i \in DOMAIN fs /\ fs[i].id = o  BY <2>1, <1>5, <1>6
  <2> QED  BY <2>2 DEF Ids
<1>10. Live(fs) \subseteq Existing  BY <1>5, <1>6 DEF Live
<1>11. Shape(fs)  BY <1>7 DEF AllWhole, Shape
<1>12. Existing \cup Junk \subseteq Objs \cup Junk  BY DEF Objs
<1> QED  BY <1>1, <1>5, <1>7, <1>8, <1>9, <1>10, <1>11, <1>12 DEF FileInv

\* The invariant holds when the commands are started.
LEMMA InitHolds == ASSUME Supervised, Init PROVE IInv
<1>1. Begins(file) /\ data = Existing \cup Junk /\ acked = Existing  BY DEF Init, Begins
<1>2. FileInv(file, data, acked) /\ AllWhole(file) /\ file \in Seq(Frames)
  BY <1>1, BeginsWell DEF FileInv
<1>3. PICK sc \in Scenarios :
       /\ run = sc.run
       /\ lock = [p \in Procs |-> IF p \in sc.up THEN "shared" ELSE "none"]
       /\ proc = [p \in Procs |-> IF p \in sc.up
                                  THEN [NewProc EXCEPT !.phase = "open", !.view = file]
                                  ELSE NewProc]
  BY DEF Init
<1>4. /\ \A p \in Procs : run[p] # "repair"
      /\ \A p, q \in Procs : run[p] = "serve" /\ run[q] = "serve" => p = q
      /\ \A p, q \in Procs : run[p] = "serve" /\ run[q] = "prune" => p \in sc.up
  BY <1>3 DEF Supervised
<1>5. run \in [Procs -> Commands] /\ \A p \in sc.up : run[p] = "serve"
  BY <1>3, OwnershipAssumption
<1>6. run \in [Procs -> {"serve", "gc", "prune"}]  BY <1>4, <1>5 DEF Commands
<1> DEFINE x == NewProc
           y == [x EXCEPT !.phase = "open", !.view = file]
<1>7. x \in ProcSet /\ x.phase = "new"
  <2>1. <<>> \in Seq(Frames)  BY EmptySeq
  <2> QED  BY <2>1 DEF NewProc, ProcSet, Phases
<1>8. y \in ProcSet /\ y.phase = "open" /\ y.view = file
  <2> HIDE DEF x
  <2> QED  BY <1>2, <1>7 DEF ProcSet, Phases
<1>9. \A p \in Procs : \/ p \in sc.up /\ lock[p] = "shared" /\ proc[p] = y
                       \/ p \notin sc.up /\ lock[p] = "none" /\ proc[p] = x
  BY <1>3
<1>10. proc \in [Procs -> ProcSet]
  <2>1. proc = [p \in Procs |-> IF p \in sc.up THEN y ELSE x]  BY <1>3
  <2> HIDE DEF x, y
  <2> QED  BY <2>1, <1>7, <1>8
<1> HIDE DEF x, y
<1>11. LocksInv(lock)
  <2>1. lock \in [Procs -> {"none", "shared", "exclusive"}]  BY <1>3
  <2> QED  BY <2>1, <1>9 DEF LocksInv
<1>12. RunInv(run, proc)
  <2>1. \A p \in Procs : p \in sc.up => proc[p].phase \notin Starting  BY <1>8, <1>9 DEF Starting
  <2> QED  BY <2>1, <1>4, <1>6 DEF RunInv
<1>13. ASSUME NEW p \in Procs PROVE ProcInv(p, run[p], lock[p], proc[p], file, data)
  <2>1. CASE p \in sc.up
    <3>1. run[p] = "serve"  BY <2>1, <1>5
    <3> QED  BY <2>1, <3>1, <1>2, <1>8, <1>9 DEF ProcInv, LockInv, ViewInv, DataInv, Starting
  <2>2. CASE p \notin sc.up
    BY <2>2, <1>2, <1>7, <1>9 DEF ProcInv, LockInv, ViewInv, DataInv, Starting
  <2> QED  BY <2>1, <2>2
<1> QED  BY <1>2, <1>10, <1>11, <1>12, <1>13 DEF IInv

\* Every step keeps the invariant.
LEMMA NextKeeps == ASSUME IInv, [Next]_vars PROVE IInv'
<1>1. CASE UNCHANGED vars  BY <1>1 DEF vars, IInv
<1>2. ASSUME NEW p \in Procs,
             \/ AcquireStoreLock(p) \/ ReplayJournal(p) \/ TruncateTail(p) \/ Close(p) \/ Kill(p)
             \/ PutObject(p) \/ (\E state \in {"torn", "whole"} : AppendFrame(p, state))
             \/ Acknowledge(p) \/ ScanGarbage(p) \/ RemoveGarbage(p)
      PROVE  IInv'
  BY <1>2, AcquireStoreLockStep, ReplayJournalStep, TruncateTailStep, CloseStep, PutObjectStep,
     AppendFrameStep, AcknowledgeStep, ScanGarbageStep, RemoveGarbageStep
<1> QED  BY <1>1, <1>2 DEF Next

\* Supervised commands keep the invariant: whoever holds the lock has loaded
\* the journal as it is, and nobody else is about to change it.
THEOREM InductiveInvariant == Supervised /\ Spec => []IInv
<1>1. Supervised /\ Init => IInv  BY InitHolds
<1>2. IInv /\ [Next]_vars => IInv'  BY NextKeeps
<1> QED  BY <1>1, <1>2, PTL DEF Spec

\* The journal never has a hole, and a torn frame only at its end.
THEOREM TypesHold == Supervised /\ Spec => []TypeOK
<1>1. IInv => TypeOK
  <2> SUFFICES ASSUME IInv PROVE TypeOK  OBVIOUS
  <2>1. run \in [Procs -> Commands]  BY DEF IInv, RunInv, Commands
  <2>2. \A p \in Procs : proc[p].phase \in Phases  BY DEF IInv, ProcSet
  <2>3. /\ \A i \in DOMAIN file : file[i].state = "whole" \/ (file[i].state = "torn" /\ i = Len(file))
        /\ Len(file) <= MaxFrames
    <3>1. file \in Seq(Frames) /\ Shape(file) /\ Len(file) <= MaxFrames  BY DEF IInv, FileInv
    <3>2. DOMAIN file = 1 .. Len(file)  BY <3>1, LenProperties
    <3> QED  BY <3>1, <3>2 DEF Shape
  <2> QED  BY <2>1, <2>2, <2>3 DEF TypeOK, IInv, LocksInv, Phases
<1> QED  BY <1>1, InductiveInvariant, PTL

\* AckedFramesKept: OpenStore's Truncate and a process's journal cursor never
\* remove a frame another process has acknowledged, and the store always opens.
THEOREM NoProcessCutsAnothersFrames == Supervised /\ Spec => []AckedFramesKept
<1>1. IInv => AckedFramesKept
  BY AcceptsShape DEF IInv, FileInv, AckedFramesKept
<1> QED  BY <1>1, InductiveInvariant, PTL

\* LiveDataKept: gc removes nothing that the journal names, for any number of
\* collectors, prunes and objects beside one server.
THEOREM NoCollectorTakesLiveData == Supervised /\ Spec => []LiveDataKept
<1>1. IInv => LiveDataKept  BY DEF IInv, FileInv, LiveDataKept
<1> QED  BY <1>1, InductiveInvariant, PTL

\* OwnersAreCurrent: a process that owns the store works from the journal as it is.
THEOREM OwnersWorkFromTheJournal == Supervised /\ Spec => []OwnersAreCurrent
<1>1. IInv => OwnersAreCurrent
  <2> SUFFICES ASSUME IInv, NEW p \in Procs, proc[p].phase \in {"open", "published", "sweeping"}
               PROVE  Accepted(file) = proc[p].view
    BY DEF OwnersAreCurrent
  <2>1. file = proc[p].view /\ AllWhole(file) /\ file \in Seq(Frames)
    BY DEF IInv, FileInv, ProcInv, ViewInv
  <2> QED  BY <2>1, AcceptsWhole
<1> QED  BY <1>1, InductiveInvariant, PTL
=============================================================================
