---------------------------- MODULE StoreOwnership ----------------------------
(***************************************************************************)
(* Several zeros3 processes on one store directory (sections 13b and 17 of *)
(* zeros3.go): each opens the store, which replays the journal and always  *)
(* truncates it at the end replay found, takes the flock its command asks  *)
(* for, and then works from the journal cursor and the namespace it loaded *)
(* when it opened.                                                         *)
(*                                                                         *)
(* The journal is a sequence of slots, one per frame.  A frame names the   *)
(* object it commits (its id stands for the manifest and chunks published  *)
(* before it) and the ones it retires (a prune frame).  Frames of unequal  *)
(* length, where an overwrite leaves the rest of a longer frame behind,    *)
(* are not told apart.  Only processes fail here; Journal has the losses   *)
(* of a power failure.                                                     *)
(***************************************************************************)
EXTENDS Naturals, Sequences, FiniteSets

CONSTANTS Procs,       \* processes
          Scenarios,   \* which command each process is started with, and when
          Existing,    \* objects already committed
          Junk,        \* content of requests that never committed
          MaxFrames    \* bound on the slots of the journal

Commands == {"serve", "repair", "gc", "prune"}
Exclusive == {"gc", "prune"}             \* acquireStoreLock(dir, true), the others (dir, false)
LockedFirst == {"gc", "prune", "repair"} \* the lock is taken before OpenStore

ASSUME OwnershipAssumption ==
  /\ Scenarios \subseteq [run : [Procs -> Commands], up : SUBSET Procs]
  /\ \A sc \in Scenarios : \A p \in sc.up : sc.run[p] = "serve"
  /\ IsFiniteSet(Existing) /\ Existing \cap Junk = {}
  /\ MaxFrames \in Nat /\ Cardinality(Existing) <= MaxFrames

VARIABLES run,      \* run[p]: the command p is started with
          file,     \* the journal's slots
          data,     \* objects whose manifest and chunks are on disk
          acked,    \* frames whose request was acknowledged
          lock,     \* lock[p]: the flock p holds
          proc      \* proc[p]: where p is and what it loaded

vars == <<run, file, data, acked, lock, proc>>

Frame(id, puts, drops, state) ==
  [id |-> id, puts |-> puts, drops |-> drops, state |-> state]
Hole == Frame(<<"hole", 0>>, {}, {}, "hole")
Ids(fs) == {fs[i].id : i \in DOMAIN fs}
Live(fs) == (UNION {fs[i].puts : i \in DOMAIN fs}) \ (UNION {fs[i].drops : i \in DOMAIN fs})

\* The frames replayJournal returns: up to the first slot that is not whole.
Accepted(fs) ==
  LET whole == {n \in 0 .. Len(fs) : \A i \in 1 .. n : fs[i].state = "whole"}
  IN SubSeq(fs, 1, CHOOSE n \in whole : \A k \in whole : k <= n)

\* Only a torn frame at the very end of the file is passed over.
Opens(fs) == \/ Accepted(fs) = fs
             \/ Len(fs) = Len(Accepted(fs)) + 1 /\ fs[Len(fs)].state = "torn"

\* WriteAt and Truncate beyond the end leave a hole of zeros.
Padded(fs, n) == [i \in 1 .. n |-> IF i <= Len(fs) THEN fs[i] ELSE Hole]
WriteAtOnePast(fs, n, f) ==
  [Padded(fs, IF n >= Len(fs) THEN n + 1 ELSE Len(fs)) EXCEPT ![n + 1] = f]
WriteAt(fs, n, f) ==
  [Padded(fs, IF n > Len(fs) THEN n ELSE Len(fs)) EXCEPT ![n] = f]

NewProc == [phase |-> "new", view |-> <<>>, garbage |-> {}]
Done(p) == [NewProc EXCEPT !.phase = "gone"]
Unlocked(p) == lock' = [lock EXCEPT ![p] = "none"]

Init ==
  /\ \E seq \in [1 .. Cardinality(Existing) -> Existing] :
       /\ \A o \in Existing : \E i \in DOMAIN seq : seq[i] = o
       /\ file = [i \in DOMAIN seq |-> Frame(seq[i], {seq[i]}, {}, "whole")]
  /\ data = Existing \cup Junk /\ acked = Existing
  /\ \E sc \in Scenarios :
       /\ run = sc.run
       /\ lock = [p \in Procs |-> IF p \in sc.up THEN "shared" ELSE "none"]
       /\ proc = [p \in Procs |-> IF p \in sc.up
                                  THEN [NewProc EXCEPT !.phase = "open", !.view = file]
                                  ELSE NewProc]
-----------------------------------------------------------------------------
(* acquireStoreLock: never blocks, a conflict ends the command.            *)

Mode(p) == IF run[p] \in Exclusive THEN "exclusive" ELSE "shared"

GrantedBesideShared(p) == \A q \in Procs \ {p} : lock[q] # "exclusive"
Granted(p) == \A q \in Procs \ {p} :
  /\ lock[q] # "exclusive"
  /\ Mode(p) = "exclusive" => lock[q] = "none"

\* runServe locks the store it has opened, the other commands before they open it.
MayLock(p) == IF run[p] \in LockedFirst THEN proc[p].phase = "new"
              ELSE proc[p].phase = "opened"

AcquireStoreLock(p) ==
  /\ MayLock(p)
  /\ IF Granted(p)
     THEN /\ lock' = [lock EXCEPT ![p] = Mode(p)]
          /\ proc' = [proc EXCEPT ![p].phase =
                        IF run[p] \in LockedFirst THEN "locked" ELSE "open"]
     ELSE UNCHANGED lock /\ proc' = [proc EXCEPT ![p] = Done(p)]
  /\ UNCHANGED <<run, file, data, acked>>
-----------------------------------------------------------------------------
(* OpenStore: replayJournal, then Truncate, as two system calls.           *)

OpensBeforeLock(p) == proc[p].phase \in {"new", "locked"}
MayOpen(p) == proc[p].phase = IF run[p] \in LockedFirst THEN "locked" ELSE "new"

ReplayJournal(p) ==
  /\ MayOpen(p) /\ Opens(file)
  /\ proc' = [proc EXCEPT ![p].phase = "replayed", ![p].view = Accepted(file)]
  /\ UNCHANGED <<run, file, data, acked, lock>>

TruncateTail(p) ==
  /\ proc[p].phase = "replayed"
  /\ file' = Padded(file, Len(proc[p].view))
  /\ proc' = [proc EXCEPT ![p].phase = IF run[p] = "serve" THEN "opened" ELSE "open"]
  /\ UNCHANGED <<run, data, acked, lock>>

Close(p) ==
  /\ proc[p].phase = "open"
  /\ proc' = [proc EXCEPT ![p] = Done(p)] /\ Unlocked(p)
  /\ UNCHANGED <<run, file, data, acked>>

\* The process is killed anywhere; the kernel drops its flock.
Kill(p) ==
  /\ proc[p].phase \notin {"new", "gone"}
  /\ proc' = [proc EXCEPT ![p] = Done(p)] /\ Unlocked(p)
  /\ UNCHANGED <<run, file, data, acked>>
-----------------------------------------------------------------------------
(* What an open process does: a server commits objects, prune retires      *)
(* older ones, each with publish, write, sync and acknowledgement.         *)

\* History rows: the objects a later one replaced (all objects have one key).
Latest(fs) == {o \in Live(fs) : \E i \in DOMAIN fs : o \in fs[i].puts /\
                 \A j \in DOMAIN fs : fs[j].puts # {} => j <= i}
History(fs) == Live(fs) \ Latest(fs)

\* The frame p writes next, in the slot after the ones it has loaded; prune
\* retires the history it finds there.
NextId(p) == <<p, Len(proc[p].view) + 1>>
NextFrame(p, state) ==
  IF run[p] = "serve" THEN Frame(NextId(p), {NextId(p)}, {}, state)
  ELSE Frame(NextId(p), {}, History(proc[p].view), state)

PutObject(p) ==
  /\ run[p] = "serve" /\ proc[p].phase = "open" /\ Len(proc[p].view) < MaxFrames
  /\ data' = data \cup {NextId(p)}
  /\ proc' = [proc EXCEPT ![p].phase = "published"]
  /\ UNCHANGED <<run, file, acked, lock>>

MayAppend(p) ==
  \/ run[p] = "serve" /\ proc[p].phase = "published"
  \/ run[p] = "prune" /\ proc[p].phase = "open"
     /\ Len(proc[p].view) < MaxFrames /\ History(proc[p].view) # {}

\* WriteAt reaches the file in parts: another process may read a torn frame.
AppendFrame(p, state) ==
  /\ \/ state = "torn" /\ MayAppend(p)
     \/ state = "whole" /\ proc[p].phase = "writing"
  /\ file' = WriteAt(file, Len(proc[p].view) + 1, NextFrame(p, state))
  /\ proc' = [proc EXCEPT ![p].phase = IF state = "torn" THEN "writing" ELSE "written"]
  /\ UNCHANGED <<run, data, acked, lock>>

\* The frame is synced, then applied to memory, then acknowledged.
Acknowledge(p) ==
  /\ proc[p].phase = "written"
  /\ acked' = acked \cup {NextId(p)}
  /\ proc' = [proc EXCEPT ![p].view = Append(@, NextFrame(p, "whole")), ![p].phase = "open"]
  /\ UNCHANGED <<run, file, data, lock>>
-----------------------------------------------------------------------------
(* gcCollect: what no loaded root names is listed, then removed one by one. *)

OnlyCurrentRoots(p) == Latest(proc[p].view)
Referenced(p) == Live(proc[p].view)

ScanGarbage(p) ==
  /\ run[p] = "gc" /\ proc[p].phase = "open" /\ Referenced(p) \subseteq data
  /\ proc' = [proc EXCEPT ![p].phase = "sweeping", ![p].garbage = data \ Referenced(p)]
  /\ UNCHANGED <<run, file, data, acked, lock>>

RemoveGarbage(p) ==
  /\ proc[p].phase = "sweeping"
  /\ \/ \E x \in proc[p].garbage :
          data' = data \ {x} /\ proc' = [proc EXCEPT ![p].garbage = @ \ {x}]
     \/ /\ proc[p].garbage = {} /\ UNCHANGED data
        /\ proc' = [proc EXCEPT ![p].phase = "open"]
  /\ UNCHANGED <<run, file, acked, lock>>

Next == \E p \in Procs :
  \/ AcquireStoreLock(p) \/ ReplayJournal(p) \/ TruncateTail(p) \/ Close(p) \/ Kill(p)
  \/ PutObject(p) \/ (\E state \in {"torn", "whole"} : AppendFrame(p, state))
  \/ Acknowledge(p) \/ ScanGarbage(p) \/ RemoveGarbage(p)

Spec == Init /\ [][Next]_vars
-----------------------------------------------------------------------------
\* The commands as they are meant to be run: at most one server, no repair
\* beside it, and the server up before a prune is started.
Supervised == \A sc \in Scenarios :
  /\ \A p \in Procs : sc.run[p] # "repair"
  /\ \A p, q \in Procs : sc.run[p] = "serve" /\ sc.run[q] = "serve" => p = q
  /\ \A p, q \in Procs : sc.run[p] = "serve" /\ sc.run[q] = "prune" => p \in sc.up

\* Types; the journal has no hole, and a torn frame only at its end.
TypeOK ==
  /\ run \in [Procs -> Commands]
  /\ lock \in [Procs -> {"none", "shared", "exclusive"}]
  /\ \A p \in Procs :
       proc[p].phase \in {"new", "locked", "replayed", "opened", "open", "published",
                          "writing", "written", "sweeping", "gone"}
  /\ \A i \in DOMAIN file : \/ file[i].state = "whole"
                            \/ file[i].state = "torn" /\ i = Len(file)
  /\ Len(file) <= MaxFrames

\* No acknowledged frame leaves the journal, and the journal always opens:
\* one process's OpenStore never cuts, and its cursor never overwrites, what
\* another one has committed.
AckedFramesKept == Opens(file) /\ acked \subseteq Ids(Accepted(file))

\* Whatever the journal still names is on disk: the garbage a collector
\* listed from the namespace it loaded is garbage when it is removed.
LiveDataKept == Live(Accepted(file)) \subseteq data

\* A process that owns the store works from the journal as it is.
OwnersAreCurrent == \A p \in Procs :
  lock[p] # "none" /\ proc[p].phase \in {"open", "published", "sweeping"} =>
     Accepted(file) = proc[p].view
=============================================================================
