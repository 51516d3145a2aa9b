------------------------------ MODULE MCResume ------------------------------
(* Instances of Sync for TLC: a fork and a restore of an object that came  *)
(* from a multipart upload, one after the other, each interrupted and run  *)
(* again.                                                                  *)
EXTENDS MCReplication

VARIABLE conflicted     \* commands whose rerun conflicted with their own objects

resumeVars == <<vars, conflicted>>

ResumeInit == Init /\ conflicted = {}

\* As in SyncInit, of a command on one store.
Fresh(i) ==
  /\ inst' = i /\ left' = i.left /\ src' = i.src /\ dst' = i.dst
  /\ cas' = [at \in {"src", "dst"} |-> [ch \in Chunks |->
               IF at = "dst" /\ ch \in ChunksOf(i.src) \cup ChunksOf(i.dst) THEN "good" ELSE "absent"]]
  /\ file' = [k \in Keys |-> [body |-> i.file[k], mtime |-> 0]]
  /\ client' = NewClient /\ commits' = {} /\ applied' = NothingApplied
  /\ stable' = {} /\ quiet' = {} /\ foreign' = {} /\ versions' = [k \in Keys |-> {}]

\* Once a rerun has conflicted, the other command is tried on a store of its own.
OtherCommand ==
  /\ ~RerunNeverConflicts /\ conflicted' = conflicted \cup {inst.mode}
  /\ \E i \in SyncInstances : i.mode \notin conflicted' /\ Fresh(i)
  /\ UNCHANGED <<part, listVars, poolVars, getVars>>

ResumeNext ==
  \/ RerunNeverConflicts /\ Next /\ UNCHANGED conflicted
  \/ OtherCommand

ResumeSpec == ResumeInit /\ [][ResumeNext]_resumeVars
-----------------------------------------------------------------------------
\* Sections 15g and 15i promise the same of forkObject's and restoreObject's
\* reruns: an object that already landed is no conflict.  One of the two, at
\* the least, keeps that promise.
SomeResumeIsClean == {"fork", "restore"} \ conflicted # {}
=============================================================================
