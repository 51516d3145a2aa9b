------------------------------- MODULE LooseCAS -------------------------------
(***************************************************************************)
(* Loose chunk storage of zeros3.go (section 4): requests stage the chunks *)
(* the store does not have, flush them in batches (at most one in flight   *)
(* per request, pipelined with further staging), publish each batch under  *)
(* the publication barrier casPubMu, and commit an object that names them. *)
(*                                                                         *)
(* A chunk is its digest.  Its final path lies in a shard directory; the   *)
(* two levels aa/bb are created and synced the same way, so one level      *)
(* stands for both.  The file system is modelled by what is visible now    *)
(* (present, dirs) and what a power failure cannot undo (entryDurable,     *)
(* dirDurable, dataDurable).  The unlink of a rolled-back chunk may be     *)
(* undone too; that only brings back an unreferenced chunk whose bytes     *)
(* were fsynced, and is left out.                                          *)
(***************************************************************************)
EXTENDS Naturals, FiniteSets, Sequences

CONSTANTS Chunks, Shards, ShardOf,   \* ShardOf[c]: the directory of chunk c
          Writers, Objects,          \* requests; the chunk sequences they may store
          BatchMax,                  \* casBatchMaxRecords
          Failures                   \* subset of FailureKinds

\* Calls fail; the power fails; the process is killed while no publication is
\* running, or also while one is.
FailureKinds == {"error", "power", "kill", "killPublishing"}
Nobody == "nobody"

ASSUME CASAssumption ==
  /\ Nobody \notin Writers
  /\ ShardOf \in [Chunks -> Shards] /\ BatchMax \in Nat \ {0}
  /\ Objects \subseteq Seq(Chunks) /\ Failures \subseteq FailureKinds

VARIABLES present,        \* chunks whose final path exists
          dirs,           \* shard directories that exist
          entryDurable,   \* chunks whose directory entry is on stable storage
          dirDurable,     \* shard directories whose own entry is
          dataDurable,    \* chunks whose final path holds fsynced bytes
          corrupt,        \* chunks whose final path lost its bytes
          pubHolder,      \* who holds casPubMu exclusively, or Nobody
          req,            \* per request: its object, next chunk and batch
          flight,         \* per request: its casFlight
          committed       \* objects acknowledged

files == <<present, dirs, entryDurable, dirDurable, dataDurable, corrupt>>
casVars == <<files, pubHolder, req, flight, committed>>

NoReq == [state |-> "idle", obj |-> <<>>, pos |-> 1, staged |-> {}, last |-> FALSE]
NoFlight == [phase |-> "none", batch |-> {}, synced |-> FALSE, left |-> {}, created |-> {},
             newDirs |-> {}, unsynced |-> {}]
ShardsOf(S) == {ShardOf[c] : c \in S}

CasInit ==
  /\ present = {} /\ dirs = {} /\ entryDurable = {} /\ dirDurable = {}
  /\ dataDurable = {} /\ corrupt = {} /\ pubHolder = Nobody
  /\ req = [w \in Writers |-> NoReq] /\ flight = [w \in Writers |-> NoFlight]
  /\ committed = {}
-----------------------------------------------------------------------------
(* The request's goroutine: ingestStream and casBatch.                     *)

Begin(w, obj) ==
  /\ req[w].state = "idle"
  /\ req' = [req EXCEPT ![w] = [NoReq EXCEPT !.state = "adding", !.obj = obj]]
  /\ UNCHANGED <<files, pubHolder, flight, committed>>

\* casStat takes casPubMu shared: it waits out a publication.
StatUnlocked == TRUE
MayStat == pubHolder = Nobody

\* casBatchMaxRecords and casBatchMaxBytes, in chunks.
BatchFullLate(S) == Cardinality(S) > BatchMax
BatchFull(S) == Cardinality(S) >= BatchMax

\* casBatch.add: a chunk already in the batch or stored is skipped, another one
\* is staged, and a full batch must start its flush before anything is added.
Add(w) ==
  LET r == req[w]
      c == r.obj[r.pos]
      more == IF c \in present THEN r.staged ELSE r.staged \cup {c} IN
  /\ r.state = "adding" /\ r.pos <= Len(r.obj)
  /\ c \in r.staged \/ MayStat
  /\ req' = [req EXCEPT ![w] = [r EXCEPT !.pos = @ + 1, !.staged = more,
                !.state = IF more # r.staged /\ BatchFull(more)
                          THEN "start" ELSE @]]
  /\ UNCHANGED <<files, pubHolder, flight, committed>>

\* The body, the stat or the staging file fails: the request gives up.
AddFails(w) ==
  /\ "error" \in Failures /\ req[w].state = "adding" /\ req[w].pos <= Len(req[w].obj)
  /\ req' = [req EXCEPT ![w].state = "abort"]
  /\ UNCHANGED <<files, pubHolder, flight, committed>>

\* Flush: the last startFlush, then wait.
Flush(w) ==
  /\ req[w].state = "adding" /\ req[w].pos > Len(req[w].obj)
  /\ req' = [req EXCEPT ![w].state = "start", ![w].last = TRUE]
  /\ UNCHANGED <<files, pubHolder, flight, committed>>

\* startFlush first joins the previous flight; its error ends the request.
MayStartFlush(w) == flight[w].phase \in {"none", "done"}

StartFlush(w) ==
  /\ req[w].state = "start" /\ MayStartFlush(w)
  /\ flight' = [flight EXCEPT ![w] =
       IF req[w].staged = {} THEN NoFlight
       ELSE [NoFlight EXCEPT !.phase = "sync", !.batch = req[w].staged]]
  /\ req' = [req EXCEPT ![w].staged = {},
                        ![w].state = IF req[w].last THEN "wait" ELSE "adding"]
  /\ UNCHANGED <<files, pubHolder, committed>>

\* Flush returned nil: the manifest and the journal frame may follow.
Commit(w) ==
  /\ req[w].state = "wait" /\ flight[w].phase \in {"none", "done"}
  /\ committed' = committed \cup {req[w].obj}
  /\ req' = [req EXCEPT ![w] = NoReq] /\ flight' = [flight EXCEPT ![w] = NoFlight]
  /\ UNCHANGED <<files, pubHolder>>

\* Abort joins the flight and drops what was only staged.
Abort(w) ==
  /\ \/ req[w].state \in {"start", "wait"} /\ flight[w].phase = "failed"
     \/ req[w].state = "abort" /\ flight[w].phase \in {"none", "done", "failed"}
  /\ req' = [req EXCEPT ![w] = NoReq] /\ flight' = [flight EXCEPT ![w] = NoFlight]
  /\ UNCHANGED <<files, pubHolder, committed>>
-----------------------------------------------------------------------------
(* The flight's goroutine: casFlushFiles and casPublish.                   *)

SetFlight(w, f) == flight' = [flight EXCEPT ![w] = f]

\* casFlushFiles: every staged file is fsynced before any is renamed.
SyncStaged(w) ==
  /\ flight[w].phase = "sync"
  /\ SetFlight(w, [flight[w] EXCEPT !.phase = "lock", !.synced = TRUE])
  /\ UNCHANGED <<files, pubHolder, req, committed>>

SyncStagedFails(w) ==
  /\ "error" \in Failures /\ flight[w].phase = "sync"
  /\ SetFlight(w, [NoFlight EXCEPT !.phase = "failed"])
  /\ UNCHANGED <<files, pubHolder, req, committed>>

LockBarrier(w) ==
  /\ flight[w].phase = "lock" /\ pubHolder = Nobody /\ pubHolder' = w
  /\ SetFlight(w, [flight[w] EXCEPT !.phase = "mkdir"])
  /\ UNCHANGED <<files, req, committed>>

\* casEnsureShardDirs: only directories created here have their parent synced.
MakeShardDirs(w) ==
  LET new == ShardsOf(flight[w].batch) \ dirs IN
  /\ flight[w].phase = "mkdir"
  /\ dirs' = dirs \cup new
  /\ SetFlight(w, [flight[w] EXCEPT !.newDirs = new, !.left = flight[w].batch,
                     !.phase = IF new = {} THEN "rename" ELSE "parent"])
  /\ UNCHANGED <<present, entryDurable, dirDurable, dataDurable, corrupt, pubHolder,
                 req, committed>>

SyncParent(w) ==
  /\ flight[w].phase = "parent" /\ dirDurable' = dirDurable \cup flight[w].newDirs
  /\ SetFlight(w, [flight[w] EXCEPT !.phase = "rename"])
  /\ UNCHANGED <<present, dirs, entryDurable, dataDurable, corrupt, pubHolder, req, committed>>

\* A digest published since it was staged is left alone.
Rename(w, c) ==
  LET f == flight[w] IN
  /\ f.phase = "rename" /\ c \in f.left
  /\ IF c \in present
     THEN SetFlight(w, [f EXCEPT !.left = @ \ {c}]) /\ UNCHANGED <<present, dataDurable>>
     ELSE /\ SetFlight(w, [f EXCEPT !.left = @ \ {c}, !.created = @ \cup {c},
                                    !.unsynced = @ \cup {ShardOf[c]}])
          /\ present' = present \cup {c}
          /\ dataDurable' = IF f.synced THEN dataDurable \cup {c} ELSE dataDurable
  /\ UNCHANGED <<dirs, entryDurable, dirDurable, corrupt, pubHolder, req, committed>>

\* One syncDir: every entry of that directory becomes durable.
SyncShard(w, d) ==
  LET f == flight[w] IN
  /\ f.phase = "rename" /\ f.left = {} /\ d \in f.unsynced
  /\ SetFlight(w, [f EXCEPT !.unsynced = @ \ {d}])
  /\ entryDurable' = entryDurable \cup {c \in present : ShardOf[c] = d}
  /\ UNCHANGED <<present, dirs, dirDurable, dataDurable, corrupt, pubHolder, req, committed>>

ReleasedEarly(w) == flight[w].left = {}
AllPublished(w) == flight[w].left = {} /\ flight[w].unsynced = {}

\* The deferred Unlock of casPublish, on every path out of it.
BarrierKept(w) == pubHolder' = w
BarrierReleased(w) == pubHolder' = Nobody

PublishDone(w) ==
  /\ flight[w].phase = "rename" /\ AllPublished(w)
  /\ BarrierReleased(w) /\ SetFlight(w, [NoFlight EXCEPT !.phase = "done"])
  /\ UNCHANGED <<files, req, committed>>

\* An error anywhere in casPublish undoes it before the barrier is released.
RolledBack(w) == present \ flight[w].created

PublishFails(w) ==
  LET f == flight[w] IN
  /\ "error" \in Failures /\ f.phase \in {"mkdir", "parent", "rename"}
  /\ present' = RolledBack(w) /\ entryDurable' = entryDurable \cap RolledBack(w)
  /\ dataDurable' = dataDurable \cap RolledBack(w)
  /\ LET kept == dirs \ (f.newDirs \ ShardsOf(RolledBack(w))) IN
     dirs' = kept /\ dirDurable' = dirDurable \cap kept
  /\ BarrierReleased(w) /\ SetFlight(w, [NoFlight EXCEPT !.phase = "failed"])
  /\ UNCHANGED <<corrupt, req, committed>>
-----------------------------------------------------------------------------
CasProcessGone ==
  /\ pubHolder' = Nobody /\ req' = [w \in Writers |-> NoReq]
  /\ flight' = [w \in Writers |-> NoFlight] /\ UNCHANGED committed

\* Of what was not durable, any part may survive a power failure.
CasPowerFail ==
  /\ "power" \in Failures /\ CasProcessGone
  /\ \E ds \in SUBSET dirs, cs \in SUBSET present :
       /\ dirDurable \subseteq ds /\ dirs' = ds /\ dirDurable' = ds
       /\ entryDurable \subseteq cs
       /\ present' = {c \in cs : ShardOf[c] \in ds} /\ entryDurable' = present'
       /\ corrupt' = (corrupt \cup (present' \ dataDurable)) \cap present'
       /\ dataDurable' = present'

\* The process ends, the page cache does not; the next process starts at once.
CasKill ==
  /\ \/ "kill" \in Failures /\ pubHolder = Nobody
     \/ "killPublishing" \in Failures
  /\ CasProcessGone /\ UNCHANGED files

FlightStep(w) ==
  \/ SyncStaged(w) \/ SyncStagedFails(w) \/ LockBarrier(w) \/ MakeShardDirs(w)
  \/ SyncParent(w) \/ (\E c \in Chunks : Rename(w, c))
  \/ (\E d \in Shards : SyncShard(w, d)) \/ PublishDone(w) \/ PublishFails(w)

RequestStep(w) ==
  \/ Add(w) \/ AddFails(w) \/ Flush(w) \/ StartFlush(w) \/ Commit(w) \/ Abort(w)

CasNext ==
  \/ \E w \in Writers : \/ \E obj \in Objects : Begin(w, obj)
                        \/ RequestStep(w) \/ FlightStep(w)
  \/ CasPowerFail \/ CasKill

CasSpec == CasInit /\ [][CasNext]_casVars

\* Goroutines run, and sync.RWMutex admits every waiting reader and writer.
CasFairness == \A w \in Writers :
  /\ WF_casVars(RequestStep(w)) /\ SF_casVars(Add(w))
  /\ WF_casVars(FlightStep(w)) /\ SF_casVars(LockBarrier(w))
CasFairSpec == CasSpec /\ CasFairness
-----------------------------------------------------------------------------
ReqType == [state : {"idle", "adding", "start", "wait", "abort"},
            obj : Objects \cup {<<>>}, pos : Nat \ {0},
            staged : SUBSET Chunks, last : BOOLEAN]
FlightType ==
  [phase : {"none", "sync", "lock", "mkdir", "parent", "rename", "done", "failed"},
   batch : SUBSET Chunks, synced : BOOLEAN, left : SUBSET Chunks,
   created : SUBSET Chunks, newDirs : SUBSET Shards, unsynced : SUBSET Shards]

\* Types, and casBatch's promise that a request's staged files "stay bounded
\* to two batches": one being filled, one in flight.
CasTypeOK ==
  /\ present \subseteq Chunks /\ dirs \subseteq Shards
  /\ entryDurable \subseteq Chunks /\ dirDurable \subseteq Shards
  /\ dataDurable \subseteq Chunks /\ corrupt \subseteq Chunks
  /\ pubHolder \in Writers \cup {Nobody} /\ committed \subseteq Objects
  /\ req \in [Writers -> ReqType] /\ flight \in [Writers -> FlightType]
  /\ \A w \in Writers : Cardinality(req[w].staged) <= BatchMax
                      /\ Cardinality(flight[w].batch) <= BatchMax

\* The barrier: whenever no publication is running, every visible chunk
\* survives a power failure, in a directory that does, with its bytes.
VisibleIsDurable ==
  pubHolder = Nobody =>
    /\ present \subseteq entryDurable \cap dataDurable
    /\ ShardsOf(present) \subseteq dirDurable

\* Every acknowledged object still has all its chunks, intact: nothing a
\* concurrent request's failed publication undoes, and nothing a power
\* failure drops, was ever relied on.
CommittedChunksIntact ==
  \A obj \in committed : \A i \in DOMAIN obj : obj[i] \in present \ corrupt

\* Every request ends, whoever else is publishing: none waits for ever for its
\* own flight (casBatch.wait) or for the barrier (casStat, casPublish).
RequestsEnd == \A w \in Writers : req[w].state # "idle" ~> req[w].state = "idle"
=============================================================================
