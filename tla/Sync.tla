-------------------------------- MODULE Sync --------------------------------
(***************************************************************************)
(* The transfer protocol of zeros3.go between a command and one or two     *)
(* servers (sections 15, 15b to 15d, 15f, 15g, 15i): `sync` sends a local  *)
(* file or the files of a directory, `replicate` a bucket of another       *)
(* server, `fork` a bucket of the same server, `snapshot restore` the      *)
(* entries of a snapshot.  All ask the destination which chunks it lacks,  *)
(* send those, and commit the object under a precondition on what they saw *)
(* there before.                                                           *)
(*                                                                         *)
(* A run may be killed, any request or answer may be lost, a commit the    *)
(* client no longer waits for may still land, and everyone else keeps      *)
(* writing.  A server may be restarted, with a gc before it comes back.    *)
(* A revision is its chunks and whether it was a multipart upload, which   *)
(* is what its ETag depends on.  Source and destination keys are paired by *)
(* namespaceDestKey, which is injective: one key stands for both.          *)
(***************************************************************************)
EXTENDS ListPages, Functions

CONSTANTS Chunks,         \* chunk contents
          NoRev,          \* no object
          Modes,          \* how the command works, see SyncAssumption
          SyncInstances,  \* a mode, the initial objects and the bounds
          PageKeys        \* keys per page of the source listing (1000)

Revs == [body : Seq(Chunks), multi : BOOLEAN]
Objects == [Keys -> Revs \cup {NoRev}]

\* same: source and destination are one store.
ASSUME SyncAssumption ==
  /\ Modes \subseteq {"sync", "replicate", "fork", "restore"}
  /\ PageKeys \in Nat \ {0} /\ NoRev \notin Revs
  /\ \A i \in SyncInstances :
       /\ i.mode \in Modes /\ i.same \in BOOLEAN
       /\ i.mode \in {"fork", "restore"} => i.same
       /\ i.src \in Objects /\ i.dst \in Objects /\ i.file \in [Keys -> Seq(Chunks)]
       /\ i.written \subseteq Keys /\ i.revs \subseteq Revs

\* A fork or a restore begins with an empty destination: what is there before
\* its first run somebody else has written (DstWrite).
CreateOnly == \A i \in SyncInstances :
  i.mode \in {"fork", "restore"} => \A k \in Keys : i.dst[k] = NoRev

VARIABLES inst,     \* the instance
          left,     \* how many more changes, collections, damages and runs
          src,      \* src[k]: the source bucket's object, or the snapshot's entry
          dst,      \* dst[k]: the destination bucket's object
          cas,      \* cas[store][c]: "absent", "good" or "bad"
          file,     \* file[k]: the local file for key k, its chunks and its mtime
          client,   \* the command
          commits,  \* commit requests the destination is working on
          stable,   \* keys whose source has not changed since the run began
          quiet,    \* keys nobody else has written at the destination since then
          foreign,  \* keys somebody else ever wrote, at either end
          versions, \* versions[k]: the file's contents since the run began, and whether
                    \* the write that made each of them moved the mtime on
          applied   \* the last commit that took effect, and what it replaced

syncVars == <<inst, left, src, dst, cas, file, client, commits, stable, quiet,
              foreign, versions, applied>>

Rev(body, multi) == [body |-> body, multi |-> multi]
SrcStore == IF inst.same THEN "dst" ELSE "src"
\* discoverSyncFiles walks every file once, in lexical order; one file is a
\* walk of one.
FileKeys == {k \in Keys : inst.file[k] # <<>>}
Walked == {walk \in [1 .. Cardinality(FileKeys) -> FileKeys] :
             /\ FileKeys \subseteq Range(walk)
             /\ \A i, j \in DOMAIN walk : i < j => walk[i] < walk[j]}
ChunksOf(objects) == UNION {Range(objects[k].body) : k \in {k \in Keys : objects[k] # NoRev}}

\* syncPrecondition; etag NoRev is the empty string.
Pre(absent, etag) == [absent |-> absent, etag |-> etag]

NewClient == [pc |-> "idle", run |-> 0, cursor |-> 0, todo |-> <<>>, rev |-> NoRev,
              pre |-> Pre(TRUE, NoRev), seen |-> {}, missing |-> {},
              before |-> [size |-> 0, mtime |-> 0],
              plain |-> FALSE, retried |-> FALSE, results |-> {}, ok |-> FALSE]
NothingApplied == [over |-> NoRev, body |-> <<>>, seen |-> {}, mode |-> "none", whole |-> TRUE]

SyncInit ==
  /\ inst \in SyncInstances /\ left = inst.left
  /\ src = inst.src /\ dst = inst.dst
  /\ cas = [s \in {"src", "dst"} |->
              [c \in Chunks |-> IF \/ s = SrcStore /\ c \in ChunksOf(src)
                                   \/ s = "dst" /\ c \in ChunksOf(dst)
                                THEN "good" ELSE "absent"]]
  /\ file = [k \in Keys |-> [body |-> inst.file[k], mtime |-> 0]]
  /\ client = NewClient /\ commits = {}
  /\ stable = {} /\ quiet = {} /\ foreign = {} /\ versions = [k \in Keys |-> {}]
  /\ applied = NothingApplied
-----------------------------------------------------------------------------
(* Everyone else.                                                          *)

\* Bounded; what happens after the last run is not followed.
Spend(what) ==
  /\ left[what] > 0 /\ left' = [left EXCEPT ![what] = @ - 1]
  /\ client.pc # "end" \/ left.runs > 0
Stored(store, body) ==
  [cas EXCEPT ![store] = [c \in Chunks |-> IF c \in Range(body) /\ @[c] = "absent"
                                           THEN "good" ELSE @[c]]]

\* A PUT or DELETE of another client.  A snapshot's entries never change.
SrcWrite == \E k \in inst.written, r \in inst.revs \cup {NoRev} :
  /\ Spend("src") /\ inst.mode \in {"replicate", "fork"} /\ r # src[k]
  /\ src' = [src EXCEPT ![k] = r]
  /\ cas' = IF r = NoRev THEN cas ELSE Stored(SrcStore, r.body)
  /\ stable' = stable \ {k} /\ foreign' = foreign \cup {k}
  /\ UNCHANGED <<inst, dst, file, client, commits, quiet, versions, applied>>

DstWrite == \E k \in inst.written, r \in inst.revs \cup {NoRev} :
  /\ Spend("dst") /\ r # dst[k]
  /\ dst' = [dst EXCEPT ![k] = r]
  /\ cas' = IF r = NoRev THEN cas ELSE Stored("dst", r.body)
  /\ quiet' = quiet \ {k} /\ foreign' = foreign \cup {k}
  /\ UNCHANGED <<inst, src, file, client, commits, stable, versions, applied>>

\* Another program changes a block of a local file, or its length.  Usually
\* the mtime moves on; it may also stay or be set back, which os.Stat does not
\* show: a clock tick, a tool that restores it.
Rewrites(body) == {[body EXCEPT ![i] = c] : i \in DOMAIN body, c \in Chunks}
                  \cup {Append(body, c) : c \in Chunks}
                  \cup {SubSeq(body, 1, n) : n \in 0 .. Len(body) - 1}
FileWrite == \E k \in FileKeys :
  \E body \in Rewrites(file[k].body), mtime \in 0 .. file[k].mtime + 1 :
    /\ Spend("file") /\ inst.mode = "sync" /\ body # file[k].body
    /\ file' = [file EXCEPT ![k] = [body |-> body, mtime |-> mtime]]
    /\ versions' = [versions EXCEPT
         ![k] = @ \cup {[body |-> body, moved |-> mtime > file[k].mtime]}]
    /\ stable' = stable \ {k} /\ foreign' = foreign \cup {k}
    /\ UNCHANGED <<inst, src, dst, cas, client, commits, quiet, applied>>

\* A chunk file is damaged.
Rot == \E s \in {"src", "dst"}, c \in Chunks :
  /\ Spend("rot") /\ cas[s][c] = "good"
  /\ cas' = [cas EXCEPT ![s][c] = "bad"]
  /\ UNCHANGED <<inst, src, dst, file, client, commits, stable, quiet, foreign, versions, applied>>

\* The destination stops, which ends the requests it was working on, and a gc
\* removes unreferenced chunks before it is started again.
KeptByRoots == ChunksOf(dst) \cup (IF inst.same THEN ChunksOf(src) ELSE {})
RestartWithGC == \E gone \in SUBSET (Chunks \ KeptByRoots) :
  /\ Spend("gc") /\ commits' = {}
  /\ cas' = [cas EXCEPT !["dst"] = [c \in Chunks |-> IF c \in gone THEN "absent" ELSE @[c]]]
  /\ UNCHANGED <<inst, src, dst, file, client, stable, quiet, foreign, versions, applied>>

Others == SrcWrite \/ DstWrite \/ FileWrite \/ Rot \/ RestartWithGC
-----------------------------------------------------------------------------
(* The command.  One object after the other; a failed one is recorded and  *)
(* the next is tried.                                                      *)

Wanted == Head(client.todo)
Goto(pc) == client' = [client EXCEPT !.pc = pc]

ObjectDone(outcome) ==
  client' = [NewClient EXCEPT !.pc = "next", !.run = client.run, !.todo = Tail(client.todo),
                              !.results = client.results \cup {<<Wanted, outcome>>}]

\* Nothing else moves in a step of the command that only reads or decides.
ServersUnchanged == UNCHANGED <<inst, left, src, dst, cas, file, commits, stable, quiet,
                                foreign, versions, applied>>

\* A run keeps nothing of an earlier one.
StartRun ==
  /\ client.pc \in {"idle", "end"} /\ Spend("runs")
  /\ \E walk \in Walked :
       client' = [NewClient EXCEPT !.pc = IF inst.mode = "sync" THEN "next" ELSE "list",
                                   !.todo = IF inst.mode = "sync" THEN walk ELSE <<>>,
                                   !.run = client.run + 1]
  /\ stable' = Keys /\ quiet' = Keys
  /\ versions' = [k \in Keys |-> {[body |-> file[k].body, moved |-> TRUE]}]
  /\ UNCHANGED <<inst, src, dst, cas, file, commits, foreign, applied>>

Listed(units) == [i \in DOMAIN units |-> Key(units[i])]

OnePageIsAll(page) == FALSE
Continues(page) == page.truncated

\* listSourceObjects: pages until one is not truncated.  showSnapshotRemote
\* answers with every entry at once.
ListSourceObjects ==
  /\ client.pc = "list"
  /\ LET live == {<<k, 0>> : k \in {k \in Keys : src[k] # NoRev}}
         max  == IF inst.mode = "restore" THEN Cardinality(Keys) ELSE PageKeys
         page == ListObjectsV2(live, FALSE, <<client.cursor, 0>>, max)
     IN client' = [client EXCEPT !.todo = @ \o Listed(page.units),
                                 !.cursor = IF Continues(page) THEN Key(page.last) ELSE 0,
                                 !.pc = IF Continues(page) THEN "list" ELSE "next"]
  /\ ServersUnchanged

NextObject ==
  /\ client.pc = "next"
  /\ IF client.todo = <<>>
     THEN client' = [client EXCEPT !.pc = "end",
                                   !.ok = \A r \in client.results : r[2] = "ok"]
     ELSE Goto(IF inst.mode = "sync" THEN "stat" ELSE "describe")
  /\ ServersUnchanged

\* fetchSourceDescriptor: one revision, captured whole.
FetchSourceDescriptor ==
  /\ client.pc = "describe"
  /\ IF src[Wanted] = NoRev THEN ObjectDone("error")
     ELSE client' = [client EXCEPT !.pc = "head", !.rev = src[Wanted]]
  /\ ServersUnchanged

\* What os.Stat shows of the file.
Stat(k) == [size |-> Len(file[k].body), mtime |-> file[k].mtime]

\* syncFile: stat, discover (or fall back to a plain PUT), HEAD, scan.
StatLocalFile ==
  /\ client.pc = "stat"
  /\ \/ client' = [client EXCEPT !.pc = "head", !.before = Stat(Wanted), !.rev = Rev(<<>>, FALSE)]
     \/ client' = [client EXCEPT !.pc = "scan", !.plain = TRUE, !.rev = Rev(<<>>, FALSE)]
  /\ ServersUnchanged

ScanLocalFile ==
  /\ client.pc = "scan"
  /\ LET n == Len(client.rev.body) + 1 IN
       IF n <= Len(file[Wanted].body)
       THEN client' = [client EXCEPT !.rev.body = Append(@, file[Wanted].body[n])]
       ELSE Goto(IF client.plain THEN "put" ELSE "negotiate")
  /\ ServersUnchanged

\* The precondition each command derives from its HEAD of the destination;
\* create-only commands accept what already has the source's ETag.
Precondition(etag) ==
  IF inst.mode \in {"sync", "replicate"} THEN Pre(etag = NoRev, etag)
  ELSE IF etag = client.rev THEN Pre(FALSE, etag) ELSE Pre(TRUE, NoRev)

\* restoreObject gives up here, fork leaves it to the commit.
HeadSyncDestination ==
  /\ client.pc = "head"
  /\ LET etag == dst[Wanted] IN
       IF inst.mode = "restore" /\ etag \notin {NoRev, client.rev} THEN ObjectDone("conflict")
       ELSE client' = [client EXCEPT !.pc = IF inst.mode = "sync" THEN "scan" ELSE "negotiate",
                                     !.pre = Precondition(etag), !.seen = {etag}]
  /\ ServersUnchanged

\* handleSyncNegotiate asks for presence only: a damaged chunk counts.
NegotiateSyncMissing ==
  /\ client.pc = "negotiate"
  /\ client' = [client EXCEPT !.pc = "relay",
                  !.missing = {c \in Range(client.rev.body) : cas["dst"][c] = "absent"}]
  /\ ServersUnchanged

\* The bytes to send are read again: from the source, or from the file at the
\* chunk's first offset.
Readable(c) ==
  IF inst.mode # "sync" THEN cas[SrcStore][c] = "good"
  ELSE LET body == client.rev.body
           at == CHOOSE i \in DOMAIN body : body[i] = c /\ \A j \in 1 .. i - 1 : body[j] # c
       IN at \in DOMAIN file[Wanted].body /\ file[Wanted].body[at] = c

\* relayMissingChunks, uploadMissingSyncChunks: in any order, all or nothing
\* before the commit.  handleSyncChunkUpload leaves a chunk that is there.
RelayChunk == \E c \in client.missing :
  /\ client.pc = "relay"
  /\ IF Readable(c)
     THEN cas' = Stored("dst", <<c>>) /\ client' = [client EXCEPT !.missing = @ \ {c}]
     ELSE UNCHANGED cas /\ ObjectDone("error")
  /\ UNCHANGED <<inst, left, src, dst, file, commits, stable, quiet, foreign, versions, applied>>

Relayed ==
  /\ client.pc = "relay" /\ client.missing = {}
  /\ Goto(IF inst.mode = "sync" THEN "restat" ELSE "commit")
  /\ ServersUnchanged

\* The file must look as it did before the scan.
SizeOnly == Len(file[Wanted].body) = client.before.size
FileUnchanged == Stat(Wanted) = client.before
RestatLocalFile ==
  /\ client.pc = "restat"
  /\ IF FileUnchanged THEN Goto("commit") ELSE ObjectDone("error")
  /\ ServersUnchanged

\* A version of the file, if every write since the run began moved its mtime.
MovedOn(seen) == \A v \in seen : v.moved
OneVersion(body, seen) == MovedOn(seen) => \E v \in seen : v.body = body
CommitSyncObject ==
  /\ client.pc = "commit" /\ Goto("wait")
  /\ commits' = commits \cup {[run |-> client.run, key |-> Wanted, body |-> client.rev.body,
                               pre |-> client.pre, seen |-> client.seen, checked |-> FALSE,
                               whole |-> inst.mode # "sync" \/ OneVersion(client.rev.body, versions[Wanted])]}
  /\ UNCHANGED <<inst, left, src, dst, cas, file, stable, quiet, foreign, versions, applied>>

\* executeReplicationPlan after a fork's conflict: one more look.
NoRecheck == ObjectDone("conflict")
LookAgain ==
  LET etag == dst[Wanted] IN
    IF etag = client.rev
    THEN client' = [client EXCEPT !.pc = "commit", !.retried = TRUE,
                                  !.pre = Pre(FALSE, etag), !.seen = @ \cup {etag}]
    ELSE ObjectDone("conflict")
Recheck == client.pc = "recheck" /\ LookAgain /\ ServersUnchanged

\* doPlainPutFallback: an unconditional PUT of what was read.
PlainPut ==
  /\ client.pc = "put"
  /\ dst' = [dst EXCEPT ![Wanted] = client.rev] /\ cas' = Stored("dst", client.rev.body)
  /\ \E outcome \in {"ok", "error"} : ObjectDone(outcome)
  /\ UNCHANGED <<inst, left, src, file, commits, stable, quiet, foreign, versions, applied>>

\* A request or its answer is lost.  Before the commit that only fails the
\* object; afterwards the destination may still be working on it.
RequestFails ==
  /\ client.pc \in {"list", "describe", "head", "negotiate", "relay", "commit", "wait",
                    "recheck", "put", "stat", "scan", "restat"}
  /\ IF client.pc = "list" THEN client' = [NewClient EXCEPT !.pc = "end", !.run = client.run]
     ELSE ObjectDone("error")
  /\ ServersUnchanged

\* The server the client waits for is gone.
ConnectionEnds ==
  /\ client.pc = "wait" /\ ~\E m \in commits : m.run = client.run /\ m.key = Wanted
  /\ ObjectDone("error") /\ ServersUnchanged

KillClient ==
  /\ client.pc \notin {"idle", "end"} /\ client' = [NewClient EXCEPT !.pc = "end", !.run = client.run]
  /\ ServersUnchanged

ClientStep ==
  \/ ListSourceObjects \/ NextObject \/ FetchSourceDescriptor \/ StatLocalFile \/ ScanLocalFile
  \/ HeadSyncDestination \/ NegotiateSyncMissing \/ RelayChunk \/ Relayed \/ RestatLocalFile
  \/ CommitSyncObject \/ Recheck \/ PlainPut \/ ConnectionEnds
-----------------------------------------------------------------------------
(* handleSyncCommit: every chunk is read back without the lock, then the   *)
(* manifest is published and the root committed under it.                  *)

Waiting(m) == client.pc = "wait" /\ client.run = m.run /\ Wanted = m.key
Answer(m, outcome) ==
  IF ~Waiting(m) THEN UNCHANGED client
  ELSE IF outcome = "conflict" /\ inst.mode = "fork" /\ ~client.retried THEN Goto("recheck")
  ELSE ObjectDone(outcome)

AllReadBack(m) == \A c \in Range(m.body) : cas["dst"][c] = "good"
ReadBackChunks == \E m \in commits :
  /\ ~m.checked
  /\ IF AllReadBack(m)
     THEN commits' = (commits \ {m}) \cup {[m EXCEPT !.checked = TRUE]} /\ UNCHANGED client
     ELSE commits' = commits \ {m} /\ Answer(m, "error")
  /\ UNCHANGED <<inst, left, src, dst, cas, file, stable, quiet, foreign, versions, applied>>

\* The precondition on the object that is there when the lock is held.
EtagOrAbsent(m, cur) == m.pre.absent \/ cur = m.pre.etag
PreconditionHolds(m, cur) == IF m.pre.absent THEN cur = NoRev ELSE cur = m.pre.etag

CommitObjectRootChecked == \E m \in commits :
  /\ m.checked /\ commits' = commits \ {m}
  /\ IF PreconditionHolds(m, dst[m.key])
     THEN /\ dst' = [dst EXCEPT ![m.key] = Rev(m.body, FALSE)]
          /\ applied' = [over |-> dst[m.key], body |-> m.body, seen |-> m.seen,
                         mode |-> inst.mode, whole |-> m.whole]
          /\ quiet' = IF m.run = client.run THEN quiet ELSE quiet \ {m.key}
          /\ Answer(m, "ok")
     ELSE UNCHANGED <<dst, applied, quiet>> /\ Answer(m, "conflict")
  /\ UNCHANGED <<inst, left, src, cas, file, stable, foreign, versions>>

\* No such bucket, or the manifest or the frame cannot be written.
CommitFails == \E m \in commits :
  /\ commits' = commits \ {m} /\ Answer(m, "error")
  /\ UNCHANGED <<inst, left, src, dst, cas, file, stable, quiet, foreign, versions, applied>>

ServerStep == ReadBackChunks \/ CommitObjectRootChecked

\* The command and the servers keep working; loss and kills are not forced:
\* ClientStep and ServerStep are what fairness is assumed of.
SyncNext == Others \/ StartRun \/ ClientStep \/ RequestFails \/ KillClient \/ ServerStep \/ CommitFails
-----------------------------------------------------------------------------
SyncTypeOK ==
  /\ cas \in [{"src", "dst"} -> [Chunks -> {"absent", "good", "bad"}]]
  /\ client.pc \in {"idle", "list", "next", "describe", "stat", "scan", "head", "negotiate",
                    "relay", "restat", "commit", "wait", "recheck", "put", "end"}
  /\ client.missing \subseteq Chunks
  /\ \A m \in commits : m.run <= client.run
  /\ stable \subseteq Keys /\ quiet \subseteq Keys /\ foreign \subseteq Keys

\* What the command is to bring to key k.
Offered(k) == IF inst.mode = "sync" THEN file[k].body
              ELSE IF src[k] = NoRev THEN <<>> ELSE src[k].body

\* A commit replaces nothing but what its run saw at the destination, however
\* late it lands: an object written in between is never overwritten unseen.
\* fork and restore never replace other content, not even content they saw.
OverwritesAreIntended == applied.over # NoRev =>
  /\ applied.over \in applied.seen
  /\ applied.mode \in {"fork", "restore"} => applied.over.body = applied.body

\* A conflict on a key nobody else ever wrote is the run meeting its own
\* earlier commit: what it wanted to publish is already there.  A fork of an
\* object that was not a multipart upload resumes without any; what sections
\* 15g and 15i promise beyond that is RerunNeverConflicts.
ConflictsAreForeign == \A r \in client.results : r[2] = "conflict" /\ r[1] \notin foreign =>
  /\ dst[r[1]] # NoRev /\ dst[r[1]].body = Offered(r[1])
  /\ inst.mode = "fork" => src[r[1]].multi

\* The destination never shows an object it cannot read whole: no chunk of it
\* was collected or left behind.  And what a run committed is one version of the
\* source, never a mix of two, unless a file was rewritten while the run went on
\* with its mtime kept or set back, which syncFile says it does not detect.  A
\* plain PUT (doPlainPutFallback) makes no such check and is not meant here.
CommitsAreWhole ==
  /\ \A k \in Keys : dst[k] # NoRev => \A c \in Range(dst[k].body) : cas["dst"][c] # "absent"
  /\ applied.whole

\* A run that reports success has brought every key that stayed the same at
\* the source, and that nobody else wrote at the destination.
OKMeansReplicated == client.pc = "end" /\ client.ok => \A k \in stable \cap quiet :
  Offered(k) # <<>> => dst[k] # NoRev /\ dst[k].body = Offered(k)

\* A resumed fork or restore never conflicts with its own already landed
\* objects (the comments of sections 15g and 15i; forkObject, restoreObject).
RerunNeverConflicts == \A r \in client.results :
  inst.mode \in {"fork", "restore"} /\ r[2] = "conflict" => r[1] \in foreign
=============================================================================
