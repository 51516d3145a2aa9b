-------------------------------- MODULE Roots --------------------------------
(***************************************************************************)
(* What keeps content on disk (sections 12a, 13b, 15e, 15h, 16b to 16d of  *)
(* zeros3.go): the namespace and its history, the snapshot descriptors and *)
(* the representation roots name manifests and chunks, and everything else *)
(* is garbage to an offline collection.                                    *)
(*                                                                         *)
(* A server puts, copies, restores and deletes objects and creates and     *)
(* deletes snapshots; gc, prune, doctor -retire-bad-representations and    *)
(* bundle import own the store alone; repair runs beside the server.       *)
(* Files are held whole: vis is what a reader finds, dur what a power      *)
(* failure leaves.  Namespace changes are atomic and durable (Journal).    *)
(* What publishing one chunk or one pack goes through is in LooseCAS and   *)
(* Packs; here it is one durable step.  A killed process's writes reach    *)
(* the disk before any power failure.  Media decay is in the initial       *)
(* states: some files of the store are damaged when a behaviour begins.    *)
(***************************************************************************)
EXTENDS Naturals, FiniteSets, Functions

CONSTANTS ObjectKeys, Manifests, SnapshotIDs, CasChunks,
          NoManifest,      \* a key without an object
          ChunksOf,        \* ChunksOf[m]: the chunks manifest m lists
          RepObject,       \* RepObject[m]: the chunk of m's representation object
          RepComponents,   \* RepComponents[m]: the chunks of its components
          Bundles,         \* bundles at hand: a snapshot and the base of a delta
          FullBundle,      \* the base of a bundle that carries every chunk
          RootInstances    \* the stores and the bounds that are explored

None == [k \in ObjectKeys |-> NoManifest]
Captures == [ObjectKeys -> Manifests \cup {NoManifest}]
RootOps == {"put", "rep", "create", "delete", "gc", "prune", "retire", "import", "repair",
            "power", "kill"}

ASSUME RootsAssumption ==
  /\ NoManifest \notin Manifests
  /\ ChunksOf \in [Manifests -> SUBSET CasChunks]
  /\ RepObject \in [Manifests -> CasChunks] /\ RepComponents \in [Manifests -> SUBSET CasChunks]
  /\ RootInstances \subseteq
       [objs : Captures, hist : SUBSET Manifests, snaps : [SnapshotIDs -> Captures],
        stored : SUBSET SnapshotIDs, reps : SUBSET Manifests, damage : Nat, left : [RootOps -> Nat]]
  /\ Bundles \subseteq [id : SnapshotIDs, base : SnapshotIDs \cup {FullBundle}]

VARIABLES objs,      \* Store.buckets: the current manifest of each key
          hist,      \* manifests a history row names
          vis, dur,  \* health of every file, as seen and as a power failure leaves it
          entries,   \* entries[id]: the entries of snapshot id
          minted,    \* manifest and snapshot ids in use
          put,       \* the server's write in flight
          creator,   \* the server's snapshot creation in flight
          tool,      \* the process that owns the store: none, the server or a command
          fix,       \* the repair running under a shared lock
          promised,  \* what was acknowledged of each snapshot
          moments,   \* namespaces since the creation in flight began
          left       \* bounds

rootVars == <<objs, hist, vis, dur, entries, minted, put, creator, tool, fix, promised, moments, left>>
-----------------------------------------------------------------------------
(* Files.                                                                  *)

Manifest(m) == <<"manifest", m>>
RepRoot(m) == <<"rep", m>>
Snapshot(id) == <<"snapshot", id>>
Chunk(c) == <<"chunk", c>>
ManifestFiles == {Manifest(m) : m \in Manifests}
RepRootFiles == {RepRoot(m) : m \in Manifests}
SnapshotFiles == {Snapshot(id) : id \in SnapshotIDs}
ChunkFiles(cs) == {Chunk(c) : c \in cs}
Files == ManifestFiles \cup RepRootFiles \cup SnapshotFiles \cup ChunkFiles(CasChunks)

Present(f) == vis[f] # "absent"
Good(f) == vis[f] = "good"
Set(files, F, health) == [f \in Files |-> IF f \in F THEN health ELSE files[f]]

\* writeFileDurable and syncDir: the files are there, whatever fails later.
Publish(F) == vis' = Set(vis, F, "good") /\ dur' = Set(dur, F, "good")
\* casWrite leaves a chunk that exists alone.
PublishNew(F) == Publish({f \in F : ~Present(f)})
\* The directories of the files F are synced as they are.
Synced(F) == [f \in Files |-> IF f \in F THEN vis[f] ELSE dur[f]]

RepChunks(m) == {RepObject[m]} \cup RepComponents[m]
Named(captured) == Range(captured) \ {NoManifest}
NamespaceRoots == Named(objs) \cup hist
Snapshots == {id \in SnapshotIDs : Present(Snapshot(id))}
NamedBySnapshots(ids) == UNION {Named(entries[id]) : id \in ids}

NoPut == [pc |-> "idle", key |-> "none", man |-> NoManifest, from |-> NoManifest]
NoCreate == [pc |-> "idle", id |-> "none", got |-> None, todo |-> {}]
NoTool == [cmd |-> "none", pc |-> "none", todo |-> {}, id |-> "none"]
NoFix == [on |-> FALSE, todo |-> {}]

RootInit == \E i \in RootInstances :
  LET here == {Manifest(m) : m \in NamespaceRoots \cup NamedBySnapshots(i.stored)}
              \cup {Snapshot(id) : id \in i.stored} \cup {RepRoot(m) : m \in i.reps}
              \cup ChunkFiles(UNION {ChunksOf[m] : m \in NamespaceRoots \cup NamedBySnapshots(i.stored)})
              \cup ChunkFiles(UNION {RepChunks(m) : m \in i.reps})
  IN /\ objs = i.objs /\ hist = i.hist /\ entries = i.snaps
     /\ \E damaged \in SUBSET here :
          /\ Cardinality(damaged) <= i.damage
          /\ vis = [f \in Files |-> IF f \in damaged THEN "bad" ELSE IF f \in here THEN "good" ELSE "absent"]
     /\ dur = vis
     /\ minted = NamespaceRoots \cup NamedBySnapshots({id \in SnapshotIDs : i.snaps[id] # None})
                 \cup {id \in SnapshotIDs : i.snaps[id] # None}
     /\ put = NoPut /\ creator = NoCreate /\ tool = NoTool /\ fix = NoFix
     /\ promised = [id \in SnapshotIDs |-> IF id \in i.stored THEN "kept" ELSE "none"]
     /\ moments = {} /\ left = [op \in RootOps |-> i.left[op]]
-----------------------------------------------------------------------------
(* acquireStoreLock: the server and the offline commands exclude each      *)
(* other, repair only the offline commands.                                *)

Idle == tool.cmd = "none"
Spend(op) == left[op] > 0 /\ left' = [left EXCEPT ![op] = @ - 1]
Owns(cmd) == Idle /\ (cmd # "serve" => ~fix.on)
Serving == tool.cmd = "serve"

Serve ==
  /\ Owns("serve") /\ tool' = [NoTool EXCEPT !.cmd = "serve"]
  /\ UNCHANGED <<objs, hist, vis, dur, entries, minted, put, creator, fix, promised, moments, left>>

\* Shutdown lets requests in flight finish.
Shutdown ==
  /\ Serving /\ put = NoPut /\ creator = NoCreate /\ tool' = NoTool
  /\ UNCHANGED <<objs, hist, vis, dur, entries, minted, put, creator, fix, promised, moments, left>>
-----------------------------------------------------------------------------
(* Objects: content and manifest are durable before a root names them.     *)

PutBegin(k, m) ==
  /\ Serving /\ put = NoPut /\ m \notin minted /\ Spend("put")
  /\ PublishNew(ChunkFiles(ChunksOf[m]) \cup {Manifest(m)})
  /\ minted' = minted \cup {m}
  /\ put' = [pc |-> "published", key |-> k, man |-> m, from |-> NoManifest]
  /\ UNCHANGED <<objs, hist, entries, creator, tool, fix, promised, moments>>

\* CopyObject: a new manifest over the chunks of a verified one.
CopyBegin(k, from, m) ==
  /\ Serving /\ put = NoPut /\ m \notin minted /\ Spend("put")
  /\ objs[from] # NoManifest /\ Good(Manifest(objs[from]))
  /\ ChunksOf[m] = ChunksOf[objs[from]] /\ RepChunks(m) = RepChunks(objs[from])
  /\ \A c \in ChunksOf[m] : Present(Chunk(c))
  /\ Publish({Manifest(m)}) /\ minted' = minted \cup {m}
  /\ put' = [pc |-> "published", key |-> k, man |-> m, from |-> objs[from]]
  /\ UNCHANGED <<objs, hist, entries, creator, tool, fix, promised, moments>>

\* RestoreObjectVersion: an archived manifest becomes current again.
RestoreBegin(k, m) ==
  /\ Serving /\ put = NoPut /\ m \in hist /\ Spend("put")
  /\ Good(Manifest(m)) /\ \A c \in ChunksOf[m] : Present(Chunk(c))
  /\ put' = [pc |-> "checked", key |-> k, man |-> m, from |-> NoManifest]
  /\ UNCHANGED <<objs, hist, vis, dur, entries, minted, creator, tool, fix, promised, moments>>

\* captureSnapshotEntries holds Store.mu.
MuIgnored == TRUE
MuFree == creator.todo = {}

Seen(namespace) == IF creator = NoCreate THEN {} ELSE moments \cup {namespace}

Commit ==
  /\ Serving /\ put # NoPut /\ MuFree
  /\ objs' = [objs EXCEPT ![put.key] = put.man]
  /\ hist' = hist \cup ({objs[put.key]} \ {NoManifest})
  /\ moments' = Seen(objs') /\ put' = NoPut
  /\ UNCHANGED <<vis, dur, entries, minted, creator, tool, fix, promised, left>>

DeleteObject(k) ==
  /\ Serving /\ MuFree /\ objs[k] # NoManifest /\ Spend("put")
  /\ objs' = [objs EXCEPT ![k] = NoManifest] /\ hist' = hist \cup {objs[k]}
  /\ moments' = Seen(objs')
  /\ UNCHANGED <<vis, dur, entries, minted, put, creator, tool, fix, promised>>

\* repBuild: the chunks of the representation, the proof that reads them
\* back, then the root; repCloneRoot: a root over chunks another root has.
\* Either may fail at any point, and the object is committed all the same.
RepBuild(m, whole) ==
  /\ \A c \in ChunksOf[m] : Good(Chunk(c))
  /\ whole => \A c \in RepChunks(m) : vis[Chunk(c)] # "bad"
  /\ LET fresh == {f \in ChunkFiles(RepChunks(m)) : ~Present(f)}
     IN Publish(IF whole THEN fresh \cup {RepRoot(m)} ELSE fresh)
RepClone(from, m) == Good(RepRoot(from)) /\ Publish({RepRoot(m)})

RepOfPut ==
  /\ Serving /\ put.pc = "published" /\ Spend("rep")
  /\ \/ \E whole \in BOOLEAN : RepBuild(put.man, whole)
     \/ put.from # NoManifest /\ RepClone(put.from, put.man)
  /\ put' = [put EXCEPT !.pc = "built"]
  /\ UNCHANGED <<objs, hist, entries, minted, creator, tool, fix, promised, moments>>
-----------------------------------------------------------------------------
(* Snapshots.                                                              *)

CreateBegin(id) ==
  /\ Serving /\ creator = NoCreate /\ id \notin minted /\ Spend("create")
  /\ minted' = minted \cup {id} /\ moments' = {objs}
  /\ creator' = [pc |-> "capture", id |-> id, got |-> None, todo |-> ObjectKeys]
  /\ UNCHANGED <<objs, hist, vis, dur, entries, put, tool, fix, promised>>

CaptureEntry(k) ==
  /\ k \in creator.todo
  /\ creator' = [creator EXCEPT !.got[k] = objs[k], !.todo = @ \ {k}]
  /\ UNCHANGED <<objs, hist, vis, dur, entries, minted, put, tool, fix, promised, moments, left>>

CreateSnapshot ==
  /\ creator.pc = "capture" /\ creator.todo = {}
  /\ Publish({Snapshot(creator.id)}) /\ promised' = [promised EXCEPT ![creator.id] = "kept"]
  /\ entries' = [entries EXCEPT ![creator.id] = creator.got] /\ creator' = NoCreate
  /\ UNCHANGED <<objs, hist, minted, put, tool, fix, moments, left>>

\* os.Remove and syncDir under snapshotMu, damaged descriptor or not.
UnlinkUnsynced(F) == vis' = Set(vis, F, "absent") /\ UNCHANGED dur
UnlinkSynced(F) == vis' = Set(vis, F, "absent") /\ dur' = Set(dur, F, "absent")

DeleteSnapshot(id) ==
  /\ Serving /\ Present(Snapshot(id)) /\ Spend("delete")
  /\ UnlinkSynced({Snapshot(id)}) /\ promised' = [promised EXCEPT ![id] = "deleted"]
  /\ UNCHANGED <<objs, hist, entries, minted, put, creator, tool, fix, moments>>
-----------------------------------------------------------------------------
(* computeReachability: the manifests the readable roots name, the chunks  *)
(* those name, and whether anything was found that cannot be trusted.      *)

NoSnapshotIssue == \A id \in Snapshots : Good(Snapshot(id))
Claimed == NamespaceRoots \cup NamedBySnapshots({id \in Snapshots : Good(Snapshot(id))})
ReferencedManifests == {m \in Claimed : Good(Manifest(m))}
RepFault(m) == /\ Present(RepRoot(m))
               /\ \/ ~Good(RepRoot(m)) \/ ~Good(Chunk(RepObject[m]))
                  \/ \E c \in RepComponents[m] : ~Present(Chunk(c))
RepFaults == {m \in ReferencedManifests : RepFault(m)}
ReferencedChunks ==
  (UNION {ChunksOf[m] : m \in ReferencedManifests})
  \cup (UNION {RepChunks(m) : m \in {n \in ReferencedManifests : Present(RepRoot(n))} \ RepFaults})
LiveSetOK ==
  /\ NoSnapshotIssue /\ Claimed = ReferencedManifests /\ RepFaults = {}
  /\ \A c \in ReferencedChunks : Present(Chunk(c))
-----------------------------------------------------------------------------
(* gcCollect -apply, prune, doctor -retire-bad-representations.            *)

OrphanRoots == {f \in RepRootFiles : Present(f)} \ {RepRoot(m) : m \in ReferencedManifests}
UnreachableChunks == {f \in ChunkFiles(CasChunks) : Present(f)} \ ChunkFiles(ReferencedChunks)
UnreachableManifests ==
  {f \in ManifestFiles : Present(f)} \ {Manifest(m) : m \in ReferencedManifests}

\* A chunk of the wrong length also refuses the collection: it may not begin.
GcScan ==
  /\ Owns("gc") /\ LiveSetOK /\ Spend("gc")
  /\ tool' = [cmd |-> "gc", pc |-> IF OrphanRoots = {} THEN "chunk" ELSE "rep", id |-> "none",
              todo |-> OrphanRoots \cup UnreachableChunks \cup UnreachableManifests]
  /\ UNCHANGED <<objs, hist, vis, dur, entries, minted, put, creator, fix, promised, moments>>

OfKind(kind) == {f \in tool.todo : f[1] = kind}

GcRemove(f) ==
  /\ tool.cmd = "gc" /\ f \in OfKind(tool.pc)
  /\ UnlinkUnsynced({f}) /\ tool' = [tool EXCEPT !.todo = @ \ {f}]
  /\ UNCHANGED <<objs, hist, entries, minted, put, creator, fix, promised, moments, left>>

\* Only the directory of the representation roots is synced, if any of them
\* went, before chunks go.
SyncedNone(kind) == FALSE
SyncedAfter(kind) == kind = "rep"
After(kind) == CASE kind = "rep" -> "chunk" [] kind = "chunk" -> "manifest"

GcAdvance ==
  /\ tool.cmd = "gc" /\ OfKind(tool.pc) = {}
  /\ dur' = IF SyncedAfter(tool.pc) THEN Synced(RepRootFiles) ELSE dur
  /\ tool' = IF tool.pc = "manifest" THEN NoTool ELSE [tool EXCEPT !.pc = After(tool.pc)]
  /\ UNCHANGED <<objs, hist, vis, entries, minted, put, creator, fix, promised, moments, left>>

Prune(S) ==
  /\ Owns("prune") /\ S # {} /\ hist' = hist \ S /\ Spend("prune")
  /\ UNCHANGED <<objs, vis, dur, entries, minted, put, creator, tool, fix, promised, moments>>

RetireFaulty(m) ==
  /\ Owns("doctor") /\ m \in RepFaults /\ Spend("retire")
  /\ UnlinkSynced({RepRoot(m)})
  /\ UNCHANGED <<objs, hist, entries, minted, put, creator, tool, fix, promised, moments>>
-----------------------------------------------------------------------------
(* Bundle import.  The stream is read to its end before anything is        *)
(* published, except that a chunk whose every copy is damaged is replaced  *)
(* as soon as it is read.                                                  *)

Target(b) == Named(entries[b.id])
TargetChunks(b) == UNION {ChunksOf[m] : m \in Target(b)}
BaseChunks(b) == IF b.base = FullBundle THEN {} ELSE UNION {ChunksOf[m] : m \in Named(entries[b.base])}
Payload(b) == TargetChunks(b) \ BaseChunks(b)

\* resolveDeltaBase: the base snapshot and all its manifests read back good.
BaseResolved(b) ==
  b.base # FullBundle => /\ Good(Snapshot(b.base))
                         /\ \A m \in Named(entries[b.base]) : Good(Manifest(m))
\* checkBaseRef: a chunk the delta does not carry is read back.
BaseRefsStat(b) == \A c \in TargetChunks(b) \cap BaseChunks(b) : Present(Chunk(c))
BaseRefsRead(b) == \A c \in TargetChunks(b) \cap BaseChunks(b) : Good(Chunk(c))
\* An existing file must be the one the bundle carries.
NoCollision(b) == /\ vis[Snapshot(b.id)] # "bad"
                  /\ \A m \in Target(b) : vis[Manifest(m)] # "bad"
Damaged(cs) == {c \in cs : vis[Chunk(c)] = "bad"}

ImportRead(b) ==
  /\ Owns("import") /\ entries[b.id] # None /\ BaseResolved(b) /\ NoCollision(b) /\ BaseRefsRead(b)
  /\ Spend("import") /\ Publish(ChunkFiles(Damaged(Payload(b))))
  /\ tool' = [cmd |-> "import", pc |-> "flush", id |-> b.id,
              todo |-> ChunkFiles({c \in Payload(b) : ~Present(Chunk(c))})
                       \cup {Manifest(m) : m \in {n \in Target(b) : ~Present(Manifest(n))}}]
  /\ UNCHANGED <<objs, hist, entries, minted, put, creator, fix, promised, moments>>

\* The stream is cut or refused: what was repaired so far stays.
ImportFails(b, S) ==
  /\ Owns("import") /\ entries[b.id] # None /\ S # {} /\ S \subseteq Damaged(Payload(b))
  /\ Spend("import") /\ Publish(ChunkFiles(S))
  /\ UNCHANGED <<objs, hist, entries, minted, put, creator, tool, fix, promised, moments>>

Importing(pc) == tool.cmd = "import" /\ tool.pc = pc
ImportAt(pc, todo) == tool' = [tool EXCEPT !.pc = pc, !.todo = todo]

\* casBatch.Flush.
ImportFlush ==
  /\ Importing("flush") /\ Publish(OfKind("chunk"))
  /\ ImportAt(IF OfKind("manifest") = {} THEN "snapshot" ELSE "manifests", OfKind("manifest"))
  /\ UNCHANGED <<objs, hist, entries, minted, put, creator, fix, promised, moments, left>>

\* commitStagedManifests: each is renamed into place, then the directory synced.
ImportManifest(f) ==
  /\ Importing("manifests") /\ f \in tool.todo
  /\ vis' = Set(vis, {f}, "good") /\ ImportAt("manifests", tool.todo \ {f})
  /\ UNCHANGED <<objs, hist, dur, entries, minted, put, creator, fix, promised, moments, left>>

ImportManifestsSynced ==
  /\ Importing("manifests") /\ tool.todo = {}
  /\ dur' = Synced(ManifestFiles) /\ ImportAt("snapshot", {})
  /\ UNCHANGED <<objs, hist, vis, entries, minted, put, creator, fix, promised, moments, left>>

\* The descriptor last; one that is there is the same one and is left alone.
ImportSnapshot ==
  /\ Importing("snapshot") /\ ImportAt("imported", {})
  /\ PublishNew({Snapshot(tool.id)}) /\ promised' = [promised EXCEPT ![tool.id] = "kept"]
  /\ UNCHANGED <<objs, hist, entries, minted, put, creator, fix, moments, left>>

\* The optional representations of the imported manifests.
ImportBackfill ==
  /\ Importing("imported") /\ Spend("rep")
  /\ \E m \in Named(entries[tool.id]), whole \in BOOLEAN : Good(Manifest(m)) /\ RepBuild(m, whole)
  /\ UNCHANGED <<objs, hist, entries, minted, put, creator, tool, fix, promised, moments>>

ImportEnd ==
  /\ Importing("imported") /\ tool' = NoTool
  /\ UNCHANGED <<objs, hist, vis, dur, entries, minted, put, creator, fix, promised, moments, left>>
-----------------------------------------------------------------------------
(* repairFromPeer: the digests found damaged, each on its own.             *)

RepairFindings ==
  /\ ~fix.on /\ (Idle \/ Serving) /\ Spend("repair")
  /\ fix' = [on |-> TRUE, todo |-> {c \in ReferencedChunks : ~Good(Chunk(c))}]
  /\ UNCHANGED <<objs, hist, vis, dur, entries, minted, put, creator, tool, promised, moments>>

\* The peer's verified bytes replace the file; a failed directory sync
\* leaves them visible, and a peer without the chunk changes nothing.
RepairChunk(c) ==
  /\ c \in fix.todo /\ fix' = [fix EXCEPT !.todo = @ \ {c}]
  /\ \/ Publish({Chunk(c)})
     \/ vis' = Set(vis, {Chunk(c)}, "good") /\ UNCHANGED dur
     \/ UNCHANGED <<vis, dur>>
  /\ UNCHANGED <<objs, hist, entries, minted, put, creator, tool, promised, moments, left>>

RepairEnd ==
  /\ fix.on /\ fix.todo = {} /\ fix' = NoFix
  /\ UNCHANGED <<objs, hist, vis, dur, entries, minted, put, creator, tool, promised, moments, left>>
-----------------------------------------------------------------------------
(* Failures.                                                               *)

\* What was not synced is kept or lost, file by file.
PowerFailure(lost) ==
  /\ lost \subseteq {f \in Files : vis[f] # dur[f]} /\ Spend("power")
  /\ vis' = [f \in Files |-> IF f \in lost THEN dur[f] ELSE vis[f]] /\ dur' = vis'
  /\ put' = NoPut /\ creator' = NoCreate /\ tool' = NoTool /\ fix' = NoFix
  /\ UNCHANGED <<objs, hist, entries, minted, promised, moments>>

KillOwner ==
  /\ ~Idle /\ Spend("kill") /\ dur' = vis
  /\ put' = NoPut /\ creator' = NoCreate /\ tool' = NoTool
  /\ UNCHANGED <<objs, hist, vis, entries, minted, fix, promised, moments>>

KillRepair ==
  /\ fix.on /\ Spend("kill") /\ dur' = vis /\ fix' = NoFix
  /\ UNCHANGED <<objs, hist, vis, entries, minted, put, creator, tool, promised, moments>>

RootNext ==
  \/ Serve \/ Shutdown \/ Commit \/ RepOfPut \/ CreateSnapshot
  \/ \E k \in ObjectKeys :
       \/ DeleteObject(k) \/ CaptureEntry(k)
       \/ \E m \in Manifests : \/ PutBegin(k, m) \/ RestoreBegin(k, m)
                               \/ \E from \in ObjectKeys : CopyBegin(k, from, m)
  \/ \E id \in SnapshotIDs : CreateBegin(id) \/ DeleteSnapshot(id)
  \/ GcScan \/ (\E f \in tool.todo : GcRemove(f)) \/ GcAdvance
  \/ (\E S \in SUBSET hist : Prune(S)) \/ (\E m \in Manifests : RetireFaulty(m))
  \/ \E b \in Bundles : ImportRead(b) \/ \E S \in SUBSET CasChunks : ImportFails(b, S)
  \/ ImportFlush \/ (\E f \in tool.todo : ImportManifest(f)) \/ ImportManifestsSynced
  \/ ImportSnapshot \/ ImportBackfill \/ ImportEnd
  \/ RepairFindings \/ (\E c \in CasChunks : RepairChunk(c)) \/ RepairEnd
  \/ KillOwner \/ KillRepair
  \/ \E lost \in SUBSET {f \in Files : vis[f] # dur[f]} : PowerFailure(lost)

RootSpec == RootInit /\ [][RootNext]_rootVars
-----------------------------------------------------------------------------
\* Types; no process shares the store with one that owns it alone.
RootTypeOK ==
  /\ objs \in Captures /\ hist \subseteq Manifests /\ entries \in [SnapshotIDs -> Captures]
  /\ {vis[f] : f \in Files} \cup {dur[f] : f \in Files} \subseteq {"absent", "good", "bad"}
  /\ promised \in [SnapshotIDs -> {"none", "kept", "deleted"}]
  /\ tool.cmd \in {"none", "serve", "gc", "import"} /\ tool.todo \subseteq Files
  /\ fix.on => Idle \/ Serving
  /\ (put # NoPut \/ creator # NoCreate) => Serving

\* Everything a root names is there: the manifests and chunks of the current
\* objects, of history and of every descriptor in the snapshot directory, and
\* the chunks of every representation root, damaged roots and roots of
\* garbage included; through collections, deletions, imports, kills and power
\* failures.
RootsWhole ==
  LET held == NamespaceRoots \cup NamedBySnapshots(Snapshots)
  IN /\ \A m \in held : Present(Manifest(m)) /\ \A c \in ChunksOf[m] : Present(Chunk(c))
     /\ \A m \in Manifests : Present(RepRoot(m)) => \A c \in RepChunks(m) : Present(Chunk(c))

\* A snapshot whose creation or import was acknowledged is in the directory
\* until it is deleted, and an acknowledged deletion stays.
SnapshotAcksKept == \A id \in SnapshotIDs :
  /\ promised[id] = "kept" => Present(Snapshot(id))
  /\ promised[id] = "deleted" => ~Present(Snapshot(id))

\* A snapshot is the namespace at one moment of its creation, whatever was
\* committed and deleted meanwhile.
SnapshotIsOneMoment ==
  creator # NoCreate /\ creator.todo = {} => creator.got \in moments

\* An import that succeeds leaves its snapshot readable to the last chunk,
\* on whatever garbage, damage and leftovers of a killed import it started.
ImportIsReadable == Importing("imported") =>
  /\ Present(Snapshot(tool.id))
  /\ \A m \in Named(entries[tool.id]) : Good(Manifest(m)) /\ \A c \in ChunksOf[m] : Good(Chunk(c))
=============================================================================
