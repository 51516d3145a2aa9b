----------------------------- MODULE RootsProofs -----------------------------
(***************************************************************************)
(* Proofs about Roots, for every set of manifests, snapshots and chunks,   *)
(* every bundle and every store to begin with: whatever a root names is    *)
(* there, an acknowledged snapshot stays, and an import that succeeds can  *)
(* be read.                                                                *)
(*                                                                         *)
(* A power failure keeps some of what was not synced and loses the rest,   *)
(* so the invariant speaks of files that are there whatever is lost (Sure) *)
(* and of files that may be there (Maybe): a root that may be there needs  *)
(* files that surely are.  Every part of the invariant is an operator of   *)
(* the state it reads, so that a step that leaves that state alone keeps   *)
(* the part.                                                               *)
(***************************************************************************)
EXTENDS Roots, TLAPS

Health == {"absent", "good", "bad"}
Sure(v, d, f) == v[f] # "absent" /\ d[f] # "absent"
Maybe(v, d, f) == v[f] # "absent" \/ d[f] # "absent"

\* The content of a manifest, and the chunks of its representation.
Backed(v, d, m) == Sure(v, d, Manifest(m)) /\ \A c \in ChunksOf[m] : Sure(v, d, Chunk(c))
RepBacked(v, d, m) == \A c \in RepChunks(m) : Sure(v, d, Chunk(c))

Healths(v, d) == v \in [Files -> Health] /\ d \in [Files -> Health]
Phases == {"none", "rep", "chunk", "manifest", "flush", "manifests", "snapshot", "imported"}
Tools == [cmd : {"none", "serve", "gc", "import"}, pc : Phases, todo : SUBSET Files,
          id : SnapshotIDs \cup {"none"}]
TypeInv(o, h, es, p, t) ==
  /\ o \in Captures /\ h \in SUBSET Manifests /\ es \in [SnapshotIDs -> Captures]
  /\ p \in [SnapshotIDs -> {"none", "kept", "deleted"}] /\ t \in Tools

\* What a root names is there.
Held(o, h) == Named(o) \cup h
NamesWhole(names, v, d) == \A m \in names : Backed(v, d, m)
SnapsWhole(es, v, d) ==
  \A id \in SnapshotIDs : Maybe(v, d, Snapshot(id)) => NamesWhole(Named(es[id]), v, d)
RepsWhole(v, d) == \A m \in Manifests : Maybe(v, d, RepRoot(m)) => RepBacked(v, d, m)

\* What is seen and not synced: files a collection removed, roots of
\* representations only until it removes chunks; and the manifests of an
\* import before it syncs their directory.
ChunksSynced(v, d) == \A c \in CasChunks : v[Chunk(c)] # "absent" => d[Chunk(c)] # "absent"
ManifestsSynced(v, d) ==
  \A m \in Manifests : v[Manifest(m)] # "absent" => d[Manifest(m)] # "absent"
SnapsSynced(v, d) ==
  \A id \in SnapshotIDs : v[Snapshot(id)] # "absent" <=> d[Snapshot(id)] # "absent"
RepsSynced(v, d) ==
  \A m \in Manifests : v[RepRoot(m)] # "absent" <=> d[RepRoot(m)] # "absent"
SyncInv(t, v, d) ==
  /\ ChunksSynced(v, d) /\ SnapsSynced(v, d)
  /\ ~(t.cmd = "import" /\ t.pc = "manifests") => ManifestsSynced(v, d)
  /\ ~(t.cmd = "gc" /\ t.pc = "rep") => RepsSynced(v, d)

\* A write in flight has its content, and a copy that of its source's
\* representation.
Puts == [pc : {"published", "checked", "built"}, key : ObjectKeys, man : Manifests,
         from : Manifests \cup {NoManifest}]
PutInv(pt, t, v, d) ==
  pt # NoPut =>
    /\ t.cmd = "serve" /\ pt \in Puts /\ Backed(v, d, pt.man)
    /\ pt.from # NoManifest => RepChunks(pt.man) = RepChunks(pt.from)

\* A snapshot being created names what the namespace or its history names;
\* while Store.mu is held the namespace stands still.
Creations == [pc : {"capture"}, id : SnapshotIDs, got : Captures, todo : SUBSET ObjectKeys]
CreateInv(cr, t, o, h, mo) ==
  cr # NoCreate =>
    /\ t.cmd = "serve" /\ cr \in Creations
    /\ Named(cr.got) \subseteq Held(o, h) /\ o \in mo
    /\ \A k \in ObjectKeys \ cr.todo : cr.todo # {} => cr.got[k] = o[k]
    /\ cr.todo = {} => cr.got \in mo

\* A collection's list holds nothing that a root it leaves needs, and when it
\* comes to the chunks no representation root is on it.
Clear(todo, m) == Manifest(m) \notin todo /\ \A c \in ChunksOf[m] : Chunk(c) \notin todo
GcInv(t, o, h, es, v) ==
  t.cmd = "gc" =>
    /\ t.pc \in {"rep", "chunk", "manifest"}
    /\ t.pc # "rep" => \A m \in Manifests : RepRoot(m) \notin t.todo
    /\ \A id \in SnapshotIDs : Snapshot(id) \notin t.todo
    /\ \A m \in Held(o, h) : Clear(t.todo, m)
    /\ \A id \in SnapshotIDs : v[Snapshot(id)] # "absent" => \A m \in Named(es[id]) : Clear(t.todo, m)
    /\ \A m \in Manifests : v[RepRoot(m)] # "absent" /\ RepRoot(m) \notin t.todo =>
         \A c \in RepChunks(m) : Chunk(c) \notin t.todo

\* What an import has still to publish.
ImportInv(t, es, v) ==
  t.cmd = "import" =>
    /\ t.pc \in {"flush", "manifests", "snapshot", "imported"} /\ t.id \in SnapshotIDs
    /\ t.pc \in {"snapshot", "imported"} => t.todo = {}
    /\ t.pc = "manifests" => t.todo \subseteq ManifestFiles
    /\ t.pc = "imported" => v[Snapshot(t.id)] # "absent"
    /\ \A m \in Named(es[t.id]) :
         /\ v[Manifest(m)] = "good" \/ Manifest(m) \in t.todo
         /\ \A c \in ChunksOf[m] :
              v[Chunk(c)] = "good" \/ (t.pc = "flush" /\ Chunk(c) \in t.todo)

\* Repair replaces chunks that are there, beside no command that removes any.
FixInv(fx, t, v, d) ==
  /\ fx \in [on : BOOLEAN, todo : SUBSET CasChunks]
  /\ fx.on = TRUE => t.cmd \in {"none", "serve"}
  /\ fx.on = FALSE => fx.todo = {}
  /\ \A c \in fx.todo : Sure(v, d, Chunk(c))

AckInv(p, v, d) == \A id \in SnapshotIDs :
  /\ p[id] = "kept" => Sure(v, d, Snapshot(id))
  /\ p[id] = "deleted" => ~Maybe(v, d, Snapshot(id))

IInv ==
  /\ TypeInv(objs, hist, entries, promised, tool) /\ Healths(vis, dur)
  /\ NamesWhole(Held(objs, hist), vis, dur) /\ SnapsWhole(entries, vis, dur)
  /\ RepsWhole(vis, dur) /\ SyncInv(tool, vis, dur)
  /\ PutInv(put, tool, vis, dur) /\ CreateInv(creator, tool, objs, hist, moments)
  /\ GcInv(tool, objs, hist, entries, vis) /\ ImportInv(tool, entries, vis)
  /\ FixInv(fix, tool, vis, dur) /\ AckInv(promised, vis, dur)
-----------------------------------------------------------------------------
(* Files of different kinds, or of different names, are different files.   *)

\* The kind of a file is the first part of its name.
LEMMA Kinds ==
  /\ \A x : Manifest(x)[1] = "manifest" /\ RepRoot(x)[1] = "rep"
            /\ Snapshot(x)[1] = "snapshot" /\ Chunk(x)[1] = "chunk"
  /\ \A x, y : Manifest(x) # RepRoot(y) /\ Manifest(x) # Snapshot(y) /\ Manifest(x) # Chunk(y)
               /\ RepRoot(x) # Snapshot(y) /\ RepRoot(x) # Chunk(y) /\ Snapshot(x) # Chunk(y)
  /\ \A x, y : (Manifest(x) = Manifest(y) => x = y) /\ (RepRoot(x) = RepRoot(y) => x = y)
               /\ (Snapshot(x) = Snapshot(y) => x = y) /\ (Chunk(x) = Chunk(y) => x = y)
  BY DEF Manifest, RepRoot, Snapshot, Chunk

\* Every name the model forms is a file's.
LEMMA Paths ==
  /\ \A m \in Manifests : Manifest(m) \in Files /\ RepRoot(m) \in Files
  /\ \A id \in SnapshotIDs : Snapshot(id) \in Files
  /\ \A c \in CasChunks : Chunk(c) \in Files
  /\ \A m \in Manifests : ChunksOf[m] \subseteq CasChunks /\ RepChunks(m) \subseteq CasChunks
  /\ \A cs \in SUBSET CasChunks : ChunkFiles(cs) \subseteq Files
  /\ ManifestFiles \subseteq Files /\ RepRootFiles \subseteq Files
  BY RootsAssumption
     DEF Files, ManifestFiles, RepRootFiles, SnapshotFiles, ChunkFiles, RepChunks

\* What a capture names is a manifest of one of its keys.
LEMMA NamedOf ==
  ASSUME NEW o \in Captures
  PROVE  /\ Named(o) \subseteq Manifests
         /\ \A m : m \in Named(o) <=> \E k \in ObjectKeys : o[k] = m /\ m # NoManifest
  BY RootsAssumption DEF Named, Captures, Range
-----------------------------------------------------------------------------
(* What steps do to files.                                                 *)

\* Content that is sure to be there stays so; the same of snapshots; no
\* snapshot and no representation root appears; good files stay good.
Kept(v, d, v2, d2) ==
  /\ \A m \in Manifests : Sure(v, d, Manifest(m)) => Sure(v2, d2, Manifest(m))
  /\ \A c \in CasChunks : Sure(v, d, Chunk(c)) => Sure(v2, d2, Chunk(c))
SnapsKept(v, d, v2, d2) ==
  \A id \in SnapshotIDs : Sure(v, d, Snapshot(id)) => Sure(v2, d2, Snapshot(id))
SnapsOnly(v, d, v2, d2) ==
  \A id \in SnapshotIDs : Maybe(v2, d2, Snapshot(id)) => Maybe(v, d, Snapshot(id))
RepsOnly(v, d, v2, d2) ==
  \A m \in Manifests : Maybe(v2, d2, RepRoot(m)) => Maybe(v, d, RepRoot(m))
GoodKept(v, v2) == \A f \in Files : v[f] = "good" => v2[f] = "good"
AllGood(F, v, d) == \A f \in F : v[f] = "good" /\ d[f] = "good"
\* Files of F changed to x, the others as they were.
Changed(v, v2, F, x) == \A f \in Files : v2[f] = IF f \in F THEN x ELSE v[f]
Content == ManifestFiles \cup ChunkFiles(CasChunks)

\* A manifest whose content is sure stays whole.
LEMMA NamesStay ==
  ASSUME NEW v, NEW d, NEW v2, NEW d2, Kept(v, d, v2, d2),
         NEW names \in SUBSET Manifests, NamesWhole(names, v, d)
  PROVE  NamesWhole(names, v2, d2)
  BY Paths DEF NamesWhole, Backed, Kept

\* So does what a snapshot names.
LEMMA SnapsStay ==
  ASSUME NEW v, NEW d, NEW v2, NEW d2, Kept(v, d, v2, d2), SnapsOnly(v, d, v2, d2),
         NEW es \in [SnapshotIDs -> Captures], SnapsWhole(es, v, d)
  PROVE  SnapsWhole(es, v2, d2)
<1> SUFFICES ASSUME NEW id \in SnapshotIDs, Maybe(v2, d2, Snapshot(id))
             PROVE  NamesWhole(Named(es[id]), v2, d2)
  BY DEF SnapsWhole
<1>1. NamesWhole(Named(es[id]), v, d)  BY DEF SnapsWhole, SnapsOnly
<1>2. Named(es[id]) \in SUBSET Manifests  BY NamedOf
<1> QED  BY <1>1, <1>2, NamesStay

\* So do the chunks of a representation.
LEMMA RepsStay ==
  ASSUME NEW v, NEW d, NEW v2, NEW d2, Kept(v, d, v2, d2), RepsOnly(v, d, v2, d2),
         RepsWhole(v, d)
  PROVE  RepsWhole(v2, d2)
  BY Paths DEF RepsWhole, RepBacked, RepsOnly, Kept

\* So does the content of a write in flight.
LEMMA PutStays ==
  ASSUME NEW v, NEW d, NEW v2, NEW d2, Kept(v, d, v2, d2), NEW pt, NEW t, PutInv(pt, t, v, d)
  PROVE  PutInv(pt, t, v2, d2)
  BY Paths DEF PutInv, Puts, Backed, Kept

\* What a repair has to do stays sure.
LEMMA FixStays ==
  ASSUME NEW v, NEW d, NEW v2, NEW d2, Kept(v, d, v2, d2), NEW fx, NEW t, FixInv(fx, t, v, d)
  PROVE  FixInv(fx, t, v2, d2)
<1>1. \A c \in fx.todo : c \in CasChunks  BY DEF FixInv
<1>2. \A c \in fx.todo : Sure(v2, d2, Chunk(c))  BY <1>1 DEF FixInv, Kept
<1> QED  BY <1>2 DEF FixInv

\* Acknowledged snapshots and deletions stay so.
LEMMA AcksStay ==
  ASSUME NEW v, NEW d, NEW v2, NEW d2, SnapsKept(v, d, v2, d2), SnapsOnly(v, d, v2, d2),
         NEW p, AckInv(p, v, d)
  PROVE  AckInv(p, v2, d2)
  BY DEF AckInv, SnapsKept, SnapsOnly

\* Set gives the files of F the health x and leaves the others.
LEMMA SetChanges ==
  ASSUME NEW v \in [Files -> Health], NEW F, NEW x \in Health, NEW v2, v2 = Set(v, F, x)
  PROVE  v2 \in [Files -> Health] /\ Changed(v, v2, F, x)
  BY DEF Set, Changed

\* writeFileDurable of the files F.
LEMMA Published ==
  ASSUME NEW v, NEW d, Healths(v, d), NEW F \in SUBSET Files,
         NEW v2, NEW d2, v2 = Set(v, F, "good"), d2 = Set(d, F, "good")
  PROVE  /\ Healths(v2, d2) /\ Kept(v, d, v2, d2) /\ SnapsKept(v, d, v2, d2) /\ GoodKept(v, v2)
         /\ AllGood(F, v2, d2) /\ Changed(v, v2, F, "good") /\ Changed(d, d2, F, "good")
         /\ \A t : SyncInv(t, v, d) => SyncInv(t, v2, d2)
         /\ (\A id \in SnapshotIDs : Snapshot(id) \notin F) => SnapsOnly(v, d, v2, d2)
         /\ (\A m \in Manifests : RepRoot(m) \notin F) => RepsOnly(v, d, v2, d2)
<1>1. /\ Healths(v2, d2) /\ Changed(v, v2, F, "good") /\ Changed(d, d2, F, "good")
  BY SetChanges DEF Healths, Health
<1>2. Kept(v, d, v2, d2) /\ SnapsKept(v, d, v2, d2)
  BY <1>1, Paths DEF Kept, SnapsKept, Sure, Changed
<1>3. GoodKept(v, v2) /\ AllGood(F, v2, d2)  BY <1>1 DEF GoodKept, AllGood, Changed
<1>4. ASSUME NEW t, SyncInv(t, v, d) PROVE SyncInv(t, v2, d2)
  BY <1>1, <1>4, Paths
     DEF SyncInv, ChunksSynced, SnapsSynced, ManifestsSynced, RepsSynced, Changed
<1>5. (\A id \in SnapshotIDs : Snapshot(id) \notin F) => SnapsOnly(v, d, v2, d2)
  BY <1>1, Paths DEF SnapsOnly, Maybe, Changed
<1>6. (\A m \in Manifests : RepRoot(m) \notin F) => RepsOnly(v, d, v2, d2)
  BY <1>1, Paths DEF RepsOnly, Maybe, Changed
<1> QED  BY <1>1, <1>2, <1>3, <1>4, <1>5, <1>6

\* Files that are content are no roots.
LEMMA ContentNoRoot ==
  ASSUME NEW F \in SUBSET Content
  PROVE  /\ F \in SUBSET Files
         /\ \A id \in SnapshotIDs : Snapshot(id) \notin F
         /\ \A m \in Manifests : RepRoot(m) \notin F
  BY Kinds DEF Content, Files, ManifestFiles, ChunkFiles

\* The part of the invariant that is about files and roots.
FileInv(o, h, es, p, pt, fx, t, v, d) ==
  /\ NamesWhole(Held(o, h), v, d) /\ SnapsWhole(es, v, d) /\ RepsWhole(v, d)
  /\ PutInv(pt, t, v, d) /\ FixInv(fx, t, v, d) /\ AckInv(p, v, d)

\* A step that keeps content and snapshots and adds no root keeps FileInv.
LEMMA FilesStay ==
  ASSUME NEW v, NEW d, NEW v2, NEW d2, NEW o, NEW h, NEW es, NEW p, NEW pt, NEW fx, NEW t,
         TypeInv(o, h, es, p, t), FileInv(o, h, es, p, pt, fx, t, v, d),
         Kept(v, d, v2, d2), SnapsKept(v, d, v2, d2), SnapsOnly(v, d, v2, d2),
         RepsOnly(v, d, v2, d2)
  PROVE  FileInv(o, h, es, p, pt, fx, t, v2, d2)
<1>1. Held(o, h) \in SUBSET Manifests /\ es \in [SnapshotIDs -> Captures]
  BY NamedOf DEF TypeInv, Held
<1> QED  BY <1>1, NamesStay, SnapsStay, RepsStay, PutStays, FixStays, AcksStay DEF FileInv
-----------------------------------------------------------------------------
(* The server.                                                             *)

\* While nobody or the server has the store no collection and no import runs.
LEMMA NoCommand ==
  ASSUME NEW t, t.cmd \in {"none", "serve"}, NEW o, NEW h, NEW es, NEW v
  PROVE  GcInv(t, o, h, es, v) /\ ImportInv(t, es, v)
  BY DEF GcInv, ImportInv

\* Neither does it matter to a repair who of the two has it.
LEMMA RepairBeside ==
  ASSUME NEW t, t.cmd \in {"none", "serve"}, NEW fx, NEW t0, NEW v, NEW d, FixInv(fx, t0, v, d)
  PROVE  FixInv(fx, t, v, d)
  BY DEF FixInv

\* acquireStoreLock by the server.
LEMMA ServeStep == IInv /\ Serve => IInv'
<1> SUFFICES ASSUME IInv, Serve PROVE IInv'  OBVIOUS
<1> USE DEF IInv
<1>1. /\ tool' = [cmd |-> "serve", pc |-> "none", todo |-> {}, id |-> "none"]
      /\ tool.cmd = "none"
      /\ UNCHANGED <<objs, hist, vis, dur, entries, put, creator, fix, promised, moments>>
  BY DEF NoTool, Serve, Owns, Idle
<1>2. put = NoPut /\ creator = NoCreate  BY <1>1 DEF PutInv, CreateInv
<1>3. TypeInv(objs, hist, entries, promised, tool)'  BY <1>1 DEF TypeInv, Tools, Phases
<1>4. SyncInv(tool, vis, dur)'  BY <1>1 DEF SyncInv
<1>5. PutInv(put, tool, vis, dur)' /\ CreateInv(creator, tool, objs, hist, moments)'
  BY <1>1, <1>2 DEF PutInv, CreateInv
<1>6. tool'.cmd \in {"none", "serve"}  BY <1>1
<1>7. /\ GcInv(tool, objs, hist, entries, vis)' /\ ImportInv(tool, entries, vis)'
      /\ FixInv(fix, tool, vis, dur)'
  BY <1>1, <1>6, NoCommand, RepairBeside
<1> QED  BY <1>1, <1>3, <1>4, <1>5, <1>7

\* The store is left to nobody by whoever has it, with nothing in flight.
LEMMA ReleaseStep ==
  ASSUME IInv, tool' = NoTool, put' = NoPut, creator' = NoCreate,
         tool.cmd \in {"none", "serve"} \/ (tool.cmd = "gc" /\ tool.pc = "manifest")
           \/ (tool.cmd = "import" /\ tool.pc = "imported"),
         UNCHANGED <<objs, hist, vis, dur, entries, fix, promised>>
  PROVE  IInv'
<1> USE DEF IInv
<1>1. tool' = [cmd |-> "none", pc |-> "none", todo |-> {}, id |-> "none"]  BY DEF NoTool
<1>2. TypeInv(objs, hist, entries, promised, tool)'  BY <1>1 DEF TypeInv, Tools, Phases
<1>3. SyncInv(tool, vis, dur)'  BY <1>1 DEF SyncInv
<1>4. PutInv(put, tool, vis, dur)' /\ CreateInv(creator, tool, objs, hist, moments)'
  BY DEF PutInv, CreateInv
<1>5. tool'.cmd \in {"none", "serve"}  BY <1>1
<1>6. /\ GcInv(tool, objs, hist, entries, vis)' /\ ImportInv(tool, entries, vis)'
      /\ FixInv(fix, tool, vis, dur)'
  BY <1>5, NoCommand, RepairBeside
<1> QED  BY <1>2, <1>3, <1>4, <1>6

\* The server's shutdown.
LEMMA ShutdownStep == IInv /\ Shutdown => IInv'
  BY ReleaseStep DEF Shutdown, Serving

\* A step of a server that changes files only.
LEMMA ServerPublishes ==
  ASSUME IInv, Serving, NEW F \in SUBSET Content,
         vis' = Set(vis, F, "good"), dur' = Set(dur, F, "good"),
         UNCHANGED <<objs, hist, entries, creator, tool, fix, promised, moments>>,
         PutInv(put', tool, vis', dur')
  PROVE  IInv'
<1> USE DEF IInv
<1>1. F \in SUBSET Files /\ (\A id \in SnapshotIDs : Snapshot(id) \notin F)
      /\ (\A m \in Manifests : RepRoot(m) \notin F)
  BY ContentNoRoot
<1>2. /\ Healths(vis', dur') /\ Kept(vis, dur, vis', dur') /\ SnapsKept(vis, dur, vis', dur')
      /\ SyncInv(tool, vis', dur') /\ SnapsOnly(vis, dur, vis', dur') /\ RepsOnly(vis, dur, vis', dur')
  BY <1>1, Published
<1>3. FileInv(objs, hist, entries, promised, put, fix, tool, vis, dur)  BY DEF FileInv
<1>4. FileInv(objs, hist, entries, promised, put, fix, tool, vis', dur')
  BY <1>2, <1>3, FilesStay
<1> QED  BY <1>2, <1>4, NoCommand DEF FileInv, Serving

\* PutObject publishes the chunks that are missing and the manifest: the
\* write in flight has its content.
LEMMA PutBeginStep == ASSUME IInv, NEW k \in ObjectKeys, NEW m \in Manifests, PutBegin(k, m)
                      PROVE  IInv'
<1> USE DEF IInv, PutBegin
<1> DEFINE all == ChunkFiles(ChunksOf[m]) \cup {Manifest(m)}
           new == {f \in all : ~Present(f)}
<1>1. all \in SUBSET Content /\ all \in SUBSET Files
  BY Paths DEF Content, ManifestFiles, ChunkFiles
<1>2. vis' = Set(vis, new, "good") /\ dur' = Set(dur, new, "good")
  BY DEF PublishNew, Publish
<1>3. AllGood(new, vis', dur') /\ Kept(vis, dur, vis', dur')
  BY <1>1, <1>2, Published
<1>4. Sure(vis', dur', Manifest(m))
  <2>1. CASE Present(Manifest(m))
    <3>1. Sure(vis, dur, Manifest(m))
      BY <2>1 DEF Sure, Present, SyncInv, ManifestsSynced, Serving
    <3> QED  BY <3>1, <1>3 DEF Kept
  <2>2. CASE ~Present(Manifest(m))  BY <2>2, <1>3 DEF AllGood, Sure
  <2> QED  BY <2>1, <2>2
<1>5. ASSUME NEW c \in ChunksOf[m] PROVE Sure(vis', dur', Chunk(c))
  <2>1. c \in CasChunks  BY Paths
  <2>2. CASE Present(Chunk(c))
    <3>1. Sure(vis, dur, Chunk(c))  BY <2>1, <2>2 DEF Sure, Present, SyncInv, ChunksSynced
    <3> QED  BY <2>1, <3>1, <1>3 DEF Kept
  <2>3. CASE ~Present(Chunk(c))
    BY <2>3, <1>3 DEF AllGood, Sure, ChunkFiles
  <2> QED  BY <2>2, <2>3
<1>6. PutInv(put', tool, vis', dur')
  BY <1>4, <1>5 DEF PutInv, Puts, Backed, Serving
<1> QED  BY <1>1, <1>2, <1>6, ServerPublishes

\* CopyObject publishes a manifest over chunks that are there.
LEMMA CopyBeginStep ==
  ASSUME IInv, NEW k \in ObjectKeys, NEW from \in ObjectKeys, NEW m \in Manifests,
         CopyBegin(k, from, m)
  PROVE  IInv'
<1> USE DEF IInv, CopyBegin
<1>1. {Manifest(m)} \in SUBSET Content /\ {Manifest(m)} \in SUBSET Files
  BY Paths DEF Content, ManifestFiles
<1>2. vis' = Set(vis, {Manifest(m)}, "good") /\ dur' = Set(dur, {Manifest(m)}, "good")
  BY DEF Publish
<1>3. AllGood({Manifest(m)}, vis', dur') /\ Kept(vis, dur, vis', dur')
  BY <1>1, <1>2, Published
<1>4. Sure(vis', dur', Manifest(m))  BY <1>3 DEF AllGood, Sure
<1>5. ASSUME NEW c \in ChunksOf[m] PROVE Sure(vis', dur', Chunk(c))
  <2>1. c \in CasChunks  BY Paths
  <2>2. Sure(vis, dur, Chunk(c))  BY <2>1 DEF Sure, Present, SyncInv, ChunksSynced
  <2> QED  BY <2>1, <2>2, <1>3 DEF Kept
<1>6. objs[from] \in Manifests  BY DEF TypeInv, Captures
<1>7. PutInv(put', tool, vis', dur')
  BY <1>4, <1>5, <1>6 DEF PutInv, Puts, Backed, Serving
<1> QED  BY <1>1, <1>2, <1>7, ServerPublishes

\* RestoreObjectVersion names content that history holds.
LEMMA RestoreBeginStep ==
  ASSUME IInv, NEW k \in ObjectKeys, NEW m \in Manifests, RestoreBegin(k, m)
  PROVE  IInv'
<1> USE DEF IInv, RestoreBegin
<1>1. Backed(vis, dur, m)  BY DEF NamesWhole, Held
<1>2. PutInv(put', tool, vis, dur)  BY <1>1 DEF PutInv, Puts, Serving
<1> QED  BY <1>2

\* A commit and a deletion: one key changes, and history keeps what it had.
LEMMA NamespaceStep ==
  ASSUME IInv, Serving, MuFree, NEW k \in ObjectKeys, NEW x \in Manifests \cup {NoManifest},
         x # NoManifest => Backed(vis, dur, x),
         objs' = [objs EXCEPT ![k] = x], hist' = hist \cup ({objs[k]} \ {NoManifest}),
         moments' = Seen(objs'), put' \in {put, NoPut},
         UNCHANGED <<vis, dur, entries, creator, tool, fix, promised>>
  PROVE  IInv'
<1> USE DEF IInv
<1>1. objs \in Captures /\ hist \subseteq Manifests  BY DEF TypeInv
<1>2. objs' \in Captures  BY <1>1 DEF Captures
<1>3. hist' \in SUBSET Manifests  BY <1>1 DEF Captures
<1>4. ASSUME NEW m \in Held(objs', hist') PROVE m \in Held(objs, hist) \/ (m = x /\ x # NoManifest)
  <2>1. \A j \in ObjectKeys : objs'[j] = IF j = k THEN x ELSE objs[j]  BY <1>1 DEF Captures
  <2>2. CASE m \in Named(objs')
    <3>1. PICK j \in ObjectKeys : objs'[j] = m /\ m # NoManifest  BY <2>2, <1>2, NamedOf
    <3> QED  BY <2>1, <3>1, <1>1, NamedOf DEF Held
  <2>3. CASE m \in hist'  BY <2>3, <1>1, NamedOf DEF Held
  <2> QED  BY <2>2, <2>3 DEF Held
<1>5. ASSUME NEW m \in Held(objs, hist) PROVE m \in Held(objs', hist')
  <2>1. \A j \in ObjectKeys : objs'[j] = IF j = k THEN x ELSE objs[j]  BY <1>1 DEF Captures
  <2>2. CASE m \in Named(objs)
    <3>1. PICK j \in ObjectKeys : objs[j] = m /\ m # NoManifest  BY <2>2, <1>1, NamedOf
    <3> QED  BY <2>1, <3>1, <1>2, NamedOf DEF Held
  <2>3. CASE m \in hist  BY <2>3 DEF Held
  <2> QED  BY <2>2, <2>3 DEF Held
<1>6. NamesWhole(Held(objs', hist'), vis, dur)  BY <1>4 DEF NamesWhole
<1>7. TypeInv(objs, hist, entries, promised, tool)'  BY <1>2, <1>3 DEF TypeInv
<1>8. PutInv(put, tool, vis, dur)'  BY DEF PutInv
<1>9. CreateInv(creator, tool, objs, hist, moments)'
  <2> SUFFICES ASSUME creator # NoCreate
               PROVE  CreateInv(creator, tool, objs, hist, moments)'
    BY DEF CreateInv
  <2>1. moments' = moments \cup {objs'}  BY DEF Seen
  <2>2. /\ tool.cmd = "serve" /\ creator \in Creations
        /\ Named(creator.got) \subseteq Held(objs, hist)
        /\ creator.todo = {} /\ creator.got \in moments
    BY DEF CreateInv, MuFree
  <2> QED  BY <2>1, <2>2, <1>5 DEF CreateInv
<1>10. GcInv(tool, objs, hist, entries, vis)' /\ ImportInv(tool, entries, vis)'
  BY NoCommand DEF Serving
<1> QED  BY <1>6, <1>7, <1>8, <1>9, <1>10

\* A commit names what the write in flight has published.
LEMMA CommitStep == ASSUME IInv, Commit PROVE IInv'
<1>1. put # NoPut /\ put \in Puts /\ Backed(vis, dur, put.man)  BY DEF Commit, IInv, PutInv
<1>2. put.key \in ObjectKeys /\ put.man \in Manifests  BY <1>1 DEF Puts
<1> QED  BY <1>1, <1>2, NamespaceStep DEF Commit

\* A deletion moves a name to history.
LEMMA DeleteObjectStep ==
  ASSUME IInv, NEW k \in ObjectKeys, DeleteObject(k)
  PROVE  IInv'
<1>1. {objs[k]} \ {NoManifest} = {objs[k]}  BY DEF DeleteObject
<1> QED  BY <1>1, NamespaceStep DEF DeleteObject

\* repBuild publishes a root only over chunks that are there.
LEMMA RepBuilt ==
  ASSUME IInv, NEW m \in Manifests, NEW whole \in BOOLEAN, RepBuild(m, whole)
  PROVE  \E F \in SUBSET Files :
           /\ vis' = Set(vis, F, "good") /\ dur' = Set(dur, F, "good")
           /\ \A id \in SnapshotIDs : Snapshot(id) \notin F
           /\ \A n \in Manifests : RepRoot(n) \in F => RepBacked(vis', dur', n)
<1> DEFINE fresh == {f \in ChunkFiles(RepChunks(m)) : ~Present(f)}
           F == IF whole THEN fresh \cup {RepRoot(m)} ELSE fresh
<1>1. vis' = Set(vis, F, "good") /\ dur' = Set(dur, F, "good")  BY DEF RepBuild, Publish
<1>2. F \in SUBSET Files  BY Paths
<1>3. \A id \in SnapshotIDs : Snapshot(id) \notin F  BY Kinds DEF ChunkFiles
<1>4. AllGood(F, vis', dur') /\ Kept(vis, dur, vis', dur')  BY <1>1, <1>2, Published DEF IInv
<1>5. ASSUME NEW c \in RepChunks(m) PROVE Sure(vis', dur', Chunk(c))
  <2>1. c \in CasChunks  BY Paths
  <2>2. CASE Present(Chunk(c))
    <3>1. Sure(vis, dur, Chunk(c))  BY <2>1, <2>2 DEF IInv, Sure, Present, SyncInv, ChunksSynced
    <3> QED  BY <2>1, <3>1, <1>4 DEF Kept
  <2>3. CASE ~Present(Chunk(c))
    <3>1. Chunk(c) \in F  BY <2>3 DEF ChunkFiles
    <3> QED  BY <3>1, <1>4 DEF AllGood, Sure
  <2> QED  BY <2>2, <2>3
<1>6. ASSUME NEW n \in Manifests, RepRoot(n) \in F PROVE RepBacked(vis', dur', n)
  <2>1. n = m  BY <1>6, Kinds DEF ChunkFiles
  <2> QED  BY <2>1, <1>5 DEF RepBacked
<1> QED  BY <1>1, <1>2, <1>3, <1>6

\* A step that publishes representation roots over chunks that are there.
LEMMA RootsPublished ==
  ASSUME IInv, NEW F \in SUBSET Files,
         vis' = Set(vis, F, "good"), dur' = Set(dur, F, "good"),
         \A id \in SnapshotIDs : Snapshot(id) \notin F,
         \A n \in Manifests : RepRoot(n) \in F => RepBacked(vis', dur', n)
  PROVE  /\ Healths(vis', dur') /\ SyncInv(tool, vis', dur') /\ GoodKept(vis, vis')
         /\ FileInv(objs, hist, entries, promised, put, fix, tool, vis', dur')
         /\ \A id \in SnapshotIDs : vis'[Snapshot(id)] = vis[Snapshot(id)]
<1> USE DEF IInv
<1>1. /\ Healths(vis', dur') /\ Kept(vis, dur, vis', dur') /\ SnapsKept(vis, dur, vis', dur')
      /\ SyncInv(tool, vis', dur') /\ SnapsOnly(vis, dur, vis', dur')
      /\ GoodKept(vis, vis') /\ Changed(vis, vis', F, "good") /\ Changed(dur, dur', F, "good")
  BY Published
<1>2. RepsWhole(vis', dur')
  <2> SUFFICES ASSUME NEW m \in Manifests, Maybe(vis', dur', RepRoot(m))
               PROVE  RepBacked(vis', dur', m)
    BY DEF RepsWhole
  <2>1. CASE RepRoot(m) \in F  BY <2>1
  <2>2. CASE RepRoot(m) \notin F
    <3>1. RepBacked(vis, dur, m)  BY <2>2, <1>1, Paths DEF RepsWhole, Maybe, Changed
    <3> QED  BY <3>1, <1>1, Paths DEF RepBacked, Kept
  <2> QED  BY <2>1, <2>2
<1>3. Held(objs, hist) \in SUBSET Manifests /\ entries \in [SnapshotIDs -> Captures]
  BY NamedOf DEF TypeInv, Held
<1>4. FileInv(objs, hist, entries, promised, put, fix, tool, vis', dur')
  BY <1>1, <1>2, <1>3, NamesStay, SnapsStay, PutStays, FixStays, AcksStay DEF FileInv
<1>5. \A id \in SnapshotIDs : vis'[Snapshot(id)] = vis[Snapshot(id)]
  BY <1>1, Paths DEF Changed
<1> QED  BY <1>1, <1>4, <1>5

\* A representation is built, or cloned, for the write in flight.
LEMMA RepOfPutStep == ASSUME IInv, RepOfPut PROVE IInv'
<1> USE DEF IInv
<1>1. put # NoPut  BY DEF RepOfPut, NoPut
<1>2. put \in Puts /\ (put.from # NoManifest => RepChunks(put.man) = RepChunks(put.from))
  BY <1>1 DEF PutInv
<1>3. put.man \in Manifests /\ put.from \in Manifests \cup {NoManifest}  BY <1>2 DEF Puts
<1>4. \E F \in SUBSET Files :
        /\ vis' = Set(vis, F, "good") /\ dur' = Set(dur, F, "good")
        /\ \A id \in SnapshotIDs : Snapshot(id) \notin F
        /\ \A n \in Manifests : RepRoot(n) \in F => RepBacked(vis', dur', n)
  <2>1. CASE \E whole \in BOOLEAN : RepBuild(put.man, whole)  BY <2>1, <1>3, RepBuilt
  <2>2. CASE put.from # NoManifest /\ RepClone(put.from, put.man)
    <3> DEFINE F == {RepRoot(put.man)}
    <3>1. F \in SUBSET Files /\ \A id \in SnapshotIDs : Snapshot(id) \notin F
      BY <1>3, Paths, Kinds
    <3>2. vis' = Set(vis, F, "good") /\ dur' = Set(dur, F, "good")  BY <2>2 DEF RepClone, Publish
    <3>3. put.from \in Manifests  BY <2>2, <1>3
    <3>4. RepBacked(vis, dur, put.from)  BY <2>2, <3>3 DEF RepClone, Good, RepsWhole, Maybe
    <3>5. Kept(vis, dur, vis', dur')  BY <3>1, <3>2, Published
    <3>6. RepBacked(vis', dur', put.man)
      BY <2>2, <1>2, <1>3, <3>4, <3>5, Paths DEF RepBacked, Kept
    <3>7. \A n \in Manifests : RepRoot(n) \in F => RepBacked(vis', dur', n)  BY <3>6, Kinds
    <3> QED  BY <3>1, <3>2, <3>7
  <2> QED  BY <2>1, <2>2 DEF RepOfPut
<1>5. /\ Healths(vis', dur') /\ SyncInv(tool, vis', dur')
      /\ FileInv(objs, hist, entries, promised, put, fix, tool, vis', dur')
  BY <1>4, RootsPublished
<1>6. PutInv(put', tool, vis', dur')
  <2>1. put' = [put EXCEPT !.pc = "built"]  BY DEF RepOfPut
  <2>2. put' \in Puts /\ put'.man = put.man /\ put'.from = put.from  BY <2>1, <1>2 DEF Puts
  <2>3. PutInv(put, tool, vis', dur')  BY <1>5 DEF FileInv
  <2> QED  BY <1>1, <2>2, <2>3 DEF PutInv
<1>7. UNCHANGED <<objs, hist, entries, creator, tool, fix, promised, moments>> /\ tool.cmd = "serve"
  BY DEF RepOfPut, Serving
<1> QED  BY <1>5, <1>6, <1>7, NoCommand DEF FileInv

\* CreateSnapshot takes Store.mu and starts with no entry.
LEMMA CreateBeginStep == ASSUME IInv, NEW id \in SnapshotIDs, CreateBegin(id) PROVE IInv'
<1> USE DEF IInv
<1>1. /\ creator' = [pc |-> "capture", id |-> id, got |-> None, todo |-> ObjectKeys]
      /\ moments' = {objs} /\ tool.cmd = "serve"
      /\ UNCHANGED <<objs, hist, vis, dur, entries, put, tool, fix, promised>>
  BY DEF CreateBegin, Serving
<1>2. None \in Captures /\ objs \in Captures  BY DEF None, Captures, TypeInv
<1>3. Named(None) = {}  BY <1>2, NamedOf DEF None
<1>4. ObjectKeys = {} => None = objs  BY <1>2 DEF None, Captures
<1>5. creator' \in Creations  BY <1>1, <1>2 DEF Creations
<1>6. CreateInv(creator, tool, objs, hist, moments)'
  BY <1>1, <1>3, <1>4, <1>5 DEF CreateInv
<1> QED  BY <1>1, <1>6

\* An entry is captured: with the last one the snapshot is the namespace.
LEMMA CaptureEntryStep == ASSUME IInv, NEW k \in ObjectKeys, CaptureEntry(k) PROVE IInv'
<1> USE DEF IInv
<1>1. /\ k \in creator.todo /\ creator' = [creator EXCEPT !.got[k] = objs[k], !.todo = @ \ {k}]
      /\ UNCHANGED <<objs, hist, vis, dur, entries, put, tool, fix, promised, moments>>
  BY DEF CaptureEntry
<1>2. creator # NoCreate  BY <1>1 DEF NoCreate
<1>3. /\ tool.cmd = "serve" /\ creator \in Creations
      /\ Named(creator.got) \subseteq Held(objs, hist) /\ objs \in moments
      /\ \A j \in ObjectKeys \ creator.todo : creator.got[j] = objs[j]
  BY <1>1, <1>2 DEF CreateInv
<1>4. objs \in Captures /\ creator.got \in Captures  BY <1>3 DEF TypeInv, Creations
<1>5. /\ creator'.todo = creator.todo \ {k} /\ creator'.got = [creator.got EXCEPT ![k] = objs[k]]
      /\ creator' \in Creations
  BY <1>1, <1>3, <1>4 DEF Creations, Captures
<1>6. creator'.got \in Captures  BY <1>5 DEF Creations
<1>7. \A j \in ObjectKeys \ creator'.todo : creator'.got[j] = objs[j]
  BY <1>3, <1>4, <1>5 DEF Captures
<1>8. creator'.todo = {} => creator'.got = objs  BY <1>4, <1>6, <1>7 DEF Captures
<1>9. Named(creator'.got) \subseteq Named(creator.got) \cup Named(objs)
  BY <1>4, <1>5, <1>6, NamedOf DEF Captures
<1>10. CreateInv(creator, tool, objs, hist, moments)'
  BY <1>1, <1>3, <1>5, <1>7, <1>8, <1>9 DEF CreateInv, Held
<1> QED  BY <1>1, <1>10
-----------------------------------------------------------------------------
(* Snapshot descriptors.                                                   *)

\* Two functions that differ at most at id.
OthersSame(es, es2, id) == \A x \in SnapshotIDs : x # id => es2[x] = es[x]

\* A descriptor that is not there, or one over whatever is there.
JustSnapshot(F, v, id) ==
  F \subseteq {Snapshot(id)} /\ (v[Snapshot(id)] = "absent" => F = {Snapshot(id)})

\* A descriptor is published over content that is there, and acknowledged.
DescriptorStep(es, es2, p, p2, t, v, d, v2, d2, F, id) ==
  /\ Healths(v, d) /\ SyncInv(t, v, d) /\ SnapsWhole(es, v, d) /\ AckInv(p, v, d)
  /\ es \in [SnapshotIDs -> Captures] /\ es2 \in [SnapshotIDs -> Captures]
  /\ OthersSame(es, es2, id) /\ OthersSame(p, p2, id) /\ p2[id] = "kept"
  /\ NamesWhole(Named(es2[id]), v, d)
  /\ JustSnapshot(F, v, id) /\ v2 = Set(v, F, "good") /\ d2 = Set(d, F, "good")

\* Publishing it keeps every snapshot whole and every promise.
LEMMA DescriptorPublished ==
  ASSUME NEW v, NEW d, NEW v2, NEW d2, NEW es, NEW es2, NEW p, NEW p2, NEW t, NEW F,
         NEW id \in SnapshotIDs, DescriptorStep(es, es2, p, p2, t, v, d, v2, d2, F, id)
  PROVE  /\ Healths(v2, d2) /\ Kept(v, d, v2, d2) /\ RepsOnly(v, d, v2, d2) /\ GoodKept(v, v2)
         /\ SyncInv(t, v2, d2) /\ SnapsWhole(es2, v2, d2) /\ v2[Snapshot(id)] # "absent"
         /\ AckInv(p2, v2, d2)
<1> USE DEF DescriptorStep
<1>1. F \in SUBSET Files /\ \A m \in Manifests : RepRoot(m) \notin F
  BY Paths, Kinds DEF JustSnapshot
<1>2. /\ Healths(v2, d2) /\ Kept(v, d, v2, d2) /\ RepsOnly(v, d, v2, d2) /\ GoodKept(v, v2)
      /\ SyncInv(t, v2, d2) /\ Changed(v, v2, F, "good") /\ Changed(d, d2, F, "good")
  BY <1>1, Published
<1>3. Snapshot(id) \in Files  BY Paths
<1>4. Sure(v2, d2, Snapshot(id))
  <2>1. CASE F = {Snapshot(id)}  BY <2>1, <1>2, <1>3 DEF Changed, Sure
  <2>2. CASE v[Snapshot(id)] # "absent"
    BY <2>2, <1>2, <1>3 DEF Changed, Sure, SyncInv, SnapsSynced
  <2> QED  BY <2>1, <2>2 DEF JustSnapshot
<1>5. \A x \in SnapshotIDs : x # id =>
        v2[Snapshot(x)] = v[Snapshot(x)] /\ d2[Snapshot(x)] = d[Snapshot(x)]
  BY <1>2, Kinds, Paths DEF Changed, JustSnapshot
<1>6. ASSUME NEW x \in SnapshotIDs, Maybe(v2, d2, Snapshot(x))
      PROVE  NamesWhole(Named(es2[x]), v2, d2)
  <2>1. Named(es2[x]) \in SUBSET Manifests  BY NamedOf
  <2>2. NamesWhole(Named(es2[x]), v, d)
    BY <1>5, <1>6 DEF SnapsWhole, Maybe, OthersSame
  <2> QED  BY <2>1, <2>2, <1>2, NamesStay
<1>7. AckInv(p2, v2, d2)
  BY <1>4, <1>5 DEF AckInv, Sure, Maybe, OthersSame
<1> QED  BY <1>2, <1>4, <1>6, <1>7 DEF SnapsWhole, Sure

\* The descriptor of a snapshot whose entries were captured is published.
LEMMA CreateSnapshotStep == ASSUME IInv, CreateSnapshot PROVE IInv'
<1> USE DEF IInv
<1> DEFINE id == creator.id
           F == {Snapshot(id)}
<1>1. creator # NoCreate  BY DEF CreateSnapshot, NoCreate
<1>2. /\ tool.cmd = "serve" /\ creator \in Creations
      /\ Named(creator.got) \subseteq Held(objs, hist)
  BY <1>1 DEF CreateInv
<1>3. id \in SnapshotIDs /\ creator.got \in Captures  BY <1>2 DEF Creations
<1>4. /\ vis' = Set(vis, F, "good") /\ dur' = Set(dur, F, "good")
      /\ promised' = [promised EXCEPT ![id] = "kept"] /\ entries' = [entries EXCEPT ![id] = creator.got]
      /\ creator' = NoCreate /\ UNCHANGED <<objs, hist, put, tool, fix, moments>>
  BY DEF CreateSnapshot, Publish
<1>5. /\ entries \in [SnapshotIDs -> Captures]
      /\ promised \in [SnapshotIDs -> {"none", "kept", "deleted"}]
      /\ Held(objs, hist) \in SUBSET Manifests
  BY NamedOf DEF TypeInv, Held
<1>6. /\ entries' \in [SnapshotIDs -> Captures] /\ entries'[id] = creator.got
      /\ OthersSame(entries, entries', id) /\ OthersSame(promised, promised', id)
      /\ promised'[id] = "kept"
      /\ promised' \in [SnapshotIDs -> {"none", "kept", "deleted"}]
  BY <1>3, <1>4, <1>5 DEF OthersSame
<1>7. NamesWhole(Named(entries'[id]), vis, dur)  BY <1>2, <1>6 DEF NamesWhole
<1> HIDE DEF F, id
<1>8. /\ Healths(vis', dur') /\ Kept(vis, dur, vis', dur') /\ RepsOnly(vis, dur, vis', dur')
      /\ SyncInv(tool, vis', dur') /\ SnapsWhole(entries', vis', dur')
      /\ AckInv(promised', vis', dur')
  <2>1. JustSnapshot(F, vis, id)  BY DEF F, JustSnapshot
  <2>2. DescriptorStep(entries, entries', promised, promised', tool, vis, dur, vis', dur', F, id)
    BY <2>1, <1>4, <1>5, <1>6, <1>7 DEF DescriptorStep
  <2> QED  BY <2>2, <1>3, DescriptorPublished
<1>9. /\ NamesWhole(Held(objs, hist), vis', dur') /\ RepsWhole(vis', dur')
      /\ PutInv(put, tool, vis', dur') /\ FixInv(fix, tool, vis', dur')
  BY <1>5, <1>8, NamesStay, RepsStay, PutStays, FixStays
<1>10. TypeInv(objs, hist, entries, promised, tool)'  BY <1>4, <1>6 DEF TypeInv
<1>11. CreateInv(creator, tool, objs, hist, moments)'  BY <1>4 DEF CreateInv
<1> QED  BY <1>2, <1>4, <1>8, <1>9, <1>10, <1>11, NoCommand

\* A descriptor is unlinked and the directory synced.
LEMMA DeleteSnapshotStep == ASSUME IInv, NEW id \in SnapshotIDs, DeleteSnapshot(id) PROVE IInv'
<1> USE DEF IInv
<1>1. /\ vis' = Set(vis, {Snapshot(id)}, "absent") /\ dur' = Set(dur, {Snapshot(id)}, "absent")
      /\ promised' = [promised EXCEPT ![id] = "deleted"] /\ tool.cmd = "serve"
      /\ UNCHANGED <<objs, hist, entries, put, creator, tool, fix, moments>>
  BY DEF DeleteSnapshot, UnlinkSynced, Serving
<1>2. /\ Healths(vis', dur') /\ Changed(vis, vis', {Snapshot(id)}, "absent")
      /\ Changed(dur, dur', {Snapshot(id)}, "absent")
  BY <1>1, SetChanges DEF Healths, Health
<1>3. /\ Kept(vis, dur, vis', dur') /\ RepsOnly(vis, dur, vis', dur') /\ SnapsOnly(vis, dur, vis', dur')
  BY <1>2, Paths, Kinds DEF Kept, RepsOnly, SnapsOnly, Changed, Sure, Maybe
<1>4. SyncInv(tool, vis', dur')
  BY <1>2, Paths, Kinds
     DEF SyncInv, ChunksSynced, ManifestsSynced, SnapsSynced, RepsSynced, Changed
<1>5. AckInv(promised', vis', dur')
  <2>1. promised \in [SnapshotIDs -> {"none", "kept", "deleted"}]  BY DEF TypeInv
  <2>2. \A x \in SnapshotIDs : promised'[x] = IF x = id THEN "deleted" ELSE promised[x]
    BY <1>1, <2>1
  <2>3. vis'[Snapshot(id)] = "absent" /\ dur'[Snapshot(id)] = "absent"  BY <1>2, Paths DEF Changed
  <2>4. \A x \in SnapshotIDs : x # id => /\ vis'[Snapshot(x)] = vis[Snapshot(x)]
                                          /\ dur'[Snapshot(x)] = dur[Snapshot(x)]
    BY <1>2, Paths, Kinds DEF Changed
  <2> QED  BY <2>2, <2>3, <2>4 DEF AckInv, Sure, Maybe
<1>6. /\ entries \in [SnapshotIDs -> Captures] /\ Held(objs, hist) \in SUBSET Manifests
  BY NamedOf DEF TypeInv, Held
<1>7. /\ NamesWhole(Held(objs, hist), vis', dur') /\ SnapsWhole(entries, vis', dur')
      /\ RepsWhole(vis', dur') /\ PutInv(put, tool, vis', dur') /\ FixInv(fix, tool, vis', dur')
  BY <1>3, <1>6, NamesStay, SnapsStay, RepsStay, PutStays, FixStays
<1>8. TypeInv(objs, hist, entries, promised, tool)'  BY <1>1 DEF TypeInv
<1> QED  BY <1>1, <1>2, <1>4, <1>5, <1>7, <1>8, NoCommand
-----------------------------------------------------------------------------
(* Collections.                                                            *)

\* Nothing is in flight while a command has the store.
LEMMA CommandAlone ==
  ASSUME IInv, tool.cmd # "serve"
  PROVE  put = NoPut /\ creator = NoCreate
  BY DEF IInv, PutInv, CreateInv

\* The chunks of a representation without a fault are referenced.
LEMMA RepReferenced ==
  ASSUME NEW n0 \in {n \in ReferencedManifests : Present(RepRoot(n))} \ RepFaults,
         NEW c0 \in RepChunks(n0)
  PROVE  c0 \in ReferencedChunks
<1> DEFINE S == {RepChunks(m) : m \in {n \in ReferencedManifests : Present(RepRoot(n))} \ RepFaults}
           T == UNION {ChunksOf[m] : m \in ReferencedManifests}
<1>1. RepChunks(n0) \in S  OBVIOUS
<1>2. ReferencedChunks = T \cup UNION S  BY DEF ReferencedChunks
<1> HIDE DEF S, T
<1> QED  BY <1>1, <1>2

\* Nothing that a root names is on the list of a collection that may begin.
LEMMA GcScanStep == ASSUME IInv, GcScan PROVE IInv'
<1> USE DEF IInv
<1> DEFINE todo == OrphanRoots \cup UnreachableChunks \cup UnreachableManifests
<1>1. /\ tool' = [cmd |-> "gc", pc |-> IF OrphanRoots = {} THEN "chunk" ELSE "rep", id |-> "none",
                 todo |-> todo]
      /\ tool.cmd = "none" /\ LiveSetOK /\ ~fix.on
      /\ UNCHANGED <<objs, hist, vis, dur, entries, put, creator, fix, promised, moments>>
  BY DEF GcScan, Owns, Idle
<1>2. put = NoPut /\ creator = NoCreate  BY <1>1, CommandAlone
<1>3. todo \in SUBSET Files
  BY Paths DEF OrphanRoots, UnreachableChunks, UnreachableManifests
<1>4. ASSUME NEW m \in ReferencedManifests PROVE Clear(todo, m)
  <2>1. Manifest(m) \notin todo
    BY Kinds DEF OrphanRoots, UnreachableChunks, UnreachableManifests, RepRootFiles, ChunkFiles
  <2>2. ASSUME NEW c \in ChunksOf[m] PROVE Chunk(c) \notin todo
    <3>1. Chunk(c) \in ChunkFiles(ReferencedChunks)  BY DEF ReferencedChunks, ChunkFiles
    <3>2. Chunk(c) \notin OrphanRoots /\ Chunk(c) \notin UnreachableManifests
      BY Kinds DEF OrphanRoots, UnreachableManifests, RepRootFiles, ManifestFiles
    <3> QED  BY <3>1, <3>2 DEF UnreachableChunks
  <2> QED  BY <2>1, <2>2 DEF Clear
<1>5. \A id \in SnapshotIDs : Snapshot(id) \notin todo
  BY Kinds DEF OrphanRoots, UnreachableChunks, UnreachableManifests, RepRootFiles, ChunkFiles,
               ManifestFiles
<1>6. \A m \in Held(objs, hist) : m \in ReferencedManifests
  BY <1>1 DEF LiveSetOK, Claimed, Held, NamespaceRoots
<1>7. ASSUME NEW id \in SnapshotIDs, vis[Snapshot(id)] # "absent", NEW m \in Named(entries[id])
      PROVE  m \in ReferencedManifests
  <2>1. id \in Snapshots  BY <1>7 DEF Snapshots, Present
  <2>2. Good(Snapshot(id))  BY <2>1, <1>1 DEF LiveSetOK, NoSnapshotIssue
  <2>3. m \in NamedBySnapshots({x \in Snapshots : Good(Snapshot(x))})
    BY <2>1, <2>2 DEF NamedBySnapshots
  <2> QED  BY <2>3, <1>1 DEF LiveSetOK, Claimed
<1>8. ASSUME NEW m \in Manifests, vis[RepRoot(m)] # "absent", RepRoot(m) \notin todo,
             NEW c \in RepChunks(m)
      PROVE  Chunk(c) \notin todo
  <2>1. RepRoot(m) \in {f \in RepRootFiles : Present(f)}  BY <1>8 DEF RepRootFiles, Present
  <2>2. m \in ReferencedManifests  BY <1>8, <2>1, Kinds DEF OrphanRoots
  <2>3. m \in {n \in ReferencedManifests : Present(RepRoot(n))} \ RepFaults
    BY <2>2, <1>1, <1>8 DEF LiveSetOK, Present
  <2>4. c \in ReferencedChunks  BY <2>3, RepReferenced
  <2>5. Chunk(c) \notin OrphanRoots /\ Chunk(c) \notin UnreachableManifests
    BY Kinds DEF OrphanRoots, UnreachableManifests, RepRootFiles, ManifestFiles
  <2> QED  BY <2>4, <2>5 DEF UnreachableChunks, ChunkFiles
<1>15. OrphanRoots = {} => \A m \in Manifests : RepRoot(m) \notin todo
  BY Kinds DEF UnreachableChunks, UnreachableManifests, ChunkFiles, ManifestFiles
<1> HIDE DEF todo
<1>9. /\ tool'.cmd = "gc" /\ tool'.pc \in {"rep", "chunk"} /\ tool'.todo = todo
      /\ tool'.pc # "rep" => OrphanRoots = {}
  BY <1>1
<1>10. GcInv(tool', objs, hist, entries, vis)
  <2>1. \A m \in Held(objs, hist) : Clear(todo, m)  BY <1>4, <1>6
  <2>2. \A id \in SnapshotIDs : vis[Snapshot(id)] # "absent" =>
          \A m \in Named(entries[id]) : Clear(todo, m)
    BY <1>4, <1>7
  <2>3. \A m \in Manifests : vis[RepRoot(m)] # "absent" /\ RepRoot(m) \notin todo =>
          \A c \in RepChunks(m) : Chunk(c) \notin todo
    BY <1>8
  <2> QED  BY <2>1, <2>2, <2>3, <1>5, <1>9, <1>15 DEF GcInv
<1>11. TypeInv(objs, hist, entries, promised, tool)'  BY <1>1, <1>3 DEF TypeInv, Tools, Phases
<1>12. SyncInv(tool', vis, dur)  BY <1>1, <1>9 DEF SyncInv
<1>13. PutInv(put, tool', vis, dur) /\ CreateInv(creator, tool', objs, hist, moments)
       /\ ImportInv(tool', entries, vis)
  BY <1>2, <1>9 DEF PutInv, CreateInv, ImportInv
<1>14. FixInv(fix, tool', vis, dur)  BY <1>1 DEF FixInv
<1> QED  BY <1>1, <1>10, <1>11, <1>12, <1>13, <1>14

\* What a collection has removed a power failure may bring back, and what its
\* list does not hold it leaves: no root that may be there loses content.
LEMMA GcRemoveStep == ASSUME IInv, NEW f, GcRemove(f) PROVE IInv'
<1> USE DEF IInv
<1>1. /\ tool.cmd = "gc" /\ f \in tool.todo /\ f[1] = tool.pc
      /\ vis' = Set(vis, {f}, "absent") /\ dur' = dur
      /\ tool' = [tool EXCEPT !.todo = @ \ {f}]
      /\ UNCHANGED <<objs, hist, entries, put, creator, fix, promised, moments>>
  BY DEF GcRemove, OfKind, UnlinkUnsynced
<1>2. tool \in Tools /\ entries \in [SnapshotIDs -> Captures] /\ Held(objs, hist) \in SUBSET Manifests
  BY NamedOf DEF TypeInv, Held
<1>3. /\ tool' \in Tools /\ tool'.cmd = "gc" /\ tool'.pc = tool.pc /\ tool'.todo = tool.todo \ {f}
  BY <1>1, <1>2 DEF Tools
<1>4. Healths(vis', dur) /\ Changed(vis, vis', {f}, "absent")
  BY <1>1, SetChanges DEF Healths, Health
<1>5. put = NoPut /\ creator = NoCreate  BY <1>1, CommandAlone
<1>6. /\ tool.pc \in {"rep", "chunk", "manifest"}
      /\ tool.pc # "rep" => \A m \in Manifests : RepRoot(m) \notin tool.todo
      /\ \A id \in SnapshotIDs : Snapshot(id) \notin tool.todo
      /\ \A m \in Held(objs, hist) : Clear(tool.todo, m)
      /\ \A id \in SnapshotIDs : vis[Snapshot(id)] # "absent" =>
           \A m \in Named(entries[id]) : Clear(tool.todo, m)
      /\ \A m \in Manifests : vis[RepRoot(m)] # "absent" /\ RepRoot(m) \notin tool.todo =>
           \A c \in RepChunks(m) : Chunk(c) \notin tool.todo
  BY <1>1 DEF GcInv
<1>7. \A g \in Files : g \notin tool.todo => vis'[g] = vis[g]  BY <1>1, <1>4 DEF Changed
<1>8. ASSUME NEW m \in Manifests, Clear(tool.todo, m), Backed(vis, dur, m)
      PROVE  Backed(vis', dur, m)
  BY <1>7, <1>8, Paths DEF Clear, Backed, Sure
<1>9. NamesWhole(Held(objs, hist), vis', dur)  BY <1>2, <1>6, <1>8 DEF NamesWhole
<1>10. \A id \in SnapshotIDs : vis'[Snapshot(id)] = vis[Snapshot(id)]  BY <1>6, <1>7, Paths
<1>11. SnapsWhole(entries, vis', dur)
  <2> SUFFICES ASSUME NEW id \in SnapshotIDs, Maybe(vis', dur, Snapshot(id)),
                      NEW m \in Named(entries[id])
               PROVE  Backed(vis', dur, m)
    BY DEF SnapsWhole, NamesWhole
  <2>1. vis[Snapshot(id)] # "absent"  BY <1>10 DEF Maybe, SyncInv, SnapsSynced
  <2>2. Backed(vis, dur, m)  BY <2>1 DEF SnapsWhole, NamesWhole, Maybe
  <2>3. m \in Manifests  BY <1>2, NamedOf
  <2> QED  BY <2>1, <2>2, <2>3, <1>6, <1>8
<1>12. RepsWhole(vis', dur)
  <2> SUFFICES ASSUME NEW m \in Manifests, Maybe(vis', dur, RepRoot(m)), NEW c \in RepChunks(m)
               PROVE  Sure(vis', dur, Chunk(c))
    BY DEF RepsWhole, RepBacked
  <2>1. c \in CasChunks /\ Chunk(c) \in Files /\ RepRoot(m) \in Files  BY Paths
  <2>2. Maybe(vis, dur, RepRoot(m))  BY <2>1, <1>4 DEF Changed, Maybe
  <2>3. Sure(vis, dur, Chunk(c))  BY <2>2 DEF RepsWhole, RepBacked
  <2>4. CASE tool.pc = "rep"
    <3>1. f # Chunk(c)  BY <2>4, <1>1, Kinds
    <3> QED  BY <3>1, <2>1, <2>3, <1>4 DEF Changed, Sure
  <2>5. CASE tool.pc # "rep"
    <3>1. vis[RepRoot(m)] # "absent"  BY <2>2, <2>5 DEF SyncInv, RepsSynced, Maybe
    <3>2. Chunk(c) \notin tool.todo  BY <3>1, <2>5, <1>6
    <3> QED  BY <3>2, <2>1, <2>3, <1>7 DEF Sure
  <2> QED  BY <2>4, <2>5
<1>13. SyncInv(tool', vis', dur)
  <2>1. ChunksSynced(vis', dur) /\ ManifestsSynced(vis', dur)
    <3>1. ChunksSynced(vis, dur) /\ ManifestsSynced(vis, dur)  BY <1>1 DEF SyncInv
    <3> QED  BY <3>1, <1>4, Paths DEF ChunksSynced, ManifestsSynced, Changed
  <2>2. SnapsSynced(vis', dur)  BY <1>10 DEF SyncInv, SnapsSynced
  <2>3. tool.pc # "rep" => RepsSynced(vis', dur)
    <3> SUFFICES ASSUME tool.pc # "rep" PROVE RepsSynced(vis', dur)  OBVIOUS
    <3>1. RepsSynced(vis, dur)  BY DEF SyncInv
    <3>2. \A m \in Manifests : vis'[RepRoot(m)] = vis[RepRoot(m)]  BY <1>6, <1>7, Paths
    <3> QED  BY <3>1, <3>2 DEF RepsSynced
  <2> QED  BY <2>1, <2>2, <2>3, <1>3 DEF SyncInv
<1>14. GcInv(tool', objs, hist, entries, vis')
  <2>1. \A m \in Manifests : vis'[RepRoot(m)] # "absent" /\ RepRoot(m) \notin tool'.todo =>
           vis[RepRoot(m)] # "absent" /\ RepRoot(m) \notin tool.todo
    BY <1>3, <1>4, Paths DEF Changed
  <2>2. \A g : g \notin tool.todo => g \notin tool'.todo  BY <1>3
  <2>3. \A m : Clear(tool.todo, m) => Clear(tool'.todo, m)  BY <2>2 DEF Clear
  <2>4. \A m \in Held(objs, hist) : Clear(tool'.todo, m)  BY <2>3, <1>6
  <2>5. \A id \in SnapshotIDs : vis'[Snapshot(id)] # "absent" =>
           \A m \in Named(entries[id]) : Clear(tool'.todo, m)
    BY <2>3, <1>6, <1>10
  <2>6. \A m \in Manifests : vis'[RepRoot(m)] # "absent" /\ RepRoot(m) \notin tool'.todo =>
           \A c \in RepChunks(m) : Chunk(c) \notin tool'.todo
    BY <2>1, <2>2, <1>6
  <2>7. /\ tool'.pc \in {"rep", "chunk", "manifest"}
        /\ tool'.pc # "rep" => \A m \in Manifests : RepRoot(m) \notin tool'.todo
        /\ \A id \in SnapshotIDs : Snapshot(id) \notin tool'.todo
    BY <1>3, <1>6, <2>2
  <2> QED  BY <2>4, <2>5, <2>6, <2>7 DEF GcInv
<1>15. FixInv(fix, tool', vis', dur)
  <2>1. /\ fix \in [on : BOOLEAN, todo : SUBSET CasChunks] /\ fix.on # TRUE
        /\ fix.on = FALSE => fix.todo = {}
    BY <1>1 DEF FixInv
  <2>2. fix.on \in BOOLEAN  BY <2>1
  <2>3. fix.todo = {}  BY <2>1, <2>2
  <2> QED  BY <2>1, <2>3 DEF FixInv
<1>16. AckInv(promised, vis', dur)  BY <1>10 DEF AckInv, Sure, Maybe
<1>17. /\ PutInv(put, tool', vis', dur) /\ CreateInv(creator, tool', objs, hist, moments)
       /\ ImportInv(tool', entries, vis')
  BY <1>5, <1>3 DEF PutInv, CreateInv, ImportInv
<1>18. TypeInv(objs, hist, entries, promised, tool)'  BY <1>1, <1>3 DEF TypeInv
<1> QED  BY <1>1, <1>4, <1>9, <1>11, <1>12, <1>13, <1>14, <1>15, <1>16, <1>17, <1>18

\* What a repair is doing does not matter to a command: none runs.
LEMMA NoRepair ==
  ASSUME NEW fx, NEW t, NEW v, NEW d, FixInv(fx, t, v, d), t.cmd \notin {"none", "serve"} \/ ~fx.on,
         NEW t2, NEW v2, NEW d2
  PROVE  FixInv(fx, t2, v2, d2)
<1>1. fx \in [on : BOOLEAN, todo : SUBSET CasChunks] /\ (fx.on = FALSE => fx.todo = {})  BY DEF FixInv
<1>2. fx.on \in BOOLEAN  BY <1>1
<1>3. fx.on = FALSE  BY <1>2 DEF FixInv
<1> QED  BY <1>1, <1>3 DEF FixInv

\* The collection goes on to the next kind; before chunks are removed the
\* roots of representations that went are gone for good.
LEMMA GcAdvanceStep == ASSUME IInv, GcAdvance PROVE IInv'
<1> USE DEF IInv
<1>1. /\ tool.cmd = "gc" /\ \A f \in tool.todo : f[1] # tool.pc
      /\ UNCHANGED <<objs, hist, vis, entries, put, creator, fix, promised, moments>>
  BY DEF GcAdvance, OfKind
<1>2. put = NoPut /\ creator = NoCreate  BY <1>1, CommandAlone
<1>3. tool.pc \in {"rep", "chunk", "manifest"}  BY <1>1 DEF GcInv
<1>4. CASE tool.pc = "manifest"
  <2>1. tool' = NoTool /\ dur' = dur  BY <1>4 DEF GcAdvance, SyncedAfter
  <2> QED  BY <2>1, <1>1, <1>2, <1>4, ReleaseStep
<1>5. CASE tool.pc \in {"rep", "chunk"}
  <2>1. /\ tool' = [tool EXCEPT !.pc = IF tool.pc = "rep" THEN "chunk" ELSE "manifest"]
        /\ dur' = IF tool.pc = "rep" THEN Synced(RepRootFiles) ELSE dur
    BY <1>5 DEF GcAdvance, SyncedAfter, After
  <2>2. tool \in Tools  BY DEF TypeInv
  <2>3. /\ tool' \in Tools /\ tool'.cmd = "gc" /\ tool'.todo = tool.todo
        /\ tool'.pc \in {"chunk", "manifest"}
    BY <2>1, <2>2, <1>1 DEF Tools, Phases
  <2>4. \A m \in Manifests : RepRoot(m) \notin tool.todo
    <3>1. CASE tool.pc = "rep"  BY <3>1, <1>1, Kinds
    <3>2. CASE tool.pc # "rep"  BY <3>2, <1>1 DEF GcInv
    <3> QED  BY <3>1, <3>2
  <2>5. GcInv(tool', objs, hist, entries, vis)
    <3>1. /\ \A id \in SnapshotIDs : Snapshot(id) \notin tool.todo
          /\ \A m \in Held(objs, hist) : Clear(tool.todo, m)
          /\ \A id \in SnapshotIDs : vis[Snapshot(id)] # "absent" =>
               \A m \in Named(entries[id]) : Clear(tool.todo, m)
          /\ \A m \in Manifests : vis[RepRoot(m)] # "absent" /\ RepRoot(m) \notin tool.todo =>
               \A c \in RepChunks(m) : Chunk(c) \notin tool.todo
      BY <1>1 DEF GcInv
    <3> QED  BY <3>1, <2>3, <2>4 DEF GcInv
  <2>6. /\ Healths(vis, dur') /\ RepsSynced(vis, dur')
        /\ \A f \in Files : f \notin RepRootFiles => dur'[f] = dur[f]
    <3>1. CASE tool.pc = "rep"
      <4>1. dur' = [f \in Files |-> IF f \in RepRootFiles THEN vis[f] ELSE dur[f]]
        BY <3>1, <2>1 DEF Synced
      <4> QED  BY <4>1, Paths DEF Healths, RepsSynced, RepRootFiles
    <3>2. CASE tool.pc # "rep"
      <4>1. dur' = dur  BY <3>2, <2>1
      <4> QED  BY <3>2, <4>1 DEF SyncInv
    <3> QED  BY <3>1, <3>2
  <2>7. /\ \A m \in Manifests : dur'[Manifest(m)] = dur[Manifest(m)]
        /\ \A c \in CasChunks : dur'[Chunk(c)] = dur[Chunk(c)]
        /\ \A id \in SnapshotIDs : dur'[Snapshot(id)] = dur[Snapshot(id)]
    BY <2>6, Paths, Kinds DEF RepRootFiles
  <2>8. /\ Kept(vis, dur, vis, dur') /\ SnapsKept(vis, dur, vis, dur') /\ SnapsOnly(vis, dur, vis, dur')
        /\ RepsOnly(vis, dur, vis, dur')
    BY <2>6, <2>7 DEF Kept, SnapsKept, SnapsOnly, RepsOnly, Sure, Maybe, RepsSynced
  <2>9. FileInv(objs, hist, entries, promised, put, fix, tool, vis, dur)  BY DEF FileInv
  <2>10. FileInv(objs, hist, entries, promised, put, fix, tool, vis, dur')  BY <2>8, <2>9, FilesStay
  <2>11. SyncInv(tool', vis, dur')
    <3>1. ManifestsSynced(vis, dur) /\ ChunksSynced(vis, dur) /\ SnapsSynced(vis, dur)
      BY <1>1 DEF SyncInv
    <3> QED  BY <3>1, <2>6, <2>7 DEF SyncInv, ManifestsSynced, ChunksSynced, SnapsSynced
  <2>12. /\ PutInv(put, tool', vis, dur') /\ CreateInv(creator, tool', objs, hist, moments)
         /\ ImportInv(tool', entries, vis)
    BY <1>2, <2>3 DEF PutInv, CreateInv, ImportInv
  <2>13. FixInv(fix, tool', vis, dur')  BY <1>1, NoRepair
  <2>14. TypeInv(objs, hist, entries, promised, tool)'  BY <1>1, <2>3 DEF TypeInv
  <2> QED  BY <1>1, <2>5, <2>6, <2>10, <2>11, <2>12, <2>13, <2>14 DEF FileInv
<1> QED  BY <1>3, <1>4, <1>5

\* prune only takes names away.
LEMMA PruneStep == ASSUME IInv, NEW S, Prune(S) PROVE IInv'
<1> USE DEF IInv
<1>1. /\ tool.cmd = "none" /\ hist' = hist \ S
      /\ UNCHANGED <<objs, vis, dur, entries, put, creator, tool, fix, promised, moments>>
  BY DEF Prune, Owns, Idle
<1>2. put = NoPut /\ creator = NoCreate  BY <1>1, CommandAlone
<1>3. Held(objs, hist') \subseteq Held(objs, hist)  BY <1>1 DEF Held
<1>4. NamesWhole(Held(objs, hist'), vis, dur)  BY <1>3 DEF NamesWhole
<1>5. TypeInv(objs, hist, entries, promised, tool)'  BY <1>1 DEF TypeInv
<1>6. CreateInv(creator, tool, objs, hist', moments)  BY <1>2 DEF CreateInv
<1>7. GcInv(tool, objs, hist', entries, vis)  BY <1>1, NoCommand
<1> QED  BY <1>1, <1>4, <1>5, <1>6, <1>7

\* doctor unlinks a faulty root and syncs the directory.
LEMMA RetireFaultyStep == ASSUME IInv, NEW m \in Manifests, RetireFaulty(m) PROVE IInv'
<1> USE DEF IInv
<1>1. /\ vis' = Set(vis, {RepRoot(m)}, "absent") /\ dur' = Set(dur, {RepRoot(m)}, "absent")
      /\ tool.cmd = "none"
      /\ UNCHANGED <<objs, hist, entries, put, creator, tool, fix, promised, moments>>
  BY DEF RetireFaulty, Owns, Idle, UnlinkSynced
<1>2. /\ Healths(vis', dur') /\ Changed(vis, vis', {RepRoot(m)}, "absent")
      /\ Changed(dur, dur', {RepRoot(m)}, "absent")
  BY <1>1, SetChanges DEF Healths, Health
<1>3. /\ Kept(vis, dur, vis', dur') /\ SnapsKept(vis, dur, vis', dur')
      /\ RepsOnly(vis, dur, vis', dur') /\ SnapsOnly(vis, dur, vis', dur')
  BY <1>2, Paths, Kinds DEF Kept, SnapsKept, RepsOnly, SnapsOnly, Changed, Sure, Maybe
<1>4. SyncInv(tool, vis', dur')
  BY <1>2, Paths, Kinds
     DEF SyncInv, ChunksSynced, ManifestsSynced, SnapsSynced, RepsSynced, Changed
<1>5. FileInv(objs, hist, entries, promised, put, fix, tool, vis, dur)  BY DEF FileInv
<1>6. FileInv(objs, hist, entries, promised, put, fix, tool, vis', dur')
  BY <1>3, <1>5, FilesStay
<1> QED  BY <1>1, <1>2, <1>4, <1>6, NoCommand DEF FileInv
-----------------------------------------------------------------------------
(* Bundle import.                                                          *)

\* Content is published, by whoever has the store.
LEMMA ContentPublished ==
  ASSUME IInv, NEW F \in SUBSET Content,
         vis' = Set(vis, F, "good"), dur' = Set(dur, F, "good")
  PROVE  /\ Healths(vis', dur') /\ SyncInv(tool, vis', dur') /\ GoodKept(vis, vis')
         /\ FileInv(objs, hist, entries, promised, put, fix, tool, vis', dur')
         /\ AllGood(F, vis', dur')
<1>1. /\ F \in SUBSET Files /\ \A id \in SnapshotIDs : Snapshot(id) \notin F
      /\ \A n \in Manifests : RepRoot(n) \notin F
  BY ContentNoRoot
<1>2. AllGood(F, vis', dur')  BY <1>1, Published DEF IInv
<1> QED  BY <1>1, <1>2, RootsPublished

\* The rest of a command's step: nothing is in flight and no repair runs.
LEMMA CommandStep ==
  ASSUME IInv, tool.cmd # "serve", tool.cmd \in {"gc", "import"} \/ ~fix.on,
         tool' \in Tools, tool'.cmd \in {"none", "import"},
         UNCHANGED <<objs, hist, put, creator, fix, moments>>,
         entries' \in [SnapshotIDs -> Captures],
         promised' \in [SnapshotIDs -> {"none", "kept", "deleted"}],
         Healths(vis', dur'), SyncInv(tool', vis', dur'),
         NamesWhole(Held(objs, hist), vis', dur'), SnapsWhole(entries', vis', dur'),
         RepsWhole(vis', dur'), AckInv(promised', vis', dur'), ImportInv(tool', entries', vis')
  PROVE  IInv'
<1> USE DEF IInv
<1>1. put = NoPut /\ creator = NoCreate  BY CommandAlone
<1>2. PutInv(put, tool', vis', dur') /\ CreateInv(creator, tool', objs, hist, moments)
  BY <1>1 DEF PutInv, CreateInv
<1>3. tool.cmd \notin {"none", "serve"} \/ ~fix.on  OBVIOUS
<1>4. FixInv(fix, tool', vis', dur')  BY <1>3, NoRepair
<1>5. GcInv(tool', objs, hist, entries', vis')  BY DEF GcInv
<1>6. TypeInv(objs, hist, entries, promised, tool)'  BY DEF TypeInv
<1> QED  BY <1>2, <1>4, <1>5, <1>6

\* The stream was read to its end: what it did not find good it replaced or
\* has on its list.
LEMMA ImportReadStep == ASSUME IInv, NEW b \in Bundles, ImportRead(b) PROVE IInv'
<1> USE DEF IInv
<1> DEFINE F == ChunkFiles(Damaged(Payload(b)))
           todo == ChunkFiles({c \in Payload(b) : ~Present(Chunk(c))})
                   \cup {Manifest(m) : m \in {n \in Target(b) : ~Present(Manifest(n))}}
<1>1. /\ tool.cmd = "none" /\ ~fix.on /\ NoCollision(b) /\ BaseRefsRead(b)
      /\ vis' = Set(vis, F, "good") /\ dur' = Set(dur, F, "good")
      /\ tool' = [cmd |-> "import", pc |-> "flush", id |-> b.id, todo |-> todo]
      /\ UNCHANGED <<objs, hist, entries, put, creator, fix, promised, moments>>
  BY DEF ImportRead, Owns, Idle, Publish
<1>2. b.id \in SnapshotIDs  BY RootsAssumption
<1>3. /\ entries \in [SnapshotIDs -> Captures]
      /\ promised \in [SnapshotIDs -> {"none", "kept", "deleted"}]
  BY DEF TypeInv
<1>4. Target(b) \in SUBSET Manifests  BY <1>2, <1>3, NamedOf DEF Target
<1>5. TargetChunks(b) \in SUBSET CasChunks /\ Payload(b) \in SUBSET TargetChunks(b)
  BY <1>4, Paths DEF TargetChunks, Payload
<1>6. F \in SUBSET Content  BY <1>5 DEF Content, ChunkFiles, Damaged
<1>7. todo \in SUBSET Files  BY <1>4, <1>5, Paths DEF ChunkFiles
<1>8. ASSUME NEW m \in Target(b) PROVE vis[Manifest(m)] = "good" \/ Manifest(m) \in todo
  <2>1. vis[Manifest(m)] \in Health  BY <1>4, Paths DEF Healths
  <2>2. vis[Manifest(m)] # "bad"  BY <1>1 DEF NoCollision
  <2> QED  BY <2>1, <2>2 DEF Health, Present
<1>9. ASSUME NEW c \in TargetChunks(b)
      PROVE  vis[Chunk(c)] = "good" \/ Chunk(c) \in F \/ Chunk(c) \in todo
  <2>1. vis[Chunk(c)] \in Health  BY <1>5, Paths DEF Healths
  <2>2. CASE c \in BaseChunks(b)  BY <2>2, <1>1 DEF BaseRefsRead, Good
  <2>3. CASE c \in Payload(b)
    BY <2>1, <2>3 DEF Health, ChunkFiles, Damaged, Present
  <2> QED  BY <2>2, <2>3 DEF Payload
<1> HIDE DEF F, todo
<1>10. /\ Healths(vis', dur') /\ SyncInv(tool, vis', dur') /\ GoodKept(vis, vis')
       /\ FileInv(objs, hist, entries, promised, put, fix, tool, vis', dur')
       /\ AllGood(F, vis', dur')
  BY <1>1, <1>6, ContentPublished
<1>11. /\ tool' \in Tools /\ tool'.cmd = "import" /\ tool'.pc = "flush" /\ tool'.id = b.id
       /\ tool'.todo = todo
  BY <1>1, <1>2, <1>7 DEF Tools, Phases
<1>12. SyncInv(tool', vis', dur')  BY <1>10, <1>11, <1>1 DEF SyncInv
<1>13. ASSUME NEW m \in Named(entries[b.id])
       PROVE  /\ vis'[Manifest(m)] = "good" \/ Manifest(m) \in todo
              /\ \A c \in ChunksOf[m] : vis'[Chunk(c)] = "good" \/ Chunk(c) \in todo
  <2>1. m \in Target(b)  BY DEF Target
  <2>2. \A c \in ChunksOf[m] : c \in TargetChunks(b)  BY <2>1 DEF TargetChunks
  <2>3. vis'[Manifest(m)] = "good" \/ Manifest(m) \in todo
    BY <2>1, <1>4, <1>8, <1>10, Paths DEF GoodKept
  <2>4. ASSUME NEW c \in ChunksOf[m] PROVE vis'[Chunk(c)] = "good" \/ Chunk(c) \in todo
    <3>1. Chunk(c) \in Files  BY <2>2, <1>5, Paths
    <3> QED  BY <3>1, <2>2, <1>9, <1>10 DEF GoodKept, AllGood
  <2> QED  BY <2>3, <2>4
<1>14. ImportInv(tool', entries, vis')  BY <1>2, <1>11, <1>13 DEF ImportInv
<1> QED  BY <1>1, <1>3, <1>10, <1>11, <1>12, <1>14, CommandStep DEF FileInv

\* The stream was cut after some damaged chunks were replaced.
LEMMA ImportFailsStep ==
  ASSUME IInv, NEW b \in Bundles, NEW S \in SUBSET CasChunks, ImportFails(b, S)
  PROVE  IInv'
<1> USE DEF IInv
<1>1. /\ tool.cmd = "none" /\ ~fix.on
      /\ vis' = Set(vis, ChunkFiles(S), "good") /\ dur' = Set(dur, ChunkFiles(S), "good")
      /\ UNCHANGED <<objs, hist, entries, put, creator, tool, fix, promised, moments>>
  BY DEF ImportFails, Owns, Idle, Publish
<1>2. ChunkFiles(S) \in SUBSET Content  BY DEF Content, ChunkFiles
<1>3. /\ Healths(vis', dur') /\ SyncInv(tool, vis', dur')
      /\ FileInv(objs, hist, entries, promised, put, fix, tool, vis', dur')
  BY <1>1, <1>2, ContentPublished
<1> QED  BY <1>1, <1>3, NoCommand DEF FileInv

\* What the invariant says while an import runs.
LEMMA DuringImport ==
  ASSUME IInv, NEW pc, Importing(pc)
  PROVE  /\ tool.cmd = "import" /\ tool.pc = pc /\ tool \in Tools /\ tool.id \in SnapshotIDs
         /\ entries \in [SnapshotIDs -> Captures]
         /\ promised \in [SnapshotIDs -> {"none", "kept", "deleted"}]
         /\ Named(entries[tool.id]) \in SUBSET Manifests
         /\ \A m \in Named(entries[tool.id]) :
              /\ vis[Manifest(m)] = "good" \/ Manifest(m) \in tool.todo
              /\ \A c \in ChunksOf[m] : vis[Chunk(c)] = "good" \/ (pc = "flush" /\ Chunk(c) \in tool.todo)
<1> USE DEF IInv
<1>1. tool.cmd = "import" /\ tool.pc = pc  BY DEF Importing
<1>2. tool.id \in SnapshotIDs /\ entries \in [SnapshotIDs -> Captures]
  BY <1>1 DEF ImportInv, TypeInv
<1>3. Named(entries[tool.id]) \in SUBSET Manifests  BY <1>2, NamedOf
<1> QED  BY <1>1, <1>2, <1>3 DEF ImportInv, TypeInv

\* casBatch.Flush: every chunk of the snapshot is good.
LEMMA ImportFlushStep == ASSUME IInv, ImportFlush PROVE IInv'
<1> USE DEF IInv
<1> DEFINE next == IF OfKind("manifest") = {} THEN "snapshot" ELSE "manifests"
<1>1. /\ vis' = Set(vis, OfKind("chunk"), "good") /\ dur' = Set(dur, OfKind("chunk"), "good")
      /\ tool' = [tool EXCEPT !.pc = next, !.todo = OfKind("manifest")] /\ Importing("flush")
      /\ UNCHANGED <<objs, hist, entries, put, creator, fix, promised, moments>>
  BY DEF ImportFlush, Publish, ImportAt
<1>2. /\ tool.cmd = "import" /\ tool.pc = "flush" /\ tool \in Tools /\ tool.id \in SnapshotIDs
      /\ entries \in [SnapshotIDs -> Captures]
      /\ promised \in [SnapshotIDs -> {"none", "kept", "deleted"}]
      /\ Named(entries[tool.id]) \in SUBSET Manifests
      /\ \A m \in Named(entries[tool.id]) :
           /\ vis[Manifest(m)] = "good" \/ Manifest(m) \in tool.todo
           /\ \A c \in ChunksOf[m] : vis[Chunk(c)] = "good" \/ Chunk(c) \in tool.todo
  BY <1>1, DuringImport
<1>3. tool.todo \subseteq Files  BY <1>2 DEF Tools
<1>4. OfKind("chunk") \in SUBSET Content /\ OfKind("manifest") \in SUBSET ManifestFiles
  BY <1>3, Kinds DEF OfKind, Content, Files, ManifestFiles, RepRootFiles, SnapshotFiles, ChunkFiles
<1>5. OfKind("manifest") \in SUBSET Files  BY <1>3 DEF OfKind
<1>6. /\ Healths(vis', dur') /\ SyncInv(tool, vis', dur') /\ GoodKept(vis, vis')
      /\ FileInv(objs, hist, entries, promised, put, fix, tool, vis', dur')
      /\ AllGood(OfKind("chunk"), vis', dur')
  BY <1>1, <1>4, ContentPublished
<1>7. /\ tool' \in Tools /\ tool'.cmd = "import" /\ tool'.pc = next /\ tool'.id = tool.id
      /\ tool'.todo = OfKind("manifest")
  BY <1>1, <1>2, <1>5 DEF Tools, Phases
<1>8. SyncInv(tool', vis', dur')  BY <1>2, <1>6, <1>7 DEF SyncInv
<1>9. ASSUME NEW m \in Named(entries[tool.id])
      PROVE  /\ vis'[Manifest(m)] = "good" \/ Manifest(m) \in tool'.todo
             /\ \A c \in ChunksOf[m] : vis'[Chunk(c)] = "good"
  <2>1. m \in Manifests /\ Manifest(m) \in Files  BY <1>2, Paths
  <2>2. vis'[Manifest(m)] = "good" \/ Manifest(m) \in tool'.todo
    BY <2>1, <1>2, <1>6, <1>7, Kinds DEF GoodKept, OfKind
  <2>3. ASSUME NEW c \in ChunksOf[m] PROVE vis'[Chunk(c)] = "good"
    <3>1. Chunk(c) \in Files  BY <2>1, Paths
    <3>2. vis[Chunk(c)] = "good" \/ Chunk(c) \in OfKind("chunk")  BY <1>2, Kinds DEF OfKind
    <3> QED  BY <3>1, <3>2, <1>6 DEF GoodKept, AllGood
  <2> QED  BY <2>2, <2>3
<1>10. /\ next \in {"manifests", "snapshot"} /\ (next = "snapshot" => OfKind("manifest") = {})
  OBVIOUS
<1> HIDE DEF next
<1>11. ImportInv(tool', entries, vis')
  BY <1>2, <1>4, <1>7, <1>9, <1>10 DEF ImportInv
<1> QED  BY <1>1, <1>2, <1>6, <1>7, <1>8, <1>11, CommandStep DEF FileInv

\* A manifest is renamed into place: seen, and not yet sure.
LEMMA ImportManifestStep == ASSUME IInv, NEW f, ImportManifest(f) PROVE IInv'
<1> USE DEF IInv
<1>1. /\ vis' = Set(vis, {f}, "good") /\ dur' = dur /\ f \in tool.todo /\ Importing("manifests")
      /\ tool' = [tool EXCEPT !.pc = "manifests", !.todo = tool.todo \ {f}]
      /\ UNCHANGED <<objs, hist, entries, put, creator, fix, promised, moments>>
  BY DEF ImportManifest, ImportAt
<1>2. /\ tool.cmd = "import" /\ tool.pc = "manifests" /\ tool \in Tools /\ tool.id \in SnapshotIDs
      /\ entries \in [SnapshotIDs -> Captures]
      /\ promised \in [SnapshotIDs -> {"none", "kept", "deleted"}]
      /\ Named(entries[tool.id]) \in SUBSET Manifests
      /\ \A m \in Named(entries[tool.id]) :
           /\ vis[Manifest(m)] = "good" \/ Manifest(m) \in tool.todo
           /\ \A c \in ChunksOf[m] : vis[Chunk(c)] = "good"
  BY <1>1, DuringImport
<1>3. tool.todo \subseteq ManifestFiles  BY <1>2 DEF ImportInv
<1>4. PICK m0 \in Manifests : f = Manifest(m0)  BY <1>1, <1>3 DEF ManifestFiles
<1>5. /\ tool' \in Tools /\ tool'.cmd = "import" /\ tool'.pc = "manifests" /\ tool'.id = tool.id
      /\ tool'.todo = tool.todo \ {f}
  BY <1>1, <1>2 DEF Tools, Phases
<1>6. Healths(vis', dur) /\ Changed(vis, vis', {f}, "good")
  BY <1>1, SetChanges DEF Healths, Health
<1>7. /\ \A c \in CasChunks : vis'[Chunk(c)] = vis[Chunk(c)]
      /\ \A id \in SnapshotIDs : vis'[Snapshot(id)] = vis[Snapshot(id)]
      /\ \A m \in Manifests : vis'[RepRoot(m)] = vis[RepRoot(m)]
  BY <1>4, <1>6, Kinds, Paths DEF Changed
<1>8. /\ Kept(vis, dur, vis', dur) /\ SnapsKept(vis, dur, vis', dur) /\ SnapsOnly(vis, dur, vis', dur)
      /\ RepsOnly(vis, dur, vis', dur)
  BY <1>6, <1>7, Paths DEF Kept, SnapsKept, SnapsOnly, RepsOnly, Sure, Maybe, Changed
<1>9. FileInv(objs, hist, entries, promised, put, fix, tool, vis, dur)  BY DEF FileInv
<1>10. FileInv(objs, hist, entries, promised, put, fix, tool, vis', dur)
  BY <1>8, <1>9, FilesStay
<1>11. SyncInv(tool', vis', dur)
  <2>1. ChunksSynced(vis, dur) /\ SnapsSynced(vis, dur) /\ RepsSynced(vis, dur)
    BY <1>2 DEF SyncInv
  <2> QED  BY <2>1, <1>5, <1>7 DEF SyncInv, ChunksSynced, SnapsSynced, RepsSynced
<1>12. ASSUME NEW m \in Named(entries[tool.id])
       PROVE  /\ vis'[Manifest(m)] = "good" \/ Manifest(m) \in tool'.todo
              /\ \A c \in ChunksOf[m] : vis'[Chunk(c)] = "good"
  <2>1. m \in Manifests /\ Manifest(m) \in Files /\ ChunksOf[m] \subseteq CasChunks  BY <1>2, Paths
  <2> QED  BY <2>1, <1>2, <1>5, <1>6, <1>7 DEF Changed
<1>13. ImportInv(tool', entries, vis')  BY <1>2, <1>3, <1>5, <1>12 DEF ImportInv
<1> QED  BY <1>1, <1>2, <1>5, <1>6, <1>10, <1>11, <1>13, CommandStep DEF FileInv

\* The directory sync makes the manifests sure before the descriptor goes in.
LEMMA ImportManifestsSyncedStep == ASSUME IInv, ImportManifestsSynced PROVE IInv'
<1> USE DEF IInv
<1>1. /\ vis' = vis /\ dur' = [f \in Files |-> IF f \in ManifestFiles THEN vis[f] ELSE dur[f]]
      /\ tool.todo = {} /\ Importing("manifests")
      /\ tool' = [tool EXCEPT !.pc = "snapshot", !.todo = {}]
      /\ UNCHANGED <<objs, hist, entries, put, creator, fix, promised, moments>>
  BY DEF ImportManifestsSynced, ImportAt, Synced
<1>2. /\ tool.cmd = "import" /\ tool.pc = "manifests" /\ tool \in Tools /\ tool.id \in SnapshotIDs
      /\ entries \in [SnapshotIDs -> Captures]
      /\ promised \in [SnapshotIDs -> {"none", "kept", "deleted"}]
      /\ \A m \in Named(entries[tool.id]) :
           /\ vis[Manifest(m)] = "good" \/ Manifest(m) \in tool.todo
           /\ \A c \in ChunksOf[m] : vis[Chunk(c)] = "good"
  BY <1>1, DuringImport
<1>3. /\ tool' \in Tools /\ tool'.cmd = "import" /\ tool'.pc = "snapshot" /\ tool'.id = tool.id
      /\ tool'.todo = {}
  BY <1>1, <1>2 DEF Tools, Phases
<1>4. Healths(vis, dur')  BY <1>1 DEF Healths
<1>5. /\ \A c \in CasChunks : dur'[Chunk(c)] = dur[Chunk(c)]
      /\ \A id \in SnapshotIDs : dur'[Snapshot(id)] = dur[Snapshot(id)]
      /\ \A m \in Manifests : dur'[RepRoot(m)] = dur[RepRoot(m)]
      /\ \A m \in Manifests : dur'[Manifest(m)] = vis[Manifest(m)]
  BY <1>1, Kinds, Paths DEF ManifestFiles
<1>6. /\ Kept(vis, dur, vis, dur') /\ SnapsKept(vis, dur, vis, dur') /\ SnapsOnly(vis, dur, vis, dur')
      /\ RepsOnly(vis, dur, vis, dur')
  BY <1>5 DEF Kept, SnapsKept, SnapsOnly, RepsOnly, Sure, Maybe
<1>7. FileInv(objs, hist, entries, promised, put, fix, tool, vis, dur)  BY DEF FileInv
<1>8. FileInv(objs, hist, entries, promised, put, fix, tool, vis, dur')
  BY <1>6, <1>7, FilesStay
<1>9. SyncInv(tool', vis, dur')
  <2>1. ChunksSynced(vis, dur) /\ SnapsSynced(vis, dur) /\ RepsSynced(vis, dur)
    BY <1>2 DEF SyncInv
  <2> QED  BY <2>1, <1>5 DEF SyncInv, ChunksSynced, SnapsSynced, RepsSynced, ManifestsSynced
<1>10. ImportInv(tool', entries, vis)  BY <1>1, <1>2, <1>3 DEF ImportInv
<1> QED  BY <1>1, <1>2, <1>3, <1>4, <1>8, <1>9, <1>10, CommandStep DEF FileInv

\* The descriptor is published over content that is sure.
LEMMA ImportSnapshotStep == ASSUME IInv, ImportSnapshot PROVE IInv'
<1> USE DEF IInv
<1> DEFINE F == {f \in {Snapshot(tool.id)} : ~Present(f)}
<1>1. /\ vis' = Set(vis, F, "good") /\ dur' = Set(dur, F, "good") /\ Importing("snapshot")
      /\ tool' = [tool EXCEPT !.pc = "imported", !.todo = {}]
      /\ promised' = [promised EXCEPT ![tool.id] = "kept"]
      /\ UNCHANGED <<objs, hist, entries, put, creator, fix, moments>>
  BY DEF ImportSnapshot, ImportAt, PublishNew, Publish
<1>2. /\ tool.cmd = "import" /\ tool.pc = "snapshot" /\ tool \in Tools /\ tool.id \in SnapshotIDs
      /\ entries \in [SnapshotIDs -> Captures]
      /\ promised \in [SnapshotIDs -> {"none", "kept", "deleted"}]
      /\ Named(entries[tool.id]) \in SUBSET Manifests
      /\ \A m \in Named(entries[tool.id]) :
           /\ vis[Manifest(m)] = "good" \/ Manifest(m) \in tool.todo
           /\ \A c \in ChunksOf[m] : vis[Chunk(c)] = "good"
  BY <1>1, DuringImport
<1>3. tool.todo = {}  BY <1>2 DEF ImportInv
<1>4. /\ tool' \in Tools /\ tool'.cmd = "import" /\ tool'.pc = "imported" /\ tool'.id = tool.id
      /\ tool'.todo = {}
  BY <1>1, <1>2 DEF Tools, Phases
<1>5. /\ promised' \in [SnapshotIDs -> {"none", "kept", "deleted"}] /\ promised'[tool.id] = "kept"
      /\ OthersSame(promised, promised', tool.id) /\ OthersSame(entries, entries, tool.id)
  BY <1>1, <1>2 DEF OthersSame
<1>6. NamesWhole(Named(entries[tool.id]), vis, dur)
  <2> SUFFICES ASSUME NEW m \in Named(entries[tool.id]) PROVE Backed(vis, dur, m)
    BY DEF NamesWhole
  <2>1. m \in Manifests /\ ChunksOf[m] \subseteq CasChunks  BY <1>2, Paths
  <2>2. ManifestsSynced(vis, dur) /\ ChunksSynced(vis, dur)  BY <1>2 DEF SyncInv
  <2> QED  BY <2>1, <2>2, <1>2, <1>3 DEF ManifestsSynced, ChunksSynced, Backed, Sure
<1>7. JustSnapshot(F, vis, tool.id)  BY DEF JustSnapshot, Present
<1> HIDE DEF F
<1>8. DescriptorStep(entries, entries, promised, promised', tool, vis, dur, vis', dur', F, tool.id)
  BY <1>1, <1>2, <1>5, <1>6, <1>7 DEF DescriptorStep
<1>9. /\ Healths(vis', dur') /\ Kept(vis, dur, vis', dur') /\ RepsOnly(vis, dur, vis', dur')
      /\ GoodKept(vis, vis') /\ SyncInv(tool, vis', dur') /\ SnapsWhole(entries, vis', dur')
      /\ vis'[Snapshot(tool.id)] # "absent" /\ AckInv(promised', vis', dur')
  BY <1>2, <1>8, DescriptorPublished
<1>10. Held(objs, hist) \in SUBSET Manifests  BY NamedOf DEF TypeInv, Held
<1>11. NamesWhole(Held(objs, hist), vis', dur') /\ RepsWhole(vis', dur')
  BY <1>9, <1>10, NamesStay, RepsStay
<1>12. SyncInv(tool', vis', dur')  BY <1>2, <1>4, <1>9 DEF SyncInv
<1>13. \A m \in Named(entries[tool.id]) :
         vis'[Manifest(m)] = "good" /\ \A c \in ChunksOf[m] : vis'[Chunk(c)] = "good"
  BY <1>2, <1>3, <1>9, Paths DEF GoodKept
<1>14. ImportInv(tool', entries, vis')  BY <1>2, <1>4, <1>9, <1>13 DEF ImportInv
<1> QED  BY <1>1, <1>2, <1>4, <1>5, <1>9, <1>11, <1>12, <1>14, CommandStep

\* Representations of the imported manifests.
LEMMA ImportBackfillStep == ASSUME IInv, ImportBackfill PROVE IInv'
<1> USE DEF IInv
<1>1. /\ Importing("imported")
      /\ \E m \in Named(entries[tool.id]), whole \in BOOLEAN : RepBuild(m, whole)
      /\ UNCHANGED <<objs, hist, entries, put, creator, tool, fix, promised, moments>>
  BY DEF ImportBackfill
<1>2. /\ tool.cmd = "import" /\ tool.pc = "imported" /\ tool \in Tools /\ tool.id \in SnapshotIDs
      /\ entries \in [SnapshotIDs -> Captures]
      /\ promised \in [SnapshotIDs -> {"none", "kept", "deleted"}]
      /\ Named(entries[tool.id]) \in SUBSET Manifests
      /\ \A m \in Named(entries[tool.id]) :
           /\ vis[Manifest(m)] = "good" \/ Manifest(m) \in tool.todo
           /\ \A c \in ChunksOf[m] : vis[Chunk(c)] = "good"
  BY <1>1, DuringImport
<1>3. \E F \in SUBSET Files :
        /\ vis' = Set(vis, F, "good") /\ dur' = Set(dur, F, "good")
        /\ \A id \in SnapshotIDs : Snapshot(id) \notin F
        /\ \A n \in Manifests : RepRoot(n) \in F => RepBacked(vis', dur', n)
  BY <1>1, <1>2, RepBuilt
<1>4. /\ Healths(vis', dur') /\ SyncInv(tool, vis', dur') /\ GoodKept(vis, vis')
      /\ FileInv(objs, hist, entries, promised, put, fix, tool, vis', dur')
      /\ \A id \in SnapshotIDs : vis'[Snapshot(id)] = vis[Snapshot(id)]
  BY <1>3, RootsPublished
<1>5. tool.todo = {} /\ vis[Snapshot(tool.id)] # "absent"  BY <1>2 DEF ImportInv
<1>6. \A m \in Named(entries[tool.id]) :
        vis'[Manifest(m)] = "good" /\ \A c \in ChunksOf[m] : vis'[Chunk(c)] = "good"
  BY <1>2, <1>4, <1>5, Paths DEF GoodKept
<1>7. ImportInv(tool, entries, vis')  BY <1>2, <1>4, <1>5, <1>6 DEF ImportInv
<1> QED  BY <1>1, <1>2, <1>4, <1>7, CommandStep DEF FileInv

\* The import lets go of the store.
LEMMA ImportEndStep == ASSUME IInv, ImportEnd PROVE IInv'
<1>1. put = NoPut /\ creator = NoCreate  BY CommandAlone DEF ImportEnd, Importing
<1> QED  BY <1>1, ReleaseStep DEF ImportEnd, Importing
-----------------------------------------------------------------------------
(* Repair and failures.                                                    *)

\* Everything computeReachability refers to is there to be repaired.
LEMMA ReferencedAreSure ==
  ASSUME IInv, tool.cmd \in {"none", "serve"}, NEW c0 \in ReferencedChunks
  PROVE  c0 \in CasChunks /\ Sure(vis, dur, Chunk(c0))
<1> USE DEF IInv
<1>1. Held(objs, hist) \in SUBSET Manifests /\ entries \in [SnapshotIDs -> Captures]
  BY NamedOf DEF TypeInv, Held
<1>2. ASSUME NEW m1 \in Claimed PROVE m1 \in Manifests /\ Backed(vis, dur, m1)
  <2>1. CASE m1 \in NamespaceRoots
    BY <2>1, <1>1 DEF NamespaceRoots, Held, NamesWhole
  <2>2. CASE m1 \in NamedBySnapshots({id \in Snapshots : Good(Snapshot(id))})
    <3>1. PICK id \in Snapshots : m1 \in Named(entries[id])  BY <2>2 DEF NamedBySnapshots
    <3>2. id \in SnapshotIDs /\ vis[Snapshot(id)] # "absent"  BY <3>1 DEF Snapshots, Present
    <3>3. NamesWhole(Named(entries[id]), vis, dur)  BY <3>2 DEF SnapsWhole, Maybe
    <3>4. Named(entries[id]) \subseteq Manifests  BY <3>2, <1>1, NamedOf
    <3> QED  BY <3>1, <3>3, <3>4 DEF NamesWhole
  <2> QED  BY <2>1, <2>2 DEF Claimed
<1>3. ASSUME NEW m1 \in ReferencedManifests, c0 \in ChunksOf[m1]
      PROVE  c0 \in CasChunks /\ Sure(vis, dur, Chunk(c0))
  BY <1>2, <1>3, Paths DEF ReferencedManifests, Backed
<1>4. ASSUME NEW m1 \in ReferencedManifests, Present(RepRoot(m1)), c0 \in RepChunks(m1)
      PROVE  c0 \in CasChunks /\ Sure(vis, dur, Chunk(c0))
  <2>1. m1 \in Manifests  BY <1>2 DEF ReferencedManifests
  <2> QED  BY <2>1, <1>4, Paths DEF RepsWhole, RepBacked, Present, Maybe
<1>5. \/ \E m1 \in ReferencedManifests : c0 \in ChunksOf[m1]
      \/ \E m1 \in ReferencedManifests : Present(RepRoot(m1)) /\ c0 \in RepChunks(m1)
  BY DEF ReferencedChunks
<1> QED  BY <1>3, <1>4, <1>5

\* A repair takes down the damaged chunks that reachability refers to.
LEMMA RepairFindingsStep == ASSUME IInv, RepairFindings PROVE IInv'
<1> USE DEF IInv
<1> DEFINE found == {c \in ReferencedChunks : ~Good(Chunk(c))}
<1>1. /\ fix' = [on |-> TRUE, todo |-> found] /\ tool.cmd \in {"none", "serve"}
      /\ UNCHANGED <<objs, hist, vis, dur, entries, put, creator, tool, promised, moments>>
  BY DEF RepairFindings, Idle, Serving
<1>2. \A c \in found : c \in CasChunks /\ Sure(vis, dur, Chunk(c))  BY <1>1, ReferencedAreSure
<1> HIDE DEF found
<1>3. FixInv(fix', tool, vis, dur)
  <2>1. fix'.on = TRUE /\ fix'.todo = found  BY <1>1
  <2>2. fix' \in [on : BOOLEAN, todo : SUBSET CasChunks]  BY <1>1, <1>2
  <2> QED  BY <2>1, <2>2, <1>1, <1>2 DEF FixInv
<1> QED  BY <1>1, <1>3

\* A chunk is replaced, durably or not, or the peer does not have it.
LEMMA RepairChunkStep == ASSUME IInv, NEW c \in CasChunks, RepairChunk(c) PROVE IInv'
<1> USE DEF IInv
<1>1. /\ c \in fix.todo /\ fix' = [fix EXCEPT !.todo = @ \ {c}]
      /\ UNCHANGED <<objs, hist, entries, put, creator, tool, promised, moments>>
  BY DEF RepairChunk
<1>2. /\ fix \in [on : BOOLEAN, todo : SUBSET CasChunks] /\ Sure(vis, dur, Chunk(c))
      /\ (fix.on = TRUE => tool.cmd \in {"none", "serve"}) /\ fix.on # FALSE
  BY <1>1 DEF FixInv
<1>3. fix.on \in BOOLEAN  BY <1>2
<1>4. fix.on = TRUE /\ tool.cmd \in {"none", "serve"}  BY <1>2, <1>3
<1>5. ASSUME NEW v, NEW d, FixInv(fix, tool, v, d) PROVE FixInv(fix', tool, v, d)
  <2>1. /\ fix' \in [on : BOOLEAN, todo : SUBSET CasChunks] /\ fix'.todo = fix.todo \ {c}
    BY <1>1, <1>2
  <2>2. fix'.on = TRUE  BY <1>1, <1>2, <1>4
  <2> QED  BY <1>4, <1>5, <2>1, <2>2 DEF FixInv
<1>6. {Chunk(c)} \in SUBSET Content /\ Chunk(c) \in Files  BY Paths DEF Content, ChunkFiles
<1>7. Healths(vis', dur') /\ SyncInv(tool, vis', dur')
      /\ FileInv(objs, hist, entries, promised, put, fix, tool, vis', dur')
  <2>1. CASE Publish({Chunk(c)})
    BY <2>1, <1>6, ContentPublished DEF Publish
  <2>2. CASE vis' = Set(vis, {Chunk(c)}, "good") /\ UNCHANGED dur
    <3>1. Healths(vis', dur') /\ Changed(vis, vis', {Chunk(c)}, "good")
      BY <2>2, SetChanges DEF Healths, Health
    <3>2. /\ \A id \in SnapshotIDs : vis'[Snapshot(id)] = vis[Snapshot(id)]
          /\ \A m \in Manifests : vis'[RepRoot(m)] = vis[RepRoot(m)]
          /\ \A m \in Manifests : vis'[Manifest(m)] = vis[Manifest(m)]
          /\ \A x \in CasChunks : x # c => vis'[Chunk(x)] = vis[Chunk(x)]
          /\ vis'[Chunk(c)] = "good"
      BY <3>1, Kinds, Paths DEF Changed
    <3>3. Sure(vis', dur', Chunk(c))  BY <2>2, <3>2, <1>2 DEF Sure
    <3>4. /\ Kept(vis, dur, vis', dur') /\ SnapsKept(vis, dur, vis', dur')
          /\ SnapsOnly(vis, dur, vis', dur') /\ RepsOnly(vis, dur, vis', dur')
      BY <2>2, <3>2, <3>3 DEF Kept, SnapsKept, SnapsOnly, RepsOnly, Sure, Maybe
    <3>5. FileInv(objs, hist, entries, promised, put, fix, tool, vis, dur)  BY DEF FileInv
    <3>6. FileInv(objs, hist, entries, promised, put, fix, tool, vis', dur')
      BY <3>4, <3>5, FilesStay
    <3>7. SyncInv(tool, vis', dur')
      BY <2>2, <3>2, <3>3
         DEF SyncInv, ChunksSynced, ManifestsSynced, SnapsSynced, RepsSynced, Sure
    <3> QED  BY <3>1, <3>6, <3>7
  <2>3. CASE UNCHANGED <<vis, dur>>  BY <2>3 DEF FileInv
  <2> QED  BY <2>1, <2>2, <2>3 DEF RepairChunk
<1> QED  BY <1>1, <1>4, <1>5, <1>7, NoCommand DEF FileInv

\* The repair ends.
LEMMA NoRepairLeft == ASSUME NEW t, NEW v, NEW d PROVE FixInv(NoFix, t, v, d)
  BY DEF NoFix, FixInv

\* A repair that is done.
LEMMA RepairEndStep == IInv /\ RepairEnd => IInv'
  BY NoRepairLeft DEF IInv, RepairEnd

\* After a failure what is seen is what is on disk: all of what was sure, and
\* some of what may have been.
LEMMA SettledFiles ==
  ASSUME NEW v, NEW d, Healths(v, d), NEW v2 \in [Files -> Health],
         \A f \in Files : v2[f] \in {v[f], d[f]}
  PROVE  /\ Healths(v2, v2) /\ Kept(v, d, v2, v2) /\ SnapsKept(v, d, v2, v2)
         /\ SnapsOnly(v, d, v2, v2) /\ RepsOnly(v, d, v2, v2) /\ \A t : SyncInv(t, v2, v2)
<1>1. /\ Kept(v, d, v2, v2) /\ SnapsKept(v, d, v2, v2) /\ SnapsOnly(v, d, v2, v2)
      /\ RepsOnly(v, d, v2, v2)
  BY Paths DEF Kept, SnapsKept, SnapsOnly, RepsOnly, Sure, Maybe
<1>2. \A t : SyncInv(t, v2, v2)
  BY DEF SyncInv, ChunksSynced, SnapsSynced, ManifestsSynced, RepsSynced
<1> QED  BY <1>1, <1>2 DEF Healths

\* Everybody is gone, what was not synced is kept or lost.
LEMMA SettledStep ==
  ASSUME IInv, vis' \in [Files -> Health], \A f \in Files : vis'[f] \in {vis[f], dur[f]},
         dur' = vis', put' = NoPut, creator' = NoCreate, tool' = NoTool, fix' \in {fix, NoFix},
         UNCHANGED <<objs, hist, entries, promised>>
  PROVE  IInv'
<1> USE DEF IInv
<1>1. /\ Healths(vis', vis') /\ Kept(vis, dur, vis', vis') /\ SnapsKept(vis, dur, vis', vis')
      /\ SnapsOnly(vis, dur, vis', vis') /\ RepsOnly(vis, dur, vis', vis')
      /\ SyncInv(tool', vis', vis')
  BY SettledFiles
<1>2. FileInv(objs, hist, entries, promised, put, fix, tool, vis, dur)  BY DEF FileInv
<1>3. FileInv(objs, hist, entries, promised, put, fix, tool, vis', vis')
  BY <1>1, <1>2, FilesStay
<1>4. tool' = [cmd |-> "none", pc |-> "none", todo |-> {}, id |-> "none"]  BY DEF NoTool
<1>5. tool' \in Tools /\ tool'.cmd \in {"none", "serve"}  BY <1>4 DEF Tools, Phases
<1>6. FixInv(fix', tool', vis', vis')
  <2>1. FixInv(fix, tool, vis', vis')  BY <1>3 DEF FileInv
  <2> QED  BY <2>1, <1>5, RepairBeside, NoRepairLeft
<1>7. PutInv(put', tool', vis', vis') /\ CreateInv(creator', tool', objs, hist, moments')
  BY DEF PutInv, CreateInv
<1>8. GcInv(tool', objs, hist, entries, vis') /\ ImportInv(tool', entries, vis')
  BY <1>5, NoCommand
<1>9. TypeInv(objs, hist, entries, promised, tool)'  BY <1>5 DEF TypeInv
<1> QED  BY <1>1, <1>3, <1>6, <1>7, <1>8, <1>9 DEF FileInv

\* A power failure keeps or loses each file that was not synced.
LEMMA PowerFailureStep == ASSUME IInv, NEW lost, PowerFailure(lost) PROVE IInv'
<1>1. vis' = [f \in Files |-> IF f \in lost THEN dur[f] ELSE vis[f]]  BY DEF PowerFailure
<1>2. vis' \in [Files -> Health] /\ \A f \in Files : vis'[f] \in {vis[f], dur[f]}
  BY <1>1 DEF IInv, Healths
<1> QED  BY <1>2, SettledStep DEF PowerFailure

\* A killed owner's writes reach the disk.
LEMMA KillOwnerStep == ASSUME IInv, KillOwner PROVE IInv'
<1>1. vis' \in [Files -> Health] /\ \A f \in Files : vis'[f] \in {vis[f], dur[f]}
  BY DEF IInv, Healths, KillOwner
<1> QED  BY <1>1, SettledStep DEF KillOwner

\* So do a killed repair's.
LEMMA KillRepairStep == ASSUME IInv, KillRepair PROVE IInv'
<1> USE DEF IInv
<1>1. /\ dur' = vis /\ fix' = NoFix
      /\ UNCHANGED <<objs, hist, vis, entries, put, creator, tool, promised, moments>>
  BY DEF KillRepair
<1>2. vis \in [Files -> Health] /\ \A f \in Files : vis[f] \in {vis[f], dur[f]}  BY DEF Healths
<1>3. /\ Healths(vis, vis) /\ Kept(vis, dur, vis, vis) /\ SnapsKept(vis, dur, vis, vis)
      /\ SnapsOnly(vis, dur, vis, vis) /\ RepsOnly(vis, dur, vis, vis)
      /\ SyncInv(tool, vis, vis)
  BY <1>2, SettledFiles
<1>4. FileInv(objs, hist, entries, promised, put, fix, tool, vis, dur)  BY DEF FileInv
<1>5. FileInv(objs, hist, entries, promised, put, fix, tool, vis, vis)
  BY <1>3, <1>4, FilesStay
<1>6. FixInv(NoFix, tool, vis, vis)  BY NoRepairLeft
<1> QED  BY <1>1, <1>3, <1>5, <1>6 DEF FileInv
-----------------------------------------------------------------------------
(* The invariant and what follows from it.                                 *)

\* The stores a behaviour may begin with satisfy the invariant.
LEMMA InitHolds == RootInit => IInv
<1> SUFFICES ASSUME RootInit PROVE IInv  OBVIOUS
<1> DEFINE named(st) == NamespaceRoots \cup NamedBySnapshots(st)
           here(st, rs) == {Manifest(m) : m \in named(st)}
                   \cup {Snapshot(id) : id \in st} \cup {RepRoot(m) : m \in rs}
                   \cup ChunkFiles(UNION {ChunksOf[m] : m \in named(st)})
                   \cup ChunkFiles(UNION {RepChunks(m) : m \in rs})
<1>1. PICK i \in RootInstances :
        /\ objs = i.objs /\ hist = i.hist /\ entries = i.snaps
        /\ \E damaged \in SUBSET here(i.stored, i.reps) :
             vis = [f \in Files |-> IF f \in damaged THEN "bad"
                                    ELSE IF f \in here(i.stored, i.reps) THEN "good" ELSE "absent"]
        /\ dur = vis /\ put = NoPut /\ creator = NoCreate /\ tool = NoTool /\ fix = NoFix
        /\ promised = [id \in SnapshotIDs |-> IF id \in i.stored THEN "kept" ELSE "none"]
  BY DEF RootInit
<1>2. /\ i.objs \in Captures /\ i.hist \in SUBSET Manifests /\ i.snaps \in [SnapshotIDs -> Captures]
      /\ i.stored \in SUBSET SnapshotIDs /\ i.reps \in SUBSET Manifests
  BY RootsAssumption
<1> DEFINE st == i.stored
           rs == i.reps
<1>3. /\ vis \in [Files -> Health]
      /\ \A f \in Files : vis[f] # "absent" <=> f \in here(st, rs)
  <2>1. PICK damaged \in SUBSET here(st, rs) :
          vis = [f \in Files |-> IF f \in damaged THEN "bad"
                                 ELSE IF f \in here(st, rs) THEN "good" ELSE "absent"]
    BY <1>1
  <2> HIDE DEF here
  <2>2. vis \in [Files -> Health]  BY <2>1 DEF Health
  <2>3. \A f \in Files : vis[f] # "absent" <=> f \in here(st, rs)  BY <2>1
  <2> QED  BY <2>2, <2>3
<1>4. /\ \A m \in named(st) : Manifest(m) \in here(st, rs)
      /\ \A m \in named(st) : \A c \in ChunksOf[m] : Chunk(c) \in here(st, rs)
      /\ \A m \in rs : \A c \in RepChunks(m) : Chunk(c) \in here(st, rs)
      /\ \A id \in st : Snapshot(id) \in here(st, rs)
  BY DEF ChunkFiles
<1>5. /\ \A id : Snapshot(id) \in here(st, rs) => id \in st
      /\ \A m : RepRoot(m) \in here(st, rs) => m \in rs
  BY Kinds DEF ChunkFiles
<1>6. named(st) \in SUBSET Manifests
  <2>1. NamespaceRoots \in SUBSET Manifests  BY <1>1, <1>2, NamedOf DEF NamespaceRoots
  <2>2. NamedBySnapshots(st) \in SUBSET Manifests  BY <1>1, <1>2, NamedOf DEF NamedBySnapshots
  <2> QED  BY <2>1, <2>2
<1>7. Held(objs, hist) \subseteq named(st) /\ \A id \in st : Named(entries[id]) \subseteq named(st)
  BY DEF Held, NamespaceRoots, NamedBySnapshots
<1> HIDE DEF here, named
<1>8. ASSUME NEW m \in named(st) PROVE Backed(vis, dur, m)
  BY <1>1, <1>3, <1>4, <1>6, Paths DEF Backed, Sure
<1>9. NamesWhole(Held(objs, hist), vis, dur)  BY <1>7, <1>8 DEF NamesWhole
<1>10. SnapsWhole(entries, vis, dur)
  <2> SUFFICES ASSUME NEW id \in SnapshotIDs, Maybe(vis, dur, Snapshot(id))
               PROVE  NamesWhole(Named(entries[id]), vis, dur)
    BY DEF SnapsWhole
  <2>1. id \in st  BY <1>1, <1>3, <1>5, Paths DEF Maybe
  <2> QED  BY <2>1, <1>7, <1>8 DEF NamesWhole
<1>11. RepsWhole(vis, dur)
  <2> SUFFICES ASSUME NEW m \in Manifests, Maybe(vis, dur, RepRoot(m)), NEW c \in RepChunks(m)
               PROVE  Sure(vis, dur, Chunk(c))
    BY DEF RepsWhole, RepBacked
  <2>1. m \in rs  BY <1>1, <1>3, <1>5, Paths DEF Maybe
  <2> QED  BY <2>1, <1>1, <1>3, <1>4, Paths DEF Sure
<1>12. AckInv(promised, vis, dur)
  BY <1>1, <1>2, <1>3, <1>4, Paths DEF AckInv, Sure
<1>13. tool = [cmd |-> "none", pc |-> "none", todo |-> {}, id |-> "none"]  BY <1>1 DEF NoTool
<1>14. tool \in Tools /\ tool.cmd \in {"none", "serve"}  BY <1>13 DEF Tools, Phases
<1>15. promised \in [SnapshotIDs -> {"none", "kept", "deleted"}]  BY <1>1
<1>16. TypeInv(objs, hist, entries, promised, tool)  BY <1>1, <1>2, <1>14, <1>15 DEF TypeInv
<1>17. GcInv(tool, objs, hist, entries, vis) /\ ImportInv(tool, entries, vis)  BY <1>14, NoCommand
<1>18. SyncInv(tool, vis, dur)
  BY <1>1 DEF SyncInv, ChunksSynced, SnapsSynced, ManifestsSynced, RepsSynced
<1>19. PutInv(put, tool, vis, dur) /\ CreateInv(creator, tool, objs, hist, moments)
  BY <1>1 DEF PutInv, CreateInv
<1>20. FixInv(fix, tool, vis, dur)  BY <1>1, NoRepairLeft
<1>21. Healths(vis, dur)  BY <1>1, <1>3 DEF Healths
<1> QED  BY <1>9, <1>10, <1>11, <1>12, <1>16, <1>17, <1>18, <1>19, <1>20, <1>21 DEF IInv

\* The invariant reads nothing that a stuttering step changes.
LEMMA StutterStep == IInv /\ UNCHANGED rootVars => IInv'
  BY DEF IInv, rootVars

\* Every reachable state satisfies the inductive invariant, for every store,
\* bundle, set of keys and bound.
THEOREM InductiveInvariant == RootSpec => []IInv
<1>1. IInv /\ [RootNext]_rootVars => IInv'
  <2> SUFFICES ASSUME IInv, [RootNext]_rootVars PROVE IInv'  OBVIOUS
  <2>1. CASE Serve \/ Shutdown \/ Commit \/ RepOfPut \/ CreateSnapshot
    BY <2>1, ServeStep, ShutdownStep, CommitStep, RepOfPutStep, CreateSnapshotStep
  <2>2. ASSUME NEW k \in ObjectKeys,
               \/ DeleteObject(k) \/ CaptureEntry(k)
               \/ \E m \in Manifests : \/ PutBegin(k, m) \/ RestoreBegin(k, m)
                                       \/ \E from \in ObjectKeys : CopyBegin(k, from, m)
        PROVE  IInv'
    BY <2>2, DeleteObjectStep, CaptureEntryStep, PutBeginStep, RestoreBeginStep, CopyBeginStep
  <2>3. ASSUME NEW id \in SnapshotIDs, CreateBegin(id) \/ DeleteSnapshot(id) PROVE IInv'
    BY <2>3, CreateBeginStep, DeleteSnapshotStep
  <2>4. CASE GcScan \/ (\E f \in tool.todo : GcRemove(f)) \/ GcAdvance
    BY <2>4, GcScanStep, GcRemoveStep, GcAdvanceStep
  <2>5. CASE (\E S \in SUBSET hist : Prune(S)) \/ (\E m \in Manifests : RetireFaulty(m))
    BY <2>5, PruneStep, RetireFaultyStep
  <2>6. ASSUME NEW b \in Bundles, ImportRead(b) \/ \E S \in SUBSET CasChunks : ImportFails(b, S)
        PROVE  IInv'
    BY <2>6, ImportReadStep, ImportFailsStep
  <2>7. CASE \/ ImportFlush \/ (\E f \in tool.todo : ImportManifest(f)) \/ ImportManifestsSynced
             \/ ImportSnapshot \/ ImportBackfill \/ ImportEnd
    BY <2>7, ImportFlushStep, ImportManifestStep, ImportManifestsSyncedStep, ImportSnapshotStep,
       ImportBackfillStep, ImportEndStep
  <2>8. CASE RepairFindings \/ (\E c \in CasChunks : RepairChunk(c)) \/ RepairEnd
    BY <2>8, RepairFindingsStep, RepairChunkStep, RepairEndStep
  <2>9. CASE \/ KillOwner \/ KillRepair
             \/ \E lost \in SUBSET {f \in Files : vis[f] # dur[f]} : PowerFailure(lost)
    BY <2>9, KillOwnerStep, KillRepairStep, PowerFailureStep
  <2>10. CASE UNCHANGED rootVars  BY <2>10, StutterStep
  <2> QED  BY <2>1, <2>2, <2>3, <2>4, <2>5, <2>6, <2>7, <2>8, <2>9, <2>10 DEF RootNext
<1> QED  BY InitHolds, <1>1, PTL DEF RootSpec

\* The types, and no process shares the store with one that owns it alone
\* (acquireStoreLock).
THEOREM TypesHold == RootSpec => []RootTypeOK
<1>1. IInv => RootTypeOK
  <2> SUFFICES ASSUME IInv PROVE RootTypeOK  OBVIOUS
  <2> USE DEF IInv
  <2>1. /\ objs \in Captures /\ hist \subseteq Manifests /\ entries \in [SnapshotIDs -> Captures]
        /\ promised \in [SnapshotIDs -> {"none", "kept", "deleted"}]
        /\ tool.cmd \in {"none", "serve", "gc", "import"} /\ tool.todo \subseteq Files
    BY DEF TypeInv, Tools
  <2>2. {vis[f] : f \in Files} \cup {dur[f] : f \in Files} \subseteq {"absent", "good", "bad"}
    BY DEF Healths, Health
  <2>3. fix.on => Idle \/ Serving  BY DEF FixInv, Idle, Serving
  <2>4. (put # NoPut \/ creator # NoCreate) => Serving  BY DEF PutInv, CreateInv, Serving
  <2> QED  BY <2>1, <2>2, <2>3, <2>4 DEF RootTypeOK
<1> QED  BY InductiveInvariant, <1>1, PTL

\* What the namespace, its history, a snapshot descriptor or a representation
\* root names is there, through gcCollect, prune, doctor, imports, repairs,
\* kills and power failures.
THEOREM NothingNamedIsLost == RootSpec => []RootsWhole
<1>1. IInv => RootsWhole
  <2> SUFFICES ASSUME IInv PROVE RootsWhole  OBVIOUS
  <2> USE DEF IInv
  <2>1. ASSUME NEW m \in NamespaceRoots \cup NamedBySnapshots(Snapshots) PROVE Backed(vis, dur, m)
    <3>1. CASE m \in NamespaceRoots  BY <3>1 DEF NamespaceRoots, Held, NamesWhole
    <3>2. CASE m \in NamedBySnapshots(Snapshots)
      <4>1. PICK id \in Snapshots : m \in Named(entries[id])  BY <3>2 DEF NamedBySnapshots
      <4>2. id \in SnapshotIDs /\ Maybe(vis, dur, Snapshot(id))
        BY <4>1 DEF Snapshots, Present, Maybe
      <4> QED  BY <4>1, <4>2 DEF SnapsWhole, NamesWhole
    <3> QED  BY <3>1, <3>2
  <2>2. \A m \in NamespaceRoots \cup NamedBySnapshots(Snapshots) :
          Present(Manifest(m)) /\ \A c \in ChunksOf[m] : Present(Chunk(c))
    BY <2>1 DEF Backed, Sure, Present
  <2>3. \A m \in Manifests : Present(RepRoot(m)) => \A c \in RepChunks(m) : Present(Chunk(c))
    BY DEF RepsWhole, RepBacked, Maybe, Sure, Present
  <2> QED  BY <2>2, <2>3 DEF RootsWhole
<1> QED  BY InductiveInvariant, <1>1, PTL

\* A snapshot whose creation or import was acknowledged stays until it is
\* deleted, and an acknowledged deletion is not undone by a power failure.
THEOREM SnapshotAcksAreKept == RootSpec => []SnapshotAcksKept
<1>1. IInv => SnapshotAcksKept  BY DEF IInv, AckInv, SnapshotAcksKept, Sure, Maybe, Present
<1> QED  BY InductiveInvariant, <1>1, PTL

\* captureSnapshotEntries returns the namespace of one moment.
THEOREM SnapshotsAreOneMoment == RootSpec => []SnapshotIsOneMoment
<1>1. IInv => SnapshotIsOneMoment  BY DEF IInv, CreateInv, SnapshotIsOneMoment
<1> QED  BY InductiveInvariant, <1>1, PTL

\* An import that succeeds leaves its snapshot readable to the last chunk.
THEOREM ImportsAreReadable == RootSpec => []ImportIsReadable
<1>1. IInv => ImportIsReadable
  BY DEF IInv, ImportInv, ImportIsReadable, Importing, Present, Good
<1> QED  BY InductiveInvariant, <1>1, PTL
=============================================================================
