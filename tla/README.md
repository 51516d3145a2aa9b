# A TLA+ model of zeros3

zeros3 is an S3-compatible object store in one Go file, `src/zeros3.go`. A store
is a directory; the files in it are written once and then only replaced, renamed
or removed, except for one append-only journal. This directory holds
specifications of the parts whose correctness depends on the order of steps: what
a power failure may undo, what another request, goroutine or process may do in
between, and what a restart makes of the result.

Section numbers below are those of the comments in `src/zeros3.go`.

## 1. Inventory

### Components, their state and their operations

| Part (section) | State | Operations |
|---|---|---|
| Content-defined chunking (3) | none | split a stream at rolling-hash cut points between a minimum and a maximum |
| Loose CAS (4) | chunk files `chunks/aa/bb/<sha256>`, staged files in `tmp/`, the barrier `casPubMu` | `casBatch.add`, `startFlush`, `Flush`, `Abort`; `casPublish`; `casStat`, `casRead` |
| Packed CAS, coalesced reads (4, 4b, 4c) | immutable packs with an index, the locator snapshot `packSt` in memory, FORMAT.json | `packSink` (uploads that write packs), `publishPack`, `loadPackState`, lookups, reads of neighbouring chunks |
| Manifests (5) | `manifests/<uuid>`, immutable | `publishManifest`, `readVerifiedManifest` |
| Visibility journal (6) | `journal/visibility.log`, `Journal.writeOffset`, `nextSeq`, `poisoned` | `appendFrame`, `replayJournal`, `openJournal` |
| Namespace (7, 7c, 7d, 10a, 11, 11b) | `Store.buckets`, objects, history rows, uploads, all under `Store.mu` | bucket and object requests, CopyObject, conditional writes, multipart uploads, restore, prune; `applyRecord` on replay |
| Listing (7b) | none beyond the namespace | `ListObjectsV2`, multipart listings, continuation tokens |
| SigV4, checksums, XML, HTTP (8, 9, 10) | none | authenticate, parse, route, answer |
| Conditional and ranged GET, streaming (10b, 14) | none | one root, then the chunks of its manifest |
| Stats, reachability, verify (12, 13) | none | mark everything current roots, history rows, uploads and snapshots name |
| Store lock and GC (13b) | `flock` on the store | `acquireStoreLock`; `gcCollect` |
| Compact, repack, tiers, rebalance (13c to 13f) | packs, tier roots with their markers, FORMAT.json | `compact`, `replacePacksTo`, `movePack`, `rebalance`: write replacements, index them, unlink what they replace |
| Delta sync of files and directories, replication, fork (15, 15b to 15d, 15f, 15g) | none on the server beyond the CAS and the namespace; a run of a command remembers nothing of an earlier one | negotiate, upload missing chunks, commit under a precondition |
| Bulk transfer and the worker pool (15b) | `bulkBudget`, the free list of frames, a context per transfer | `runTransferWorkers`, `planBulkBatches`, `byteBudget.acquire`, `relayBulkChunks` |
| Repair (15e) | none | fetch a chunk from a peer, publish it over the bad one |
| Snapshots and restore (15h, 15i) | snapshot files, roots of the reachability scan | create, list, delete, restore |
| Bundles (16b, 16c) | bundle files | export, import |
| Structured representations (16d and the codecs) | representation roots and artefacts | build, trust, read, retire |
| Commands (16, 17) | one process each | open the store, with or without the lock, before or after it |

### How they interact

A PUT goes through four of them. The body is chunked; every chunk the CAS does not
have is staged and published (loose CAS); a manifest naming the chunks is
published; then, under `Store.mu`, the bucket and the precondition are checked
again, a frame naming the manifest is appended and fsynced (journal), and memory
is updated (namespace). Everything before the frame is invisible, and what is left
of it after a failure is garbage that GC removes. A restart replays the journal
through `applyRecord`, which has its own code for every record type. GC, prune and
the other maintenance commands are separate processes that open the same
directory; only a `flock` and the order in which a process takes it and opens the
store keep them apart.

### What is hard

* **Durability is a chain.** Bytes, directory entry, parent's directory entry,
  manifest, frame: each must be on stable storage before the next is relied on,
  also when one request relies on what *another* one has just published.
* **Locks are dropped.** `Store.mu` is not held while bodies are read or parts are
  assembled, so every commit works with something it looked up earlier.
* **Failures leave things behind.** A failed fsync leaves a complete frame or a
  visible chunk that nobody may count on; a killed process leaves the page cache
  to the next one.
* **Live code and replay code are different code.**
* **Several processes share one file**, and opening the store writes to it.
* **Clients lose answers.** A commit nobody waits for any more may still land, while
  the command is run again.
* **Garbage is what no root names**, and there are four kinds of roots: the namespace
  with its history, open uploads, snapshots and representations. Some of them may be
  damaged, and what a power failure brings back must not name what is gone.
* **Reads run ahead of the handler**: a run of pack records, a representation behind
  a channel.

`PROJECT.json` lists these as hazards, each at its line.

### What makes each part correct

Journal: acknowledged implies durable; after a kill every restart opens, and after a
power failure replay refuses at most over bytes that no acknowledgement covers; memory
is the replay of the file. Namespace: replay reproduces what the handlers did and never refuses;
preconditions hold at the commit; no version is lost except by a prune; an upload is
retired once, with the parts that were named. Loose CAS: what can be seen is
durable; an acknowledged object keeps its chunks; requests end. Processes: no
acknowledged frame is cut or overwritten; what the journal names is on disk. Packs:
replaced without a moment in which a live chunk is unreadable, damaged copies or
not; the store's format is never behind its packs; gc and rebalance converge. Roots:
everything a root names is there; acknowledgements about snapshots hold; a snapshot
is one moment; an import is readable to its last chunk. Listings: an entry that was
there all along is listed, in order, and no key twice. Transfers: nothing is replaced that
was not seen, a conflict that nobody else caused is over content that is already there
(findings 6 and 7: the comments promise more), success means the content arrived, no
transfer hangs. Reads: the bytes the range names, or an error that
a lost chunk explains.

## 2. Modules

| Module | Models | Uses |
|---|---|---|
| `CommitLog` | what the journal promises: an ordered log, a set of acknowledged mutations, failures that drop only an unacknowledged suffix | |
| `Journal` | `appendFrame`, `replayJournal`, `openJournal`, failures | `CommitLog`, by a refinement mapping |
| `JournalProofs` | theorems about `Journal` | `Journal` |
| `Namespace` | the handlers, the journal as a sequence of records, `applyRecord` | |
| `NamespaceProofs` | theorems about `Namespace` | `Namespace` |
| `LooseCAS` | `casBatch`, `casFlushFiles`, `casPublish`, `casEnsureShardDirs` | |
| `LooseCASProofs` | theorems about `LooseCAS` | `LooseCAS` |
| `StoreOwnership` | processes on one store: open, lock, append, prune, collect | |
| `StoreOwnershipProofs` | theorems about `StoreOwnership` | `StoreOwnership` |
| `Packs` | packs and tiers, uploads that write them, `compact`, `gc`, `repack`, `tier move`, `tier rebalance` | |
| `PacksProofs` | theorems about `Packs` | `Packs` |
| `Roots` | objects, history, snapshots and representations as roots; gc, prune, doctor, bundle import and repair | |
| `RootsProofs` | theorems about `Roots` | `Roots` |
| `ListPages`, `Listing` | the three paged listings as operators, and a client that walks one while entries change | `ListPages` |
| `Sync` | `sync`, `replicate`, `fork`, `snapshot restore` against one or two servers | `ListPages` |
| `SyncProofs` | theorems about `Sync` | `Sync`, `ListPages` |
| `Sums` | the running sum of a sequence of lengths | |
| `Transfer` | the worker pool, its batches, byte budget and recycled frames | `Sums` |
| `Reader` | one GET: condition, range, runs of packed records, the representation's goroutine | `Sums` |
| `MCJournal`, `MCNamespace`, `MCLooseCAS`, `MCPacks`, `MCStoreOwnership` | instances for TLC | |
| `MCCommit` | `Journal` and `LooseCAS`, one at a time | `MCLooseCAS`, `Journal` |
| `MCStore` | `Packs`, `StoreOwnership` and `Roots`, one at a time | `MCPacks`, `MCStoreOwnership`, `Roots` |
| `MCReplication` | `Listing`, `Sync`, `Transfer` and `Reader`, one at a time | the four |
| `MCResume` | a fork and a restore, each interrupted and run again | `MCReplication` |
| `ClientProofs` | theorems about `Transfer`, `Reader` and `Listing`, and about the four together | `SyncProofs`, `MCReplication` |

The modules meet at narrow points. `Namespace` takes from `Journal` that an append
either leaves a synced frame and goes on, or poisons and leaves the frame or not:
that is what `JournalImplementsCommitLog` and `JournalMemoryIsReplay` say.
`LooseCAS` ends where `Namespace` starts, at a successful `Flush`.
`StoreOwnership` takes from both that a frame's content is published before the
frame. `Packs` takes from `LooseCAS` that loose chunks are durable before they can
be seen, from the store lock that an offline command is alone, and from `Namespace`
the set of live objects. `Roots` takes from `Journal` that a change of the namespace is
atomic and durable, from `LooseCAS` and `Packs` that publishing a chunk is one
durable step, and from `StoreOwnership` that offline commands are alone. `Sync`
lists its source through `ListPages`, sends chunks the way `Transfer` does (there all of
them arrive or the object fails), and commits through the critical section of
`Namespace`'s `CommitObjectRoot`. `Reader` takes from `Packs` that a chunk has copies in
packs and perhaps a loose one.

A name that ends in what it does wrong (`ReleasedEarly`, `BucketNotRechecked`,
`ReplayPutNoArchive`) stands just above a definition of the model and is a
plausible mistake in the code behind it. `PROJECT.json` lists, for each property,
a mistake that TLC finds with that property. No specification uses them.

### Journal

`frames`, `durable` and `tail` are the file: the complete frames a read returns, how
many are synced, and what follows them. `writeOffset`, `nextSeq` and `poisoned` are
the fields of `Journal`, counted in frames. `pend` is the append in flight (there
is one: appends run under `Store.mu`). `mem` is what the caller folded into
memory.

| Action | Code |
|---|---|
| `AppendWrite`, `AppendWriteFails` | `WriteAt` in `appendFrame`; a failure leaves none, some or all of the frame and poisons |
| `AppendSync`, `AppendSyncFails` | `Sync`; the cursor moves only after it, a failure poisons |
| `ApplyAndAck` | the caller's memory update and answer |
| `AckVisible` | `CreateBucket` of a bucket that exists: success with no frame |
| `JournalKill` | the process ends; the page cache stays |
| `PowerFail` | also loses any part of what was not synced; the first lost frame may leave torn bytes, or its full length with other bytes |
| `Reopen` | `replayJournal` and `openJournal`: accept or refuse, truncate the torn tail, set the cursor; nothing is synced |

Frame bytes and checksums are abstracted to whether a frame is complete, torn
(shorter than its byte count) or garbled (full length, wrong checksum).

### Namespace

`live` is the `Store`'s maps. `journal` is the sequence of records, `synced` how
many survive a power failure, `applied` how many `live` includes. `chain` is a
history variable: the namespace the *handler* produced with each record; replay
goes through `ApplyRecord`, so comparing the two compares the two pieces of code.
`pend[c]` is the request of client `c`, between the critical sections of its
handler.

One action is one critical section of `Store.mu`, with everything it does. Requests
with one section are one action (`CreateBucket`, `DeleteBucket`, `DeleteObject`,
`CreateMultipartUpload`, `AbortMultipartUpload`). The others are split where the
code drops the lock: `PutObject`, then `CommitObjectRoot`; `CopyObject`,
`PublishCopy`, `CommitObjectRoot`; `UploadPart` or `UploadPartCopy`, then
`CommitPart`; `CompleteMultipartUpload`, `AssembleParts`, `CommitComplete`;
`RestoreObjectVersion`, then `CommitObjectRoot`. `RequestFails` is every way a
request ends without a frame. `Journaled` is an append with its failures.
`PruneFrame` is one frame of `versions prune`. `Kill`, `PowerFail`, `OpenStore`,
`Replay` and `ReplayDone` are the life of the process, replay one record at a time.

Sizes are counted in blocks; an ETag is the bytes it digests, so equal ETags mean
equal bytes; the UUIDs of manifests, uploads and versions are positions or frame
numbers, fresh by construction. Content types, user metadata, tags and
timestamps are left out. The set `Instances` holds several small instances (which
requests are offered, how many frames, which sizes); `inst`, chosen in `Init` and
never changed, is the one a behaviour belongs to. `CreateBucket` of an existing bucket changes nothing here
and is in `Journal` (`AckVisible`).

### LooseCAS

`present` and `dirs` are what a process sees; `entryDurable`, `dirDurable` and
`dataDurable` what a power failure cannot undo; `pubHolder` is `casPubMu`'s writer.
`req[w]` is a request's goroutine with its `casBatch`, `flight[w]` the goroutine of
its `casFlight`.

| Action | Code |
|---|---|
| `Begin`, `Add`, `AddFails` | `ingestStream`, `casBatch.add` with `casStat` under the shared lock |
| `StartFlush`, `Flush`, `Commit`, `Abort` | `startFlush` (joins the previous flight), `Flush`, the commit that follows, `Abort` |
| `SyncStaged`, `SyncStagedFails` | `casFlushFiles`: fsync every staged file |
| `LockBarrier`, `MakeShardDirs`, `SyncParent`, `Rename`, `SyncShard`, `PublishDone` | `casPublish` and `casEnsureShardDirs`, in their order, one rename and one directory fsync at a time |
| `PublishFails` | an error at any of those steps, with the whole roll-back, before the barrier is released |
| `CasPowerFail`, `CasKill` | as in `Journal` |

One directory level stands for `aa/bb`: both are created and synced the same
way. The roll-back's `os.Remove` succeeds, and a removal is not undone by a power
failure (undoing it only brings back an unreferenced chunk with fsynced bytes).
`SyncParent` makes the entries of the directories created in the same call durable and no
others: what an earlier process left unsynced may have another parent.

### StoreOwnership

Each process has a command (`run`), a `flock` mode (`lock`), and in `proc` the
phase it is in and the journal as it was when it opened the store (`view`: its
namespace and its cursor). Opening is two steps, as in the code: `ReplayJournal`
reads, `TruncateTail` cuts the file at the end the first step found.
`serve` opens and then locks (`MayLock`, `MayOpen`); `gc`, `prune` and `repair` lock
first. A write reaches the file in two parts, so another process may read a torn
frame. The collector lists its garbage, then removes it file by file
(`ScanGarbage`, `RemoveGarbage`).

Frames are slots of equal size. A frame longer than the one that overwrites it
would leave its end behind as foreign bytes, which replay refuses: the model shows
the milder outcome.

### Packs

A pack is named by the hash of its content, so it is its tier, its set of records
and whether one of them is compressed. `packs`, `loose`, `format.disk` and `roots` are
what a process sees; `packsDur`, `looseDur`, `format.dur` and `rootsDur` what was last
fsynced. A power failure keeps any part of the difference, of removals too: an unlinked
pack or loose chunk may come back. `locator` is the snapshot `Store.packSt` of
the process that is up, `format.mem` its `Store.format`. `bad` is the set of copies
whose payload storage has damaged: still listed, no longer verifying.

| Action | Code |
|---|---|
| `MakeRoot`, `SyncRoot` | `initTierRoots`: a tier root's marker, then the directories that lead to it |
| `RaiseFormat`, `SyncFormat` | `ensureStoreFormat` under `formatMu` |
| `RenamePack`, `SyncPacks`, `IndexPack` | the rest of `publishPack` (and of `movePack`'s copy): rename, directory fsync, `addPack` |
| `PacksServe`, `PacksPutObject`, `Put`, `PublishBuilt`, `FlushLoose`, `PacksCommit`, `PacksDeleteObject`, `RequestFails` | an upload through `packSink`, a deletion |
| `Compact`, `Gc`, `Repack`, `TierMove`, `Rebalance` | a command takes the exclusive lock, opens the store, marks and plans |
| `DropRedundantLoose`, `KeepLoose` | a loose chunk that is also packed: removed if the packed copy reads back |
| `StageLoose`, `UnlinkLoose`, `LooseDone` | `compactBatch` |
| `UnlinkGarbage`, `DeadPacks` | `gcCollect` |
| `StageReplacements`, `PublishReplacement`, `CheckReplacements`, `DropPack`, `PacksDropped` | `replacePacksTo`, in its order |
| `MovePack`, `DeleteSource`, `SyncSource` | `movePack`, with its two ways of obtaining the target |
| `VisitPack`, `FlushPending`, `PacksDone` | `rebalance`'s second pass: packs are classified again with the locator of that moment |
| `Exit`, `PacksKill`, `PacksPowerFail`, `Rot` | ends and failures; an error of a command is a kill, since it returns and undoes nothing but staged files |

Staging is part of the step that plans a pack: staged files are private, fsynced
and verified before the rename. Pack sizes and the thresholds computed from them
are left out: a batch is any set of chunks, `repack` may select any partly dead
packs, and which of several equally hot copies comes first is any choice. A
policy is a tier for each object.

`Budgets` plays the part that `Instances` plays in `Namespace`: a behaviour is bounded
by one of them, and `budget` counts down.

### Roots

A file is a manifest, a chunk, a snapshot descriptor or a representation root. `vis` is
the health of every file as a process sees it, `dur` as a power failure leaves it.
`put` and `creator` are the server's write and its snapshot creation in flight, `tool` is
the process that owns the store, `fix` the repair under a shared lock. `promised` is
what was acknowledged of each snapshot, `moments` the namespaces since the creation in
flight began.

| Action | Code |
|---|---|
| `PutBegin`, `CopyBegin`, `RestoreBegin`, `RepOfPut`, `Commit`, `DeleteObject` | writes: chunks and manifest published, a representation built or cloned, the root committed under `Store.mu` |
| `CreateBegin`, `CaptureEntry`, `CreateSnapshot`, `DeleteSnapshot` | snapshots; the capture copies key by key while it holds `Store.mu` |
| `GcScan`, `GcRemove`, `GcAdvance` | `gcCollect -apply`: refused unless the live set can be trusted, then roots, chunks and manifests in this order, with one directory sync |
| `Prune`, `RetireFaulty` | `versions prune`, `doctor -retire-bad-representations` |
| `ImportRead`, `ImportFails`, `ImportFlush`, `ImportManifest`, `ImportManifestsSynced`, `ImportSnapshot`, `ImportBackfill`, `ImportEnd` | bundle import, full and delta |
| `RepairFindings`, `RepairChunk`, `RepairEnd` | `repairFromPeer`, with a failed directory sync after the rename |
| `PowerFailure`, `KillOwner`, `KillRepair` | failures |

### ListPages and Listing

Keys are numbers in the order of their bytes, and a common prefix has a place among
them. `PageOf` is the loop of the three listings; each gives it the entries beyond its
cursor, the group of an entry and the rule for groups already returned. `Listing` walks
one of them while `AddEntry`, `RemoveEntry`, `RemoveContainer` and `CreateBucket` change
the entries. `lasting` and `seen` are history variables: the entries of every moment of
the walk, and of some moment.

### Sync

`src` and `dst` are the two buckets, `cas` the chunks of the two stores (one when
`inst.same`), `file` the local files. `client` is the command, with the object it is at;
`commits` are the commit requests a server works on, also those whose client has
gone. `stable`, `quiet`, `foreign`, `versions` and `applied` are history variables: who
else wrote what, and what the last commit replaced.

Each request of the command is one action, in the code's order (`ListSourceObjects`,
`FetchSourceDescriptor` or `StatLocalFile` and `ScanLocalFile`, `HeadSyncDestination`,
`NegotiateSyncMissing`, `RelayChunk`, `RestatLocalFile`, `CommitSyncObject`, `Recheck`,
`PlainPut`); `handleSyncCommit` is two (`ReadBackChunks` without the lock,
`CommitObjectRootChecked` with it). `RequestFails`, `ConnectionEnds`, `KillClient`,
`CommitFails` and `RestartWithGC` are what goes wrong, `SrcWrite`, `DstWrite`, `FileWrite`
and `Rot` what others do. An ETag is the content and whether it was a multipart
upload; two layouts of parts over the same bytes, which would differ in their ETags, are
one.

A local file is its chunks and its mtime. `FileWrite` changes a chunk or the length and
moves the mtime on, keeps it, or sets it back: os.Stat (`Stat`) sees the length and the
mtime and nothing else, as `syncFile` says of itself (14471 to 14476). `versions` records
for each write whether it moved the mtime on, and `OneVersion` asks a commit for one
version of the file only if all of them did. A mix committed after a write that kept
size and mtime is a behaviour of the model, and no property claims otherwise; `MovedOn`
is the condition, and the mutant that compares only the sizes breaks the property. A
`PlainPut` makes no such check and no claim.

### Transfer

An item is a batch of chunks or one chunk. `Dispatch` is the loop with its select,
`Acquire` and `AcquireCanceled` the byte budget with `getBulkFrame`, `FetchBulkChunks`
and `UploadAnswered` the two requests, `TransportDone` the HTTP transport that may read
the frame after the answer, `Finish` the deferred calls, `Return` the end of
`runTransferWorkers`. The batches are computed by `PlanBulkBatches`.

### Reader

A byte is its position. `HandleGetObject` and `OpenObjectReader` decide what is read
from where; `NextChunk` is one call of `manifestReader.next` with the run it may plan
(`RunLength`), fetch (`Fetched`) and hand out; `Produce` and `Flush` are the goroutine of
`repStreamReader`, `NextPiece`, `StreamEnds`, `ClientGone` and `Drain` the handler's side.
`Decay` and `Repaired` change the copies meanwhile. The bound on the stored bytes of a
run is left out (it cuts runs the way the bound on logical bytes does).

## 3. Runs

Run each in this directory with `tlc -workers 2 -config X.cfg M`.

| Run | Configuration | Question | Result |
|---|---|---|---|
| `commit` | `MCCommit.cfg` | Does any sequence of failed writes, failed syncs, kills, power failures and restarts lose an acknowledged frame or make memory differ from the file? Can anything but a power failure leave a file that replay refuses? Does the journal implement `CommitLog`? Overlapping objects, failing calls and power failures at every step, kills outside a publication: is anything visible before it is durable, does an acknowledged object lose a chunk, does every request end? | holds |
| `journal_idempotent_ack` | `MCJournalIdem.cfg` | Does *every* acknowledgement survive, the idempotent ones included? | violated (finding 1) |
| `namespace` | `MCNamespace.cfg` | Two clients put under conditions, copy, delete, create and delete buckets, or race parts, completions, aborts and bucket deletion; one client's overwrites, deletes, completions, restores and prunes, server and offline commands in turn; two parts of different sizes, replaced, copied from ranges and completed in any order. Do preconditions hold at the commit, is a copy the revision that was checked, does an upload end once and as what was named, is a version ever lost, does replay reproduce the history and never refuse? | holds |
| `loose_cas_kill` | `MCLooseCASKill.cfg` | Is the barrier enough when a process is killed inside a publication and the power fails later? | violated (finding 2) |
| `packs_unsynced_exit` | `MCPacksUnsynced.cfg` | Can a live chunk always be read when a command ends between a rename and its directory fsync, is run again, and the power fails? | violated (finding 5) |
| `store` | `MCStore.cfg` | Uploads that write packs and every offline command over what they left, with errors, kills, power failures and damaged copies: can a live chunk always be read, is the format ever behind the packs, does the store always open, do gc and rebalance converge after interrupted commands? A running server beside two collectors and a prune, or a server starting beside collectors, each killed anywhere: is an acknowledged frame cut, or live data removed? Puts, copies, restores, snapshots, representations, collections, prunes, imports and repairs over damaged files, with kills and power failures: is everything a root names there, do acknowledgements about snapshots hold, is a snapshot one moment, is an import readable? | holds |
| `ownership_repair` | `MCOwnershipRepair.cfg` | Repair beside a running server | violated (finding 3) |
| `ownership_start_prune` | `MCOwnershipStartPrune.cfg` | A server starting beside prune and gc | violated (finding 4) |
| `replication` | `MCReplication.cfg` | Listings walked while entries come and go: is a lasting entry missed or repeated? Commands with lost requests, late commits, kills, reruns, foreign writers, damage and restarts with a gc: is anything replaced unseen, does a fork conflict with its own single-part object, is what was committed whole, does success mean it arrived? The pool under failure and cancellation: is a frame shared, a byte of budget lost, the verdict right? A GET while copies decay: are the bytes those of the range, is every failure explained? Does all of it end? | holds |
| `resume_multipart` | `MCResume.cfg` | Of fork and restore of an object that came from a multipart upload, does at least one resume without a conflict with its own object? | violated (findings 6 and 7) |
| `listing_repeats` | `MCListingRepeats.cfg` | Does pagination ever repeat a result? | violated (finding 8) |
| `get_truncated` | `MCGetTruncated.cfg` | Does a representation ever change what a GET of readable chunks answers? | violated (finding 9) |

A run that puts several modules together explores them one at a time: a behaviour is of
one of them, chosen at the start, and nothing else moves.

Deadlock is checked where a system must always be able to go on: `LooseCAS` in `commit`,
and `Packs` in `store`, where some process can always end or start. The other parts of
these two runs may stutter, and deadlock is switched off in `namespace` and `replication`:
a journal or a namespace stops at its bounds or when a store is refused, and processes,
listings, commands, transfers and requests come to an end; that the last four do is
`ClientsEnd`.

### Bounds, and why they are enough

* `commit`, the journal: three mutations and four frames allow a frame acknowledged, one whose
  sync failed, one appended after the restart that adopted it, and one more; every
  mixture of synced, unsynced, torn and garbled ends is met. The theorems of section
  6 remove the bound.
* `namespace`: one bucket and one key, because requests
  to different keys share only the journal and the bucket, and the races are between
  requests to the same ones. Two clients in the instances that race, since every guard
  re-checked at a commit protects against *one* step of somebody else. Four to six
  frames: create a bucket, two commits, a deletion and one frame left behind by a
  failure. Two or three manifests tell the checked revision from its successor. The
  instances for histories have longer sequences of one client's requests instead.
* `store`, `Packs`: two chunks and two objects that share one, so that deleting one object
  leaves packs wholly, partly or not dead and duplicates arise; three tiers as in the
  code, so that "hottest of several" is not "the other one". Six
  budgets: concurrent uploads and a command; two commands in a row over
  two uploads (an interrupted command and the one that finds its remains); the
  same with a damaged copy; with compressed packs; and with processes that
  end anywhere while the power stays on, with two uploads and a command and with two
  commands.
* `commit`, loose chunks: two requests, three chunks in two directories and batches of two, so
  that a request has a full batch in flight while it stages the next, repeats a
  chunk it already sent, and shares chunks and a directory with the other. The
  theorems remove the bounds.
* `store`, the others: two committed objects before, one piece of garbage, and up to three
  more frames, enough for a frame to be in progress while another process opens
  and a prune frame to be overwritten. For `Roots` four manifests over three chunks, one
  a copy of another, so that chunks and representation components are shared between what
  goes and what stays; three snapshots, one of them only in a bundle and one the base of
  a delta; at most one damaged file, two puts (one where repair, prune and damage come together),
  two imports, and one of each command and failure, which is a collection between any two
  of them.
* `replication`: four keys, two under one common prefix, pages of up to two, so that a
  prefix falls on a page boundary, before it and after it, with two changes during
  the walk. Commands copy one or two keys of one or two chunks in up to two runs (three
  for a fork of a multipart upload), with one foreign write on each side, one restart with a gc or one
  damaged chunk: every guard of the protocol protects against one such step, and a second
  run meets what the first left. Pools of two and three workers over batches of which one
  exceeds the budget, every batching of up to three chunks of sizes 1 to 3, and free lists
  of none and several frames. Five chunks in three packs, with runs limited by neighbours, by
  count and by size, every kind of range header around the boundaries, a representation
  that fails at the first, a middle or no byte, and a channel of one piece.

Symmetry is used where the properties and constants treat the permuted values
alike (clients and bodies in `namespace`, requests in `loose_cas_kill`), and
never with the temporal property.

### Fairness

`RequestsEnd` is checked under `CasFairness`: each request's and each flight's
goroutine takes a step it can take (the Go scheduler runs every runnable goroutine,
and the model's steps are system calls that return), and a goroutine that waits for
`casPubMu` gets it if it is released again and again (strong fairness on `Add` and
`LockBarrier`: a `sync.RWMutex` blocks new readers once a writer waits, and
admits the waiting readers when a writer leaves). No fairness is given to failures
or to the arrival of requests.

`ClientsEnd` is checked under `MCReplication`'s `Fairness`, weak and for each goroutine: a
client that walks a listing asks for its next page, and the changes of others run out;
a command takes its next step, and a server finishes a commit it has accepted; the
dispatch loop and each worker run, every request is answered or fails, and the
transport closes a body it was given; the handler of a GET and the goroutine it started
run, and a write to the client returns. Requests have no timeout of their own
(`newHardenedHTTPServer` sets no `WriteTimeout`, deliberately), so that a peer which stays connected
and silent is not covered: the assumption is that it answers or its connection breaks.
Nothing forces a loss, a kill, a write by somebody else, or
the client of a GET to go away.

## 4. Findings

1. **An idempotent success may rest on a frame nobody synced**
   (`journal_idempotent_ack`). After a kill between a frame's write and its sync,
   the next process replays the frame from the page cache and syncs nothing. A
   repeated `CreateBucket` then succeeds without a frame, and a power failure
   removes the bucket. The journal's contract is "acknowledged ⇒ durable".
2. **The publication barrier does not outlive its process** (`loose_cas_kill`).
   After a kill between `casPublish`'s renames and its directory fsyncs, the next
   process takes the chunk for stored, skips it, and acknowledges an object that a
   power failure then damages.
3. **Repair beside a server can cut off an acknowledged frame**
   (`ownership_repair`). `OpenStore` truncates the journal where its own replay
   ended; a frame the server completed in between is gone. The comment on
   `runRepair` calls this combination safe. `doctor`, `stats`, `verify` and
   `versions` open the store the same way with no lock at all.
4. **A server opens the store before it locks it** (`ownership_start_prune`). A
   prune and a gc that run in between are undone in the journal by the server's
   stale cursor, while the content they removed stays removed.

5. **A second run trusts what the first did not sync** (`packs_unsynced_exit`). A
   compact that ends between `publishPack`'s rename and its directory fsync leaves a
   visible pack that is not durable. The next one reads it back through the page
   cache and unlinks the loose copy; a power failure then removes the pack.
   `movePack` removes its source in favour of such a target, and
   `ensureStoreFormat` and `initTierRoots` return early when the file they would
   write is there. Section 13c promises "never a missing live chunk" for a crash at
   any point. Syncing the directory before the old copy goes would be enough.

6. **A resumed fork conflicts with its own object** (`resume_multipart`).
   `handleSyncCommit` gives what it publishes the MD5 of its bytes as ETag, also when the
   source was a multipart upload with an ETag `md5-N`. If the fork is killed, or loses
   an answer, after such a commit has landed, the rerun compares the two ETags, takes its
   own object for somebody else's and reports a conflict. The comment on section 15g
   says that a resumed rerun "never conflicts with its own already-landed objects". The
   object is correct, only the report and the exit code are not. For a single-part
   object a fork looks again after a refused commit and resumes.
7. **So does a resumed restore, and it does not look again** (`resume_multipart`). The
   entry of a multipart upload meets the same two ETags, at `restoreObject`'s first HEAD.
   And since `restoreObject` has no second look, a commit of the earlier run that lands
   between the rerun's HEAD and its own commit makes the rerun conflict whatever the ETag
   is. Section 15i says already-landed objects are committed again, "never re-transferring or
   re-conflicting". `SomeResumeIsClean` says that at least one of the two commands keeps its
   promise; the counterexample has both fail, one after the other. `ConflictsAreForeign` shows in
   `replication` that these are the only such cases: a conflict on a key that nobody
   else wrote is over content that is already there, and in a fork over a multipart upload.
8. **A listing can repeat a common prefix** (`listing_repeats`). Page one of `ListObjectsV2`
   ends with the prefix, a key is added under it beyond the cursor, and the next page
   folds that key into the same prefix. Section 7b says that pagination never duplicates a
   result, "even under concurrent mutation". Keys are never repeated, and the other two
   listings repeat nothing: `ListedOnce` states exactly this.
9. **A representation can truncate a GET** (`get_truncated`). Once the first piece has been sent
   there is no way back to the chunks, so a representation that fails further on truncates
   the response although every chunk of the object is good. Section 16d says it "can be
   absent, unreadable or stale without changing any S3-visible behavior".
   `ReadsAreFaithful` allows it as the one exception.

Smaller disagreements met while modelling, without a run of their own:

* The journal's contract (3051 to 3057) says that replay after a crash between a frame's
  write and its sync observes the previous or the new complete state. After a power failure
  it may observe neither: if the file system kept the frame's full length with other bytes in
  it, `replayJournal` refuses the store loudly, as its own comment says (3350 to 3358). The
  frame was never acknowledged. `OnlyPowerLossRefuses` states that nothing else makes replay
  refuse: a kill at any moment leaves a file that opens, whatever failed before.
* `deleteSnapshot`'s comment says create respects `snapshotMu`; the publication of a
  new descriptor does not take it. No property depends on it: the file is renamed into place.
* An import that ends between the renames of `commitStagedManifests` and the directory sync
  is finished by a rerun that finds the manifests in place and syncs nothing; gc does not
  sync the removal of chunks and manifests; a `deleteSnapshot` whose directory sync fails
  has removed the descriptor all the same, and a later gc trusts that. With a power failure
  these are findings 2 and 5 again; `Roots` assumes that what a killed process wrote is written back.

1, 2, 4 and 5 need a kill or an exact overlap, followed in 1, 2 and 5 by a power failure
before the page cache is written back.

## 5. Failure model

A *kill* ends a process and keeps the page cache. A *power failure* ends every
process and keeps what was fsynced; of the rest any part may survive (for the
journal: a prefix of the frames, and of the first lost one any bytes). A failed call
may have had all, some or none of its effect, and a failed fsync says nothing about
the data. In `Packs` storage may also damage copies, never the last good one of a
live chunk (`Rot`); otherwise storage that loses synced data is not modelled. Where a
finding shows that an exit between a rename and its fsync followed by a power failure
loses data (2 and 5), the passing runs leave out that combination and nothing else:
`LooseCAS` has kills outside a publication, `Packs` has kills anywhere without a
power failure and both when everything visible is synced, `Roots` has both, with what a
killed process wrote reaching the disk before the power fails. `Roots` also starts from
stores in which a file is already damaged, `Sync` and `Reader` damage chunks while a
transfer or a GET runs. Requests and answers are lost in `Sync`, and a commit may land
after its client has given up.
Nor is the directory entry of `visibility.log` itself, which `openJournal`
creates without syncing the directory: the journal is assumed to exist.

## 6. Proofs

`tlapm M.tla` checks them. Each theorem holds for every value of the constants that
meets the named assumptions of its module (all of them about the constants' types, and
evaluated by TLC on the instances). Three hypotheses go beyond that, and each is an
explicit premise of the theorems that need it:

* `Supervised` (`StoreOwnershipProofs`): in a scenario at most one process is a server,
  none is a `repair`, and a server that runs beside a `prune` was up before the prune was
  started. Without the second, `AckedFramesKept` fails, and without the third,
  `LiveDataKept` (findings 3 and 4). A crashed server stays down, so a restart of it
  beside a running command is not covered. `MCStore` asserts the hypothesis of its
  scenarios.
* `FsyncedEnds` (`PacksProofs`): no behaviour has both a process that ends between a
  rename and the fsync of its directory, and a later power failure (finding 5 is about
  that combination). Kills anywhere without a power failure are covered, and so are power
  failures with kills at points where everything visible is synced.
* `CreateOnly` (`ConflictsAreExplained` of `SyncProofs`): the instances of `fork`
  and `restore` begin with an empty destination. The commands accept any; an object that is
  there before the first run is somebody else's, and the model lets somebody else write it
  (`DstWrite`) before that run and records it in `foreign`. `MCReplication` asserts the
  hypothesis of its instances.

**`JournalProofs`**, for any set of mutations and any bound on the file:

* `JournalTypes`, `JournalAckedDurable`, `JournalRestarts`, `JournalMemoryIsReplay`:
  the four invariants of the journal in the `commit` run;
* `JournalImplementsCommitLog`: every step is a step of `CommitLog` or leaves its
  variables alone.

None of them is inductive alone. `JInv` adds how the cursor and the file are related
(`CursorInv`): the cursor is at the end of the file, except that while a sync
runs, or after a failure has poisoned the process, one complete frame may lie past
it; bytes past the last complete frame exist only in a poisoned or a stopped process;
and a frame that waits to be applied is the last one and is synced. `Numbered` says that the
frames are numbered from 1. Together they show that a write at the cursor never
covers a synced frame, and that after a failed sync nothing is appended until a
restart has adopted or lost the extra frame, which is why poisoning is needed.

**`LooseCASProofs`**, for any chunks, directories, requests, objects and batch size,
with failing calls, power failures and kills, but no process killed inside a
publication (with it, `CommittedChunksIntact` is false: finding 2):

* `LooseTypes`: types, and at most two batches of staged files per request;
* `LooseVisibleDurable`: the barrier's promise;
* `LooseCommitted`: acknowledged objects keep their chunks.

The inductive invariant `IInv` rests on `Settled`: the visible chunks that no running
publication created. `DurableInv` says that settled chunks are durable together
with their directories, and what the barrier's holder has made durable at each of
its phases; `BarrierInv` that only the holder is past the lock; `RequestInv` that
each chunk a request has passed is settled, staged, or in its own flight, unless the
flight has failed; `CommitInv` that the chunks of acknowledged objects are settled.
A roll-back removes only unsettled chunks and a power failure only
non-durable ones, so neither touches a settled one.

**`NamespaceProofs`**, for any buckets, keys, clients and instances:

* `TypeCorrect`;
* `ReplayIsFaithful` and `ReplaySucceeds`: at every moment, replay of the journal
  accepts every record and yields the namespace the handlers have in memory;
* `ConditionalWritesAreAtomic`, `CopiesAreOfCheckedSources`,
  `CompletionsAreWhatWasNamed`: what an acknowledged conditional PUT, `CopyObject` or
  `CompleteMultipartUpload` promised held at its commit;
* `UploadsAreRetiredOnce`, `VersionsAreKept`: an upload ends once; a committed
  version stays, as the root or a row of the history, until a prune frame drops it.

The inductive invariant speaks of the whole chain of namespaces the journal has gone
through and not only of the last, because a kill, a lost tail or a poisoned journal
leads back to an earlier one. `ChainInv`: each record is accepted by the namespace
before it and leads to the one after it (`Leads`, which also says that a record takes no
version away except by pruning). `ProcessInv`: memory is the chain's last element.
`PendInv`: a record in flight leads from it. `AckInv`: what the requests hold
when they come back to commit. `VersionInv`: `NoVersionLost`, of every element of the
chain. The lemmas are one per operator and record type; the loop of
`removeHistoryLocked` is a recursive function, and what it keeps is proved with the
library's `NatSetInduction`, which takes a set instead of an operator.

**`StoreOwnershipProofs`**, for any processes, any journal to begin with and any number
of frames, under `Supervised`: `TypesHold`, `NoProcessCutsAnothersFrames`
(`AckedFramesKept`), `NoCollectorTakesLiveData` (`LiveDataKept`),
`OwnersWorkFromTheJournal` (`OwnersAreCurrent`). The invariant ties the phase of each
process to its command and lock (`LockInv`), its `view` to the file as it is, but for
the frame it writes itself (`ViewInv`), and its garbage to what the file does not name
(`DataInv`). The delicate part is the server, which opens before it locks: while it is
between the two no exclusive owner may write, and that is what the third part of
`Supervised` provides.

**`PacksProofs`**, for any chunks, objects, requests and tiers and any number of uploads
and commands, under `FsyncedEnds`: `TypesHold`, `FormatIsNeverBehind`
(`FormatCoversPacks`), `StoreNeverRefuses` (`AlwaysOpens`), `LiveChunksAreKept`
(`LiveReadable`), `MaintenanceFinishesItsWork` (`MaintenanceConverges`), and the action
property `NothingIsLost` (`NothingLost`). The first four rest on `IInv`: a pack is safe (cannot be undone by the failures that may still
come) before the locator lists it; `FORMAT.json` is durable at the version a pack
needs before the pack is renamed, and the tier roots before the format; and a command
removes a pack or a loose chunk only when every chunk that needs it has a safe copy
elsewhere. `NothingIsLost` is about undamaged copies, which `IInv` does not
distinguish, so it has an invariant of its own, `GInv`, which says that
what a command is about to remove has an undamaged copy elsewhere, or in the pack it is
writing.

`MaintenanceFinishesItsWork` has a third invariant, `MInv`, over the plan of a command in
progress and about where copies are, not about damage. For a rebalance (`RebalanceInv`),
every live chunk is in its tier, or among the loose chunks, staged packs and old packs
still to be dealt with (`ChunkPlan`), every pack that is not as it should be is among the
packs still to be dealt with (`PackPlan`), and what a pack that goes holds is at its target
or will be before it goes (`MovePlan`, `DropPlan`). The delicate part is `ListPlan`: the
locator still lists packs that were moved away, and a verdict taken with it is right only
because no live chunk of such a pack had that pack's tier as its target. Since a rebalance
skips damaged loose chunks, its plan is claimed only while none is damaged
(`LooseWhole`), and damage that is there at the end makes `MaintenanceConverges` say nothing.
For a gc (`GcInv`), what it has not listed is live, or the primary pack of something live
(`NoneDead`). A gc stages a replacement only for damage, so the invariant carries the case that all
damage is in packs about to be replaced (`Curable`): those are packs that stay, under the
same name.

**`RootsProofs`**, for any manifests, snapshots, chunks, bundles and stores to begin with:
`TypesHold`, `NothingNamedIsLost` (`RootsWhole`), `SnapshotAcksAreKept`,
`SnapshotsAreOneMoment`, `ImportsAreReadable`. A power failure keeps any part of what
was not synced, so the invariant speaks of files that are there whatever is lost
(`Sure`) and of files that may be there (`Maybe`): a root that may be there needs
files that surely are. The rest of it says what is seen but not yet synced during a
collection and an import (`SyncInv`), what a write and a snapshot in progress hold, and
that a collection's list contains nothing that a root it leaves needs.

**`SyncProofs`**, for any keys and chunks and any instance, with lost requests and
answers, kills, restarts with a collection, other writers and damaged chunks:

* `SyncTypesHold`;
* `NoBlindOverwrite` (`OverwritesAreIntended`): a commit replaces only what its run saw;
* `ObjectsAreWhole` (`CommitsAreWhole`): every object at the destination has all its
  chunks; and what is committed of a local file is one version of it, never a mix, if
  every write since the run began moved its mtime on. The specification has writes that
  keep the mtime or set it back, and of what they lead to nothing is claimed;
* `SuccessIsComplete` (`OKMeansReplicated`): a run that reports success has brought every
  key that stayed the same at the source and that nobody else wrote at the destination;
* `ConflictsAreExplained` (`ConflictsAreForeign`): a conflict on a key nobody else
  wrote is the run meeting its own earlier commit, and in a fork the source was then a
  multipart upload (findings 6 and 7).

There are seven invariants, each resting on those before it: types (`TInv`), where a
commit's precondition comes from (`OInv`), what is stored (`WInv`), what the command
carries of a source that did not change (`SInv`), what its results say (`RInv`), the
order of its commits (`QInv`), what the keys hold that nobody else wrote (`CInv`).
`RInv` needs that walking `ListObjectsV2` page by page misses no key that is there
throughout: this is a lemma about `ListPages`, by induction on the number of keys left.

**`ClientProofs`**, for any values of the constants that meet the type assumptions:

* `TransfersAreSafe` (`PoolSafe`) and `TransferTypesHold`;
* `GetsAreFaithful` (`ReadsAreFaithful`) and `GetTypesHold`;
* `ListingsAreFaithful` (`ListingFaithful`) and `ListTypesHold`;
* `ClientsImplement`: the specification that the `replication` run explores implements those
  of the four modules, and so `ClientTypesHold` (`ClientTypes`) and `ClientsAreFaithful`.

*Transfer.* `planBulkBatches` is followed chunk by chunk: the closed batches are the first
lengths in order (`Cut`), each within its limits, and each but the last was closed
because the next chunk would not fit (`Bounded`). In the pool, the bytes available
and those held by items add up to the budget, a frame is with one item, on the free
list, or still read by the transport, and the verdict follows from the items (`PoolInv`).
The sums are recursive functions over the length; what adding, changing or cutting one
element does to a sum is proved with `NatSetInduction`.

*Reader.* Nothing is written before the range is known; from then on `out` is the range
from its start. `ChunkInv` says how far: to the end of the chunk before the reader's
index, while the records queued from a run are those of the chunks that follow it.
`StreamInv` says the same of a representation: the pieces in the channel and the goroutine's buffer
continue `out` byte by byte (`Chained`). `LostInv` records which chunks had no valid copy
at some moment, which is what an error answer may name.

*Listing.* `PageRight` is the invariant of the loop over the sorted entries: the units so far
are the new units of the entries so far, in order; a prefix on the page is at or before
`group`; and a full page stops at an entry whose unit is neither on the page nor
returned before, with the cursor just before it. Its core is that the order of entries is
the order of their units (`UnitsFollow`), which is where the keys under a prefix having no
gap is needed. `CursorInv` is the invariant between pages: every unit listed belongs to
an entry up to the cursor; the cursor's own unit is listed, and so is that of every
lasting entry up to it; and but for uploads no lasting entry beyond it has its unit listed.
The last is what makes a repeated prefix of `ListObjectsV2` the sign of a key added
meanwhile; for uploads the marker rules the repetition out, and the second part is why
a prefix skipped for the marker has indeed been listed.

Proving these showed two definitions to be less than a function: the parsing of a
range (`Requested`) and the round of the page loop (`Step`) were written as `CASE`
with overlapping arms, of which TLA+ may choose any. Both are now `IF` in the order of
the code's conditions; on the instances TLC had taken the first arm, so the runs' results
are the same.

**Model-checked only.** `RequestsEnd` and `ClientsEnd`: liveness under fairness is outside
the prover's reach. `StoreTypes` is stated part by part (`TypesHold` of
`StoreOwnershipProofs` and of `RootsProofs`), not for their composition. The eight runs that
expect a violation are counterexamples and need no proof.

## 7. Not modelled

* Codecs and managed adapters, SigV4, checksums, XML and HTTP parsing: functions on
  bytes with no state between calls.
* Diff, inspect and the reports: read-only.
* Two servers on one store, and `restore` beside a server: `restore` takes no lock
  and would append at an offset a server also uses, but no document promises that
  either works.
* Of packs: their bytes, sizes and thresholds, dry runs, tier policy files, rebalance's
  deferral of packs that are mostly in place, packs that fail to load at open.
* Content-defined chunking: a function of the bytes; the other parts rely only on equal
  input giving equal chunks.
* In `Namespace`: `x-amz-copy-source-if-none-match` of `CopyObject` and the source conditions
  of `UploadPartCopy`, which only refuse more requests; the legacy record types 2, 3 and 8
  of `applyRecord`, which no current handler writes; the `ensureStoreFormat` before a prune's
  frames (the format protocol is in `Packs`).
* In `Roots`: open multipart uploads as roots of the scan; the error path of
  `deleteSnapshot` whose directory sync fails after the unlink, and of an import after its
  renames (see section 4); the batches of chunks an import flushes while it still reads the
  stream (they are garbage until its manifests are there). A snapshot descriptor, manifest
  or chunk that is damaged is a file that is there: `RootsWhole` is about presence, and
  what a repair may do to the content is in `ImportIsReadable` only.
* In `Transfer` the deferred calls of a worker (frame, budget, slot, outcome, cancellation)
  are one step, `Finish`; `Settle` forgets the item's frame, so sharing after
  that shows as a wrong verdict or budget and not as a shared frame.
* `casPublish` with `replace` is one step of `Roots`, not the sequence of its calls; the
  barrier it shares with uploads is in `LooseCAS` without it.
* The stream formats of bundles and bulk frames, exports, metadata and content types.
* A plain PUT after a failed discovery (`PlainPut` in `Sync`) replaces what it never saw.
  It is meant for endpoints that are not zeros3; `OverwritesAreIntended` is about commits.

## 8. Plan

Models that would still add something: `casPublish` with `replace` and a second process
that does not share the barrier in `LooseCAS`; an abstract specification for `Packs` (a set
of chunks that can always be read, commands that stutter); an abstract S3 specification
(a map from keys to versions, atomic requests) that `Namespace` is shown to implement.
