-------------------------------- MODULE Packs --------------------------------
(***************************************************************************)
(* The packed half of the CAS of zeros3.go (sections 4b, 13b to 13f, and   *)
(* packSink of section 4): immutable packs in tiers, the uploads that      *)
(* write them, and the offline commands that replace them: compact, gc,    *)
(* repack, tier move and tier rebalance.                                   *)
(*                                                                         *)
(* A pack's name is the hash of its content, so a pack is its tier, its    *)
(* set of records and whether it holds a compressed one.  Every directory  *)
(* has what a process sees and what a power failure cannot undo.  Staged   *)
(* files are fsynced and verified before they are renamed; nobody else     *)
(* looks at them, so staging is part of the step that plans it.  Pack      *)
(* sizes are left out: a batch may be any set of chunks.                   *)
(***************************************************************************)
EXTENDS Naturals, FiniteSets

CONSTANTS Chunks,
          NumTiers,      \* tiers 0 (hot) to NumTiers - 1
          Objects,       \* the objects clients upload, as sets of chunks
          Requests,      \* uploads a server may run at a time
          Tool,          \* stands for an offline command among the writers
          OfflineCommands,      \* the offline commands of this instance
          Budgets        \* each behaviour is bounded by one of these: uploads
                         \* at a time, uploads, commands, damaged copies,
                         \* whether packs may hold compressed records, and
                         \* the kinds of failure

Hot == 0
Tiers == 0 .. NumTiers - 1
ColdTiers == Tiers \ {Hot}
PackWriters == Requests \cup {Tool}
Packs == [tier : Tiers, recs : (SUBSET Chunks) \ {{}}, deflated : BOOLEAN]

\* "unsyncedExit": a process may also end after a rename or a new directory
\* entry and before the directory fsync that makes it durable.
PackFailureKinds == {"error", "kill", "power", "unsyncedExit"}

ASSUME PacksAssumption ==
  /\ NumTiers \in Nat \ {0}
  /\ Budgets \subseteq [atOnce : Nat, uploads : Nat, commands : Nat, rots : Nat,
                         deflate : SUBSET BOOLEAN, failures : SUBSET PackFailureKinds]
  /\ Objects \subseteq (SUBSET Chunks) /\ Tool \notin Requests

\* storeFormatVersion, ...Packed, ...Compressed, ...Tiers
Plain == 1
Packed == 2
Compressed == 3
Tiered == 5

VARIABLES loose, looseDur,   \* chunks/: visible, and as last fsynced
          packs, packsDur,   \* the packs of all tiers, likewise
          bad,               \* damaged copies: <<pack or LooseFile, chunk>>
          format,            \* FORMAT.json: mem, disk and dur
          roots, rootsDur,   \* the tier roots that have their marker
          live,              \* objects acknowledged and not deleted
          up,                \* "down", "serve" or "tool"
          locator,           \* Store.packSt: the packs this process indexes
          uploading,               \* uploads: object, chunks to come, open builder
          pub,               \* publishPack of each writer
          command,              \* the offline command
          budget             \* what is left of the bounds

disk == <<loose, looseDur, packs, packsDur, bad, format, roots, rootsDur>>
packVars == <<disk, live, up, locator, uploading, pub, command, budget>>

LiveChunks == UNION live
NoUpload == [obj |-> {}, left |-> {}, built |-> {}]
NoPub == [step |-> "none"]

\* Stands for the loose files among the places that hold a copy.
LooseFile == [tier |-> Hot, recs |-> {}, deflated |-> FALSE]

\* An offline command: its step, the tier wanted for each chunk, loose chunks
\* to unlink and to pack, packs to visit, staged packs to publish, packs to
\* remove, chunks they carry or the pack being moved, directories to fsync.
NoCommand == [op |-> "none", step |-> "none", dest |-> [c \in Chunks |-> Hot],
           todo |-> {}, cands |-> {}, left |-> {}, queue |-> {}, doomed |-> {},
           need |-> {}, source |-> {}, dirs |-> {}]

\* need in publishPack
Need(p) == IF p.tier # Hot THEN Tiered
           ELSE IF p.deflated THEN Compressed ELSE Packed

Settled == packs \subseteq packsDur /\ format.disk = format.dur /\ roots = rootsDur

PacksInit ==
  /\ loose = {} /\ looseDur = {} /\ packs = {} /\ packsDur = {} /\ bad = {}
  /\ format = [mem |-> Plain, disk |-> Plain, dur |-> Plain]
  /\ roots = {} /\ rootsDur = {} /\ live = {} /\ up = "down" /\ locator = {}
  /\ uploading = [w \in Requests |-> NoUpload]
  /\ pub = [w \in PackWriters |-> NoPub]
  /\ command = NoCommand /\ budget \in Budgets
-----------------------------------------------------------------------------
(* Lookups and reads.                                                      *)

GoodLoose(c) == c \in loose /\ <<LooseFile, c>> \notin bad
GoodIn(p, c) == p \in packs /\ c \in p.recs /\ <<p, c>> \notin bad

\* loadPackState: packs outside the hot tier count from format 5 on.
Loadable == {p \in packs : p.tier = Hot \/ format.disk >= Tiered}

\* casStat: presence only.
CasStat(c) == c \in loose \/ \E p \in locator : c \in p.recs

\* casReadExcluding: a verified copy outside the packs in skip.
CasReadExcluding(c, skip) ==
  GoodLoose(c) \/ \E p \in locator \ skip : GoodIn(p, c)

\* copyAtTier
CopyAtTier(c, t, skip) ==
  \/ t = Hot /\ GoodLoose(c)
  \/ \E p \in locator \ skip : p.tier = t /\ GoodIn(p, c)

\* packState.best: the hottest copy; which of several is a matter of names.
Primaries(c, packset) ==
  {p \in packset : c \in p.recs
                   /\ \A q \in packset : c \in q.recs => p.tier <= q.tier}

\* What a process that opens the store now can read.
Readable(c) == GoodLoose(c) \/ \E p \in Loadable : GoodIn(p, c)

\* checkTierRoots, in OpenStore
StoreOpens == format.disk >= Tiered => ColdTiers \subseteq roots

SyncTiers(ts) ==
  packsDur' = {p \in packsDur : p.tier \notin ts} \cup {p \in packs : p.tier \in ts}
-----------------------------------------------------------------------------
(* publishPack, by an upload or a command.  pub[w] goes through "staged",  *)
(* "formatting", "formatted", "renamed", "synced".                         *)

StartPublish(w, p) == pub' = [pub EXCEPT ![w] = [step |-> "staged", pack |-> p]]
Publishing(w, step) == pub[w].step = step
PubStep(w, step) == pub' = [pub EXCEPT ![w].step = step]

\* initTierRoots: one root of a store below format 5, its marker last...
MakeRoot(w) ==
  /\ Publishing(w, "staged") /\ pub[w].pack.tier # Hot /\ format.mem < Tiered
  /\ \E t \in ColdTiers \ roots : roots' = roots \cup {t}
  /\ PubStep(w, "rooting")
  /\ UNCHANGED <<loose, looseDur, packs, packsDur, bad, format, rootsDur, live, up,
                 locator, uploading, command, budget>>

\* Mutant: the directories of a new tier root are not fsynced.
RootUnsynced(w) ==
  /\ Publishing(w, "rooting")
  /\ PubStep(w, "staged")
  /\ UNCHANGED <<disk, live, up, locator, uploading, command, budget>>

\* ... and the directories that lead to it.
SyncRoot(w) ==
  /\ Publishing(w, "rooting")
  /\ rootsDur' = roots
  /\ PubStep(w, "staged")
  /\ UNCHANGED <<loose, looseDur, packs, packsDur, bad, format, roots, live, up,
                 locator, uploading, command, budget>>

RootsReady(w) == pub[w].pack.tier # Hot => ColdTiers \subseteq roots

\* ensureStoreFormat: FORMAT.json is replaced under formatMu, ...
RaiseFormat(w) ==
  /\ Publishing(w, "staged") /\ RootsReady(w)
  /\ \A v \in PackWriters : ~Publishing(v, "formatting")
  /\ IF format.mem >= Need(pub[w].pack)
     THEN PubStep(w, "formatted") /\ UNCHANGED format
     ELSE PubStep(w, "formatting") /\ format' = [format EXCEPT !.disk = Need(pub[w].pack)]
  /\ UNCHANGED <<loose, looseDur, packs, packsDur, bad, roots, rootsDur, live, up,
                 locator, uploading, command, budget>>

\* Mutant: no fsync of the directory of FORMAT.json.
FormatUnsynced(w) ==
  /\ Publishing(w, "formatting")
  /\ format' = [format EXCEPT !.mem = format.disk]
  /\ PubStep(w, "formatted")
  /\ UNCHANGED <<loose, looseDur, packs, packsDur, bad, roots, rootsDur, live, up,
                 locator, uploading, command, budget>>

\* ... and the directory fsynced before memory says so.
SyncFormat(w) ==
  /\ Publishing(w, "formatting")
  /\ format' = [format EXCEPT !.dur = format.disk, !.mem = format.disk]
  /\ PubStep(w, "formatted")
  /\ UNCHANGED <<loose, looseDur, packs, packsDur, bad, roots, rootsDur, live, up,
                 locator, uploading, command, budget>>

\* Mutant: the pack is indexed before its directory is fsynced.
RenameAndIndexPack(w) ==
  /\ Publishing(w, "formatted")
  /\ packs' = packs \cup {pub[w].pack}
  /\ locator' = locator \cup {pub[w].pack}
  /\ PubStep(w, "renamed")
  /\ UNCHANGED <<loose, looseDur, packsDur, bad, format, roots, rootsDur, live, up,
                 uploading, command, budget>>

RenamePack(w) ==
  /\ Publishing(w, "formatted")
  /\ packs' = packs \cup {pub[w].pack}
  /\ PubStep(w, "renamed")
  /\ UNCHANGED <<loose, looseDur, packsDur, bad, format, roots, rootsDur, live, up,
                 locator, uploading, command, budget>>

\* A pack of the same name that was damaged is replaced for good here.
SyncPacks(w) ==
  /\ Publishing(w, "renamed")
  /\ SyncTiers({pub[w].pack.tier})
  /\ bad' = {x \in bad : x[1] # pub[w].pack}
  /\ PubStep(w, "synced")
  /\ UNCHANGED <<loose, looseDur, packs, format, roots, rootsDur, live, up,
                 locator, uploading, command, budget>>

\* addPack.  In replacePacksTo a replacement identical to a doomed pack is
\* that pack, which stays.
IndexPack(w) ==
  /\ Publishing(w, "synced")
  /\ locator' = locator \cup {pub[w].pack}
  /\ pub' = [pub EXCEPT ![w] = NoPub]
  /\ IF w = Tool THEN command' = [command EXCEPT !.queue = @ \ {pub[w].pack},
                                           !.doomed = @ \ {pub[w].pack}]
                 ELSE UNCHANGED command
  /\ UNCHANGED <<disk, live, up, uploading, budget>>

PublishPack(w) ==
  \/ MakeRoot(w) \/ SyncRoot(w) \/ RaiseFormat(w) \/ SyncFormat(w)
  \/ RenamePack(w) \/ SyncPacks(w) \/ IndexPack(w)
-----------------------------------------------------------------------------
(* Uploads.                                                                *)

PacksServe ==
  /\ up = "down" /\ StoreOpens
  /\ up' = "serve"
  /\ locator' = Loadable
  /\ format' = [format EXCEPT !.mem = format.disk]
  /\ UNCHANGED <<loose, looseDur, packs, packsDur, bad, roots, rootsDur, live, uploading,
                 pub, command, budget>>

\* ingestStream with a packSink, or with loose files only (section 4).
PacksPutObject(w) ==
  /\ up = "serve" /\ uploading[w] = NoUpload /\ budget.uploads > 0
  /\ Cardinality({v \in Requests : uploading[v] # NoUpload}) < budget.atOnce
  /\ budget' = [budget EXCEPT !.uploads = @ - 1]
  /\ \E o \in Objects \ live : uploading' = [uploading EXCEPT ![w] = [obj |-> o, left |-> o, built |-> {}]]
  /\ UNCHANGED <<disk, live, up, locator, pub, command>>

\* packSink.Put: a chunk that is stored, or in the open builder, is skipped.
Put(w) ==
  /\ pub[w] = NoPub
  /\ \E c \in uploading[w].left :
       uploading' = [uploading EXCEPT ![w].left = @ \ {c},
                          ![w].built = @ \cup (IF CasStat(c) THEN {} ELSE {c})]
  /\ UNCHANGED <<disk, live, up, locator, pub, command, budget>>

\* packSink.publish, when the builder is full or at Flush.
PublishBuilt(w) ==
  /\ pub[w] = NoPub /\ uploading[w].built # {}
  /\ \E d \in budget.deflate : StartPublish(w, [tier |-> Hot, recs |-> uploading[w].built, deflated |-> d])
  /\ uploading' = [uploading EXCEPT ![w].built = {}]
  /\ UNCHANGED <<disk, live, up, locator, command, budget>>

\* Mutant: loose chunks visible before their directory is fsynced.
FlushLooseUnsynced(w) ==
  /\ pub[w] = NoPub /\ uploading[w].left = {} /\ uploading[w].built # {}
  /\ loose' = loose \cup {c \in uploading[w].built : ~CasStat(c)}
  /\ uploading' = [uploading EXCEPT ![w].built = {}]
  /\ UNCHANGED <<looseDur, packs, packsDur, bad, format, roots, rootsDur, live, up,
                 locator, pub, command, budget>>

\* Flush of a remainder too small for a pack: it goes to loose files, which
\* the batch publishes durably before they can be seen (LooseCAS).
FlushLoose(w) ==
  /\ pub[w] = NoPub /\ uploading[w].left = {} /\ uploading[w].built # {}
  /\ LET new == {c \in uploading[w].built : ~CasStat(c)} IN
       /\ loose' = loose \cup new
       /\ looseDur' = looseDur \cup new
       /\ bad' = bad \ ({LooseFile} \X new)
  /\ uploading' = [uploading EXCEPT ![w].built = {}]
  /\ UNCHANGED <<packs, packsDur, format, roots, rootsDur, live, up, locator, pub,
                 command, budget>>

PacksCommit(w) ==
  /\ uploading[w].obj # {} /\ uploading[w].left = {} /\ uploading[w].built = {} /\ pub[w] = NoPub
  /\ live' = live \cup {uploading[w].obj}
  /\ uploading' = [uploading EXCEPT ![w] = NoUpload]
  /\ UNCHANGED <<disk, up, locator, pub, command, budget>>

PacksDeleteObject ==
  /\ up = "serve"
  /\ \E o \in live : live' = live \ {o}
  /\ UNCHANGED <<disk, up, locator, uploading, pub, command, budget>>

\* Any step of an upload returns an error; its staged file is removed.
RequestFails(w) ==
  /\ "error" \in budget.failures /\ uploading[w] # NoUpload
  /\ pub[w].step \in {"formatting", "renamed"} => "unsyncedExit" \in budget.failures
  /\ uploading' = [uploading EXCEPT ![w] = NoUpload]
  /\ pub' = [pub EXCEPT ![w] = NoPub]
  /\ UNCHANGED <<disk, live, up, locator, command, budget>>
-----------------------------------------------------------------------------
(* Offline commands.  Each takes the exclusive lock, opens the store and   *)
(* marks what live roots name; nothing else runs until it ends.            *)

Open(t) ==
  /\ up = "down" /\ StoreOpens /\ budget.commands > 0
  /\ up' = "tool" /\ budget' = [budget EXCEPT !.commands = @ - 1]
  /\ locator' = Loadable
  /\ format' = [format EXCEPT !.mem = format.disk]
  /\ command' = t
  /\ UNCHANGED <<loose, looseDur, packs, packsDur, bad, roots, rootsDur, live, uploading,
                 pub>>

At(step) == up = "tool" /\ command.step = step /\ pub[Tool] = NoPub /\ command.queue = {}
ToolDoes(t) == command' = t /\ UNCHANGED <<live, up, uploading, budget>>
Held(c, packset) == \E p \in packset : c \in p.recs

\* compact -tier t: loose chunks that a pack also holds, and the others.
Compact ==
  /\ "compact" \in OfflineCommands
  /\ \E t \in Tiers :
       Open([NoCommand EXCEPT !.op = "compact", !.step = "loose", !.dest = [c \in Chunks |-> t],
                          !.todo = {c \in LiveChunks \cap loose : Held(c, Loadable)},
                          !.cands = {c \in LiveChunks \cap loose : ~Held(c, Loadable)}])

\* gcCollect -apply
Gc ==
  /\ "gc" \in OfflineCommands
  /\ Open([NoCommand EXCEPT !.op = "gc", !.step = "garbage", !.todo = loose \ LiveChunks])

\* packUsages: a chunk is live in its primary pack only.
LiveIn(p, primary) == {c \in p.recs \cap LiveChunks : primary[c] = p}
PrimaryMaps(packset) ==
  {f \in [{c \in LiveChunks : Held(c, packset)} -> packset] :
     \A c \in DOMAIN f : f[c] \in Primaries(c, packset)}

\* selectRepackPacks; the threshold and -tier pick any part of these.
Repack ==
  /\ "repack" \in OfflineCommands
  /\ \E f \in PrimaryMaps(Loadable) :
     \E sel \in SUBSET {p \in Loadable : LiveIn(p, f) # p.recs} :
       /\ sel # {}
       /\ Open([NoCommand EXCEPT !.op = "repack", !.step = "stage", !.doomed = sel])

\* tierMove of some packs of one tier, or of all.
TierMove ==
  /\ "move" \in OfflineCommands
  /\ \E from, to \in Tiers :
     \E sel \in SUBSET {p \in Loadable : p.tier = from} :
       /\ from # to /\ sel # {}
       /\ Open([NoCommand EXCEPT !.op = "move", !.step = "packs", !.left = sel,
                             !.dest = [c \in Chunks |-> to]])

\* tierTargets: the hottest tier that a root of the chunk asks for.
Targets(want) ==
  [c \in Chunks |-> IF c \in LiveChunks
                    THEN CHOOSE t \in Tiers :
                           /\ \E o \in live : c \in o /\ want[o] = t
                           /\ \A o \in live : c \in o => t <= want[o]
                    ELSE Hot]

\* classifyPack and action for a pack of the locator.  first is the set of
\* the pack's chunks of which it holds the first copy in its tier.
Classify(p, packset, dest, first) ==
  LET alive     == p.recs \cap LiveChunks
      keep      == {c \in alive : dest[c] = p.tier /\ c \in first}
      other(c)  == \E q \in packset \ {p} : c \in q.recs /\ q.tier = dest[c]
      redundant == {c \in alive \ keep : other(c) \/ (dest[c] = Hot /\ c \in loose)}
      moved     == alive \ (keep \cup redundant)
  IN IF moved = {}
     THEN IF keep = {} /\ redundant # {} THEN "redundant" ELSE "compliant"
     ELSE IF moved = p.recs /\ \A c, d \in moved : dest[c] = dest[d]
     THEN "move" ELSE "rewrite"
Firsts(p, packset) ==
  {s \in SUBSET p.recs :
     \A c \in p.recs \ s : \E q \in packset \ {p} : q.tier = p.tier /\ c \in q.recs}

Rebalance ==
  /\ "rebalance" \in OfflineCommands
  /\ \E want \in [Objects -> Tiers] :
       LET dest == Targets(want)
           cold == {c \in LiveChunks \cap loose : dest[c] # Hot}
           atDest(c) == Held(c, {p \in Loadable : p.tier = dest[c]})
       IN Open([NoCommand EXCEPT !.op = "rebalance", !.step = "loose", !.dest = dest,
                             !.todo = {c \in cold : atDest(c)},
                             !.cands = {c \in cold : ~atDest(c)},
                             !.left = {p \in Loadable :
                                         \E s \in Firsts(p, Loadable) :
                                           Classify(p, Loadable, dest, s) # "compliant"}])
-----------------------------------------------------------------------------
(* Loose chunks, in compact and rebalance.                                 *)

\* Mutant: the locator's word is taken for the packed copy.
PackedCopyListed(c) == Held(c, locator)

\* A loose copy goes when the packed one reads back, verified.  Otherwise
\* compact keeps it, and rebalance packs it again.
PackedCopyReads(c) ==
  IF command.op = "compact"
  THEN \E p \in Primaries(c, locator) : GoodIn(p, c)
  ELSE CopyAtTier(c, command.dest[c], {})
PackedCopyFails(c) ==
  IF command.op = "compact"
  THEN \E p \in Primaries(c, locator) : ~GoodIn(p, c)
  ELSE ~CopyAtTier(c, command.dest[c], {})

DropRedundantLoose ==
  /\ At("loose")
  /\ \E c \in command.todo :
       /\ PackedCopyReads(c)
       /\ loose' = loose \ {c}
       /\ ToolDoes([command EXCEPT !.todo = @ \ {c}])
  /\ UNCHANGED <<looseDur, packs, packsDur, bad, format, roots, rootsDur, locator, pub>>

KeepLoose ==
  /\ At("loose")
  /\ \E c \in command.todo :
       /\ PackedCopyFails(c)
       /\ ToolDoes([command EXCEPT !.todo = @ \ {c},
                                !.cands = IF command.op = "compact" THEN @ ELSE @ \cup {c}])
  /\ UNCHANGED <<disk, locator, pub>>

\* compactBatch, up to publishPack: chunks that do not verify are skipped.
StageLoose ==
  /\ At("loose") /\ command.todo = {}
  /\ \E batch \in SUBSET command.cands : \E d \in budget.deflate :
       LET good == {c \in batch : GoodLoose(c)}
           p == [tier |-> command.dest[CHOOSE c \in batch : TRUE], recs |-> good, deflated |-> d]
       IN /\ batch # {} /\ \A c \in batch : command.dest[c] = p.tier
          /\ IF good = {}
             THEN pub' = pub /\ ToolDoes([command EXCEPT !.cands = @ \ batch])
             ELSE /\ StartPublish(Tool, p)
                  /\ ToolDoes([command EXCEPT !.cands = @ \ batch, !.queue = {p},
                                           !.step = "unlink", !.todo = good])
  /\ UNCHANGED <<disk, locator>>

UnlinkLoose ==
  /\ At("unlink")
  /\ \E c \in command.todo :
       /\ loose' = loose \ {c}
       /\ ToolDoes([command EXCEPT !.todo = @ \ {c},
                                !.step = IF command.todo = {c} THEN "loose" ELSE @])
  /\ UNCHANGED <<looseDur, packs, packsDur, bad, format, roots, rootsDur, locator, pub>>

\* compact may leave a tail that is too small for a pack, rebalance does not.
LooseDone ==
  /\ At("loose") /\ command.todo = {}
  /\ command.op = "rebalance" => command.cands = {}
  /\ ToolDoes([command EXCEPT !.step = IF command.op = "rebalance" THEN "packs" ELSE "done",
                           !.cands = {}])
  /\ UNCHANGED <<disk, locator, pub>>
-----------------------------------------------------------------------------
(* replacePacksTo, for gc, repack and rebalance.                           *)

UnlinkGarbage ==
  /\ At("garbage")
  /\ \E c \in command.todo :
       /\ loose' = loose \ {c}
       /\ ToolDoes([command EXCEPT !.todo = @ \ {c}])
  /\ UNCHANGED <<looseDur, packs, packsDur, bad, format, roots, rootsDur, locator, pub>>

\* The packs with no live record.
DeadPacks ==
  /\ At("garbage") /\ command.todo = {}
  /\ \E f \in PrimaryMaps(locator) :
       LET dead == {p \in locator : LiveIn(p, f) = {}} IN
       ToolDoes([command EXCEPT !.doomed = dead, !.step = IF dead = {} THEN "done" ELSE "stage"])
  /\ UNCHANGED <<disk, locator, pub>>

\* A verified copy outside the doomed packs; rebalance wants it in its tier.
Outside(c, dest, skip) ==
  IF command.op = "rebalance" THEN CopyAtTier(c, dest[c], skip) ELSE CasReadExcluding(c, skip)

\* The live chunks with no copy outside the doomed packs are read and staged,
\* each for the tier it must end up in: its target or, without one, the
\* hottest tier it is carried from.  They fill one pack per tier or several.
StageReplacements ==
  /\ At("stage")
  /\ LET carriers(c) == {p \in command.doomed : c \in p.recs}
         required == {c \in LiveChunks : carriers(c) # {}}
         dest == [c \in Chunks |->
                    IF command.op = "rebalance" \/ c \notin required THEN command.dest[c]
                    ELSE CHOOSE t \in Tiers : /\ \E p \in carriers(c) : p.tier = t
                                              /\ \A p \in carriers(c) : t <= p.tier]
         need == {c \in required : ~Outside(c, dest, command.doomed)}
         inTier(t) == {c \in need : dest[c] = t}
     IN /\ \A c \in need : CasReadExcluding(c, {})
        /\ \E d \in budget.deflate :
           \E queue \in {{[tier |-> t, recs |-> inTier(t), deflated |-> d] :
                            t \in {u \in Tiers : inTier(u) # {}}},
                         {[tier |-> dest[c], recs |-> {c}, deflated |-> d] : c \in need}} :
             ToolDoes([command EXCEPT !.step = "publish", !.dest = dest, !.need = need,
                                   !.queue = queue])
  /\ UNCHANGED <<disk, locator, pub>>

PublishReplacement ==
  /\ up = "tool" /\ command.step = "publish" /\ pub[Tool] = NoPub
  /\ \E p \in command.queue : StartPublish(Tool, p)
  /\ UNCHANGED <<disk, live, up, locator, uploading, command, budget>>

\* Everything carried over must read back from outside before anything goes.
CheckReplacements ==
  /\ At("publish")
  /\ \A c \in command.need : Outside(c, command.dest, command.doomed)
  /\ ToolDoes([command EXCEPT !.step = "drop", !.need = {}])
  /\ UNCHANGED <<disk, locator, pub>>

DropPack ==
  /\ At("drop")
  /\ \E p \in command.doomed :
       /\ packs' = packs \ {p}
       /\ ToolDoes([command EXCEPT !.doomed = @ \ {p}, !.dirs = @ \cup {p.tier}])
  /\ UNCHANGED <<loose, looseDur, packsDur, bad, format, roots, rootsDur, locator, pub>>

\* The directories packs were removed from are fsynced, then reloadPacks.
PacksDropped ==
  /\ At("drop") /\ command.doomed = {}
  /\ SyncTiers(command.dirs)
  /\ locator' = Loadable
  /\ ToolDoes([command EXCEPT !.dirs = {}, !.step = IF command.op = "rebalance" THEN "packs" ELSE "done"])
  /\ UNCHANGED <<loose, looseDur, packs, bad, format, roots, rootsDur, pub>>
-----------------------------------------------------------------------------
(* movePack, and rebalance's pass over the packs.                          *)

InTier(p, t) == [p EXCEPT !.tier = t]
MoveTo(p) == InTier(p, command.dest[CHOOSE c \in p.recs : TRUE])
AllGood(p) == \A c \in p.recs : GoodIn(p, c)

\* planTierMove: a pack that is no longer in its tier has been moved.
WantsMove(p) ==
  \/ command.op = "move"
  \/ p \in locator /\ \E s \in Firsts(p, locator) :
                         Classify(p, locator, command.dest, s) = "move"

\* A copy already at the target is adopted if it verifies; otherwise the
\* source is copied there, which also needs it to verify.
MovePack ==
  /\ At("packs")
  /\ \E p \in command.left :
       /\ WantsMove(p)
       /\ IF MoveTo(p) \in packs
          THEN /\ AllGood(MoveTo(p))
               /\ locator' = locator \cup {MoveTo(p)} /\ pub' = pub
               /\ ToolDoes([command EXCEPT !.left = @ \ {p}, !.step = "moving", !.source = {p}])
          ELSE /\ AllGood(p)
               /\ StartPublish(Tool, MoveTo(p)) /\ UNCHANGED locator
               /\ ToolDoes([command EXCEPT !.left = @ \ {p}, !.step = "moving", !.source = {p},
                                        !.queue = {MoveTo(p)}])
  /\ UNCHANGED disk

\* The locator keeps listing the source until the command reloads it.
DeleteSource ==
  /\ At("moving")
  /\ packs' = packs \ command.source
  /\ ToolDoes([command EXCEPT !.step = "moved"])
  /\ UNCHANGED <<loose, looseDur, packsDur, bad, format, roots, rootsDur, locator, pub>>

SyncSource ==
  /\ At("moved")
  /\ SyncTiers({p.tier : p \in command.source})
  /\ ToolDoes([command EXCEPT !.step = "packs", !.source = {}])
  /\ UNCHANGED <<loose, looseDur, packs, bad, format, roots, rootsDur, locator, pub>>

\* Mutant: a pack with nothing left to carry is not replaced.
VisitPackKeepsRedundant ==
  /\ At("packs") /\ command.op = "rebalance"
  /\ \E p \in command.left : \E s \in Firsts(p, locator) :
       LET action == Classify(p, locator, command.dest, s) IN
       /\ p \in locator => action # "move"
       /\ ToolDoes([command EXCEPT !.left = @ \ {p},
                      !.doomed = IF p \in locator /\ action = "rewrite" THEN @ \cup {p} ELSE @])
  /\ UNCHANGED <<disk, locator, pub>>

\* Rebalance classifies a pack again when its turn comes: nothing to do, or
\* one more to replace.
VisitPack ==
  /\ At("packs") /\ command.op = "rebalance"
  /\ \E p \in command.left : \E s \in Firsts(p, locator) :
       LET action == Classify(p, locator, command.dest, s) IN
       /\ p \in locator => action # "move"
       /\ ToolDoes([command EXCEPT !.left = @ \ {p},
                      !.doomed = IF p \in locator /\ action \in {"rewrite", "redundant"}
                                 THEN @ \cup {p} ELSE @])
  /\ UNCHANGED <<disk, locator, pub>>

\* flush, when enough is pending or at the end; it reloads first.
FlushPending ==
  /\ At("packs") /\ command.doomed # {}
  /\ locator' = Loadable
  /\ ToolDoes([command EXCEPT !.step = "stage", !.doomed = @ \cap Loadable])
  /\ UNCHANGED <<disk, pub>>

PacksDone ==
  /\ At("packs") /\ command.left = {} /\ command.doomed = {}
  /\ locator' = Loadable
  /\ ToolDoes([command EXCEPT !.step = "done"])
  /\ UNCHANGED <<disk, pub>>
-----------------------------------------------------------------------------
(* Ends and failures.                                                      *)

Gone == /\ up' = "down" /\ locator' = {} /\ command' = NoCommand
        /\ uploading' = [w \in Requests |-> NoUpload]
        /\ pub' = [w \in PackWriters |-> NoPub]
        /\ UNCHANGED <<live, budget>>

Exit ==
  /\ \/ up = "serve" /\ \A w \in Requests : uploading[w] = NoUpload
     \/ At("done")
  /\ Gone /\ UNCHANGED disk

\* A kill; for a command also an error of any call, which ends it with
\* nothing undone but its staged files.
PacksKill ==
  /\ up # "down" /\ "kill" \in budget.failures
  /\ Settled \/ "unsyncedExit" \in budget.failures
  /\ Gone /\ UNCHANGED disk

\* Of what was not fsynced, additions and removals alike, any part survives.
PacksPowerFail ==
  /\ "power" \in budget.failures
  /\ \E s \in SUBSET (packsDur \ packs), k \in SUBSET (packs \ packsDur) :
       packs' = (packs \cap packsDur) \cup s \cup k /\ packsDur' = packs'
  /\ \E s \in SUBSET (looseDur \ loose) : loose' = loose \cup s /\ looseDur' = loose'
  /\ \E v \in {format.disk, format.dur} : format' = [mem |-> v, disk |-> v, dur |-> v]
  /\ \E s \in SUBSET (roots \ rootsDur) : roots' = rootsDur \cup s /\ rootsDur' = roots'
  /\ bad' = bad
  /\ Gone

\* Between commands a copy of a live chunk goes bad, never the last good one.
Rot ==
  /\ up = "down" /\ budget.rots > 0
  /\ \E c \in LiveChunks :
     \E p \in Loadable \cup {LooseFile} :
       /\ IF p = LooseFile THEN GoodLoose(c) ELSE GoodIn(p, c)
       /\ \/ p # LooseFile /\ GoodLoose(c)
          \/ \E q \in Loadable \ {p} : GoodIn(q, c)
       /\ bad' = bad \cup {<<p, c>>}
  /\ budget' = [budget EXCEPT !.rots = @ - 1]
  /\ UNCHANGED <<loose, looseDur, packs, packsDur, format, roots, rootsDur, live, up,
                 locator, uploading, pub, command>>

PacksNext ==
  \/ PacksServe \/ PacksDeleteObject \/ Compact \/ Gc \/ Repack \/ TierMove \/ Rebalance
  \/ \E w \in Requests : \/ PacksPutObject(w) \/ Put(w) \/ PublishBuilt(w)
                         \/ FlushLoose(w) \/ PacksCommit(w) \/ RequestFails(w)
  \/ \E w \in PackWriters : PublishPack(w)
  \/ DropRedundantLoose \/ KeepLoose \/ StageLoose \/ UnlinkLoose \/ LooseDone
  \/ UnlinkGarbage \/ DeadPacks \/ StageReplacements \/ PublishReplacement
  \/ CheckReplacements \/ DropPack \/ PacksDropped
  \/ MovePack \/ DeleteSource \/ SyncSource \/ VisitPack \/ FlushPending \/ PacksDone
  \/ Exit \/ PacksKill \/ PacksPowerFail \/ Rot

PacksSpec == PacksInit /\ [][PacksNext]_packVars
-----------------------------------------------------------------------------
(* Properties.                                                             *)

PacksTypeOK ==
  /\ loose \subseteq looseDur /\ looseDur \subseteq Chunks
  /\ packs \cup packsDur \cup locator \subseteq Packs
  /\ bad \subseteq (Packs \cup {LooseFile}) \X Chunks
  /\ {format.mem, format.disk, format.dur} \subseteq {Plain, Packed, Compressed, Tiered}
  /\ rootsDur \subseteq roots /\ roots \subseteq ColdTiers
  /\ live \subseteq Objects /\ up \in {"down", "serve", "tool"}
  /\ command.op \in OfflineCommands \cup {"none"} /\ command.dest \in [Chunks -> Tiers]
  /\ command.todo \cup command.cands \cup command.need \subseteq Chunks
  /\ command.left \cup command.queue \cup command.doomed \cup command.source \subseteq Packs

\* While storage damages nothing, every chunk of an acknowledged object can
\* be read at every moment: by the process that is up through its locator,
\* and by one that opens the store now, a power failure having happened or
\* not.
LiveReadable ==
  bad = {} => \A c \in LiveChunks : /\ Readable(c)
                                    /\ up # "down" => CasReadExcluding(c, {})

\* With damaged copies about: no step of an upload, a command, a crash or a
\* power failure loses a live chunk that could be read.
NothingLost ==
  [][\A c \in LiveChunks : Readable(c) /\ c \in LiveChunks' => Readable(c)']_packVars

\* A pack that an older build would overlook or misread can only be seen in
\* a store whose FORMAT.json says so, also after a power failure that undid
\* one change of the directories and not another.
FormatCoversPacks ==
  \A p \in packs : Need(p) <= format.disk

\* A store of format 5 has its tier roots, so OpenStore never refuses it.
AlwaysOpens == up = "down" => StoreOpens

\* A gc that ran to its end leaves no unreferenced loose chunk and no pack
\* without a live record, whatever interrupted commands left before it; a
\* rebalance that did leaves every live chunk in the tier that policy asks
\* for and nothing to do for another run.
MaintenanceConverges == command.step = "done" /\ bad = {} =>
  /\ command.op = "gc" =>
       /\ loose \subseteq LiveChunks
       /\ \E f \in PrimaryMaps(locator) : \A p \in locator : LiveIn(p, f) # {}
  /\ command.op = "rebalance" =>
       /\ \A c \in LiveChunks : CopyAtTier(c, command.dest[c], {})
       /\ \A p \in locator : \E s \in Firsts(p, locator) :
            Classify(p, locator, command.dest, s) = "compliant"
=============================================================================
