----------------------------- MODULE PacksProofs -----------------------------
(***************************************************************************)
(* Proofs about Packs, for every set of chunks, objects, requests and      *)
(* tiers and any number of uploads and commands: FORMAT.json and the tier  *)
(* roots are never behind the packs, no upload, offline command, crash or  *)
(* power failure takes the last copy of a live chunk, and a gc or a        *)
(* rebalance that ran to its end has done all of its work.                 *)
(***************************************************************************)
EXTENDS Packs, WellFoundedInduction, TLAPS

Formats == {Plain, Packed, Compressed, Tiered}
PubSteps == {"staged", "rooting", "formatting", "formatted", "renamed", "synced"}
ToolSteps == {"none", "loose", "unlink", "garbage", "stage", "publish", "drop", "packs",
              "moving", "moved", "done"}
Reqs == [obj : SUBSET Chunks, left : SUBSET Chunks, built : SUBSET Chunks]
Pubs == {NoPub} \cup [step : PubSteps, pack : Packs]
Tools == [op : OfflineCommands \cup {"none"}, step : ToolSteps, dest : [Chunks -> Tiers],
          todo : SUBSET Chunks, cands : SUBSET Chunks, left : SUBSET Packs,
          queue : SUBSET Packs, doomed : SUBSET Packs, need : SUBSET Chunks,
          source : SUBSET Packs, dirs : SUBSET Tiers]
Allowances == [atOnce : Nat, uploads : Nat, commands : Nat, rots : Nat,
               deflate : SUBSET BOOLEAN, failures : SUBSET PackFailureKinds]
-----------------------------------------------------------------------------
(* The invariant.  fl are the kinds of failure of the behaviour.           *)

DiskTypes(lo, lod, pk, pkd, bd, fm, ro, rod) ==
  /\ lo \subseteq lod /\ lod \subseteq Chunks /\ pk \subseteq Packs /\ pkd \subseteq Packs
  /\ bd \subseteq (Packs \cup {LooseFile}) \X Chunks
  /\ fm \in [mem : Formats, disk : Formats, dur : Formats]
  /\ rod \subseteq ro /\ ro \subseteq ColdTiers

StateTypes(lv, u, loc, rq, pb, tl, b) ==
  /\ lv \subseteq Objects /\ u \in {"down", "serve", "tool"} /\ loc \subseteq Packs
  /\ rq \in [Requests -> Reqs] /\ pb \in [PackWriters -> Pubs] /\ tl \in Tools /\ b \in Allowances

\* Who may be at work: uploads while a server is up, a command otherwise.
WhoInv(u, rq, pb, tl) ==
  /\ \A r \in Requests : /\ rq[r] # NoUpload => u = "serve" /\ rq[r].obj # {} /\ rq[r].obj \in Objects
                         /\ pb[r].step # "none" => rq[r] # NoUpload /\ pb[r].pack.tier = Hot
                         /\ pb[r].step # "rooting"
  /\ u # "tool" => tl = NoCommand /\ pb[Tool].step = "none"

\* Packs that a power failure, should there be one, cannot undo.
Safe(pk, pkd, fl) == {p \in pk : "power" \in fl => p \in pkd}

\* A pack is visible once renamed, and synced before the locator lists it.
PubInv(pb, pk, pkd, fl) ==
  /\ \A w \in PackWriters : pb[w].step \in {"renamed", "synced"} => pb[w].pack \in pk
  /\ \A w \in PackWriters : pb[w].step = "synced" => pb[w].pack \in Safe(pk, pkd, fl)
  /\ \A p \in pk : p \in Safe(pk, pkd, fl) \/ \E w \in PackWriters : pb[w].step = "renamed" /\ pb[w].pack = p

\* ps are the packs that are there, or may be again after a power failure.
FmtInv(fm, pb, ps, u, fl) ==
  /\ \A p \in ps : /\ Need(p) <= fm.disk
                   /\ u # "down" => Need(p) <= fm.mem
                   /\ "power" \in fl => Need(p) <= fm.dur
  /\ \A w \in PackWriters : pb[w].step = "formatting" => fm.disk = Need(pb[w].pack) /\ fm.mem < fm.disk
  /\ \A v, w \in PackWriters : pb[v].step = "formatting" /\ pb[w].step = "formatting" => v = w
  /\ \A w \in PackWriters : pb[w].step \in {"formatted", "renamed", "synced"} => Need(pb[w].pack) <= fm.mem
  /\ u # "down" => fm.mem <= fm.disk
  /\ "power" \in fl =>
       /\ u # "down" => fm.mem <= fm.dur
       /\ (\A w \in PackWriters : pb[w].step # "formatting") => fm.disk = fm.dur

RootInv(fm, ro, rod, pbT, fl) ==
  /\ fm.disk >= Tiered => ColdTiers \subseteq ro
  /\ "power" \in fl =>
       /\ fm.disk >= Tiered \/ fm.dur >= Tiered => ColdTiers \subseteq rod
       /\ pbT.step # "rooting" => ro = rod

\* The packs that hold a copy for the process that is up, or for the next one.
Copies(pk, pkd, loc, u, fl) == {p \in Safe(pk, pkd, fl) : u # "down" => p \in loc}
HasCopy(c, lo, ps) == c \in lo \/ Held(c, ps)

\* A server's locator is right, and a chunk of an upload is on its way or there.
ServeInv(u, loc, ps, rq, pb, lo) == u = "serve" =>
  /\ loc \subseteq ps
  /\ \A r \in Requests : \A c \in rq[r].obj :
       \/ c \in rq[r].left \/ c \in rq[r].built
       \/ pb[r].step # "none" /\ c \in pb[r].pack.recs
       \/ HasCopy(c, lo, loc)

\* What a command is about to remove has a copy elsewhere.  L are the live
\* chunks, ps the packs that hold copies.
InHand(pbT, c) == pbT.step # "none" /\ c \in pbT.pack.recs
ToolInv(tl, pbT, lo, ps, L) ==
  /\ tl.op = "move" =>
       /\ tl.step \in {"packs", "moving", "moved", "done"} /\ tl.doomed = {}
       /\ \A p \in tl.left : \A c \in Chunks : tl.dest[c] # p.tier
  /\ tl.step \in {"loose", "unlink"} => tl.op \in {"compact", "rebalance"}
  /\ tl.op = "rebalance" /\ tl.step = "loose" => \A c \in tl.todo : tl.dest[c] # Hot
  /\ tl.step = "unlink" => \A c \in tl.todo : Held(c, ps) \/ InHand(pbT, c)
  /\ tl.step = "garbage" => tl.todo \cap L = {}
  /\ tl.step = "publish" => \A c \in L \ tl.need : HasCopy(c, lo, ps \ tl.doomed)
  /\ tl.step = "drop" => \A c \in L : HasCopy(c, lo, ps \ tl.doomed)
  /\ tl.step = "moving" => /\ \A c \in L : HasCopy(c, lo, ps \ tl.source) \/ InHand(pbT, c)
                           /\ pbT.step # "none" => pbT.pack \notin tl.source

KeepInv(lv, lo, ps) == \A c \in UNION lv : HasCopy(c, lo, ps)

Kept == Copies(packs, packsDur, locator, up, budget.failures)

IInv ==
  /\ DiskTypes(loose, looseDur, packs, packsDur, bad, format, roots, rootsDur)
  /\ StateTypes(live, up, locator, uploading, pub, command, budget)
  /\ WhoInv(up, uploading, pub, command) /\ PubInv(pub, packs, packsDur, budget.failures)
  /\ FmtInv(format, pub, packs \cup packsDur, up, budget.failures)
  /\ RootInv(format, roots, rootsDur, pub[Tool], budget.failures)
  /\ ServeInv(up, locator, Safe(packs, packsDur, budget.failures), uploading, pub, loose)
  /\ ToolInv(command, pub[Tool], loose, Kept, LiveChunks)
  /\ KeepInv(live, loose, Kept)
  /\ ~({"power", "unsyncedExit"} \subseteq budget.failures)
-----------------------------------------------------------------------------
(* The invariant behind NothingLost, about copies that are not damaged.    *)

GoodCopy(c, lo, ps, bd) ==
  \/ c \in lo /\ <<LooseFile, c>> \notin bd
  \/ \E p \in ps : c \in p.recs /\ <<p, c>> \notin bd

\* A live chunk is not readable from a pack alone that a power failure undoes.
GoodIsSafe(L, lo, pk, ps, bd) ==
  \A c \in L : GoodCopy(c, lo, pk, bd) => GoodCopy(c, lo, ps, bd)

\* A pack that was synced is whole.  A chunk that an upload writes was not
\* stored when it was put, so that a copy by now is one written since.
PubGood(pb, bd) == \A w \in PackWriters : pb[w].step = "synced" => \A c \in Chunks : <<pb[w].pack, c>> \notin bd
ReqGood(rq, pb, lo, loc, bd) == \A r \in Requests : \A c \in Chunks :
  (c \in rq[r].built \/ InHand(pb[r], c)) /\ HasCopy(c, lo, loc) => GoodCopy(c, lo, loc, bd)

\* What a command writes is good elsewhere, and so is what it will remove.
ToolGood(tl, pbT, lo, pk, ps, bd, L) ==
  /\ \A c \in Chunks : InHand(pbT, c) => GoodCopy(c, lo, ps, bd)
  /\ \A p \in tl.queue : \A c \in p.recs : GoodCopy(c, lo, ps, bd)
  /\ tl.step = "unlink" => \A c \in tl.todo : GoodCopy(c, {}, pk, bd) \/ InHand(pbT, c)
  /\ tl.step = "publish" => \A c \in L \ tl.need : Held(c, tl.doomed) => GoodCopy(c, lo, pk \ tl.doomed, bd)
  /\ tl.step = "drop" => \A c \in L : Held(c, tl.doomed) => GoodCopy(c, lo, pk \ tl.doomed, bd)
  /\ tl.step = "moving" => \A c \in Chunks : Held(c, tl.source) =>
       GoodCopy(c, lo, pk \ tl.source, bd) \/ InHand(pbT, c)

GInv ==
  /\ GoodIsSafe(LiveChunks, loose, packs, Safe(packs, packsDur, budget.failures), bad)
  /\ PubGood(pub, bad)
  /\ ReqGood(uploading, pub, loose, locator, bad)
  /\ ToolGood(command, pub[Tool], loose, packs, Safe(packs, packsDur, budget.failures), bad, LiveChunks)
-----------------------------------------------------------------------------
(* Copies.                                                                 *)

\* A chunk keeps its copy where loose files and packs are only added.
LEMMA MoreCopies ==
  ASSUME NEW c, NEW lo, NEW lo2, NEW ps, NEW ps2, HasCopy(c, lo, ps), lo \subseteq lo2, ps \subseteq ps2
  PROVE  HasCopy(c, lo2, ps2)
  BY DEF HasCopy, Held

\* While nothing is being published every pack is safe.
Quiet == \A w \in PackWriters : pub[w].step = "none"

\* While nobody publishes, a power failure can undo no pack.
LEMMA QuietSafe ==
  ASSUME IInv, Quiet
  PROVE  \A p \in packs : p \in Safe(packs, packsDur, budget.failures)
  BY DEF IInv, PubInv, Quiet

\* A command that publishes nothing is alone, so nobody publishes.
LEMMA ToolQuiet ==
  ASSUME IInv, up = "tool", pub[Tool].step = "none"
  PROVE  Quiet
<1>1. \A r \in Requests : pub[r].step = "none"  BY DEF IInv, WhoInv
<1> QED  BY <1>1 DEF Quiet, PackWriters

\* What a command keeps and what it may remove while it publishes nothing.
CommandStep ==
  /\ up = "tool" /\ pub[Tool].step = "none"
  /\ UNCHANGED <<looseDur, bad, format, roots, rootsDur, live, up, uploading, budget>>
  /\ loose' \subseteq loose /\ packs' \subseteq packs /\ packsDur' \subseteq packs \cup packsDur
  /\ locator' \subseteq Packs /\ command' \in Tools
  /\ pub' \in [PackWriters -> Pubs] /\ (\A r \in Requests : pub'[r] = pub[r])
  /\ pub'[Tool].step \in {"none", "staged"}
  /\ \A p \in packs' : p \in Safe(packs', packsDur', budget.failures)

\* A step of a command that writes no pack keeps the invariant if it keeps
\* what the command has planned and a copy of every live chunk.
LEMMA CommandStepKeeps ==
  ASSUME IInv, CommandStep, ToolInv(command', pub'[Tool], loose', Kept', UNION live),
         KeepInv(live, loose', Kept')
  PROVE  IInv'
<1>1. DiskTypes(loose', looseDur', packs', packsDur', bad', format', roots', rootsDur')
  BY DEF IInv, DiskTypes, CommandStep
<1>2. StateTypes(live', up', locator', uploading', pub', command', budget')
  BY DEF IInv, StateTypes, CommandStep
<1>3. Quiet  BY ToolQuiet DEF CommandStep
<1>4. \A w \in PackWriters : pub'[w].step \in {"none", "staged"}
  BY <1>3 DEF CommandStep, Quiet, PackWriters
<1>5. WhoInv(up', uploading', pub', command')
  BY DEF IInv, WhoInv, CommandStep
<1>6. PubInv(pub', packs', packsDur', budget'.failures)
  BY <1>4 DEF PubInv, CommandStep
<1>7. FmtInv(format', pub', (packs \cup packsDur)', up', budget'.failures)
  <2>1. FmtInv(format, pub, packs \cup packsDur, up, budget.failures)  BY DEF IInv
  <2>2. /\ format' = format /\ up' = up /\ budget' = budget
        /\ packs' \cup packsDur' \subseteq packs \cup packsDur
    BY DEF CommandStep
  <2>3. \A w \in PackWriters : pub[w].step # "formatting"  BY <1>3 DEF Quiet
  <2> QED  BY <2>1, <2>2, <2>3, <1>4 DEF FmtInv
<1>8. RootInv(format', roots', rootsDur', pub'[Tool], budget'.failures)
  <2>1. RootInv(format, roots, rootsDur, pub[Tool], budget.failures)  BY DEF IInv
  <2> QED  BY <2>1 DEF CommandStep, RootInv
<1>9. ServeInv(up', locator', Safe(packs', packsDur', budget'.failures), uploading', pub', loose')
  BY DEF ServeInv, CommandStep
<1> QED
  <2>1. live' = live /\ budget' = budget  BY DEF CommandStep
  <2>2. ~({"power", "unsyncedExit"} \subseteq budget.failures)  BY DEF IInv
  <2> QED  BY <2>1, <2>2, <1>1, <1>2, <1>5, <1>6, <1>7, <1>8, <1>9 DEF IInv, LiveChunks
-----------------------------------------------------------------------------
(* Steps of a command that write no pack.                                  *)

\* What holds when a command is between two publishPack calls.
LEMMA AtFacts ==
  ASSUME IInv, NEW st, At(st)
  PROVE  /\ up = "tool" /\ pub[Tool].step = "none" /\ command.step = st /\ command.queue = {}
         /\ command \in Tools /\ pub \in [PackWriters -> Pubs] /\ locator \subseteq Packs
         /\ ToolInv(command, pub[Tool], loose, Kept, UNION live) /\ KeepInv(live, loose, Kept)
         /\ Quiet
<1>1. up = "tool" /\ pub[Tool].step = "none" /\ command.step = st /\ command.queue = {}
  BY DEF At, NoPub
<1>2. Quiet  BY <1>1, ToolQuiet
<1> QED  BY <1>1, <1>2 DEF IInv, StateTypes, LiveChunks

\* Between them the packs that hold copies are those it lists.
LEMMA KeptIs ==
  ASSUME IInv, up = "tool", Quiet
  PROVE  Kept = packs \cap locator
<1>1. Safe(packs, packsDur, budget.failures) = packs  BY QuietSafe DEF Safe
<1> QED  BY <1>1 DEF Kept, Copies

\* A step that only plans keeps the invariant if the plan does.
LEMMA PlanStep ==
  ASSUME IInv, NEW st, At(st), UNCHANGED <<disk, locator, pub, live, up, uploading, budget>>,
         command' \in Tools, ToolInv(command', pub[Tool], loose, Kept, UNION live)
  PROVE  IInv'
<1>1. CommandStep
  BY AtFacts, QuietSafe DEF CommandStep, disk
<1>2. Kept' = Kept /\ loose' = loose /\ pub' = pub  BY DEF Kept, disk
<1>3. KeepInv(live, loose, Kept)  BY DEF IInv
<1> QED  BY <1>1, <1>2, <1>3, CommandStepKeeps

\* KeepLoose keeps the invariant.
LEMMA KeepLooseStep == ASSUME IInv, KeepLoose PROVE IInv'
<1>1. PICK c \in command.todo :
        command' = [command EXCEPT !.todo = @ \ {c}, !.cands = IF command.op = "compact" THEN @ ELSE @ \cup {c}]
  BY DEF KeepLoose, ToolDoes
<1>2. At("loose") /\ UNCHANGED <<disk, locator, pub, live, up, uploading, budget>>
  BY DEF KeepLoose, ToolDoes
<1>3. command \in Tools /\ ToolInv(command, pub[Tool], loose, Kept, UNION live)  BY <1>2, AtFacts
<1>4. command' \in Tools  BY <1>1, <1>3 DEF Tools
<1>5. /\ command'.op = command.op /\ command'.step = command.step /\ command'.dest = command.dest
      /\ command'.left = command.left /\ command'.doomed = command.doomed /\ command'.todo \subseteq command.todo
      /\ command'.need = command.need /\ command'.source = command.source
  BY <1>1, <1>3 DEF Tools
<1>6. ToolInv(command', pub[Tool], loose, Kept, UNION live)
  BY <1>3, <1>5 DEF ToolInv
<1> QED  BY <1>2, <1>4, <1>6, PlanStep

\* LooseDone keeps the invariant.
LEMMA LooseDoneStep == ASSUME IInv, LooseDone PROVE IInv'
<1> DEFINE to == IF command.op = "rebalance" THEN "packs" ELSE "done"
<1>1. /\ At("loose") /\ UNCHANGED <<disk, locator, pub, live, up, uploading, budget>>
      /\ command' = [command EXCEPT !.step = to, !.cands = {}]
  BY DEF LooseDone, ToolDoes
<1>2. command \in Tools /\ ToolInv(command, pub[Tool], loose, Kept, UNION live) /\ command.step = "loose"
  BY <1>1, AtFacts
<1>3. command' \in Tools /\ command'.op = command.op /\ command'.step = to /\ command.op # "move"
  BY <1>1, <1>2 DEF Tools, ToolSteps, ToolInv
<1>4. ToolInv(command', pub[Tool], loose, Kept, UNION live)  BY <1>3 DEF ToolInv
<1> QED  BY <1>1, <1>3, <1>4, PlanStep

\* DeadPacks of gc keeps the invariant.
LEMMA DeadPacksStep == ASSUME IInv, DeadPacks PROVE IInv'
<1>1. PICK f \in PrimaryMaps(locator) :
        LET dead == {p \in locator : LiveIn(p, f) = {}} IN
        command' = [command EXCEPT !.doomed = dead, !.step = IF dead = {} THEN "done" ELSE "stage"]
  BY DEF DeadPacks, ToolDoes
<1> DEFINE dead == {p \in locator : LiveIn(p, f) = {}}
           to == IF dead = {} THEN "done" ELSE "stage"
<1>2. /\ At("garbage") /\ UNCHANGED <<disk, locator, pub, live, up, uploading, budget>>
  BY DEF DeadPacks, ToolDoes
<1>3. /\ command \in Tools /\ ToolInv(command, pub[Tool], loose, Kept, UNION live)
      /\ command.step = "garbage" /\ locator \subseteq Packs
  BY <1>2, AtFacts
<1>4. dead \in SUBSET Packs  BY <1>3
<1>5. command' = [command EXCEPT !.doomed = dead, !.step = to]  BY <1>1
<1> HIDE DEF dead
<1>6. command' \in Tools /\ command'.op = command.op /\ command'.step = to /\ command.op # "move"
  BY <1>3, <1>4, <1>5 DEF Tools, ToolSteps, ToolInv
<1>7. ToolInv(command', pub[Tool], loose, Kept, UNION live)  BY <1>6 DEF ToolInv
<1> QED  BY <1>2, <1>6, <1>7, PlanStep

\* VisitPack of rebalance keeps the invariant.
LEMMA VisitPackStep == ASSUME IInv, VisitPack PROVE IInv'
<1>1. /\ At("packs") /\ command.op = "rebalance"
      /\ UNCHANGED <<disk, locator, pub, live, up, uploading, budget>>
  BY DEF VisitPack, ToolDoes
<1>2. command \in Tools /\ command.step = "packs"  BY <1>1, AtFacts
<1>3. PICK p \in command.left, D \in SUBSET Packs : command' = [command EXCEPT !.left = @ \ {p}, !.doomed = D]
  <2>1. PICK p \in command.left : \E s \in Firsts(p, locator) :
          LET action == Classify(p, locator, command.dest, s) IN
          ToolDoes([command EXCEPT !.left = @ \ {p},
                      !.doomed = IF p \in locator /\ action \in {"rewrite", "redundant"}
                                 THEN @ \cup {p} ELSE @])
    BY DEF VisitPack
  <2>2. \/ command' = [command EXCEPT !.left = @ \ {p}, !.doomed = command.doomed \cup {p}]
        \/ command' = [command EXCEPT !.left = @ \ {p}, !.doomed = command.doomed]
    BY <2>1 DEF ToolDoes
  <2>3. command.doomed \in SUBSET Packs /\ command.doomed \cup {p} \in SUBSET Packs  BY <1>2 DEF Tools
  <2> QED  BY <2>2, <2>3
<1>4. command' \in Tools /\ command'.op = command.op /\ command'.step = "packs"
  BY <1>2, <1>3 DEF Tools
<1>5. ToolInv(command', pub[Tool], loose, Kept, UNION live)  BY <1>1, <1>4 DEF ToolInv
<1> QED  BY <1>1, <1>4, <1>5, PlanStep

\* Outside says where another copy is.
LEMMA OutsideCopy ==
  ASSUME IInv, up = "tool", Quiet, NEW c, NEW dest, NEW skip, Outside(c, dest, skip)
  PROVE  HasCopy(c, loose, Kept \ skip)
<1>1. \/ c \in loose
      \/ \E p \in locator \ skip : p \in packs /\ c \in p.recs
  BY DEF Outside, CopyAtTier, CasReadExcluding, GoodLoose, GoodIn
<1> QED  BY <1>1, KeptIs DEF HasCopy, Held

\* CheckReplacements: what was carried over reads back, so all that is live
\* is outside the doomed packs.
LEMMA CheckReplacementsStep == ASSUME IInv, CheckReplacements PROVE IInv'
<1>1. /\ At("publish") /\ UNCHANGED <<disk, locator, pub, live, up, uploading, budget>>
      /\ command' = [command EXCEPT !.step = "drop", !.need = {}]
      /\ \A c \in command.need : Outside(c, command.dest, command.doomed)
  BY DEF CheckReplacements, ToolDoes
<1>2. /\ command \in Tools /\ ToolInv(command, pub[Tool], loose, Kept, UNION live) /\ Quiet
      /\ command.step = "publish" /\ up = "tool"
  BY <1>1, AtFacts
<1>3. /\ command' \in Tools /\ command'.op = command.op /\ command'.step = "drop" /\ command.op # "move"
      /\ command'.doomed = command.doomed
  BY <1>1, <1>2 DEF Tools, ToolSteps, ToolInv
<1>4. ASSUME NEW c \in UNION live PROVE HasCopy(c, loose, Kept \ command.doomed)
  <2>1. CASE c \in command.need  BY <2>1, <1>1, <1>2, OutsideCopy
  <2>2. CASE c \notin command.need  BY <2>2, <1>2 DEF ToolInv
  <2> QED  BY <2>1, <2>2
<1>5. ToolInv(command', pub[Tool], loose, Kept, UNION live)  BY <1>3, <1>4 DEF ToolInv
<1> QED  BY <1>1, <1>3, <1>5, PlanStep
-----------------------------------------------------------------------------
(* Staging the replacements of doomed packs.                               *)

\* A set of tiers has a hottest one.
LEMMA HottestTier ==
  ASSUME NEW S \in SUBSET Tiers, S # {}
  PROVE  \E t \in S : \A u \in S : t <= u
<1>1. Tiers \subseteq Nat  BY PacksAssumption DEF Tiers
<1>2. PICK x \in S : \A y \in S : <<y, x>> \notin OpToRel(<, Nat)
  BY <1>1, WFMin, NatLessThanWellFounded
<1>3. \A y \in S : ~(y < x)  BY <1>1, <1>2 DEF OpToRel
<1> QED  BY <1>1, <1>3

\* StageReplacements: a live chunk that is not carried over has a copy
\* outside the doomed packs.
LEMMA StageReplacementsStep == ASSUME IInv, StageReplacements PROVE IInv'
<1> DEFINE carriers(c) == {p \in command.doomed : c \in p.recs}
           required == {c \in LiveChunks : carriers(c) # {}}
           dest == [c \in Chunks |->
                    IF command.op = "rebalance" \/ c \notin required THEN command.dest[c]
                    ELSE CHOOSE t \in Tiers : /\ \E p \in carriers(c) : p.tier = t
                                              /\ \A p \in carriers(c) : t <= p.tier]
           need == {c \in required : ~Outside(c, dest, command.doomed)}
           inTier(t) == {c \in need : dest[c] = t}
           whole(d) == {[tier |-> t, recs |-> inTier(t), deflated |-> d] :
                            t \in {u \in Tiers : inTier(u) # {}}}
           single(d) == {[tier |-> dest[c], recs |-> {c}, deflated |-> d] : c \in need}
<1>1. /\ At("stage") /\ UNCHANGED <<disk, locator, pub, live, up, uploading, budget>>
      /\ \E d \in budget.deflate : \E queue \in {whole(d), single(d)} :
           command' = [command EXCEPT !.step = "publish", !.dest = dest, !.need = need, !.queue = queue]
  BY DEF StageReplacements, ToolDoes
<1>2. /\ command \in Tools /\ ToolInv(command, pub[Tool], loose, Kept, UNION live)
      /\ command.step = "stage" /\ KeepInv(live, loose, Kept) /\ Quiet /\ up = "tool"
  BY <1>1, AtFacts
<1>3. LiveChunks \subseteq Chunks /\ budget.deflate \subseteq BOOLEAN
  BY PacksAssumption DEF IInv, StateTypes, LiveChunks, Allowances
<1>4. required \subseteq Chunks /\ need \subseteq required  BY <1>3
<1>5. dest \in [Chunks -> Tiers]
  <2>1. ASSUME NEW c \in Chunks, c \in required
        PROVE  (CHOOSE t \in Tiers : /\ \E p \in carriers(c) : p.tier = t
                                     /\ \A p \in carriers(c) : t <= p.tier) \in Tiers
    <3> DEFINE S == {p.tier : p \in carriers(c)}
    <3>1. S \in SUBSET Tiers /\ S # {}  BY <2>1, <1>2 DEF Tools, Packs
    <3>2. PICK t \in S : \A u \in S : t <= u  BY <3>1, HottestTier
    <3>3. t \in Tiers /\ (\E p \in carriers(c) : p.tier = t) /\ \A p \in carriers(c) : t <= p.tier
      BY <3>1, <3>2
    <3> QED  BY <3>3
  <2>2. \A c \in Chunks : command.dest[c] \in Tiers  BY <1>2 DEF Tools
  <2> HIDE DEF carriers, required
  <2> QED  BY <2>1, <2>2
<1> HIDE DEF dest
<1>6. \A c \in (UNION live) \ need : HasCopy(c, loose, Kept \ command.doomed)
  <2> SUFFICES ASSUME NEW c \in UNION live, c \notin need PROVE HasCopy(c, loose, Kept \ command.doomed)
    OBVIOUS
  <2>1. CASE c \in required
    <3>1. Outside(c, dest, command.doomed)  BY <2>1
    <3> QED  BY <3>1, <1>2, OutsideCopy
  <2>2. CASE c \notin required
    <3>1. \A p \in command.doomed : c \notin p.recs  BY <2>2 DEF LiveChunks
    <3>2. HasCopy(c, loose, Kept)  BY <1>2 DEF KeepInv
    <3> QED  BY <3>1, <3>2 DEF HasCopy, Held
  <2> QED  BY <2>1, <2>2
<1>7. ASSUME NEW d \in BOOLEAN PROVE whole(d) \subseteq Packs /\ single(d) \subseteq Packs
  <2>1. \A t \in Tiers : inTier(t) \subseteq Chunks  BY <1>4
  <2>2. \A c \in need : dest[c] \in Tiers /\ c \in Chunks  BY <1>4, <1>5
  <2> HIDE DEF need
  <2> QED  BY <2>1, <2>2 DEF Packs
<1> HIDE DEF need, whole, single
<1>8. PICK queue \in SUBSET Packs :
        command' = [command EXCEPT !.step = "publish", !.dest = dest, !.need = need, !.queue = queue]
  BY <1>1, <1>3, <1>7
<1>9. need \in SUBSET Chunks  BY <1>4
<1>10. /\ command' \in Tools /\ command'.op = command.op /\ command'.step = "publish" /\ command'.need = need
       /\ command'.doomed = command.doomed /\ command.op # "move"
  BY <1>2, <1>5, <1>8, <1>9 DEF Tools, ToolSteps, ToolInv
<1>11. ToolInv(command', pub[Tool], loose, Kept, UNION live)  BY <1>6, <1>10 DEF ToolInv
<1> QED  BY <1>1, <1>10, <1>11, PlanStep
-----------------------------------------------------------------------------
(* Steps of a command that remove loose chunks and packs.                  *)

\* The packs stay as they are and loose chunks go.
LEMMA UnlinkStep ==
  ASSUME IInv, NEW st, At(st), NEW c, loose' = loose \ {c}, command' \in Tools,
         UNCHANGED <<looseDur, packs, packsDur, bad, format, roots, rootsDur, locator, pub,
                     live, up, uploading, budget>>,
         ToolInv(command', pub[Tool], loose', Kept, UNION live), c \in UNION live => Held(c, Kept)
  PROVE  IInv'
<1>1. CommandStep
  BY AtFacts, QuietSafe DEF CommandStep
<1>2. Kept' = Kept /\ pub' = pub  BY DEF Kept
<1>3. KeepInv(live, loose', Kept)  BY DEF IInv, KeepInv, HasCopy
<1> QED  BY <1>1, <1>2, <1>3, CommandStepKeeps

\* compact and rebalance drop a loose chunk that a pack holds.
LEMMA DropRedundantLooseStep == ASSUME IInv, DropRedundantLoose PROVE IInv'
<1>1. PICK c \in command.todo : /\ PackedCopyReads(c) /\ loose' = loose \ {c}
                                /\ command' = [command EXCEPT !.todo = @ \ {c}]
  BY DEF DropRedundantLoose, ToolDoes
<1>2. /\ At("loose") /\ UNCHANGED <<looseDur, packs, packsDur, bad, format, roots, rootsDur,
                                     locator, pub, live, up, uploading, budget>>
  BY DEF DropRedundantLoose, ToolDoes
<1>3. /\ command \in Tools /\ command.step = "loose" /\ ToolInv(command, pub[Tool], loose, Kept, UNION live)
      /\ up = "tool" /\ Quiet
  BY <1>2, AtFacts
<1>4. Held(c, Kept)
  <2>1. \E p \in locator : GoodIn(p, c)
    <3>1. CASE command.op = "compact"  BY <3>1, <1>1 DEF PackedCopyReads, Primaries
    <3>2. CASE command.op = "rebalance"
      <4>1. command.dest[c] # Hot  BY <3>2, <1>3 DEF ToolInv
      <4> QED  BY <3>2, <4>1, <1>1 DEF PackedCopyReads, CopyAtTier
    <3> QED  BY <3>1, <3>2, <1>3 DEF ToolInv
  <2> QED  BY <2>1, <1>3, KeptIs DEF GoodIn, Held
<1>5. /\ command' \in Tools /\ command'.op = command.op /\ command'.step = "loose" /\ command'.dest = command.dest
      /\ command'.todo \subseteq command.todo /\ command.op # "move"
  BY <1>1, <1>3 DEF Tools, ToolInv
<1>6. ToolInv(command', pub[Tool], loose', Kept, UNION live)  BY <1>3, <1>5 DEF ToolInv
<1> QED  BY <1>1, <1>2, <1>4, <1>5, <1>6, UnlinkStep

\* UnlinkLoose drops loose chunks that the pack just published holds.
LEMMA UnlinkLooseStep == ASSUME IInv, UnlinkLoose PROVE IInv'
<1>1. PICK c \in command.todo : /\ loose' = loose \ {c}
                                /\ command' = [command EXCEPT !.todo = @ \ {c},
                                              !.step = IF command.todo = {c} THEN "loose" ELSE @]
  BY DEF UnlinkLoose, ToolDoes
<1>2. /\ At("unlink") /\ UNCHANGED <<looseDur, packs, packsDur, bad, format, roots, rootsDur,
                                      locator, pub, live, up, uploading, budget>>
  BY DEF UnlinkLoose, ToolDoes
<1>3. /\ command \in Tools /\ command.step = "unlink" /\ ToolInv(command, pub[Tool], loose, Kept, UNION live)
      /\ pub[Tool].step = "none"
  BY <1>2, AtFacts
<1>4. \A x \in command.todo : Held(x, Kept)  BY <1>3 DEF ToolInv, InHand
<1>5. /\ command' \in Tools /\ command'.op = command.op /\ command.op \in {"compact", "rebalance"}
      /\ command'.todo = command.todo \ {c}
      /\ command'.step = "unlink" \/ (command'.step = "loose" /\ command'.todo = {})
  BY <1>1, <1>3 DEF Tools, ToolSteps, ToolInv
<1>6. ToolInv(command', pub[Tool], loose', Kept, UNION live)  BY <1>4, <1>5 DEF ToolInv
<1> QED  BY <1>1, <1>2, <1>4, <1>5, <1>6, UnlinkStep

\* gc drops loose chunks that are not live.
LEMMA UnlinkGarbageStep == ASSUME IInv, UnlinkGarbage PROVE IInv'
<1>1. PICK c \in command.todo : loose' = loose \ {c} /\ command' = [command EXCEPT !.todo = @ \ {c}]
  BY DEF UnlinkGarbage, ToolDoes
<1>2. /\ At("garbage") /\ UNCHANGED <<looseDur, packs, packsDur, bad, format, roots, rootsDur,
                                       locator, pub, live, up, uploading, budget>>
  BY DEF UnlinkGarbage, ToolDoes
<1>3. command \in Tools /\ command.step = "garbage" /\ ToolInv(command, pub[Tool], loose, Kept, UNION live)
  BY <1>2, AtFacts
<1>4. c \notin UNION live /\ command.op # "move"  BY <1>3 DEF ToolInv
<1>5. /\ command' \in Tools /\ command'.op = command.op /\ command'.todo \subseteq command.todo
      /\ command'.step = "garbage"
  BY <1>1, <1>3 DEF Tools
<1>6. ToolInv(command', pub[Tool], loose', Kept, UNION live)  BY <1>3, <1>4, <1>5 DEF ToolInv
<1> QED  BY <1>1, <1>2, <1>4, <1>5, <1>6, UnlinkStep

\* Packs go, and directories are fsynced: every pack stays safe, and nothing
\* that is left is hidden from the command.
LEMMA DropStep ==
  ASSUME IInv, NEW st, At(st), packs' \subseteq packs, packsDur' \subseteq packs \cup packsDur,
         packs \cap packsDur \cap packs' \subseteq packsDur', locator \cap packs' \subseteq locator',
         locator' \subseteq Packs, command' \in Tools,
         UNCHANGED <<loose, looseDur, bad, format, roots, rootsDur, pub, live, up, uploading, budget>>,
         ToolInv(command', pub[Tool], loose, Kept', UNION live),
         \A c \in UNION live : HasCopy(c, loose, Kept \cap packs')
  PROVE  IInv'
<1>1. up = "tool" /\ Quiet /\ \A p \in packs : p \in Safe(packs, packsDur, budget.failures)
  BY AtFacts, QuietSafe
<1>2. \A p \in packs' : p \in Safe(packs', packsDur', budget.failures)
  BY <1>1 DEF Safe
<1>3. CommandStep
  BY <1>2, AtFacts DEF CommandStep
<1>4. Kept \cap packs' \subseteq Kept'
  BY <1>1, <1>2, KeptIs DEF Kept, Copies
<1>5. KeepInv(live, loose', Kept')  BY <1>4, MoreCopies DEF KeepInv
<1> QED  BY <1>3, <1>5, CommandStepKeeps

\* DropPack removes a doomed pack: all that is live is elsewhere.
LEMMA DropPackStep == ASSUME IInv, DropPack PROVE IInv'
<1>1. PICK p \in command.doomed : /\ packs' = packs \ {p}
                                  /\ command' = [command EXCEPT !.doomed = @ \ {p}, !.dirs = @ \cup {p.tier}]
  BY DEF DropPack, ToolDoes
<1>2. /\ At("drop") /\ UNCHANGED <<loose, looseDur, packsDur, bad, format, roots, rootsDur, locator,
                                    pub, live, up, uploading, budget>>
  BY DEF DropPack, ToolDoes
<1>3. /\ command \in Tools /\ command.step = "drop" /\ ToolInv(command, pub[Tool], loose, Kept, UNION live)
      /\ up = "tool" /\ Quiet /\ locator \subseteq Packs
  BY <1>2, AtFacts
<1>4. p.tier \in Tiers  BY <1>3 DEF Tools, Packs
<1>5. /\ command' \in Tools /\ command'.op = command.op /\ command'.step = "drop" /\ command.op # "move"
      /\ command'.doomed = command.doomed \ {p}
  <2>1. command.op # "move"  BY <1>3 DEF ToolInv
  <2> DEFINE ds == command.dirs \cup {p.tier}
  <2>2. ds \in SUBSET Tiers  BY <1>3, <1>4 DEF Tools
  <2>3. command' = [command EXCEPT !.doomed = @ \ {p}, !.dirs = ds]  BY <1>1
  <2> HIDE DEF ds
  <2> QED  BY <2>1, <2>2, <2>3, <1>3 DEF Tools
<1>6. Kept \ command.doomed \subseteq (Kept \cap packs') \ command'.doomed /\ Kept \cap packs' \subseteq Kept'
  <2>1. Kept = packs \cap locator  BY <1>3, KeptIs
  <2>2. \A x \in Kept : x \in packs' => x \in Kept'  BY <1>1, <1>2 DEF Kept, Copies, Safe
  <2> QED  BY <2>1, <2>2, <1>1, <1>5
<1>7. \A c \in UNION live : HasCopy(c, loose, Kept \ command.doomed)  BY <1>3 DEF ToolInv
<1>8. \A c \in UNION live : HasCopy(c, loose, Kept \cap packs') /\ HasCopy(c, loose, Kept' \ command'.doomed)
  <2>1. Kept \ command.doomed \subseteq Kept \cap packs' /\ Kept \ command.doomed \subseteq Kept' \ command'.doomed
    BY <1>6
  <2> QED  BY <2>1, <1>7, MoreCopies
<1>9. ToolInv(command', pub[Tool], loose, Kept', UNION live)  BY <1>5, <1>8 DEF ToolInv
<1>10. /\ packs' \subseteq packs /\ packsDur' \subseteq packs \cup packsDur
       /\ packs \cap packsDur \cap packs' \subseteq packsDur' /\ locator \cap packs' \subseteq locator'
       /\ locator' \subseteq Packs
  BY <1>1, <1>2, <1>3
<1> QED  BY <1>2, <1>5, <1>8, <1>9, <1>10, DropStep

\* SyncTiers forgets the packs that are gone and no other.
LEMMA SyncTiersFacts ==
  ASSUME NEW ts, SyncTiers(ts)
  PROVE  packsDur' \subseteq packs \cup packsDur /\ packs \cap packsDur \subseteq packsDur'
  BY DEF SyncTiers

\* All packs are loaded: the format of the store is never behind one.
LEMMA LoadableIs ==
  ASSUME IInv
  PROVE  Loadable = packs
<1>1. ASSUME NEW p \in packs PROVE p.tier = Hot \/ format.disk >= Tiered
  <2>1. Need(p) <= format.disk /\ format.disk \in Formats
    BY DEF IInv, FmtInv, DiskTypes
  <2> QED  BY <2>1 DEF Need, Formats, Plain, Packed, Compressed, Tiered
<1> QED  BY <1>1 DEF Loadable

\* PacksDropped fsyncs the directories and reloads the packs.
LEMMA PacksDroppedStep == ASSUME IInv, PacksDropped PROVE IInv'
<1> DEFINE to == IF command.op = "rebalance" THEN "packs" ELSE "done"
<1>1. /\ At("drop") /\ SyncTiers(command.dirs) /\ locator' = Loadable
      /\ command' = [command EXCEPT !.dirs = {}, !.step = to]
      /\ UNCHANGED <<loose, looseDur, packs, bad, format, roots, rootsDur, pub, live, up, uploading, budget>>
  BY DEF PacksDropped, ToolDoes
<1>2. /\ command \in Tools /\ command.step = "drop" /\ ToolInv(command, pub[Tool], loose, Kept, UNION live)
      /\ KeepInv(live, loose, Kept) /\ up = "tool" /\ Quiet
  BY <1>1, AtFacts
<1>3. command' \in Tools /\ command'.op = command.op /\ command'.step = to /\ command.op # "move"
  BY <1>1, <1>2 DEF Tools, ToolSteps, ToolInv
<1>4. ToolInv(command', pub[Tool], loose, Kept', UNION live)  BY <1>3 DEF ToolInv
<1>5. /\ packs' \subseteq packs /\ packsDur' \subseteq packs \cup packsDur
      /\ packs \cap packsDur \cap packs' \subseteq packsDur' /\ locator \cap packs' \subseteq locator'
      /\ locator' \subseteq Packs
  BY <1>1, SyncTiersFacts, LoadableIs DEF IInv, DiskTypes
<1>6. \A c \in UNION live : HasCopy(c, loose, Kept \cap packs')
  <2>1. Kept \cap packs' = Kept  BY <1>1, <1>2, KeptIs
  <2> QED  BY <2>1, <1>2 DEF KeepInv
<1> QED  BY <1>1, <1>3, <1>4, <1>5, <1>6, DropStep

\* movePack deletes its source: the target holds the same records.
LEMMA DeleteSourceStep == ASSUME IInv, DeleteSource PROVE IInv'
<1>1. /\ At("moving") /\ packs' = packs \ command.source /\ command' = [command EXCEPT !.step = "moved"]
      /\ UNCHANGED <<loose, looseDur, packsDur, bad, format, roots, rootsDur, locator, pub,
                     live, up, uploading, budget>>
  BY DEF DeleteSource, ToolDoes
<1>2. /\ command \in Tools /\ command.step = "moving" /\ ToolInv(command, pub[Tool], loose, Kept, UNION live)
      /\ pub[Tool].step = "none" /\ up = "tool" /\ Quiet /\ locator \subseteq Packs
  BY <1>1, AtFacts
<1>3. /\ command' \in Tools /\ command'.op = command.op /\ command'.step = "moved" /\ command'.left = command.left
      /\ command'.dest = command.dest /\ command'.doomed = command.doomed
  BY <1>1, <1>2 DEF Tools, ToolSteps
<1>4. ToolInv(command', pub[Tool], loose, Kept', UNION live)  BY <1>2, <1>3 DEF ToolInv
<1>5. /\ packs' \subseteq packs /\ packsDur' \subseteq packs \cup packsDur
      /\ packs \cap packsDur \cap packs' \subseteq packsDur' /\ locator \cap packs' \subseteq locator'
      /\ locator' \subseteq Packs
  BY <1>1, <1>2
<1>6. \A c \in UNION live : HasCopy(c, loose, Kept \cap packs')
  <2>1. Kept \ command.source \subseteq Kept \cap packs'  BY <1>1, <1>2, KeptIs
  <2>2. \A c \in UNION live : HasCopy(c, loose, Kept \ command.source)  BY <1>2 DEF ToolInv, InHand
  <2> QED  BY <2>1, <2>2, MoreCopies
<1> QED  BY <1>1, <1>3, <1>4, <1>5, <1>6, DropStep

\* SyncSource keeps the invariant.
LEMMA SyncSourceStep == ASSUME IInv, SyncSource PROVE IInv'
<1>1. /\ At("moved") /\ SyncTiers({p.tier : p \in command.source})
      /\ command' = [command EXCEPT !.step = "packs", !.source = {}]
      /\ UNCHANGED <<loose, looseDur, packs, bad, format, roots, rootsDur, locator, pub, live, up,
                     uploading, budget>>
  BY DEF SyncSource, ToolDoes
<1>2. /\ command \in Tools /\ command.step = "moved" /\ ToolInv(command, pub[Tool], loose, Kept, UNION live)
      /\ KeepInv(live, loose, Kept) /\ up = "tool" /\ Quiet /\ locator \subseteq Packs
  BY <1>1, AtFacts
<1>3. /\ command' \in Tools /\ command'.op = command.op /\ command'.step = "packs" /\ command'.left = command.left
      /\ command'.dest = command.dest /\ command'.doomed = command.doomed
  BY <1>1, <1>2 DEF Tools, ToolSteps
<1>4. ToolInv(command', pub[Tool], loose, Kept', UNION live)  BY <1>2, <1>3 DEF ToolInv
<1>5. /\ packs' \subseteq packs /\ packsDur' \subseteq packs \cup packsDur
      /\ packs \cap packsDur \cap packs' \subseteq packsDur' /\ locator \cap packs' \subseteq locator'
      /\ locator' \subseteq Packs
  BY <1>1, <1>2, SyncTiersFacts
<1>6. \A c \in UNION live : HasCopy(c, loose, Kept \cap packs')
  <2>1. Kept \cap packs' = Kept  BY <1>1, <1>2, KeptIs
  <2> QED  BY <2>1, <1>2 DEF KeepInv
<1> QED  BY <1>1, <1>3, <1>4, <1>5, <1>6, DropStep

\* A reload of the locator.
LEMMA ReloadStep ==
  ASSUME IInv, NEW st, At(st), locator' = Loadable, UNCHANGED <<disk, pub, live, up, uploading, budget>>,
         command' \in Tools, ToolInv(command', pub[Tool], loose, Kept', UNION live)
  PROVE  IInv'
<1>1. packs' = packs /\ packsDur' = packsDur /\ locator' = packs /\ packs \subseteq Packs
  BY LoadableIs DEF disk, IInv, DiskTypes
<1>2. UNCHANGED <<loose, looseDur, bad, format, roots, rootsDur, pub, live, up, uploading, budget>>
  BY DEF disk
<1>3. /\ packs' \subseteq packs /\ packsDur' \subseteq packs \cup packsDur
      /\ packs \cap packsDur \cap packs' \subseteq packsDur' /\ locator \cap packs' \subseteq locator'
      /\ locator' \subseteq Packs
  BY <1>1
<1>4. \A c \in UNION live : HasCopy(c, loose, Kept \cap packs')
  <2>1. Kept \cap packs' = Kept  BY <1>1, AtFacts, KeptIs
  <2> QED  BY <2>1, AtFacts DEF KeepInv
<1> QED  BY <1>2, <1>3, <1>4, DropStep

\* FlushPending of rebalance keeps the invariant.
LEMMA FlushPendingStep == ASSUME IInv, FlushPending PROVE IInv'
<1>1. /\ At("packs") /\ command.doomed # {} /\ locator' = Loadable
      /\ command' = [command EXCEPT !.step = "stage", !.doomed = @ \cap Loadable]
      /\ UNCHANGED <<disk, pub, live, up, uploading, budget>>
  BY DEF FlushPending, ToolDoes
<1>2. command \in Tools /\ ToolInv(command, pub[Tool], loose, Kept, UNION live)  BY <1>1, AtFacts
<1>3. command' \in Tools /\ command'.op = command.op /\ command'.step = "stage" /\ command.op # "move"
  BY <1>1, <1>2 DEF Tools, ToolSteps, ToolInv
<1>4. ToolInv(command', pub[Tool], loose, Kept', UNION live)  BY <1>3 DEF ToolInv
<1> QED  BY <1>1, <1>3, <1>4, ReloadStep

\* PacksDone keeps the invariant.
LEMMA PacksDoneStep == ASSUME IInv, PacksDone PROVE IInv'
<1>1. /\ At("packs") /\ command.left = {} /\ command.doomed = {} /\ locator' = Loadable
      /\ command' = [command EXCEPT !.step = "done"] /\ UNCHANGED <<disk, pub, live, up, uploading, budget>>
  BY DEF PacksDone, ToolDoes
<1>2. command \in Tools  BY <1>1, AtFacts
<1>3. /\ command' \in Tools /\ command'.op = command.op /\ command'.step = "done"
      /\ command'.left = {} /\ command'.doomed = {}
  BY <1>1, <1>2 DEF Tools, ToolSteps
<1>4. ToolInv(command', pub[Tool], loose, Kept', UNION live)  BY <1>3 DEF ToolInv
<1> QED  BY <1>1, <1>3, <1>4, ReloadStep
-----------------------------------------------------------------------------
(* Steps of a command that hand a pack to publishPack.                     *)

Staged(p) == [step |-> "staged", pack |-> p]

\* A command hands a pack to publishPack.
LEMMA StartStep ==
  ASSUME IInv, up = "tool", pub[Tool].step = "none", NEW p \in Packs, StartPublish(Tool, p),
         UNCHANGED <<disk, locator, live, up, uploading, budget>>, command' \in Tools,
         ToolInv(command', Staged(p), loose, Kept, UNION live)
  PROVE  IInv'
<1>1. /\ pub \in [PackWriters -> Pubs] /\ Tool \in PackWriters /\ Staged(p) \in Pubs
      /\ locator \subseteq Packs /\ Staged(p).step = "staged"
  BY DEF IInv, StateTypes, PackWriters, Pubs, PubSteps, Staged
<1>2. pub' = [pub EXCEPT ![Tool] = Staged(p)]  BY DEF StartPublish, Staged
<1>3. /\ pub' \in [PackWriters -> Pubs] /\ pub'[Tool] = Staged(p)
      /\ \A r \in Requests : pub'[r] = pub[r]
  BY <1>1, <1>2, PacksAssumption DEF PackWriters
<1>4. Quiet /\ \A x \in packs : x \in Safe(packs, packsDur, budget.failures)
  BY ToolQuiet, QuietSafe
<1>5. CommandStep  BY <1>1, <1>3, <1>4 DEF CommandStep, disk
<1>6. Kept' = Kept /\ loose' = loose  BY DEF Kept, disk
<1>7. KeepInv(live, loose, Kept)  BY DEF IInv
<1> QED  BY <1>3, <1>5, <1>6, <1>7, CommandStepKeeps

\* PublishReplacement keeps the invariant.
LEMMA PublishReplacementStep == ASSUME IInv, PublishReplacement PROVE IInv'
<1>1. /\ up = "tool" /\ command.step = "publish" /\ pub[Tool].step = "none"
      /\ UNCHANGED <<disk, live, up, locator, uploading, command, budget>>
  BY DEF PublishReplacement, NoPub
<1>2. PICK p \in command.queue : StartPublish(Tool, p)  BY DEF PublishReplacement
<1>3. command \in Tools /\ ToolInv(command, pub[Tool], loose, Kept, UNION live)
  BY DEF IInv, StateTypes, LiveChunks
<1>4. p \in Packs  BY <1>2, <1>3 DEF Tools
<1>5. ToolInv(command', Staged(p), loose, Kept, UNION live)  BY <1>1, <1>3 DEF ToolInv
<1> QED  BY <1>1, <1>2, <1>3, <1>4, <1>5, StartStep

\* compactBatch: what it will unlink is in the pack it hands on.
LEMMA StageLooseStep == ASSUME IInv, StageLoose PROVE IInv'
<1>1. PICK batch \in SUBSET command.cands, d \in budget.deflate :
        LET good == {c \in batch : GoodLoose(c)}
            p == [tier |-> command.dest[CHOOSE c \in batch : TRUE], recs |-> good, deflated |-> d]
        IN /\ batch # {}
           /\ IF good = {}
              THEN pub' = pub /\ ToolDoes([command EXCEPT !.cands = @ \ batch])
              ELSE /\ StartPublish(Tool, p)
                   /\ ToolDoes([command EXCEPT !.cands = @ \ batch, !.queue = {p},
                                            !.step = "unlink", !.todo = good])
  BY DEF StageLoose
<1> DEFINE good == {c \in batch : GoodLoose(c)}
           some == CHOOSE c \in batch : TRUE
           p == [tier |-> command.dest[some], recs |-> good, deflated |-> d]
<1>2. At("loose") /\ UNCHANGED <<disk, locator>> /\ command.todo = {}  BY DEF StageLoose
<1>3. /\ command \in Tools /\ command.step = "loose" /\ ToolInv(command, pub[Tool], loose, Kept, UNION live)
      /\ up = "tool" /\ pub[Tool].step = "none"
  BY <1>2, AtFacts
<1>4. d \in BOOLEAN  BY DEF IInv, StateTypes, Allowances
<1>5. some \in batch /\ batch \subseteq Chunks  BY <1>1, <1>3 DEF Tools
<1>6. UNCHANGED <<live, up, uploading, budget>>  BY <1>1 DEF ToolDoes
<1>7. CASE good = {}
  <2>1. pub' = pub /\ command' = [command EXCEPT !.cands = @ \ batch]  BY <1>1, <1>7 DEF ToolDoes
  <2> HIDE DEF good, some, p
  <2>2. /\ command' \in Tools /\ command'.op = command.op /\ command'.step = "loose" /\ command'.todo = {}
        /\ command.op \in {"compact", "rebalance"}
    BY <2>1, <1>2, <1>3 DEF Tools, ToolInv
  <2>3. ToolInv(command', pub[Tool], loose, Kept, UNION live)  BY <2>2 DEF ToolInv
  <2> QED  BY <1>2, <1>6, <2>1, <2>2, <2>3, PlanStep
<1>8. CASE good # {}
  <2>1. /\ StartPublish(Tool, p)
        /\ command' = [command EXCEPT !.cands = @ \ batch, !.queue = {p}, !.step = "unlink", !.todo = good]
    BY <1>1, <1>8 DEF ToolDoes
  <2>2. good \in SUBSET Chunks  BY <1>5
  <2> HIDE DEF good, some
  <2>3. p \in Packs /\ p.recs = good
    <3>1. command.dest[some] \in Tiers  BY <1>3, <1>5 DEF Tools
    <3> QED  BY <3>1, <2>2, <1>4, <1>8 DEF Packs
  <2> HIDE DEF p
  <2>4. /\ command' \in Tools /\ command'.op = command.op /\ command'.step = "unlink" /\ command'.todo = good
        /\ command.op \in {"compact", "rebalance"}
    <3>1. command.op \in {"compact", "rebalance"}  BY <1>3 DEF ToolInv
    <3> QED  BY <3>1, <2>1, <2>2, <2>3, <1>3 DEF Tools, ToolSteps
  <2>5. \A c \in good : InHand(Staged(p), c)  BY <2>3 DEF InHand, Staged
  <2>6. ToolInv(command', Staged(p), loose, Kept, UNION live)  BY <2>4, <2>5 DEF ToolInv
  <2> QED  BY <1>2, <1>3, <1>6, <2>1, <2>3, <2>4, <2>6, StartStep
<1> QED  BY <1>7, <1>8

\* What is moved goes to another tier.
LEMMA MoveToFacts ==
  ASSUME IInv, At("packs"), NEW p \in command.left, WantsMove(p)
  PROVE  MoveTo(p) \in Packs /\ MoveTo(p).recs = p.recs /\ MoveTo(p) # p /\ p \in Packs
<1>1. command \in Tools /\ ToolInv(command, pub[Tool], loose, Kept, UNION live)  BY AtFacts
<1>2. p \in Packs  BY <1>1 DEF Tools
<1> DEFINE some == CHOOSE c \in p.recs : TRUE
<1>3. some \in p.recs /\ some \in Chunks  BY <1>2 DEF Packs
<1> HIDE DEF some
<1>4. command.dest[some] \in Tiers  BY <1>1, <1>3 DEF Tools
<1>5. MoveTo(p) = [p EXCEPT !.tier = command.dest[some]]  BY DEF MoveTo, InTier, some
<1>6. command.dest[some] # p.tier
  <2>1. CASE command.op = "move"  BY <2>1, <1>1, <1>3 DEF ToolInv
  <2>2. CASE command.op # "move"
    <3>1. PICK s \in Firsts(p, locator) : Classify(p, locator, command.dest, s) = "move"
      BY <2>2 DEF WantsMove
    <3> DEFINE alive     == p.recs \cap LiveChunks
               keep      == {c \in alive : command.dest[c] = p.tier /\ c \in s}
               other(c)  == \E q \in locator \ {p} : c \in q.recs /\ q.tier = command.dest[c]
               redundant == {c \in alive \ keep : other(c) \/ (command.dest[c] = Hot /\ c \in loose)}
               moved     == alive \ (keep \cup redundant)
    <3>2. moved = p.recs
      <4>1. (IF moved = {}
             THEN IF keep = {} /\ redundant # {} THEN "redundant" ELSE "compliant"
             ELSE IF moved = p.recs /\ \A c, d \in moved : command.dest[c] = command.dest[d]
             THEN "move" ELSE "rewrite") = "move"
        BY <3>1 DEF Classify
      <4> HIDE DEF moved, keep, redundant
      <4> QED  BY <4>1
    <3>3. some \in alive /\ some \notin keep /\ some \notin redundant  BY <3>2, <1>3
    <3>4. SUFFICES ASSUME command.dest[some] = p.tier PROVE FALSE  OBVIOUS
    <3>5. some \notin s  BY <3>3, <3>4
    <3>6. other(some)  BY <3>4, <3>5, <1>3 DEF Firsts
    <3> QED  BY <3>3, <3>6
  <2> QED  BY <2>1, <2>2
<1> QED  BY <1>2, <1>4, <1>5, <1>6 DEF Packs

\* MovePack: the target is another pack than the source, and holds the same.
LEMMA MovePackStep == ASSUME IInv, MovePack PROVE IInv'
<1>1. PICK p \in command.left :
       /\ WantsMove(p)
       /\ \/ /\ MoveTo(p) \in packs /\ locator' = locator \cup {MoveTo(p)} /\ pub' = pub
             /\ ToolDoes([command EXCEPT !.left = @ \ {p}, !.step = "moving", !.source = {p}])
          \/ /\ StartPublish(Tool, MoveTo(p)) /\ UNCHANGED locator
             /\ ToolDoes([command EXCEPT !.left = @ \ {p}, !.step = "moving", !.source = {p},
                                      !.queue = {MoveTo(p)}])
  BY DEF MovePack
<1>2. At("packs") /\ UNCHANGED disk  BY DEF MovePack
<1>3. /\ command \in Tools /\ command.step = "packs" /\ ToolInv(command, pub[Tool], loose, Kept, UNION live)
      /\ up = "tool" /\ pub[Tool].step = "none" /\ KeepInv(live, loose, Kept) /\ Quiet
      /\ locator \subseteq Packs
  BY <1>2, AtFacts
<1> DEFINE m == MoveTo(p)
<1>4. m \in Packs /\ m.recs = p.recs /\ m # p /\ p \in Packs  BY <1>1, <1>2, MoveToFacts
<1>5. UNCHANGED <<live, up, uploading, budget>>  BY <1>1 DEF ToolDoes
<1> HIDE DEF m
<1>6. CASE /\ m \in packs /\ locator' = locator \cup {m} /\ pub' = pub
           /\ command' = [command EXCEPT !.left = @ \ {p}, !.step = "moving", !.source = {p}]
  <2>1. /\ command' \in Tools /\ command'.op = command.op /\ command'.step = "moving" /\ command'.source = {p}
        /\ command'.left \subseteq command.left /\ command'.dest = command.dest /\ command'.doomed = command.doomed
    BY <1>3, <1>4, <1>6 DEF Tools, ToolSteps
  <2>2. Kept = packs \cap locator  BY <1>3, KeptIs
  <2>3. packs \cap locator' \subseteq Kept'
    <3>1. \A x \in packs : x \in Safe(packs, packsDur, budget.failures)  BY <1>3, QuietSafe
    <3> QED  BY <3>1, <1>2, <1>5 DEF Kept, Copies, disk
  <2>4. ASSUME NEW c \in UNION live PROVE HasCopy(c, loose, Kept' \ {p})
    <3>1. HasCopy(c, loose, packs \cap locator)  BY <2>2, <1>3 DEF KeepInv
    <3>2. m \in Kept' \ {p}  BY <2>3, <1>4, <1>6
    <3> QED  BY <3>1, <3>2, <2>3, <1>4, <1>6 DEF HasCopy, Held
  <2>5. ToolInv(command', pub[Tool], loose, Kept', UNION live)
    BY <2>1, <2>4, <1>3 DEF ToolInv
  <2>6. UNCHANGED <<loose, looseDur, packs, packsDur, bad, format, roots, rootsDur>>
    BY <1>2 DEF disk
  <2>7. /\ packs' \subseteq packs /\ packsDur' \subseteq packs \cup packsDur
        /\ packs \cap packsDur \cap packs' \subseteq packsDur' /\ locator \cap packs' \subseteq locator'
        /\ locator' \subseteq Packs
    BY <2>6, <1>3, <1>4, <1>6
  <2>8. \A c \in UNION live : HasCopy(c, loose, Kept \cap packs')
    <3>1. Kept \cap packs' = Kept  BY <2>2, <2>6
    <3> QED  BY <3>1, <1>3 DEF KeepInv
  <2> QED  BY <1>2, <1>5, <1>6, <2>1, <2>5, <2>6, <2>7, <2>8, DropStep
<1>7. CASE /\ StartPublish(Tool, m) /\ UNCHANGED locator
           /\ command' = [command EXCEPT !.left = @ \ {p}, !.step = "moving", !.source = {p}, !.queue = {m}]
  <2>1. /\ command' \in Tools /\ command'.op = command.op /\ command'.step = "moving" /\ command'.source = {p}
        /\ command'.left \subseteq command.left /\ command'.dest = command.dest /\ command'.doomed = command.doomed
    BY <1>3, <1>4, <1>7 DEF Tools, ToolSteps
  <2>2. ASSUME NEW c \in UNION live PROVE HasCopy(c, loose, Kept \ {p}) \/ InHand(Staged(m), c)
    <3>1. HasCopy(c, loose, Kept)  BY <1>3 DEF KeepInv
    <3>2. c \in p.recs => InHand(Staged(m), c)  BY <1>4 DEF InHand, Staged
    <3> QED  BY <3>1, <3>2 DEF HasCopy, Held
  <2>3. Staged(m).pack \notin {p}  BY <1>4 DEF Staged
  <2>4. ToolInv(command', Staged(m), loose, Kept, UNION live)
    BY <2>1, <2>2, <2>3, <1>3 DEF ToolInv
  <2> QED  BY <1>2, <1>3, <1>4, <1>5, <1>7, <2>1, <2>4, StartStep
<1> QED  BY <1>1, <1>6, <1>7 DEF m, ToolDoes
-----------------------------------------------------------------------------
(* publishPack.                                                            *)

\* The format is compared as a number.
LEMMA NeedFacts ==
  ASSUME NEW p
  PROVE  Need(p) \in {2, 3, 5} /\ (Need(p) >= Tiered => p.tier # Hot)
  BY DEF Need, Packed, Compressed, Tiered

\* The format in memory, on disk and on stable storage is a number.
LEMMA FormatFacts ==
  ASSUME IInv
  PROVE  /\ format \in [mem : Formats, disk : Formats, dur : Formats]
         /\ format.mem \in Nat /\ format.disk \in Nat /\ format.dur \in Nat
<1>1. format \in [mem : Formats, disk : Formats, dur : Formats]  BY DEF IInv, DiskTypes
<1>2. Formats \subseteq Nat  BY DEF Formats, Plain, Packed, Compressed, Tiered
<1> QED  BY <1>1, <1>2

\* Writer w goes on with its pack.
GoesOn(w, st) ==
  /\ pub' \in [PackWriters -> Pubs] /\ pub'[w].step = st /\ st # "none"
  /\ pub'[w].pack = pub[w].pack /\ pub[w].pack \in Packs /\ pub[w].step # "none"
  /\ \A v \in PackWriters : v # w => pub'[v] = pub[v]

\* A step of publishPack changes the step of its writer only.
LEMMA PubStepFacts ==
  ASSUME IInv, NEW w \in PackWriters, pub[w].step # "none", NEW st \in PubSteps, PubStep(w, st)
  PROVE  GoesOn(w, st)
<1>1. pub \in [PackWriters -> Pubs]  BY DEF IInv, StateTypes
<1>2. pub[w] \in [step : PubSteps, pack : Packs]  BY <1>1 DEF Pubs, NoPub
<1>3. st # "none"  BY DEF PubSteps
<1>4. pub' = [pub EXCEPT ![w] = [pub[w] EXCEPT !.step = st]]  BY DEF PubStep
<1>5. [pub[w] EXCEPT !.step = st] \in Pubs  BY <1>2 DEF Pubs
<1> QED  BY <1>1, <1>2, <1>3, <1>4, <1>5 DEF GoesOn

\* A step of publishPack keeps the invariant if it keeps what publishing,
\* the format and the roots need, and no pack gets less safe.
LEMMA PubStepKeeps ==
  ASSUME IInv, NEW w \in PackWriters, NEW st, GoesOn(w, st), st = "rooting" => w = Tool,
         UNCHANGED <<loose, looseDur, live, up, locator, uploading, command, budget>>,
         DiskTypes(loose, looseDur, packs', packsDur', bad', format', roots', rootsDur'),
         Safe(packs, packsDur, budget.failures) \subseteq Safe(packs', packsDur', budget.failures),
         PubInv(pub', packs', packsDur', budget.failures),
         FmtInv(format', pub', packs' \cup packsDur', up, budget.failures),
         RootInv(format', roots', rootsDur', pub'[Tool], budget.failures)
  PROVE  IInv'
<1>0. Tool \in PackWriters /\ \A r \in Requests : r \in PackWriters /\ r # Tool
  BY PacksAssumption DEF PackWriters
<1>1. /\ \A v \in PackWriters : /\ pub'[v].pack = pub[v].pack
                                /\ pub'[v].step = "none" <=> pub[v].step = "none"
      /\ \A r \in Requests : pub[r].step # "rooting" => pub'[r].step # "rooting"
  BY <1>0 DEF GoesOn
<1>2. WhoInv(up, uploading, pub', command)  BY <1>0, <1>1 DEF IInv, WhoInv
<1>3. ServeInv(up, locator, Safe(packs', packsDur', budget.failures), uploading, pub', loose)
  <2>1. ServeInv(up, locator, Safe(packs, packsDur, budget.failures), uploading, pub, loose)  BY DEF IInv
  <2>2. \A r \in Requests : pub'[r].pack = pub[r].pack /\ (pub'[r].step = "none" <=> pub[r].step = "none")
    BY <1>0, <1>1
  <2> QED  BY <2>1, <2>2 DEF ServeInv
<1>4. Kept \subseteq Kept'
  BY DEF Kept, Copies
<1>5. KeepInv(live, loose, Kept')  BY <1>4, MoreCopies DEF IInv, KeepInv
<1>6. ToolInv(command, pub'[Tool], loose, Kept', UNION live)
  <2>1. \A c : InHand(pub'[Tool], c) <=> InHand(pub[Tool], c)  BY <1>0, <1>1 DEF InHand
  <2>2. ToolInv(command, pub[Tool], loose, Kept, UNION live)  BY DEF IInv, LiveChunks
  <2>3. \A c : Held(c, Kept) => Held(c, Kept')  BY <1>4 DEF Held
  <2>4. \A c, X : HasCopy(c, loose, Kept \ X) => HasCopy(c, loose, Kept' \ X)
    BY <1>4 DEF HasCopy, Held
  <2> QED  BY <2>1, <2>2, <2>3, <2>4, <1>0, <1>1 DEF ToolInv
<1>7. StateTypes(live, up, locator, uploading, pub', command, budget)  BY DEF IInv, StateTypes, GoesOn
<1>8. ~({"power", "unsyncedExit"} \subseteq budget.failures)  BY DEF IInv
<1> QED  BY <1>2, <1>3, <1>5, <1>6, <1>7, <1>8 DEF IInv, LiveChunks

\* FORMAT.json and the packs stay as they are, and w is not past its format.
LEMMA SameFormat ==
  ASSUME IInv, NEW w \in PackWriters, NEW st \in {"staged", "rooting"}, GoesOn(w, st),
         pub[w].step \in {"staged", "rooting"}
  PROVE  /\ PubInv(pub', packs, packsDur, budget.failures)
         /\ FmtInv(format, pub', packs \cup packsDur, up, budget.failures)
<1>1. \A v \in PackWriters : \/ pub'[v] = pub[v]
                             \/ {pub'[v].step, pub[v].step} \subseteq {"staged", "rooting"}
  BY DEF GoesOn
<1>2. PubInv(pub', packs, packsDur, budget.failures)
  BY <1>1 DEF IInv, PubInv
<1>3. FmtInv(format, pub', packs \cup packsDur, up, budget.failures)
  BY <1>1 DEF IInv, FmtInv
<1> QED  BY <1>2, <1>3

\* MakeRoot: a new root is not durable until it is synced.
LEMMA MakeRootStep == ASSUME IInv, NEW w \in PackWriters, MakeRoot(w) PROVE IInv'
<1>1. /\ pub[w].step = "staged" /\ pub[w].pack.tier # Hot /\ PubStep(w, "rooting")
      /\ UNCHANGED <<loose, looseDur, packs, packsDur, bad, format, rootsDur, live, up,
                     locator, uploading, command, budget>>
      /\ \E t \in ColdTiers \ roots : roots' = roots \cup {t}
  BY DEF MakeRoot, Publishing
<1>2. w = Tool  BY <1>1 DEF IInv, WhoInv, PackWriters
<1>3. GoesOn(w, "rooting")  BY <1>1, PubStepFacts DEF PubSteps
<1>4. DiskTypes(loose, looseDur, packs', packsDur', bad', format', roots', rootsDur')
  BY <1>1 DEF IInv, DiskTypes
<1>5. RootInv(format', roots', rootsDur', pub'[Tool], budget.failures)
  <2>1. RootInv(format, roots, rootsDur, pub[Tool], budget.failures)  BY DEF IInv
  <2>2. pub'[Tool].step = "rooting"  BY <1>2, <1>3 DEF GoesOn
  <2> QED  BY <1>1, <2>1, <2>2 DEF RootInv
<1>6. PubInv(pub', packs, packsDur, budget.failures)
      /\ FmtInv(format, pub', packs \cup packsDur, up, budget.failures)
  BY <1>1, <1>3, SameFormat
<1> QED  BY <1>1, <1>2, <1>3, <1>4, <1>5, <1>6, PubStepKeeps

\* SyncRoot makes the roots durable.
LEMMA SyncRootStep == ASSUME IInv, NEW w \in PackWriters, SyncRoot(w) PROVE IInv'
<1>1. /\ pub[w].step = "rooting" /\ PubStep(w, "staged") /\ rootsDur' = roots
      /\ UNCHANGED <<loose, looseDur, packs, packsDur, bad, format, roots, live, up,
                     locator, uploading, command, budget>>
  BY DEF SyncRoot, Publishing
<1>2. GoesOn(w, "staged")  BY <1>1, PubStepFacts DEF PubSteps
<1>3. DiskTypes(loose, looseDur, packs', packsDur', bad', format', roots', rootsDur')
  BY <1>1 DEF IInv, DiskTypes
<1>4. RootInv(format', roots', rootsDur', pub'[Tool], budget.failures)
  <2>1. RootInv(format, roots, rootsDur, pub[Tool], budget.failures) /\ rootsDur \subseteq roots
    BY DEF IInv, DiskTypes
  <2> QED  BY <1>1, <2>1 DEF RootInv
<1>5. PubInv(pub', packs, packsDur, budget.failures)
      /\ FmtInv(format, pub', packs \cup packsDur, up, budget.failures)
  BY <1>1, <1>2, SameFormat
<1> QED  BY <1>1, <1>2, <1>3, <1>4, <1>5, PubStepKeeps

\* RaiseFormat: a store of format 5 has its roots before.
LEMMA RaiseFormatStep == ASSUME IInv, NEW w \in PackWriters, RaiseFormat(w) PROVE IInv'
<1> DEFINE P == pub[w].pack
<1>1. /\ pub[w].step = "staged" /\ RootsReady(w)
      /\ \A v \in PackWriters : pub[v].step # "formatting"
      /\ UNCHANGED <<loose, looseDur, packs, packsDur, bad, roots, rootsDur, live, up,
                     locator, uploading, command, budget>>
      /\ \/ format.mem >= Need(P) /\ PubStep(w, "formatted") /\ format' = format
         \/ /\ ~(format.mem >= Need(P)) /\ PubStep(w, "formatting")
            /\ format' = [format EXCEPT !.disk = Need(P)]
  BY DEF RaiseFormat, Publishing
<1>2. Tool \in PackWriters /\ Need(P) \in {2, 3, 5}  BY NeedFacts DEF PackWriters
<1>3. /\ FmtInv(format, pub, packs \cup packsDur, up, budget.failures)
      /\ RootInv(format, roots, rootsDur, pub[Tool], budget.failures)
      /\ PubInv(pub, packs, packsDur, budget.failures)
      /\ DiskTypes(loose, looseDur, packs, packsDur, bad, format, roots, rootsDur)
  BY DEF IInv
<1>4. up # "down"
  <2>1. CASE w = Tool  BY <2>1, <1>1 DEF IInv, WhoInv
  <2>2. CASE w # Tool
    <3>1. w \in Requests  BY <2>2 DEF PackWriters
    <3> QED  BY <3>1, <1>1 DEF IInv, WhoInv
  <2> QED  BY <2>1, <2>2
<1>5. /\ format \in [mem : Formats, disk : Formats, dur : Formats]
      /\ format.mem \in Nat /\ format.disk \in Nat /\ format.dur \in Nat
  BY FormatFacts
<1>6. \A p \in packs \cup packsDur : Need(p) \in Nat  BY NeedFacts
<1>7. CASE format.mem >= Need(P) /\ PubStep(w, "formatted") /\ format' = format
  <2>1. GoesOn(w, "formatted")  BY <1>1, <1>7, PubStepFacts DEF PubSteps
  <2>2. \A v \in PackWriters : /\ pub'[v].step # "formatting" /\ (pub'[v].step = "renamed" <=> pub[v].step = "renamed")
                               /\ (pub'[v].step = "synced" <=> pub[v].step = "synced")
                               /\ pub'[v].pack = pub[v].pack
    BY <2>1, <1>1 DEF GoesOn
  <2>3. FmtInv(format', pub', packs' \cup packsDur', up, budget.failures)
    <3>1. \A v \in PackWriters : pub'[v].step \in {"formatted", "renamed", "synced"} => Need(pub'[v].pack) <= format.mem
      <4>1. Need(P) <= format.mem  BY <1>2, <1>5, <1>7
      <4> HIDE DEF P
      <4>2. pub'[w].pack = P  BY <2>2 DEF P
      <4> QED  BY <4>1, <4>2, <2>1, <1>3 DEF FmtInv, GoesOn
    <3> QED  BY <3>1, <2>2, <1>1, <1>3, <1>7 DEF FmtInv
  <2>4. RootInv(format', roots', rootsDur', pub'[Tool], budget.failures)
    <3>1. pub[Tool].step = "rooting" <=> pub'[Tool].step = "rooting"  BY <2>1, <1>1, <1>2 DEF GoesOn
    <3> QED  BY <3>1, <1>1, <1>3, <1>7 DEF RootInv
  <2>5. PubInv(pub', packs', packsDur', budget.failures)  BY <2>2, <1>1, <1>3 DEF PubInv
  <2>6. DiskTypes(loose, looseDur, packs', packsDur', bad', format', roots', rootsDur')
    BY <1>1, <1>3, <1>7
  <2> QED  BY <2>1, <2>3, <2>4, <2>5, <2>6, <1>1, PubStepKeeps
<1>8. CASE /\ ~(format.mem >= Need(P)) /\ PubStep(w, "formatting")
           /\ format' = [format EXCEPT !.disk = Need(P)]
  <2>1. GoesOn(w, "formatting")  BY <1>1, <1>8, PubStepFacts DEF PubSteps
  <2>2. /\ format'.mem = format.mem /\ format'.dur = format.dur /\ format'.disk = Need(P)
        /\ format' \in [mem : Formats, disk : Formats, dur : Formats] /\ format.mem < Need(P)
    <3>1. Need(P) \in Formats  BY <1>2 DEF Formats, Packed, Compressed, Tiered
    <3> HIDE DEF P
    <3> QED  BY <3>1, <1>2, <1>5, <1>8
  <2>3. \A v \in PackWriters : /\ (pub'[v].step = "renamed" <=> pub[v].step = "renamed")
                               /\ (pub'[v].step = "synced" <=> pub[v].step = "synced")
                               /\ (pub'[v].step = "formatted" <=> pub[v].step = "formatted")
                               /\ pub'[v].pack = pub[v].pack
                               /\ (pub'[v].step = "formatting" <=> v = w)
    BY <2>1, <1>1 DEF GoesOn
  <2>4. FmtInv(format', pub', packs' \cup packsDur', up, budget.failures)
    <3>1. pub'[w].pack = P  BY <2>3
    <3> HIDE DEF P
    <3>2. ASSUME NEW p \in packs \cup packsDur
          PROVE  /\ Need(p) <= format'.disk /\ Need(p) <= format'.mem
                 /\ "power" \in budget.failures => Need(p) <= format'.dur
      <4>1. Need(p) <= format.mem /\ ("power" \in budget.failures => Need(p) <= format.dur)
        BY <1>3, <1>4 DEF FmtInv
      <4> QED  BY <4>1, <2>2, <1>2, <1>5, <1>6
    <3>3. format'.mem < format'.disk  BY <2>2
    <3>4. format'.mem <= format'.disk  BY <2>2, <1>2, <1>5
    <3>5. \A v \in PackWriters : pub'[v].step \in {"formatted", "renamed", "synced"} => Need(pub'[v].pack) <= format'.mem
      BY <2>2, <2>3, <1>3 DEF FmtInv
    <3>6. "power" \in budget.failures => format'.mem <= format'.dur  BY <2>2, <1>3, <1>4 DEF FmtInv
    <3>7. \A v \in PackWriters : pub'[v].step = "formatting" => v = w  BY <2>3
    <3> QED  BY <3>1, <3>2, <3>3, <3>4, <3>5, <3>6, <3>7, <2>1, <2>2, <1>1 DEF FmtInv, GoesOn
  <2>5. RootInv(format', roots', rootsDur', pub'[Tool], budget.failures)
    <3>1. format'.disk >= Tiered => w = Tool /\ ColdTiers \subseteq roots
      <4> SUFFICES ASSUME Need(P) >= Tiered PROVE w = Tool /\ ColdTiers \subseteq roots  BY <2>2
      <4>1. P.tier # Hot  BY NeedFacts
      <4> QED  BY <4>1, <1>1 DEF RootsReady, IInv, WhoInv, PackWriters
    <3>2. pub[Tool].step = "rooting" <=> pub'[Tool].step = "rooting"  BY <2>1, <1>1, <1>2 DEF GoesOn
    <3> QED  BY <3>1, <3>2, <2>2, <1>1, <1>3 DEF RootInv
  <2>6. PubInv(pub', packs', packsDur', budget.failures)  BY <2>3, <1>1, <1>3 DEF PubInv
  <2>7. DiskTypes(loose, looseDur, packs', packsDur', bad', format', roots', rootsDur')
    BY <1>1, <1>3, <2>2 DEF DiskTypes
  <2> QED  BY <2>1, <2>4, <2>5, <2>6, <2>7, <1>1, PubStepKeeps
<1> QED  BY <1>1, <1>7, <1>8

\* SyncFormat: memory follows the durable format.
LEMMA SyncFormatStep == ASSUME IInv, NEW w \in PackWriters, SyncFormat(w) PROVE IInv'
<1>1. /\ pub[w].step = "formatting" /\ PubStep(w, "formatted")
      /\ format' = [format EXCEPT !.dur = format.disk, !.mem = format.disk]
      /\ UNCHANGED <<loose, looseDur, packs, packsDur, bad, roots, rootsDur, live, up,
                     locator, uploading, command, budget>>
  BY DEF SyncFormat, Publishing
<1>2. GoesOn(w, "formatted")  BY <1>1, PubStepFacts DEF PubSteps
<1>3. /\ FmtInv(format, pub, packs \cup packsDur, up, budget.failures)
      /\ RootInv(format, roots, rootsDur, pub[Tool], budget.failures)
      /\ PubInv(pub, packs, packsDur, budget.failures)
      /\ DiskTypes(loose, looseDur, packs, packsDur, bad, format, roots, rootsDur)
  BY DEF IInv
<1>4. /\ format \in [mem : Formats, disk : Formats, dur : Formats]
      /\ format.mem \in Nat /\ format.disk \in Nat /\ format.dur \in Nat
  BY FormatFacts
<1>5. /\ format'.mem = format.disk /\ format'.dur = format.disk /\ format'.disk = format.disk
      /\ format' \in [mem : Formats, disk : Formats, dur : Formats]
  BY <1>1, <1>4
<1>6. format.disk = Need(pub[w].pack) /\ format.mem < format.disk  BY <1>1, <1>3 DEF FmtInv
<1>7. \A v \in PackWriters : /\ (pub'[v].step = "renamed" <=> pub[v].step = "renamed")
                             /\ (pub'[v].step = "synced" <=> pub[v].step = "synced")
                             /\ pub'[v].pack = pub[v].pack /\ pub'[v].step # "formatting"
                             /\ (v # w => (pub'[v].step = "formatted" <=> pub[v].step = "formatted"))
  BY <1>1, <1>2, <1>3 DEF GoesOn, FmtInv
<1>8. FmtInv(format', pub', packs' \cup packsDur', up, budget.failures)
  <2>1. \A p \in packs \cup packsDur : Need(p) <= format.disk  BY <1>3 DEF FmtInv
  <2>2. \A p : Need(p) \in Nat  BY NeedFacts
  <2>3. ASSUME NEW v \in PackWriters, pub'[v].step \in {"formatted", "renamed", "synced"}
        PROVE  Need(pub'[v].pack) <= format.disk
    <3>1. CASE v = w
      <4>1. pub'[v].pack = pub[w].pack  BY <3>1, <1>7
      <4> QED  BY <4>1, <1>4, <1>6
    <3>2. CASE v # w
      <4>1. Need(pub'[v].pack) <= format.mem  BY <2>3, <3>2, <1>2, <1>3 DEF FmtInv, GoesOn
      <4> QED  BY <4>1, <2>2, <1>4, <1>6
    <3> QED  BY <3>1, <3>2
  <2>4. format.disk <= format.disk  BY <1>4
  <2> QED  BY <2>1, <2>3, <2>4, <1>1, <1>5, <1>7 DEF FmtInv
<1>9. RootInv(format', roots', rootsDur', pub'[Tool], budget.failures)
  <2>1. Tool \in PackWriters  BY DEF PackWriters
  <2>2. pub[Tool].step = "rooting" <=> pub'[Tool].step = "rooting"  BY <2>1, <1>1, <1>2 DEF GoesOn
  <2> QED  BY <2>2, <1>1, <1>3, <1>5 DEF RootInv
<1>10. PubInv(pub', packs', packsDur', budget.failures)  BY <1>7, <1>1, <1>3 DEF PubInv
<1>11. DiskTypes(loose, looseDur, packs', packsDur', bad', format', roots', rootsDur')
  BY <1>1, <1>3, <1>5 DEF DiskTypes
<1> QED  BY <1>1, <1>2, <1>8, <1>9, <1>10, <1>11, PubStepKeeps

\* RenamePack: the format covers the pack before it can be seen.
LEMMA RenamePackStep == ASSUME IInv, NEW w \in PackWriters, RenamePack(w) PROVE IInv'
<1> DEFINE P == pub[w].pack
<1>1. /\ pub[w].step = "formatted" /\ PubStep(w, "renamed") /\ packs' = packs \cup {P}
      /\ UNCHANGED <<loose, looseDur, packsDur, bad, format, roots, rootsDur, live, up,
                     locator, uploading, command, budget>>
  BY DEF RenamePack, Publishing
<1>2. GoesOn(w, "renamed")  BY <1>1, PubStepFacts DEF PubSteps
<1>3. /\ FmtInv(format, pub, packs \cup packsDur, up, budget.failures)
      /\ RootInv(format, roots, rootsDur, pub[Tool], budget.failures)
      /\ PubInv(pub, packs, packsDur, budget.failures)
      /\ DiskTypes(loose, looseDur, packs, packsDur, bad, format, roots, rootsDur)
  BY DEF IInv
<1>4. up # "down"
  <2>1. CASE w = Tool  BY <2>1, <1>1 DEF IInv, WhoInv
  <2>2. CASE w # Tool
    <3>1. w \in Requests  BY <2>2 DEF PackWriters
    <3> QED  BY <3>1, <1>1 DEF IInv, WhoInv
  <2> QED  BY <2>1, <2>2
<1>5. format.mem \in Nat /\ format.disk \in Nat /\ format.dur \in Nat  BY FormatFacts
<1>6. \A v \in PackWriters : /\ pub'[v].pack = pub[v].pack
                             /\ (v # w => pub'[v].step = pub[v].step)
                             /\ (pub'[v].step = "formatting" <=> pub[v].step = "formatting")
                             /\ (pub'[v].step = "synced" <=> pub[v].step = "synced")
  BY <1>1, <1>2 DEF GoesOn
<1>7. pub'[w].step = "renamed" /\ pub'[w].pack = P /\ P \in Packs  BY <1>2 DEF GoesOn
<1>8. Need(P) <= format.mem  BY <1>1, <1>3 DEF FmtInv
<1> HIDE DEF P
<1>9. Safe(packs, packsDur, budget.failures) \subseteq Safe(packs', packsDur', budget.failures)
  BY <1>1 DEF Safe
<1>10. FmtInv(format', pub', packs' \cup packsDur', up, budget.failures)
  <2>1. Need(P) <= format.disk /\ ("power" \in budget.failures => Need(P) <= format.dur)
    <3>1. Need(P) \in Nat  BY NeedFacts
    <3>2. format.mem <= format.disk /\ ("power" \in budget.failures => format.mem <= format.dur)
      BY <1>3, <1>4 DEF FmtInv
    <3> QED  BY <3>1, <3>2, <1>5, <1>8
  <2>2. ASSUME NEW p \in packs' \cup packsDur'
        PROVE  /\ Need(p) <= format.disk /\ Need(p) <= format.mem
               /\ "power" \in budget.failures => Need(p) <= format.dur
    <3>1. CASE p = P  BY <3>1, <2>1, <1>8
    <3>2. CASE p # P
      <4>1. p \in packs \cup packsDur  BY <3>2, <1>1
      <4> QED  BY <4>1, <1>3, <1>4 DEF FmtInv
    <3> QED  BY <3>1, <3>2
  <2>3. \A v \in PackWriters : pub'[v].step \in {"formatted", "renamed", "synced"} => Need(pub'[v].pack) <= format.mem
    BY <1>3, <1>6, <1>7, <1>8 DEF FmtInv
  <2> QED  BY <2>2, <2>3, <1>1, <1>3, <1>6 DEF FmtInv
<1>11. PubInv(pub', packs', packsDur', budget.failures)
  <2>1. \A v \in PackWriters : pub'[v].step \in {"renamed", "synced"} => pub'[v].pack \in packs'
    BY <1>1, <1>3, <1>6, <1>7 DEF PubInv
  <2>2. \A v \in PackWriters : pub'[v].step = "synced" => pub'[v].pack \in Safe(packs', packsDur', budget.failures)
    BY <1>3, <1>6, <1>9 DEF PubInv
  <2>3. ASSUME NEW p \in packs'
        PROVE  \/ p \in Safe(packs', packsDur', budget.failures)
               \/ \E v \in PackWriters : pub'[v].step = "renamed" /\ pub'[v].pack = p
    <3>1. CASE p = P  BY <3>1, <1>7
    <3>2. CASE p # P
      <4>1. p \in packs  BY <3>2, <1>1
      <4>2. CASE p \in Safe(packs, packsDur, budget.failures)  BY <4>2, <1>9
      <4>3. CASE \E v \in PackWriters : pub[v].step = "renamed" /\ pub[v].pack = p
        BY <4>3, <1>1, <1>6
      <4> QED  BY <4>1, <4>2, <4>3, <1>3 DEF PubInv
    <3> QED  BY <3>1, <3>2
  <2> QED  BY <2>1, <2>2, <2>3 DEF PubInv
<1>12. RootInv(format', roots', rootsDur', pub'[Tool], budget.failures)
  <2>1. Tool \in PackWriters  BY DEF PackWriters
  <2>2. pub[Tool].step = "rooting" <=> pub'[Tool].step = "rooting"  BY <2>1, <1>1, <1>2 DEF GoesOn
  <2> QED  BY <2>2, <1>1, <1>3 DEF RootInv
<1>13. DiskTypes(loose, looseDur, packs', packsDur', bad', format', roots', rootsDur')
  BY <1>1, <1>3, <1>7 DEF DiskTypes
<1> QED  BY <1>1, <1>2, <1>9, <1>10, <1>11, <1>12, <1>13, PubStepKeeps

\* SyncPacks makes the pack safe.
LEMMA SyncPacksStep == ASSUME IInv, NEW w \in PackWriters, SyncPacks(w) PROVE IInv'
<1> DEFINE P == pub[w].pack
<1>1. /\ pub[w].step = "renamed" /\ PubStep(w, "synced") /\ SyncTiers({P.tier}) /\ bad' \subseteq bad
      /\ UNCHANGED <<loose, looseDur, packs, format, roots, rootsDur, live, up,
                     locator, uploading, command, budget>>
  BY DEF SyncPacks, Publishing
<1>2. GoesOn(w, "synced")  BY <1>1, PubStepFacts DEF PubSteps
<1>3. /\ FmtInv(format, pub, packs \cup packsDur, up, budget.failures)
      /\ RootInv(format, roots, rootsDur, pub[Tool], budget.failures)
      /\ PubInv(pub, packs, packsDur, budget.failures)
      /\ DiskTypes(loose, looseDur, packs, packsDur, bad, format, roots, rootsDur)
  BY DEF IInv
<1>4. P \in packs  BY <1>1, <1>3 DEF PubInv
<1>5. /\ packsDur' \subseteq packs \cup packsDur /\ packs \cap packsDur \subseteq packsDur' /\ P \in packsDur'
  BY <1>1, <1>4, SyncTiersFacts DEF SyncTiers
<1>6. \A v \in PackWriters : /\ pub'[v].pack = pub[v].pack
                             /\ (v # w => pub'[v].step = pub[v].step)
                             /\ (pub'[v].step = "formatting" <=> pub[v].step = "formatting")
                             /\ (pub'[v].step \in {"renamed", "synced"} => pub[v].step \in {"renamed", "synced"})
                             /\ (pub'[v].step \in {"formatted", "renamed", "synced"}
                                   => pub[v].step \in {"formatted", "renamed", "synced"})
  BY <1>1, <1>2 DEF GoesOn
<1>7. pub'[w].step = "synced" /\ pub'[w].pack = P /\ P \in Packs  BY <1>2 DEF GoesOn
<1> HIDE DEF P
<1>8. Safe(packs, packsDur, budget.failures) \subseteq Safe(packs', packsDur', budget.failures)
      /\ P \in Safe(packs', packsDur', budget.failures)
  BY <1>1, <1>4, <1>5 DEF Safe
<1>9. FmtInv(format', pub', packs' \cup packsDur', up, budget.failures)
  <2>1. packs' \cup packsDur' \subseteq packs \cup packsDur  BY <1>1, <1>5
  <2> QED  BY <2>1, <1>1, <1>3, <1>6 DEF FmtInv
<1>10. PubInv(pub', packs', packsDur', budget.failures)
  <2>1. \A v \in PackWriters : pub'[v].step \in {"renamed", "synced"} => pub'[v].pack \in packs'
    BY <1>1, <1>3, <1>6 DEF PubInv
  <2>2. \A v \in PackWriters : pub'[v].step = "synced" => pub'[v].pack \in Safe(packs', packsDur', budget.failures)
    BY <1>3, <1>6, <1>7, <1>8 DEF PubInv
  <2>3. ASSUME NEW p \in packs'
        PROVE  \/ p \in Safe(packs', packsDur', budget.failures)
               \/ \E v \in PackWriters : pub'[v].step = "renamed" /\ pub'[v].pack = p
    <3>1. CASE p = P  BY <3>1, <1>8
    <3>2. CASE p # P
      <4>1. p \in packs  BY <1>1
      <4>2. CASE p \in Safe(packs, packsDur, budget.failures)  BY <4>2, <1>8
      <4>3. CASE \E v \in PackWriters : pub[v].step = "renamed" /\ pub[v].pack = p
        BY <4>3, <3>2, <1>6, <1>7
      <4> QED  BY <4>1, <4>2, <4>3, <1>3 DEF PubInv
    <3> QED  BY <3>1, <3>2
  <2> QED  BY <2>1, <2>2, <2>3 DEF PubInv
<1>11. RootInv(format', roots', rootsDur', pub'[Tool], budget.failures)
  <2>1. Tool \in PackWriters  BY DEF PackWriters
  <2>2. pub[Tool].step = "rooting" <=> pub'[Tool].step = "rooting"  BY <2>1, <1>1, <1>2 DEF GoesOn
  <2> QED  BY <2>2, <1>1, <1>3 DEF RootInv
<1>12. DiskTypes(loose, looseDur, packs', packsDur', bad', format', roots', rootsDur')
  <2>1. packsDur' \subseteq Packs  BY <1>3, <1>5 DEF DiskTypes
  <2> QED  BY <2>1, <1>1, <1>3 DEF DiskTypes
<1> QED  BY <1>1, <1>2, <1>8, <1>9, <1>10, <1>11, <1>12, PubStepKeeps

\* The pack a writer has published is there for good, and its locator lists it.
LEMMA IndexPackStep == ASSUME IInv, NEW w \in PackWriters, IndexPack(w) PROVE IInv'
<1> DEFINE P == pub[w].pack
<1>1. /\ pub[w].step = "synced" /\ locator' = locator \cup {P} /\ pub' = [pub EXCEPT ![w] = NoPub]
      /\ UNCHANGED <<disk, live, up, uploading, budget>>
      /\ \/ w = Tool /\ command' = [command EXCEPT !.queue = @ \ {P}, !.doomed = @ \ {P}]
         \/ w # Tool /\ command' = command
  BY DEF IndexPack, Publishing
<1>2. /\ pub \in [PackWriters -> Pubs] /\ command \in Tools /\ locator \subseteq Packs
      /\ StateTypes(live, up, locator, uploading, pub, command, budget)
  BY DEF IInv, StateTypes
<1>3. UNCHANGED <<loose, looseDur, packs, packsDur, bad, format, roots, rootsDur>>
  BY <1>1 DEF disk
<1>4. P \in Packs /\ P \in Safe(packs, packsDur, budget.failures)
  <2>1. pub[w] \in [step : PubSteps, pack : Packs]  BY <1>1, <1>2 DEF Pubs, NoPub
  <2> QED  BY <2>1, <1>1 DEF IInv, PubInv
<1>5. /\ pub' \in [PackWriters -> Pubs] /\ pub'[w].step = "none" /\ \A v \in PackWriters : v # w => pub'[v] = pub[v]
  BY <1>1, <1>2 DEF Pubs, NoPub
<1>6. Tool \in PackWriters /\ \A r \in Requests : r \in PackWriters /\ r # Tool
  BY PacksAssumption DEF PackWriters
<1> HIDE DEF P
<1>7. /\ command' \in Tools /\ command'.op = command.op /\ command'.step = command.step /\ command'.left = command.left
      /\ command'.dest = command.dest /\ command'.todo = command.todo /\ command'.need = command.need
      /\ command'.source = command.source /\ command'.doomed \subseteq command.doomed
      /\ (up # "tool" => command' = command)
  <2>1. up # "tool" => w # Tool  BY <1>1 DEF IInv, WhoInv
  <2>2. CASE w = Tool
    <3>1. command' = [command EXCEPT !.queue = @ \ {P}, !.doomed = @ \ {P}] /\ up = "tool"
      BY <2>1, <2>2, <1>1
    <3>2. command' \in Tools  BY <3>1, <1>2 DEF Tools
    <3> QED  BY <3>1, <3>2, <1>2 DEF Tools
  <2>3. CASE w # Tool  BY <2>3, <1>1, <1>2
  <2> QED  BY <2>2, <2>3
<1>8. StateTypes(live', up', locator', uploading', pub', command', budget')
  BY <1>1, <1>2, <1>4, <1>5, <1>7 DEF StateTypes
<1>9. WhoInv(up', uploading', pub', command')
  <2>1. WhoInv(up, uploading, pub, command)  BY DEF IInv
  <2> QED  BY <2>1, <1>1, <1>5, <1>6, <1>7 DEF WhoInv
<1>10. PubInv(pub', packs', packsDur', budget'.failures)
  <2>1. PubInv(pub, packs, packsDur, budget.failures)  BY DEF IInv
  <2>2. \A v \in PackWriters : pub'[v] = pub[v] \/ (pub'[v].step = "none" /\ pub[v].step = "synced")
    BY <1>1, <1>5
  <2> QED  BY <2>1, <2>2, <1>1, <1>3 DEF PubInv
<1>11. FmtInv(format', pub', (packs \cup packsDur)', up', budget'.failures)
  <2>1. FmtInv(format, pub, packs \cup packsDur, up, budget.failures)  BY DEF IInv
  <2>2. \A v \in PackWriters : pub'[v] = pub[v] \/ (pub'[v].step = "none" /\ pub[v].step = "synced")
    BY <1>1, <1>5
  <2> QED  BY <2>1, <2>2, <1>1, <1>3 DEF FmtInv
<1>12. RootInv(format', roots', rootsDur', pub'[Tool], budget'.failures)
  <2>1. RootInv(format, roots, rootsDur, pub[Tool], budget.failures)  BY DEF IInv
  <2>2. pub[Tool].step = "rooting" <=> pub'[Tool].step = "rooting"  BY <1>1, <1>5, <1>6
  <2> QED  BY <2>1, <2>2, <1>1, <1>3 DEF RootInv
<1>13. ServeInv(up', locator', Safe(packs', packsDur', budget'.failures), uploading', pub', loose')
  <2> SUFFICES ASSUME up = "serve"
               PROVE  /\ locator' \subseteq Safe(packs, packsDur, budget.failures)
                      /\ \A r \in Requests : \A c \in uploading[r].obj :
                           \/ c \in uploading[r].left \/ c \in uploading[r].built
                           \/ pub'[r].step # "none" /\ c \in pub'[r].pack.recs
                           \/ HasCopy(c, loose, locator')
    BY <1>1, <1>3 DEF ServeInv
  <2>1. /\ locator \subseteq Safe(packs, packsDur, budget.failures)
        /\ \A r \in Requests : \A c \in uploading[r].obj :
             \/ c \in uploading[r].left \/ c \in uploading[r].built
             \/ pub[r].step # "none" /\ c \in pub[r].pack.recs
             \/ HasCopy(c, loose, locator)
    BY DEF IInv, ServeInv
  <2>2. ASSUME NEW r \in Requests, NEW c \in uploading[r].obj
        PROVE  \/ c \in uploading[r].left \/ c \in uploading[r].built
               \/ pub'[r].step # "none" /\ c \in pub'[r].pack.recs
               \/ HasCopy(c, loose, locator')
    <3>1. HasCopy(c, loose, locator) => HasCopy(c, loose, locator')  BY <1>1, MoreCopies
    <3>2. CASE r = w
      <4>1. c \in P.recs => HasCopy(c, loose, locator')  BY <1>1 DEF HasCopy, Held
      <4> QED  BY <4>1, <3>1, <3>2, <2>1 DEF P
    <3>3. CASE r # w  BY <3>1, <3>3, <2>1, <1>5, <1>6
    <3> QED  BY <3>2, <3>3
  <2> QED  BY <2>1, <2>2, <1>1, <1>4
<1>14. Kept \subseteq Kept' /\ (up # "down" => P \in Kept')
  BY <1>1, <1>3, <1>4 DEF Kept, Copies
<1>15. KeepInv(live', loose', Kept')
  <2>1. KeepInv(live, loose, Kept)  BY DEF IInv
  <2> QED  BY <2>1, <1>1, <1>3, <1>14, MoreCopies DEF KeepInv
<1>16. ToolInv(command', pub'[Tool], loose', Kept', LiveChunks')
  <2>1. ToolInv(command, pub[Tool], loose, Kept, UNION live)  BY DEF IInv, LiveChunks
  <2>2. \A c : Held(c, Kept) => Held(c, Kept')  BY <1>14 DEF Held
  <2>3. \A c, X, Y : Y \subseteq X /\ HasCopy(c, loose, Kept \ X) => HasCopy(c, loose, Kept' \ Y)
    BY <1>14 DEF HasCopy, Held
  <2>4. CASE w # Tool
    <3>1. pub'[Tool] = pub[Tool] /\ command' = command  BY <2>4, <1>1, <1>5, <1>6
    <3> QED  BY <3>1, <2>1, <2>2, <2>3, <1>1, <1>3 DEF ToolInv, LiveChunks
  <2>5. CASE w = Tool
    <3>1. pub'[Tool].step = "none" /\ pub[Tool].pack = P /\ pub[Tool].step # "none" /\ up # "down"
      BY <2>5, <1>1, <1>5, <1>6 DEF P, IInv, WhoInv
    <3>2. \A c : InHand(pub[Tool], c) => Held(c, Kept')  BY <3>1, <1>14 DEF InHand, Held
    <3>3. command.step = "moving" => \A c : InHand(pub[Tool], c) => HasCopy(c, loose, Kept' \ command.source)
      BY <3>1, <1>14, <2>1 DEF ToolInv, InHand, HasCopy, Held
    <3> QED  BY <3>1, <3>2, <3>3, <2>1, <2>2, <2>3, <1>1, <1>3, <1>7 DEF ToolInv, LiveChunks
  <2> QED  BY <2>4, <2>5
<1>17. DiskTypes(loose', looseDur', packs', packsDur', bad', format', roots', rootsDur')
  BY <1>3 DEF IInv
<1>18. ~({"power", "unsyncedExit"} \subseteq budget'.failures)  BY <1>1 DEF IInv
<1> QED  BY <1>8, <1>9, <1>10, <1>11, <1>12, <1>13, <1>15, <1>16, <1>17, <1>18 DEF IInv
-----------------------------------------------------------------------------
(* Uploads.                                                                *)

\* What an upload does beside publishing: the packs and the format stay.
UploadStep ==
  /\ up = "serve" /\ UNCHANGED <<packs, packsDur, format, roots, rootsDur, up, locator, command>>
  /\ loose \subseteq loose' /\ loose' \subseteq looseDur' /\ looseDur' \subseteq Chunks
  /\ bad' \subseteq bad /\ live' \subseteq Objects
  /\ budget' \in Allowances /\ budget'.failures = budget.failures

\* A step of an upload keeps the invariant if its chunks stay on their way.
LEMMA UploadStepKeeps ==
  ASSUME IInv, UploadStep, uploading' \in [Requests -> Reqs], pub' \in [PackWriters -> Pubs],
         WhoInv(up, uploading', pub', command), PubInv(pub', packs, packsDur, budget.failures),
         FmtInv(format, pub', packs \cup packsDur, up, budget.failures),
         ServeInv(up, locator, Safe(packs, packsDur, budget.failures), uploading', pub', loose'),
         KeepInv(live', loose', Kept)
  PROVE  IInv'
<1>1. /\ UNCHANGED <<packs, packsDur, format, roots, rootsDur, up, locator, command>>
      /\ budget'.failures = budget.failures /\ up = "serve"
  BY DEF UploadStep
<1>2. DiskTypes(loose', looseDur', packs', packsDur', bad', format', roots', rootsDur')
  BY DEF IInv, DiskTypes, UploadStep
<1>3. StateTypes(live', up', locator', uploading', pub', command', budget')
  BY DEF IInv, StateTypes, UploadStep
<1>4. Kept' = Kept  BY <1>1 DEF Kept
<1>5. command = NoCommand /\ pub'[Tool].step = "none" /\ pub[Tool].step = "none"
  BY <1>1 DEF IInv, WhoInv
<1>6. ToolInv(command', pub'[Tool], loose', Kept', LiveChunks')
  <2>1. command'.op = "none" /\ command'.step = "none"  BY <1>1, <1>5 DEF NoCommand
  <2> QED  BY <2>1 DEF ToolInv
<1>7. RootInv(format', roots', rootsDur', pub'[Tool], budget'.failures)
  BY <1>1, <1>5 DEF IInv, RootInv
<1>8. ~({"power", "unsyncedExit"} \subseteq budget'.failures)  BY <1>1 DEF IInv
<1> QED  BY <1>1, <1>2, <1>3, <1>4, <1>6, <1>7, <1>8 DEF IInv

\* What every step of an upload starts from.
LEMMA UploadFacts ==
  ASSUME IInv
  PROVE  /\ uploading \in [Requests -> Reqs] /\ pub \in [PackWriters -> Pubs] /\ budget \in Allowances
         /\ live \subseteq Objects /\ loose \subseteq looseDur /\ looseDur \subseteq Chunks
         /\ WhoInv(up, uploading, pub, command) /\ PubInv(pub, packs, packsDur, budget.failures)
         /\ FmtInv(format, pub, packs \cup packsDur, up, budget.failures)
         /\ ServeInv(up, locator, Safe(packs, packsDur, budget.failures), uploading, pub, loose)
         /\ KeepInv(live, loose, Kept)
         /\ (\A r \in Requests : r \in PackWriters /\ r # Tool)
         /\ (up = "serve" => Kept = locator)
<1>1. up = "serve" => Kept = locator
  BY DEF IInv, ServeInv, Kept, Copies
<1> QED  BY <1>1, PacksAssumption DEF IInv, StateTypes, DiskTypes, PackWriters

\* PutObject: all chunks of the object are still to come.
LEMMA PutObjectStep == ASSUME IInv, NEW w \in Requests, PacksPutObject(w) PROVE IInv'
<1>1. PICK o \in Objects : uploading' = [uploading EXCEPT ![w] = [obj |-> o, left |-> o, built |-> {}]]
  BY DEF PacksPutObject
<1>2. /\ up = "serve" /\ uploading[w] = NoUpload /\ budget.uploads > 0
      /\ budget' = [budget EXCEPT !.uploads = @ - 1]
      /\ UNCHANGED <<disk, live, up, locator, pub, command>>
  BY DEF PacksPutObject
<1> DEFINE x == [obj |-> o, left |-> o, built |-> {}]
<1>3. x \in Reqs /\ x.obj = o /\ x.left = o /\ (x # NoUpload => x.obj # {})
  BY PacksAssumption DEF Reqs, NoUpload
<1> HIDE DEF x
<1>4. /\ uploading' \in [Requests -> Reqs] /\ uploading'[w] = x /\ \A r \in Requests : r # w => uploading'[r] = uploading[r]
  BY <1>1, <1>3, UploadFacts DEF x
<1>5. budget' \in Allowances /\ budget'.failures = budget.failures
  BY <1>2, UploadFacts DEF Allowances
<1>6. UploadStep  BY <1>2, <1>5, UploadFacts DEF UploadStep, disk
<1>7. WhoInv(up, uploading', pub, command)
  BY <1>2, <1>3, <1>4, UploadFacts DEF WhoInv
<1>8. ServeInv(up, locator, Safe(packs, packsDur, budget.failures), uploading', pub, loose)
  BY <1>3, <1>4, UploadFacts DEF ServeInv
<1>9. pub' = pub /\ loose' = loose /\ live' = live  BY <1>2 DEF disk
<1> QED  BY <1>4, <1>6, <1>7, <1>8, <1>9, UploadFacts, UploadStepKeeps

\* packSink.Put: a chunk that is skipped has a copy.
LEMMA PutStep == ASSUME IInv, NEW w \in Requests, Put(w) PROVE IInv'
<1>1. PICK c \in uploading[w].left :
        uploading' = [uploading EXCEPT ![w].left = @ \ {c}, ![w].built = @ \cup (IF CasStat(c) THEN {} ELSE {c})]
  BY DEF Put
<1>2. pub[w].step = "none" /\ UNCHANGED <<disk, live, up, locator, pub, command, budget>>
  BY DEF Put, NoPub
<1>3. uploading[w] # NoUpload  BY <1>1 DEF NoUpload
<1>4. up = "serve" /\ uploading[w].obj # {} /\ uploading[w].obj \in Objects /\ uploading[w] \in Reqs
  BY <1>3, UploadFacts DEF WhoInv
<1> DEFINE new == IF CasStat(c) THEN {} ELSE {c}
           x == [uploading[w] EXCEPT !.left = @ \ {c}, !.built = @ \cup new]
<1>5. /\ x \in Reqs /\ x.obj = uploading[w].obj /\ x.left = uploading[w].left \ {c} /\ x.built = uploading[w].built \cup new
  <2>1. c \in Chunks  BY <1>1, <1>4 DEF Reqs
  <2>2. new \in SUBSET Chunks  BY <2>1
  <2> HIDE DEF new
  <2> QED  BY <1>4, <2>2 DEF Reqs
<1>6. x # NoUpload  BY <1>4, <1>5 DEF NoUpload
<1>7. uploading' = [uploading EXCEPT ![w] = x]  BY <1>1
<1>8. ~(c \in new) => HasCopy(c, loose, locator)  BY DEF CasStat, HasCopy, Held
<1> HIDE DEF x, new
<1>9. /\ uploading' \in [Requests -> Reqs] /\ uploading'[w] = x /\ \A r \in Requests : r # w => uploading'[r] = uploading[r]
  BY <1>5, <1>7, UploadFacts
<1>10. UploadStep  BY <1>2, <1>4, UploadFacts DEF UploadStep, disk
<1>11. WhoInv(up, uploading', pub, command)
  BY <1>4, <1>5, <1>6, <1>9, <1>2, UploadFacts DEF WhoInv
<1>12. ServeInv(up, locator, Safe(packs, packsDur, budget.failures), uploading', pub, loose)
  <2>1. ServeInv(up, locator, Safe(packs, packsDur, budget.failures), uploading, pub, loose)  BY UploadFacts
  <2>2. ASSUME NEW r \in Requests, NEW d \in uploading'[r].obj
        PROVE  \/ d \in uploading'[r].left \/ d \in uploading'[r].built
               \/ pub[r].step # "none" /\ d \in pub[r].pack.recs
               \/ HasCopy(d, loose, locator)
    <3>1. CASE r # w  BY <3>1, <2>1, <1>4, <1>9 DEF ServeInv
    <3>2. CASE r = w /\ d = c  BY <3>2, <1>5, <1>8, <1>9
    <3>3. CASE r = w /\ d # c  BY <3>3, <2>1, <1>4, <1>5, <1>9 DEF ServeInv
    <3> QED  BY <3>1, <3>2, <3>3
  <2> QED  BY <2>1, <2>2 DEF ServeInv
<1>13. pub' = pub /\ loose' = loose /\ live' = live  BY <1>2 DEF disk
<1> QED  BY <1>9, <1>10, <1>11, <1>12, <1>13, UploadFacts, UploadStepKeeps

\* packSink.publish hands the builder to publishPack.
LEMMA PublishBuiltStep == ASSUME IInv, NEW w \in Requests, PublishBuilt(w) PROVE IInv'
<1> DEFINE pack(d) == [tier |-> Hot, recs |-> uploading[w].built, deflated |-> d]
<1>1. PICK d \in budget.deflate : StartPublish(w, pack(d))  BY DEF PublishBuilt
<1>2. /\ pub[w].step = "none" /\ uploading[w].built # {} /\ uploading' = [uploading EXCEPT ![w].built = {}]
      /\ UNCHANGED <<disk, live, up, locator, command, budget>>
  BY DEF PublishBuilt, NoPub
<1>3. uploading[w] # NoUpload  BY <1>2 DEF NoUpload
<1>4. up = "serve" /\ uploading[w].obj # {} /\ uploading[w].obj \in Objects /\ uploading[w] \in Reqs
  BY <1>3, UploadFacts DEF WhoInv
<1>5. pack(d) \in Packs /\ pack(d).tier = Hot /\ pack(d).recs = uploading[w].built
  <2>1. d \in BOOLEAN /\ Hot \in Tiers
    BY UploadFacts, PacksAssumption DEF Allowances, Hot, Tiers
  <2> QED  BY <2>1, <1>2, <1>4 DEF Packs, Reqs
<1> DEFINE P == pack(d)
           x == [uploading[w] EXCEPT !.built = {}]
<1> HIDE DEF pack
<1>6. x \in Reqs /\ x.obj = uploading[w].obj /\ x.left = uploading[w].left /\ x # NoUpload
  BY <1>4 DEF Reqs, NoUpload
<1>7. uploading' = [uploading EXCEPT ![w] = x]  BY <1>2
<1> HIDE DEF x, P
<1>8. /\ uploading' \in [Requests -> Reqs] /\ uploading'[w] = x /\ \A r \in Requests : r # w => uploading'[r] = uploading[r]
  BY <1>6, <1>7, UploadFacts
<1>9. Staged(P) \in Pubs /\ Staged(P).step = "staged" /\ Staged(P).pack = P
  BY <1>5 DEF Staged, Pubs, PubSteps, P
<1>10. /\ pub' \in [PackWriters -> Pubs] /\ pub'[w] = Staged(P) /\ \A v \in PackWriters : v # w => pub'[v] = pub[v]
  BY <1>1, <1>9, UploadFacts DEF StartPublish, Staged, P
<1>11. UploadStep  BY <1>2, <1>4, UploadFacts DEF UploadStep, disk
<1>12. WhoInv(up, uploading', pub', command)
  BY <1>4, <1>5, <1>6, <1>8, <1>9, <1>10, UploadFacts DEF WhoInv, P, PackWriters
<1>13. \A v \in PackWriters : pub'[v] = pub[v] \/ (pub'[v].step = "staged" /\ pub[v].step = "none")
  BY <1>2, <1>9, <1>10
<1>14. PubInv(pub', packs, packsDur, budget.failures)  BY <1>13, UploadFacts DEF PubInv
<1>15. FmtInv(format, pub', packs \cup packsDur, up, budget.failures)
  BY <1>13, UploadFacts DEF FmtInv
<1>16. ServeInv(up, locator, Safe(packs, packsDur, budget.failures), uploading', pub', loose)
  <2>1. ServeInv(up, locator, Safe(packs, packsDur, budget.failures), uploading, pub, loose)  BY UploadFacts
  <2>2. ASSUME NEW r \in Requests, NEW c \in uploading'[r].obj
        PROVE  \/ c \in uploading'[r].left \/ c \in uploading'[r].built
               \/ pub'[r].step # "none" /\ c \in pub'[r].pack.recs
               \/ HasCopy(c, loose, locator)
    <3>1. CASE r # w
      <4>1. pub'[r] = pub[r]  BY <3>1, <1>10, UploadFacts
      <4> QED  BY <3>1, <4>1, <2>1, <1>4, <1>8 DEF ServeInv
    <3>2. CASE r = w
      <4>1. c \in uploading[w].built => c \in pub'[w].pack.recs /\ pub'[w].step # "none"
        BY <1>5, <1>9, <1>10 DEF P
      <4>2. c \in uploading[w].obj /\ uploading'[w].left = uploading[w].left  BY <3>2, <1>6, <1>8
      <4> QED  BY <3>2, <4>1, <4>2, <2>1, <1>2, <1>4 DEF ServeInv
    <3> QED  BY <3>1, <3>2
  <2> QED  BY <2>1, <2>2 DEF ServeInv
<1>17. loose' = loose /\ live' = live  BY <1>2 DEF disk
<1> QED  BY <1>8, <1>10, <1>11, <1>12, <1>14, <1>15, <1>16, <1>17, UploadFacts, UploadStepKeeps

\* Flush writes the remainder to loose files.
LEMMA FlushLooseStep == ASSUME IInv, NEW w \in Requests, FlushLoose(w) PROVE IInv'
<1> DEFINE new == {c \in uploading[w].built : ~CasStat(c)}
<1>1. /\ pub[w].step = "none" /\ uploading[w].built # {} /\ uploading' = [uploading EXCEPT ![w].built = {}]
      /\ loose' = loose \cup new /\ looseDur' = looseDur \cup new /\ bad' \subseteq bad
      /\ UNCHANGED <<packs, packsDur, format, roots, rootsDur, live, up, locator, pub, command, budget>>
  BY DEF FlushLoose, NoPub
<1>2. uploading[w] # NoUpload  BY <1>1 DEF NoUpload
<1>3. up = "serve" /\ uploading[w].obj # {} /\ uploading[w].obj \in Objects /\ uploading[w] \in Reqs
  BY <1>2, UploadFacts DEF WhoInv
<1> DEFINE x == [uploading[w] EXCEPT !.built = {}]
<1>4. x \in Reqs /\ x.obj = uploading[w].obj /\ x.left = uploading[w].left /\ x # NoUpload
  BY <1>3 DEF Reqs, NoUpload
<1>5. uploading' = [uploading EXCEPT ![w] = x]  BY <1>1
<1> HIDE DEF x
<1>6. /\ uploading' \in [Requests -> Reqs] /\ uploading'[w] = x /\ \A r \in Requests : r # w => uploading'[r] = uploading[r]
  BY <1>4, <1>5, UploadFacts
<1>7. UploadStep
  <2>1. new \subseteq Chunks  BY <1>3 DEF Reqs
  <2> QED  BY <2>1, <1>1, <1>3, UploadFacts DEF UploadStep
<1>8. WhoInv(up, uploading', pub, command)
  BY <1>3, <1>4, <1>6, UploadFacts DEF WhoInv
<1>9. \A c : HasCopy(c, loose, locator) => HasCopy(c, loose', locator)  BY <1>1 DEF HasCopy
<1>10. \A c \in uploading[w].built : HasCopy(c, loose', locator)
  BY <1>1 DEF HasCopy, CasStat, Held
<1>11. ServeInv(up, locator, Safe(packs, packsDur, budget.failures), uploading', pub, loose')
  <2>1. ServeInv(up, locator, Safe(packs, packsDur, budget.failures), uploading, pub, loose)  BY UploadFacts
  <2>2. ASSUME NEW r \in Requests, NEW c \in uploading'[r].obj
        PROVE  \/ c \in uploading'[r].left \/ c \in uploading'[r].built
               \/ pub[r].step # "none" /\ c \in pub[r].pack.recs
               \/ HasCopy(c, loose', locator)
    <3>1. CASE r # w  BY <3>1, <2>1, <1>3, <1>6, <1>9 DEF ServeInv
    <3>2. CASE r = w
      <4>1. c \in uploading[w].obj /\ uploading'[w].left = uploading[w].left  BY <3>2, <1>4, <1>6
      <4> QED  BY <3>2, <4>1, <2>1, <1>1, <1>3, <1>9, <1>10 DEF ServeInv
    <3> QED  BY <3>1, <3>2
  <2> QED  BY <2>1, <2>2 DEF ServeInv
<1>12. KeepInv(live', loose', Kept)
  <2>1. loose \subseteq loose' /\ live' = live  BY <1>1
  <2> QED  BY <2>1, UploadFacts, MoreCopies DEF KeepInv
<1> QED  BY <1>1, <1>6, <1>7, <1>8, <1>11, <1>12, UploadFacts, UploadStepKeeps

\* The chunks of an object that is committed all have a copy.
LEMMA CommitStep == ASSUME IInv, NEW w \in Requests, PacksCommit(w) PROVE IInv'
<1>1. /\ uploading[w].obj # {} /\ uploading[w].left = {} /\ uploading[w].built = {} /\ pub[w].step = "none"
      /\ live' = live \cup {uploading[w].obj} /\ uploading' = [uploading EXCEPT ![w] = NoUpload]
      /\ UNCHANGED <<disk, up, locator, pub, command, budget>>
  BY DEF PacksCommit, NoPub
<1>2. uploading[w] # NoUpload  BY <1>1 DEF NoUpload
<1>3. up = "serve" /\ uploading[w] \in Reqs /\ uploading[w].obj \in Objects  BY <1>2, UploadFacts DEF WhoInv
<1>4. NoUpload \in Reqs /\ NoUpload.obj = {}  BY DEF NoUpload, Reqs
<1>5. /\ uploading' \in [Requests -> Reqs] /\ uploading'[w] = NoUpload /\ \A r \in Requests : r # w => uploading'[r] = uploading[r]
  BY <1>1, <1>4, UploadFacts
<1>6. UploadStep  BY <1>1, <1>3, UploadFacts DEF UploadStep, disk
<1>7. WhoInv(up, uploading', pub, command)  BY <1>1, <1>5, UploadFacts DEF WhoInv
<1>8. ServeInv(up, locator, Safe(packs, packsDur, budget.failures), uploading', pub, loose)
  BY <1>4, <1>5, UploadFacts DEF ServeInv
<1>9. KeepInv(live', loose, Kept)
  <2>1. \A c \in uploading[w].obj : HasCopy(c, loose, locator)
    BY <1>1, <1>3, UploadFacts DEF ServeInv
  <2>2. \A c \in UNION live : HasCopy(c, loose, Kept)  BY UploadFacts DEF KeepInv
  <2>3. Kept = locator  BY <1>3, UploadFacts
  <2> QED  BY <2>1, <2>2, <2>3, <1>1 DEF KeepInv
<1>10. pub' = pub /\ loose' = loose  BY <1>1 DEF disk
<1> QED  BY <1>5, <1>6, <1>7, <1>8, <1>9, <1>10, UploadFacts, UploadStepKeeps

\* DeleteObject keeps the invariant.
LEMMA DeleteObjectStep == ASSUME IInv, PacksDeleteObject PROVE IInv'
<1>1. /\ up = "serve" /\ live' \subseteq live
      /\ UNCHANGED <<disk, up, locator, uploading, pub, command, budget>>
  BY DEF PacksDeleteObject
<1>2. UploadStep  BY <1>1, UploadFacts DEF UploadStep, disk
<1>3. KeepInv(live', loose, Kept)  BY <1>1, UploadFacts DEF KeepInv
<1>4. pub' = pub /\ loose' = loose /\ uploading' = uploading  BY <1>1 DEF disk
<1> QED  BY <1>2, <1>3, <1>4, UploadFacts, UploadStepKeeps

\* A process that ends between a rename and its fsync is not followed by a
\* power failure in the behaviours these proofs are about.
LEMMA RequestFailsStep == ASSUME IInv, NEW w \in Requests, RequestFails(w) PROVE IInv'
<1>1. /\ uploading[w] # NoUpload /\ (pub[w].step \in {"formatting", "renamed"} => "unsyncedExit" \in budget.failures)
      /\ uploading' = [uploading EXCEPT ![w] = NoUpload] /\ pub' = [pub EXCEPT ![w] = NoPub]
      /\ UNCHANGED <<disk, live, up, locator, command, budget>>
  BY DEF RequestFails
<1>2. up = "serve"  BY <1>1, UploadFacts DEF WhoInv
<1>3. NoUpload \in Reqs /\ NoUpload.obj = {}  BY DEF NoUpload, Reqs
<1>4. /\ uploading' \in [Requests -> Reqs] /\ uploading'[w] = NoUpload /\ \A r \in Requests : r # w => uploading'[r] = uploading[r]
  BY <1>1, <1>3, UploadFacts
<1>5. NoPub \in Pubs /\ NoPub.step = "none"  BY DEF NoPub, Pubs
<1>6. /\ pub' \in [PackWriters -> Pubs] /\ pub'[w].step = "none" /\ \A v \in PackWriters : v # w => pub'[v] = pub[v]
  BY <1>1, <1>5, UploadFacts
<1>7. \A v \in PackWriters : pub'[v] = pub[v] \/ pub'[v].step = "none"  BY <1>6
<1>8. "power" \in budget.failures => pub[w].step # "formatting" /\ pub[w].step # "renamed"
  BY <1>1 DEF IInv
<1>9. UploadStep  BY <1>1, <1>2, UploadFacts DEF UploadStep, disk
<1>10. WhoInv(up, uploading', pub', command)
  BY <1>4, <1>6, UploadFacts DEF WhoInv, PackWriters
<1>11. PubInv(pub', packs, packsDur, budget.failures)
  <2>1. PubInv(pub, packs, packsDur, budget.failures)  BY UploadFacts
  <2>2. CASE "power" \in budget.failures
    <3>1. \A v \in PackWriters : pub[v].step = "renamed" => pub'[v] = pub[v]  BY <2>2, <1>6, <1>8
    <3> QED  BY <2>1, <3>1, <1>7 DEF PubInv
  <2>3. CASE "power" \notin budget.failures
    <3>1. \A p \in packs : p \in Safe(packs, packsDur, budget.failures)  BY <2>3 DEF Safe
    <3> QED  BY <2>1, <3>1, <1>7 DEF PubInv
  <2> QED  BY <2>2, <2>3
<1>12. FmtInv(format, pub', packs \cup packsDur, up, budget.failures)
  <2>1. FmtInv(format, pub, packs \cup packsDur, up, budget.failures)  BY UploadFacts
  <2>2. "power" \in budget.failures => \A v \in PackWriters : pub[v].step = "formatting" => pub'[v] = pub[v]
    BY <1>6, <1>8
  <2> QED  BY <2>1, <2>2, <1>7 DEF FmtInv
<1>13. ServeInv(up, locator, Safe(packs, packsDur, budget.failures), uploading', pub', loose)
  <2>1. ServeInv(up, locator, Safe(packs, packsDur, budget.failures), uploading, pub, loose)  BY UploadFacts
  <2>2. \A r \in Requests : r # w => uploading'[r] = uploading[r] /\ pub'[r] = pub[r]  BY <1>4, <1>6, UploadFacts
  <2> QED  BY <2>1, <2>2, <1>3, <1>4 DEF ServeInv
<1>14. loose' = loose /\ live' = live  BY <1>1 DEF disk
<1> QED  BY <1>4, <1>6, <1>9, <1>10, <1>11, <1>12, <1>13, <1>14, UploadFacts, UploadStepKeeps
-----------------------------------------------------------------------------
(* A process opens the store.                                              *)

\* While no process is up nobody publishes, and all packs would be loaded.
LEMMA DownFacts ==
  ASSUME IInv, up = "down"
  PROVE  /\ Quiet /\ Kept = packs /\ Loadable = packs /\ command = NoCommand
         /\ \A r \in Requests : uploading[r] = NoUpload
<1>1. command = NoCommand /\ pub[Tool].step = "none" /\ \A r \in Requests : uploading[r] = NoUpload /\ pub[r].step = "none"
  BY DEF IInv, WhoInv
<1>2. Quiet  BY <1>1 DEF Quiet, PackWriters
<1>3. Kept = packs  BY <1>2, QuietSafe DEF Kept, Copies, Safe
<1> QED  BY <1>1, <1>2, <1>3, LoadableIs

OpenStep ==
  /\ up = "down" /\ up' \in {"serve", "tool"} /\ locator' = Loadable
  /\ format' = [format EXCEPT !.mem = format.disk]
  /\ command' \in Tools /\ (up' = "serve" => command' = NoCommand)
  /\ budget' \in Allowances /\ budget'.failures = budget.failures
  /\ UNCHANGED <<loose, looseDur, packs, packsDur, bad, roots, rootsDur, live, uploading, pub>>

\* Opening the store keeps the invariant if the plan of the process does.
LEMMA OpenStepKeeps ==
  ASSUME IInv, OpenStep, ToolInv(command', pub[Tool], loose, packs, UNION live)
  PROVE  IInv'
<1>1. /\ up = "down" /\ up' \in {"serve", "tool"} /\ locator' = packs
      /\ (up' = "serve" => command' = NoCommand) /\ budget'.failures = budget.failures
      /\ UNCHANGED <<loose, looseDur, packs, packsDur, bad, roots, rootsDur, live, uploading, pub>>
  BY DownFacts DEF OpenStep
<1>2. /\ Quiet /\ Kept = packs /\ \A r \in Requests : uploading[r] = NoUpload
  BY <1>1, DownFacts
<1>3. /\ format' \in [mem : Formats, disk : Formats, dur : Formats]
      /\ format'.mem = format.disk /\ format'.disk = format.disk /\ format'.dur = format.dur
  <2>1. format \in [mem : Formats, disk : Formats, dur : Formats]  BY DEF IInv, DiskTypes
  <2>2. format' = [format EXCEPT !.mem = format.disk]  BY DEF OpenStep
  <2> QED  BY <2>1, <2>2
<1>4. DiskTypes(loose', looseDur', packs', packsDur', bad', format', roots', rootsDur')
  BY <1>1, <1>3 DEF IInv, DiskTypes
<1>5. StateTypes(live', up', locator', uploading', pub', command', budget')
  <2>1. StateTypes(live, up, locator, uploading, pub, command, budget) /\ packs \subseteq Packs
    BY DEF IInv, DiskTypes
  <2> QED  BY <2>1, <1>1 DEF StateTypes, OpenStep
<1>6. WhoInv(up', uploading', pub', command')
  <2>1. WhoInv(up, uploading, pub, command)  BY DEF IInv
  <2> QED  BY <2>1, <1>1, <1>2 DEF WhoInv
<1>7. PubInv(pub', packs', packsDur', budget'.failures)  BY <1>1 DEF IInv
<1>8. FmtInv(format', pub', (packs \cup packsDur)', up', budget'.failures)
  <2>1. FmtInv(format, pub, packs \cup packsDur, up, budget.failures)  BY DEF IInv
  <2>2. \A w \in PackWriters : pub[w].step = "none"  BY <1>2 DEF Quiet
  <2>3. format.disk \in Nat  BY <1>3 DEF Formats, Plain, Packed, Compressed, Tiered
  <2> QED  BY <2>1, <2>2, <2>3, <1>1, <1>3 DEF FmtInv
<1>9. RootInv(format', roots', rootsDur', pub'[Tool], budget'.failures)
  BY <1>1, <1>3 DEF IInv, RootInv
<1>10. Safe(packs', packsDur', budget'.failures) = packs /\ Kept' = packs
  <2>1. Safe(packs, packsDur, budget.failures) = packs  BY <1>2, QuietSafe DEF Safe
  <2> QED  BY <2>1, <1>1 DEF Kept, Copies
<1>11. ServeInv(up', locator', Safe(packs', packsDur', budget'.failures), uploading', pub', loose')
  <2>1. \A r \in Requests : uploading[r].obj = {}  BY <1>2 DEF NoUpload
  <2> QED  BY <2>1, <1>1, <1>10 DEF ServeInv
<1>12. ToolInv(command', pub'[Tool], loose', Kept', LiveChunks')  BY <1>1, <1>10 DEF LiveChunks
<1>13. KeepInv(live', loose', Kept')  BY <1>1, <1>2, <1>10 DEF IInv
<1>14. ~({"power", "unsyncedExit"} \subseteq budget'.failures)  BY <1>1 DEF IInv
<1> QED  BY <1>4, <1>5, <1>6, <1>7, <1>8, <1>9, <1>11, <1>12, <1>13, <1>14 DEF IInv

\* NoTool is a command that plans nothing.
LEMMA NoToolFacts ==
  /\ NoCommand \in Tools /\ NoCommand.op = "none" /\ NoCommand.step = "none"
  /\ NoCommand.doomed = {} /\ NoCommand.todo = {} /\ NoCommand.left = {}
<1>1. Hot \in Tiers  BY PacksAssumption DEF Hot, Tiers
<1> QED  BY <1>1 DEF NoCommand, Tools, ToolSteps

\* A server opens the store.
LEMMA ServeStep == ASSUME IInv, PacksServe PROVE IInv'
<1>1. budget \in Allowances /\ command = NoCommand
  BY DownFacts DEF IInv, StateTypes, PacksServe
<1>2. OpenStep  BY <1>1, NoToolFacts DEF PacksServe, OpenStep
<1>3. ToolInv(command', pub[Tool], loose, packs, UNION live)
  <2>1. command'.op = "none" /\ command'.step = "none"  BY <1>1, NoToolFacts DEF PacksServe
  <2> QED  BY <2>1 DEF ToolInv
<1> QED  BY <1>2, <1>3, OpenStepKeeps

\* A command opens the store.
LEMMA OpenFacts ==
  ASSUME IInv, NEW t \in Tools, Open(t), ToolInv(t, pub[Tool], loose, packs, UNION live)
  PROVE  IInv'
<1>1. budget \in Allowances  BY DEF IInv, StateTypes
<1>2. budget' \in Allowances /\ budget'.failures = budget.failures
  BY <1>1 DEF Allowances, Open
<1>3. OpenStep  BY <1>2 DEF Open, OpenStep
<1>4. command' = t  BY DEF Open
<1> QED  BY <1>3, <1>4, OpenStepKeeps

\* What the commands choose from.
LEMMA StoreFacts ==
  ASSUME IInv
  PROVE  /\ packs \subseteq Packs /\ Loadable = packs /\ loose \subseteq Chunks
         /\ live \subseteq Objects /\ (UNION live) \subseteq Chunks
<1>1. packs \subseteq Packs /\ loose \subseteq Chunks /\ live \subseteq Objects
  BY DEF IInv, DiskTypes, StateTypes
<1> QED  BY <1>1, LoadableIs, PacksAssumption

\* compact opens the store.
LEMMA CompactStep == ASSUME IInv, Compact PROVE IInv'
<1> DEFINE todo == {c \in LiveChunks \cap loose : Held(c, Loadable)}
           cands == {c \in LiveChunks \cap loose : ~Held(c, Loadable)}
<1>1. PICK to \in Tiers :
        Open([NoCommand EXCEPT !.op = "compact", !.step = "loose", !.dest = [c \in Chunks |-> to],
                            !.todo = todo, !.cands = cands])
  BY DEF Compact
<1> DEFINE ds == [c \in Chunks |-> to]
           t == [NoCommand EXCEPT !.op = "compact", !.step = "loose", !.dest = ds,
                               !.todo = todo, !.cands = cands]
<1>2. /\ todo \in SUBSET Chunks /\ cands \in SUBSET Chunks /\ ds \in [Chunks -> Tiers]
      /\ "compact" \in OfflineCommands /\ Open(t)
  BY <1>1, StoreFacts DEF Compact
<1> HIDE DEF todo, cands, ds
<1>3. t \in Tools /\ t.op = "compact" /\ t.step = "loose"
  BY <1>2, NoToolFacts DEF Tools, ToolSteps
<1> HIDE DEF t
<1>4. ToolInv(t, pub[Tool], loose, packs, UNION live)  BY <1>3 DEF ToolInv
<1> QED  BY <1>2, <1>3, <1>4, OpenFacts

\* gc opens the store: its garbage is not live.
LEMMA GcStep == ASSUME IInv, Gc PROVE IInv'
<1> DEFINE todo == loose \ LiveChunks
           t == [NoCommand EXCEPT !.op = "gc", !.step = "garbage", !.todo = todo]
<1>1. "gc" \in OfflineCommands /\ Open(t)  BY DEF Gc
<1>2. todo \in SUBSET Chunks /\ todo \cap (UNION live) = {}  BY StoreFacts DEF LiveChunks
<1> HIDE DEF todo
<1>3. t \in Tools /\ t.op = "gc" /\ t.step = "garbage" /\ t.todo = todo
  BY <1>1, <1>2, NoToolFacts DEF Tools, ToolSteps
<1> HIDE DEF t
<1>4. ToolInv(t, pub[Tool], loose, packs, UNION live)  BY <1>2, <1>3 DEF ToolInv
<1> QED  BY <1>1, <1>3, <1>4, OpenFacts

\* repack opens the store.
LEMMA RepackStep == ASSUME IInv, Repack PROVE IInv'
<1> DEFINE tl(sel) == [NoCommand EXCEPT !.op = "repack", !.step = "stage", !.doomed = sel]
<1>1. PICK sel \in SUBSET Loadable : Open(tl(sel))  BY DEF Repack
<1>2. "repack" \in OfflineCommands  BY DEF Repack
<1>3. sel \in SUBSET Packs  BY StoreFacts
<1> DEFINE t == tl(sel)
<1>4. t \in Tools /\ t.op = "repack" /\ t.step = "stage"
  BY <1>2, <1>3, NoToolFacts DEF Tools, ToolSteps
<1> HIDE DEF t
<1>5. ToolInv(t, pub[Tool], loose, packs, UNION live)  BY <1>4 DEF ToolInv
<1> QED  BY <1>1, <1>4, <1>5, OpenFacts DEF t

\* tier move opens the store: its target is another tier.
LEMMA TierMoveStep == ASSUME IInv, TierMove PROVE IInv'
<1> DEFINE tl(sel, to) == [NoCommand EXCEPT !.op = "move", !.step = "packs", !.left = sel,
                                         !.dest = [c \in Chunks |-> to]]
<1>1. PICK from \in Tiers, to \in Tiers, sel \in SUBSET Loadable :
        (\A p \in sel : p.tier = from) /\ from # to /\ Open(tl(sel, to))
  BY DEF TierMove
<1>2. "move" \in OfflineCommands  BY DEF TierMove
<1>3. sel \in SUBSET Packs /\ \A p \in sel : p.tier # to  BY <1>1, StoreFacts
<1> DEFINE ds == [c \in Chunks |-> to]
           t == [NoCommand EXCEPT !.op = "move", !.step = "packs", !.left = sel, !.dest = ds]
<1>4. ds \in [Chunks -> Tiers] /\ \A c \in Chunks : ds[c] = to  OBVIOUS
<1>5. Open(t)  BY <1>1
<1> HIDE DEF ds
<1>6. t \in Tools /\ t.op = "move" /\ t.step = "packs" /\ t.left = sel /\ t.dest = ds /\ t.doomed = {}
  BY <1>2, <1>3, <1>4, NoToolFacts DEF Tools, ToolSteps
<1> HIDE DEF t, tl
<1>7. ToolInv(t, pub[Tool], loose, packs, UNION live)  BY <1>3, <1>4, <1>6 DEF ToolInv
<1> QED  BY <1>5, <1>6, <1>7, OpenFacts

\* tierTargets gives every chunk a tier.
LEMMA TargetsFacts ==
  ASSUME IInv, NEW want \in [Objects -> Tiers]
  PROVE  Targets(want) \in [Chunks -> Tiers]
<1>1. ASSUME NEW c \in Chunks, c \in LiveChunks
      PROVE  (CHOOSE t \in Tiers : /\ \E o \in live : c \in o /\ want[o] = t
                                   /\ \A o \in live : c \in o => t <= want[o]) \in Tiers
  <2> DEFINE S == {want[o] : o \in {x \in live : c \in x}}
  <2>1. live \subseteq Objects  BY StoreFacts
  <2>2. S \in SUBSET Tiers  BY <2>1
  <2>3. S # {}  BY <1>1 DEF LiveChunks
  <2>4. PICK m \in S : \A u \in S : m <= u  BY <2>2, <2>3, HottestTier
  <2>5. m \in Tiers /\ (\E o \in live : c \in o /\ want[o] = m) /\ \A o \in live : c \in o => m <= want[o]
    BY <2>2, <2>4
  <2> QED  BY <2>5
<1>2. Hot \in Tiers  BY PacksAssumption DEF Hot, Tiers
<1> QED  BY <1>1, <1>2 DEF Targets

\* tier rebalance opens the store.
LEMMA RebalanceStep == ASSUME IInv, Rebalance PROVE IInv'
<1>1. PICK want \in [Objects -> Tiers] :
        LET dest == Targets(want)
            cold == {c \in LiveChunks \cap loose : dest[c] # Hot}
            atDest(c) == Held(c, {p \in Loadable : p.tier = dest[c]})
        IN Open([NoCommand EXCEPT !.op = "rebalance", !.step = "loose", !.dest = dest,
                              !.todo = {c \in cold : atDest(c)},
                              !.cands = {c \in cold : ~atDest(c)},
                              !.left = {p \in Loadable :
                                          \E s \in Firsts(p, Loadable) :
                                            Classify(p, Loadable, dest, s) # "compliant"}])
  BY DEF Rebalance
<1>2. "rebalance" \in OfflineCommands  BY DEF Rebalance
<1> DEFINE ds == Targets(want)
           cold == {c \in LiveChunks \cap loose : ds[c] # Hot}
           at(c) == Held(c, {p \in Loadable : p.tier = ds[c]})
           todo == {c \in cold : at(c)}
           cands == {c \in cold : ~at(c)}
           left == {p \in Loadable : \E s \in Firsts(p, Loadable) :
                                       Classify(p, Loadable, ds, s) # "compliant"}
           t == [NoCommand EXCEPT !.op = "rebalance", !.step = "loose", !.dest = ds,
                               !.todo = todo, !.cands = cands, !.left = left]
<1>3. Open(t)  BY <1>1
<1>4. ds \in [Chunks -> Tiers]  BY TargetsFacts
<1>5. todo \in SUBSET Chunks /\ cands \in SUBSET Chunks /\ \A c \in todo : ds[c] # Hot
  BY StoreFacts
<1>6. left \in SUBSET Packs  BY StoreFacts
<1> HIDE DEF ds, todo, cands, left
<1>7. t \in Tools /\ t.op = "rebalance" /\ t.step = "loose" /\ t.todo = todo /\ t.dest = ds
  BY <1>2, <1>4, <1>5, <1>6, NoToolFacts DEF Tools, ToolSteps
<1> HIDE DEF t
<1>8. ToolInv(t, pub[Tool], loose, packs, UNION live)  BY <1>5, <1>7 DEF ToolInv
<1> QED  BY <1>3, <1>7, <1>8, OpenFacts
-----------------------------------------------------------------------------
(* A process ends, in order or not.                                        *)

\* What the disk must satisfy once nothing runs.
AtRest(pk, pkd, fm, ro, rod, fl) ==
  /\ \A p \in pk : p \in Safe(pk, pkd, fl)
  /\ \A p \in pk \cup pkd : Need(p) <= fm.disk /\ ("power" \in fl => Need(p) <= fm.dur)
  /\ "power" \in fl => fm.disk = fm.dur
  /\ RootInv(fm, ro, rod, NoPub, fl)

\* A process that ends keeps the invariant if the disk is at rest.
LEMMA GoneKeeps ==
  ASSUME IInv, Gone,
         DiskTypes(loose', looseDur', packs', packsDur', bad', format', roots', rootsDur'),
         AtRest(packs', packsDur', format', roots', rootsDur', budget.failures),
         KeepInv(live, loose', packs')
  PROVE  IInv'
<1>1. /\ up' = "down" /\ locator' = {} /\ command' = NoCommand /\ live' = live /\ budget' = budget
      /\ uploading' = [w \in Requests |-> NoUpload] /\ pub' = [w \in PackWriters |-> NoPub]
  BY DEF Gone
<1>2. NoUpload \in Reqs /\ NoPub \in Pubs /\ NoPub.step = "none"  BY DEF NoUpload, Reqs, Pubs, NoPub
<1>3. /\ \A w \in PackWriters : pub'[w] = NoPub
      /\ \A r \in Requests : uploading'[r] = NoUpload /\ r \in PackWriters
      /\ Tool \in PackWriters
  BY <1>1 DEF PackWriters
<1>4. StateTypes(live', up', locator', uploading', pub', command', budget')
  <2>1. live \subseteq Objects /\ budget \in Allowances  BY DEF IInv, StateTypes
  <2> QED  BY <2>1, <1>1, <1>2, NoToolFacts DEF StateTypes
<1>5. WhoInv(up', uploading', pub', command')  BY <1>1, <1>2, <1>3 DEF WhoInv
<1>6. PubInv(pub', packs', packsDur', budget'.failures)
  BY <1>1, <1>2, <1>3 DEF PubInv, AtRest
<1>7. FmtInv(format', pub', (packs \cup packsDur)', up', budget'.failures)
  BY <1>1, <1>2, <1>3 DEF FmtInv, AtRest
<1>8. RootInv(format', roots', rootsDur', pub'[Tool], budget'.failures)
  BY <1>1, <1>3 DEF AtRest
<1>9. ServeInv(up', locator', Safe(packs', packsDur', budget'.failures), uploading', pub', loose')
  BY <1>1 DEF ServeInv
<1>10. ToolInv(command', pub'[Tool], loose', Kept', LiveChunks')
  <2>1. command'.op = "none" /\ command'.step = "none"  BY <1>1, NoToolFacts
  <2> QED  BY <2>1 DEF ToolInv
<1>11. Kept' = packs'  BY <1>1 DEF Kept, Copies, Safe, AtRest
<1>12. KeepInv(live', loose', Kept')  BY <1>1, <1>11
<1>13. ~({"power", "unsyncedExit"} \subseteq budget'.failures)  BY <1>1 DEF IInv
<1> QED  BY <1>4, <1>5, <1>6, <1>7, <1>8, <1>9, <1>10, <1>12, <1>13 DEF IInv

\* The disk stays as it is, and where the power may fail it is synced.
LEMMA GoneSynced ==
  ASSUME IInv, Gone, UNCHANGED disk,
         "power" \in budget.failures => packs \subseteq packsDur /\ format.disk = format.dur /\ roots = rootsDur
  PROVE  IInv'
<1>1. UNCHANGED <<loose, looseDur, packs, packsDur, bad, format, roots, rootsDur>>  BY DEF disk
<1>2. DiskTypes(loose', looseDur', packs', packsDur', bad', format', roots', rootsDur')
  BY <1>1 DEF IInv
<1>3. AtRest(packs, packsDur, format, roots, rootsDur, budget.failures)
  <2>1. FmtInv(format, pub, packs \cup packsDur, up, budget.failures)  BY DEF IInv
  <2>2. RootInv(format, roots, rootsDur, pub[Tool], budget.failures)  BY DEF IInv
  <2> QED  BY <2>1, <2>2 DEF AtRest, FmtInv, RootInv, Safe
<1>4. KeepInv(live, loose, packs)
  <2>1. Kept \subseteq packs /\ KeepInv(live, loose, Kept)  BY DEF IInv, Kept, Copies, Safe
  <2> QED  BY <2>1, MoreCopies DEF KeepInv
<1> QED  BY <1>1, <1>2, <1>3, <1>4, GoneKeeps

\* A process exits when nothing is being published.
LEMMA ExitStep == ASSUME IInv, Exit PROVE IInv'
<1>1. Gone /\ UNCHANGED disk  BY DEF Exit
<1>2. Quiet
  <2>1. CASE up = "serve" /\ \A w \in Requests : uploading[w] = NoUpload
    <3>1. pub[Tool].step = "none" /\ \A r \in Requests : pub[r].step = "none"
      BY <2>1 DEF IInv, WhoInv
    <3> QED  BY <3>1 DEF Quiet, PackWriters
  <2>2. CASE At("done")  BY <2>2, AtFacts
  <2> QED  BY <2>1, <2>2 DEF Exit
<1>3. \A p \in packs : p \in Safe(packs, packsDur, budget.failures)  BY <1>2, QuietSafe
<1>4. "power" \in budget.failures => packs \subseteq packsDur  BY <1>3 DEF Safe
<1>5. "power" \in budget.failures => format.disk = format.dur
  BY <1>2 DEF IInv, FmtInv, Quiet
<1>6. "power" \in budget.failures => roots = rootsDur
  BY <1>2 DEF IInv, RootInv, Quiet, PackWriters
<1> QED  BY <1>1, <1>4, <1>5, <1>6, GoneSynced

\* A kill between two fsyncs, or with no power failure to follow.
LEMMA KillStep == ASSUME IInv, PacksKill PROVE IInv'
<1>1. Gone /\ UNCHANGED disk  BY DEF PacksKill
<1>2. "power" \in budget.failures => Settled  BY DEF PacksKill, IInv
<1> QED  BY <1>1, <1>2, GoneSynced DEF Settled

\* A power failure undoes neither a copy that is counted on nor a root or a
\* format that a surviving pack needs.
LEMMA PowerFailStep == ASSUME IInv, PacksPowerFail PROVE IInv'
<1>1. "power" \in budget.failures /\ Gone /\ bad' = bad  BY DEF PacksPowerFail
<1>2. /\ packs \cap packsDur \subseteq packs' /\ packs' \subseteq packs \cup packsDur
      /\ packsDur' = packs'
  <2>1. PICK s \in SUBSET (packsDur \ packs), k \in SUBSET (packs \ packsDur) :
          packs' = (packs \cap packsDur) \cup s \cup k /\ packsDur' = packs'
    BY DEF PacksPowerFail
  <2> QED  BY <2>1
<1>3. loose \subseteq loose' /\ loose' \subseteq loose \cup looseDur /\ looseDur' = loose'
  <2>1. PICK s \in SUBSET (looseDur \ loose) : loose' = loose \cup s /\ looseDur' = loose'
    BY DEF PacksPowerFail
  <2> QED  BY <2>1
<1>4. PICK v \in {format.disk, format.dur} : format' = [mem |-> v, disk |-> v, dur |-> v]
  BY DEF PacksPowerFail
<1>5. rootsDur \subseteq roots' /\ roots' \subseteq roots \cup rootsDur /\ rootsDur' = roots'
  <2>1. PICK s \in SUBSET (roots \ rootsDur) : roots' = rootsDur \cup s /\ rootsDur' = roots'
    BY DEF PacksPowerFail
  <2> QED  BY <2>1
<1>6. DiskTypes(loose, looseDur, packs, packsDur, bad, format, roots, rootsDur)  BY DEF IInv
<1>7. v \in Formats  BY <1>6 DEF DiskTypes
<1>8. /\ format' \in [mem : Formats, disk : Formats, dur : Formats]
      /\ format'.disk = v /\ format'.dur = v
  BY <1>4, <1>7
<1>9. DiskTypes(loose', looseDur', packs', packsDur', bad', format', roots', rootsDur')
  BY <1>1, <1>2, <1>3, <1>5, <1>6, <1>8 DEF DiskTypes
<1>10. AtRest(packs', packsDur', format', roots', rootsDur', budget.failures)
  <2>1. \A p \in packs' : p \in Safe(packs', packsDur', budget.failures)  BY <1>2 DEF Safe
  <2>2. \A p \in packs \cup packsDur : Need(p) <= format.disk /\ Need(p) <= format.dur
    BY <1>1 DEF IInv, FmtInv
  <2>3. \A p \in packs' \cup packsDur' : Need(p) <= v  BY <2>2, <1>2
  <2>4. v >= Tiered => ColdTiers \subseteq rootsDur  BY <1>1 DEF IInv, RootInv
  <2>5. RootInv(format', roots', rootsDur', NoPub, budget.failures)
    BY <2>4, <1>5, <1>8 DEF RootInv
  <2> QED  BY <2>1, <2>3, <2>5, <1>8 DEF AtRest
<1>11. KeepInv(live, loose', packs')
  <2>1. Kept \subseteq packs'  BY <1>1, <1>2 DEF Kept, Copies, Safe
  <2>2. KeepInv(live, loose, Kept)  BY DEF IInv
  <2> QED  BY <2>1, <2>2, <1>3, MoreCopies DEF KeepInv
<1> QED  BY <1>1, <1>9, <1>10, <1>11, GoneKeeps

\* Damage changes no presence.
LEMMA RotStep == ASSUME IInv, Rot PROVE IInv'
<1>1. /\ budget.rots > 0 /\ budget' = [budget EXCEPT !.rots = @ - 1]
      /\ UNCHANGED <<loose, looseDur, packs, packsDur, format, roots, rootsDur, live, up,
                     locator, uploading, pub, command>>
  BY DEF Rot
<1>2. PICK c \in LiveChunks, p \in Loadable \cup {LooseFile} : bad' = bad \cup {<<p, c>>}
  BY DEF Rot
<1>3. c \in Chunks /\ p \in Packs \cup {LooseFile}  BY StoreFacts DEF LiveChunks
<1>4. budget' \in Allowances /\ budget'.failures = budget.failures
  <2>1. budget \in Allowances  BY DEF IInv, StateTypes
  <2> QED  BY <2>1, <1>1 DEF Allowances
<1>5. DiskTypes(loose', looseDur', packs', packsDur', bad', format', roots', rootsDur')
  BY <1>1, <1>2, <1>3 DEF IInv, DiskTypes
<1>6. StateTypes(live', up', locator', uploading', pub', command', budget')
  BY <1>1, <1>4 DEF IInv, StateTypes
<1>7. Kept' = Kept  BY <1>1, <1>4 DEF Kept
<1> QED  BY <1>1, <1>4, <1>5, <1>6, <1>7 DEF IInv, LiveChunks
-----------------------------------------------------------------------------
(* The theorems.                                                           *)

\* A step that changes nothing keeps the invariant.
LEMMA StutterStep == ASSUME IInv, UNCHANGED packVars PROVE IInv'
<1>1. UNCHANGED <<loose, looseDur, packs, packsDur, bad, format, roots, rootsDur, live, up,
                  locator, uploading, pub, command, budget>>
  BY DEF packVars, disk
<1> QED  BY <1>1 DEF IInv, Kept, LiveChunks

\* Every step keeps the invariant.
LEMMA NextKeeps == IInv /\ [PacksNext]_packVars => IInv'
<1> SUFFICES ASSUME IInv, [PacksNext]_packVars PROVE IInv'  OBVIOUS
<1>1. CASE PacksServe \/ PacksDeleteObject \/ Compact \/ Gc \/ Repack \/ TierMove \/ Rebalance
  BY <1>1, ServeStep, DeleteObjectStep, CompactStep, GcStep, RepackStep, TierMoveStep, RebalanceStep
<1>2. CASE \E w \in Requests : \/ PacksPutObject(w) \/ Put(w) \/ PublishBuilt(w)
                               \/ FlushLoose(w) \/ PacksCommit(w) \/ RequestFails(w)
  BY <1>2, PutObjectStep, PutStep, PublishBuiltStep, FlushLooseStep, CommitStep, RequestFailsStep
<1>3. CASE \E w \in PackWriters : PublishPack(w)
  BY <1>3, MakeRootStep, SyncRootStep, RaiseFormatStep, SyncFormatStep, RenamePackStep,
     SyncPacksStep, IndexPackStep DEF PublishPack
<1>4. CASE \/ DropRedundantLoose \/ KeepLoose \/ StageLoose \/ UnlinkLoose \/ LooseDone
           \/ UnlinkGarbage \/ DeadPacks
  BY <1>4, DropRedundantLooseStep, KeepLooseStep, StageLooseStep, UnlinkLooseStep, LooseDoneStep,
     UnlinkGarbageStep, DeadPacksStep
<1>5. CASE \/ StageReplacements \/ PublishReplacement \/ CheckReplacements \/ DropPack
           \/ PacksDropped
  BY <1>5, StageReplacementsStep, PublishReplacementStep, CheckReplacementsStep, DropPackStep,
     PacksDroppedStep
<1>6. CASE MovePack \/ DeleteSource \/ SyncSource \/ VisitPack \/ FlushPending \/ PacksDone
  BY <1>6, MovePackStep, DeleteSourceStep, SyncSourceStep, VisitPackStep, FlushPendingStep,
     PacksDoneStep
<1>7. CASE Exit \/ PacksKill \/ PacksPowerFail \/ Rot
  BY <1>7, ExitStep, KillStep, PowerFailStep, RotStep
<1>8. CASE UNCHANGED packVars  BY <1>8, StutterStep
<1> QED  BY <1>1, <1>2, <1>3, <1>4, <1>5, <1>6, <1>7, <1>8 DEF PacksNext

\* No behaviour has both a process that ends between a rename and the fsync
\* of its directory and a later power failure.
FsyncedEnds == \A b \in Budgets : ~({"power", "unsyncedExit"} \subseteq b.failures)

\* The empty store satisfies the invariant.
LEMMA InitHolds == FsyncedEnds /\ PacksInit => IInv
<1> SUFFICES ASSUME FsyncedEnds, PacksInit PROVE IInv  OBVIOUS
<1>1. /\ loose = {} /\ looseDur = {} /\ packs = {} /\ packsDur = {} /\ bad = {}
      /\ format = [mem |-> Plain, disk |-> Plain, dur |-> Plain]
      /\ roots = {} /\ rootsDur = {} /\ live = {} /\ up = "down" /\ locator = {}
      /\ uploading = [w \in Requests |-> NoUpload] /\ pub = [w \in PackWriters |-> NoPub]
      /\ command = NoCommand /\ budget \in Budgets
  BY DEF PacksInit
<1>2. budget \in Allowances /\ ~({"power", "unsyncedExit"} \subseteq budget.failures)
  BY <1>1, PacksAssumption DEF FsyncedEnds, Allowances
<1>3. NoUpload \in Reqs /\ NoPub \in Pubs /\ NoPub.step = "none"  BY DEF NoUpload, Reqs, Pubs, NoPub
<1>4. /\ format \in [mem : Formats, disk : Formats, dur : Formats]
      /\ format.disk = Plain /\ format.dur = Plain
  BY <1>1 DEF Formats
<1>5. /\ \A w \in PackWriters : pub[w] = NoPub
      /\ \A r \in Requests : uploading[r] = NoUpload /\ r \in PackWriters
      /\ Tool \in PackWriters
  BY <1>1 DEF PackWriters
<1>6. DiskTypes(loose, looseDur, packs, packsDur, bad, format, roots, rootsDur)
  BY <1>1, <1>4 DEF DiskTypes
<1>7. StateTypes(live, up, locator, uploading, pub, command, budget)
  BY <1>1, <1>2, <1>3, NoToolFacts DEF StateTypes
<1>8. WhoInv(up, uploading, pub, command)  BY <1>1, <1>3, <1>5 DEF WhoInv
<1>9. PubInv(pub, packs, packsDur, budget.failures)  BY <1>1, <1>3, <1>5 DEF PubInv
<1>10. FmtInv(format, pub, packs \cup packsDur, up, budget.failures)
  BY <1>1, <1>3, <1>4, <1>5 DEF FmtInv
<1>11. RootInv(format, roots, rootsDur, pub[Tool], budget.failures)
  BY <1>1, <1>4 DEF RootInv, Plain, Tiered
<1>12. ServeInv(up, locator, Safe(packs, packsDur, budget.failures), uploading, pub, loose)
  BY <1>1 DEF ServeInv
<1>13. ToolInv(command, pub[Tool], loose, Kept, LiveChunks)
  <2>1. command.op = "none" /\ command.step = "none"  BY <1>1, NoToolFacts
  <2> QED  BY <2>1 DEF ToolInv
<1>14. KeepInv(live, loose, Kept)  BY <1>1 DEF KeepInv
<1> QED  BY <1>2, <1>6, <1>7, <1>8, <1>9, <1>10, <1>11, <1>12, <1>13, <1>14 DEF IInv

\* The inductive invariant holds: uploads, publishPack, the offline commands,
\* kills and power failures all keep it.
THEOREM InductiveInvariant == FsyncedEnds /\ PacksSpec => []IInv
BY InitHolds, NextKeeps, PTL DEF PacksSpec

\* Every variable has its type, FORMAT.json and the tier roots included.
THEOREM TypesHold == FsyncedEnds /\ PacksSpec => []PacksTypeOK
<1>1. IInv => PacksTypeOK
  <2> SUFFICES ASSUME IInv PROVE PacksTypeOK  OBVIOUS
  <2>1. DiskTypes(loose, looseDur, packs, packsDur, bad, format, roots, rootsDur)  BY DEF IInv
  <2>2. StateTypes(live, up, locator, uploading, pub, command, budget)  BY DEF IInv
  <2>3. {format.mem, format.disk, format.dur} \subseteq {Plain, Packed, Compressed, Tiered}
    BY <2>1 DEF DiskTypes, Formats
  <2>4. /\ command.op \in OfflineCommands \cup {"none"} /\ command.dest \in [Chunks -> Tiers]
        /\ command.todo \cup command.cands \cup command.need \subseteq Chunks
        /\ command.left \cup command.queue \cup command.doomed \cup command.source \subseteq Packs
    BY <2>2 DEF StateTypes, Tools
  <2> QED  BY <2>1, <2>2, <2>3, <2>4 DEF PacksTypeOK, DiskTypes, StateTypes
<1> QED  BY <1>1, InductiveInvariant, PTL

\* FORMAT.json is never behind a pack that is there: ensureStoreFormat
\* makes it durable before publishPack renames.
THEOREM FormatIsNeverBehind == FsyncedEnds /\ PacksSpec => []FormatCoversPacks
<1>1. IInv => FormatCoversPacks  BY DEF IInv, FmtInv, FormatCoversPacks
<1> QED  BY <1>1, InductiveInvariant, PTL

\* OpenStore never refuses the store: initTierRoots makes the roots durable
\* before the format says they are there.
THEOREM StoreNeverRefuses == FsyncedEnds /\ PacksSpec => []AlwaysOpens
<1>1. IInv => AlwaysOpens  BY DEF IInv, RootInv, AlwaysOpens, StoreOpens
<1> QED  BY <1>1, InductiveInvariant, PTL

\* While storage damages nothing, no upload, offline command, kill or power
\* failure takes the last copy of a live chunk, for a process that is up or
\* for the next.
THEOREM LiveChunksAreKept == FsyncedEnds /\ PacksSpec => []LiveReadable
<1>1. IInv => LiveReadable
  <2> SUFFICES ASSUME IInv, bad = {}, NEW c \in LiveChunks
               PROVE  Readable(c) /\ (up # "down" => CasReadExcluding(c, {}))
    BY DEF LiveReadable
  <2>1. HasCopy(c, loose, Kept)  BY DEF IInv, KeepInv, LiveChunks
  <2>2. CASE c \in loose  BY <2>2 DEF Readable, CasReadExcluding, GoodLoose
  <2>3. CASE Held(c, Kept)
    <3>1. PICK p \in Kept : c \in p.recs  BY <2>3 DEF Held
    <3>2. p \in packs /\ (up # "down" => p \in locator)  BY <3>1 DEF Kept, Copies, Safe
    <3>3. GoodIn(p, c)  BY <3>1, <3>2 DEF GoodIn
    <3>4. p \in Loadable  BY <3>2, LoadableIs
    <3> QED  BY <3>2, <3>3, <3>4 DEF Readable, CasReadExcluding
  <2> QED  BY <2>1, <2>2, <2>3 DEF HasCopy
<1> QED  BY <1>1, InductiveInvariant, PTL
-----------------------------------------------------------------------------
(* Copies that are not damaged, step by step.                              *)

KeepsReadable ==
  \A c \in (UNION live) \cap (UNION live') :
    GoodCopy(c, loose, packs, bad) => GoodCopy(c, loose', packs', bad')

\* A good copy stays where copies are added and damage is removed.
LEMMA MoreGood ==
  ASSUME NEW c, NEW lo, NEW lo2, NEW ps, NEW ps2, NEW bd, NEW bd2, GoodCopy(c, lo, ps, bd),
         lo \subseteq lo2, ps \subseteq ps2, bd2 \subseteq bd
  PROVE  GoodCopy(c, lo2, ps2, bd2)
  BY DEF GoodCopy

\* A step that removes no copy and damages none loses nothing.
LEMMA GrowingKeeps ==
  ASSUME loose \subseteq loose', packs \subseteq packs', bad' \subseteq bad
  PROVE  KeepsReadable
  BY MoreGood DEF KeepsReadable

\* With no pack renamed, only what a command has planned is to be shown.
LEMMA CalmGood ==
  ASSUME IInv', up' # "serve", pub'[Tool].step \in {"none", "staged"},
         ToolGood(command', pub'[Tool], loose', packs', packs', bad', UNION live')
  PROVE  GInv'
<1>1. \A r \in Requests : uploading'[r] = NoUpload /\ pub'[r].step = "none"  BY DEF IInv, WhoInv
<1>2. \A w \in PackWriters : pub'[w].step \in {"none", "staged"}  BY <1>1 DEF PackWriters
<1>3. Safe(packs', packsDur', budget'.failures) = packs'
  BY <1>2 DEF IInv, PubInv, Safe
<1>4. PubGood(pub', bad')  BY <1>2 DEF PubGood
<1>5. ReqGood(uploading', pub', loose', locator', bad')  BY <1>1 DEF ReqGood, InHand, NoUpload
<1>6. GoodIsSafe(LiveChunks', loose', packs', packs', bad')  BY DEF GoodIsSafe
<1> QED  BY <1>3, <1>4, <1>5, <1>6 DEF GInv, LiveChunks

\* And a command that is about to remove nothing has planned nothing.
LEMMA PlainGood ==
  ASSUME IInv', up' # "serve", pub'[Tool].step = "none", command'.queue = {},
         command'.step \notin {"unlink", "publish", "drop", "moving"}
  PROVE  GInv'
<1>1. ToolGood(command', pub'[Tool], loose', packs', packs', bad', UNION live')
  BY DEF ToolGood, InHand
<1> QED  BY <1>1, CalmGood

\* Nor has a process that is not there.
LEMMA DownGood ==
  ASSUME IInv', up' = "down"
  PROVE  GInv'
<1>1. command' = NoCommand /\ pub'[Tool].step = "none"  BY DEF IInv, WhoInv
<1>2. command'.queue = {} /\ command'.step = "none"  BY <1>1 DEF NoCommand
<1> QED  BY <1>1, <1>2, PlainGood

\* A process ends and leaves the disk as it is.
LEMMA EndsGood == ASSUME IInv', Exit \/ PacksKill PROVE GInv' /\ KeepsReadable
<1>1. up' = "down" /\ UNCHANGED <<loose, packs, bad>>  BY DEF Exit, PacksKill, Gone, disk
<1> QED  BY <1>1, DownGood, GrowingKeeps

\* A power failure undoes no pack that is the only good copy.
LEMMA PowerFailGood == ASSUME IInv, GInv, IInv', PacksPowerFail PROVE GInv' /\ KeepsReadable
<1>1. up' = "down" /\ bad' = bad /\ live' = live /\ "power" \in budget.failures
  BY DEF PacksPowerFail, Gone
<1>2. loose \subseteq loose' /\ packs \cap packsDur \subseteq packs'  BY DEF PacksPowerFail
<1>3. Safe(packs, packsDur, budget.failures) \subseteq packs'  BY <1>1, <1>2 DEF Safe
<1>4. \A c \in UNION live : GoodCopy(c, loose, packs, bad) =>
        GoodCopy(c, loose, Safe(packs, packsDur, budget.failures), bad)
  BY DEF GInv, GoodIsSafe, LiveChunks
<1>5. KeepsReadable  BY <1>1, <1>2, <1>3, <1>4, MoreGood DEF KeepsReadable
<1> QED  BY <1>1, <1>5, DownGood

\* Damage spares the last good copy of a chunk.
LEMMA RotGood == ASSUME IInv, IInv', Rot PROVE GInv' /\ KeepsReadable
<1>1. up' = "down" /\ UNCHANGED <<loose, packs, live>>  BY DEF Rot
<1>2. PICK c \in LiveChunks, p \in Loadable \cup {LooseFile} :
        /\ \/ p # LooseFile /\ GoodLoose(c)
           \/ \E q \in Loadable \ {p} : GoodIn(q, c)
        /\ bad' = bad \cup {<<p, c>>}
  BY DEF Rot
<1>3. GoodCopy(c, loose, packs, bad')
  BY <1>2 DEF GoodCopy, GoodLoose, GoodIn
<1>4. \A d : d # c /\ GoodCopy(d, loose, packs, bad) => GoodCopy(d, loose, packs, bad')
  BY <1>2 DEF GoodCopy
<1>5. KeepsReadable  BY <1>1, <1>3, <1>4 DEF KeepsReadable
<1> QED  BY <1>1, <1>5, DownGood
-----------------------------------------------------------------------------
(* ... of commands.                                                        *)

\* A process opens the store and has removed nothing yet.
LEMMA OpenGood ==
  ASSUME IInv, IInv', PacksServe \/ Compact \/ Gc \/ Repack \/ TierMove \/ Rebalance
  PROVE  GInv' /\ KeepsReadable
<1>1. UNCHANGED <<loose, packs, bad, pub, uploading>> /\ up = "down"
  BY DEF PacksServe, Compact, Gc, Repack, TierMove, Rebalance, Open
<1>2. Quiet /\ \A r \in Requests : uploading[r] = NoUpload  BY <1>1, DownFacts
<1>3. pub'[Tool].step = "none"  BY <1>1, <1>2 DEF Quiet, PackWriters
<1>4. CASE PacksServe
  <2>1. command' = NoCommand  BY <1>1, <1>4, DownFacts DEF PacksServe
  <2>2. command'.queue = {} /\ command'.step = "none"  BY <2>1 DEF NoCommand
  <2>3. ToolGood(command', pub'[Tool], loose', packs', packs', bad', UNION live')
    BY <2>2, <1>3 DEF ToolGood, InHand
  <2>4. \A w \in PackWriters : pub'[w].step = "none"  BY <1>1, <1>2 DEF Quiet
  <2>5. Safe(packs', packsDur', budget'.failures) = packs'  BY <2>4 DEF IInv, PubInv, Safe
  <2>6. PubGood(pub', bad')  BY <2>4 DEF PubGood
  <2>7. ReqGood(uploading', pub', loose', locator', bad')
    BY <2>4, <1>1, <1>2 DEF ReqGood, InHand, NoUpload, PackWriters
  <2>8. GoodIsSafe(LiveChunks', loose', packs', packs', bad')  BY DEF GoodIsSafe
  <2>9. GInv'  BY <2>3, <2>5, <2>6, <2>7, <2>8 DEF GInv, LiveChunks
  <2> QED  BY <2>9, <1>1, GrowingKeeps
<1>5. CASE Compact \/ Gc \/ Repack \/ TierMove \/ Rebalance
  <2>1. NoCommand.queue = {} /\ NoCommand \in Tools  BY NoToolFacts DEF NoCommand
  <2>2. up' = "tool" /\ command'.queue = {} /\ command'.step \in {"loose", "garbage", "stage", "packs"}
    <3>1. CASE Compact  BY <3>1, <2>1 DEF Compact, Open, Tools
    <3>2. CASE Gc  BY <3>2, <2>1 DEF Gc, Open, Tools
    <3>3. CASE Repack  BY <3>3, <2>1 DEF Repack, Open, Tools
    <3>4. CASE TierMove  BY <3>4, <2>1 DEF TierMove, Open, Tools
    <3>5. CASE Rebalance  BY <3>5, <2>1 DEF Rebalance, Open, Tools
    <3> QED  BY <1>5, <3>1, <3>2, <3>3, <3>4, <3>5
  <2>3. GInv'  BY <2>2, <1>3, PlainGood
  <2> QED  BY <2>3, <1>1, GrowingKeeps
<1> QED  BY <1>4, <1>5

\* Steps after which a command is about to remove nothing.
LEMMA PlanGood ==
  ASSUME IInv, IInv', KeepLoose \/ LooseDone \/ DeadPacks \/ PacksDropped \/ SyncSource
                      \/ VisitPack \/ FlushPending \/ PacksDone
  PROVE  GInv' /\ KeepsReadable
<1>1. command \in Tools  BY DEF IInv, StateTypes
<1>2. UNCHANGED <<loose, packs, bad, pub, up>>
  BY DEF KeepLoose, LooseDone, DeadPacks, PacksDropped, SyncSource, VisitPack, FlushPending,
         PacksDone, ToolDoes, disk
<1>3. up = "tool" /\ pub[Tool].step = "none" /\ command.queue = {}
  BY AtFacts DEF KeepLoose, LooseDone, DeadPacks, PacksDropped, SyncSource, VisitPack,
                 FlushPending, PacksDone
<1>4. command'.queue = {} /\ command'.step \in {"loose", "done", "packs", "stage"}
  <2>1. CASE KeepLoose  BY <2>1, <1>1, <1>3 DEF KeepLoose, ToolDoes, Tools, At
  <2>2. CASE LooseDone  BY <2>2, <1>1, <1>3 DEF LooseDone, ToolDoes, Tools
  <2>3. CASE DeadPacks  BY <2>3, <1>1, <1>3 DEF DeadPacks, ToolDoes, Tools
  <2>4. CASE PacksDropped  BY <2>4, <1>1, <1>3 DEF PacksDropped, ToolDoes, Tools
  <2>5. CASE SyncSource  BY <2>5, <1>1, <1>3 DEF SyncSource, ToolDoes, Tools
  <2>6. CASE VisitPack  BY <2>6, <1>1, <1>3 DEF VisitPack, ToolDoes, Tools, At
  <2>7. CASE FlushPending  BY <2>7, <1>1, <1>3 DEF FlushPending, ToolDoes, Tools
  <2>8. CASE PacksDone  BY <2>8, <1>1, <1>3 DEF PacksDone, ToolDoes, Tools
  <2> QED  BY <2>1, <2>2, <2>3, <2>4, <2>5, <2>6, <2>7, <2>8
<1>5. GInv'  BY <1>2, <1>3, <1>4, PlainGood
<1> QED  BY <1>2, <1>5, GrowingKeeps

\* The packed copy was read back before the loose one goes.
LEMMA DropRedundantLooseGood == ASSUME IInv, IInv', DropRedundantLoose PROVE GInv' /\ KeepsReadable
<1>1. PICK c \in command.todo : /\ PackedCopyReads(c) /\ loose' = loose \ {c}
                                /\ command' = [command EXCEPT !.todo = @ \ {c}]
  BY DEF DropRedundantLoose, ToolDoes
<1>2. At("loose") /\ UNCHANGED <<packs, bad, pub, up, live>>  BY DEF DropRedundantLoose, ToolDoes
<1>3. /\ command \in Tools /\ command.step = "loose" /\ ToolInv(command, pub[Tool], loose, Kept, UNION live)
      /\ up = "tool" /\ pub[Tool].step = "none" /\ command.queue = {}
  BY <1>2, AtFacts
<1>4. \E p \in locator : GoodIn(p, c)
  <2>1. CASE command.op = "compact"  BY <2>1, <1>1 DEF PackedCopyReads, Primaries
  <2>2. CASE command.op = "rebalance"
    <3>1. command.dest[c] # Hot  BY <2>2, <1>3 DEF ToolInv
    <3> QED  BY <2>2, <3>1, <1>1 DEF PackedCopyReads, CopyAtTier
  <2> QED  BY <2>1, <2>2, <1>3 DEF ToolInv
<1>5. \A d : GoodCopy(d, loose, packs, bad) => GoodCopy(d, loose', packs, bad)
  BY <1>1, <1>4 DEF GoodIn, GoodCopy
<1>6. command'.queue = {} /\ command'.step = "loose"  BY <1>1, <1>3 DEF Tools
<1>7. GInv'  BY <1>2, <1>3, <1>6, PlainGood
<1> QED  BY <1>2, <1>5, <1>7 DEF KeepsReadable

\* gc removes what is not live.
LEMMA UnlinkGarbageGood == ASSUME IInv, IInv', UnlinkGarbage PROVE GInv' /\ KeepsReadable
<1>1. PICK c \in command.todo : loose' = loose \ {c} /\ command' = [command EXCEPT !.todo = @ \ {c}]
  BY DEF UnlinkGarbage, ToolDoes
<1>2. At("garbage") /\ UNCHANGED <<packs, bad, pub, up, live>>  BY DEF UnlinkGarbage, ToolDoes
<1>3. /\ command \in Tools /\ command.step = "garbage" /\ ToolInv(command, pub[Tool], loose, Kept, UNION live)
      /\ up = "tool" /\ pub[Tool].step = "none" /\ command.queue = {}
  BY <1>2, AtFacts
<1>4. c \notin UNION live  BY <1>3 DEF ToolInv
<1>5. command'.queue = {} /\ command'.step = "garbage"  BY <1>1, <1>3 DEF Tools
<1>6. GInv'  BY <1>2, <1>3, <1>5, PlainGood
<1>7. \A d : d # c /\ GoodCopy(d, loose, packs, bad) => GoodCopy(d, loose', packs, bad)
  BY <1>1 DEF GoodCopy
<1> QED  BY <1>2, <1>4, <1>6, <1>7 DEF KeepsReadable

\* The pack just published holds the chunk, undamaged.
LEMMA UnlinkLooseGood == ASSUME IInv, GInv, IInv', UnlinkLoose PROVE GInv' /\ KeepsReadable
<1>1. PICK c \in command.todo : /\ loose' = loose \ {c}
                                /\ command' = [command EXCEPT !.todo = @ \ {c},
                                              !.step = IF command.todo = {c} THEN "loose" ELSE @]
  BY DEF UnlinkLoose, ToolDoes
<1>2. At("unlink") /\ UNCHANGED <<packs, bad, pub, up, live>>  BY DEF UnlinkLoose, ToolDoes
<1>3. /\ command \in Tools /\ command.step = "unlink"
      /\ up = "tool" /\ pub[Tool].step = "none" /\ command.queue = {}
  BY <1>2, AtFacts
<1>4. \A d \in command.todo : GoodCopy(d, {}, packs, bad)  BY <1>3 DEF GInv, ToolGood, InHand
<1>5. /\ command'.queue = {} /\ command'.todo \subseteq command.todo
      /\ command'.step \in {"loose", "unlink"}
  BY <1>1, <1>3 DEF Tools
<1>6. ToolGood(command', pub'[Tool], loose', packs', packs', bad', UNION live')
  BY <1>2, <1>3, <1>4, <1>5 DEF ToolGood, InHand
<1>7. GInv'  BY <1>2, <1>3, <1>6, CalmGood
<1>8. \A d : GoodCopy(d, loose, packs, bad) => GoodCopy(d, loose', packs, bad)
  BY <1>1, <1>4 DEF GoodCopy
<1> QED  BY <1>2, <1>7, <1>8 DEF KeepsReadable

\* compactBatch packs the loose chunks that verify.
LEMMA StageLooseGood == ASSUME IInv, IInv', StageLoose PROVE GInv' /\ KeepsReadable
<1>1. PICK batch \in SUBSET command.cands, d \in budget.deflate :
        LET good == {c \in batch : GoodLoose(c)}
            p == [tier |-> command.dest[CHOOSE c \in batch : TRUE], recs |-> good, deflated |-> d]
        IN /\ batch # {}
           /\ IF good = {}
              THEN pub' = pub /\ ToolDoes([command EXCEPT !.cands = @ \ batch])
              ELSE /\ StartPublish(Tool, p)
                   /\ ToolDoes([command EXCEPT !.cands = @ \ batch, !.queue = {p},
                                            !.step = "unlink", !.todo = good])
  BY DEF StageLoose
<1> DEFINE good == {c \in batch : GoodLoose(c)}
           p == [tier |-> command.dest[CHOOSE c \in batch : TRUE], recs |-> good, deflated |-> d]
<1>2. At("loose") /\ UNCHANGED <<loose, packs, bad>>  BY DEF StageLoose, disk
<1>3. /\ command \in Tools /\ command.step = "loose" /\ up = "tool" /\ pub[Tool].step = "none"
      /\ command.queue = {} /\ pub \in [PackWriters -> Pubs]
  BY <1>2, AtFacts
<1>4. up' = "tool"  BY <1>1, <1>3 DEF ToolDoes
<1>5. \A c \in good : GoodCopy(c, loose, packs, bad)  BY DEF GoodLoose, GoodCopy
<1>6. CASE good = {}
  <2>1. pub' = pub /\ command' = [command EXCEPT !.cands = @ \ batch]  BY <1>1, <1>6 DEF ToolDoes
  <2>2. command'.queue = {} /\ command'.step = "loose"  BY <2>1, <1>3 DEF Tools
  <2> QED  BY <2>1, <2>2, <1>2, <1>3, <1>4, PlainGood, GrowingKeeps
<1>7. CASE good # {}
  <2>1. /\ StartPublish(Tool, p)
        /\ command' = [command EXCEPT !.cands = @ \ batch, !.queue = {p}, !.step = "unlink", !.todo = good]
    BY <1>1, <1>7 DEF ToolDoes
  <2>2. p.recs = good  OBVIOUS
  <2> HIDE DEF good, p
  <2>3. Tool \in PackWriters  BY DEF PackWriters
  <2>4. pub'[Tool] = Staged(p)  BY <2>1, <2>3, <1>3 DEF StartPublish, Staged
  <2>5. Staged(p).step = "staged" /\ \A c : InHand(Staged(p), c) <=> c \in good
    BY <2>2 DEF InHand, Staged
  <2>6. command'.queue = {p} /\ command'.step = "unlink" /\ command'.todo = good  BY <2>1, <1>3 DEF Tools
  <2>7. ToolGood(command', pub'[Tool], loose', packs', packs', bad', UNION live')
    BY <2>2, <2>4, <2>5, <2>6, <1>2, <1>5 DEF ToolGood
  <2>8. GInv'  BY <2>4, <2>5, <2>7, <1>4, CalmGood
  <2> QED  BY <2>8, <1>2, GrowingKeeps
<1> QED  BY <1>6, <1>7

\* Outside says where another good copy is.
LEMMA OutsideGood ==
  ASSUME NEW c, NEW dest, NEW skip, Outside(c, dest, skip)
  PROVE  GoodCopy(c, loose, packs \ skip, bad)
<1>1. \/ GoodLoose(c)
      \/ \E p \in locator \ skip : GoodIn(p, c)
  BY DEF Outside, CopyAtTier, CasReadExcluding
<1> QED  BY <1>1 DEF GoodCopy, GoodLoose, GoodIn

\* What is carried over was read, and what is not reads from outside.
LEMMA StageReplacementsGood == ASSUME IInv, IInv', StageReplacements PROVE GInv' /\ KeepsReadable
<1> DEFINE carriers(c) == {p \in command.doomed : c \in p.recs}
           required == {c \in LiveChunks : carriers(c) # {}}
           dest == [c \in Chunks |->
                    IF command.op = "rebalance" \/ c \notin required THEN command.dest[c]
                    ELSE CHOOSE t \in Tiers : /\ \E p \in carriers(c) : p.tier = t
                                              /\ \A p \in carriers(c) : t <= p.tier]
           need == {c \in required : ~Outside(c, dest, command.doomed)}
           inTier(t) == {c \in need : dest[c] = t}
           whole(d) == {[tier |-> t, recs |-> inTier(t), deflated |-> d] :
                            t \in {u \in Tiers : inTier(u) # {}}}
           single(d) == {[tier |-> dest[c], recs |-> {c}, deflated |-> d] : c \in need}
<1>1. /\ At("stage") /\ UNCHANGED <<disk, locator, pub, live, up, uploading, budget>>
      /\ \A c \in need : CasReadExcluding(c, {})
      /\ \E d \in budget.deflate : \E queue \in {whole(d), single(d)} :
           command' = [command EXCEPT !.step = "publish", !.dest = dest, !.need = need, !.queue = queue]
  BY DEF StageReplacements, ToolDoes
<1>2. command \in Tools /\ up = "tool" /\ pub[Tool].step = "none"  BY <1>1, AtFacts
<1>3. UNCHANGED <<loose, packs, bad, pub, live, up>>  BY <1>1 DEF disk
<1> HIDE DEF dest
<1>4. \A c \in (UNION live) \ need : Held(c, command.doomed) => GoodCopy(c, loose, packs \ command.doomed, bad)
  <2> SUFFICES ASSUME NEW c \in UNION live, c \notin need, Held(c, command.doomed)
               PROVE  GoodCopy(c, loose, packs \ command.doomed, bad)
    OBVIOUS
  <2>1. c \in required  BY DEF LiveChunks, Held
  <2>2. Outside(c, dest, command.doomed)  BY <2>1
  <2> QED  BY <2>2, OutsideGood
<1>5. \A c \in need : GoodCopy(c, loose, packs, bad)
  <2>1. \A c \in need : GoodLoose(c) \/ \E p \in locator : GoodIn(p, c)  BY <1>1 DEF CasReadExcluding
  <2> HIDE DEF need
  <2> QED  BY <2>1 DEF GoodLoose, GoodIn, GoodCopy
<1>6. ASSUME NEW d, NEW p \in whole(d) \cup single(d) PROVE p.recs \subseteq need
  <2> HIDE DEF need
  <2> QED  BY <1>6
<1> HIDE DEF need, whole, single
<1>7. PICK queue : /\ \A p \in queue : p.recs \subseteq need
                   /\ command' = [command EXCEPT !.step = "publish", !.dest = dest, !.need = need, !.queue = queue]
  BY <1>1, <1>6
<1>8. /\ command'.queue = queue /\ command'.step = "publish" /\ command'.need = need
      /\ command'.doomed = command.doomed
  BY <1>2, <1>7 DEF Tools
<1>9. ToolGood(command', pub'[Tool], loose', packs', packs', bad', UNION live')
  BY <1>2, <1>3, <1>4, <1>5, <1>7, <1>8 DEF ToolGood, InHand
<1>10. GInv'  BY <1>2, <1>3, <1>9, CalmGood
<1> QED  BY <1>3, <1>10, GrowingKeeps

\* After the check every live chunk of a doomed pack reads from outside.
LEMMA CheckReplacementsGood == ASSUME IInv, GInv, IInv', CheckReplacements PROVE GInv' /\ KeepsReadable
<1>1. /\ At("publish") /\ UNCHANGED <<disk, pub, live, up>>
      /\ command' = [command EXCEPT !.step = "drop", !.need = {}]
      /\ \A c \in command.need : Outside(c, command.dest, command.doomed)
  BY DEF CheckReplacements, ToolDoes
<1>2. /\ command \in Tools /\ up = "tool" /\ pub[Tool].step = "none" /\ command.step = "publish"
      /\ command.queue = {}
  BY <1>1, AtFacts
<1>3. UNCHANGED <<loose, packs, bad, pub, live, up>>  BY <1>1 DEF disk
<1>4. command'.queue = {} /\ command'.step = "drop" /\ command'.doomed = command.doomed  BY <1>1, <1>2 DEF Tools
<1>5. ASSUME NEW c \in UNION live, Held(c, command.doomed)
      PROVE  GoodCopy(c, loose, packs \ command.doomed, bad)
  <2>1. CASE c \in command.need  BY <2>1, <1>1, OutsideGood
  <2>2. CASE c \notin command.need  BY <2>2, <1>2, <1>5 DEF GInv, ToolGood, LiveChunks
  <2> QED  BY <2>1, <2>2
<1>6. ToolGood(command', pub'[Tool], loose', packs', packs', bad', UNION live')
  BY <1>2, <1>3, <1>4, <1>5 DEF ToolGood, InHand
<1>7. GInv'  BY <1>2, <1>3, <1>6, CalmGood
<1> QED  BY <1>3, <1>7, GrowingKeeps

\* So a doomed pack may go.
LEMMA DropPackGood == ASSUME IInv, GInv, IInv', DropPack PROVE GInv' /\ KeepsReadable
<1>1. PICK p \in command.doomed : /\ packs' = packs \ {p}
                                  /\ command' = [command EXCEPT !.doomed = @ \ {p}, !.dirs = @ \cup {p.tier}]
  BY DEF DropPack, ToolDoes
<1>2. At("drop") /\ UNCHANGED <<loose, bad, pub, live, up>>  BY DEF DropPack, ToolDoes
<1>3. /\ command \in Tools /\ up = "tool" /\ pub[Tool].step = "none" /\ command.step = "drop"
      /\ command.queue = {}
  BY <1>2, AtFacts
<1>4. /\ command'.queue = {} /\ command'.step = "drop" /\ command'.doomed = command.doomed \ {p}
  BY <1>1, <1>3 DEF Tools
<1>5. \A c \in UNION live : Held(c, command.doomed) => GoodCopy(c, loose, packs \ command.doomed, bad)
  BY <1>3 DEF GInv, ToolGood, LiveChunks
<1>6. \A c : GoodCopy(c, loose, packs \ command.doomed, bad) =>
        GoodCopy(c, loose, packs', bad) /\ GoodCopy(c, loose, packs' \ command'.doomed, bad)
  BY <1>1, <1>4 DEF GoodCopy
<1>7. \A c : Held(c, command'.doomed) => Held(c, command.doomed)  BY <1>4 DEF Held
<1>8. ToolGood(command', pub'[Tool], loose', packs', packs', bad', UNION live')
  BY <1>2, <1>3, <1>4, <1>5, <1>6, <1>7 DEF ToolGood, InHand
<1>9. GInv'  BY <1>2, <1>3, <1>8, CalmGood
<1>10. \A c : c \notin p.recs /\ GoodCopy(c, loose, packs, bad) => GoodCopy(c, loose, packs', bad)
  BY <1>1 DEF GoodCopy
<1>11. \A c : c \in p.recs => Held(c, command.doomed)  BY DEF Held
<1> QED  BY <1>2, <1>5, <1>6, <1>9, <1>10, <1>11 DEF KeepsReadable

\* movePack verifies the target it adopts or the source it copies.
LEMMA MovePackGood == ASSUME IInv, IInv', MovePack PROVE GInv' /\ KeepsReadable
<1>1. PICK p \in command.left :
       /\ WantsMove(p)
       /\ \/ /\ MoveTo(p) \in packs /\ AllGood(MoveTo(p)) /\ pub' = pub
             /\ ToolDoes([command EXCEPT !.left = @ \ {p}, !.step = "moving", !.source = {p}])
          \/ /\ AllGood(p) /\ StartPublish(Tool, MoveTo(p))
             /\ ToolDoes([command EXCEPT !.left = @ \ {p}, !.step = "moving", !.source = {p},
                                      !.queue = {MoveTo(p)}])
  BY DEF MovePack
<1>2. At("packs") /\ UNCHANGED <<loose, packs, bad>>  BY DEF MovePack, disk
<1>3. /\ command \in Tools /\ up = "tool" /\ pub[Tool].step = "none" /\ command.queue = {}
      /\ pub \in [PackWriters -> Pubs]
  BY <1>2, AtFacts
<1> DEFINE m == MoveTo(p)
<1>4. m.recs = p.recs /\ m # p  BY <1>1, <1>2, MoveToFacts
<1>5. up' = "tool"  BY <1>1, <1>3 DEF ToolDoes
<1>6. \A c : Held(c, {p}) <=> c \in p.recs  BY DEF Held
<1> HIDE DEF m
<1>7. CASE /\ m \in packs /\ AllGood(m) /\ pub' = pub
           /\ command' = [command EXCEPT !.left = @ \ {p}, !.step = "moving", !.source = {p}]
  <2>1. command'.step = "moving" /\ command'.source = {p} /\ command'.queue = {}  BY <1>3, <1>7 DEF Tools
  <2>2. \A c \in p.recs : GoodCopy(c, loose, packs \ {p}, bad)
    BY <1>4, <1>7 DEF AllGood, GoodIn, GoodCopy
  <2>3. ToolGood(command', pub'[Tool], loose', packs', packs', bad', UNION live')
    BY <2>1, <2>2, <1>2, <1>3, <1>6, <1>7 DEF ToolGood, InHand
  <2>4. GInv'  BY <2>3, <1>3, <1>5, <1>7, CalmGood
  <2> QED  BY <2>4, <1>2, GrowingKeeps
<1>8. CASE /\ AllGood(p) /\ StartPublish(Tool, m)
           /\ command' = [command EXCEPT !.left = @ \ {p}, !.step = "moving", !.source = {p}, !.queue = {m}]
  <2>1. command'.step = "moving" /\ command'.source = {p} /\ command'.queue = {m}  BY <1>3, <1>8 DEF Tools
  <2>2. \A c \in p.recs : GoodCopy(c, loose, packs, bad)
    BY <1>8 DEF AllGood, GoodIn, GoodCopy
  <2>3. pub'[Tool] = Staged(m)  BY <1>3, <1>8 DEF StartPublish, Staged, PackWriters
  <2>4. Staged(m).step = "staged" /\ \A c : InHand(Staged(m), c) <=> c \in p.recs
    BY <1>4 DEF InHand, Staged
  <2>5. ToolGood(command', pub'[Tool], loose', packs', packs', bad', UNION live')
    BY <2>1, <2>2, <2>3, <2>4, <1>2, <1>4, <1>6 DEF ToolGood
  <2>6. GInv'  BY <2>3, <2>4, <2>5, <1>5, CalmGood
  <2> QED  BY <2>6, <1>2, GrowingKeeps
<1> QED  BY <1>1, <1>7, <1>8 DEF m, ToolDoes

\* So the source may go.
LEMMA DeleteSourceGood == ASSUME IInv, GInv, IInv', DeleteSource PROVE GInv' /\ KeepsReadable
<1>1. /\ At("moving") /\ packs' = packs \ command.source /\ command' = [command EXCEPT !.step = "moved"]
      /\ UNCHANGED <<loose, bad, pub, live, up>>
  BY DEF DeleteSource, ToolDoes
<1>2. /\ command \in Tools /\ up = "tool" /\ pub[Tool].step = "none" /\ command.step = "moving"
      /\ command.queue = {}
  BY <1>1, AtFacts
<1>3. command'.queue = {} /\ command'.step = "moved"  BY <1>1, <1>2 DEF Tools
<1>4. GInv'  BY <1>1, <1>2, <1>3, PlainGood
<1>5. \A c \in UNION live : Held(c, command.source) => GoodCopy(c, loose, packs', bad)
  BY <1>1, <1>2, StoreFacts DEF GInv, ToolGood, InHand
<1>6. \A c : ~Held(c, command.source) /\ GoodCopy(c, loose, packs, bad) => GoodCopy(c, loose, packs', bad)
  BY <1>1 DEF GoodCopy, Held
<1> QED  BY <1>1, <1>4, <1>5, <1>6 DEF KeepsReadable

\* What a replacement carries was read.
LEMMA PublishReplacementGood ==
  ASSUME IInv, GInv, IInv', PublishReplacement
  PROVE  GInv' /\ KeepsReadable
<1>1. /\ up = "tool" /\ command.step = "publish" /\ pub[Tool].step = "none"
      /\ UNCHANGED <<disk, live, up, locator, uploading, command, budget>>
  BY DEF PublishReplacement, NoPub
<1>2. PICK p \in command.queue : StartPublish(Tool, p)  BY DEF PublishReplacement
<1>3. pub \in [PackWriters -> Pubs] /\ Tool \in PackWriters  BY DEF IInv, StateTypes, PackWriters
<1>4. pub'[Tool] = Staged(p)  BY <1>2, <1>3 DEF StartPublish, Staged
<1>5. Staged(p).step = "staged" /\ \A c : InHand(Staged(p), c) <=> c \in p.recs
  BY DEF InHand, Staged
<1>6. UNCHANGED <<loose, packs, bad>>  BY <1>1 DEF disk
<1>7. Safe(packs, packsDur, budget.failures) = packs  BY <1>1, ToolQuiet, QuietSafe DEF Safe
<1>8. ToolGood(command, pub[Tool], loose, packs, packs, bad, UNION live)  BY <1>7 DEF GInv, LiveChunks
<1>9. ToolGood(command', pub'[Tool], loose', packs', packs', bad', UNION live')
  BY <1>1, <1>2, <1>4, <1>5, <1>6, <1>8 DEF ToolGood
<1>10. GInv'  BY <1>1, <1>4, <1>5, <1>9, CalmGood
<1> QED  BY <1>6, <1>10, GrowingKeeps
-----------------------------------------------------------------------------
(* ... of publishPack.                                                     *)

\* What a writer is about to publish has a good copy already, if it is live.
LEMMA InHandGood ==
  ASSUME IInv, GInv, NEW w \in PackWriters, NEW c \in UNION live, InHand(pub[w], c)
  PROVE  GoodCopy(c, loose, Safe(packs, packsDur, budget.failures), bad)
<1>1. c \in Chunks  BY StoreFacts
<1>2. CASE w = Tool  BY <1>1, <1>2 DEF GInv, ToolGood
<1>3. CASE w # Tool
  <2>1. w \in Requests  BY <1>3 DEF PackWriters
  <2>2. up = "serve"  BY <2>1 DEF IInv, WhoInv, InHand
  <2>3. Kept = locator /\ HasCopy(c, loose, Kept)  BY <2>2, UploadFacts DEF KeepInv
  <2>4. GoodCopy(c, loose, locator, bad)  BY <2>1, <2>3, <1>1 DEF GInv, ReqGood
  <2>5. locator \subseteq Safe(packs, packsDur, budget.failures)  BY <2>2, UploadFacts DEF ServeInv
  <2> QED  BY <2>4, <2>5, MoreGood
<1> QED  BY <1>2, <1>3

\* Only the pack that w publishes may be new, or whole again.
OnlyPack(w) ==
  /\ UNCHANGED <<loose, live, locator, uploading, command, budget>>
  /\ packs \subseteq packs' /\ packs' \subseteq packs \cup {pub[w].pack}
  /\ Safe(packs, packsDur, budget.failures) \subseteq Safe(packs', packsDur', budget.failures)
  /\ bad' \subseteq bad /\ (\A p, c : <<p, c>> \in bad /\ p # pub[w].pack => <<p, c>> \in bad')
  /\ pub'[w].step = "synced" => \A c \in Chunks : <<pub[w].pack, c>> \notin bad'

\* A step of publishPack makes no live chunk readable from an unsynced pack
\* only.
LEMMA PubStepGood ==
  ASSUME IInv, GInv, NEW w \in PackWriters, NEW st, GoesOn(w, st), OnlyPack(w)
  PROVE  GInv' /\ KeepsReadable
<1> DEFINE S == Safe(packs, packsDur, budget.failures)
           T == Safe(packs', packsDur', budget'.failures)
<1>1. /\ UNCHANGED <<loose, live, locator, uploading, command, budget>> /\ packs \subseteq packs'
      /\ bad' \subseteq bad /\ S \subseteq T
  BY DEF OnlyPack
<1>2. Tool \in PackWriters /\ \A r \in Requests : r \in PackWriters  BY DEF PackWriters
<1>3. \A v \in PackWriters : /\ pub'[v].pack = pub[v].pack
                             /\ pub'[v].step = "none" <=> pub[v].step = "none"
                             /\ pub'[v].step = "synced" => v = w \/ pub[v].step = "synced"
  BY DEF GoesOn
<1>4. \A v \in PackWriters : \A c : InHand(pub'[v], c) <=> InHand(pub[v], c)  BY <1>3 DEF InHand
<1>5. \A c, lo, ps, qs : ps \subseteq qs /\ GoodCopy(c, lo, ps, bad) => GoodCopy(c, lo, qs, bad')
  BY <1>1, MoreGood
<1>6. \A X : packs \ X \subseteq packs' \ X  BY <1>1
<1> HIDE DEF S, T
<1>7. PubGood(pub', bad')
  BY <1>1, <1>3 DEF GInv, PubGood, OnlyPack
<1>8. ReqGood(uploading', pub', loose', locator', bad')
  BY <1>1, <1>2, <1>4, <1>5 DEF GInv, ReqGood
<1>9. ToolGood(command', pub'[Tool], loose', packs', T, bad', LiveChunks')
  <2>1. ToolGood(command, pub[Tool], loose, packs, S, bad, LiveChunks)  BY DEF GInv, S
  <2>2. LiveChunks' = LiveChunks  BY <1>1 DEF LiveChunks
  <2> QED  BY <2>1, <2>2, <1>1, <1>2, <1>4, <1>5, <1>6 DEF ToolGood
<1>10. GoodIsSafe(LiveChunks', loose', packs', T, bad')
  <2> SUFFICES ASSUME NEW c \in UNION live, GoodCopy(c, loose, packs', bad')
               PROVE  GoodCopy(c, loose, T, bad')
    BY <1>1 DEF GoodIsSafe, LiveChunks
  <2>1. CASE c \in pub[w].pack.recs
    <3>1. InHand(pub[w], c)  BY <2>1 DEF InHand, GoesOn
    <3>2. GoodCopy(c, loose, S, bad)  BY <3>1, InHandGood DEF S
    <3> QED  BY <3>2, <1>1, <1>5
  <2>2. CASE c \notin pub[w].pack.recs
    <3>1. CASE c \in loose /\ <<LooseFile, c>> \notin bad'  BY <3>1 DEF GoodCopy
    <3>2. CASE \E p \in packs' : c \in p.recs /\ <<p, c>> \notin bad'
      <4>1. PICK p \in packs' : c \in p.recs /\ <<p, c>> \notin bad'  BY <3>2
      <4>2. p # pub[w].pack  BY <4>1, <2>2
      <4>3. p \in packs /\ <<p, c>> \notin bad  BY <4>1, <4>2 DEF OnlyPack
      <4>4. GoodCopy(c, loose, packs, bad)  BY <4>1, <4>3 DEF GoodCopy
      <4>5. GoodCopy(c, loose, S, bad)  BY <4>4 DEF GInv, GoodIsSafe, LiveChunks, S
      <4> QED  BY <4>5, <1>1, <1>5
    <3> QED  BY <3>1, <3>2 DEF GoodCopy
  <2> QED  BY <2>1, <2>2
<1>11. GInv'  BY <1>7, <1>8, <1>9, <1>10 DEF GInv, T
<1>12. KeepsReadable  BY <1>1, GrowingKeeps
<1> QED  BY <1>11, <1>12

\* The steps of publishPack before the rename touch no copy.
LEMMA FormatStepsGood ==
  ASSUME IInv, GInv, NEW w \in PackWriters, MakeRoot(w) \/ SyncRoot(w) \/ RaiseFormat(w) \/ SyncFormat(w)
  PROVE  GInv' /\ KeepsReadable
<1>1. /\ UNCHANGED <<loose, packs, packsDur, bad, live, locator, uploading, command, budget>>
      /\ pub[w].step \in {"staged", "rooting", "formatting"}
  BY DEF MakeRoot, SyncRoot, RaiseFormat, SyncFormat, Publishing
<1>2. \E st \in {"rooting", "staged", "formatted", "formatting"} : PubStep(w, st)
  BY DEF MakeRoot, SyncRoot, RaiseFormat, SyncFormat
<1>3. PICK st \in {"rooting", "staged", "formatted", "formatting"} : PubStep(w, st)  BY <1>2
<1>4. GoesOn(w, st)  BY <1>1, <1>3, PubStepFacts DEF PubSteps
<1>5. pub'[w].step # "synced"  BY <1>3, <1>4 DEF GoesOn
<1>6. OnlyPack(w)  BY <1>1, <1>5 DEF OnlyPack
<1> QED  BY <1>4, <1>6, PubStepGood

\* The renamed pack is not yet safe, and no live chunk depends on it.
LEMMA RenamePackGood ==
  ASSUME IInv, GInv, NEW w \in PackWriters, RenamePack(w) PROVE GInv' /\ KeepsReadable
<1>1. /\ pub[w].step = "formatted" /\ PubStep(w, "renamed") /\ packs' = packs \cup {pub[w].pack}
      /\ UNCHANGED <<loose, packsDur, bad, live, locator, uploading, command, budget>>
  BY DEF RenamePack, Publishing
<1>2. GoesOn(w, "renamed")  BY <1>1, PubStepFacts DEF PubSteps
<1>3. pub'[w].step # "synced"  BY <1>2 DEF GoesOn
<1>4. Safe(packs, packsDur, budget.failures) \subseteq Safe(packs', packsDur', budget.failures)
  BY <1>1 DEF Safe
<1>5. OnlyPack(w)  BY <1>1, <1>3, <1>4 DEF OnlyPack
<1> QED  BY <1>2, <1>5, PubStepGood

\* A synced pack is whole.
LEMMA SyncPacksGood ==
  ASSUME IInv, GInv, NEW w \in PackWriters, SyncPacks(w) PROVE GInv' /\ KeepsReadable
<1>1. /\ pub[w].step = "renamed" /\ PubStep(w, "synced") /\ SyncTiers({pub[w].pack.tier})
      /\ bad' = {x \in bad : x[1] # pub[w].pack}
      /\ UNCHANGED <<loose, packs, live, locator, uploading, command, budget>>
  BY DEF SyncPacks, Publishing
<1>2. GoesOn(w, "synced")  BY <1>1, PubStepFacts DEF PubSteps
<1>3. Safe(packs, packsDur, budget.failures) \subseteq Safe(packs', packsDur', budget.failures)
  BY <1>1, SyncTiersFacts DEF Safe
<1>4. /\ bad' \subseteq bad /\ (\A p, c : <<p, c>> \in bad /\ p # pub[w].pack => <<p, c>> \in bad')
      /\ \A c \in Chunks : <<pub[w].pack, c>> \notin bad'
  BY <1>1
<1>5. OnlyPack(w)  BY <1>1, <1>3, <1>4 DEF OnlyPack
<1> QED  BY <1>2, <1>5, PubStepGood

\* The locator lists a pack that is whole.
LEMMA IndexPackGood ==
  ASSUME IInv, GInv, NEW w \in PackWriters, IndexPack(w) PROVE GInv' /\ KeepsReadable
<1> DEFINE P == pub[w].pack
           S == Safe(packs, packsDur, budget.failures)
<1>1. /\ pub[w].step = "synced" /\ locator' = locator \cup {P} /\ pub' = [pub EXCEPT ![w] = NoPub]
      /\ UNCHANGED <<disk, live, up, uploading, budget>>
      /\ \/ w = Tool /\ command' = [command EXCEPT !.queue = @ \ {P}, !.doomed = @ \ {P}]
         \/ w # Tool /\ command' = command
  BY DEF IndexPack, Publishing
<1>2. UNCHANGED <<loose, packs, packsDur, bad, live, uploading, budget>>  BY <1>1 DEF disk
<1>3. pub \in [PackWriters -> Pubs] /\ command \in Tools  BY DEF IInv, StateTypes
<1>4. Tool \in PackWriters /\ \A r \in Requests : r \in PackWriters /\ r # Tool
  BY PacksAssumption DEF PackWriters
<1>5. /\ pub'[w].step = "none" /\ \A v \in PackWriters : v # w => pub'[v] = pub[v]
  BY <1>1, <1>3 DEF NoPub
<1>6. P \in packs /\ (\A c \in Chunks : <<P, c>> \notin bad)
  BY <1>1 DEF IInv, PubInv, GInv, PubGood
<1>7. \A c : InHand(pub[w], c) <=> c \in P.recs  BY <1>1 DEF InHand
<1>8. \A v \in PackWriters : \A c : InHand(pub'[v], c) <=> (v # w /\ InHand(pub[v], c))
  BY <1>5 DEF InHand
<1>9. w # Tool => up = "serve"  BY <1>1 DEF IInv, WhoInv, PackWriters
<1> HIDE DEF P, S
<1>10. PubGood(pub', bad')  BY <1>2, <1>5 DEF GInv, PubGood
<1>11. ReqGood(uploading', pub', loose', locator', bad')
  <2> SUFFICES ASSUME NEW r \in Requests, NEW c \in Chunks, c \in uploading[r].built \/ InHand(pub[r], c),
                      HasCopy(c, loose, locator \cup {P})
               PROVE  GoodCopy(c, loose, locator \cup {P}, bad)
    BY <1>1, <1>2, <1>4, <1>8 DEF ReqGood
  <2>1. CASE HasCopy(c, loose, locator)
    <3>1. GoodCopy(c, loose, locator, bad)  BY <2>1 DEF GInv, ReqGood
    <3> QED  BY <3>1, MoreGood
  <2>2. CASE c \in P.recs  BY <2>2, <1>6 DEF GoodCopy
  <2> QED  BY <2>1, <2>2 DEF HasCopy, Held
<1>12. ToolGood(command', pub'[Tool], loose', packs', S, bad', LiveChunks')
  <2>1. ToolGood(command, pub[Tool], loose, packs, S, bad, LiveChunks)  BY DEF GInv, S
  <2>2. LiveChunks' = LiveChunks  BY <1>2 DEF LiveChunks
  <2>3. CASE w # Tool
    <3>1. pub'[Tool] = pub[Tool] /\ command' = command  BY <2>3, <1>1, <1>4, <1>5
    <3> QED  BY <3>1, <2>1, <2>2, <1>2
  <2>4. CASE w = Tool
    <3>1. command' = [command EXCEPT !.queue = @ \ {P}, !.doomed = @ \ {P}]  BY <2>4, <1>1
    <3>2. /\ command'.queue \subseteq command.queue /\ command'.doomed \subseteq command.doomed
          /\ command'.step = command.step /\ command'.todo = command.todo /\ command'.need = command.need
          /\ command'.source = command.source
      BY <3>1, <1>3 DEF Tools
    <3>3. \A c \in Chunks : InHand(pub[Tool], c) => GoodCopy(c, {}, packs, bad)
      BY <2>4, <1>6, <1>7 DEF GoodCopy
    <3>4. command.step = "moving" =>
            \A c \in Chunks : InHand(pub[Tool], c) => GoodCopy(c, loose, packs \ command.source, bad)
      <4>1. command.step = "moving" => P \notin command.source
        BY <2>4, <1>1 DEF IInv, ToolInv, P
      <4> QED  BY <4>1, <2>4, <1>6, <1>7 DEF GoodCopy
    <3>5. \A c : Held(c, command'.doomed) => Held(c, command.doomed)  BY <3>2 DEF Held
    <3>6. \A c : GoodCopy(c, loose, packs \ command.doomed, bad) => GoodCopy(c, loose, packs \ command'.doomed, bad)
      BY <3>2 DEF GoodCopy
    <3>7. \A c : ~InHand(pub'[Tool], c)  BY <2>4, <1>4, <1>8
    <3>8. command.todo \subseteq Chunks  BY <1>3 DEF Tools
    <3> QED  BY <3>2, <3>3, <3>4, <3>5, <3>6, <3>7, <3>8, <2>1, <2>2, <1>2 DEF ToolGood
  <2> QED  BY <2>3, <2>4
<1>13. GoodIsSafe(LiveChunks', loose', packs', S, bad')  BY <1>2 DEF GInv, LiveChunks, S
<1>14. GInv'  BY <1>2, <1>10, <1>11, <1>12, <1>13 DEF GInv, S
<1>15. KeepsReadable  BY <1>2, GrowingKeeps
<1> QED  BY <1>14, <1>15
-----------------------------------------------------------------------------
(* ... of uploads.                                                         *)

\* The packs and their damage stay; a chunk that becomes live is as safe as
\* it is good.
UploadGood ==
  /\ UploadStep
  /\ \A p \in Packs : \A c : <<p, c>> \in bad => <<p, c>> \in bad'
  /\ \A v \in PackWriters : pub'[v] = pub[v] \/ pub'[v].step \in {"none", "staged"}
  /\ ReqGood(uploading', pub', loose', locator, bad')
  /\ \A c \in (UNION live') \ (UNION live) : GoodCopy(c, loose', packs, bad') =>
       GoodCopy(c, loose', Safe(packs, packsDur, budget.failures), bad')

\* An upload makes no live chunk readable from an unsynced pack only.
LEMMA UploadGoodKeeps ==
  ASSUME IInv, GInv, IInv', UploadGood
  PROVE  GInv' /\ KeepsReadable
<1> DEFINE S == Safe(packs, packsDur, budget.failures)
<1>1. /\ UNCHANGED <<packs, packsDur, locator, up>> /\ budget'.failures = budget.failures
      /\ loose \subseteq loose' /\ bad' \subseteq bad /\ up = "serve"
  BY DEF UploadGood, UploadStep
<1>2. Safe(packs', packsDur', budget'.failures) = S  BY <1>1
<1> HIDE DEF S
<1>3. PubGood(pub', bad')  BY <1>1 DEF UploadGood, GInv, PubGood
<1>4. ReqGood(uploading', pub', loose', locator', bad')  BY <1>1 DEF UploadGood
<1>5. ToolGood(command', pub'[Tool], loose', packs', S, bad', LiveChunks')
  <2>1. command' = NoCommand /\ pub'[Tool].step = "none"  BY <1>1 DEF IInv, WhoInv
  <2>2. command'.queue = {} /\ command'.step = "none"  BY <2>1 DEF NoCommand
  <2> QED  BY <2>1, <2>2 DEF ToolGood, InHand
<1>6. GoodIsSafe(LiveChunks', loose', packs', S, bad')
  <2> SUFFICES ASSUME NEW c \in UNION live', GoodCopy(c, loose', packs, bad')
               PROVE  GoodCopy(c, loose', S, bad')
    BY <1>1 DEF GoodIsSafe, LiveChunks
  <2>1. CASE c \notin UNION live  BY <2>1 DEF UploadGood, S
  <2>2. CASE c \in UNION live
    <3>1. CASE c \in loose' /\ <<LooseFile, c>> \notin bad'  BY <3>1 DEF GoodCopy
    <3>2. CASE \E p \in packs : c \in p.recs /\ <<p, c>> \notin bad'
      <4>1. PICK p \in packs : c \in p.recs /\ <<p, c>> \notin bad'  BY <3>2
      <4>2. p \in Packs  BY <4>1, StoreFacts
      <4>3. GoodCopy(c, loose, packs, bad)  BY <4>1, <4>2 DEF GoodCopy, UploadGood
      <4>4. GoodCopy(c, loose, S, bad)  BY <4>3, <2>2 DEF GInv, GoodIsSafe, LiveChunks, S
      <4> QED  BY <4>4, <1>1, MoreGood
    <3> QED  BY <3>1, <3>2 DEF GoodCopy
  <2> QED  BY <2>1, <2>2
<1>7. GInv'  BY <1>2, <1>3, <1>4, <1>5, <1>6 DEF GInv
<1>8. KeepsReadable  BY <1>1, GrowingKeeps
<1> QED  BY <1>7, <1>8

\* Where the disk and what is live stay, or less is live.
LEMMA UploadPlanGood ==
  ASSUME IInv, GInv, IInv', up = "serve", UNCHANGED <<disk, up, locator, command>>,
         live' \subseteq live, budget'.failures = budget.failures,
         \A v \in PackWriters : pub'[v] = pub[v] \/ pub'[v].step \in {"none", "staged"},
         ReqGood(uploading', pub', loose, locator, bad)
  PROVE  GInv' /\ KeepsReadable
<1>1. UNCHANGED <<loose, looseDur, packs, packsDur, bad, format, roots, rootsDur>>  BY DEF disk
<1>2. budget' \in Allowances /\ live' \subseteq Objects /\ loose \subseteq looseDur /\ looseDur \subseteq Chunks
  BY <1>1 DEF IInv, StateTypes, DiskTypes
<1>3. UploadStep  BY <1>1, <1>2 DEF UploadStep
<1>4. UploadGood  BY <1>1, <1>3 DEF UploadGood
<1> QED  BY <1>4, UploadGoodKeeps

\* PutObject writes nothing.
LEMMA PutObjectGood ==
  ASSUME IInv, GInv, IInv', NEW w \in Requests, PacksPutObject(w) PROVE GInv' /\ KeepsReadable
<1>1. PICK o \in Objects : uploading' = [uploading EXCEPT ![w] = [obj |-> o, left |-> o, built |-> {}]]
  BY DEF PacksPutObject
<1>2. /\ up = "serve" /\ budget' = [budget EXCEPT !.uploads = @ - 1]
      /\ UNCHANGED <<disk, live, up, locator, pub, command>>
  BY DEF PacksPutObject
<1>3. uploading \in [Requests -> Reqs] /\ budget \in Allowances  BY UploadFacts
<1>4. budget'.failures = budget.failures  BY <1>2, <1>3 DEF Allowances
<1>5. \A r \in Requests : uploading'[r].built \subseteq uploading[r].built  BY <1>1, <1>3
<1>6. ReqGood(uploading', pub', loose, locator, bad)  BY <1>2, <1>5 DEF GInv, ReqGood
<1> QED  BY <1>2, <1>4, <1>6, UploadPlanGood

\* packSink.Put builds a chunk that has no copy.
LEMMA PutGood == ASSUME IInv, GInv, IInv', NEW w \in Requests, Put(w) PROVE GInv' /\ KeepsReadable
<1>1. PICK c \in uploading[w].left :
        uploading' = [uploading EXCEPT ![w].left = @ \ {c}, ![w].built = @ \cup (IF CasStat(c) THEN {} ELSE {c})]
  BY DEF Put
<1>2. UNCHANGED <<disk, live, up, locator, pub, command, budget>>  BY DEF Put
<1>3. uploading[w] # NoUpload  BY <1>1 DEF NoUpload
<1>4. up = "serve" /\ uploading \in [Requests -> Reqs]  BY <1>3, UploadFacts DEF WhoInv
<1> DEFINE new == IF CasStat(c) THEN {} ELSE {c}
<1>5. \A d \in new : ~HasCopy(d, loose, locator)  BY DEF CasStat, HasCopy, Held
<1>6. uploading' = [uploading EXCEPT ![w].left = @ \ {c}, ![w].built = @ \cup new]  BY <1>1
<1> HIDE DEF new
<1>7. \A r \in Requests : uploading'[r].built \subseteq uploading[r].built \cup new
  BY <1>4, <1>6 DEF Reqs
<1>8. ReqGood(uploading', pub', loose, locator, bad)  BY <1>2, <1>5, <1>7 DEF GInv, ReqGood
<1> QED  BY <1>2, <1>4, <1>8, UploadPlanGood

\* packSink.publish hands the builder on.
LEMMA PublishBuiltGood ==
  ASSUME IInv, GInv, IInv', NEW w \in Requests, PublishBuilt(w) PROVE GInv' /\ KeepsReadable
<1> DEFINE pack(d) == [tier |-> Hot, recs |-> uploading[w].built, deflated |-> d]
<1>1. PICK d \in budget.deflate : StartPublish(w, pack(d))  BY DEF PublishBuilt
<1>2. /\ uploading[w].built # {} /\ uploading' = [uploading EXCEPT ![w].built = {}]
      /\ UNCHANGED <<disk, live, up, locator, command, budget>>
  BY DEF PublishBuilt
<1>3. uploading[w] # NoUpload  BY <1>2 DEF NoUpload
<1>4. up = "serve" /\ uploading \in [Requests -> Reqs] /\ pub \in [PackWriters -> Pubs] /\ w \in PackWriters
  BY <1>3, UploadFacts DEF WhoInv
<1> DEFINE P == pack(d)
<1>5. P.recs = uploading[w].built  OBVIOUS
<1> HIDE DEF P, pack
<1>6. /\ pub'[w] = Staged(P) /\ Staged(P).step = "staged" /\ \A v \in PackWriters : v # w => pub'[v] = pub[v]
  BY <1>1, <1>4 DEF StartPublish, Staged, P
<1>7. \A c : InHand(Staged(P), c) => c \in uploading[w].built  BY <1>5 DEF InHand, Staged
<1>8. \A r \in Requests : r \in PackWriters /\ uploading'[r].built \subseteq uploading[r].built
  BY <1>2, <1>4, UploadFacts DEF Reqs
<1>9. ReqGood(uploading', pub', loose, locator, bad)
  <2> SUFFICES ASSUME NEW r \in Requests, NEW c \in Chunks, c \in uploading'[r].built \/ InHand(pub'[r], c)
               PROVE  c \in uploading[r].built \/ InHand(pub[r], c)
    BY DEF GInv, ReqGood
  <2>1. CASE r = w  BY <2>1, <1>6, <1>7, <1>8
  <2>2. CASE r # w  BY <2>2, <1>6, <1>8
  <2> QED  BY <2>1, <2>2
<1>10. \A v \in PackWriters : pub'[v] = pub[v] \/ pub'[v].step \in {"none", "staged"}  BY <1>6
<1> QED  BY <1>2, <1>4, <1>9, <1>10, UploadPlanGood

\* A loose file that is written is good.
LEMMA FlushLooseGood ==
  ASSUME IInv, GInv, IInv', NEW w \in Requests, FlushLoose(w) PROVE GInv' /\ KeepsReadable
<1> DEFINE new == {c \in uploading[w].built : ~CasStat(c)}
<1>1. /\ uploading[w].built # {} /\ uploading' = [uploading EXCEPT ![w].built = {}]
      /\ loose' = loose \cup new /\ looseDur' = looseDur \cup new /\ bad' = bad \ ({LooseFile} \X new)
      /\ UNCHANGED <<packs, packsDur, format, roots, rootsDur, live, up, locator, pub, command, budget>>
  BY DEF FlushLoose
<1>2. uploading[w] # NoUpload  BY <1>1 DEF NoUpload
<1>3. up = "serve" /\ uploading \in [Requests -> Reqs]  BY <1>2, UploadFacts DEF WhoInv
<1>4. new \subseteq Chunks  BY <1>3 DEF Reqs
<1> HIDE DEF new
<1>5. UploadStep  BY <1>1, <1>3, <1>4, UploadFacts DEF UploadStep
<1>6. \A p \in Packs : \A c : <<p, c>> \in bad => <<p, c>> \in bad'
  <2>1. LooseFile \notin Packs  BY DEF LooseFile, Packs
  <2> QED  BY <2>1, <1>1
<1>7. \A c \in new : GoodCopy(c, loose', locator, bad')  BY <1>1 DEF GoodCopy
<1>8. \A r \in Requests : uploading'[r].built \subseteq uploading[r].built  BY <1>1, <1>3 DEF Reqs
<1>9. ReqGood(uploading', pub', loose', locator, bad')
  <2> SUFFICES ASSUME NEW r \in Requests, NEW c \in Chunks, c \in uploading[r].built \/ InHand(pub[r], c),
                      HasCopy(c, loose', locator)
               PROVE  GoodCopy(c, loose', locator, bad')
    BY <1>1, <1>8 DEF ReqGood
  <2>1. CASE c \in new  BY <2>1, <1>7
  <2>2. CASE c \notin new
    <3>1. HasCopy(c, loose, locator)  BY <2>2, <1>1 DEF HasCopy
    <3>2. GoodCopy(c, loose, locator, bad)  BY <3>1 DEF GInv, ReqGood
    <3> QED  BY <3>2, <1>1, MoreGood
  <2> QED  BY <2>1, <2>2
<1>10. UploadGood  BY <1>1, <1>5, <1>6, <1>9 DEF UploadGood
<1> QED  BY <1>10, UploadGoodKeeps

\* A chunk that becomes live is not readable from an unsynced pack only:
\* the upload that renamed it had found no copy.
LEMMA CommitGood == ASSUME IInv, GInv, IInv', NEW w \in Requests, PacksCommit(w) PROVE GInv' /\ KeepsReadable
<1>1. /\ uploading[w].obj # {} /\ uploading[w].left = {} /\ uploading[w].built = {} /\ pub[w].step = "none"
      /\ live' = live \cup {uploading[w].obj} /\ uploading' = [uploading EXCEPT ![w] = NoUpload]
      /\ UNCHANGED <<disk, up, locator, pub, command, budget>>
  BY DEF PacksCommit, NoPub
<1>2. UNCHANGED <<loose, looseDur, packs, packsDur, bad, format, roots, rootsDur>>  BY <1>1 DEF disk
<1>3. uploading[w] # NoUpload  BY <1>1 DEF NoUpload
<1>4. up = "serve" /\ uploading \in [Requests -> Reqs]  BY <1>3, UploadFacts DEF WhoInv
<1>5. live' \subseteq Objects  BY DEF IInv, StateTypes
<1>6. UploadStep  BY <1>1, <1>2, <1>4, <1>5, UploadFacts DEF UploadStep
<1>7. \A r \in Requests : uploading'[r].built \subseteq uploading[r].built  BY <1>1, <1>4 DEF NoUpload
<1>8. ReqGood(uploading', pub', loose', locator, bad')  BY <1>1, <1>2, <1>7 DEF GInv, ReqGood
<1>9. ASSUME NEW c \in uploading[w].obj, GoodCopy(c, loose, packs, bad)
      PROVE  GoodCopy(c, loose, Safe(packs, packsDur, budget.failures), bad)
  <2>1. c \in Chunks  BY <1>4 DEF Reqs
  <2>2. HasCopy(c, loose, locator)  BY <1>1, <1>4, UploadFacts DEF ServeInv
  <2>3. CASE c \in loose /\ <<LooseFile, c>> \notin bad  BY <2>3 DEF GoodCopy
  <2>4. CASE \E p \in packs : c \in p.recs /\ <<p, c>> \notin bad
    <3>1. PICK p \in packs : c \in p.recs /\ <<p, c>> \notin bad  BY <2>4
    <3>2. CASE p \in Safe(packs, packsDur, budget.failures)  BY <3>1, <3>2 DEF GoodCopy
    <3>3. CASE p \notin Safe(packs, packsDur, budget.failures)
      <4>1. PICK v \in PackWriters : pub[v].step = "renamed" /\ pub[v].pack = p
        BY <3>3, UploadFacts DEF PubInv
      <4>2. v \in Requests  BY <4>1, <1>4 DEF IInv, WhoInv, PackWriters
      <4>3. InHand(pub[v], c)  BY <4>1, <3>1 DEF InHand
      <4>4. GoodCopy(c, loose, locator, bad)  BY <4>2, <4>3, <2>1, <2>2 DEF GInv, ReqGood
      <4>5. locator \subseteq Safe(packs, packsDur, budget.failures)  BY <1>4, UploadFacts DEF ServeInv
      <4> QED  BY <4>4, <4>5, MoreGood
    <3> QED  BY <3>2, <3>3
  <2> QED  BY <2>3, <2>4, <1>9 DEF GoodCopy
<1>10. \A c \in (UNION live') \ (UNION live) : c \in uploading[w].obj  BY <1>1
<1>11. UploadGood  BY <1>1, <1>2, <1>6, <1>8, <1>9, <1>10 DEF UploadGood
<1> QED  BY <1>11, UploadGoodKeeps

\* DeleteObject writes nothing.
LEMMA DeleteObjectGood == ASSUME IInv, GInv, IInv', PacksDeleteObject PROVE GInv' /\ KeepsReadable
<1>1. /\ up = "serve" /\ live' \subseteq live
      /\ UNCHANGED <<disk, up, locator, uploading, pub, command, budget>>
  BY DEF PacksDeleteObject
<1>2. ReqGood(uploading', pub', loose, locator, bad)  BY <1>1 DEF GInv
<1> QED  BY <1>1, <1>2, UploadPlanGood

\* An upload that fails leaves what it published.
LEMMA RequestFailsGood ==
  ASSUME IInv, GInv, IInv', NEW w \in Requests, RequestFails(w) PROVE GInv' /\ KeepsReadable
<1>1. /\ uploading[w] # NoUpload /\ uploading' = [uploading EXCEPT ![w] = NoUpload] /\ pub' = [pub EXCEPT ![w] = NoPub]
      /\ UNCHANGED <<disk, live, up, locator, command, budget>>
  BY DEF RequestFails
<1>2. /\ up = "serve" /\ uploading \in [Requests -> Reqs] /\ pub \in [PackWriters -> Pubs]
      /\ \A r \in Requests : r \in PackWriters
  BY <1>1, UploadFacts DEF WhoInv
<1>3. \A v \in PackWriters : pub'[v] = pub[v] \/ pub'[v].step = "none"  BY <1>1, <1>2 DEF NoPub
<1>4. \A r \in Requests : uploading'[r].built \subseteq uploading[r].built  BY <1>1, <1>2 DEF NoUpload
<1>5. \A r \in Requests : \A c : InHand(pub'[r], c) => InHand(pub[r], c)  BY <1>2, <1>3 DEF InHand
<1>6. ReqGood(uploading', pub', loose, locator, bad)  BY <1>4, <1>5 DEF GInv, ReqGood
<1> QED  BY <1>1, <1>2, <1>3, <1>6, UploadPlanGood
-----------------------------------------------------------------------------
(* No step loses the last good copy.                                       *)

\* A step that changes nothing loses nothing.
LEMMA StutterGood == ASSUME GInv, UNCHANGED packVars PROVE GInv' /\ KeepsReadable
<1>1. UNCHANGED <<loose, packs, packsDur, bad, live, locator, uploading, pub, command, budget>>
  BY DEF packVars, disk
<1>2. GInv'  BY <1>1 DEF GInv, LiveChunks
<1> QED  BY <1>1, <1>2, GrowingKeeps

\* Every step keeps the invariant about good copies and every good copy that
\* a live chunk needs.
LEMMA NextGood ==
  ASSUME IInv, GInv, IInv', [PacksNext]_packVars
  PROVE  GInv' /\ KeepsReadable
<1>1. CASE PacksServe \/ Compact \/ Gc \/ Repack \/ TierMove \/ Rebalance  BY <1>1, OpenGood
<1>2. CASE \E w \in Requests : \/ PacksPutObject(w) \/ Put(w) \/ PublishBuilt(w)
                               \/ FlushLoose(w) \/ PacksCommit(w) \/ RequestFails(w)
  BY <1>2, PutObjectGood, PutGood, PublishBuiltGood, FlushLooseGood, CommitGood, RequestFailsGood
<1>3. CASE \E w \in PackWriters : PublishPack(w)
  BY <1>3, FormatStepsGood, RenamePackGood, SyncPacksGood, IndexPackGood DEF PublishPack
<1>4. CASE \/ KeepLoose \/ LooseDone \/ DeadPacks \/ PacksDropped \/ SyncSource \/ VisitPack
           \/ FlushPending \/ PacksDone
  BY <1>4, PlanGood
<1>5. CASE DropRedundantLoose \/ StageLoose \/ UnlinkLoose \/ UnlinkGarbage
  BY <1>5, DropRedundantLooseGood, StageLooseGood, UnlinkLooseGood, UnlinkGarbageGood
<1>6. CASE StageReplacements \/ PublishReplacement \/ CheckReplacements \/ DropPack
  BY <1>6, StageReplacementsGood, PublishReplacementGood, CheckReplacementsGood, DropPackGood
<1>7. CASE MovePack \/ DeleteSource  BY <1>7, MovePackGood, DeleteSourceGood
<1>8. CASE PacksDeleteObject \/ Exit \/ PacksKill \/ PacksPowerFail \/ Rot
  BY <1>8, DeleteObjectGood, EndsGood, PowerFailGood, RotGood
<1>9. CASE UNCHANGED packVars  BY <1>9, StutterGood
<1> QED  BY <1>1, <1>2, <1>3, <1>4, <1>5, <1>6, <1>7, <1>8, <1>9 DEF PacksNext

\* The empty store has nothing to lose.
LEMMA InitGood == PacksInit => GInv
<1> SUFFICES ASSUME PacksInit PROVE GInv  OBVIOUS
<1>1. /\ live = {} /\ command = NoCommand /\ uploading = [w \in Requests |-> NoUpload]
      /\ pub = [w \in PackWriters |-> NoPub]
  BY DEF PacksInit
<1>2. (\A w \in PackWriters : pub[w].step = "none") /\ \A r \in Requests : uploading[r].built = {} /\ r \in PackWriters
  BY <1>1 DEF NoPub, NoUpload, PackWriters
<1>3. pub[Tool].step = "none" /\ command.queue = {} /\ command.step = "none"
  BY <1>1, <1>2 DEF NoCommand, PackWriters
<1> QED  BY <1>1, <1>2, <1>3 DEF GInv, GoodIsSafe, PubGood, ReqGood, ToolGood, InHand, LiveChunks

\* LoadableIs as a formula, for the next state.
LEMMA LoadableAll == IInv => Loadable = packs
BY LoadableIs

\* Readable is a good copy, once all packs are loaded.
LEMMA ReadableIs ==
  ASSUME NEW c, Loadable = packs
  PROVE  Readable(c) <=> GoodCopy(c, loose, packs, bad)
  BY DEF Readable, GoodLoose, GoodIn, GoodCopy

\* The same of the next state.
LEMMA ReadableNext ==
  ASSUME NEW c, Loadable' = packs'
  PROVE  Readable(c)' <=> GoodCopy(c, loose', packs', bad')
  BY DEF Readable, GoodLoose, GoodIn, GoodCopy

\* With damaged copies about: no step of an upload, an offline command, a
\* kill or a power failure makes a live chunk unreadable that was readable.
\* A command reads back what it counts on, and casStat asks for presence
\* only.
THEOREM NothingIsLost == FsyncedEnds /\ PacksSpec => NothingLost
<1>1. IInv /\ GInv /\ IInv' /\ [PacksNext]_packVars => GInv'  BY NextGood
<1>2. IInv /\ GInv /\ IInv' /\ [PacksNext]_packVars
        => [\A c \in LiveChunks : Readable(c) /\ c \in LiveChunks' => Readable(c)']_packVars
  <2> SUFFICES ASSUME IInv, GInv, IInv', [PacksNext]_packVars, NEW c \in LiveChunks, Readable(c), c \in LiveChunks'
               PROVE  Readable(c)'
    OBVIOUS
  <2>1. KeepsReadable  BY NextGood
  <2>2. Loadable = packs  BY LoadableIs
  <2>3. Loadable' = packs'
    <3>1. IInv' => (Loadable = packs)'  BY LoadableAll, PTL
    <3> QED  BY <3>1
  <2>4. GoodCopy(c, loose, packs, bad)  BY <2>2, ReadableIs
  <2>5. GoodCopy(c, loose', packs', bad')  BY <2>1, <2>4 DEF KeepsReadable, LiveChunks
  <2> QED  BY <2>3, <2>5, ReadableNext
<1> QED  BY <1>1, <1>2, InitGood, InductiveInvariant, PTL DEF PacksSpec, NothingLost
-----------------------------------------------------------------------------
(* The invariant behind MaintenanceConverges.  It is about where copies    *)
(* are and not about damage: lo are the loose chunks, pk the packs, loc    *)
(* those the locator lists, bd the damaged copies and L the live chunks.   *)

\* A copy of the chunk is in the tier that policy D asks for.
AtDest(c, D, lo, pk) ==
  \/ D[c] = Hot /\ c \in lo
  \/ \E p \in pk : p.tier = D[c] /\ c \in p.recs

\* A pack that rebalance leaves alone: it holds a live chunk that belongs in
\* its tier, or nothing that is live.
InPlace(p, D, L) == p.recs \cap L = {} \/ \E c \in p.recs \cap L : D[c] = p.tier

\* A pack with no live chunk that belongs in its tier.
Misplaced(p, D, L) == \A c \in p.recs \cap L : D[c] # p.tier

\* The packs a rebalance has still to deal with.
Pending(tl) == tl.left \cup tl.doomed \cup tl.source

\* A rebalance in progress.  A live chunk is in its tier, or among the loose
\* chunks, staged packs and old packs that are still to be dealt with, ...
ChunkPlan(tl, lo, pk, L) == \A c \in L :
  \/ AtDest(c, tl.dest, lo, pk) \/ c \in tl.cands \/ Held(c, tl.queue)
  \/ Held(c, pk \cap Pending(tl))

\* ... and so is a pack that is not as it should be.
PackPlan(tl, pk, L) == \A p \in pk : p \in Pending(tl) \/ InPlace(p, tl.dest, L)

\* Staged packs hold live chunks for their tier; packs that wait for their
\* turn are there and listed.
QueuePlan(tl, L) == \A p \in tl.queue : p.recs \subseteq L /\ \A c \in p.recs : tl.dest[c] = p.tier
LeftPlan(tl, pk, loc) ==
  tl.left \subseteq pk /\ tl.left \subseteq loc /\ tl.left \cap (tl.doomed \cup tl.source) = {}

\* The locator may list packs that were moved away, but none in which a live
\* chunk was at its target.
ListPlan(tl, pk, loc, L) == tl.step # "drop" => \A p \in loc \ pk : Misplaced(p, tl.dest, L)

\* Only cold chunks leave the loose files.
LoosePlan(tl, lo, L) ==
  /\ \A c \in tl.cands : c \in L /\ c \in lo /\ c \notin tl.todo /\ tl.dest[c] # Hot
  /\ tl.step \in {"loose", "unlink"} => \A c \in tl.todo : c \in L /\ tl.dest[c] # Hot
  /\ tl.step = "loose" => tl.todo \subseteq lo
  /\ tl.step \notin {"loose", "unlink"} => tl.cands = {}

\* What a pack that goes holds is at its target, or will be before it goes.
MovePlan(tl, lo, pk, L) ==
  /\ tl.step \notin {"moving", "moved"} => tl.source = {}
  /\ \A p \in tl.source : Misplaced(p, tl.dest, L)
  /\ tl.step = "moving" => \A c \in L : Held(c, tl.source) => AtDest(c, tl.dest, lo, pk) \/ Held(c, tl.queue)
  /\ tl.step = "moved" => tl.source \cap pk = {} /\ tl.queue = {}
DropPlan(tl, lo, pk, L) ==
  /\ tl.step = "publish" =>
       \A c \in L : Held(c, tl.doomed) => c \in tl.need \/ AtDest(c, tl.dest, lo, pk \ tl.doomed)
  /\ tl.step = "drop" =>
       \A c \in L : Held(c, tl.doomed) => AtDest(c, tl.dest, lo, pk \ tl.doomed)

RebalanceEnd(tl, pk, loc) == tl.step = "done" =>
  tl.queue = {} /\ tl.left = {} /\ tl.doomed = {} /\ loc = pk

RebalanceInv(tl, lo, pk, loc, L) ==
  /\ tl.step \notin {"none", "garbage"} /\ tl.op = "rebalance"
  /\ ChunkPlan(tl, lo, pk, L) /\ PackPlan(tl, pk, L) /\ QueuePlan(tl, L)
  /\ LeftPlan(tl, pk, loc) /\ ListPlan(tl, pk, loc, L) /\ LoosePlan(tl, lo, L)
  /\ MovePlan(tl, lo, pk, L) /\ DropPlan(tl, lo, pk, L) /\ RebalanceEnd(tl, pk, loc)

\* PrimaryMaps and LiveIn, of the live chunks L.
MapsTo(packset, L) ==
  {f \in [{c \in L : Held(c, packset)} -> packset] :
     \A c \in DOMAIN f : f[c] \in Primaries(c, packset)}
Dead(packset, f, L) == {p \in packset : {c \in p.recs \cap L : f[c] = p} = {}}

\* Every pack is the primary one of some live chunk.
NoneDead(packset, L) == \E f \in MapsTo(packset, L) : Dead(packset, f, L) = {}

\* All damage is in packs that are about to be replaced.
Curable(tl, bd) == \A x \in bd : x[1] \in tl.queue

\* A gc in progress.  What it has not listed for removal is live or, of packs,
\* the primary one of something live; what it writes replaces a pack of the
\* same name, or there is damage that it does not cure.
GcInv(tl, lo, pk, loc, bd, L) ==
  /\ tl.step \in {"garbage", "stage", "publish", "drop", "done"} /\ tl.op = "gc"
  /\ lo \subseteq L \cup (IF tl.step = "garbage" THEN tl.todo ELSE {})
  /\ tl.step \in {"garbage", "stage", "done"} => loc = pk
  /\ tl.step = "stage" => \E f \in MapsTo(pk, L) : tl.doomed = Dead(pk, f, L)
  /\ tl.step \in {"publish", "drop"} /\ Curable(tl, bd) =>
       tl.queue \subseteq pk \ tl.doomed /\ NoneDead(pk \ tl.doomed, L)
  /\ tl.step = "done" /\ bd = {} => NoneDead(pk, L)
  /\ tl.step # "publish" => tl.queue = {}

\* No loose chunk is damaged; a rebalance skips the ones that are.
LooseWhole(bd) == \A x \in bd : x[1] # LooseFile

MInv == up = "tool" =>
  /\ pub[Tool].step # "none" => pub[Tool].pack \in command.queue
  /\ command.op = "gc" => GcInv(command, loose, packs, locator, bad, LiveChunks)
  /\ command.op = "rebalance" /\ LooseWhole(bad) => RebalanceInv(command, loose, packs, locator, LiveChunks)
-----------------------------------------------------------------------------
(* Steps of a command, by what they keep of the plan.                      *)

\* A step of a command keeps the invariant if it keeps the plan of gc and
\* that of rebalance.
LEMMA PlansKept ==
  ASSUME MInv, up = "tool", live' = live, command'.op = command.op, LooseWhole(bad') => LooseWhole(bad),
         pub'[Tool].step # "none" => pub'[Tool].pack \in command'.queue,
         GcInv(command, loose, packs, locator, bad, LiveChunks)
           => GcInv(command', loose', packs', locator', bad', LiveChunks),
         RebalanceInv(command, loose, packs, locator, LiveChunks)
           => \/ RebalanceInv(command', loose', packs', locator', LiveChunks)
              \/ ~LooseWhole(bad)
  PROVE  MInv'
<1>1. LiveChunks' = LiveChunks  BY DEF LiveChunks
<1> QED  BY <1>1 DEF MInv

\* No gc and no rebalance is under way.
LEMMA NoPlan ==
  ASSUME up' # "tool" \/ (command'.op \notin {"gc", "rebalance"} /\ pub'[Tool].step = "none")
  PROVE  MInv'
  BY DEF MInv

\* Steps at which only loose chunks are handled are not those of gc.
LEMMA NotGc ==
  ASSUME NEW tl, NEW lo, NEW pk, NEW loc, NEW bd, NEW L, GcInv(tl, lo, pk, loc, bd, L)
  PROVE  tl.step \in {"garbage", "stage", "publish", "drop", "done"} /\ tl.op = "gc"
  BY DEF GcInv

\* A chunk at its target stays there while packs are only added.
LEMMA StaysAtDest ==
  ASSUME NEW c, NEW D, NEW lo, NEW pk, NEW lo2, NEW pk2, AtDest(c, D, lo, pk),
         pk \subseteq pk2, D[c] = Hot /\ c \in lo => c \in lo2
  PROVE  AtDest(c, D, lo2, pk2)
  BY DEF AtDest
-----------------------------------------------------------------------------
(* Loose chunks.                                                           *)

\* A loose chunk goes whose copy in a pack is in its tier.
LEMMA DropRedundantLooseConverges == ASSUME IInv, MInv, DropRedundantLoose PROVE MInv'
<1>1. PICK x \in command.todo : /\ PackedCopyReads(x) /\ loose' = loose \ {x}
                                /\ command' = [command EXCEPT !.todo = @ \ {x}]
  BY DEF DropRedundantLoose, ToolDoes
<1>2. /\ At("loose") /\ UNCHANGED <<packs, bad, locator, pub, live, up>>
  BY DEF DropRedundantLoose, ToolDoes
<1>3. command \in Tools /\ command.step = "loose" /\ up = "tool" /\ pub[Tool].step = "none"
  BY <1>2, AtFacts
<1>4. /\ command'.op = command.op /\ command'.step = "loose" /\ command'.dest = command.dest
      /\ command'.todo = command.todo \ {x} /\ command'.cands = command.cands /\ command'.left = command.left
      /\ command'.queue = command.queue /\ command'.doomed = command.doomed /\ command'.source = command.source
  BY <1>1, <1>3 DEF Tools
<1>5. ASSUME RebalanceInv(command, loose, packs, locator, LiveChunks)
      PROVE  RebalanceInv(command', loose', packs, locator, LiveChunks)
  <2>1. command.dest[x] # Hot  BY <1>1, <1>3, <1>5 DEF RebalanceInv, LoosePlan
  <2>2. ChunkPlan(command', loose', packs, LiveChunks)
    BY <2>1, <1>1, <1>4, <1>5, StaysAtDest DEF RebalanceInv, ChunkPlan, Pending
  <2>3. LoosePlan(command', loose', LiveChunks)
    BY <1>1, <1>3, <1>4, <1>5 DEF RebalanceInv, LoosePlan
  <2>4. PackPlan(command', packs, LiveChunks) /\ QueuePlan(command', LiveChunks) /\ LeftPlan(command', packs, locator)
    BY <1>4, <1>5 DEF RebalanceInv, PackPlan, QueuePlan, LeftPlan, Pending
  <2>5. ListPlan(command', packs, locator, LiveChunks)
    BY <1>3, <1>4, <1>5 DEF RebalanceInv, ListPlan
  <2>6. MovePlan(command', loose', packs, LiveChunks) /\ DropPlan(command', loose', packs, LiveChunks)
        /\ RebalanceEnd(command', packs, locator)
    BY <1>3, <1>4, <1>5 DEF RebalanceInv, MovePlan, DropPlan, RebalanceEnd
  <2> QED  BY <2>2, <2>3, <2>4, <2>5, <2>6, <1>4, <1>5 DEF RebalanceInv
<1> QED  BY <1>2, <1>3, <1>4, <1>5, NotGc, PlansKept

\* A loose chunk whose copy in the tier does not read is packed again.
LEMMA KeepLooseConverges == ASSUME IInv, MInv, KeepLoose PROVE MInv'
<1>1. PICK x \in command.todo :
        command' = [command EXCEPT !.todo = @ \ {x}, !.cands = IF command.op = "compact" THEN @ ELSE @ \cup {x}]
  BY DEF KeepLoose, ToolDoes
<1>2. At("loose") /\ UNCHANGED <<loose, packs, bad, locator, pub, live, up>>
  BY DEF KeepLoose, ToolDoes, disk
<1>3. command \in Tools /\ command.step = "loose" /\ up = "tool" /\ pub[Tool].step = "none"
  BY <1>2, AtFacts
<1>4. /\ command'.op = command.op /\ command'.step = "loose" /\ command'.dest = command.dest
      /\ command'.todo = command.todo \ {x} /\ command'.left = command.left
      /\ command'.queue = command.queue /\ command'.doomed = command.doomed /\ command'.source = command.source
  BY <1>1, <1>3 DEF Tools
<1>5. ASSUME RebalanceInv(command, loose, packs, locator, LiveChunks)
      PROVE  RebalanceInv(command', loose, packs, locator, LiveChunks)
  <2>1. command'.cands = command.cands \cup {x}
    BY <1>1, <1>3, <1>5 DEF Tools, RebalanceInv
  <2>2. ChunkPlan(command', loose, packs, LiveChunks)
    BY <2>1, <1>4, <1>5 DEF RebalanceInv, ChunkPlan, Pending
  <2>3. LoosePlan(command', loose, LiveChunks)
    BY <2>1, <1>1, <1>3, <1>4, <1>5 DEF RebalanceInv, LoosePlan
  <2>4. PackPlan(command', packs, LiveChunks) /\ QueuePlan(command', LiveChunks) /\ LeftPlan(command', packs, locator)
    BY <1>4, <1>5 DEF RebalanceInv, PackPlan, QueuePlan, LeftPlan, Pending
  <2>5. ListPlan(command', packs, locator, LiveChunks)
    BY <1>3, <1>4, <1>5 DEF RebalanceInv, ListPlan
  <2>6. MovePlan(command', loose, packs, LiveChunks) /\ DropPlan(command', loose, packs, LiveChunks)
        /\ RebalanceEnd(command', packs, locator)
    BY <1>3, <1>4, <1>5 DEF RebalanceInv, MovePlan, DropPlan, RebalanceEnd
  <2> QED  BY <2>2, <2>3, <2>4, <2>5, <2>6, <1>4, <1>5 DEF RebalanceInv
<1> QED  BY <1>2, <1>3, <1>4, <1>5, NotGc, PlansKept

\* A batch of loose chunks is handed on in a pack for their tier.  None is
\* skipped unless a loose chunk is damaged.
LEMMA StageLooseConverges == ASSUME IInv, MInv, StageLoose PROVE MInv'
<1>1. PICK batch \in SUBSET command.cands, d \in budget.deflate :
        LET good == {c \in batch : GoodLoose(c)}
            p == [tier |-> command.dest[CHOOSE c \in batch : TRUE], recs |-> good, deflated |-> d]
        IN /\ batch # {} /\ \A c \in batch : command.dest[c] = p.tier
           /\ IF good = {}
              THEN pub' = pub /\ ToolDoes([command EXCEPT !.cands = @ \ batch])
              ELSE /\ StartPublish(Tool, p)
                   /\ ToolDoes([command EXCEPT !.cands = @ \ batch, !.queue = {p},
                                            !.step = "unlink", !.todo = good])
  BY DEF StageLoose
<1> DEFINE good == {c \in batch : GoodLoose(c)}
           p == [tier |-> command.dest[CHOOSE c \in batch : TRUE], recs |-> good, deflated |-> d]
<1>2. At("loose") /\ UNCHANGED <<loose, packs, bad, locator>> /\ command.todo = {}
  BY DEF StageLoose, disk
<1>3. /\ command \in Tools /\ command.step = "loose" /\ up = "tool" /\ pub[Tool].step = "none"
      /\ command.queue = {} /\ pub \in [PackWriters -> Pubs]
  BY <1>2, AtFacts
<1>4. live' = live /\ \A c \in batch : command.dest[c] = p.tier  BY <1>1 DEF ToolDoes
<1>5. p.recs = good  OBVIOUS
<1>6. CASE good = {}
  <2>1. pub' = pub /\ command' = [command EXCEPT !.cands = @ \ batch]  BY <1>1, <1>6 DEF ToolDoes
  <2>2. command'.op = command.op  BY <2>1, <1>3 DEF Tools
  <2>3. ASSUME RebalanceInv(command, loose, packs, locator, LiveChunks) PROVE ~LooseWhole(bad)
    <3>1. PICK c \in batch : c \in command.cands  BY <1>1
    <3>2. ~GoodLoose(c)  BY <1>6, <3>1
    <3>3. c \in loose  BY <2>3, <3>1 DEF RebalanceInv, LoosePlan
    <3>4. <<LooseFile, c>> \in bad  BY <3>2, <3>3 DEF GoodLoose
    <3> QED  BY <3>4 DEF LooseWhole
  <2> QED  BY <1>2, <1>3, <1>4, <2>1, <2>2, <2>3, NotGc, PlansKept
<1>7. CASE good # {}
  <2>1. /\ StartPublish(Tool, p)
        /\ command' = [command EXCEPT !.cands = @ \ batch, !.queue = {p}, !.step = "unlink", !.todo = good]
    BY <1>1, <1>7 DEF ToolDoes
  <2>2. good \subseteq batch  OBVIOUS
  <2>3. LooseWhole(bad) => \A c \in batch : c \in loose => c \in good
    BY DEF LooseWhole, GoodLoose
  <2> HIDE DEF good, p
  <2>4. /\ command'.op = command.op /\ command'.step = "unlink" /\ command'.dest = command.dest
        /\ command'.todo = good /\ command'.cands = command.cands \ batch /\ command'.left = command.left
        /\ command'.queue = {p} /\ command'.doomed = command.doomed /\ command'.source = command.source
    BY <2>1, <1>3 DEF Tools
  <2>5. pub'[Tool].pack = p  BY <2>1, <1>3 DEF StartPublish, PackWriters
  <2>6. ASSUME RebalanceInv(command, loose, packs, locator, LiveChunks), LooseWhole(bad)
        PROVE  RebalanceInv(command', loose, packs, locator, LiveChunks)
    <3>1. batch = good /\ p.recs = batch
      BY <2>2, <2>3, <2>6, <1>5 DEF RebalanceInv, LoosePlan
    <3>2. ChunkPlan(command', loose, packs, LiveChunks)
      BY <3>1, <2>4, <2>6, <1>3 DEF RebalanceInv, ChunkPlan, Pending, Held
    <3>3. LoosePlan(command', loose, LiveChunks)
      BY <3>1, <2>4, <2>6 DEF RebalanceInv, LoosePlan
    <3>4. QueuePlan(command', LiveChunks)
      BY <3>1, <2>4, <2>6, <1>4 DEF RebalanceInv, LoosePlan, QueuePlan
    <3>5. PackPlan(command', packs, LiveChunks) /\ LeftPlan(command', packs, locator)
      BY <2>4, <2>6 DEF RebalanceInv, PackPlan, LeftPlan, Pending
    <3>6. ListPlan(command', packs, locator, LiveChunks)
      BY <2>4, <2>6, <1>3 DEF RebalanceInv, ListPlan
    <3>7. MovePlan(command', loose, packs, LiveChunks) /\ DropPlan(command', loose, packs, LiveChunks)
          /\ RebalanceEnd(command', packs, locator)
      BY <2>4, <2>6, <1>3 DEF RebalanceInv, MovePlan, DropPlan, RebalanceEnd
    <3> QED  BY <3>2, <3>3, <3>4, <3>5, <3>6, <3>7, <2>4, <2>6 DEF RebalanceInv
  <2> QED  BY <1>2, <1>3, <1>4, <2>4, <2>5, <2>6, NotGc, PlansKept
<1> QED  BY <1>6, <1>7

\* The loose copies of a batch go once its pack is there.
LEMMA UnlinkLooseConverges == ASSUME IInv, MInv, UnlinkLoose PROVE MInv'
<1>1. PICK x \in command.todo : /\ loose' = loose \ {x}
                                /\ command' = [command EXCEPT !.todo = @ \ {x},
                                              !.step = IF command.todo = {x} THEN "loose" ELSE @]
  BY DEF UnlinkLoose, ToolDoes
<1>2. At("unlink") /\ UNCHANGED <<packs, bad, locator, pub, live, up>>
  BY DEF UnlinkLoose, ToolDoes
<1>3. command \in Tools /\ command.step = "unlink" /\ up = "tool" /\ pub[Tool].step = "none"
  BY <1>2, AtFacts
<1>4. /\ command'.op = command.op /\ command'.dest = command.dest /\ command'.cands = command.cands
      /\ command'.todo = command.todo \ {x} /\ command'.left = command.left
      /\ command'.queue = command.queue /\ command'.doomed = command.doomed /\ command'.source = command.source
      /\ command'.step = "unlink" \/ (command'.step = "loose" /\ command'.todo = {})
  BY <1>1, <1>3 DEF Tools
<1>5. ASSUME RebalanceInv(command, loose, packs, locator, LiveChunks)
      PROVE  RebalanceInv(command', loose', packs, locator, LiveChunks)
  <2>1. command.dest[x] # Hot  BY <1>1, <1>3, <1>5 DEF RebalanceInv, LoosePlan
  <2>2. ChunkPlan(command', loose', packs, LiveChunks)
    BY <2>1, <1>1, <1>4, <1>5, StaysAtDest DEF RebalanceInv, ChunkPlan, Pending
  <2>3. LoosePlan(command', loose', LiveChunks)
    BY <1>1, <1>3, <1>4, <1>5 DEF RebalanceInv, LoosePlan
  <2>4. PackPlan(command', packs, LiveChunks) /\ QueuePlan(command', LiveChunks) /\ LeftPlan(command', packs, locator)
    BY <1>4, <1>5 DEF RebalanceInv, PackPlan, QueuePlan, LeftPlan, Pending
  <2>5. ListPlan(command', packs, locator, LiveChunks)
    BY <1>3, <1>4, <1>5 DEF RebalanceInv, ListPlan
  <2>6. MovePlan(command', loose', packs, LiveChunks) /\ DropPlan(command', loose', packs, LiveChunks)
        /\ RebalanceEnd(command', packs, locator)
    BY <1>3, <1>4, <1>5 DEF RebalanceInv, MovePlan, DropPlan, RebalanceEnd
  <2> QED  BY <2>2, <2>3, <2>4, <2>5, <2>6, <1>4, <1>5 DEF RebalanceInv
<1> QED  BY <1>2, <1>3, <1>4, <1>5, NotGc, PlansKept

\* Rebalance goes on to the packs when no loose chunk is left to move.
LEMMA LooseDoneConverges == ASSUME IInv, MInv, LooseDone PROVE MInv'
<1> DEFINE to == IF command.op = "rebalance" THEN "packs" ELSE "done"
<1>1. /\ At("loose") /\ UNCHANGED <<loose, packs, bad, locator, pub, live, up>>
      /\ command' = [command EXCEPT !.step = to, !.cands = {}]
      /\ command.op = "rebalance" => command.cands = {}
  BY DEF LooseDone, ToolDoes, disk
<1>2. command \in Tools /\ command.step = "loose" /\ up = "tool" /\ pub[Tool].step = "none"
  BY <1>1, AtFacts
<1>3. /\ command'.op = command.op /\ command'.dest = command.dest /\ command'.cands = {}
      /\ command'.todo = command.todo /\ command'.left = command.left /\ command'.step = to
      /\ command'.queue = command.queue /\ command'.doomed = command.doomed /\ command'.source = command.source
  BY <1>1, <1>2 DEF Tools
<1>4. ASSUME RebalanceInv(command, loose, packs, locator, LiveChunks)
      PROVE  RebalanceInv(command', loose, packs, locator, LiveChunks)
  <2>1. command'.step = "packs" /\ command.cands = {}  BY <1>1, <1>3, <1>4 DEF RebalanceInv
  <2>2. ChunkPlan(command', loose, packs, LiveChunks)
    BY <2>1, <1>3, <1>4 DEF RebalanceInv, ChunkPlan, Pending
  <2>3. LoosePlan(command', loose, LiveChunks)
    BY <2>1, <1>3 DEF LoosePlan
  <2>4. PackPlan(command', packs, LiveChunks) /\ QueuePlan(command', LiveChunks) /\ LeftPlan(command', packs, locator)
    BY <1>3, <1>4 DEF RebalanceInv, PackPlan, QueuePlan, LeftPlan, Pending
  <2>5. ListPlan(command', packs, locator, LiveChunks)
    BY <1>2, <1>3, <1>4 DEF RebalanceInv, ListPlan
  <2>6. MovePlan(command', loose, packs, LiveChunks) /\ DropPlan(command', loose, packs, LiveChunks)
        /\ RebalanceEnd(command', packs, locator)
    BY <2>1, <1>2, <1>3, <1>4 DEF RebalanceInv, MovePlan, DropPlan, RebalanceEnd
  <2> QED  BY <2>1, <2>2, <2>3, <2>4, <2>5, <2>6, <1>3, <1>4 DEF RebalanceInv
<1> QED  BY <1>1, <1>2, <1>3, <1>4, NotGc, PlansKept
-----------------------------------------------------------------------------
(* replacePacksTo, for gc and rebalance.                                   *)

\* Without its dead packs a store has none: a chunk's primary pack is not
\* dead, and stays the primary one.
LEMMA DeadGone ==
  ASSUME NEW pk, NEW L, NEW f \in MapsTo(pk, L)
  PROVE  /\ \A c \in L : Held(c, pk) => f[c] \in pk \ Dead(pk, f, L) /\ c \in f[c].recs
         /\ NoneDead(pk \ Dead(pk, f, L), L)
<1> DEFINE K == pk \ Dead(pk, f, L)
<1>1. /\ f \in [{c \in L : Held(c, pk)} -> pk]
      /\ \A c \in L : Held(c, pk) => f[c] \in Primaries(c, pk)
  BY DEF MapsTo
<1>2. ASSUME NEW c \in L, Held(c, pk) PROVE f[c] \in K /\ c \in f[c].recs
  <2>1. f[c] \in Primaries(c, pk)  BY <1>1, <1>2
  <2>2. f[c] \in pk /\ c \in f[c].recs  BY <2>1 DEF Primaries
  <2>3. c \in {x \in f[c].recs \cap L : f[x] = f[c]}  BY <2>2
  <2>4. f[c] \notin Dead(pk, f, L)  BY <2>3 DEF Dead
  <2> QED  BY <2>2, <2>4
<1>3. ASSUME NEW c \in L PROVE Held(c, K) <=> Held(c, pk)
  <2>1. Held(c, K) => Held(c, pk)  BY DEF Held
  <2>2. Held(c, pk) => Held(c, K)  BY <1>2 DEF Held
  <2> QED  BY <2>1, <2>2
<1>4. \A c \in L : Held(c, pk) => f[c] \in Primaries(c, K)
  BY <1>1, <1>2 DEF Primaries
<1>5. \A p \in K : {c \in p.recs \cap L : f[c] = p} # {}  BY DEF Dead
<1>6. K \subseteq pk  OBVIOUS
<1> HIDE DEF K
<1>7. f \in MapsTo(K, L)
  <2>1. {c \in L : Held(c, K)} = {c \in L : Held(c, pk)}  BY <1>3
  <2>2. f \in [{c \in L : Held(c, K)} -> K]
    <3>1. \A c \in {x \in L : Held(x, pk)} : f[c] \in K  BY <1>2
    <3> QED  BY <1>1, <2>1, <3>1
  <2> QED  BY <2>1, <2>2, <1>4 DEF MapsTo
<1>8. Dead(K, f, L) = {}  BY <1>5 DEF Dead
<1> QED  BY <1>2, <1>7, <1>8 DEF NoneDead, K

\* The packs that replacePacksTo stages for the chunks it carries: each for
\* the tier of its chunks, no chunk in two.
StagedPacks(queue, need, dest) ==
  /\ \A p \in queue : p.recs # {} /\ p.recs \subseteq need /\ \A c \in p.recs : dest[c] = p.tier
  /\ \A p, q \in queue : p.recs \cap q.recs # {} => p = q

\* What StageReplacements plans.
StagedPlan(dest, need, queue) ==
  /\ command'.op = command.op /\ command'.step = "publish" /\ command'.dest = dest /\ command'.need = need
  /\ command'.queue = queue /\ command'.todo = command.todo /\ command'.cands = command.cands
  /\ command'.left = command.left /\ command'.doomed = command.doomed /\ command'.source = command.source
  /\ command.op = "rebalance" => dest = command.dest
  /\ need = {c \in LiveChunks : Held(c, command.doomed) /\ ~Outside(c, dest, command.doomed)}
  /\ StagedPacks(queue, need, dest)

\* StageReplacements stages what has no copy outside the doomed packs.
LEMMA StagedPlanFacts ==
  ASSUME IInv, StageReplacements
  PROVE  \E dest, need, queue : StagedPlan(dest, need, queue)
<1> DEFINE carriers(c) == {p \in command.doomed : c \in p.recs}
           required == {c \in LiveChunks : carriers(c) # {}}
           dest == [c \in Chunks |->
                    IF command.op = "rebalance" \/ c \notin required THEN command.dest[c]
                    ELSE CHOOSE t \in Tiers : /\ \E p \in carriers(c) : p.tier = t
                                              /\ \A p \in carriers(c) : t <= p.tier]
           need == {c \in required : ~Outside(c, dest, command.doomed)}
           inTier(t) == {c \in need : dest[c] = t}
           whole(d) == {[tier |-> t, recs |-> inTier(t), deflated |-> d] :
                            t \in {u \in Tiers : inTier(u) # {}}}
           single(d) == {[tier |-> dest[c], recs |-> {c}, deflated |-> d] : c \in need}
<1>1. PICK d \in budget.deflate : \E queue \in {whole(d), single(d)} :
        /\ At("stage")
        /\ command' = [command EXCEPT !.step = "publish", !.dest = dest, !.need = need, !.queue = queue]
  BY DEF StageReplacements, ToolDoes
<1>2. PICK queue \in {whole(d), single(d)} :
        command' = [command EXCEPT !.step = "publish", !.dest = dest, !.need = need, !.queue = queue]
  BY <1>1
<1>3. command \in Tools  BY <1>1, AtFacts
<1>4. command.op = "rebalance" => dest = command.dest
  <2>1. command.dest \in [Chunks -> Tiers]  BY <1>3 DEF Tools
  <2> HIDE DEF carriers, required
  <2> QED  BY <2>1
<1>5. need = {c \in LiveChunks : Held(c, command.doomed) /\ ~Outside(c, dest, command.doomed)}
  <2>1. \A c : carriers(c) # {} <=> Held(c, command.doomed)  BY DEF Held
  <2> HIDE DEF dest, carriers
  <2> QED  BY <2>1
<1> HIDE DEF dest, need, carriers, required
<1>6. StagedPacks(whole(d), need, dest)
  <2>1. \A p \in whole(d) : p.recs = inTier(p.tier) /\ p.recs # {} /\ p.deflated = d
    OBVIOUS
  <2>2. \A p \in whole(d) : p.recs # {} /\ p.recs \subseteq need /\ \A c \in p.recs : dest[c] = p.tier
    BY <2>1
  <2>3. ASSUME NEW p \in whole(d), NEW q \in whole(d), p.recs \cap q.recs # {} PROVE p = q
    <3>1. PICK t \in Tiers : p = [tier |-> t, recs |-> inTier(t), deflated |-> d]  OBVIOUS
    <3>2. PICK u \in Tiers : q = [tier |-> u, recs |-> inTier(u), deflated |-> d]  OBVIOUS
    <3>3. PICK c : c \in inTier(t) /\ c \in inTier(u)  BY <2>3, <3>1, <3>2
    <3>4. t = u  BY <3>3
    <3> QED  BY <3>1, <3>2, <3>4
  <2> QED  BY <2>2, <2>3 DEF StagedPacks
<1>7. StagedPacks(single(d), need, dest)
  <2>1. \A p \in single(d) : \E c \in need : p = [tier |-> dest[c], recs |-> {c}, deflated |-> d]
    OBVIOUS
  <2> HIDE DEF single
  <2>2. \A p \in single(d) : p.recs # {} /\ p.recs \subseteq need /\ \A c \in p.recs : dest[c] = p.tier
    BY <2>1
  <2>3. ASSUME NEW p \in single(d), NEW q \in single(d), p.recs \cap q.recs # {} PROVE p = q
    <3>1. PICK a \in need : p = [tier |-> dest[a], recs |-> {a}, deflated |-> d]  BY <2>1
    <3>2. PICK b \in need : q = [tier |-> dest[b], recs |-> {b}, deflated |-> d]  BY <2>1
    <3>3. a = b  BY <2>3, <3>1, <3>2
    <3> QED  BY <3>1, <3>2, <3>3
  <2> QED  BY <2>2, <2>3 DEF StagedPacks
<1>8. StagedPacks(queue, need, dest)  BY <1>6, <1>7
<1> HIDE DEF whole, single
<1>9. /\ command'.op = command.op /\ command'.step = "publish" /\ command'.dest = dest /\ command'.need = need
      /\ command'.queue = queue /\ command'.todo = command.todo /\ command'.cands = command.cands
      /\ command'.left = command.left /\ command'.doomed = command.doomed /\ command'.source = command.source
  BY <1>2, <1>3 DEF Tools
<1>10. StagedPlan(dest, need, queue)  BY <1>4, <1>5, <1>8, <1>9 DEF StagedPlan
<1> QED  BY <1>10

\* gc writes a pack only for a chunk whose primary copy is damaged: it
\* replaces the pack with that copy, or leaves damage behind.
LEMMA StagedCollects ==
  ASSUME up = "tool", NEW dest, NEW need, NEW queue, StagedPlan(dest, need, queue),
         command.step = "stage", GcInv(command, loose, packs, locator, bad, LiveChunks)
  PROVE  GcInv(command', loose, packs, locator, bad, LiveChunks)
<1>1. /\ command.op = "gc" /\ loose \subseteq LiveChunks /\ locator = packs
      /\ \E f \in MapsTo(packs, LiveChunks) : command.doomed = Dead(packs, f, LiveChunks)
  BY DEF GcInv
<1>2. PICK f \in MapsTo(packs, LiveChunks) : command.doomed = Dead(packs, f, LiveChunks)  BY <1>1
<1>3. /\ \A c \in LiveChunks : Held(c, packs) => f[c] \in packs \ command.doomed /\ c \in f[c].recs
      /\ NoneDead(packs \ command.doomed, LiveChunks)
  BY <1>2, DeadGone
<1>4. /\ command'.op = "gc" /\ command'.step = "publish" /\ command'.queue = queue /\ command'.doomed = command.doomed
      /\ need = {c \in LiveChunks : Held(c, command.doomed) /\ ~Outside(c, dest, command.doomed)}
      /\ StagedPacks(queue, need, dest)
  BY <1>1 DEF StagedPlan
<1>5. ASSUME \A x \in bad : x[1] \in queue, NEW p \in queue PROVE p \in packs \ command.doomed
  <2>1. PICK c \in p.recs : c \in need  BY <1>4, <1>5 DEF StagedPacks
  <2>2. c \in LiveChunks /\ Held(c, command.doomed) /\ ~Outside(c, dest, command.doomed)  BY <2>1, <1>4
  <2>3. Held(c, packs)  BY <2>2, <1>2 DEF Held, Dead
  <2>4. f[c] \in packs \ command.doomed /\ c \in f[c].recs  BY <2>2, <2>3, <1>3
  <2>5. ~CasReadExcluding(c, command.doomed)  BY <2>2, <1>1 DEF Outside
  <2>6. <<f[c], c>> \in bad  BY <2>4, <2>5, <1>1 DEF CasReadExcluding, GoodIn
  <2>7. f[c] \in queue  BY <2>6, <1>5
  <2>8. f[c] = p  BY <2>1, <2>4, <2>7, <1>4 DEF StagedPacks
  <2> QED  BY <2>4, <2>8
<1> QED  BY <1>1, <1>3, <1>4, <1>5 DEF GcInv, Curable

\* What rebalance does not stage is in its tier outside the doomed packs.
LEMMA StagedRebalances ==
  ASSUME up = "tool", NEW dest, NEW need, NEW queue, StagedPlan(dest, need, queue),
         command.step = "stage", command.queue = {}, RebalanceInv(command, loose, packs, locator, LiveChunks)
  PROVE  RebalanceInv(command', loose, packs, locator, LiveChunks)
<1>1. /\ command.op = "rebalance" /\ command'.op = "rebalance" /\ command'.step = "publish" /\ command'.dest = command.dest
      /\ command'.queue = queue /\ command'.todo = command.todo /\ command'.cands = command.cands
      /\ command'.left = command.left /\ command'.doomed = command.doomed /\ command'.source = command.source
      /\ command'.need = need /\ dest = command.dest /\ StagedPacks(queue, need, dest)
      /\ need = {c \in LiveChunks : Held(c, command.doomed) /\ ~Outside(c, dest, command.doomed)}
  BY DEF StagedPlan, RebalanceInv
<1>2. ChunkPlan(command', loose, packs, LiveChunks)
  BY <1>1 DEF RebalanceInv, ChunkPlan, Pending, Held
<1>3. QueuePlan(command', LiveChunks)
  <2>1. need \subseteq LiveChunks  BY <1>1
  <2> QED  BY <2>1, <1>1 DEF StagedPacks, QueuePlan
<1>4. PackPlan(command', packs, LiveChunks) /\ LeftPlan(command', packs, locator)
  BY <1>1 DEF RebalanceInv, PackPlan, LeftPlan, Pending
<1>5. ListPlan(command', packs, locator, LiveChunks) /\ LoosePlan(command', loose, LiveChunks)
  BY <1>1 DEF RebalanceInv, ListPlan, LoosePlan
<1>6. ASSUME NEW c \in LiveChunks, Held(c, command.doomed), c \notin need
      PROVE  AtDest(c, command.dest, loose, packs \ command.doomed)
  <2>1. CopyAtTier(c, command.dest[c], command.doomed)  BY <1>1, <1>6 DEF Outside
  <2> QED  BY <2>1 DEF CopyAtTier, GoodLoose, GoodIn, AtDest
<1>7. DropPlan(command', loose, packs, LiveChunks)  BY <1>1, <1>6 DEF DropPlan
<1>8. MovePlan(command', loose, packs, LiveChunks) /\ RebalanceEnd(command', packs, locator)
  BY <1>1 DEF RebalanceInv, MovePlan, RebalanceEnd
<1> QED  BY <1>1, <1>2, <1>3, <1>4, <1>5, <1>7, <1>8 DEF RebalanceInv

\* Staging the replacements keeps the plan.
LEMMA StageReplacementsConverges == ASSUME IInv, MInv, StageReplacements PROVE MInv'
<1>1. At("stage") /\ UNCHANGED <<loose, packs, bad, locator, pub, live, up>>
  BY DEF StageReplacements, ToolDoes, disk
<1>2. command.step = "stage" /\ up = "tool" /\ pub[Tool].step = "none" /\ command.queue = {}
  BY <1>1, AtFacts
<1>3. PICK dest, need, queue : StagedPlan(dest, need, queue)  BY StagedPlanFacts
<1>4. command'.op = command.op  BY <1>3 DEF StagedPlan
<1> QED  BY <1>1, <1>2, <1>3, <1>4, StagedCollects, StagedRebalances, PlansKept

\* The pack that is published is one of those planned.
LEMMA PublishReplacementConverges == ASSUME IInv, MInv, PublishReplacement PROVE MInv'
<1>1. /\ up = "tool" /\ UNCHANGED <<loose, packs, bad, locator, live, up, command>>
  BY DEF PublishReplacement, disk
<1>2. PICK p \in command.queue : StartPublish(Tool, p)  BY DEF PublishReplacement
<1>3. pub \in [PackWriters -> Pubs]  BY DEF IInv, StateTypes
<1>4. pub'[Tool].pack = p  BY <1>2, <1>3 DEF StartPublish, PackWriters
<1> QED  BY <1>1, <1>2, <1>4, PlansKept

\* What was carried reads back from its tier before anything goes.
LEMMA CheckReplacementsConverges == ASSUME IInv, MInv, CheckReplacements PROVE MInv'
<1>1. /\ At("publish") /\ UNCHANGED <<loose, packs, bad, locator, pub, live, up>>
      /\ command' = [command EXCEPT !.step = "drop", !.need = {}]
      /\ \A c \in command.need : Outside(c, command.dest, command.doomed)
  BY DEF CheckReplacements, ToolDoes, disk
<1>2. /\ command \in Tools /\ command.step = "publish" /\ up = "tool" /\ pub[Tool].step = "none"
      /\ command.queue = {}
  BY <1>1, AtFacts
<1>3. /\ command'.op = command.op /\ command'.dest = command.dest /\ command'.cands = command.cands
      /\ command'.todo = command.todo /\ command'.left = command.left /\ command'.step = "drop"
      /\ command'.queue = command.queue /\ command'.doomed = command.doomed /\ command'.source = command.source
  BY <1>1, <1>2 DEF Tools
<1>4. ASSUME GcInv(command, loose, packs, locator, bad, LiveChunks)
      PROVE  GcInv(command', loose, packs, locator, bad, LiveChunks)
  BY <1>2, <1>3, <1>4 DEF GcInv, Curable
<1>5. ASSUME RebalanceInv(command, loose, packs, locator, LiveChunks)
      PROVE  RebalanceInv(command', loose, packs, locator, LiveChunks)
  <2>1. ASSUME NEW c \in LiveChunks, Held(c, command.doomed)
        PROVE  AtDest(c, command.dest, loose, packs \ command.doomed)
    <3>1. CASE c \in command.need
      <4>1. CopyAtTier(c, command.dest[c], command.doomed)  BY <3>1, <1>1, <1>5 DEF Outside, RebalanceInv
      <4> QED  BY <4>1 DEF CopyAtTier, GoodLoose, GoodIn, AtDest
    <3>2. CASE c \notin command.need  BY <3>2, <2>1, <1>2, <1>5 DEF RebalanceInv, DropPlan
    <3> QED  BY <3>1, <3>2
  <2>2. DropPlan(command', loose, packs, LiveChunks)  BY <2>1, <1>3 DEF DropPlan
  <2>3. ChunkPlan(command', loose, packs, LiveChunks) /\ PackPlan(command', packs, LiveChunks)
    BY <1>3, <1>5 DEF RebalanceInv, ChunkPlan, PackPlan, Pending
  <2>4. QueuePlan(command', LiveChunks) /\ LeftPlan(command', packs, locator)
    BY <1>3, <1>5 DEF RebalanceInv, QueuePlan, LeftPlan
  <2>5. ListPlan(command', packs, locator, LiveChunks) /\ LoosePlan(command', loose, LiveChunks)
    BY <1>2, <1>3, <1>5 DEF RebalanceInv, ListPlan, LoosePlan
  <2>6. MovePlan(command', loose, packs, LiveChunks) /\ RebalanceEnd(command', packs, locator)
    BY <1>2, <1>3, <1>5 DEF RebalanceInv, MovePlan, RebalanceEnd
  <2> QED  BY <2>2, <2>3, <2>4, <2>5, <2>6, <1>3, <1>5 DEF RebalanceInv
<1> QED  BY <1>1, <1>2, <1>3, <1>4, <1>5, PlansKept

\* A doomed pack goes: what it held is in its tier elsewhere.
LEMMA DropPackConverges == ASSUME IInv, MInv, DropPack PROVE MInv'
<1>1. PICK x \in command.doomed : /\ packs' = packs \ {x}
                                  /\ command' = [command EXCEPT !.doomed = @ \ {x}, !.dirs = @ \cup {x.tier}]
  BY DEF DropPack, ToolDoes
<1>2. At("drop") /\ UNCHANGED <<loose, bad, locator, pub, live, up>>
  BY DEF DropPack, ToolDoes
<1>3. command \in Tools /\ command.step = "drop" /\ up = "tool" /\ pub[Tool].step = "none"
  BY <1>2, AtFacts
<1>4. /\ command'.op = command.op /\ command'.dest = command.dest /\ command'.cands = command.cands
      /\ command'.todo = command.todo /\ command'.left = command.left /\ command'.step = "drop"
      /\ command'.queue = command.queue /\ command'.doomed = command.doomed \ {x} /\ command'.source = command.source
  BY <1>1, <1>3 DEF Tools
<1>5. packs' \ command'.doomed = packs \ command.doomed  BY <1>1, <1>4
<1>6. ASSUME GcInv(command, loose, packs, locator, bad, LiveChunks)
      PROVE  GcInv(command', loose, packs', locator, bad, LiveChunks)
  BY <1>3, <1>4, <1>5, <1>6 DEF GcInv, Curable
<1>7. ASSUME RebalanceInv(command, loose, packs, locator, LiveChunks)
      PROVE  RebalanceInv(command', loose, packs', locator, LiveChunks)
  <2>1. ASSUME NEW c \in LiveChunks, Held(c, command.doomed)
        PROVE  AtDest(c, command.dest, loose, packs \ command.doomed)
    BY <2>1, <1>3, <1>7 DEF RebalanceInv, DropPlan
  <2>2. ChunkPlan(command', loose, packs', LiveChunks)
    <3> SUFFICES ASSUME NEW c \in LiveChunks
                 PROVE  \/ AtDest(c, command.dest, loose, packs') \/ c \in command'.cands
                        \/ Held(c, command'.queue) \/ Held(c, packs' \cap Pending(command'))
      BY <1>4 DEF ChunkPlan
    <3>1. CASE c \in x.recs
      <4>1. AtDest(c, command.dest, loose, packs \ command.doomed)  BY <3>1, <2>1, <1>1 DEF Held
      <4>2. packs \ command.doomed \subseteq packs'  BY <1>1
      <4> QED  BY <4>1, <4>2, StaysAtDest
    <3>2. CASE c \notin x.recs
      <4>1. \/ AtDest(c, command.dest, loose, packs) \/ c \in command.cands \/ Held(c, command.queue)
            \/ Held(c, packs \cap Pending(command))
        BY <1>7 DEF RebalanceInv, ChunkPlan
      <4>2. AtDest(c, command.dest, loose, packs) => AtDest(c, command.dest, loose, packs')
        BY <3>2, <1>1 DEF AtDest
      <4>3. Held(c, packs \cap Pending(command)) => Held(c, packs' \cap Pending(command'))
        BY <3>2, <1>1, <1>4 DEF Held, Pending
      <4> QED  BY <4>1, <4>2, <4>3, <1>4
    <3> QED  BY <3>1, <3>2
  <2>3. PackPlan(command', packs', LiveChunks)
    BY <1>1, <1>4, <1>7 DEF RebalanceInv, PackPlan, Pending
  <2>4. QueuePlan(command', LiveChunks) /\ LeftPlan(command', packs', locator)
    BY <1>1, <1>4, <1>7 DEF RebalanceInv, QueuePlan, LeftPlan
  <2>5. ListPlan(command', packs', locator, LiveChunks) /\ LoosePlan(command', loose, LiveChunks)
    BY <1>3, <1>4, <1>7 DEF RebalanceInv, ListPlan, LoosePlan
  <2>6. DropPlan(command', loose, packs', LiveChunks)
    <3>1. \A c \in LiveChunks : Held(c, command'.doomed) => Held(c, command.doomed)  BY <1>4 DEF Held
    <3> QED  BY <3>1, <2>1, <1>4, <1>5 DEF DropPlan
  <2>7. MovePlan(command', loose, packs', LiveChunks) /\ RebalanceEnd(command', packs', locator)
    BY <1>3, <1>4, <1>7 DEF RebalanceInv, MovePlan, RebalanceEnd
  <2> QED  BY <2>2, <2>3, <2>4, <2>5, <2>6, <2>7, <1>4, <1>7 DEF RebalanceInv
<1> QED  BY <1>2, <1>3, <1>4, <1>6, <1>7, PlansKept

\* All doomed packs are gone and the locator is what is there: gc is done and
\* rebalance goes on.
LEMMA PacksDroppedConverges == ASSUME IInv, MInv, PacksDropped PROVE MInv'
<1> DEFINE to == IF command.op = "rebalance" THEN "packs" ELSE "done"
<1>1. /\ At("drop") /\ locator' = Loadable /\ command.doomed = {}
      /\ command' = [command EXCEPT !.dirs = {}, !.step = to]
      /\ UNCHANGED <<loose, packs, bad, pub, live, up>>
  BY DEF PacksDropped, ToolDoes
<1>2. /\ command \in Tools /\ command.step = "drop" /\ up = "tool" /\ pub[Tool].step = "none"
      /\ command.queue = {}
  BY <1>1, AtFacts
<1>3. /\ command'.op = command.op /\ command'.dest = command.dest /\ command'.cands = command.cands
      /\ command'.todo = command.todo /\ command'.left = command.left /\ command'.step = to
      /\ command'.queue = {} /\ command'.doomed = {} /\ command'.source = command.source
  BY <1>1, <1>2 DEF Tools
<1>4. locator' = packs  BY <1>1, LoadableIs
<1>5. ASSUME GcInv(command, loose, packs, locator, bad, LiveChunks)
      PROVE  GcInv(command', loose, packs, locator', bad, LiveChunks)
  <2>1. command'.step = "done" /\ command'.op = "gc"  BY <1>3, <1>5 DEF GcInv
  <2>2. bad = {} => NoneDead(packs, LiveChunks)
    <3>1. packs \ command.doomed = packs  BY <1>1
    <3> QED  BY <3>1, <1>2, <1>5 DEF GcInv, Curable
  <2>3. loose \subseteq LiveChunks  BY <1>2, <1>5 DEF GcInv
  <2> QED  BY <2>1, <2>2, <2>3, <1>3, <1>4 DEF GcInv
<1>6. ASSUME RebalanceInv(command, loose, packs, locator, LiveChunks)
      PROVE  RebalanceInv(command', loose, packs, locator', LiveChunks)
  <2>1. command'.step = "packs" /\ command'.op = "rebalance"  BY <1>3, <1>6 DEF RebalanceInv
  <2>2. ChunkPlan(command', loose, packs, LiveChunks) /\ PackPlan(command', packs, LiveChunks)
    BY <1>1, <1>2, <1>3, <1>6 DEF RebalanceInv, ChunkPlan, PackPlan, Pending
  <2>3. QueuePlan(command', LiveChunks) /\ LeftPlan(command', packs, locator')
    BY <1>1, <1>3, <1>4, <1>6 DEF RebalanceInv, QueuePlan, LeftPlan
  <2>4. ListPlan(command', packs, locator', LiveChunks) /\ LoosePlan(command', loose, LiveChunks)
    BY <2>1, <1>2, <1>3, <1>4, <1>6 DEF RebalanceInv, ListPlan, LoosePlan
  <2>5. /\ MovePlan(command', loose, packs, LiveChunks) /\ DropPlan(command', loose, packs, LiveChunks)
        /\ RebalanceEnd(command', packs, locator')
    BY <2>1, <1>2, <1>3, <1>6 DEF RebalanceInv, MovePlan, DropPlan, RebalanceEnd
  <2> QED  BY <2>1, <2>2, <2>3, <2>4, <2>5 DEF RebalanceInv
<1> QED  BY <1>1, <1>2, <1>3, <1>5, <1>6, PlansKept

\* gc removes loose chunks that are not live.
LEMMA UnlinkGarbageConverges == ASSUME IInv, MInv, UnlinkGarbage PROVE MInv'
<1>1. PICK x \in command.todo : loose' = loose \ {x} /\ command' = [command EXCEPT !.todo = @ \ {x}]
  BY DEF UnlinkGarbage, ToolDoes
<1>2. At("garbage") /\ UNCHANGED <<packs, bad, locator, pub, live, up>>
  BY DEF UnlinkGarbage, ToolDoes
<1>3. command \in Tools /\ command.step = "garbage" /\ up = "tool" /\ pub[Tool].step = "none"
  BY <1>2, AtFacts
<1>4. /\ command'.op = command.op /\ command'.step = "garbage" /\ command'.todo = command.todo \ {x}
      /\ command'.queue = command.queue
  BY <1>1, <1>3 DEF Tools
<1>5. ASSUME GcInv(command, loose, packs, locator, bad, LiveChunks)
      PROVE  GcInv(command', loose', packs, locator, bad, LiveChunks)
  BY <1>1, <1>3, <1>4, <1>5 DEF GcInv
<1>6. ~RebalanceInv(command, loose, packs, locator, LiveChunks)  BY <1>3 DEF RebalanceInv
<1> QED  BY <1>2, <1>3, <1>4, <1>5, <1>6, PlansKept

\* gc lists the packs with no live record.
LEMMA DeadPacksConverges == ASSUME IInv, MInv, DeadPacks PROVE MInv'
<1>1. PICK f \in PrimaryMaps(locator) :
        LET dead == {p \in locator : LiveIn(p, f) = {}} IN
        command' = [command EXCEPT !.doomed = dead, !.step = IF dead = {} THEN "done" ELSE "stage"]
  BY DEF DeadPacks, ToolDoes
<1> DEFINE dead == Dead(locator, f, LiveChunks)
<1>2. /\ At("garbage") /\ command.todo = {} /\ UNCHANGED <<loose, packs, bad, locator, pub, live, up>>
  BY DEF DeadPacks, ToolDoes, disk
<1>3. /\ command \in Tools /\ command.step = "garbage" /\ up = "tool" /\ pub[Tool].step = "none"
      /\ command.queue = {}
  BY <1>2, AtFacts
<1>4. f \in MapsTo(locator, LiveChunks)  BY DEF PrimaryMaps, MapsTo
<1>5. dead = {p \in locator : LiveIn(p, f) = {}}  BY DEF Dead, LiveIn
<1>6. command' = [command EXCEPT !.doomed = dead, !.step = IF dead = {} THEN "done" ELSE "stage"]
  BY <1>1, <1>5
<1> HIDE DEF dead
<1>7. /\ command'.op = command.op /\ command'.doomed = dead /\ command'.queue = {}
      /\ command'.step = IF dead = {} THEN "done" ELSE "stage"
  BY <1>6, <1>3 DEF Tools
<1>8. ASSUME GcInv(command, loose, packs, locator, bad, LiveChunks)
      PROVE  GcInv(command', loose, packs, locator, bad, LiveChunks)
  <2>1. loose \subseteq LiveChunks /\ locator = packs /\ command.op = "gc"  BY <1>2, <1>3, <1>8 DEF GcInv
  <2>2. dead = {} => NoneDead(packs, LiveChunks)  BY <2>1, <1>4 DEF dead, NoneDead
  <2>3. \E g \in MapsTo(packs, LiveChunks) : dead = Dead(packs, g, LiveChunks)  BY <2>1, <1>4 DEF dead
  <2> QED  BY <2>1, <2>2, <2>3, <1>7 DEF GcInv
<1>9. ~RebalanceInv(command, loose, packs, locator, LiveChunks)  BY <1>3 DEF RebalanceInv
<1> QED  BY <1>2, <1>3, <1>7, <1>8, <1>9, PlansKept
-----------------------------------------------------------------------------
(* rebalance's pass over the packs.                                        *)

\* The live chunks of a pack as classifyPack sorts them: those it keeps, those
\* that are redundant in it, and those that are away from their targets.
Sorted(p, packset, D, s, keep, redundant, away) ==
  /\ keep = {c \in p.recs \cap LiveChunks : D[c] = p.tier /\ c \in s}
  /\ redundant = {c \in (p.recs \cap LiveChunks) \ keep :
                    \/ \E q \in packset \ {p} : c \in q.recs /\ q.tier = D[c]
                    \/ D[c] = Hot /\ c \in loose}
  /\ away = (p.recs \cap LiveChunks) \ (keep \cup redundant)
  /\ Classify(p, packset, D, s) =
       IF away = {}
       THEN IF keep = {} /\ redundant # {} THEN "redundant" ELSE "compliant"
       ELSE IF away = p.recs /\ \A c, d \in away : D[c] = D[d]
       THEN "move" ELSE "rewrite"

\* A pack's action follows from how its chunks are sorted.
LEMMA ClassifyIs ==
  ASSUME NEW p, NEW packset, NEW D, NEW s
  PROVE  \E keep, redundant, away : Sorted(p, packset, D, s, keep, redundant, away)
<1> DEFINE keep == {c \in p.recs \cap LiveChunks : D[c] = p.tier /\ c \in s}
           redundant == {c \in (p.recs \cap LiveChunks) \ keep :
                             \/ \E q \in packset \ {p} : c \in q.recs /\ q.tier = D[c]
                             \/ D[c] = Hot /\ c \in loose}
           away == (p.recs \cap LiveChunks) \ (keep \cup redundant)
<1>1. Classify(p, packset, D, s) =
        IF away = {}
        THEN IF keep = {} /\ redundant # {} THEN "redundant" ELSE "compliant"
        ELSE IF away = p.recs /\ \A c, d \in away : D[c] = D[d]
        THEN "move" ELSE "rewrite"
  BY DEF Classify
<1>2. Sorted(p, packset, D, s, keep, redundant, away)  BY <1>1 DEF Sorted
<1> HIDE DEF keep, redundant, away
<1> QED  BY <1>2

\* A pack that is left alone is in place, and its live chunks are at their
\* targets in what the locator lists.
LEMMA CompliantFacts ==
  ASSUME NEW p, NEW packset, NEW D, NEW s, Classify(p, packset, D, s) = "compliant"
  PROVE  /\ InPlace(p, D, LiveChunks)
         /\ \A c \in p.recs \cap LiveChunks : D[c] = p.tier \/ AtDest(c, D, loose, packset)
<1>1. PICK keep, redundant, away : Sorted(p, packset, D, s, keep, redundant, away)
  BY ClassifyIs
<1>2. away = {} /\ ~(keep = {} /\ redundant # {})  BY <1>1 DEF Sorted
<1>3. \A c \in p.recs \cap LiveChunks : c \in keep \/ c \in redundant  BY <1>1, <1>2 DEF Sorted
<1>4. \A c \in keep : c \in p.recs \cap LiveChunks /\ D[c] = p.tier  BY <1>1 DEF Sorted
<1>5. \A c \in redundant : AtDest(c, D, loose, packset)  BY <1>1 DEF AtDest, Sorted
<1>6. InPlace(p, D, LiveChunks)
  <2>1. CASE keep = {}  BY <2>1, <1>2, <1>3 DEF InPlace
  <2>2. CASE keep # {}  BY <2>2, <1>4 DEF InPlace
  <2> QED  BY <2>1, <2>2
<1> QED  BY <1>3, <1>4, <1>5, <1>6

\* A pack that is in place and whose live chunks are at their targets is
\* left alone.
LEMMA InPlaceIsCompliant ==
  ASSUME NEW p, NEW packset, NEW D, InPlace(p, D, LiveChunks),
         \A c \in p.recs \cap LiveChunks : D[c] = p.tier \/ AtDest(c, D, loose, packset)
  PROVE  Classify(p, packset, D, p.recs) = "compliant"
<1>1. PICK keep, redundant, away : Sorted(p, packset, D, p.recs, keep, redundant, away)
  BY ClassifyIs
<1>2. ASSUME NEW c \in p.recs \cap LiveChunks, c \notin keep PROVE c \in redundant
  <2>1. D[c] # p.tier /\ AtDest(c, D, loose, packset)  BY <1>1, <1>2 DEF Sorted
  <2>2. CASE D[c] = Hot /\ c \in loose  BY <2>2, <1>1, <1>2 DEF Sorted
  <2>3. CASE \E q \in packset : q.tier = D[c] /\ c \in q.recs
    <3>1. PICK q \in packset : q.tier = D[c] /\ c \in q.recs  BY <2>3
    <3>2. q # p  BY <3>1, <2>1
    <3> QED  BY <3>1, <3>2, <1>1, <1>2 DEF Sorted
  <2> QED  BY <2>1, <2>2, <2>3 DEF AtDest
<1>3. away = {}  BY <1>1, <1>2 DEF Sorted
<1>4. keep = {} => redundant = {}
  <2> SUFFICES ASSUME keep = {} PROVE redundant = {}  OBVIOUS
  <2>1. p.recs \cap LiveChunks = {}  BY <1>1 DEF InPlace, Sorted
  <2> QED  BY <2>1, <1>1 DEF Sorted
<1> QED  BY <1>1, <1>3, <1>4 DEF Sorted

\* A pack is moved when all it holds is live and belongs in one other tier.
LEMMA MoveFacts ==
  ASSUME NEW p, NEW packset, NEW D, NEW s \in Firsts(p, packset),
         Classify(p, packset, D, s) = "move"
  PROVE  /\ p.recs \subseteq LiveChunks /\ \A c \in p.recs : D[c] # p.tier
         /\ \A c, d \in p.recs : D[c] = D[d]
<1>1. PICK keep, redundant, away : Sorted(p, packset, D, s, keep, redundant, away)
  BY ClassifyIs
<1>2. away = p.recs /\ \A c, d \in away : D[c] = D[d]  BY <1>1 DEF Sorted
<1>3. p.recs \subseteq LiveChunks  BY <1>1, <1>2 DEF Sorted
<1>4. ASSUME NEW c \in p.recs, D[c] = p.tier PROVE FALSE
  <2>1. c \in p.recs \cap LiveChunks /\ c \notin keep /\ c \notin redundant  BY <1>1, <1>2 DEF Sorted
  <2>2. c \notin s  BY <2>1, <1>1, <1>4 DEF Sorted
  <2>3. \E q \in packset \ {p} : q.tier = p.tier /\ c \in q.recs  BY <2>2 DEF Firsts
  <2> QED  BY <2>1, <2>3, <1>1, <1>4 DEF Sorted
<1> QED  BY <1>2, <1>3, <1>4

\* What the locator says of a target is so.
LEMMA ListedAtDest ==
  ASSUME NEW tl, NEW pk, NEW loc, NEW L, NEW lo, NEW c \in L, ListPlan(tl, pk, loc, L),
         tl.step # "drop", AtDest(c, tl.dest, lo, loc)
  PROVE  AtDest(c, tl.dest, lo, pk)
<1>1. ASSUME NEW p \in loc, p.tier = tl.dest[c], c \in p.recs PROVE p \in pk
  BY <1>1 DEF ListPlan, Misplaced
<1> QED  BY <1>1 DEF AtDest

\* Rebalance leaves a pack alone, or will replace it.
LEMMA VisitPackConverges == ASSUME IInv, MInv, VisitPack PROVE MInv'
<1>1. /\ At("packs") /\ command.op = "rebalance"
      /\ UNCHANGED <<loose, packs, bad, locator, pub, live, up>>
  BY DEF VisitPack, ToolDoes, disk
<1>2. command \in Tools /\ command.step = "packs" /\ up = "tool" /\ pub[Tool].step = "none"
  BY <1>1, AtFacts
<1>3a. PICK x \in command.left : \E s \in Firsts(x, locator) :
        /\ x \in locator => Classify(x, locator, command.dest, s) # "move"
        /\ command' = [command EXCEPT !.left = @ \ {x},
                      !.doomed = IF x \in locator
                                    /\ Classify(x, locator, command.dest, s) \in {"rewrite", "redundant"}
                                 THEN @ \cup {x} ELSE @]
  BY DEF VisitPack, ToolDoes
<1>3. PICK s \in Firsts(x, locator) :
        /\ x \in locator => Classify(x, locator, command.dest, s) # "move"
        /\ command' = [command EXCEPT !.left = @ \ {x},
                      !.doomed = IF x \in locator
                                    /\ Classify(x, locator, command.dest, s) \in {"rewrite", "redundant"}
                                 THEN @ \cup {x} ELSE @]
  BY <1>3a
<1> DEFINE replaced == x \in locator /\ Classify(x, locator, command.dest, s) \in {"rewrite", "redundant"}
<1>4. x \in locator => replaced \/ Classify(x, locator, command.dest, s) = "compliant"
  <2>1. PICK keep, redundant, away : Sorted(x, locator, command.dest, s, keep, redundant, away)
    BY ClassifyIs
  <2>2. Classify(x, locator, command.dest, s) \in {"redundant", "compliant", "move", "rewrite"}
    BY <2>1 DEF Sorted
  <2> QED  BY <2>2, <1>3
<1>5. command' = [command EXCEPT !.left = @ \ {x}, !.doomed = IF replaced THEN @ \cup {x} ELSE @]  BY <1>3
<1> HIDE DEF replaced
<1>6. /\ command'.op = command.op /\ command'.dest = command.dest /\ command'.cands = command.cands
      /\ command'.todo = command.todo /\ command'.left = command.left \ {x} /\ command'.step = "packs"
      /\ command'.queue = command.queue /\ command'.source = command.source
      /\ command'.doomed = IF replaced THEN command.doomed \cup {x} ELSE command.doomed
  BY <1>5, <1>2 DEF Tools
<1>7. ~GcInv(command, loose, packs, locator, bad, LiveChunks)  BY <1>2, NotGc
<1>8. ASSUME RebalanceInv(command, loose, packs, locator, LiveChunks)
      PROVE  RebalanceInv(command', loose, packs, locator, LiveChunks)
  <2>1. x \in packs /\ x \in locator /\ ListPlan(command, packs, locator, LiveChunks)
    BY <1>3, <1>8 DEF RebalanceInv, LeftPlan
  <2>2. ChunkPlan(command', loose, packs, LiveChunks) /\ PackPlan(command', packs, LiveChunks)
    <3>1. CASE replaced
      <4>1. Pending(command') = Pending(command)  BY <3>1, <1>3, <1>6 DEF Pending
      <4> QED  BY <4>1, <1>6, <1>8 DEF RebalanceInv, ChunkPlan, PackPlan
    <3>2. CASE ~replaced
      <4>1. Pending(command) \ {x} \subseteq Pending(command')  BY <3>2, <1>6 DEF Pending
      <4>2. Classify(x, locator, command.dest, s) = "compliant"  BY <3>2, <2>1, <1>4
      <4>3. /\ InPlace(x, command.dest, LiveChunks)
            /\ \A c \in x.recs \cap LiveChunks : command.dest[c] = x.tier \/ AtDest(c, command.dest, loose, locator)
        BY <4>2, CompliantFacts
      <4>4. ASSUME NEW c \in LiveChunks, c \in x.recs PROVE AtDest(c, command.dest, loose, packs)
        <5>1. CASE command.dest[c] = x.tier  BY <5>1, <4>4, <2>1 DEF AtDest
        <5>2. CASE AtDest(c, command.dest, loose, locator)  BY <5>2, <2>1, <1>2, ListedAtDest
        <5> QED  BY <5>1, <5>2, <4>3, <4>4
      <4>5. PackPlan(command', packs, LiveChunks)
        BY <4>1, <4>3, <1>6, <1>8 DEF RebalanceInv, PackPlan
      <4>6. ASSUME NEW c \in LiveChunks, c \notin x.recs, Held(c, packs \cap Pending(command))
            PROVE  Held(c, packs \cap Pending(command'))
        BY <4>1, <4>6 DEF Held
      <4>7. ChunkPlan(command', loose, packs, LiveChunks)
        BY <4>4, <4>6, <1>6, <1>8 DEF RebalanceInv, ChunkPlan
      <4> QED  BY <4>5, <4>7
    <3> QED  BY <3>1, <3>2
  <2>3. LeftPlan(command', packs, locator)
    BY <1>6, <1>8 DEF RebalanceInv, LeftPlan
  <2>4. QueuePlan(command', LiveChunks) /\ LoosePlan(command', loose, LiveChunks)
    BY <1>2, <1>6, <1>8 DEF RebalanceInv, QueuePlan, LoosePlan
  <2>5. ListPlan(command', packs, locator, LiveChunks)
    BY <1>2, <1>6, <1>8 DEF RebalanceInv, ListPlan
  <2>6. /\ MovePlan(command', loose, packs, LiveChunks) /\ DropPlan(command', loose, packs, LiveChunks)
        /\ RebalanceEnd(command', packs, locator)
    BY <1>2, <1>6, <1>8 DEF RebalanceInv, MovePlan, DropPlan, RebalanceEnd
  <2> QED  BY <2>2, <2>3, <2>4, <2>5, <2>6, <1>6, <1>8 DEF RebalanceInv
<1> QED  BY <1>1, <1>2, <1>6, <1>7, <1>8, PlansKept

\* The target of a move is in the tier of all that the pack holds.
LEMMA MoveToIs ==
  ASSUME IInv, At("packs"), NEW x \in command.left, WantsMove(x), command.op = "rebalance"
  PROVE  /\ x.recs \subseteq LiveChunks /\ Misplaced(x, command.dest, LiveChunks) /\ MoveTo(x) # x
         /\ MoveTo(x).recs = x.recs /\ \A c \in x.recs : command.dest[c] = MoveTo(x).tier
<1>1. PICK s \in Firsts(x, locator) : Classify(x, locator, command.dest, s) = "move"
  BY DEF WantsMove
<1>2. /\ x.recs \subseteq LiveChunks /\ \A c \in x.recs : command.dest[c] # x.tier
      /\ \A c, d \in x.recs : command.dest[c] = command.dest[d]
  BY <1>1, MoveFacts
<1>3. MoveTo(x).recs = x.recs /\ MoveTo(x) # x /\ x \in Packs  BY MoveToFacts
<1> DEFINE some == CHOOSE c \in x.recs : TRUE
<1>4. some \in x.recs  BY <1>3 DEF Packs
<1>5. MoveTo(x).tier = command.dest[some]  BY <1>3 DEF MoveTo, InTier, Packs
<1> HIDE DEF some
<1> QED  BY <1>2, <1>3, <1>4, <1>5 DEF Misplaced

\* A pack is on its way to the tier of all that it holds.
LEMMA MovePackConverges == ASSUME IInv, MInv, MovePack PROVE MInv'
<1>1. PICK x \in command.left :
       /\ WantsMove(x)
       /\ \/ /\ MoveTo(x) \in packs /\ locator' = locator \cup {MoveTo(x)} /\ pub' = pub
             /\ ToolDoes([command EXCEPT !.left = @ \ {x}, !.step = "moving", !.source = {x}])
          \/ /\ StartPublish(Tool, MoveTo(x)) /\ UNCHANGED locator
             /\ ToolDoes([command EXCEPT !.left = @ \ {x}, !.step = "moving", !.source = {x},
                                      !.queue = {MoveTo(x)}])
  BY DEF MovePack
<1>2. At("packs") /\ UNCHANGED <<loose, packs, bad>>  BY DEF MovePack, disk
<1>3. /\ command \in Tools /\ command.step = "packs" /\ up = "tool" /\ pub[Tool].step = "none"
      /\ command.queue = {} /\ pub \in [PackWriters -> Pubs]
  BY <1>2, AtFacts
<1>4. live' = live /\ up' = up  BY <1>1 DEF ToolDoes
<1> DEFINE m == MoveTo(x)
<1>5. command.op = "rebalance" =>
         /\ x.recs \subseteq LiveChunks /\ Misplaced(x, command.dest, LiveChunks) /\ m # x
         /\ m.recs = x.recs /\ \A c \in x.recs : command.dest[c] = m.tier
  BY <1>1, <1>2, MoveToIs
<1>6. /\ \/ m \in packs /\ locator' = locator \cup {m} /\ pub' = pub /\ command'.queue = {}
         \/ pub'[Tool].pack = m /\ locator' = locator /\ command'.queue = {m}
      /\ command'.op = command.op /\ command'.dest = command.dest /\ command'.cands = command.cands
      /\ command'.todo = command.todo /\ command'.left = command.left \ {x} /\ command'.step = "moving"
      /\ command'.source = {x} /\ command'.doomed = command.doomed
  <2> HIDE DEF m
  <2>1. CASE /\ m \in packs /\ locator' = locator \cup {m} /\ pub' = pub
             /\ command' = [command EXCEPT !.left = @ \ {x}, !.step = "moving", !.source = {x}]
    BY <2>1, <1>3 DEF Tools
  <2>2. CASE /\ StartPublish(Tool, m) /\ UNCHANGED locator
             /\ command' = [command EXCEPT !.left = @ \ {x}, !.step = "moving", !.source = {x}, !.queue = {m}]
    <3>1. pub'[Tool].pack = m  BY <2>2, <1>3 DEF StartPublish, PackWriters
    <3> QED  BY <3>1, <2>2, <1>3 DEF Tools
  <2> QED  BY <2>1, <2>2, <1>1 DEF m, ToolDoes
<1> HIDE DEF m
<1>7. ~GcInv(command, loose, packs, locator, bad, LiveChunks)  BY <1>3, NotGc
<1>8. ASSUME RebalanceInv(command, loose, packs, locator, LiveChunks)
      PROVE  RebalanceInv(command', loose, packs, locator', LiveChunks)
  <2>1. /\ x.recs \subseteq LiveChunks /\ Misplaced(x, command.dest, LiveChunks) /\ m # x
        /\ m.recs = x.recs /\ \A c \in x.recs : command.dest[c] = m.tier
    BY <1>5, <1>8 DEF RebalanceInv
  <2>2. Pending(command) \subseteq Pending(command')
    BY <1>6, <1>3, <1>8 DEF RebalanceInv, MovePlan, Pending
  <2>3. ChunkPlan(command', loose, packs, LiveChunks)
    <3>1. \A c : Held(c, packs \cap Pending(command)) => Held(c, packs \cap Pending(command'))
      BY <2>2 DEF Held
    <3>2. \A c : ~Held(c, command.queue)  BY <1>3 DEF Held
    <3> QED  BY <3>1, <3>2, <1>6, <1>8 DEF RebalanceInv, ChunkPlan
  <2>4. PackPlan(command', packs, LiveChunks)
    BY <2>2, <1>6, <1>8 DEF RebalanceInv, PackPlan
  <2>5. QueuePlan(command', LiveChunks)
    BY <2>1, <1>6 DEF QueuePlan
  <2>6. LeftPlan(command', packs, locator')
    BY <1>3, <1>6, <1>8 DEF RebalanceInv, LeftPlan
  <2>7. ListPlan(command', packs, locator', LiveChunks)
    BY <1>3, <1>6, <1>8 DEF RebalanceInv, ListPlan
  <2>8. LoosePlan(command', loose, LiveChunks)
    BY <1>3, <1>6, <1>8 DEF RebalanceInv, LoosePlan
  <2>9. ASSUME NEW c \in LiveChunks, Held(c, {x}) PROVE AtDest(c, command.dest, loose, packs) \/ Held(c, command'.queue)
    BY <2>9, <2>1, <1>6 DEF Held, AtDest
  <2>10. MovePlan(command', loose, packs, LiveChunks)
    BY <2>1, <2>9, <1>6 DEF MovePlan
  <2>11. DropPlan(command', loose, packs, LiveChunks) /\ RebalanceEnd(command', packs, locator')
    BY <1>6 DEF DropPlan, RebalanceEnd
  <2> QED  BY <2>3, <2>4, <2>5, <2>6, <2>7, <2>8, <2>10, <2>11, <1>6, <1>8 DEF RebalanceInv
<1> QED  BY <1>2, <1>3, <1>4, <1>6, <1>7, <1>8, PlansKept

\* The source goes: all that it held is at its target.
LEMMA DeleteSourceConverges == ASSUME IInv, MInv, DeleteSource PROVE MInv'
<1>1. /\ At("moving") /\ packs' = packs \ command.source /\ command' = [command EXCEPT !.step = "moved"]
      /\ UNCHANGED <<loose, bad, locator, pub, live, up>>
  BY DEF DeleteSource, ToolDoes
<1>2. /\ command \in Tools /\ command.step = "moving" /\ up = "tool" /\ pub[Tool].step = "none"
      /\ command.queue = {}
  BY <1>1, AtFacts
<1>3. /\ command'.op = command.op /\ command'.dest = command.dest /\ command'.cands = command.cands
      /\ command'.todo = command.todo /\ command'.left = command.left /\ command'.step = "moved"
      /\ command'.queue = command.queue /\ command'.doomed = command.doomed /\ command'.source = command.source
  BY <1>1, <1>2 DEF Tools
<1>4. ~GcInv(command, loose, packs, locator, bad, LiveChunks)  BY <1>2, NotGc
<1>5. ASSUME RebalanceInv(command, loose, packs, locator, LiveChunks)
      PROVE  RebalanceInv(command', loose, packs', locator, LiveChunks)
  <2>1. ASSUME NEW c \in LiveChunks, AtDest(c, command.dest, loose, packs)
        PROVE  AtDest(c, command.dest, loose, packs')
    <3>1. \A p \in command.source : c \in p.recs => command.dest[c] # p.tier
      BY <1>5 DEF RebalanceInv, MovePlan, Misplaced
    <3> QED  BY <3>1, <2>1, <1>1 DEF AtDest
  <2>2. ASSUME NEW c \in LiveChunks, Held(c, command.source) PROVE AtDest(c, command.dest, loose, packs')
    <3>1. AtDest(c, command.dest, loose, packs)
      BY <2>2, <1>2, <1>5 DEF RebalanceInv, MovePlan, Held
    <3> QED  BY <3>1, <2>1
  <2>3. ChunkPlan(command', loose, packs', LiveChunks)
    <3> SUFFICES ASSUME NEW c \in LiveChunks, ~Held(c, command.source), Held(c, packs \cap Pending(command))
                 PROVE  Held(c, packs' \cap Pending(command'))
      BY <2>1, <2>2, <1>3, <1>5 DEF RebalanceInv, ChunkPlan
    <3> QED  BY <1>1, <1>3 DEF Held, Pending
  <2>4. PackPlan(command', packs', LiveChunks)
    BY <1>1, <1>3, <1>5 DEF RebalanceInv, PackPlan, Pending
  <2>5. QueuePlan(command', LiveChunks) /\ LeftPlan(command', packs', locator)
    BY <1>1, <1>3, <1>5 DEF RebalanceInv, QueuePlan, LeftPlan
  <2>6. ListPlan(command', packs', locator, LiveChunks)
    <3>1. \A p \in command.source : Misplaced(p, command.dest, LiveChunks)  BY <1>5 DEF RebalanceInv, MovePlan
    <3> QED  BY <3>1, <1>1, <1>2, <1>3, <1>5 DEF RebalanceInv, ListPlan
  <2>7. LoosePlan(command', loose, LiveChunks) /\ MovePlan(command', loose, packs', LiveChunks)
    BY <1>1, <1>2, <1>3, <1>5 DEF RebalanceInv, LoosePlan, MovePlan
  <2>8. DropPlan(command', loose, packs', LiveChunks) /\ RebalanceEnd(command', packs', locator)
    BY <1>3 DEF DropPlan, RebalanceEnd
  <2> QED  BY <2>3, <2>4, <2>5, <2>6, <2>7, <2>8, <1>3, <1>5 DEF RebalanceInv
<1> QED  BY <1>1, <1>2, <1>3, <1>4, <1>5, PlansKept

\* The move is over.
LEMMA SyncSourceConverges == ASSUME IInv, MInv, SyncSource PROVE MInv'
<1>1. /\ At("moved") /\ command' = [command EXCEPT !.step = "packs", !.source = {}]
      /\ UNCHANGED <<loose, packs, bad, locator, pub, live, up>>
  BY DEF SyncSource, ToolDoes
<1>2. command \in Tools /\ command.step = "moved" /\ up = "tool" /\ pub[Tool].step = "none"
  BY <1>1, AtFacts
<1>3. /\ command'.op = command.op /\ command'.dest = command.dest /\ command'.cands = command.cands
      /\ command'.todo = command.todo /\ command'.left = command.left /\ command'.step = "packs"
      /\ command'.queue = command.queue /\ command'.doomed = command.doomed /\ command'.source = {}
  BY <1>1, <1>2 DEF Tools
<1>4. ~GcInv(command, loose, packs, locator, bad, LiveChunks)  BY <1>2, NotGc
<1>5. ASSUME RebalanceInv(command, loose, packs, locator, LiveChunks)
      PROVE  RebalanceInv(command', loose, packs, locator, LiveChunks)
  <2>1. packs \cap Pending(command') = packs \cap Pending(command)
    BY <1>2, <1>3, <1>5 DEF RebalanceInv, MovePlan, Pending
  <2>2. ChunkPlan(command', loose, packs, LiveChunks)
    BY <2>1, <1>3, <1>5 DEF RebalanceInv, ChunkPlan
  <2>3. PackPlan(command', packs, LiveChunks)
    BY <2>1, <1>3, <1>5 DEF RebalanceInv, PackPlan
  <2>4. QueuePlan(command', LiveChunks) /\ LeftPlan(command', packs, locator)
    BY <1>3, <1>5 DEF RebalanceInv, QueuePlan, LeftPlan
  <2>5. ListPlan(command', packs, locator, LiveChunks) /\ LoosePlan(command', loose, LiveChunks)
    BY <1>2, <1>3, <1>5 DEF RebalanceInv, ListPlan, LoosePlan
  <2>6. /\ MovePlan(command', loose, packs, LiveChunks) /\ DropPlan(command', loose, packs, LiveChunks)
        /\ RebalanceEnd(command', packs, locator)
    BY <1>3 DEF MovePlan, DropPlan, RebalanceEnd
  <2> QED  BY <2>2, <2>3, <2>4, <2>5, <2>6, <1>3, <1>5 DEF RebalanceInv
<1> QED  BY <1>1, <1>2, <1>3, <1>4, <1>5, PlansKept

\* What is to be replaced is taken up, with the locator as it is on disk.
LEMMA FlushPendingConverges == ASSUME IInv, MInv, FlushPending PROVE MInv'
<1>1. /\ At("packs") /\ locator' = packs /\ UNCHANGED <<loose, packs, bad, pub, live, up>>
      /\ command' = [command EXCEPT !.step = "stage", !.doomed = @ \cap packs]
  BY LoadableIs DEF FlushPending, ToolDoes, disk
<1>2. command \in Tools /\ command.step = "packs" /\ up = "tool" /\ pub[Tool].step = "none"
  BY <1>1, AtFacts
<1>3. /\ command'.op = command.op /\ command'.dest = command.dest /\ command'.cands = command.cands
      /\ command'.todo = command.todo /\ command'.left = command.left /\ command'.step = "stage"
      /\ command'.queue = command.queue /\ command'.doomed = command.doomed \cap packs
      /\ command'.source = command.source
  BY <1>1, <1>2 DEF Tools
<1>4. ~GcInv(command, loose, packs, locator, bad, LiveChunks)  BY <1>2, NotGc
<1>5. ASSUME RebalanceInv(command, loose, packs, locator, LiveChunks)
      PROVE  RebalanceInv(command', loose, packs, locator', LiveChunks)
  <2>1. packs \cap Pending(command') = packs \cap Pending(command)
    BY <1>3 DEF Pending
  <2>2. ChunkPlan(command', loose, packs, LiveChunks)
    BY <2>1, <1>3, <1>5 DEF RebalanceInv, ChunkPlan
  <2>3. PackPlan(command', packs, LiveChunks)
    BY <2>1, <1>3, <1>5 DEF RebalanceInv, PackPlan
  <2>4. QueuePlan(command', LiveChunks) /\ LeftPlan(command', packs, locator')
    BY <1>1, <1>3, <1>5 DEF RebalanceInv, QueuePlan, LeftPlan
  <2>5. ListPlan(command', packs, locator', LiveChunks) /\ LoosePlan(command', loose, LiveChunks)
    BY <1>1, <1>2, <1>3, <1>5 DEF RebalanceInv, ListPlan, LoosePlan
  <2>6. /\ MovePlan(command', loose, packs, LiveChunks) /\ DropPlan(command', loose, packs, LiveChunks)
        /\ RebalanceEnd(command', packs, locator')
    BY <1>2, <1>3, <1>5 DEF RebalanceInv, MovePlan, DropPlan, RebalanceEnd
  <2> QED  BY <2>2, <2>3, <2>4, <2>5, <2>6, <1>3, <1>5 DEF RebalanceInv
<1> QED  BY <1>1, <1>2, <1>3, <1>4, <1>5, PlansKept

\* Rebalance is done when no pack is left to visit or to replace.
LEMMA PacksDoneConverges == ASSUME IInv, MInv, PacksDone PROVE MInv'
<1>1. /\ At("packs") /\ locator' = packs /\ UNCHANGED <<loose, packs, bad, pub, live, up>>
      /\ command' = [command EXCEPT !.step = "done"] /\ command.left = {} /\ command.doomed = {}
  BY LoadableIs DEF PacksDone, ToolDoes, disk
<1>2. /\ command \in Tools /\ command.step = "packs" /\ up = "tool" /\ pub[Tool].step = "none"
      /\ command.queue = {}
  BY <1>1, AtFacts
<1>3. /\ command'.op = command.op /\ command'.dest = command.dest /\ command'.cands = command.cands
      /\ command'.todo = command.todo /\ command'.left = command.left /\ command'.step = "done"
      /\ command'.queue = command.queue /\ command'.doomed = command.doomed /\ command'.source = command.source
  BY <1>1, <1>2 DEF Tools
<1>4. ~GcInv(command, loose, packs, locator, bad, LiveChunks)  BY <1>2, NotGc
<1>5. ASSUME RebalanceInv(command, loose, packs, locator, LiveChunks)
      PROVE  RebalanceInv(command', loose, packs, locator', LiveChunks)
  <2>1. ChunkPlan(command', loose, packs, LiveChunks) /\ PackPlan(command', packs, LiveChunks)
    BY <1>3, <1>5 DEF RebalanceInv, ChunkPlan, PackPlan, Pending
  <2>2. QueuePlan(command', LiveChunks) /\ LeftPlan(command', packs, locator')
    BY <1>1, <1>3, <1>5 DEF RebalanceInv, QueuePlan, LeftPlan
  <2>3. ListPlan(command', packs, locator', LiveChunks) /\ LoosePlan(command', loose, LiveChunks)
    BY <1>1, <1>2, <1>3, <1>5 DEF RebalanceInv, ListPlan, LoosePlan
  <2>4. MovePlan(command', loose, packs, LiveChunks) /\ DropPlan(command', loose, packs, LiveChunks)
    BY <1>2, <1>3, <1>5 DEF RebalanceInv, MovePlan, DropPlan
  <2>5. RebalanceEnd(command', packs, locator')
    BY <1>1, <1>2, <1>3 DEF RebalanceEnd
  <2> QED  BY <2>1, <2>2, <2>3, <2>4, <2>5, <1>3, <1>5 DEF RebalanceInv
<1> QED  BY <1>1, <1>2, <1>3, <1>4, <1>5, PlansKept
-----------------------------------------------------------------------------
(* publishPack, by gc and rebalance.                                       *)

\* Who publishes: an upload while a server is up, or the command.
LEMMA PublisherIs ==
  ASSUME IInv, NEW w \in PackWriters, pub[w].step # "none"
  PROVE  up = "serve" \/ (up = "tool" /\ w = Tool)
<1>1. CASE w \in Requests  BY <1>1 DEF IInv, WhoInv
<1>2. CASE w = Tool  BY <1>2 DEF IInv, WhoInv, StateTypes
<1> QED  BY <1>1, <1>2 DEF PackWriters

\* The roots and the format are no part of the plan.
LEMMA FormatStepsConverge ==
  ASSUME IInv, MInv, NEW w \in PackWriters, MakeRoot(w) \/ SyncRoot(w) \/ RaiseFormat(w) \/ SyncFormat(w)
  PROVE  MInv'
<1>1. /\ UNCHANGED <<loose, packs, bad, locator, live, up, command>> /\ pub[w].step # "none"
      /\ \E st \in PubSteps : PubStep(w, st)
  <2>1. CASE MakeRoot(w)  BY <2>1 DEF MakeRoot, Publishing, PubSteps
  <2>2. CASE SyncRoot(w)  BY <2>2 DEF SyncRoot, Publishing, PubSteps
  <2>3. CASE RaiseFormat(w)  BY <2>3 DEF RaiseFormat, Publishing, PubSteps
  <2>4. CASE SyncFormat(w)  BY <2>4 DEF SyncFormat, Publishing, PubSteps
  <2> QED  BY <2>1, <2>2, <2>3, <2>4
<1>2. CASE up = "serve"  BY <1>1, <1>2, NoPlan
<1>3. CASE up = "tool" /\ w = Tool
  <2>1. pub'[Tool].pack = pub[Tool].pack  BY <1>1, <1>3, PubStepFacts DEF GoesOn
  <2>2. pub[Tool].pack \in command.queue  BY <1>1, <1>3 DEF MInv
  <2> QED  BY <2>1, <2>2, <1>1, <1>3, PlansKept
<1> QED  BY <1>1, <1>2, <1>3, PublisherIs

\* A staged pack is in place.
LEMMA QueueInPlace ==
  ASSUME NEW tl, NEW L, QueuePlan(tl, L), NEW p \in tl.queue, p \in Packs
  PROVE  InPlace(p, tl.dest, L)
<1>1. p.recs # {}  BY DEF Packs
<1> QED  BY <1>1 DEF QueuePlan, InPlace

\* A staged pack appears: its chunks are at their targets.
LEMMA RenamePackConverges == ASSUME IInv, MInv, NEW w \in PackWriters, RenamePack(w) PROVE MInv'
<1>1. /\ UNCHANGED <<loose, bad, locator, live, up, command>> /\ pub[w].step = "formatted"
      /\ PubStep(w, "renamed") /\ packs' = packs \cup {pub[w].pack}
  BY DEF RenamePack, Publishing
<1>2. CASE up = "serve"  BY <1>1, <1>2, NoPlan
<1>3. CASE up = "tool" /\ w = Tool
  <2> DEFINE P == pub[Tool].pack
  <2>1. GoesOn(Tool, "renamed")  BY <1>1, <1>3, PubStepFacts DEF PubSteps
  <2>2. pub'[Tool].pack = P /\ P \in Packs  BY <2>1 DEF GoesOn
  <2>3. P \in command.queue /\ packs' = packs \cup {P}  BY <1>1, <1>3 DEF MInv
  <2> HIDE DEF P
  <2>4. ASSUME GcInv(command, loose, packs, locator, bad, LiveChunks)
        PROVE  GcInv(command, loose, packs', locator, bad, LiveChunks)
    <3>1. command.step = "publish"  BY <2>3, <2>4 DEF GcInv
    <3>2. Curable(command, bad) => packs' = packs  BY <3>1, <2>3, <2>4 DEF GcInv
    <3> QED  BY <3>1, <3>2, <2>4 DEF GcInv
  <2>5. ASSUME RebalanceInv(command, loose, packs, locator, LiveChunks)
        PROVE  RebalanceInv(command, loose, packs', locator, LiveChunks)
    <3>1. InPlace(P, command.dest, LiveChunks)  BY <2>2, <2>3, <2>5, QueueInPlace DEF RebalanceInv
    <3>2. \A c : AtDest(c, command.dest, loose, packs) => AtDest(c, command.dest, loose, packs')
      BY <2>3, StaysAtDest
    <3>3. ChunkPlan(command, loose, packs', LiveChunks)
      <4>1. \A c : Held(c, packs \cap Pending(command)) => Held(c, packs' \cap Pending(command))
        BY <2>3 DEF Held
      <4> QED  BY <4>1, <3>2, <2>5 DEF RebalanceInv, ChunkPlan
    <3>4. PackPlan(command, packs', LiveChunks)  BY <3>1, <2>3, <2>5 DEF RebalanceInv, PackPlan
    <3>5. LeftPlan(command, packs', locator) /\ ListPlan(command, packs', locator, LiveChunks)
      BY <2>3, <2>5 DEF RebalanceInv, LeftPlan, ListPlan
    <3>6. MovePlan(command, loose, packs', LiveChunks)
      BY <3>2, <2>3, <2>5 DEF RebalanceInv, MovePlan
    <3>7. DropPlan(command, loose, packs', LiveChunks)
      <4>1. packs \ command.doomed \subseteq packs' \ command.doomed  BY <2>3
      <4>2. \A c : AtDest(c, command.dest, loose, packs \ command.doomed)
                     => AtDest(c, command.dest, loose, packs' \ command.doomed)
        BY <4>1, StaysAtDest
      <4> QED  BY <4>2, <2>5 DEF RebalanceInv, DropPlan
    <3>8. RebalanceEnd(command, packs', locator)  BY <2>3, <2>5 DEF RebalanceInv, RebalanceEnd
    <3> QED  BY <3>3, <3>4, <3>5, <3>6, <3>7, <3>8, <2>5 DEF RebalanceInv
  <2> QED  BY <2>2, <2>3, <2>4, <2>5, <1>1, <1>3, PlansKept
<1> QED  BY <1>1, <1>2, <1>3, PublisherIs

\* A pack that replaces a damaged one of its name cures it; a loose chunk
\* stays as damaged as it is.
LEMMA SyncPacksConverges == ASSUME IInv, MInv, NEW w \in PackWriters, SyncPacks(w) PROVE MInv'
<1>1. /\ UNCHANGED <<loose, packs, locator, live, up, command>> /\ pub[w].step = "renamed"
      /\ PubStep(w, "synced") /\ bad' = {x \in bad : x[1] # pub[w].pack}
  BY DEF SyncPacks, Publishing
<1>2. CASE up = "serve"  BY <1>1, <1>2, NoPlan
<1>3. CASE up = "tool" /\ w = Tool
  <2> DEFINE P == pub[Tool].pack
  <2>1. GoesOn(Tool, "synced")  BY <1>1, <1>3, PubStepFacts DEF PubSteps
  <2>2. pub'[Tool].pack = P /\ P \in Packs  BY <2>1 DEF GoesOn
  <2>3. P \in command.queue /\ bad' = {x \in bad : x[1] # P}  BY <1>1, <1>3 DEF MInv
  <2> HIDE DEF P
  <2>4. P # LooseFile  BY <2>2 DEF Packs, LooseFile
  <2>5. LooseWhole(bad') => LooseWhole(bad)  BY <2>3, <2>4 DEF LooseWhole
  <2>6. ASSUME GcInv(command, loose, packs, locator, bad, LiveChunks)
        PROVE  GcInv(command, loose, packs, locator, bad', LiveChunks)
    <3>1. command.step = "publish"  BY <2>3, <2>6 DEF GcInv
    <3>2. Curable(command, bad') => Curable(command, bad)  BY <2>3 DEF Curable
    <3> QED  BY <3>1, <3>2, <2>6 DEF GcInv
  <2> QED  BY <2>2, <2>3, <2>5, <2>6, <1>1, <1>3, PlansKept
<1> QED  BY <1>1, <1>2, <1>3, PublisherIs

\* A pack is listed: it is no longer staged, and no longer doomed if it was.
LEMMA IndexPackConverges == ASSUME IInv, MInv, NEW w \in PackWriters, IndexPack(w) PROVE MInv'
<1>1. /\ UNCHANGED <<loose, packs, bad, live, up>> /\ pub[w].step = "synced"
      /\ locator' = locator \cup {pub[w].pack} /\ pub' = [pub EXCEPT ![w] = NoPub]
  BY DEF IndexPack, Publishing, disk
<1>2. CASE up = "serve"  BY <1>1, <1>2, NoPlan
<1>3. CASE up = "tool" /\ w = Tool
  <2> DEFINE P == pub[Tool].pack
  <2>1. pub'[Tool].step = "none"
    BY <1>1, <1>3 DEF IInv, StateTypes, NoPub
  <2>2. P \in command.queue  BY <1>1, <1>3 DEF MInv
  <2>3. command \in Tools /\ pub \in [PackWriters -> Pubs]  BY DEF IInv, StateTypes
  <2>4. P \in packs /\ P \in Packs
    <3>1. P \in packs  BY <1>1, <1>3 DEF IInv, PubInv
    <3> QED  BY <3>1 DEF IInv, DiskTypes
  <2>5. /\ command' = [command EXCEPT !.queue = @ \ {P}, !.doomed = @ \ {P}]
        /\ locator' = locator \cup {P}
    BY <1>1, <1>3 DEF IndexPack
  <2> HIDE DEF P
  <2>6. /\ command'.op = command.op /\ command'.dest = command.dest /\ command'.cands = command.cands
        /\ command'.todo = command.todo /\ command'.left = command.left /\ command'.step = command.step
        /\ command'.queue = command.queue \ {P} /\ command'.doomed = command.doomed \ {P}
        /\ command'.source = command.source /\ command'.need = command.need
    BY <2>3, <2>5 DEF Tools
  <2>7. ASSUME GcInv(command, loose, packs, locator, bad, LiveChunks)
        PROVE  GcInv(command', loose, packs, locator', bad, LiveChunks)
    <3>1. command.step = "publish"  BY <2>2, <2>7 DEF GcInv
    <3>2. Curable(command', bad) => Curable(command, bad)  BY <2>6 DEF Curable
    <3>3. Curable(command, bad) => command'.doomed = command.doomed  BY <3>1, <2>2, <2>6, <2>7 DEF GcInv
    <3> QED  BY <3>1, <3>2, <3>3, <2>6, <2>7 DEF GcInv
  <2>8. ASSUME RebalanceInv(command, loose, packs, locator, LiveChunks)
        PROVE  RebalanceInv(command', loose, packs, locator', LiveChunks)
    <3>1. /\ InPlace(P, command.dest, LiveChunks)
          /\ \A c \in P.recs : AtDest(c, command.dest, loose, packs)
      BY <2>2, <2>4, <2>8, QueueInPlace DEF RebalanceInv, QueuePlan, AtDest
    <3>2. \A c : Held(c, command.queue) => c \in P.recs \/ Held(c, command'.queue)  BY <2>6 DEF Held
    <3>3. \A c : Held(c, packs \cap Pending(command)) => c \in P.recs \/ Held(c, packs \cap Pending(command'))
      BY <2>6 DEF Held, Pending
    <3>4. ChunkPlan(command', loose, packs, LiveChunks)
      BY <3>1, <3>2, <3>3, <2>6, <2>8 DEF RebalanceInv, ChunkPlan
    <3>5. PackPlan(command', packs, LiveChunks)
      BY <3>1, <2>6, <2>8 DEF RebalanceInv, PackPlan, Pending
    <3>6. QueuePlan(command', LiveChunks) /\ LeftPlan(command', packs, locator')
      BY <2>5, <2>6, <2>8 DEF RebalanceInv, QueuePlan, LeftPlan
    <3>7. ListPlan(command', packs, locator', LiveChunks) /\ LoosePlan(command', loose, LiveChunks)
      BY <2>4, <2>5, <2>6, <2>8 DEF RebalanceInv, ListPlan, LoosePlan
    <3>8. MovePlan(command', loose, packs, LiveChunks)
      BY <3>1, <3>2, <2>6, <2>8 DEF RebalanceInv, MovePlan
    <3>9. DropPlan(command', loose, packs, LiveChunks)
      <4>1. \A c : Held(c, command'.doomed) => Held(c, command.doomed)  BY <2>6 DEF Held
      <4>2. packs \ command.doomed \subseteq packs \ command'.doomed  BY <2>6
      <4>3. \A c : AtDest(c, command.dest, loose, packs \ command.doomed)
                     => AtDest(c, command.dest, loose, packs \ command'.doomed)
        BY <4>2, StaysAtDest
      <4> QED  BY <4>1, <4>3, <2>6, <2>8 DEF RebalanceInv, DropPlan
    <3>10. RebalanceEnd(command', packs, locator')  BY <2>2, <2>6, <2>8 DEF RebalanceInv, RebalanceEnd
    <3> QED  BY <3>4, <3>5, <3>6, <3>7, <3>8, <3>9, <3>10, <2>6, <2>8 DEF RebalanceInv
  <2> QED  BY <2>1, <2>6, <2>7, <2>8, <1>1, <1>3, PlansKept
<1> QED  BY <1>1, <1>2, <1>3, PublisherIs
-----------------------------------------------------------------------------
(* Openings, uploads and ends.                                             *)

\* What a command finds.
LEMMA OpeningFacts ==
  ASSUME IInv, NEW t, Open(t)
  PROVE  /\ command' = t /\ locator' = packs /\ Loadable = packs /\ pub'[Tool].step = "none"
         /\ UNCHANGED <<loose, packs, bad, live>> /\ KeepInv(live, loose, packs)
<1>1. up = "down"  BY DEF Open
<1>2. Quiet /\ Kept = packs /\ Loadable = packs  BY <1>1, DownFacts
<1>3. pub[Tool].step = "none"  BY <1>2 DEF Quiet, PackWriters
<1> QED  BY <1>2, <1>3 DEF Open, IInv

\* The other commands plan neither a gc nor a rebalance.
LEMMA OtherCommandsConverge == ASSUME IInv, Compact \/ Repack \/ TierMove PROVE MInv'
<1>1. CASE Compact
  <2>1. PICK ti \in Tiers :
          Open([NoCommand EXCEPT !.op = "compact", !.step = "loose", !.dest = [c \in Chunks |-> ti],
                              !.todo = {c \in LiveChunks \cap loose : Held(c, Loadable)},
                              !.cands = {c \in LiveChunks \cap loose : ~Held(c, Loadable)}])
    BY <1>1 DEF Compact
  <2> DEFINE de == [c \in Chunks |-> ti]
             td == {c \in LiveChunks \cap loose : Held(c, Loadable)}
             cs == {c \in LiveChunks \cap loose : ~Held(c, Loadable)}
             t == [NoCommand EXCEPT !.op = "compact", !.step = "loose", !.dest = de,
                                 !.todo = td, !.cands = cs]
  <2>2. Open(t)  BY <2>1
  <2> HIDE DEF de, td, cs
  <2>3. t.op = "compact"  BY DEF NoCommand
  <2> HIDE DEF t
  <2> QED  BY <2>2, <2>3, OpeningFacts, NoPlan
<1>2. CASE Repack
  <2>1. PICK f \in PrimaryMaps(Loadable) :
          \E sel \in SUBSET {p \in Loadable : LiveIn(p, f) # p.recs} :
            Open([NoCommand EXCEPT !.op = "repack", !.step = "stage", !.doomed = sel])
    BY <1>2 DEF Repack
  <2>2. PICK sel : Open([NoCommand EXCEPT !.op = "repack", !.step = "stage", !.doomed = sel])
    BY <2>1
  <2> DEFINE t == [NoCommand EXCEPT !.op = "repack", !.step = "stage", !.doomed = sel]
  <2>3. Open(t)  BY <2>2
  <2>4. t.op = "repack"  BY DEF NoCommand
  <2> HIDE DEF t
  <2> QED  BY <2>3, <2>4, OpeningFacts, NoPlan
<1>3. CASE TierMove
  <2>1. PICK from \in Tiers, to \in Tiers :
          \E sel \in SUBSET {p \in Loadable : p.tier = from} :
            Open([NoCommand EXCEPT !.op = "move", !.step = "packs", !.left = sel,
                                !.dest = [c \in Chunks |-> to]])
    BY <1>3 DEF TierMove
  <2>2. PICK sel : Open([NoCommand EXCEPT !.op = "move", !.step = "packs", !.left = sel,
                                       !.dest = [c \in Chunks |-> to]])
    BY <2>1
  <2> DEFINE de == [c \in Chunks |-> to]
             t == [NoCommand EXCEPT !.op = "move", !.step = "packs", !.left = sel, !.dest = de]
  <2>3. Open(t)  BY <2>2
  <2> HIDE DEF de
  <2>4. t.op = "move"  BY DEF NoCommand
  <2> HIDE DEF t
  <2> QED  BY <2>3, <2>4, OpeningFacts, NoPlan
<1> QED  BY <1>1, <1>2, <1>3

\* gc lists every loose chunk that is not live.
LEMMA GcConverges == ASSUME IInv, Gc PROVE MInv'
<1> DEFINE t == [NoCommand EXCEPT !.op = "gc", !.step = "garbage", !.todo = loose \ LiveChunks]
<1>1. Open(t)  BY DEF Gc
<1>2. t.op = "gc" /\ t.step = "garbage" /\ t.todo = loose \ LiveChunks /\ t.queue = {}  BY DEF NoCommand
<1> HIDE DEF t
<1>3. /\ command' = t /\ locator' = packs /\ pub'[Tool].step = "none"
      /\ UNCHANGED <<loose, packs, bad, live>>
  BY <1>1, OpeningFacts
<1>4. GcInv(t, loose, packs, packs, bad, LiveChunks)  BY <1>2 DEF GcInv
<1>5. LiveChunks' = LiveChunks  BY <1>3 DEF LiveChunks
<1> QED  BY <1>2, <1>3, <1>4, <1>5 DEF MInv

\* tier rebalance lists every loose chunk and every pack that is out of place.
LEMMA RebalanceConverges == ASSUME IInv, Rebalance PROVE MInv'
<1>1. PICK want \in [Objects -> Tiers] :
        LET dest == Targets(want)
            cold == {c \in LiveChunks \cap loose : dest[c] # Hot}
            atDest(c) == Held(c, {p \in Loadable : p.tier = dest[c]})
        IN Open([NoCommand EXCEPT !.op = "rebalance", !.step = "loose", !.dest = dest,
                              !.todo = {c \in cold : atDest(c)},
                              !.cands = {c \in cold : ~atDest(c)},
                              !.left = {p \in Loadable :
                                          \E s \in Firsts(p, Loadable) :
                                            Classify(p, Loadable, dest, s) # "compliant"}])
  BY DEF Rebalance
<1> DEFINE ds == Targets(want)
           cold == {c \in LiveChunks \cap loose : ds[c] # Hot}
           at(c) == Held(c, {p \in Loadable : p.tier = ds[c]})
           todo == {c \in cold : at(c)}
           cands == {c \in cold : ~at(c)}
           left == {p \in Loadable : \E s \in Firsts(p, Loadable) :
                                       Classify(p, Loadable, ds, s) # "compliant"}
           t == [NoCommand EXCEPT !.op = "rebalance", !.step = "loose", !.dest = ds,
                               !.todo = todo, !.cands = cands, !.left = left]
<1>2. Open(t)  BY <1>1
<1> HIDE DEF ds
<1>3. /\ command' = t /\ locator' = packs /\ Loadable = packs /\ pub'[Tool].step = "none"
      /\ UNCHANGED <<loose, packs, bad, live>> /\ KeepInv(live, loose, packs)
  <2> HIDE DEF t
  <2> QED  BY <1>2, OpeningFacts
<1>4. /\ \A c \in todo : c \in LiveChunks /\ c \in loose /\ ds[c] # Hot
      /\ \A c \in cands : c \in LiveChunks /\ c \in loose /\ ds[c] # Hot /\ c \notin todo
      /\ left \subseteq packs
  BY <1>3
<1>5. ASSUME NEW p \in packs, p \notin left
      PROVE  /\ InPlace(p, ds, LiveChunks)
             /\ \A c \in p.recs \cap LiveChunks : ds[c] = p.tier \/ AtDest(c, ds, loose, packs)
  <2>1. p.recs \in Firsts(p, packs)  BY DEF Firsts
  <2>2. Classify(p, packs, ds, p.recs) = "compliant"  BY <2>1, <1>3, <1>5
  <2> QED  BY <2>2, CompliantFacts
<1>6. ASSUME NEW c \in LiveChunks
      PROVE  AtDest(c, ds, loose, packs) \/ c \in cands \/ Held(c, packs \cap left)
  <2>1. HasCopy(c, loose, packs)  BY <1>3 DEF KeepInv, LiveChunks
  <2>2. CASE c \in loose
    <3>1. CASE ds[c] = Hot  BY <3>1, <2>2 DEF AtDest
    <3>2. CASE ds[c] # Hot /\ at(c)
      <4>1. AtDest(c, ds, loose, packs)  BY <3>2, <1>3 DEF AtDest, Held
      <4> QED  BY <4>1
    <3>3. CASE ds[c] # Hot /\ ~at(c)  BY <3>3, <2>2
    <3> QED  BY <3>1, <3>2, <3>3
  <2>3. CASE Held(c, packs)
    <3>1. PICK p \in packs : c \in p.recs  BY <2>3 DEF Held
    <3>2. CASE p \in left
      <4>1. Held(c, packs \cap left)  BY <3>1, <3>2 DEF Held
      <4> QED  BY <4>1
    <3>3. CASE p \notin left
      <4>1. ds[c] = p.tier \/ AtDest(c, ds, loose, packs)  BY <3>1, <3>3, <1>5
      <4>2. AtDest(c, ds, loose, packs)  BY <4>1, <3>1 DEF AtDest
      <4> QED  BY <4>2
    <3> QED  BY <3>2, <3>3
  <2> QED  BY <2>1, <2>2, <2>3 DEF HasCopy
<1> HIDE DEF todo, cands, left
<1>7. /\ t.op = "rebalance" /\ t.step = "loose" /\ t.dest = ds /\ t.todo = todo /\ t.cands = cands
      /\ t.left = left /\ t.queue = {} /\ t.doomed = {} /\ t.source = {}
  BY DEF NoCommand
<1> HIDE DEF t
<1>8. Pending(t) = left  BY <1>7 DEF Pending
<1>9. RebalanceInv(t, loose, packs, packs, LiveChunks)
  <2>1. ChunkPlan(t, loose, packs, LiveChunks) /\ PackPlan(t, packs, LiveChunks)
    BY <1>5, <1>6, <1>7, <1>8 DEF ChunkPlan, PackPlan
  <2>2. QueuePlan(t, LiveChunks) /\ LeftPlan(t, packs, packs) /\ ListPlan(t, packs, packs, LiveChunks)
    BY <1>4, <1>7 DEF QueuePlan, LeftPlan, ListPlan
  <2>3. LoosePlan(t, loose, LiveChunks)  BY <1>4, <1>7 DEF LoosePlan
  <2>4. MovePlan(t, loose, packs, LiveChunks) /\ DropPlan(t, loose, packs, LiveChunks) /\ RebalanceEnd(t, packs, packs)
    BY <1>7 DEF MovePlan, DropPlan, RebalanceEnd
  <2> QED  BY <2>1, <2>2, <2>3, <2>4, <1>7 DEF RebalanceInv
<1>10. LiveChunks' = LiveChunks  BY <1>3 DEF LiveChunks
<1> QED  BY <1>3, <1>7, <1>9, <1>10 DEF MInv

\* An upload runs beside no command.
LEMMA UploadsConverge ==
  ASSUME IInv, NEW w \in Requests,
         \/ PacksPutObject(w) \/ Put(w) \/ PublishBuilt(w) \/ FlushLoose(w) \/ PacksCommit(w) \/ RequestFails(w)
  PROVE  MInv'
<1>1. up' = up
  BY DEF PacksPutObject, Put, PublishBuilt, FlushLoose, PacksCommit, RequestFails
<1>2. PacksPutObject(w) \/ uploading[w] # NoUpload
  <2>1. CASE Put(w)
    <3>1. uploading[w].left # {}  BY <2>1 DEF Put
    <3> QED  BY <3>1 DEF NoUpload
  <2>2. CASE PublishBuilt(w) \/ FlushLoose(w)
    <3>1. uploading[w].built # {}  BY <2>2 DEF PublishBuilt, FlushLoose
    <3> QED  BY <3>1 DEF NoUpload
  <2>3. CASE PacksCommit(w)
    <3>1. uploading[w].obj # {}  BY <2>3 DEF PacksCommit
    <3> QED  BY <3>1 DEF NoUpload
  <2>4. CASE RequestFails(w)  BY <2>4 DEF RequestFails
  <2> QED  BY <2>1, <2>2, <2>3, <2>4
<1>3. up = "serve"  BY <1>2 DEF PacksPutObject, IInv, WhoInv
<1> QED  BY <1>1, <1>3, NoPlan

\* Every step keeps what a gc and a rebalance have planned.
LEMMA NextConverges == ASSUME IInv, MInv, [PacksNext]_packVars PROVE MInv'
<1>1. CASE Compact \/ Repack \/ TierMove \/ Gc \/ Rebalance
  BY <1>1, OtherCommandsConverge, GcConverges, RebalanceConverges
<1>2. CASE \E w \in Requests : \/ PacksPutObject(w) \/ Put(w) \/ PublishBuilt(w)
                               \/ FlushLoose(w) \/ PacksCommit(w) \/ RequestFails(w)
  BY <1>2, UploadsConverge
<1>3. CASE \E w \in PackWriters : PublishPack(w)
  BY <1>3, FormatStepsConverge, RenamePackConverges, SyncPacksConverges, IndexPackConverges
     DEF PublishPack
<1>4. CASE DropRedundantLoose \/ KeepLoose \/ StageLoose \/ UnlinkLoose \/ LooseDone
  BY <1>4, DropRedundantLooseConverges, KeepLooseConverges, StageLooseConverges,
     UnlinkLooseConverges, LooseDoneConverges
<1>5. CASE \/ UnlinkGarbage \/ DeadPacks \/ StageReplacements \/ PublishReplacement
           \/ CheckReplacements \/ DropPack \/ PacksDropped
  BY <1>5, UnlinkGarbageConverges, DeadPacksConverges, StageReplacementsConverges,
     PublishReplacementConverges, CheckReplacementsConverges, DropPackConverges,
     PacksDroppedConverges
<1>6. CASE MovePack \/ DeleteSource \/ SyncSource \/ VisitPack \/ FlushPending \/ PacksDone
  BY <1>6, MovePackConverges, DeleteSourceConverges, SyncSourceConverges, VisitPackConverges,
     FlushPendingConverges, PacksDoneConverges
<1>7. CASE PacksServe \/ PacksDeleteObject \/ Exit \/ PacksKill \/ PacksPowerFail \/ Rot
  <2>1. up' # "tool"
    BY <1>7 DEF PacksServe, PacksDeleteObject, Exit, PacksKill, PacksPowerFail, Rot, Gone
  <2> QED  BY <2>1, NoPlan
<1>8. CASE UNCHANGED packVars
  <2>1. UNCHANGED <<loose, packs, bad, live, up, locator, pub, command>>  BY <1>8 DEF packVars, disk
  <2> QED  BY <2>1 DEF MInv, LiveChunks
<1> QED  BY <1>1, <1>2, <1>3, <1>4, <1>5, <1>6, <1>7, <1>8 DEF PacksNext

\* A command that is done has done what it is for.
LEMMA PlansConverge == ASSUME IInv, MInv PROVE MaintenanceConverges
<1> SUFFICES ASSUME command.step = "done", bad = {}
             PROVE  /\ command.op = "gc" =>
                         /\ loose \subseteq LiveChunks
                         /\ \E f \in PrimaryMaps(locator) : \A p \in locator : LiveIn(p, f) # {}
                    /\ command.op = "rebalance" =>
                         /\ \A c \in LiveChunks : CopyAtTier(c, command.dest[c], {})
                         /\ \A p \in locator : \E s \in Firsts(p, locator) :
                              Classify(p, locator, command.dest, s) = "compliant"
  BY DEF MaintenanceConverges
<1>1. up = "tool"
  <2>1. up # "tool" => command.step = "none"  BY NoToolFacts DEF IInv, WhoInv
  <2> QED  BY <2>1
<1>2. ASSUME command.op = "gc"
      PROVE  loose \subseteq LiveChunks /\ \E f \in PrimaryMaps(locator) : \A p \in locator : LiveIn(p, f) # {}
  <2>1. GcInv(command, loose, packs, locator, bad, LiveChunks)  BY <1>1, <1>2 DEF MInv
  <2>2. loose \subseteq LiveChunks /\ NoneDead(locator, LiveChunks)  BY <2>1 DEF GcInv
  <2>3. PICK f \in MapsTo(locator, LiveChunks) : Dead(locator, f, LiveChunks) = {}  BY <2>2 DEF NoneDead
  <2>4. f \in PrimaryMaps(locator)  BY <2>3 DEF MapsTo, PrimaryMaps
  <2>5. \A p \in locator : LiveIn(p, f) # {}  BY <2>3 DEF Dead, LiveIn
  <2> QED  BY <2>2, <2>4, <2>5
<1>3. ASSUME command.op = "rebalance"
      PROVE  /\ \A c \in LiveChunks : CopyAtTier(c, command.dest[c], {})
             /\ \A p \in locator : \E s \in Firsts(p, locator) :
                  Classify(p, locator, command.dest, s) = "compliant"
  <2>1. RebalanceInv(command, loose, packs, locator, LiveChunks)
    BY <1>1, <1>3 DEF MInv, LooseWhole
  <2>2. /\ locator = packs /\ command.queue = {} /\ command.cands = {}
        /\ command.left = {} /\ command.doomed = {} /\ command.source = {}
    BY <2>1 DEF RebalanceInv, RebalanceEnd, LoosePlan, MovePlan
  <2>3. Pending(command) = {}  BY <2>2 DEF Pending
  <2>4. \A c \in LiveChunks : AtDest(c, command.dest, loose, packs)
    BY <2>1, <2>2, <2>3 DEF RebalanceInv, ChunkPlan, Held
  <2>5. \A p \in packs : InPlace(p, command.dest, LiveChunks)
    BY <2>1, <2>3 DEF RebalanceInv, PackPlan
  <2>6. \A c \in LiveChunks : CopyAtTier(c, command.dest[c], {})
    BY <2>2, <2>4 DEF AtDest, CopyAtTier, GoodLoose, GoodIn
  <2>7. ASSUME NEW p \in locator
        PROVE  p.recs \in Firsts(p, locator) /\ Classify(p, locator, command.dest, p.recs) = "compliant"
    <3>1. p.recs \in Firsts(p, locator)  BY DEF Firsts
    <3>2. Classify(p, locator, command.dest, p.recs) = "compliant"
      BY <2>2, <2>4, <2>5, InPlaceIsCompliant
    <3> QED  BY <3>1, <3>2
  <2> QED  BY <2>6, <2>7
<1> QED  BY <1>2, <1>3

\* Whatever interrupted commands, crashes and power failures left before it,
\* a gc that ran to its end leaves no unreferenced loose chunk and no pack
\* without a live record, and a rebalance that did leaves every live chunk in
\* the tier that policy asks for and nothing for another run to do: packs
\* that are moved, replaced, adopted or left alone on the way never undo one
\* another.
THEOREM MaintenanceFinishesItsWork == FsyncedEnds /\ PacksSpec => []MaintenanceConverges
<1>1. PacksInit => MInv  BY DEF PacksInit, MInv
<1>2. IInv /\ MInv /\ [PacksNext]_packVars => MInv'  BY NextConverges
<1>3. IInv /\ MInv => MaintenanceConverges  BY PlansConverge
<1> QED  BY <1>1, <1>2, <1>3, InductiveInvariant, PTL DEF PacksSpec
=============================================================================
