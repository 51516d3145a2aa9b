------------------------------ MODULE Namespace ------------------------------
(***************************************************************************)
(* The mutable namespace of zeros3.go (sections 7, 7c, 7d, 10a, 11, 11b):  *)
(* buckets, current roots, version history and multipart uploads, the      *)
(* requests that change them, and the journal they are rebuilt from.       *)
(*                                                                         *)
(* A request that moves bytes runs in steps: it looks at the namespace,    *)
(* drops Store.mu while it ingests and publishes a manifest, and takes the *)
(* lock again to commit.  Other requests run in between.  Each critical    *)
(* section is one action here; what it validates, what it appends to the   *)
(* journal and what it then does to memory are written out separately from *)
(* what replay does with the same record.                                  *)
(*                                                                         *)
(* A manifest is named by its position in the sequence of manifests ever   *)
(* published, an upload by the sequence number of the frame that created   *)
(* it, a historical version by that of the frame that archived it: all     *)
(* three are fresh UUIDs in the code.  An ETag is the bytes it digests.    *)
(***************************************************************************)
EXTENDS Naturals, FiniteSets, Sequences, SequencesExt

CONSTANTS Buckets, Keys, Clients,
          Instances      \* what a behaviour is about and how it is bounded:
                         \* each behaviour has one of these

\* bodies: the request bodies, sequences of blocks; partNos: part numbers;
\* minPart: minMultipartPartSize, in blocks; offered: the operations and
\* failures on offer; clients, frames, manifests: bounds on the requests at
\* one time, on the journal and on the manifests published.
ASSUME InstancesAssumption ==
  \A i \in Instances :
    /\ {i.minPart, i.clients, i.frames, i.manifests} \cup i.partNos \subseteq Nat
    /\ i.offered \subseteq {"failures", "createBucket", "deleteBucket", "put", "delete",
                            "copy", "conditional", "multipart", "partCopy", "restore",
                            "prune"}

VARIABLES journal,       \* the records in the journal file
          synced,        \* how many of them are certainly on stable storage
          applied,       \* how many of them live has folded in
          live,          \* Store.buckets, objects, history and uploads
          status,        \* "down", "replaying", "serve", "tool" or "refused"
          role,          \* what the process being opened will do
          poisoned,      \* Journal.poisoned
          manifests,     \* every manifest published, in order
          pend,          \* the request each client waits for, by its phase
          chain,         \* chain[n+1]: what the handlers made of the namespace
                         \* with record n (history variable)
          acks,          \* requests acknowledged, with their frame (history)
          inst           \* the member of Instances

vars == <<journal, synced, applied, live, status, role, poisoned, manifests,
          pend, chain, acks, inst>>

Bodies == inst.bodies
PartNos == inst.partNos
MinPart == inst.minPart
Offered == inst.offered
MaxFrames == inst.frames
MaxClients == inst.clients
MaxManifests == inst.manifests

Slots == Buckets \X Keys
NoRoot == [man |-> 0, seq |-> 0]
Idle == [op |-> "idle"]
EmptyNs == [buckets |-> {},
            objs    |-> [s \in Slots |-> NoRoot],
            hist    |-> [s \in Slots |-> <<>>],
            ups     |-> <<>>]

Md5(body) == [kind |-> "md5", of |-> body]
MultipartETag(bodies) == [kind |-> "multipart", of |-> bodies]
ETagOf(man) == manifests[man].etag
-----------------------------------------------------------------------------
(* The effects of a record, on a namespace ns at sequence number seq.      *)

WithRoot(ns, slot, seq, man) ==
  [ns EXCEPT !.objs[slot] = [man |-> man, seq |-> seq]]

\* archiveVersionLocked
Archived(ns, slot, seq, man, reason) ==
  [ns EXCEPT !.hist[slot] = Append(@, [man |-> man, seq |-> seq, reason |-> reason])]

\* delete(s.buckets, name): the bucket's objects map goes with it.
WithoutBucket(ns, b) ==
  [ns EXCEPT !.buckets = @ \ {b},
             !.objs = [s \in Slots |-> IF s[1] = b THEN NoRoot ELSE @[s]]]

WithoutUpload(ns, u) ==
  [ns EXCEPT !.ups = [v \in DOMAIN @ \ {u} |-> @[v]]]

\* removeHistoryLocked: its loop over the rows of one key, and over the keys.
KeptRows(rows, drop) ==
  LET kept[i \in 0 .. Len(rows)] ==
        IF i = 0 THEN <<>>
        ELSE IF rows[i].seq \in drop THEN kept[i - 1] ELSE Append(kept[i - 1], rows[i])
  IN kept[Len(rows)]
WithoutHistory(ns, b, drop) ==
  [ns EXCEPT !.hist = [s \in Slots |-> IF s[1] = b THEN KeptRows(@[s], drop[s[2]]) ELSE @[s]]]

NewUpload(b, k) == [bucket |-> b, key |-> k, parts |-> <<>>]
WithUpload(ns, u, up) ==
  [ns EXCEPT !.ups = [v \in DOMAIN @ \cup {u} |-> IF v = u THEN up ELSE @[v]]]
WithPart(ns, u, n, body) ==
  [ns EXCEPT !.ups[u].parts = [m \in DOMAIN @ \cup {n} |-> IF m = n THEN body ELSE @[m]]]

\* applyRecord, by record type: what makes it fail, and what it does.
Accepts(ns, rec) ==
  /\ rec.type \in {"put", "delete", "deleteBucket", "complete"} => rec.b \in ns.buckets
  /\ rec.type \in {"part", "abort", "complete"} => rec.u \in DOMAIN ns.ups

ReplayPut(ns, seq, rec) ==
  LET old == IF rec.prev = 0 THEN ns
             ELSE Archived(ns, <<rec.b, rec.k>>, seq, rec.prev, "overwritten")
  IN  WithRoot(old, <<rec.b, rec.k>>, seq, rec.man)

ReplayDelete(ns, seq, rec) ==
  [Archived(ns, <<rec.b, rec.k>>, seq, rec.prev, "deleted")
     EXCEPT !.objs[<<rec.b, rec.k>>] = NoRoot]

ReplayCompleteKeepsUpload(ns, seq, rec) == ReplayPut(ns, seq, rec)
ReplayComplete(ns, seq, rec) == WithoutUpload(ReplayPut(ns, seq, rec), rec.u)

ApplyRecord(ns, seq, rec) ==
  CASE rec.type = "createBucket" -> [ns EXCEPT !.buckets = @ \cup {rec.b}]
    [] rec.type = "deleteBucket" -> WithoutBucket(ns, rec.b)
    [] rec.type = "put"          -> ReplayPut(ns, seq, rec)
    [] rec.type = "delete"       -> ReplayDelete(ns, seq, rec)
    [] rec.type = "createUpload" -> WithUpload(ns, rec.u, NewUpload(rec.b, rec.k))
    [] rec.type = "part"         -> WithPart(ns, rec.u, rec.n, rec.body)
    [] rec.type = "abort"        -> WithoutUpload(ns, rec.u)
    [] rec.type = "complete"     -> ReplayComplete(ns, seq, rec)
    [] rec.type = "prune"        -> WithoutHistory(ns, rec.b, rec.drop)
-----------------------------------------------------------------------------
Init ==
  /\ journal = <<>> /\ synced = 0 /\ applied = 0 /\ live = EmptyNs
  /\ status = "serve" /\ role = "serve" /\ poisoned = FALSE
  /\ manifests = <<>> /\ pend = [c \in Clients |-> Idle]
  /\ chain = <<EmptyNs>> /\ acks = {} /\ inst \in Instances

Serving == status = "serve"
Ready(c, op) == Serving /\ op \in Offered /\ pend[c] = Idle
NextSeq == Len(journal) + 1

\* appendFrame under Store.mu, then the handler's own update of memory.  An
\* append that fails leaves the frame behind or not, and no effect on memory.
Journaled(rec, after, req) ==
  /\ ~poisoned /\ NextSeq <= MaxFrames
  /\ \/ /\ journal' = Append(journal, rec) /\ chain' = Append(chain, after)
        /\ live' = after /\ applied' = NextSeq /\ synced' = NextSeq
        /\ acks' = acks \cup {[seq |-> NextSeq, req |-> req]}
        /\ UNCHANGED poisoned
     \/ /\ "failures" \in Offered /\ poisoned' = TRUE
        /\ \/ journal' = Append(journal, rec) /\ chain' = Append(chain, after)
           \/ UNCHANGED <<journal, chain>>
        /\ UNCHANGED <<live, applied, synced, acks>>

NamespaceUnchanged == UNCHANGED <<journal, synced, applied, live, poisoned, chain, acks>>
ProcessUnchanged == UNCHANGED <<status, role, inst>>

Publish(man) == /\ Len(manifests) < MaxManifests
                /\ manifests' = Append(manifests, man)
Asks(c, req) == pend' = [pend EXCEPT ![c] = req]
Ends(c) == Asks(c, Idle)
-----------------------------------------------------------------------------
(* Requests that are one critical section.                                 *)

CreateBucket(c, b) ==
  /\ Ready(c, "createBucket") /\ b \notin live.buckets
  /\ Journaled([type |-> "createBucket", b |-> b],
               [live EXCEPT !.buckets = @ \cup {b}],
               [op |-> "createBucket", b |-> b])
  /\ ProcessUnchanged /\ UNCHANGED <<manifests, pend>>

BucketEmpty(b) ==
  /\ b \in live.buckets /\ \A k \in Keys : live.objs[<<b, k>>] = NoRoot
  /\ \A u \in DOMAIN live.ups : live.ups[u].bucket # b

DeleteBucket(c, b) ==
  /\ Ready(c, "deleteBucket") /\ BucketEmpty(b)
  /\ Journaled([type |-> "deleteBucket", b |-> b], WithoutBucket(live, b),
               [op |-> "deleteBucket", b |-> b])
  /\ ProcessUnchanged /\ UNCHANGED <<manifests, pend>>

RemovedNoHistory(slot, cur) == [live EXCEPT !.objs[slot] = NoRoot]
Removed(slot, cur) ==
  Archived([live EXCEPT !.objs[slot] = NoRoot], slot, NextSeq, cur.man, "deleted")

DeleteObject(c, b, k) ==
  LET cur == live.objs[<<b, k>>] IN
  /\ Ready(c, "delete") /\ b \in live.buckets /\ cur # NoRoot
  /\ Journaled([type |-> "delete", b |-> b, k |-> k, prev |-> cur.man],
               Removed(<<b, k>>, cur), [op |-> "delete", b |-> b, k |-> k])
  /\ ProcessUnchanged /\ UNCHANGED <<manifests, pend>>

CreateMultipartUpload(c, b, k) ==
  /\ Ready(c, "multipart") /\ b \in live.buckets
  /\ Journaled([type |-> "createUpload", u |-> NextSeq, b |-> b, k |-> k],
               WithUpload(live, NextSeq, NewUpload(b, k)),
               [op |-> "createUpload", b |-> b, k |-> k])
  /\ ProcessUnchanged /\ UNCHANGED <<manifests, pend>>

AbortMultipartUpload(c, u) ==
  /\ Ready(c, "multipart") /\ u \in DOMAIN live.ups
  /\ Journaled([type |-> "abort", u |-> u], WithoutUpload(live, u),
               [op |-> "abort", u |-> u])
  /\ ProcessUnchanged /\ UNCHANGED <<manifests, pend>>
-----------------------------------------------------------------------------
(* PutObject, CopyObject and RestoreObjectVersion meet in                  *)
(* commitObjectRootChecked, which re-checks the bucket and evaluates the   *)
(* precondition against the root it is about to replace.                   *)

NoCondition == [kind |-> "none"]
IfAbsent == [kind |-> "absent"]
IfMatch(etag) == [kind |-> "match", etag |-> etag]
Conditions ==
  {NoCondition} \cup
  IF "conditional" \notin Offered THEN {}
  ELSE {IfAbsent} \cup {IfMatch(manifests[i].etag) : i \in DOMAIN manifests}

\* putCondition.check
CheckPasses(cond, cur) ==
  /\ cond.kind = "absent" => cur = NoRoot
  /\ cond.kind = "match" => cur # NoRoot /\ ETagOf(cur.man) = cond.etag

ToCommit(b, k, man, cond, src) ==
  [op |-> "commit", b |-> b, k |-> k, man |-> man, cond |-> cond, src |-> src]
NoSource == [cond |-> NoCondition, man |-> 0]

\* handlePutObject up to commitIngested: HeadBucket, ingest, publishManifest.
PutObject(c, b, k, body, cond) ==
  /\ Ready(c, "put") /\ b \in live.buckets
  /\ Publish([body |-> body, etag |-> Md5(body)])
  /\ Asks(c, ToCommit(b, k, Len(manifests) + 1, cond, NoSource))
  /\ ProcessUnchanged /\ NamespaceUnchanged

\* CopyObject captures the source root once, and checks it there.
CopyObject(c, sb, sk, b, k, cond) ==
  LET src == live.objs[<<sb, sk>>] IN
  /\ Ready(c, "copy") /\ sb \in live.buckets /\ src # NoRoot
  /\ cond.kind = "match" => ETagOf(src.man) = cond.etag
  /\ Asks(c, [op |-> "copy", sb |-> sb, sk |-> sk, man |-> src.man, b |-> b,
              k |-> k, cond |-> cond])
  /\ ProcessUnchanged /\ NamespaceUnchanged /\ UNCHANGED manifests

CopySourceLookedUpAgain(req) == live.objs[<<req.sb, req.sk>>].man
CopySource(req) == req.man

\* The rest of CopyObject before its commit: the copy is a new manifest.
PublishCopy(c) ==
  LET req == pend[c] IN
  /\ Serving /\ req.op = "copy"
  /\ req.b \in live.buckets /\ CopySource(req) # 0
  /\ Publish(manifests[CopySource(req)])
  /\ Asks(c, ToCommit(req.b, req.k, Len(manifests) + 1, NoCondition,
                      [cond |-> req.cond, man |-> req.man]))
  /\ ProcessUnchanged /\ NamespaceUnchanged

BucketNotRechecked(b) == TRUE
BucketStillThere(b) == b \in live.buckets

ConditionCheckedEarlier(req) == TRUE
ConditionHolds(req) == CheckPasses(req.cond, live.objs[<<req.b, req.k>>])

CommitObjectRoot(c) ==
  LET req  == pend[c]
      slot == <<req.b, req.k>>
      cur  == live.objs[slot]
      root == WithRoot(live, slot, NextSeq, req.man)
  IN
  /\ status \in {"serve", "tool"} /\ req.op = "commit"
  /\ BucketStillThere(req.b) /\ ConditionHolds(req)
  /\ Journaled([type |-> "put", b |-> req.b, k |-> req.k, man |-> req.man,
                prev |-> cur.man],
               IF cur = NoRoot THEN root
               ELSE Archived(root, slot, NextSeq, cur.man, "overwritten"),
               req)
  /\ Ends(c) /\ ProcessUnchanged /\ UNCHANGED manifests

RestoredByVersionId(row) == row.seq
RestoredManifest(row) == row.man

\* RestoreObjectVersion before its commit: the version's own manifest is reused.
RestoreObjectVersion(c, b, k) ==
  /\ status = "tool" /\ "restore" \in Offered /\ b \in live.buckets
  /\ \A d \in Clients : pend[d] = Idle
  /\ \E i \in DOMAIN live.hist[<<b, k>>] :
       Asks(c, ToCommit(b, k, RestoredManifest(live.hist[<<b, k>>][i]), NoCondition,
                        NoSource))
  /\ ProcessUnchanged /\ NamespaceUnchanged /\ UNCHANGED manifests
-----------------------------------------------------------------------------
(* Multipart uploads.                                                      *)

\* handleUploadPart up to commitPart: requireUpload, then ingest the body.
UploadPart(c, u, n, body) ==
  /\ Ready(c, "multipart") /\ u \in DOMAIN live.ups
  /\ Asks(c, [op |-> "part", u |-> u, n |-> n, body |-> body])
  /\ ProcessUnchanged /\ NamespaceUnchanged /\ UNCHANGED manifests

\* handleUploadPartCopy: the body is a range of the source root read now.
UploadPartCopy(c, u, n, sb, sk) ==
  LET src == live.objs[<<sb, sk>>] IN
  /\ Ready(c, "partCopy") /\ u \in DOMAIN live.ups
  /\ sb \in live.buckets /\ src # NoRoot
  /\ LET bytes == manifests[src.man].body IN
     \E lo \in 1 .. Len(bytes) : \E hi \in lo .. Len(bytes) :
       Asks(c, [op |-> "part", u |-> u, n |-> n, body |-> SubSeq(bytes, lo, hi)])
  /\ ProcessUnchanged /\ NamespaceUnchanged /\ UNCHANGED manifests

UploadNotRechecked(u) == TRUE
UploadStillOpen(u) == u \in DOMAIN live.ups

CommitPart(c) ==
  LET req == pend[c] IN
  /\ Serving /\ req.op = "part" /\ req.u \in DOMAIN live.ups
  /\ Journaled([type |-> "part", u |-> req.u, n |-> req.n, body |-> req.body],
               WithPart(live, req.u, req.n, req.body), req)
  /\ Ends(c) /\ ProcessUnchanged /\ UNCHANGED manifests

\* CompleteMultipartUpload's first critical section: the client names parts
\* (want: part number to the bytes whose ETag it gives) in ascending order.
Ascending(S) == SetToSortSeq(S, LAMBDA x, y : x < y)

CompleteMultipartUpload(c, u, want) ==
  LET order == Ascending(DOMAIN want) IN
  /\ Ready(c, "multipart") /\ u \in DOMAIN live.ups
  /\ \A i \in 1 .. Len(order) : /\ order[i] \in DOMAIN live.ups[u].parts
                                /\ live.ups[u].parts[order[i]] = want[order[i]]
  /\ \A i \in 1 .. Len(order) - 1 : Len(want[order[i]]) >= MinPart
  /\ Asks(c, [op |-> "assemble", u |-> u, b |-> live.ups[u].bucket,
              k |-> live.ups[u].key, want |-> want,
              parts |-> [i \in 1 .. Len(order) |-> live.ups[u].parts[order[i]]]])
  /\ ProcessUnchanged /\ NamespaceUnchanged /\ UNCHANGED manifests

PartsReadAgain(req) ==
  [i \in 1 .. Len(req.parts) |->
     IF req.u \in DOMAIN live.ups
     THEN live.ups[req.u].parts[Ascending(DOMAIN req.want)[i]] ELSE req.parts[i]]
PartsCaptured(req) == req.parts

\* Outside the lock: one pass over the captured parts, then publishManifest.
AssembleParts(c) ==
  LET req == pend[c] IN
  /\ Serving /\ req.op = "assemble"
  /\ Publish([body |-> FlattenSeq(PartsCaptured(req)),
              etag |-> MultipartETag(PartsCaptured(req))])
  /\ Asks(c, [op |-> "retire", u |-> req.u, b |-> req.b, k |-> req.k,
              want |-> req.want, man |-> Len(manifests) + 1])
  /\ ProcessUnchanged /\ NamespaceUnchanged

CommitComplete(c) ==
  LET req  == pend[c]
      slot == <<req.b, req.k>>
      cur  == live.objs[slot]
      done == WithoutUpload(WithRoot(live, slot, NextSeq, req.man), req.u)
  IN
  /\ Serving /\ req.op = "retire"
  /\ UploadStillOpen(req.u) /\ req.b \in live.buckets
  /\ Journaled([type |-> "complete", u |-> req.u, b |-> req.b, k |-> req.k,
                man |-> req.man, prev |-> cur.man],
               IF cur = NoRoot THEN done
               ELSE Archived(done, slot, NextSeq, cur.man, "overwritten"),
               req)
  /\ Ends(c) /\ ProcessUnchanged /\ UNCHANGED manifests

\* Every other end of a request: a refused precondition, a bucket or upload
\* that is gone, a poisoned journal, a failed ingest.  Nothing changes.
RequestFails(c) ==
  /\ status \in {"serve", "tool"} /\ pend[c] # Idle /\ Ends(c)
  /\ ProcessUnchanged /\ NamespaceUnchanged /\ UNCHANGED manifests
-----------------------------------------------------------------------------
(* `versions prune` and the life of the process.                           *)

\* selectPruneVersions: all but the newest keep rows, and of those the old.
Prunable(b, k, keep) ==
  LET rows == live.hist[<<b, k>>] IN
  {rows[i].seq : i \in {j \in DOMAIN rows : j + keep <= Len(rows)}}

\* One frame of applyHistoryPrune; the age rule and the frame size may keep
\* any of the eligible rows out of it.
PruneFrame(b, keep) ==
  /\ status = "tool" /\ "prune" \in Offered
  /\ \A d \in Clients : pend[d] = Idle
  /\ \E drop \in [Keys -> SUBSET UNION {Prunable(b, k, keep) : k \in Keys}] :
       /\ \A k \in Keys : drop[k] \subseteq Prunable(b, k, keep)
       /\ \E k \in Keys : drop[k] # {}
       /\ Journaled([type |-> "prune", b |-> b, drop |-> drop],
                    WithoutHistory(live, b, drop), [op |-> "prune", b |-> b])
  /\ ProcessUnchanged /\ UNCHANGED <<manifests, pend>>

ProcessGone ==
  /\ "failures" \in Offered
  /\ status' = "down" /\ live' = EmptyNs /\ applied' = 0 /\ poisoned' = FALSE
  /\ pend' = [c \in Clients |-> Idle] /\ UNCHANGED <<role, manifests, acks, inst>>

Kill == /\ status \in {"replaying", "serve", "tool"} /\ ProcessGone
        /\ UNCHANGED <<journal, synced, chain>>

PowerFail ==
  /\ status \in {"replaying", "serve", "tool"} /\ ProcessGone
  /\ \E n \in synced .. Len(journal) :
       /\ journal' = SubSeq(journal, 1, n) /\ synced' = n
       /\ chain' = SubSeq(chain, 1, n + 1)

\* OpenStore: start replaying on behalf of a server or of an offline command.
OpenStore(r) ==
  /\ status = "down" /\ status' = "replaying" /\ role' = r
  /\ UNCHANGED <<journal, synced, applied, live, poisoned, manifests, pend, chain,
                 acks, inst>>

Replay ==
  /\ status = "replaying" /\ applied < Len(journal)
  /\ LET rec == journal[applied + 1] IN
     IF Accepts(live, rec)
     THEN /\ live' = ApplyRecord(live, applied + 1, rec)
          /\ applied' = applied + 1 /\ UNCHANGED status
     ELSE status' = "refused" /\ UNCHANGED <<live, applied>>
  /\ UNCHANGED <<journal, synced, role, poisoned, manifests, pend, chain, acks, inst>>

ReplayDone ==
  /\ status = "replaying" /\ applied = Len(journal) /\ status' = role
  /\ UNCHANGED <<journal, synced, applied, live, role, poisoned, manifests, pend,
                 chain, acks, inst>>

Wants == UNION {[S -> Bodies] : S \in (SUBSET PartNos) \ {{}}}

Request(c) ==
  \/ \E b \in Buckets : CreateBucket(c, b) \/ DeleteBucket(c, b)
  \/ \E b \in Buckets, k \in Keys :
       \/ DeleteObject(c, b, k) \/ CreateMultipartUpload(c, b, k)
       \/ RestoreObjectVersion(c, b, k)
       \/ \E body \in Bodies, cond \in Conditions : PutObject(c, b, k, body, cond)
       \/ \E sb \in Buckets, sk \in Keys, cond \in Conditions \ {IfAbsent} :
            CopyObject(c, sb, sk, b, k, cond)
  \/ \E u \in DOMAIN live.ups :
       \/ AbortMultipartUpload(c, u)
       \/ \E want \in Wants : CompleteMultipartUpload(c, u, want)
       \/ \E n \in PartNos :
            \/ \E body \in Bodies : UploadPart(c, u, n, body)
            \/ \E sb \in Buckets, sk \in Keys : UploadPartCopy(c, u, n, sb, sk)
  \/ PublishCopy(c) \/ CommitObjectRoot(c) \/ CommitPart(c)
  \/ AssembleParts(c) \/ CommitComplete(c) \/ RequestFails(c)

Busy == {c \in Clients : pend[c] # Idle}

Next ==
  \/ \E c \in Clients : (c \in Busy \/ Cardinality(Busy) < MaxClients) /\ Request(c)
  \/ \E b \in Buckets, keep \in 0 .. 1 : PruneFrame(b, keep)
  \/ Kill \/ PowerFail \/ (\E r \in {"serve", "tool"} : OpenStore(r))
  \/ Replay \/ ReplayDone

Spec == Init /\ [][Next]_vars
-----------------------------------------------------------------------------
Root == [man : Nat, seq : Nat]
Row == [man : Nat \ {0}, seq : Nat \ {0}, reason : {"overwritten", "deleted"}]
NsOK(ns) ==
  /\ ns.buckets \subseteq Buckets
  /\ ns.objs \in [Slots -> Root]
  /\ \A s \in Slots : ns.hist[s] \in Seq(Row)
  /\ \A u \in DOMAIN ns.ups :
       /\ u \in Nat \ {0}
       /\ ns.ups[u].bucket \in Buckets /\ ns.ups[u].key \in Keys
       /\ DOMAIN ns.ups[u].parts \subseteq PartNos

TypeOK ==
  /\ Len(chain) = Len(journal) + 1
  /\ synced \in 0 .. Len(journal) /\ applied \in 0 .. Len(journal)
  /\ NsOK(live) /\ NsOK(chain[Len(chain)])
  /\ status \in {"down", "replaying", "serve", "tool", "refused"}
  /\ role \in {"serve", "tool"} /\ poisoned \in BOOLEAN
  /\ \A s \in Slots : live.objs[s].man \in 0 .. Len(manifests)
  /\ DOMAIN pend = Clients

\* Replay rebuilds, record by record, exactly the namespace the handlers
\* produced when they wrote the records: roots with their sequence numbers,
\* history rows in order, open uploads with their parts.
ReplayReproduces == live = chain[applied + 1]

\* applyRecord meets no record for an unknown bucket or upload, in whatever
\* order requests, failed appends, kills and lost tails followed each other.
ReplayNeverRefuses == status # "refused"

\* Every version ever committed to a key (frame n) is the key's current root
\* or one of its history rows, unless a later prune frame dropped its row.
RowFor(ns, slot, man) == \E i \in DOMAIN ns.hist[slot] : ns.hist[slot][i].man = man
DroppedBy(p, slot, man) ==
  /\ journal[p].type = "prune" /\ journal[p].b = slot[1]
  /\ \E i \in DOMAIN chain[p].hist[slot] :
       LET row == chain[p].hist[slot][i] IN
       row.man = man /\ row.seq \in journal[p].drop[slot[2]]
NoVersionLost ==
  \A n \in 1 .. applied : journal[n].type \in {"put", "complete"} =>
    LET slot == <<journal[n].b, journal[n].k>>
        man  == journal[n].man
    IN  \/ live.objs[slot].man = man
        \/ RowFor(live, slot, man)
        \/ \E p \in n + 1 .. applied : DroppedBy(p, slot, man)

\* A conditional write that was acknowledged met its precondition in the
\* namespace its own frame was applied to, whatever ran since it was sent.
ConditionsHeldAtCommit ==
  \A a \in acks : a.req.op = "commit" =>
    CheckPasses(a.req.cond, chain[a.seq].objs[<<a.req.b, a.req.k>>])

\* An acknowledged copy carries the bytes and the ETag of the very source
\* revision its x-amz-copy-source-if-match was evaluated against.
CopyIsOfCheckedSource ==
  \A a \in acks : a.req.op = "commit" /\ a.req.src.man # 0 =>
    /\ manifests[a.req.man] = manifests[a.req.src.man]
    /\ a.req.src.cond.kind = "match" => ETagOf(a.req.man) = a.req.src.cond.etag

\* An acknowledged completion published the concatenation, in part order, of
\* the parts whose ETags the client named, even when a part was uploaded
\* again while the object was being assembled.
CompletionIsWhatWasNamed ==
  \A a \in acks : a.req.op = "retire" =>
    LET order == Ascending(DOMAIN a.req.want) IN
    manifests[a.req.man].body =
      FlattenSeq([i \in 1 .. Len(order) |-> a.req.want[order[i]]])

\* An open upload always has its bucket to be completed into, also after a
\* restart (DeleteBucket refuses otherwise); and of all the completions and
\* aborts racing for one upload, one succeeds.
UploadsEndOnce ==
  /\ \A u \in DOMAIN live.ups : live.ups[u].bucket \in live.buckets
  /\ \A a1, a2 \in acks :
       /\ a1.req.op \in {"retire", "abort"} /\ a2.req.op \in {"retire", "abort"}
       /\ a1.req.u = a2.req.u
       => a1 = a2
=============================================================================
