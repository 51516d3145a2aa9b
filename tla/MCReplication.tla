---------------------------- MODULE MCReplication ----------------------------
(* Instances of Listing, Sync, Transfer and Reader for TLC, one at a time. *)
EXTENDS Listing, Sync, Transfer, Reader, TLC

CONSTANTS x, y,
          Parts     \* which of the four are explored

VARIABLE part       \* the one this behaviour is of

ASSUME DestinationAssumption == CreateOnly

vars == <<part, listVars, syncVars, poolVars, getVars>>
-----------------------------------------------------------------------------
\* Keys 3 and 4 lie under one common prefix.
FourKeys == {1, 3, 4, 5}
OnePrefix == [k \in FourKeys |-> IF k \in {3, 4} THEN 2 ELSE 0]

Walk(api, ids, delimited, max, changes) ==
  [api : {api}, delimited : delimited, max : max, changes : {changes},
   from : {S \X ids : S \in SUBSET FourKeys}]
IdleWalk == [api |-> "parts", delimited |-> FALSE, max |-> 0, changes |-> 0, from |-> {}]
Walks ==
  {IdleWalk} \cup Walk("objects", {0}, BOOLEAN, 0 .. 2, 2) \cup Walk("parts", {0}, {FALSE}, 0 .. 2, 2)
  \cup Walk("uploads", {1, 2}, BOOLEAN, 1 .. 2, 1) \cup Walk("uploads", {1}, BOOLEAN, 1 .. 2, 2)
-----------------------------------------------------------------------------
\* A small object, a larger one, and the larger one from a multipart upload.
A == Rev(<<x>>, FALSE)
B == Rev(<<x, y>>, FALSE)
M == Rev(<<x, y>>, TRUE)
Objs(first, second) == [k \in FourKeys |-> IF k = 1 THEN first ELSE IF k = 3 THEN second ELSE NoRev]
None == Objs(NoRev, NoRev)
Files(first, second) == [k \in FourKeys |-> IF k = 1 THEN first ELSE IF k = 3 THEN second ELSE <<>>]
NoFiles == Files(<<>>, <<>>)
Bounds(srcWrites, dstWrites, fileWrites, gcs, rots, runs) ==
  [src |-> srcWrites, dst |-> dstWrites, file |-> fileWrites, gc |-> gcs, rot |-> rots, runs |-> runs]
Command(mode, same, from, to, onDisk, revs, left_) ==
  [mode |-> mode, same |-> same, src |-> from, dst |-> to, file |-> onDisk, revs |-> revs,
   written |-> IF from[3] = NoRev /\ onDisk[3] = <<>> THEN {1} ELSE {1, 3}, left |-> left_]
IdleCommand == Command("sync", FALSE, None, None, NoFiles, {}, Bounds(0, 0, 0, 0, 0, 0))
ForkMultipart == Command("fork", TRUE, Objs(M, NoRev), None, NoFiles, {A, B}, Bounds(0, 1, 0, 0, 0, 3))
Commands ==
  {IdleCommand, ForkMultipart,
   Command("replicate", FALSE, Objs(B, A), None, NoFiles, {A}, Bounds(1, 1, 0, 0, 0, 1)),
   Command("replicate", FALSE, Objs(B, NoRev), Objs(A, NoRev), NoFiles, {A}, Bounds(1, 1, 0, 0, 1, 2)),
   Command("replicate", FALSE, Objs(B, NoRev), None, NoFiles, {A}, Bounds(1, 0, 0, 1, 1, 2)),
   Command("fork", TRUE, Objs(B, A), None, NoFiles, {A}, Bounds(0, 1, 0, 0, 0, 2)),
   Command("fork", TRUE, Objs(B, NoRev), None, NoFiles, {A, M}, Bounds(1, 1, 0, 1, 0, 2)),
   Command("restore", TRUE, Objs(M, NoRev), None, NoFiles, {B, M}, Bounds(0, 2, 0, 1, 0, 2)),
   Command("restore", TRUE, Objs(B, A), None, NoFiles, {A}, Bounds(0, 1, 0, 0, 0, 2)),
   Command("sync", FALSE, None, Objs(A, NoRev), Files(<<x, y>>, <<>>), {}, Bounds(0, 0, 2, 0, 0, 1)),
   Command("sync", FALSE, None, Objs(A, NoRev), Files(<<x, y>>, <<>>), {B}, Bounds(0, 1, 1, 0, 0, 2)),
   Command("sync", FALSE, None, None, Files(<<x>>, <<y>>), {}, Bounds(0, 0, 1, 0, 0, 1))}
RestoreMultipart == Command("restore", TRUE, Objs(M, NoRev), None, NoFiles, {}, Bounds(0, 0, 0, 0, 0, 2))
ResumedMultipart == {IdleCommand, ForkMultipart, RestoreMultipart}
-----------------------------------------------------------------------------
Pool(lengths, maxRecords, target, workers, budget, maxFree, bulk, cancel) ==
  [lengths |-> lengths, maxRecords |-> maxRecords, target |-> target, workers |-> workers,
   budget |-> budget, frameCap |-> 4, maxFree |-> maxFree, bulk |-> bulk, cancelOnError |-> cancel]
IdlePool == Pool(<<>>, 1, 0, 1, 1, 0, FALSE, FALSE)
\* The batch of the chunk of length 5 is larger than every budget here.
Pools ==
  {IdlePool}
  \cup {Pool(<<1, 1, 2, 5, 1>>, 2, 3, w, b, f, TRUE, c) : w \in {2, 3}, b \in {4, 5}, f \in {0, 2}, c \in BOOLEAN}
  \cup {Pool(<<1, 1, 1>>, 2, 3, 2, 4, 1, FALSE, c) : c \in BOOLEAN}
  \cup {Pool(s, r, t, 1, 9, 0, TRUE, TRUE) :
          s \in UNION {[1 .. n -> 1 .. 3] : n \in 0 .. 3}, r \in 1 .. 3, t \in 1 .. 4}
-----------------------------------------------------------------------------
Record(pack, at, hot, ok) == [pack |-> pack, at |-> at, hot |-> hot, ok |-> ok]
Get(lengths, packed, loose, header, rep, fails, decays, repairs) ==
  [lengths |-> lengths, packed |-> packed, loose |-> loose, cond |-> "proceed", range |-> header,
   rep |-> rep, fails |-> fails, decays |-> decays, repairs |-> repairs]
NoHeader == [kind |-> "none", n |-> 0, start |-> 0, end |-> 0]
Suffix(n) == [NoHeader EXCEPT !.kind = "suffix", !.n = n]
From(start, end) == [NoHeader EXCEPT !.kind = "from", !.start = start, !.end = end]
Headers(size) == {NoHeader} \cup {Suffix(n) : n \in {0, 2, size + 1}}
                 \cup {From(start, end) : start \in {0, 1, 3, size}, end \in {-1, 2, size}}
IdleGet == [Get(<<>>, <<>>, <<>>, NoHeader, "none", 0, 0, 0) EXCEPT !.cond = "failed"]

\* Chunks 1 to 3 lie side by side in pack 1, chunk 4 in pack 2, chunk 2 also
\* in pack 3 and loose; chunk 5 is packed warm and loose.
Layout(second, third) ==
  << <<Record(1, 1, TRUE, TRUE)>>, <<Record(1, 2, TRUE, second), Record(3, 1, FALSE, TRUE)>>,
     <<Record(1, 3, TRUE, third)>>, <<Record(2, 1, TRUE, TRUE)>>, <<Record(2, 2, FALSE, TRUE)>> >>
Loose(third) == <<"none", "bad", third, "none", "good">>
Gets ==
  {IdleGet, [Get(<<1>>, << <<>> >>, <<"good">>, NoHeader, "none", 0, 0, 0) EXCEPT !.cond = "unmodified"]}
  \cup {Get(<<2, 1, 1, 2, 1>>, Layout(ok, third), Loose(loose), h, "none", 0, 1, 1) :
          ok \in BOOLEAN, third \in BOOLEAN, loose \in {"none", "good"}, h \in Headers(7)}
  \cup {Get(<<3, 3>>, << <<>>, <<>> >>, <<"good", "good">>, h, rep, fails, 0, 0) :
          h \in Headers(6), rep \in {"unreadable", "unsupported", "usable"}, fails \in {0, 1, 3, 6}}
-----------------------------------------------------------------------------
\* The parts that are not explored have nothing to do.
NoListing == request = IdleWalk /\ ListInit
NoSync == inst = IdleCommand /\ SyncInit
NoTransfer == pool = IdlePool /\ PoolInit
NoGet == get = IdleGet /\ GetInit

Init ==
  /\ part \in Parts
  /\ \/ part = "listing" /\ NoSync /\ NoTransfer /\ NoGet /\ ListInit
     \/ part = "sync" /\ NoListing /\ NoTransfer /\ NoGet /\ SyncInit
     \/ part = "transfer" /\ NoListing /\ NoSync /\ NoGet /\ PoolInit
     \/ part = "get" /\ NoListing /\ NoSync /\ NoTransfer /\ GetInit

Of(p, Act) == part = p /\ Act /\ UNCHANGED part
OnlyListing == UNCHANGED <<syncVars, poolVars, getVars>>
OnlySync == UNCHANGED <<listVars, poolVars, getVars>>
OnlyTransfer == UNCHANGED <<listVars, syncVars, getVars>>
OnlyGet == UNCHANGED <<listVars, syncVars, poolVars>>

Next ==
  \/ Of("listing", ListNext /\ OnlyListing)
  \/ Of("sync", SyncNext /\ OnlySync)
  \/ Of("transfer", PoolNext /\ OnlyTransfer)
  \/ Of("get", GetNext /\ OnlyGet)

\* The fairness each module justifies, for its part.
Fairness ==
  /\ WF_vars(Of("listing", FairWalk /\ OnlyListing))
  /\ WF_vars(Of("sync", ClientStep /\ OnlySync)) /\ WF_vars(Of("sync", ServerStep /\ OnlySync))
  /\ WF_vars(Of("transfer", Dispatch /\ OnlyTransfer)) /\ WF_vars(Of("transfer", Return /\ OnlyTransfer))
  /\ \A i \in AllItems : WF_vars(Of("transfer", ItemStep(i) /\ OnlyTransfer))
  /\ WF_vars(Of("get", GetHandler /\ OnlyGet)) /\ WF_vars(Of("get", GetProducer /\ OnlyGet))

Spec == Init /\ [][Next]_vars /\ Fairness
-----------------------------------------------------------------------------
\* Types of the four.
ClientTypes == ListTypeOK /\ SyncTypeOK /\ PoolTypeOK /\ GetTypeOK

Working == \/ part = "listing" /\ walk = "paging"
           \/ part = "sync" /\ client.pc \notin {"idle", "end"}
           \/ part = "transfer" /\ verdict = -1
           \/ part = "get" /\ (handler.pc # "done" \/ producer.on)

\* Whatever the servers, the network and the other clients do, a listing, a
\* run of a command, a transfer and a GET with its goroutine come to an end.
ClientsEnd == Working ~> ~Working
=============================================================================
