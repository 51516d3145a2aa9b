--------------------------- MODULE LooseCASProofs ---------------------------
(***************************************************************************)
(* Proofs about LooseCAS, for every set of chunks, directories, requests   *)
(* and objects, in stores whose process is never killed inside a           *)
(* publication while the machine lives on (MCLooseCASKill.cfg shows why    *)
(* that is assumed).                                                       *)
(*                                                                         *)
(* The invariant follows Settled, the chunks present but not created by a  *)
(* publication still running: they are durable at every moment, whatever   *)
(* the running publication has renamed or will undo, and whatever a        *)
(* request has counted on is settled, staged or in its own flight.         *)
(***************************************************************************)
EXTENDS LooseCAS, FiniteSetTheorems, TLAPS

Settled == {c \in present : \A w \in Writers : c \notin flight[w].created}
Publishing(f) == f.phase \in {"mkdir", "parent", "rename"}
Quiet(f) == f.created = {} /\ f.newDirs = {} /\ f.left = {}

\* Exactly the holder of the barrier is publishing, and nobody else has
\* created, unsynced or new directories to account for.
BarrierInv == \A w \in Writers :
  /\ Publishing(flight[w]) <=> pubHolder = w
  /\ ~ Publishing(flight[w]) => Quiet(flight[w])
  /\ flight[w].phase \in {"none", "done", "failed"} => flight[w].batch = {}
  /\ flight[w].phase \in {"lock", "mkdir", "parent", "rename"} => flight[w].synced

\* What a power failure may take is accounted for by the running publication.
DurableInv ==
  /\ present \subseteq dataDurable /\ corrupt = {} /\ dirDurable \subseteq dirs
  /\ Settled \subseteq entryDurable
  /\ \A c \in Settled : ShardOf[c] \in dirDurable
  /\ pubHolder = Nobody => dirs \subseteq dirDurable
  /\ \A w \in Writers : pubHolder = w =>
       LET f == flight[w] IN
       /\ f.created \subseteq present
       /\ \A c \in f.created : c \in entryDurable \/ ShardOf[c] \in f.unsynced
       /\ dirs \subseteq dirDurable \cup f.newDirs
       /\ f.phase \in {"mkdir", "parent"} => f.created = {}
       /\ f.phase = "mkdir" => f.newDirs = {}
       /\ f.phase = "rename" => /\ dirs \subseteq dirDurable
                                /\ \A c \in f.batch : ShardOf[c] \in dirs
                                /\ f.batch \subseteq present \cup f.left
       /\ f.phase = "parent" => /\ \A c \in f.batch : ShardOf[c] \in dirs
                                /\ f.newDirs \subseteq dirs
       /\ f.left \subseteq f.batch /\ f.created \subseteq f.batch
       /\ f.phase = "parent" => f.left = f.batch

\* Everything a request has passed is settled or still its own to publish.
RequestInv == \A w \in Writers :
  /\ flight[w].phase # "failed" =>
       \A i \in DOMAIN req[w].obj : i < req[w].pos =>
          req[w].obj[i] \in req[w].staged \cup flight[w].batch \cup Settled
  /\ req[w].last => req[w].pos > Len(req[w].obj)
  /\ req[w].state = "wait" => req[w].last /\ req[w].staged = {}
  /\ req[w].state # "idle" => req[w].obj \in Objects

BoundInv == \A w \in Writers :
  /\ IsFiniteSet(req[w].staged) /\ IsFiniteSet(flight[w].batch)
  /\ req[w].state = "adding" => Cardinality(req[w].staged) < BatchMax

CommitInv == \A obj \in committed : \A i \in DOMAIN obj : obj[i] \in Settled

IInv == CasTypeOK /\ BarrierInv /\ DurableInv /\ RequestInv /\ BoundInv /\ CommitInv
-----------------------------------------------------------------------------
\* The idle request and the idle flight have their types.
LEMMA Idle == NoReq \in ReqType /\ NoFlight \in FlightType
<1>1. NoReq \in ReqType
  BY DEF NoReq, ReqType
<1>2. NoFlight \in FlightType
  BY DEF NoFlight, FlightType
<1> QED BY <1>1, <1>2

\* The initial store has nothing in it and nobody at work.
LEMMA LooseInit == CasInit => IInv
<1> SUFFICES ASSUME CasInit PROVE IInv
  OBVIOUS
<1> USE CASAssumption DEF CasInit
<1>0. \A S : S = {} => IsFiniteSet(S) /\ Cardinality(S) = 0
  BY FS_EmptySet
<1>1. CasTypeOK
  <2>1. \A w \in Writers : req[w].staged = {} /\ flight[w].batch = {}
    BY DEF NoReq, NoFlight
  <2>2. req \in [Writers -> ReqType] /\ flight \in [Writers -> FlightType]
    BY Idle
  <2>3. \A w \in Writers : Cardinality(req[w].staged) <= BatchMax
                        /\ Cardinality(flight[w].batch) <= BatchMax
    BY <1>0, <2>1
  <2> QED BY <2>2, <2>3 DEF CasTypeOK
<1>2. BarrierInv
  BY DEF BarrierInv, Publishing, Quiet, NoFlight
<1>3. DurableInv
  BY DEF DurableInv, Settled, NoFlight
<1>4. RequestInv
  BY DEF RequestInv, NoReq, NoFlight
<1>5. BoundInv
  BY <1>0 DEF BoundInv, NoReq, NoFlight
<1>6. CommitInv
  BY DEF CommitInv
<1> QED BY <1>1, <1>2, <1>3, <1>4, <1>5, <1>6 DEF IInv

\* A step of the request alone leaves what is settled, and who publishes it.
LEMMA RequestOnly ==
  ASSUME BarrierInv, DurableInv, UNCHANGED <<files, pubHolder, flight>>
  PROVE  BarrierInv' /\ DurableInv' /\ Settled' = Settled
<1> USE DEF files
<1>1. Settled' = Settled
  BY DEF Settled
<1>2. BarrierInv'
  BY DEF BarrierInv
<1>3. DurableInv'
  BY <1>1 DEF DurableInv
<1> QED BY <1>1, <1>2, <1>3

\* Begin keeps the invariant.
LEMMA BeginStep ==
  ASSUME IInv, NEW w \in Writers, NEW obj \in Objects, Begin(w, obj)
  PROVE  IInv'
<1> USE CASAssumption DEF IInv
<1>0. BarrierInv' /\ DurableInv' /\ Settled' = Settled
  BY RequestOnly DEF Begin
<1>1. \A S : S = {} => IsFiniteSet(S) /\ Cardinality(S) = 0
  BY FS_EmptySet
<1>2. req' = [req EXCEPT ![w] = [NoReq EXCEPT !.state = "adding", !.obj = obj]]
      /\ UNCHANGED <<files, pubHolder, flight, committed>>
  BY DEF Begin
<1>3. CasTypeOK'
  <2> DEFINE r == [NoReq EXCEPT !.state = "adding", !.obj = obj]
  <2>0. NoReq \in ReqType /\ NoReq.staged = {}
    BY Idle DEF NoReq
  <2>1. r \in ReqType /\ r.staged = {}
    BY <2>0 DEF ReqType
  <2>2. req' \in [Writers -> ReqType]
    BY <1>2, <2>1 DEF CasTypeOK
  <2>3. \A v \in Writers : req'[v].staged = IF v = w THEN {} ELSE req[v].staged
    BY <1>2, <2>1 DEF CasTypeOK
  <2>4. \A v \in Writers : Cardinality(req'[v].staged) <= BatchMax
    BY <1>1, <2>3 DEF CasTypeOK
  <2> QED BY <1>2, <2>2, <2>4 DEF CasTypeOK, files
<1>4. RequestInv'
  BY <1>0, <1>2 DEF RequestInv, NoReq, CasTypeOK
<1>5. BoundInv'
  BY <1>1, <1>2 DEF BoundInv, NoReq, CasTypeOK
<1>6. CommitInv'
  BY <1>0, <1>2 DEF CommitInv
<1> QED BY <1>0, <1>3, <1>4, <1>5, <1>6

\* Add of a chunk keeps it.
LEMMA AddStep ==
  ASSUME IInv, NEW w \in Writers, Add(w)
  PROVE  IInv'
<1> USE CASAssumption DEF IInv
<1>0. BarrierInv' /\ DurableInv' /\ Settled' = Settled
  BY RequestOnly DEF Add
<1> DEFINE r == req[w]
           c == r.obj[r.pos]
           more == IF c \in present THEN r.staged ELSE r.staged \cup {c}
           st == IF more # r.staged /\ BatchFull(more) THEN "start" ELSE r.state
<1>1. /\ r.state = "adding" /\ r.pos <= Len(r.obj) /\ (c \in r.staged \/ MayStat)
      /\ req' = [req EXCEPT ![w] = [r EXCEPT !.pos = @ + 1, !.staged = more, !.state = st]]
      /\ UNCHANGED <<files, pubHolder, flight, committed>>
  BY DEF Add
<1>2. r \in ReqType /\ req \in [Writers -> ReqType]
  BY DEF CasTypeOK, ReqType
<1>3. r.obj \in Seq(Chunks) /\ r.pos \in DOMAIN r.obj /\ c \in Chunks
  BY <1>1, <1>2 DEF ReqType
<1>4. /\ IsFiniteSet(more) /\ Cardinality(more) <= BatchMax
      /\ st = "adding" => Cardinality(more) < BatchMax
  <2>1. IsFiniteSet(r.staged) /\ Cardinality(r.staged) < BatchMax
    BY <1>1 DEF BoundInv
  <2>2. /\ IsFiniteSet(r.staged \cup {c})
        /\ Cardinality(r.staged \cup {c}) \in {Cardinality(r.staged), Cardinality(r.staged) + 1}
    BY <2>1, FS_AddElement
  <2>3. Cardinality(r.staged) \in Nat /\ Cardinality(r.staged \cup {c}) \in Nat
    BY <2>1, <2>2, FS_CardinalityType
  <2>4. CASE more = r.staged
    BY <2>1, <2>3, <2>4, <1>1 DEF BatchFull
  <2>5. CASE more = r.staged \cup {c}
    BY <2>1, <2>2, <2>3, <2>5, <1>1 DEF BatchFull
  <2> QED BY <2>4, <2>5
<1>5. st \in {"adding", "start"} /\ more \subseteq Chunks
  BY <1>1, <1>2, <1>3 DEF ReqType
<1>6. CasTypeOK'
  <2>1. [r EXCEPT !.pos = @ + 1, !.staged = more, !.state = st] \in ReqType
    <3> HIDE DEF more, st, r
    <3>1. r.pos + 1 \in Nat \ {0}
      BY <1>2 DEF ReqType
    <3> QED BY <1>2, <1>5, <3>1 DEF ReqType
  <2>2. req' \in [Writers -> ReqType]
    BY <1>1, <1>2, <2>1
  <2>3. \A v \in Writers : req'[v].staged = IF v = w THEN more ELSE req[v].staged
    BY <1>1, <1>2 DEF ReqType
  <2> QED BY <1>1, <1>4, <2>2, <2>3 DEF CasTypeOK, ReqType, files
<1>7. RequestInv'
  <2> SUFFICES ASSUME NEW v \in Writers
               PROVE  /\ flight[v].phase # "failed" =>
                           \A i \in DOMAIN req'[v].obj : i < req'[v].pos =>
                              req'[v].obj[i] \in req'[v].staged \cup flight[v].batch \cup Settled
                      /\ req'[v].last => req'[v].pos > Len(req'[v].obj)
                      /\ req'[v].state = "wait" => req'[v].last /\ req'[v].staged = {}
                      /\ req'[v].state # "idle" => req'[v].obj \in Objects
    BY <1>0, <1>1 DEF RequestInv
  <2>1. CASE v # w
    BY <1>1, <2>1, <1>2 DEF RequestInv
  <2>2. CASE v = w
    <3>1. /\ req'[w].obj = r.obj /\ req'[w].pos = r.pos + 1 /\ req'[w].staged = more
          /\ req'[w].last = r.last /\ req'[w].state = st
      BY <1>1, <1>2 DEF ReqType
    <3>2. c \in more \cup Settled
      BY <1>1, <1>3 DEF MayStat, Settled, BarrierInv, Quiet
    <3>3. r.last = FALSE
      BY <1>1, <1>2, <1>3 DEF RequestInv, ReqType
    <3>4. \A i \in DOMAIN r.obj : i < r.pos + 1 => i < r.pos \/ i = r.pos
      BY <1>2, <1>3 DEF ReqType
    <3>5. flight[w].phase # "failed" =>
             \A i \in DOMAIN r.obj : i < r.pos + 1 =>
                r.obj[i] \in more \cup flight[w].batch \cup Settled
      <4> SUFFICES ASSUME flight[w].phase # "failed", NEW i \in DOMAIN r.obj, i < r.pos + 1
                   PROVE  r.obj[i] \in more \cup flight[w].batch \cup Settled
        OBVIOUS
      <4>1. CASE i = r.pos
        BY <3>2, <4>1
      <4>2. CASE i < r.pos
        <5>1. r.obj[i] \in r.staged \cup flight[w].batch \cup Settled
          BY <4>2 DEF RequestInv
        <5> QED BY <5>1
      <4> QED BY <3>4, <4>1, <4>2
    <3>6. st # "wait" /\ r.obj \in Objects
      BY <1>1, <1>5 DEF RequestInv
    <3> HIDE DEF r, c, more, st
    <3> QED BY <2>2, <3>1, <3>3, <3>5, <3>6
  <2> QED BY <2>1, <2>2
<1>8. BoundInv'
  BY <1>1, <1>2, <1>4 DEF BoundInv, ReqType
<1>9. CommitInv'
  BY <1>0, <1>1 DEF CommitInv
<1> QED BY <1>0, <1>6, <1>7, <1>8, <1>9

\* A failed Add keeps it.
LEMMA AddFailsStep ==
  ASSUME IInv, NEW w \in Writers, AddFails(w)
  PROVE  IInv'
<1> USE CASAssumption DEF IInv
<1>0. BarrierInv' /\ DurableInv' /\ Settled' = Settled
  BY RequestOnly DEF AddFails
<1>1. /\ req[w].state = "adding"
      /\ req' = [req EXCEPT ![w] = [req[w] EXCEPT !.state = "abort"]]
      /\ UNCHANGED <<files, pubHolder, flight, committed>>
  BY DEF AddFails
<1>2. req \in [Writers -> ReqType]
  BY DEF CasTypeOK
<1>3. \A v \in Writers : /\ req'[v] \in ReqType
                         /\ req'[v].obj = req[v].obj /\ req'[v].pos = req[v].pos
                         /\ req'[v].staged = req[v].staged /\ req'[v].last = req[v].last
                         /\ req'[v].state = IF v = w THEN "abort" ELSE req[v].state
  BY <1>1, <1>2 DEF ReqType
<1>4. CasTypeOK'
  BY <1>1, <1>2, <1>3 DEF CasTypeOK, files
<1>5. RequestInv'
  BY <1>0, <1>1, <1>3 DEF RequestInv
<1>6. BoundInv'
  BY <1>1, <1>3 DEF BoundInv
<1>7. CommitInv'
  BY <1>0, <1>1 DEF CommitInv
<1> QED BY <1>0, <1>4, <1>5, <1>6, <1>7

\* Flush keeps it.
LEMMA FlushStep ==
  ASSUME IInv, NEW w \in Writers, Flush(w)
  PROVE  IInv'
<1> USE CASAssumption DEF IInv
<1>0. BarrierInv' /\ DurableInv' /\ Settled' = Settled
  BY RequestOnly DEF Flush
<1>1. /\ req[w].state = "adding" /\ req[w].pos > Len(req[w].obj)
      /\ req' = [req EXCEPT ![w] = [req[w] EXCEPT !.state = "start", !.last = TRUE]]
      /\ UNCHANGED <<files, pubHolder, flight, committed>>
  BY DEF Flush, CasTypeOK
<1>2. req \in [Writers -> ReqType]
  BY DEF CasTypeOK
<1>3. \A v \in Writers : /\ req'[v] \in ReqType
                         /\ req'[v].obj = req[v].obj /\ req'[v].pos = req[v].pos
                         /\ req'[v].staged = req[v].staged
                         /\ v # w => req'[v] = req[v]
  BY <1>1, <1>2 DEF ReqType
<1>4. req'[w].state = "start"
  BY <1>1, <1>2 DEF ReqType
<1>5. CasTypeOK'
  BY <1>1, <1>2, <1>3 DEF CasTypeOK, files
<1>6. RequestInv'
  BY <1>0, <1>1, <1>3, <1>4 DEF RequestInv
<1>7. BoundInv'
  BY <1>1, <1>3, <1>4 DEF BoundInv
<1>8. CommitInv'
  BY <1>0, <1>1 DEF CommitInv
<1> QED BY <1>0, <1>5, <1>6, <1>7, <1>8
-----------------------------------------------------------------------------
\* A flight that changes outside the barrier leaves what is settled.
LEMMA FlightOnly ==
  ASSUME IInv, NEW w \in Writers, NEW f \in FlightType,
         flight' = [flight EXCEPT ![w] = f], UNCHANGED <<files, pubHolder>>,
         ~ Publishing(flight[w]), ~ Publishing(f), Quiet(f),
         f.phase \in {"none", "done", "failed"} => f.batch = {},
         f.phase = "lock" => f.synced
  PROVE  BarrierInv' /\ DurableInv' /\ Settled' = Settled
<1> USE DEF IInv, files
<1>1. flight \in [Writers -> FlightType]
  BY DEF CasTypeOK
<1>2. \A v \in Writers : flight'[v] = IF v = w THEN f ELSE flight[v]
  BY <1>1
<1>3. Settled' = Settled
  BY <1>2 DEF Settled, BarrierInv, Quiet
<1>4. BarrierInv'
  BY <1>2 DEF BarrierInv, Publishing
<1>5. DurableInv'
  BY <1>2, <1>3 DEF DurableInv, BarrierInv
<1> QED BY <1>3, <1>4, <1>5

\* The start of a flush keeps it.
LEMMA StartFlushStep ==
  ASSUME IInv, NEW w \in Writers, StartFlush(w)
  PROVE  IInv'
<1> USE CASAssumption DEF IInv
<1> DEFINE r == req[w]
           f == IF r.staged = {} THEN NoFlight
                ELSE [NoFlight EXCEPT !.phase = "sync", !.batch = r.staged]
           st == IF r.last THEN "wait" ELSE "adding"
<1>1. /\ r.state = "start" /\ flight[w].phase \in {"none", "done"}
      /\ flight' = [flight EXCEPT ![w] = f]
      /\ req' = [req EXCEPT ![w] = [r EXCEPT !.staged = {}, !.state = st]]
      /\ UNCHANGED <<files, pubHolder, committed>>
  BY DEF StartFlush, MayStartFlush, CasTypeOK
<1>2. req \in [Writers -> ReqType] /\ flight \in [Writers -> FlightType]
  BY DEF CasTypeOK
<1>3. /\ NoFlight \in FlightType /\ NoFlight.phase = "none" /\ NoFlight.batch = {}
      /\ Quiet(NoFlight)
  BY Idle DEF NoFlight, Quiet
<1>4. /\ f \in FlightType /\ Quiet(f) /\ f.batch = r.staged
      /\ f.phase \in {"none", "sync"} /\ (f.phase = "none" => f.batch = {})
  BY <1>2, <1>3 DEF FlightType, ReqType, Quiet
<1> HIDE DEF f
<1>5. BarrierInv' /\ DurableInv' /\ Settled' = Settled
  BY FlightOnly, <1>1, <1>4 DEF Publishing
<1>6. /\ req'[w] \in ReqType /\ req'[w].obj = r.obj /\ req'[w].pos = r.pos
      /\ req'[w].staged = {} /\ req'[w].last = r.last /\ req'[w].state = st
  BY <1>1, <1>2 DEF ReqType
<1>7. \A v \in Writers : v # w => req'[v] = req[v] /\ flight'[v] = flight[v]
  BY <1>1, <1>2
<1>8. flight'[w] = f
  BY <1>1, <1>2
<1>9. \A S : S = {} => IsFiniteSet(S) /\ Cardinality(S) = 0
  BY FS_EmptySet
<1>10. CasTypeOK'
  <2>1. req' \in [Writers -> ReqType] /\ flight' \in [Writers -> FlightType]
    BY <1>1, <1>2, <1>4, <1>6
  <2>2. Cardinality(req'[w].staged) <= BatchMax /\ Cardinality(flight'[w].batch) <= BatchMax
    BY <1>4, <1>6, <1>8, <1>9 DEF CasTypeOK
  <2>3. \A v \in Writers : Cardinality(req'[v].staged) <= BatchMax
                        /\ Cardinality(flight'[v].batch) <= BatchMax
    BY <2>2, <1>7 DEF CasTypeOK
  <2> QED BY <1>1, <2>1, <2>3 DEF CasTypeOK, files
<1>11. RequestInv'
  <2>1. flight[w].batch = {}
    BY <1>1 DEF BarrierInv
  <2> QED BY <2>1, <1>1, <1>4, <1>5, <1>6, <1>7, <1>8 DEF RequestInv
<1>12. BoundInv'
  <2>1. IsFiniteSet(flight'[w].batch) /\ IsFiniteSet(req'[w].staged)
        /\ Cardinality(req'[w].staged) < BatchMax
    BY <1>4, <1>6, <1>8, <1>9 DEF BoundInv
  <2> QED BY <2>1, <1>7 DEF BoundInv
<1>13. CommitInv'
  BY <1>1, <1>5 DEF CommitInv
<1> QED BY <1>5, <1>10, <1>11, <1>12, <1>13

\* A request that ends takes its joined flight with it.
LEMMA RequestEnds ==
  ASSUME IInv, NEW w \in Writers, flight[w].phase \in {"none", "done", "failed"},
         req' = [req EXCEPT ![w] = NoReq], flight' = [flight EXCEPT ![w] = NoFlight],
         UNCHANGED <<files, pubHolder>>, committed' \subseteq Objects
  PROVE  CasTypeOK' /\ BarrierInv' /\ DurableInv' /\ RequestInv' /\ BoundInv'
         /\ Settled' = Settled
<1> USE CASAssumption DEF IInv
<1>1. req \in [Writers -> ReqType] /\ flight \in [Writers -> FlightType]
  BY DEF CasTypeOK
<1>2. /\ NoFlight \in FlightType /\ NoFlight.phase = "none" /\ NoFlight.batch = {}
      /\ Quiet(NoFlight)
  BY Idle DEF NoFlight, Quiet
<1>3. /\ NoReq \in ReqType /\ NoReq.staged = {} /\ NoReq.pos = 1 /\ NoReq.last = FALSE
      /\ NoReq.state = "idle" /\ NoReq.obj = <<>>
  BY Idle DEF NoReq
<1>4. BarrierInv' /\ DurableInv' /\ Settled' = Settled
  BY FlightOnly, <1>2 DEF Publishing
<1>5. \A v \in Writers : /\ req'[v] = IF v = w THEN NoReq ELSE req[v]
                         /\ flight'[v] = IF v = w THEN NoFlight ELSE flight[v]
  BY <1>1
<1>6. \A S : S = {} => IsFiniteSet(S) /\ Cardinality(S) = 0
  BY FS_EmptySet
<1>7. /\ IsFiniteSet(NoReq.staged) /\ IsFiniteSet(NoFlight.batch)
      /\ Cardinality(NoReq.staged) <= BatchMax /\ Cardinality(NoFlight.batch) <= BatchMax
  BY <1>2, <1>3, <1>6
<1>8. CasTypeOK'
  <2>1. req' \in [Writers -> ReqType] /\ flight' \in [Writers -> FlightType]
    BY <1>1, <1>2, <1>3
  <2>2. \A v \in Writers : Cardinality(req'[v].staged) <= BatchMax
                        /\ Cardinality(flight'[v].batch) <= BatchMax
    BY <1>5, <1>7 DEF CasTypeOK
  <2> QED BY <2>1, <2>2 DEF CasTypeOK, files
<1>9. RequestInv'
  BY <1>3, <1>4, <1>5 DEF RequestInv
<1>10. BoundInv'
  BY <1>3, <1>5, <1>7 DEF BoundInv
<1> QED BY <1>4, <1>8, <1>9, <1>10

\* Commit keeps it.
LEMMA CommitStep ==
  ASSUME IInv, NEW w \in Writers, Commit(w)
  PROVE  IInv'
<1> USE CASAssumption DEF IInv
<1> DEFINE r == req[w]
<1>1. /\ r.state = "wait" /\ flight[w].phase \in {"none", "done"}
      /\ committed' = committed \cup {r.obj}
      /\ req' = [req EXCEPT ![w] = NoReq] /\ flight' = [flight EXCEPT ![w] = NoFlight]
      /\ UNCHANGED <<files, pubHolder>>
  BY DEF Commit
<1>2. r \in ReqType
  BY DEF CasTypeOK
<1>3. \A i \in DOMAIN r.obj : r.obj[i] \in Settled
  <2>1. flight[w].batch = {} /\ r.staged = {} /\ r.pos > Len(r.obj)
    BY <1>1 DEF BarrierInv, RequestInv
  <2>2. \A i \in DOMAIN r.obj : i < r.pos
    <3>1. r.obj \in Seq(Chunks) /\ r.pos \in Nat
      BY <1>1, <1>2 DEF ReqType, RequestInv
    <3>2. DOMAIN r.obj = 1 .. Len(r.obj) /\ Len(r.obj) \in Nat
      BY <3>1
    <3> QED BY <3>1, <3>2, <2>1
  <2> QED BY <1>1, <2>1, <2>2 DEF RequestInv
<1>4. r.obj \in Objects
  BY <1>1 DEF RequestInv
<1>5. committed' \subseteq Objects
  BY <1>1, <1>4 DEF CasTypeOK
<1>6. CasTypeOK' /\ BarrierInv' /\ DurableInv' /\ RequestInv' /\ BoundInv' /\ Settled' = Settled
  BY RequestEnds, <1>1, <1>5
<1>7. CommitInv'
  BY <1>1, <1>3, <1>6 DEF CommitInv
<1> QED BY <1>6, <1>7

\* Abort keeps it.
LEMMA AbortStep ==
  ASSUME IInv, NEW w \in Writers, Abort(w)
  PROVE  IInv'
<1> USE CASAssumption DEF IInv
<1>1. /\ flight[w].phase \in {"none", "done", "failed"}
      /\ req' = [req EXCEPT ![w] = NoReq] /\ flight' = [flight EXCEPT ![w] = NoFlight]
      /\ UNCHANGED <<files, pubHolder, committed>>
  BY DEF Abort
<1>2. CasTypeOK' /\ BarrierInv' /\ DurableInv' /\ RequestInv' /\ BoundInv' /\ Settled' = Settled
  BY RequestEnds, <1>1 DEF CasTypeOK
<1>3. CommitInv'
  BY <1>1, <1>2 DEF CommitInv
<1> QED BY <1>2, <1>3
-----------------------------------------------------------------------------
\* What every step of a flight alone has to show: its own record's type and
\* batch, and that the requests' chunks are still where they were.
LEMMA FlightStepInv ==
  ASSUME IInv, NEW w \in Writers, NEW f \in FlightType,
         flight' = [flight EXCEPT ![w] = f], UNCHANGED <<req, committed>>,
         f.batch \in {flight[w].batch, {}},
         present' \subseteq Chunks, dirs' \subseteq Shards, entryDurable' \subseteq Chunks,
         dirDurable' \subseteq Shards, dataDurable' \subseteq Chunks, corrupt' \subseteq Chunks,
         pubHolder' \in Writers \cup {Nobody},
         Settled \subseteq Settled',
         f.phase # "failed" =>
           flight[w].phase # "failed" /\ flight[w].batch \subseteq f.batch \cup Settled'
  PROVE  CasTypeOK' /\ RequestInv' /\ BoundInv' /\ CommitInv'
<1> USE CASAssumption DEF IInv
<1>1. flight \in [Writers -> FlightType]
  BY DEF CasTypeOK
<1>2. \A v \in Writers : flight'[v] = IF v = w THEN f ELSE flight[v]
  BY <1>1
<1>3. \A S : S = {} => IsFiniteSet(S) /\ Cardinality(S) = 0
  BY FS_EmptySet
<1>4. IsFiniteSet(f.batch) /\ Cardinality(f.batch) <= BatchMax
  BY <1>3 DEF BoundInv, CasTypeOK
<1>5. CasTypeOK'
  <2>1. flight' \in [Writers -> FlightType]
    BY <1>1
  <2>2. \A v \in Writers : Cardinality(req'[v].staged) <= BatchMax
                        /\ Cardinality(flight'[v].batch) <= BatchMax
    BY <1>2, <1>4 DEF CasTypeOK
  <2> QED BY <2>1, <2>2 DEF CasTypeOK
<1>6. RequestInv'
  BY <1>2 DEF RequestInv
<1>7. BoundInv'
  BY <1>2, <1>4 DEF BoundInv
<1>8. CommitInv'
  BY DEF CommitInv
<1> QED BY <1>5, <1>6, <1>7, <1>8

\* The fsync of a staged file keeps it.
LEMMA SyncStagedStep ==
  ASSUME IInv, NEW w \in Writers, SyncStaged(w) \/ SyncStagedFails(w)
  PROVE  IInv'
<1> USE CASAssumption DEF IInv
<1>0. flight[w] \in FlightType /\ flight[w].phase = "sync"
  BY DEF SyncStaged, SyncStagedFails, CasTypeOK
<1>1. CASE SyncStaged(w)
  <2> DEFINE f == [flight[w] EXCEPT !.phase = "lock", !.synced = TRUE]
  <2>1. flight' = [flight EXCEPT ![w] = f] /\ UNCHANGED <<files, pubHolder, req, committed>>
    BY <1>1 DEF SyncStaged, SetFlight
  <2>0. ~ Publishing(flight[w]) /\ Quiet(flight[w])
    BY <1>0 DEF Publishing, BarrierInv
  <2>2. /\ f \in FlightType /\ f.phase = "lock" /\ f.synced /\ Quiet(f)
        /\ f.batch = flight[w].batch
    BY <1>0, <2>0 DEF FlightType, Quiet
  <2> HIDE DEF f
  <2>4. BarrierInv' /\ DurableInv' /\ Settled' = Settled
    BY FlightOnly, <2>0, <2>1, <2>2 DEF Publishing
  <2>5. CasTypeOK' /\ RequestInv' /\ BoundInv' /\ CommitInv'
    BY FlightStepInv, <1>0, <2>1, <2>2, <2>4 DEF CasTypeOK, files
  <2> QED BY <2>4, <2>5
<1>2. CASE SyncStagedFails(w)
  <2> DEFINE f == [NoFlight EXCEPT !.phase = "failed"]
  <2>1. flight' = [flight EXCEPT ![w] = f] /\ UNCHANGED <<files, pubHolder, req, committed>>
    BY <1>2 DEF SyncStagedFails, SetFlight
  <2>2. NoFlight \in FlightType /\ Quiet(NoFlight) /\ NoFlight.batch = {}
    BY Idle DEF NoFlight, Quiet
  <2>3. f \in FlightType /\ f.phase = "failed" /\ Quiet(f) /\ f.batch = {}
    BY <2>2 DEF FlightType, Quiet
  <2> HIDE DEF f
  <2>4. BarrierInv' /\ DurableInv' /\ Settled' = Settled
    BY FlightOnly, <1>0, <2>1, <2>3 DEF Publishing
  <2>5. CasTypeOK' /\ RequestInv' /\ BoundInv' /\ CommitInv'
    BY FlightStepInv, <2>1, <2>3, <2>4 DEF CasTypeOK, files
  <2> QED BY <2>4, <2>5
<1> QED BY <1>1, <1>2

\* Taking the barrier keeps it.
LEMMA LockBarrierStep ==
  ASSUME IInv, NEW w \in Writers, LockBarrier(w)
  PROVE  IInv'
<1> USE CASAssumption DEF IInv
<1> DEFINE f == [flight[w] EXCEPT !.phase = "mkdir"]
<1>1. /\ flight[w].phase = "lock" /\ pubHolder = Nobody /\ pubHolder' = w
      /\ flight' = [flight EXCEPT ![w] = f] /\ UNCHANGED <<files, req, committed>>
  BY DEF LockBarrier, SetFlight
<1>2. flight \in [Writers -> FlightType] /\ Quiet(flight[w]) /\ flight[w].synced
  BY <1>1 DEF CasTypeOK, BarrierInv, Publishing
<1>3. f \in FlightType /\ f.phase = "mkdir" /\ Quiet(f) /\ f.batch = flight[w].batch /\ f.synced
  BY <1>2 DEF FlightType, Quiet
<1> HIDE DEF f
<1>4. \A v \in Writers : flight'[v] = IF v = w THEN f ELSE flight[v]
  BY <1>1, <1>2
<1>5. Settled' = Settled
  BY <1>1, <1>2, <1>3, <1>4 DEF Settled, Quiet, files
<1>6. BarrierInv'
  BY <1>1, <1>3, <1>4 DEF BarrierInv, Publishing
<1>7. DurableInv'
  <2>1. \A v \in Writers : pubHolder' = v => flight'[v] = f
    BY <1>1, <1>4
  <2>2. dirs \subseteq dirDurable
    BY <1>1 DEF DurableInv
  <2> QED BY <1>1, <1>3, <1>5, <2>1, <2>2 DEF DurableInv, Quiet, files, Nobody
<1>8. CasTypeOK' /\ RequestInv' /\ BoundInv' /\ CommitInv'
  BY FlightStepInv, <1>1, <1>3, <1>5 DEF CasTypeOK, files
<1> QED BY <1>6, <1>7, <1>8

\* A step inside the barrier: the holder stays the holder.
LEMMA BarrierHeld ==
  ASSUME IInv, NEW w \in Writers, NEW f \in FlightType,
         Publishing(flight[w]), Publishing(f), f.synced = flight[w].synced,
         flight' = [flight EXCEPT ![w] = f], UNCHANGED pubHolder
  PROVE  /\ BarrierInv'
         /\ pubHolder = w /\ flight[w].synced
         /\ \A v \in Writers : flight'[v] = IF v = w THEN f ELSE flight[v]
         /\ \A v \in Writers : v # w => flight[v].created = {}
         /\ Settled = present \ flight[w].created
         /\ Settled' = present' \ f.created
<1> USE CASAssumption DEF IInv
<1>1. flight \in [Writers -> FlightType]
  BY DEF CasTypeOK
<1>2. \A v \in Writers : flight'[v] = IF v = w THEN f ELSE flight[v]
  BY <1>1
<1>3. pubHolder = w /\ flight[w].synced
  BY DEF BarrierInv, Publishing
<1>4. \A v \in Writers : v # w => flight[v].created = {}
  BY <1>3 DEF BarrierInv, Quiet
<1>5. BarrierInv'
  BY <1>2, <1>3 DEF BarrierInv, Publishing
<1>6. Settled = present \ flight[w].created
  BY <1>4 DEF Settled
<1>7. Settled' = present' \ f.created
  BY <1>2, <1>4 DEF Settled
<1> QED BY <1>2, <1>3, <1>4, <1>5, <1>6, <1>7

\* DurableInv', from what it says of the holder.
LEMMA HolderDurable ==
  ASSUME NEW w \in Writers, pubHolder' = w, Nobody \notin Writers,
         (present \subseteq dataDurable)', (corrupt = {})', (dirDurable \subseteq dirs)',
         (Settled \subseteq entryDurable)',
         \A c \in Settled' : ShardOf[c] \in dirDurable',
         LET f == flight'[w] IN
         /\ f.created \subseteq present'
         /\ \A c \in f.created : c \in entryDurable' \/ ShardOf[c] \in f.unsynced
         /\ dirs' \subseteq dirDurable' \cup f.newDirs
         /\ f.phase \in {"mkdir", "parent"} => f.created = {}
         /\ f.phase = "mkdir" => f.newDirs = {}
         /\ f.phase = "rename" => /\ dirs' \subseteq dirDurable'
                                  /\ \A c \in f.batch : ShardOf[c] \in dirs'
                                  /\ f.batch \subseteq present' \cup f.left
         /\ f.phase = "parent" => /\ \A c \in f.batch : ShardOf[c] \in dirs'
                                  /\ f.newDirs \subseteq dirs'
         /\ f.left \subseteq f.batch /\ f.created \subseteq f.batch
         /\ f.phase = "parent" => f.left = f.batch
  PROVE  DurableInv'
BY DEF DurableInv

\* Making the shard directories keeps it.
LEMMA MakeShardDirsStep ==
  ASSUME IInv, NEW w \in Writers, MakeShardDirs(w)
  PROVE  IInv'
<1> USE CASAssumption DEF IInv
<1> DEFINE new == ShardsOf(flight[w].batch) \ dirs
           ph == IF new = {} THEN "rename" ELSE "parent"
           f == [flight[w] EXCEPT !.newDirs = new, !.left = flight[w].batch, !.phase = ph]
<1>1. /\ flight[w].phase = "mkdir" /\ dirs' = dirs \cup new
      /\ flight' = [flight EXCEPT ![w] = f]
      /\ UNCHANGED <<present, entryDurable, dirDurable, dataDurable, corrupt, pubHolder,
                     req, committed>>
  BY DEF MakeShardDirs, SetFlight
<1>2. flight[w] \in FlightType
  BY DEF CasTypeOK
<1>3. /\ new \subseteq Shards /\ dirs \cup new \subseteq Shards
      /\ \A c \in flight[w].batch : ShardOf[c] \in dirs \cup new
  BY <1>2 DEF ShardsOf, FlightType, CasTypeOK
<1> HIDE DEF new
<1>4. /\ f \in FlightType /\ f.phase = ph /\ f.newDirs = new /\ f.left = flight[w].batch
      /\ f.batch = flight[w].batch /\ f.created = flight[w].created
      /\ f.synced = flight[w].synced /\ f.unsynced = flight[w].unsynced
  BY <1>2, <1>3 DEF FlightType
<1> HIDE DEF f
<1>5. /\ BarrierInv' /\ pubHolder = w /\ flight'[w] = f
      /\ Settled = present \ flight[w].created /\ Settled' = present' \ f.created
  <2>1. Publishing(flight[w]) /\ Publishing(f)
    BY <1>1, <1>4 DEF Publishing
  <2>2. UNCHANGED pubHolder /\ flight' = [flight EXCEPT ![w] = f]
        /\ f \in FlightType /\ f.synced = flight[w].synced
    BY <1>1, <1>4
  <2>3. /\ BarrierInv' /\ pubHolder = w
        /\ \A v \in Writers : flight'[v] = IF v = w THEN f ELSE flight[v]
    BY BarrierHeld, <2>1, <2>2
  <2>4. Settled = present \ flight[w].created /\ Settled' = present' \ f.created
    BY BarrierHeld, <2>1, <2>2
  <2> QED BY <2>3, <2>4
<1>6. Settled' = Settled
  BY <1>1, <1>4, <1>5
<1>7. DurableInv'
  <2>1. /\ flight[w].created = {} /\ flight[w].newDirs = {} /\ dirs \subseteq dirDurable
    BY <1>1, <1>5 DEF DurableInv
  <2>2. present \subseteq dataDurable /\ corrupt = {} /\ Settled \subseteq entryDurable
        /\ dirDurable \subseteq dirs
        /\ \A c \in Settled : ShardOf[c] \in dirDurable
    BY DEF DurableInv
  <2> QED BY HolderDurable, <1>1, <1>3, <1>4, <1>5, <1>6, <2>1, <2>2
<1>8. CasTypeOK' /\ RequestInv' /\ BoundInv' /\ CommitInv'
  BY FlightStepInv, <1>1, <1>3, <1>4, <1>6 DEF CasTypeOK
<1> QED BY <1>5, <1>7, <1>8

\* The fsync of their parent keeps it.
LEMMA SyncParentStep ==
  ASSUME IInv, NEW w \in Writers, SyncParent(w)
  PROVE  IInv'
<1> USE CASAssumption DEF IInv
<1> DEFINE f == [flight[w] EXCEPT !.phase = "rename"]
<1>0. /\ flight[w].phase = "parent" /\ dirDurable' = dirDurable \cup flight[w].newDirs
      /\ flight' = [flight EXCEPT ![w] = f]
      /\ UNCHANGED <<present, dirs, entryDurable, dataDurable, corrupt, pubHolder,
                     req, committed>>
  BY DEF SyncParent, SetFlight
<1>3. pubHolder = w
  BY <1>0 DEF BarrierInv, Publishing
<1>1. /\ flight[w].phase = "parent" /\ dirDurable' = dirs
      /\ flight' = [flight EXCEPT ![w] = f]
      /\ UNCHANGED <<present, dirs, entryDurable, dataDurable, corrupt, pubHolder,
                     req, committed>>
  <2>1. /\ flight[w].newDirs \subseteq dirs /\ dirDurable \subseteq dirs
        /\ dirs \subseteq dirDurable \cup flight[w].newDirs
    BY <1>0, <1>3 DEF DurableInv
  <2> QED  BY <1>0, <2>1
<1>2. flight[w] \in FlightType
  BY DEF CasTypeOK
<1>4. /\ f \in FlightType /\ f.phase = "rename" /\ f.newDirs = flight[w].newDirs
      /\ f.left = flight[w].left /\ f.batch = flight[w].batch
      /\ f.created = flight[w].created
      /\ f.synced = flight[w].synced /\ f.unsynced = flight[w].unsynced
  BY <1>2 DEF FlightType
<1> HIDE DEF f
<1>5. /\ BarrierInv' /\ pubHolder = w /\ flight'[w] = f
      /\ Settled = present \ flight[w].created /\ Settled' = present' \ f.created
  <2>1. Publishing(flight[w]) /\ Publishing(f)
    BY <1>1, <1>4 DEF Publishing
  <2>2. UNCHANGED pubHolder /\ flight' = [flight EXCEPT ![w] = f]
        /\ f \in FlightType /\ f.synced = flight[w].synced
    BY <1>1, <1>4
  <2>3. /\ BarrierInv' /\ pubHolder = w
        /\ \A v \in Writers : flight'[v] = IF v = w THEN f ELSE flight[v]
    BY BarrierHeld, <2>1, <2>2
  <2>4. Settled = present \ flight[w].created /\ Settled' = present' \ f.created
    BY BarrierHeld, <2>1, <2>2
  <2> QED BY <2>3, <2>4
<1>6. Settled' = Settled
  BY <1>1, <1>4, <1>5
<1>7. DurableInv'
  BY HolderDurable, <1>1, <1>4, <1>5, <1>6 DEF DurableInv
<1>8. CasTypeOK' /\ RequestInv' /\ BoundInv' /\ CommitInv'
  BY FlightStepInv, <1>1, <1>4, <1>6 DEF CasTypeOK
<1> QED BY <1>5, <1>7, <1>8

\* The rename of a staged file keeps it.
LEMMA RenameStep ==
  ASSUME IInv, NEW w \in Writers, NEW c \in Chunks, Rename(w, c)
  PROVE  IInv'
<1> USE CASAssumption DEF IInv
<1> DEFINE g == flight[w]
           fresh == c \notin present
           add == IF fresh THEN {c} ELSE {}
           uns == IF fresh THEN g.unsynced \cup {ShardOf[c]} ELSE g.unsynced
           f == [g EXCEPT !.left = g.left \ {c}, !.created = g.created \cup add,
                          !.unsynced = uns]
<1>0. flight \in [Writers -> FlightType] /\ g \in FlightType
  BY DEF CasTypeOK
<1>a. g.synced
  BY DEF BarrierInv, Rename
<1>1. /\ g.phase = "rename" /\ c \in g.left
      /\ flight' = [flight EXCEPT ![w] = f]
      /\ present' = present \cup add
      /\ dataDurable' = dataDurable \cup add
      /\ UNCHANGED <<dirs, entryDurable, dirDurable, corrupt, pubHolder, req, committed>>
  <2>1. CASE fresh
    BY <2>1, <1>0, <1>a DEF Rename, SetFlight
  <2>2. CASE ~ fresh
    <3>1. [g EXCEPT !.left = g.left \ {c}] = f
      BY <2>2, <1>0 DEF FlightType
    <3> QED BY <2>2, <3>1, <1>0 DEF Rename, SetFlight
  <2> QED BY <2>1, <2>2
<1>3. add \subseteq Chunks /\ uns \subseteq Shards /\ g.unsynced \subseteq uns
      /\ (c \in add => ShardOf[c] \in uns)
  BY <1>0 DEF FlightType
<1>4. /\ f \in FlightType /\ f.phase = "rename" /\ f.newDirs = g.newDirs
      /\ f.left = g.left \ {c} /\ f.batch = g.batch
      /\ f.created = g.created \cup add
      /\ f.synced = flight[w].synced /\ f.unsynced = uns
  BY <1>0, <1>1, <1>3 DEF FlightType
<1> HIDE DEF f, uns
<1>5. /\ BarrierInv' /\ pubHolder = w /\ flight'[w] = f
      /\ Settled = present \ flight[w].created /\ Settled' = present' \ f.created
  <2>1. Publishing(flight[w]) /\ Publishing(f)
    BY <1>1, <1>4 DEF Publishing
  <2>2. UNCHANGED pubHolder /\ flight' = [flight EXCEPT ![w] = f]
        /\ f \in FlightType /\ f.synced = flight[w].synced
    BY <1>1, <1>4
  <2>3. /\ BarrierInv' /\ pubHolder = w
        /\ \A v \in Writers : flight'[v] = IF v = w THEN f ELSE flight[v]
    BY BarrierHeld, <2>1, <2>2
  <2>4. Settled = present \ flight[w].created /\ Settled' = present' \ f.created
    BY BarrierHeld, <2>1, <2>2
  <2> QED BY <2>3, <2>4
<1>6. Settled' = Settled
  BY <1>1, <1>4, <1>5
<1>7. DurableInv'
  <2>1. /\ present \subseteq dataDurable /\ corrupt = {} /\ dirDurable \subseteq dirs
        /\ Settled \subseteq entryDurable
        /\ \A d \in Settled : ShardOf[d] \in dirDurable
    BY DEF DurableInv
  <2>2. /\ g.created \subseteq present
        /\ \A d \in g.created : d \in entryDurable \/ ShardOf[d] \in g.unsynced
        /\ dirs \subseteq dirDurable
        /\ \A d \in g.batch : ShardOf[d] \in dirs
        /\ g.batch \subseteq present \cup g.left
        /\ g.left \subseteq g.batch /\ g.created \subseteq g.batch
    BY <1>1, <1>5 DEF DurableInv
  <2>3. c \in present'
    BY <1>1
  <2> QED BY HolderDurable, <1>1, <1>3, <1>4, <1>5, <1>6, <2>1, <2>2, <2>3
<1>8. CasTypeOK' /\ RequestInv' /\ BoundInv' /\ CommitInv'
  <2>1. present' \subseteq Chunks /\ dataDurable' \subseteq Chunks
    BY <1>1, <1>3 DEF CasTypeOK
  <2> QED BY FlightStepInv, <1>1, <1>4, <1>6, <2>1 DEF CasTypeOK
<1> QED BY <1>5, <1>7, <1>8

\* The fsync of a shard directory keeps it.
LEMMA SyncShardStep ==
  ASSUME IInv, NEW w \in Writers, NEW d \in Shards, SyncShard(w, d)
  PROVE  IInv'
<1> USE CASAssumption DEF IInv
<1> DEFINE g == flight[w]
           f == [g EXCEPT !.unsynced = g.unsynced \ {d}]
           now == {c \in present : ShardOf[c] = d}
<1>0. flight \in [Writers -> FlightType] /\ g \in FlightType
  BY DEF CasTypeOK
<1>1. /\ g.phase = "rename" /\ flight' = [flight EXCEPT ![w] = f]
      /\ entryDurable' = entryDurable \cup now
      /\ UNCHANGED <<present, dirs, dirDurable, dataDurable, corrupt, pubHolder, req, committed>>
  BY DEF SyncShard, SetFlight
<1>4. /\ f \in FlightType /\ f.phase = "rename" /\ f.newDirs = g.newDirs
      /\ f.left = g.left /\ f.batch = g.batch /\ f.created = g.created
      /\ f.synced = flight[w].synced /\ f.unsynced = g.unsynced \ {d}
  BY <1>0, <1>1 DEF FlightType
<1> HIDE DEF f
<1>5. /\ BarrierInv' /\ pubHolder = w /\ flight'[w] = f
      /\ Settled = present \ flight[w].created /\ Settled' = present' \ f.created
  <2>1. Publishing(flight[w]) /\ Publishing(f)
    BY <1>1, <1>4 DEF Publishing
  <2>2. UNCHANGED pubHolder /\ flight' = [flight EXCEPT ![w] = f]
        /\ f \in FlightType /\ f.synced = flight[w].synced
    BY <1>1, <1>4
  <2>3. /\ BarrierInv' /\ pubHolder = w
        /\ \A v \in Writers : flight'[v] = IF v = w THEN f ELSE flight[v]
    BY BarrierHeld, <2>1, <2>2
  <2>4. Settled = present \ flight[w].created /\ Settled' = present' \ f.created
    BY BarrierHeld, <2>1, <2>2
  <2> QED BY <2>3, <2>4
<1>6. Settled' = Settled
  BY <1>1, <1>4, <1>5
<1>7. DurableInv'
  <2>1. /\ g.created \subseteq present
        /\ \A c \in g.created : c \in entryDurable \/ ShardOf[c] \in g.unsynced
    BY <1>1, <1>5 DEF DurableInv
  <2>2. \A c \in g.created : c \in entryDurable' \/ ShardOf[c] \in f.unsynced
    BY <1>1, <1>4, <2>1
  <2> QED BY HolderDurable, <1>1, <1>4, <1>5, <1>6, <2>2 DEF DurableInv
<1>8. CasTypeOK' /\ RequestInv' /\ BoundInv' /\ CommitInv'
  <2>1. entryDurable' \subseteq Chunks
    BY <1>1 DEF CasTypeOK
  <2> QED BY FlightStepInv, <1>1, <1>4, <1>6, <2>1 DEF CasTypeOK
<1> QED BY <1>5, <1>7, <1>8

\* The barrier is released: the flight is over, and nobody publishes.
LEMMA BarrierEnds ==
  ASSUME IInv, NEW w \in Writers, NEW f \in FlightType, Publishing(flight[w]),
         f.phase \in {"done", "failed"}, Quiet(f), f.batch = {},
         flight' = [flight EXCEPT ![w] = f], pubHolder' = Nobody
  PROVE  /\ BarrierInv' /\ pubHolder = w
         /\ Settled = present \ flight[w].created
         /\ Settled' = present'
<1> USE CASAssumption DEF IInv
<1>1. flight \in [Writers -> FlightType]
  BY DEF CasTypeOK
<1>2. \A v \in Writers : flight'[v] = IF v = w THEN f ELSE flight[v]
  BY <1>1
<1>3. pubHolder = w
  BY DEF BarrierInv, Publishing
<1>4. \A v \in Writers : v # w => flight[v].created = {}
  BY <1>3 DEF BarrierInv, Quiet
<1>5. BarrierInv'
  BY <1>2, <1>3 DEF BarrierInv, Publishing
<1>6. Settled = present \ flight[w].created
  BY <1>4 DEF Settled
<1>7. Settled' = present'
  BY <1>2, <1>4 DEF Settled, Quiet
<1> QED BY <1>3, <1>5, <1>6, <1>7

\* The end of a publication keeps it.
LEMMA PublishDoneStep ==
  ASSUME IInv, NEW w \in Writers, PublishDone(w)
  PROVE  IInv'
<1> USE CASAssumption DEF IInv
<1> DEFINE g == flight[w]
           f == [NoFlight EXCEPT !.phase = "done"]
<1>1. /\ g.phase = "rename" /\ g.left = {} /\ g.unsynced = {} /\ pubHolder' = Nobody
      /\ flight' = [flight EXCEPT ![w] = f] /\ UNCHANGED <<files, req, committed>>
  BY DEF PublishDone, SetFlight, AllPublished, BarrierReleased
<1>2. NoFlight \in FlightType /\ Quiet(NoFlight) /\ NoFlight.batch = {}
  BY Idle DEF NoFlight, Quiet
<1>3. f \in FlightType /\ f.phase = "done" /\ Quiet(f) /\ f.batch = {}
  BY <1>2 DEF FlightType, Quiet
<1> HIDE DEF f
<1>4. BarrierInv' /\ pubHolder = w /\ Settled = present \ g.created /\ Settled' = present'
  <2>1. Publishing(flight[w]) /\ f.phase \in {"done", "failed"}
        /\ flight' = [flight EXCEPT ![w] = f] /\ pubHolder' = Nobody
    BY <1>1, <1>3 DEF Publishing
  <2> QED BY BarrierEnds, <2>1, <1>3
<1>5. /\ present \subseteq dataDurable /\ corrupt = {} /\ dirDurable \subseteq dirs
      /\ Settled \subseteq entryDurable /\ \A c \in Settled : ShardOf[c] \in dirDurable
  BY DEF DurableInv
<1>6. /\ g.created \subseteq entryDurable /\ dirs \subseteq dirDurable
      /\ \A c \in g.created : ShardOf[c] \in dirDurable
      /\ g.batch \subseteq present
  BY <1>1, <1>4 DEF DurableInv
<1>7. DurableInv'
  BY <1>1, <1>4, <1>5, <1>6 DEF DurableInv, files
<1>8. CasTypeOK' /\ RequestInv' /\ BoundInv' /\ CommitInv'
  <2>1. Settled \subseteq Settled' /\ g.batch \subseteq Settled'
    BY <1>1, <1>4, <1>6 DEF files
  <2> QED BY FlightStepInv, <1>1, <1>3, <2>1 DEF CasTypeOK, files
<1> QED BY <1>4, <1>7, <1>8

\* Undoing a publication removes only what it created: everything settled
\* stays, and with it the directories it lies in.
LEMMA PublishFailsStep ==
  ASSUME IInv, NEW w \in Writers, PublishFails(w)
  PROVE  IInv'
<1> USE CASAssumption DEF IInv
<1> DEFINE g == flight[w]
           f == [NoFlight EXCEPT !.phase = "failed"]
           kept == dirs \ (g.newDirs \ ShardsOf(RolledBack(w)))
<1>1. /\ Publishing(g) /\ present' = RolledBack(w)
      /\ entryDurable' = entryDurable \cap RolledBack(w)
      /\ dataDurable' = dataDurable \cap RolledBack(w)
      /\ dirs' = kept /\ dirDurable' = dirDurable \cap kept /\ pubHolder' = Nobody
      /\ flight' = [flight EXCEPT ![w] = f] /\ UNCHANGED <<corrupt, req, committed>>
  BY DEF PublishFails, SetFlight, BarrierReleased, Publishing
<1>2. NoFlight \in FlightType /\ Quiet(NoFlight) /\ NoFlight.batch = {}
  BY Idle DEF NoFlight, Quiet
<1>3. f \in FlightType /\ f.phase = "failed" /\ Quiet(f) /\ f.batch = {}
  BY <1>2 DEF FlightType, Quiet
<1> HIDE DEF f
<1>4. BarrierInv' /\ pubHolder = w /\ Settled = present \ g.created /\ Settled' = present'
  <2>1. flight' = [flight EXCEPT ![w] = f] /\ pubHolder' = Nobody
    BY <1>1
  <2> QED BY BarrierEnds, <2>1, <1>1, <1>3
<1>5. /\ present \subseteq dataDurable /\ corrupt = {} /\ dirDurable \subseteq dirs
      /\ Settled \subseteq entryDurable /\ \A c \in Settled : ShardOf[c] \in dirDurable
  BY DEF DurableInv
<1>6. Settled' = Settled /\ RolledBack(w) = Settled
  BY <1>1, <1>4 DEF RolledBack
<1>7. /\ kept \subseteq dirDurable /\ \A c \in Settled : ShardOf[c] \in kept
  <2>1. dirs \subseteq dirDurable \cup g.newDirs
    BY <1>4 DEF DurableInv
  <2> QED BY <1>5, <1>6, <2>1 DEF ShardsOf
<1>8. DurableInv'
  <2> HIDE DEF kept
  <2> QED BY <1>1, <1>4, <1>5, <1>6, <1>7 DEF DurableInv
<1>9. CasTypeOK' /\ RequestInv' /\ BoundInv' /\ CommitInv'
  <2>1. /\ present' \subseteq Chunks /\ dirs' \subseteq Shards /\ entryDurable' \subseteq Chunks
        /\ dirDurable' \subseteq Shards /\ dataDurable' \subseteq Chunks
    BY <1>1 DEF CasTypeOK, RolledBack
  <2> QED BY FlightStepInv, <1>1, <1>3, <1>6, <2>1 DEF CasTypeOK
<1> QED BY <1>4, <1>8, <1>9

\* A power failure keeps what was settled, and nothing else was relied on.
LEMMA PowerFailStep ==
  ASSUME IInv, CasPowerFail
  PROVE  IInv'
<1> USE CASAssumption DEF IInv
<1>1. PICK ds \in SUBSET dirs, cs \in SUBSET present :
        /\ dirDurable \subseteq ds /\ dirs' = ds /\ dirDurable' = ds
        /\ entryDurable \subseteq cs
        /\ present' = {c \in cs : ShardOf[c] \in ds} /\ entryDurable' = present'
        /\ corrupt' = (corrupt \cup (present' \ dataDurable)) \cap present'
        /\ dataDurable' = present'
  BY DEF CasPowerFail
<1>2. /\ pubHolder' = Nobody /\ req' = [w \in Writers |-> NoReq]
      /\ flight' = [w \in Writers |-> NoFlight] /\ committed' = committed
  BY DEF CasPowerFail, CasProcessGone
<1>3. NoFlight \in FlightType /\ Quiet(NoFlight) /\ NoFlight.batch = {} /\ NoFlight.phase = "none"
  BY Idle DEF NoFlight, Quiet
<1>4. /\ NoReq \in ReqType /\ NoReq.staged = {} /\ NoReq.pos = 1 /\ NoReq.last = FALSE
      /\ NoReq.state = "idle" /\ NoReq.obj = <<>>
  BY Idle DEF NoReq
<1>5. \A w \in Writers : req'[w] = NoReq /\ flight'[w] = NoFlight
  BY <1>2
<1>6. /\ present \subseteq dataDurable /\ corrupt = {} /\ Settled \subseteq entryDurable
      /\ \A c \in Settled : ShardOf[c] \in dirDurable
  BY DEF DurableInv
<1>7. Settled' = present' /\ Settled \subseteq present' /\ corrupt' = {}
  BY <1>1, <1>3, <1>5, <1>6 DEF Settled, Quiet
<1>8. \A S : S = {} => IsFiniteSet(S) /\ Cardinality(S) = 0
  BY FS_EmptySet
<1>9. /\ IsFiniteSet(NoReq.staged) /\ IsFiniteSet(NoFlight.batch)
      /\ Cardinality(NoReq.staged) <= BatchMax /\ Cardinality(NoFlight.batch) <= BatchMax
  BY <1>3, <1>4, <1>8
<1>10. CasTypeOK'
  <2>1. req' \in [Writers -> ReqType] /\ flight' \in [Writers -> FlightType]
    BY <1>2, <1>3, <1>4
  <2>2. /\ present' \subseteq Chunks /\ dirs' \subseteq Shards
    BY <1>1 DEF CasTypeOK
  <2>3. \A w \in Writers : Cardinality(req'[w].staged) <= BatchMax
                        /\ Cardinality(flight'[w].batch) <= BatchMax
    BY <1>5, <1>9
  <2> QED BY <1>1, <1>2, <1>7, <2>1, <2>2, <2>3 DEF CasTypeOK
<1>11. BarrierInv'
  BY <1>2, <1>3, <1>5 DEF BarrierInv, Publishing
<1>12. DurableInv'
  BY <1>1, <1>2, <1>7 DEF DurableInv
<1>13. RequestInv'
  BY <1>4, <1>5 DEF RequestInv
<1>14. BoundInv'
  BY <1>4, <1>5, <1>9 DEF BoundInv
<1>15. CommitInv'
  BY <1>2, <1>7 DEF CommitInv
<1> QED BY <1>10, <1>11, <1>12, <1>13, <1>14, <1>15

\* A kill or power failure keeps it.
LEMMA KillStep ==
  ASSUME "killPublishing" \notin Failures, IInv, CasKill
  PROVE  IInv'
<1> USE CASAssumption DEF IInv
<1>1. pubHolder = Nobody /\ UNCHANGED files
  BY DEF CasKill
<1>2. /\ pubHolder' = Nobody /\ req' = [w \in Writers |-> NoReq]
      /\ flight' = [w \in Writers |-> NoFlight] /\ committed' = committed
  BY DEF CasKill, CasProcessGone
<1>3. NoFlight \in FlightType /\ Quiet(NoFlight) /\ NoFlight.batch = {} /\ NoFlight.phase = "none"
  BY Idle DEF NoFlight, Quiet
<1>4. /\ NoReq \in ReqType /\ NoReq.staged = {} /\ NoReq.pos = 1 /\ NoReq.last = FALSE
      /\ NoReq.state = "idle" /\ NoReq.obj = <<>>
  BY Idle DEF NoReq
<1>5. \A w \in Writers : req'[w] = NoReq /\ flight'[w] = NoFlight
  BY <1>2
<1>6. Settled = present
  BY <1>1 DEF BarrierInv, Settled, Quiet
<1>7. Settled' = Settled /\ present' = present
  BY <1>1, <1>3, <1>5, <1>6 DEF Settled, Quiet, files
<1>8. \A S : S = {} => IsFiniteSet(S) /\ Cardinality(S) = 0
  BY FS_EmptySet
<1>9. /\ IsFiniteSet(NoReq.staged) /\ IsFiniteSet(NoFlight.batch)
      /\ Cardinality(NoReq.staged) <= BatchMax /\ Cardinality(NoFlight.batch) <= BatchMax
  BY <1>3, <1>4, <1>8
<1>10. CasTypeOK'
  <2>1. req' \in [Writers -> ReqType] /\ flight' \in [Writers -> FlightType]
    BY <1>2, <1>3, <1>4
  <2>2. \A w \in Writers : Cardinality(req'[w].staged) <= BatchMax
                        /\ Cardinality(flight'[w].batch) <= BatchMax
    BY <1>5, <1>9
  <2> QED BY <1>1, <1>2, <2>1, <2>2 DEF CasTypeOK, files
<1>11. BarrierInv'
  BY <1>2, <1>3, <1>5 DEF BarrierInv, Publishing
<1>12. DurableInv'
  BY <1>1, <1>2, <1>6, <1>7 DEF DurableInv, files
<1>13. RequestInv'
  BY <1>4, <1>5 DEF RequestInv
<1>14. BoundInv'
  BY <1>4, <1>5, <1>9 DEF BoundInv
<1>15. CommitInv'
  BY <1>2, <1>7 DEF CommitInv
<1> QED BY <1>10, <1>11, <1>12, <1>13, <1>14, <1>15
-----------------------------------------------------------------------------
\* Every step keeps the invariant.
LEMMA LooseInductive ==
  ASSUME "killPublishing" \notin Failures, IInv, [CasNext]_casVars
  PROVE  IInv'
<1>1. CASE UNCHANGED casVars
  BY <1>1 DEF IInv, casVars, files, CasTypeOK, BarrierInv, DurableInv, RequestInv, BoundInv,
              CommitInv, Settled
<1>2. CASE CasPowerFail
  BY <1>2, PowerFailStep
<1>3. CASE CasKill
  BY <1>3, KillStep
<1>4. ASSUME NEW w \in Writers, NEW obj \in Objects, Begin(w, obj) PROVE IInv'
  BY <1>4, BeginStep
<1>5. ASSUME NEW w \in Writers, RequestStep(w) PROVE IInv'
  BY <1>5, AddStep, AddFailsStep, FlushStep, StartFlushStep, CommitStep, AbortStep
     DEF RequestStep
<1>6. ASSUME NEW w \in Writers, FlightStep(w) PROVE IInv'
  BY <1>6, SyncStagedStep, LockBarrierStep, MakeShardDirsStep, SyncParentStep, RenameStep,
     SyncShardStep, PublishDoneStep, PublishFailsStep
     DEF FlightStep
<1> QED BY <1>1, <1>2, <1>3, <1>4, <1>5, <1>6 DEF CasNext

\* casBatch keeps its types, and never more than two batches of staged files,
\* however many requests run.
THEOREM LooseTypes == ASSUME "killPublishing" \notin Failures PROVE CasSpec => []CasTypeOK
<1>1. IInv => CasTypeOK
  BY DEF IInv
<1> QED BY LooseInit, LooseInductive, <1>1, PTL DEF CasSpec

\* The publication barrier of casPublish does what its comment says: when it is
\* free, every visible chunk is crash-durable, entry, directory and bytes.
THEOREM LooseVisibleDurable == ASSUME "killPublishing" \notin Failures PROVE CasSpec => []VisibleIsDurable
<1>1. IInv => VisibleIsDurable
  <2> SUFFICES ASSUME IInv, pubHolder = Nobody
               PROVE  present \subseteq entryDurable \cap dataDurable
                      /\ ShardsOf(present) \subseteq dirDurable
    BY DEF VisibleIsDurable
  <2>1. Settled = present
    BY CASAssumption DEF IInv, BarrierInv, Settled, Quiet
  <2> QED BY <2>1 DEF IInv, DurableInv, ShardsOf
<1> QED BY LooseInit, LooseInductive, <1>1, PTL DEF CasSpec

\* An acknowledged object keeps every chunk, intact, whatever publications fail
\* and whenever the power does.
THEOREM LooseCommitted == ASSUME "killPublishing" \notin Failures PROVE CasSpec => []CommittedChunksIntact
<1>1. IInv => CommittedChunksIntact
  BY DEF IInv, CommitInv, DurableInv, Settled, CommittedChunksIntact
<1> QED BY LooseInit, LooseInductive, <1>1, PTL DEF CasSpec
=============================================================================
