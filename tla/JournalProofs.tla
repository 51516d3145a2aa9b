---------------------------- MODULE JournalProofs ----------------------------
(***************************************************************************)
(* The journal's safety properties for any set of mutations and any bound  *)
(* on the file, and that it implements CommitLog.                          *)
(*                                                                         *)
(* None of the properties is inductive alone.  JInv adds where the append  *)
(* cursor stands in each phase of an append (one frame behind the file     *)
(* while a frame waits for its sync, level with the synced frames once it  *)
(* waits to be applied, at most one behind when poisoned) and that the     *)
(* frames are numbered by their positions.                                 *)
(***************************************************************************)
EXTENDS Journal, SequenceTheorems, TLAPS

Idle == pend = NoPend
NApplied == IF pend.phase = "apply" THEN writeOffset - 1 ELSE writeOffset

CursorInv ==
  /\ status # "up" => Idle
  /\ status = "up" =>
       /\ nextSeq = writeOffset + 1
       /\ tail # "garbled"
       /\ Idle /\ ~poisoned => writeOffset = Len(frames) /\ tail = "none"
       /\ pend.phase = "sync" =>
            /\ ~poisoned /\ tail = "none"
            /\ Len(frames) = writeOffset + 1 /\ frames[Len(frames)].op = pend.op
       /\ pend.phase = "apply" =>
            /\ ~poisoned /\ tail = "none" /\ writeOffset = Len(frames)
            /\ durable = Len(frames) /\ Len(frames) # 0
            /\ frames[Len(frames)].op = pend.op
       /\ poisoned => /\ writeOffset <= Len(frames)
                      /\ Len(frames) <= writeOffset + 1

MemInv == status = "up" =>
  Len(mem) = NApplied /\ \A i \in 1 .. Len(mem) : mem[i] = frames[i].op

Numbered == \A i \in 1 .. Len(frames) : frames[i].seq = i

JInv == /\ JournalTypeOK /\ durable <= Len(frames)
        /\ Numbered /\ CursorInv /\ MemInv /\ AckedFramesDurable

\* What a frame sequence looks like after WriteAt at the cursor.
LEMMA WrittenFacts ==
  ASSUME JournalTypeOK, writeOffset = Len(frames), NEW op \in Ops
  PROVE  /\ Written(op) \in Seq(FrameType)
         /\ Len(Written(op)) = Len(frames) + 1
         /\ \A i \in 1 .. Len(frames) : Written(op)[i] = frames[i]
         /\ Written(op)[Len(frames) + 1] = [seq |-> nextSeq, op |-> op]
<1>1. SubSeq(frames, 1, writeOffset) = frames
  BY DEF JournalTypeOK
<1>2. [seq |-> nextSeq, op |-> op] \in FrameType
  BY DEF JournalTypeOK, FrameType
<1> QED BY <1>1, <1>2 DEF Written, JournalTypeOK

\* The initial states satisfy the inductive invariant.
LEMMA JInit == JournalInit => JInv
<1> SUFFICES ASSUME JournalInit PROVE JInv
  OBVIOUS
<1>1. Len(frames) = 0 /\ Len(mem) = 0 /\ pend.phase = "idle"
  BY DEF JournalInit, NoPend
<1>2. JournalTypeOK
  <2>1. <<>> \in Seq(FrameType) /\ <<>> \in Seq(Ops)
    OBVIOUS
  <2>2. poisoned \in BOOLEAN
    BY DEF JournalInit
  <2> QED BY <2>1, <2>2 DEF JournalInit, JournalTypeOK
<1>3. durable <= Len(frames) /\ Numbered /\ AckedFramesDurable
  BY <1>1 DEF JournalInit, Numbered, AckedFramesDurable
<1>4. CursorInv
  BY <1>1 DEF JournalInit, CursorInv, Idle
<1>5. MemInv
  BY <1>1 DEF JournalInit, MemInv, NApplied
<1> QED BY <1>2, <1>3, <1>4, <1>5 DEF JInv

\* Writing a frame, successfully or not, preserves the invariant.
LEMMA JWrite ==
  ASSUME JInv, NEW op \in Ops, AppendWrite(op) \/ AppendWriteFails(op)
  PROVE  JInv'
<1>1. writeOffset = Len(frames) /\ tail = "none" /\ status = "up" /\ Idle
  BY DEF JInv, CursorInv, AppendWrite, AppendWriteFails, CanAppend, Idle
<1>2. /\ Written(op) \in Seq(FrameType) /\ Len(Written(op)) = Len(frames) + 1
      /\ \A i \in 1 .. Len(frames) : Written(op)[i] = frames[i]
      /\ Written(op)[Len(frames) + 1] = [seq |-> nextSeq, op |-> op]
  BY <1>1, WrittenFacts DEF JInv
<1>3. nextSeq = Len(frames) + 1 /\ Len(frames) \in Nat /\ durable \in Nat
  BY <1>1 DEF JInv, CursorInv, JournalTypeOK
<1>4. CASE AppendWrite(op)
  <2>1. frames' = Written(op) /\ tail' = "none" /\ pend' = [phase |-> "sync", op |-> op]
    BY <1>1, <1>4 DEF AppendWrite, TailAfterWrite
  <2>2. JournalTypeOK'
    BY <1>2, <1>4, <2>1 DEF JInv, JournalTypeOK, AppendWrite, Pending, cursor, ackVars
  <2>3. durable' <= Len(frames') /\ Numbered' /\ AckedFramesDurable'
    BY <1>2, <1>3, <1>4, <2>1
    DEF JInv, Numbered, AckedFramesDurable, AppendWrite, ackVars
  <2>4. CursorInv'
    BY <1>1, <1>2, <1>3, <1>4, <2>1
    DEF JInv, CursorInv, AppendWrite, Idle, NoPend, cursor, CanAppend
  <2>5. MemInv'
    BY <1>1, <1>2, <1>3, <1>4, <2>1
    DEF JInv, MemInv, AppendWrite, NApplied, Idle, NoPend, cursor, JournalTypeOK
  <2> QED BY <2>2, <2>3, <2>4, <2>5 DEF JInv
<1>5. CASE AppendWriteFails(op)
  <2>1. \/ frames' = frames /\ tail' \in {"none", "torn"}
        \/ frames' = Written(op) /\ tail' = "none"
    BY <1>5 DEF AppendWriteFails
  <2>2. JournalTypeOK'
    BY <1>2, <1>5, <2>1 DEF JInv, JournalTypeOK, AppendWriteFails, ackVars
  <2>3. durable' <= Len(frames') /\ Numbered' /\ AckedFramesDurable'
    BY <1>2, <1>3, <1>5, <2>1
    DEF JInv, Numbered, AckedFramesDurable, AppendWriteFails, ackVars
  <2>4. CursorInv'
    BY <1>1, <1>2, <1>3, <1>5, <2>1
    DEF JInv, CursorInv, AppendWriteFails, Idle, NoPend
  <2>5. MemInv'
    BY <1>1, <1>2, <1>3, <1>5, <2>1
    DEF JInv, MemInv, AppendWriteFails, NApplied, Idle, NoPend, JournalTypeOK
  <2> QED BY <2>2, <2>3, <2>4, <2>5 DEF JInv
<1> QED BY <1>4, <1>5

\* The sync, its failure, and the acknowledgements preserve the invariant.
LEMMA JSync ==
  ASSUME JInv,
         AppendSync \/ AppendSyncFails \/ ApplyAndAck \/ \E op \in Ops : AckVisible(op)
  PROVE  JInv'
<1>0. Len(frames) \in Nat /\ durable \in Nat /\ writeOffset \in Nat
  BY DEF JInv, JournalTypeOK
<1>p. ASSUME pend.phase \in {"sync", "apply"} PROVE pend \in Pending
  BY <1>p DEF JInv, JournalTypeOK, NoPend
<1>1. CASE AppendSync
  <2>0. pend \in Pending /\ pend' \in Pending /\ pend'.phase = "apply" /\ pend'.op = pend.op
    BY <1>1, <1>p DEF AppendSync, Pending
  <2>1. JournalTypeOK'
    BY <1>1, <1>0, <2>0 DEF JInv, JournalTypeOK, AppendSync, ackVars
  <2>2. durable' <= Len(frames') /\ Numbered' /\ AckedFramesDurable'
    BY <1>1, <1>0 DEF JInv, Numbered, AckedFramesDurable, AppendSync, ackVars
  <2>3. CursorInv'
    BY <1>1, <1>0, <2>0 DEF JInv, JournalTypeOK, CursorInv, AppendSync, Idle, NoPend
  <2>4. MemInv'
    BY <1>1, <1>0, <2>0 DEF JInv, MemInv, NApplied, AppendSync
  <2> QED BY <2>1, <2>2, <2>3, <2>4 DEF JInv
<1>2. CASE AppendSyncFails
  <2>1. JournalTypeOK' /\ durable' <= Len(frames') /\ Numbered' /\ AckedFramesDurable'
    BY <1>2 DEF JInv, JournalTypeOK, Numbered, AckedFramesDurable, AppendSyncFails, ackVars
  <2>2. CursorInv'
    BY <1>2, <1>0 DEF JInv, CursorInv, AppendSyncFails, Idle, NoPend
  <2>3. MemInv'
    BY <1>2, <1>0 DEF JInv, MemInv, NApplied, AppendSyncFails, NoPend
  <2> QED BY <2>1, <2>2, <2>3 DEF JInv
<1>3. CASE ApplyAndAck
  <2>0. pend \in Pending /\ pend.op \in Ops /\ Len(mem) = Len(frames) - 1
    BY <1>3, <1>p, <1>0 DEF ApplyAndAck, Pending, JInv, MemInv, NApplied, CursorInv
  <2>1. JournalTypeOK'
    BY <1>3, <2>0 DEF JInv, JournalTypeOK, ApplyAndAck, cursor
  <2>2. durable' <= Len(frames') /\ Numbered'
    BY <1>3 DEF JInv, Numbered, ApplyAndAck
  <2>3. AckedFramesDurable'
    <3>1. durable = Len(frames) /\ Len(frames) # 0 /\ frames[Len(frames)].op = pend.op
      BY <1>3 DEF JInv, CursorInv, ApplyAndAck
    <3> QED BY <1>3, <1>0, <3>1 DEF JInv, AckedFramesDurable, ApplyAndAck
  <2>4. CursorInv'
    BY <1>3, <1>0 DEF JInv, CursorInv, ApplyAndAck, Idle, NoPend, cursor
  <2>5. MemInv'
    <3>1. mem' = Append(mem, pend.op) /\ mem \in Seq(Ops) /\ frames' = frames /\ writeOffset' = writeOffset
      BY <1>3 DEF ApplyAndAck, JInv, JournalTypeOK, cursor
    <3>2. Len(mem') = Len(frames) /\ mem'[Len(frames)] = pend.op
          /\ \A i \in 1 .. Len(mem) : mem'[i] = mem[i]
      BY <2>0, <3>1, <1>0
    <3>3. writeOffset = Len(frames) /\ frames[Len(frames)].op = pend.op /\ pend'.phase = "idle"
      BY <1>3 DEF JInv, CursorInv, ApplyAndAck, NoPend
    <3>4. \A i \in 1 .. Len(mem) : mem[i] = frames[i].op
      BY <1>3 DEF JInv, MemInv, ApplyAndAck
    <3> QED BY <2>0, <3>1, <3>2, <3>3, <3>4, <1>0 DEF MemInv, NApplied
  <2> QED BY <2>1, <2>2, <2>3, <2>4, <2>5 DEF JInv
<1>4. CASE \E op \in Ops : AckVisible(op)
  BY <1>4 DEF AckVisible, JInv, JournalTypeOK, Numbered, CursorInv, MemInv, NApplied,
              AckedFramesDurable, Idle, NoPend, cursor
<1> QED BY <1>1, <1>2, <1>3, <1>4

\* Failures and reopening preserve the invariant.
LEMMA JFail == ASSUME JInv, JournalKill \/ PowerFail \/ Reopen PROVE JInv'
<1>0. Len(frames) \in Nat /\ durable \in Nat /\ frames \in Seq(FrameType)
  BY DEF JInv, JournalTypeOK
<1>1. CASE JournalKill
  BY <1>1 DEF JournalKill, ProcessGone, JInv, JournalTypeOK, Numbered, CursorInv, MemInv,
              NApplied, AckedFramesDurable, Idle, NoPend, cursor, ackVars
<1>2. CASE PowerFail
  <2>1. PICK n \in durable .. Len(frames) :
          /\ frames' = SubSeq(frames, 1, n) /\ durable' = n
          /\ tail' \in {"none"} \cup (IF n < Len(frames) THEN {"torn", "garbled"} ELSE {tail})
    BY <1>2 DEF PowerFail
  <2>2. /\ frames' \in Seq(FrameType) /\ Len(frames') = n
        /\ \A i \in 1 .. n : frames'[i] = frames[i]
    BY <1>0, <2>1
  <2>3. JournalTypeOK'
    BY <1>2, <1>0, <2>1, <2>2 DEF JInv, JournalTypeOK, PowerFail, ProcessGone, NoPend, cursor, ackVars
  <2>4. durable' <= Len(frames') /\ Numbered' /\ AckedFramesDurable'
    BY <1>2, <1>0, <2>1, <2>2
    DEF JInv, Numbered, AckedFramesDurable, PowerFail, ProcessGone, ackVars
  <2>5. CursorInv' /\ MemInv'
    BY <1>2 DEF PowerFail, ProcessGone, CursorInv, MemInv, Idle
  <2> QED BY <2>3, <2>4, <2>5 DEF JInv
<1>3. CASE Reopen
  <2>1. pend = NoPend /\ pend' = NoPend
    BY <1>3 DEF Reopen, JInv, CursorInv, Idle
  <2>2. OpsOf(frames) \in Seq(Ops) /\ Len(OpsOf(frames)) = Len(frames)
        /\ \A i \in 1 .. Len(frames) : OpsOf(frames)[i] = frames[i].op
    <3>1. \A i \in 1 .. Len(frames) : frames[i] \in FrameType
      BY <1>0
    <3> QED BY <3>1, <1>0 DEF OpsOf, FrameType
  <2>3. JournalTypeOK'
    <3>1. poisoned' \in BOOLEAN
      BY <1>3 DEF Reopen, JInv, JournalTypeOK, cursor
    <3>2. mem' \in Seq(Ops) /\ writeOffset' \in Nat /\ nextSeq' \in Nat \ {0}
      BY <1>3, <1>0, <2>2 DEF Reopen, JInv, JournalTypeOK, cursor
    <3>3. /\ tail' \in {"none", "torn", "garbled"}
          /\ status' \in {"up", "down", "refused"}
      BY <1>3 DEF Reopen, JInv, JournalTypeOK
    <3> QED BY <1>3, <3>1, <3>2, <3>3 DEF Reopen, JInv, JournalTypeOK, ackVars
  <2>4. durable' <= Len(frames') /\ Numbered' /\ AckedFramesDurable'
    BY <1>3 DEF Reopen, JInv, Numbered, AckedFramesDurable, ackVars
  <2>5. CursorInv' /\ MemInv'
    BY <1>3, <1>0, <2>1, <2>2
    DEF Reopen, CursorInv, MemInv, NApplied, Idle, NoPend
  <2> QED BY <2>3, <2>4, <2>5 DEF JInv
<1> QED BY <1>1, <1>2, <1>3

\* The invariant holds in every reachable state.
LEMMA JInvariance == JournalSpec => []JInv
<1>1. JInv /\ [JournalNext]_journalVars => JInv'
  <2>1. CASE JournalNext
    BY <2>1, JWrite, JSync, JFail DEF JournalNext
  <2>2. CASE UNCHANGED journalVars
    BY <2>2 DEF journalVars, JInv, JournalTypeOK, Numbered, CursorInv, MemInv, NApplied,
                AckedFramesDurable, Idle, NoPend
  <2> QED BY <2>1, <2>2
<1> QED BY <1>1, JInit, PTL DEF JournalSpec

\* Every variable of the journal keeps its type.
THEOREM JournalTypes == JournalSpec => []JournalTypeOK
BY JInvariance, PTL DEF JInv

\* A mutation acknowledged after its own frame was synced is never lost.
THEOREM JournalAckedDurable == JournalSpec => []AckedFramesDurable
BY JInvariance, PTL DEF JInv

\* A killed process can always be restarted: replay accepts the file; after a
\* power failure it may refuse, but only over bytes behind the last frame.
THEOREM JournalRestarts == JournalSpec => []OnlyPowerLossRefuses
<1>1. JInv => OnlyPowerLossRefuses
  BY DEF JInv, OnlyPowerLossRefuses, ReplayAccepts, CursorInv, Numbered
<1> QED BY <1>1, JInvariance, PTL

\* What OpsOf returns for a sequence of frames.
LEMMA OpsOfFacts ==
  ASSUME NEW fs \in Seq(FrameType)
  PROVE  /\ OpsOf(fs) \in Seq(Ops) /\ Len(OpsOf(fs)) = Len(fs)
         /\ \A i \in 1 .. Len(fs) : OpsOf(fs)[i] = fs[i].op
<1>1. \A i \in 1 .. Len(fs) : fs[i] \in FrameType
  OBVIOUS
<1> QED BY <1>1 DEF OpsOf, FrameType

\* While the process is up its memory is the replay of its own journal.
THEOREM JournalMemoryIsReplay == JournalSpec => []MemoryIsReplay
<1>1. ASSUME JInv, status = "up"
      PROVE  mem = SubSeq(OpsOf(frames), 1, NApplied)
  <2>1. /\ frames \in Seq(FrameType) /\ mem \in Seq(Ops) /\ Len(frames) \in Nat
        /\ writeOffset \in Nat
    BY <1>1 DEF JInv, JournalTypeOK
  <2>2. /\ OpsOf(frames) \in Seq(Ops) /\ Len(OpsOf(frames)) = Len(frames)
        /\ \A i \in 1 .. Len(frames) : OpsOf(frames)[i] = frames[i].op
    BY <2>1, OpsOfFacts
  <2>3. pend.phase \in {"sync", "apply"} \/ Idle
    BY <1>1 DEF JInv, JournalTypeOK, Pending, Idle
  <2>4. NApplied \in Nat /\ NApplied <= Len(frames)
    BY <1>1, <2>1, <2>3 DEF JInv, CursorInv, NApplied, Idle, NoPend, JournalTypeOK
  <2>5. /\ Len(mem) = NApplied
        /\ \A i \in 1 .. NApplied : mem[i] = OpsOf(frames)[i]
    BY <1>1, <2>2, <2>4 DEF JInv, MemInv
  <2>6. /\ SubSeq(OpsOf(frames), 1, NApplied) \in Seq(Ops)
        /\ Len(SubSeq(OpsOf(frames), 1, NApplied)) = NApplied
        /\ \A i \in 1 .. NApplied :
             SubSeq(OpsOf(frames), 1, NApplied)[i] = OpsOf(frames)[i]
    BY <2>2, <2>4
  <2> QED BY <2>1, <2>5, <2>6, SeqEqual
<1>2. JInv => MemoryIsReplay
  BY <1>1 DEF MemoryIsReplay, NApplied
<1> QED BY <1>2, JInvariance, PTL

\* Writing a frame at the cursor commits its mutation to the log.
LEMMA WrittenCommits ==
  ASSUME JournalTypeOK, writeOffset = Len(frames), NEW op \in Ops
  PROVE  OpsOf(Written(op)) = Append(OpsOf(frames), op)
<1>1. /\ Written(op) \in Seq(FrameType) /\ Len(Written(op)) = Len(frames) + 1
      /\ \A i \in 1 .. Len(frames) : Written(op)[i] = frames[i]
      /\ Written(op)[Len(frames) + 1] = [seq |-> nextSeq, op |-> op]
  BY WrittenFacts
<1>2. /\ OpsOf(Written(op)) \in Seq(Ops) /\ Len(OpsOf(Written(op))) = Len(frames) + 1
      /\ \A i \in 1 .. Len(frames) + 1 : OpsOf(Written(op))[i] = Written(op)[i].op
  BY <1>1, OpsOfFacts
<1>3. /\ frames \in Seq(FrameType) /\ OpsOf(frames) \in Seq(Ops)
      /\ Len(OpsOf(frames)) = Len(frames) /\ Len(frames) \in Nat
      /\ \A i \in 1 .. Len(frames) : OpsOf(frames)[i] = frames[i].op
  BY OpsOfFacts DEF JournalTypeOK
<1>4. /\ Append(OpsOf(frames), op) \in Seq(Ops)
      /\ Len(Append(OpsOf(frames), op)) = Len(frames) + 1
      /\ \A i \in 1 .. Len(frames) : Append(OpsOf(frames), op)[i] = OpsOf(frames)[i]
      /\ Append(OpsOf(frames), op)[Len(frames) + 1] = op
  BY <1>3
<1>5. \A i \in 1 .. Len(frames) + 1 : OpsOf(Written(op))[i] = Append(OpsOf(frames), op)[i]
  BY <1>1, <1>2, <1>3, <1>4
<1> QED BY <1>2, <1>4, <1>5, SeqEqual

\* The journal implements the commit log: appends commit, acknowledgements
\* find their mutation in the log, and a failure keeps a prefix of the log
\* that holds everything acknowledged.
THEOREM JournalImplementsCommitLog == JournalSpec => ImplementsCommitLog
<1>1. JournalInit => Log!Init
  BY DEF JournalInit, Log!Init, OpsOf
<1>2. JInv /\ [JournalNext]_journalVars => [Log!Next]_(Log!vars)
  <2> SUFFICES ASSUME JInv, [JournalNext]_journalVars
               PROVE  Log!Next \/ UNCHANGED Log!vars
    OBVIOUS
  <2>0. /\ frames \in Seq(FrameType) /\ Len(frames) \in Nat /\ durable \in Nat
        /\ JournalTypeOK /\ durable <= Len(frames)
    BY DEF JInv, JournalTypeOK
  <2>1. ASSUME NEW op \in Ops, AppendWrite(op) \/ AppendWriteFails(op)
        PROVE  Log!Commit(op) \/ UNCHANGED Log!vars
    <3>1. writeOffset = Len(frames)
      BY <2>1 DEF JInv, CursorInv, AppendWrite, AppendWriteFails, CanAppend, Idle
    <3>2. frameAcked' = frameAcked /\ (frames' = frames \/ frames' = Written(op))
      BY <2>1 DEF AppendWrite, AppendWriteFails, ackVars
    <3>3. OpsOf(frames)' = OpsOf(frames) \/ OpsOf(frames)' = Append(OpsOf(frames), op)
      BY <2>0, <3>1, <3>2, WrittenCommits DEF OpsOf
    <3> QED BY <3>2, <3>3 DEF Log!Commit, Log!vars
  <2>2. ASSUME ApplyAndAck PROVE Log!Ack(pend.op) /\ pend.op \in Ops
    <3>1. /\ frames' = frames /\ frameAcked' = frameAcked \cup {pend.op}
          /\ Len(frames) # 0 /\ frames[Len(frames)].op = pend.op
      BY <2>2 DEF ApplyAndAck, JInv, CursorInv
    <3>2. pend.op \in Ops
      BY <2>2 DEF ApplyAndAck, JInv, JournalTypeOK, NoPend, Pending
    <3>3. Log!Holds(OpsOf(frames), pend.op)
      BY <2>0, <3>1, OpsOfFacts DEF Log!Holds
    <3> QED BY <3>1, <3>2, <3>3 DEF Log!Ack, OpsOf
  <2>3. ASSUME PowerFail PROVE \E n \in 0 .. Len(OpsOf(frames)) : Log!Lose(n)
    <3>1. PICK n \in durable .. Len(frames) : frames' = SubSeq(frames, 1, n)
      BY <2>3 DEF PowerFail
    <3>2. frameAcked' = frameAcked
      BY <2>3 DEF PowerFail, ProcessGone, ackVars
    <3>3. /\ frames' \in Seq(FrameType) /\ Len(frames') = n
          /\ \A i \in 1 .. n : frames'[i] = frames[i]
      BY <2>0, <3>1
    <3>4. /\ OpsOf(frames') \in Seq(Ops) /\ Len(OpsOf(frames')) = n
          /\ \A i \in 1 .. n : OpsOf(frames')[i] = frames[i].op
      BY <3>3, OpsOfFacts
    <3>5. /\ OpsOf(frames) \in Seq(Ops) /\ Len(OpsOf(frames)) = Len(frames)
          /\ \A i \in 1 .. Len(frames) : OpsOf(frames)[i] = frames[i].op
      BY <2>0, OpsOfFacts
    <3>6. OpsOf(frames') = SubSeq(OpsOf(frames), 1, n)
      <4>1. /\ SubSeq(OpsOf(frames), 1, n) \in Seq(Ops)
            /\ Len(SubSeq(OpsOf(frames), 1, n)) = n
            /\ \A i \in 1 .. n : SubSeq(OpsOf(frames), 1, n)[i] = OpsOf(frames)[i]
        BY <2>0, <3>1, <3>5
      <4>2. \A i \in 1 .. n : OpsOf(frames')[i] = SubSeq(OpsOf(frames), 1, n)[i]
        BY <2>0, <3>4, <3>5, <4>1
      <4> QED BY <3>4, <4>1, <4>2, SeqEqual
    <3>7. \A op \in frameAcked : Log!Holds(OpsOf(frames'), op)
      BY <2>0, <3>1, <3>4 DEF JInv, AckedFramesDurable, Log!Holds
    <3>8. n \in 0 .. Len(OpsOf(frames))
      BY <2>0, <3>5
    <3>9. OpsOf(frames)' = OpsOf(frames')
      BY DEF OpsOf
    <3> QED BY <3>2, <3>6, <3>7, <3>8, <3>9 DEF Log!Lose
  <2>4. ASSUME \/ AppendSync \/ AppendSyncFails \/ JournalKill \/ Reopen \/ UNCHANGED journalVars
               \/ \E op \in Ops : AckVisible(op)
        PROVE  UNCHANGED Log!vars
    <3>1. frames' = frames /\ frameAcked' = frameAcked
      BY <2>4 DEF AppendSync, AppendSyncFails, JournalKill, Reopen, journalVars, AckVisible,
                  ProcessGone, ackVars
    <3> QED BY <3>1 DEF Log!vars, OpsOf
  <2> QED BY <2>1, <2>2, <2>3, <2>4 DEF JournalNext, Log!Next
<1> QED BY <1>1, <1>2, JInvariance, PTL DEF JournalSpec, Log!Spec, ImplementsCommitLog
=============================================================================
