------------------------------- MODULE Journal -------------------------------
(***************************************************************************)
(* The visibility journal of zeros3.go (section 6): one append-only file   *)
(* of checksummed frames, the append cursor of the process that owns it,   *)
(* the poisoning rule, replay with its torn-tail rule, and the failures    *)
(* the format is designed for.                                             *)
(*                                                                         *)
(* A frame is its sequence number and the mutation it carries; offsets are *)
(* counted in frames.  All appends run under Store.mu, so at most one is   *)
(* in flight (pend).  The file is split into the complete frames that a    *)
(* read returns now (frames), the number of them known to be on stable     *)
(* storage (durable), and what follows the last complete frame (tail).     *)
(*                                                                         *)
(* Two failures differ.  JournalKill ends the process only: what it wrote  *)
(* is in the page cache and the next process reads it.  PowerFail also     *)
(* discards whatever was not synced, in the way the file system pleases.   *)
(***************************************************************************)
EXTENDS Naturals, Sequences

CONSTANTS Ops,         \* mutations (journal payloads)
          IdemOps,     \* those whose handler succeeds without a frame when
                       \* their effect is already visible (CreateBucket)
          MaxLength    \* bound on the frames in the file

ASSUME IdemOpsAssumption == IdemOps \subseteq Ops
ASSUME MaxFramesAssumption == MaxLength \in Nat \ {0}

VARIABLES frames,      \* complete frames in the file, oldest first
          durable,     \* how many of them have certainly been synced
          tail,        \* bytes after the last complete frame
          status,      \* the owning process: "up", "down" or "refused" to open
          writeOffset, \* Journal.writeOffset
          nextSeq,     \* Journal.nextSeq
          poisoned,    \* Journal.poisoned # nil
          pend,        \* the append in flight
          mem,         \* mutations folded into the in-memory namespace
          frameAcked,  \* acknowledged after their own frame was synced
          idemAcked    \* acknowledged because their effect was visible

journalVars == <<frames, durable, tail, status, writeOffset, nextSeq, poisoned, pend,
                 mem, frameAcked, idemAcked>>
ackVars == <<frameAcked, idemAcked>>
cursor == <<writeOffset, nextSeq, poisoned>>

FrameType == [seq : Nat \ {0}, op : Ops]
NoPend == [phase |-> "idle"]
Pending == [phase : {"sync", "apply"}, op : Ops]

OpsOf(fs) == [i \in 1 .. Len(fs) |-> fs[i].op]
Visible(op) == \E i \in 1 .. Len(mem) : mem[i] = op
-----------------------------------------------------------------------------
JournalInit ==
  /\ frames = <<>> /\ durable = 0 /\ tail = "none"
  /\ status = "up" /\ writeOffset = 0 /\ nextSeq = 1 /\ poisoned = FALSE
  /\ pend = NoPend /\ mem = <<>>
  /\ frameAcked = {} /\ idemAcked = {}

\* WriteAt(frame, writeOffset): the frame replaces whatever is stored there.
WrittenOneEarly(op) ==
  Append(SubSeq(frames, 1, IF writeOffset = 0 THEN 0 ELSE writeOffset - 1),
         [seq |-> nextSeq, op |-> op])
Written(op) == Append(SubSeq(frames, 1, writeOffset), [seq |-> nextSeq, op |-> op])

\* Bytes left behind by an earlier, longer write at the same offset would
\* follow the new frame and be read as a frame of their own.
TailAfterWrite == IF Len(frames) = writeOffset /\ tail = "none" THEN {"none"}
                  ELSE {"none", "garbled"}

CanAppendPoisoned == status = "up" /\ pend = NoPend /\ writeOffset < MaxLength
CanAppend == /\ status = "up" /\ pend = NoPend /\ ~poisoned
             /\ writeOffset < MaxLength

AppendWrite(op) ==
  /\ CanAppend
  /\ frames' = Written(op) /\ tail' \in TailAfterWrite
  /\ pend' = [phase |-> "sync", op |-> op]
  /\ UNCHANGED <<durable, status, cursor, mem, ackVars>>

\* A failed write leaves none, some or all of the frame, and poisons.
AppendWriteFails(op) ==
  /\ CanAppend
  /\ \/ UNCHANGED frames /\ tail' \in {"none", "torn"}
     \/ frames' = Written(op) /\ tail' = "none"
  /\ poisoned' = TRUE
  /\ UNCHANGED <<durable, status, writeOffset, nextSeq, pend, mem, ackVars>>

\* The cursor moves only once the frame is synced.
AppendNoSync ==
  /\ status = "up" /\ pend.phase = "sync"
  /\ writeOffset' = writeOffset + 1 /\ nextSeq' = nextSeq + 1
  /\ pend' = [pend EXCEPT !.phase = "apply"]
  /\ UNCHANGED <<frames, durable, tail, status, poisoned, mem, ackVars>>

AppendSync ==
  /\ status = "up" /\ pend.phase = "sync"
  /\ durable' = Len(frames)
  /\ writeOffset' = writeOffset + 1 /\ nextSeq' = nextSeq + 1
  /\ pend' = [pend EXCEPT !.phase = "apply"]
  /\ UNCHANGED <<frames, tail, status, poisoned, mem, ackVars>>

AppendSyncErrorIgnored ==
  /\ status = "up" /\ pend.phase = "sync"
  /\ pend' = [pend EXCEPT !.phase = "apply"]
  /\ UNCHANGED <<frames, durable, tail, status, cursor, mem, ackVars>>

AppendSyncFails ==
  /\ status = "up" /\ pend.phase = "sync"
  /\ poisoned' = TRUE /\ pend' = NoPend
  /\ UNCHANGED <<frames, durable, tail, status, writeOffset, nextSeq, mem, ackVars>>

\* The caller folds the mutation into memory, then answers its client.
ApplyAndAck ==
  /\ status = "up" /\ pend.phase = "apply"
  /\ mem' = Append(mem, pend.op)
  /\ frameAcked' = frameAcked \cup {pend.op}
  /\ pend' = NoPend
  /\ UNCHANGED <<frames, durable, tail, status, cursor, idemAcked>>

\* CreateBucket of a visible bucket: success, no frame, no sync.
AckVisible(op) ==
  /\ status = "up" /\ pend = NoPend /\ op \in IdemOps /\ Visible(op)
  /\ idemAcked' = idemAcked \cup {op}
  /\ UNCHANGED <<frames, durable, tail, status, cursor, pend, mem, frameAcked>>
-----------------------------------------------------------------------------
ProcessGone == /\ status' = "down" /\ pend' = NoPend /\ mem' = <<>>
               /\ UNCHANGED <<cursor, ackVars>>

JournalKill == /\ status = "up" /\ ProcessGone /\ UNCHANGED <<frames, durable, tail>>

\* Synced frames survive.  Of the rest a prefix does, and the first lost
\* frame may leave torn bytes, or its full length with other bytes in it.
PowerFail ==
  /\ status \in {"up", "down"} /\ ProcessGone
  /\ \E n \in durable .. Len(frames) :
       /\ frames' = SubSeq(frames, 1, n) /\ durable' = n
       /\ tail' \in {"none"} \cup (IF n < Len(frames) THEN {"torn", "garbled"}
                                   ELSE {tail})

\* replayJournal's verdict: a tail short of its byte count is a torn tail;
\* a complete frame that fails its checksum or breaks the sequence is fatal.
ReplayAccepts == /\ tail # "garbled"
                 /\ \A i \in 1 .. Len(frames) : frames[i].seq = i

ReopenSeqOffByOne ==
  /\ status = "down" /\ status' = "up" /\ tail' = "none"
  /\ writeOffset' = Len(frames) /\ nextSeq' = Len(frames)
  /\ poisoned' = FALSE /\ mem' = OpsOf(frames)
  /\ UNCHANGED <<frames, durable, pend, ackVars>>

\* openJournal: replay, cut the torn tail off, place the cursor after the
\* last valid frame.  Nothing is synced.
Reopen ==
  /\ status = "down"
  /\ IF ReplayAccepts
     THEN /\ status' = "up" /\ tail' = "none"
          /\ writeOffset' = Len(frames) /\ nextSeq' = Len(frames) + 1
          /\ poisoned' = FALSE /\ mem' = OpsOf(frames)
     ELSE /\ status' = "refused" /\ UNCHANGED <<tail, cursor, mem>>
  /\ UNCHANGED <<frames, durable, pend, ackVars>>

JournalNext ==
  \/ \E op \in Ops : AppendWrite(op) \/ AppendWriteFails(op) \/ AckVisible(op)
  \/ AppendSync \/ AppendSyncFails \/ ApplyAndAck
  \/ JournalKill \/ PowerFail \/ Reopen

JournalSpec == JournalInit /\ [][JournalNext]_journalVars
-----------------------------------------------------------------------------
JournalTypeOK ==
  /\ frames \in Seq(FrameType) /\ durable \in Nat
  /\ tail \in {"none", "torn", "garbled"}
  /\ status \in {"up", "down", "refused"}
  /\ writeOffset \in Nat /\ nextSeq \in Nat \ {0} /\ poisoned \in BOOLEAN
  /\ pend \in Pending \cup {NoPend} /\ mem \in Seq(Ops)
  /\ frameAcked \in SUBSET Ops /\ idemAcked \in SUBSET Ops

\* A mutation acknowledged after its own frame was synced is among the frames
\* no failure can remove: "acknowledged => durable" (appendFrame).
AckedFramesDurable ==
  \A op \in frameAcked : \E i \in 1 .. durable : frames[i].op = op

\* At every instant the process could be killed and the next OpenStore would
\* accept the file: no gap, duplicate or foreign bytes, whatever sequence of
\* failed writes, failed syncs, restarts and lost tails came before.  Only after
\* a power failure may replayJournal refuse, and only over a full-length frame
\* with other bytes in it; the numbering is intact even then.
OnlyPowerLossRefuses == ~ReplayAccepts => status # "up" /\ tail = "garbled"

\* While the process is up its memory is the mutations of the frames before
\* its append cursor: a frame whose sync failed, or is still running, is not
\* visible, and none that the cursor has passed is missing.
MemoryIsReplay ==
  status = "up" =>
    LET n == IF pend.phase = "apply" THEN writeOffset - 1 ELSE writeOffset
    IN  mem = SubSeq(OpsOf(frames), 1, n)

\* No acknowledged mutation ever disappears from the journal, including the
\* one CreateBucket acknowledges without a frame because the bucket exists.
AllAcksSurvive ==
  \A op \in frameAcked \cup idemAcked : \E i \in 1 .. Len(frames) : frames[i].op = op

\* The journal implements the commit log: what a read of the file returns is
\* the log, and only a suffix without acknowledged frames can disappear.
Log == INSTANCE CommitLog WITH log <- OpsOf(frames), acked <- frameAcked
ImplementsCommitLog == Log!Spec
=============================================================================
