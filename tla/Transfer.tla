------------------------------ MODULE Transfer ------------------------------
(***************************************************************************)
(* The bounded worker pool every chunk transfer of zeros3.go goes through  *)
(* (runTransferWorkers, section 15b) and what the bulk transfers share in  *)
(* it: the byte budget, the free list of frame buffers and the batches a   *)
(* transfer is cut into.                                                   *)
(*                                                                         *)
(* An item is one batch: its goroutine waits for budget, takes a frame,    *)
(* fetches into it and uploads it.  The HTTP transport may go on reading   *)
(* the frame after the answer has come.  The first failure cancels the     *)
(* rest when the instance says so (replicate, sync), never for repair.     *)
(***************************************************************************)
EXTENDS Integers, Sequences, FiniteSets, FiniteSetsExt, Sums

CONSTANTS PoolInstances  \* chunk lengths, batch bounds, workers, budget, frames

ASSUME PoolAssumption == \A i \in PoolInstances :
  /\ i.lengths \in Seq(Nat \ {0}) /\ i.maxRecords \in Nat \ {0} /\ i.target \in Nat
  /\ i.workers \in Nat \ {0} /\ i.budget \in Nat \ {0} /\ i.frameCap \in Nat
  /\ i.maxFree \in Nat /\ {i.bulk, i.cancelOnError} \subseteq BOOLEAN

VARIABLES pool,      \* the instance
          batches,   \* the items: sequences of chunk lengths
          dispatch,  \* the next item the dispatch loop offers
          items,     \* items[i]: its state, its frame and the error it ends with
          avail,     \* bytes of the budget nobody holds
          frames,    \* frames[f]: the item whose data frame f holds, and its capacity
          free,      \* the free list, its top last
          reading,   \* items whose frame the transport still reads
          canceled,  \* the derived context is canceled
          verdict    \* what the pool returned: -1 nothing yet, 0 nil, or an item

poolVars == <<pool, batches, dispatch, items, avail, frames, free, reading, canceled, verdict>>

SumOf(s) == SumTo(s, Len(s))

\* planBulkBatches: the open batch is closed by the chunk that does not fit.
Full(batch, bytes, d, p) == Len(batch) >= p.maxRecords \/ bytes + d > p.target
PlanBulkBatches(p) ==
  LET n == Len(p.lengths)
      plan[i \in 0 .. n] ==
        IF i = 0 THEN [out |-> <<>>, open |-> <<>>]
        ELSE LET q == plan[i - 1]
                 d == p.lengths[i]
             IN IF q.open # <<>> /\ Full(q.open, SumOf(q.open), d, p)
                THEN [out |-> Append(q.out, q.open), open |-> <<d>>]
                ELSE [q EXCEPT !.open = Append(@, d)]
  IN IF plan[n].open = <<>> THEN plan[n].out ELSE Append(plan[n].out, plan[n].open)

FrameSize(i) == SumOf(batches[i]) + 1
\* acquire asks for no more than the whole budget.
WholeFrame(i) == FrameSize(i)
Need(i) == IF FrameSize(i) < pool.budget THEN FrameSize(i) ELSE pool.budget

Items == DOMAIN batches
At(states) == {i \in Items : items[i].at \in states}
Running == At({"acquire", "fetch", "upload", "drain"})

PoolInit ==
  /\ pool \in PoolInstances
  /\ batches = IF pool.bulk THEN PlanBulkBatches(pool)
               ELSE [i \in DOMAIN pool.lengths |-> <<pool.lengths[i]>>]
  /\ items = [i \in Items |-> [at |-> "todo", frame |-> 0, err |-> "none"]]
  /\ dispatch = 1 /\ avail = pool.budget /\ frames = <<>> /\ free = <<>>
  /\ reading = {} /\ canceled = FALSE /\ verdict = -1
-----------------------------------------------------------------------------
Move(i, at) == items' = [items EXCEPT ![i].at = at]
Settle(i, err) == items' = [items EXCEPT ![i] = [at |-> "settled", frame |-> 0, err |-> err]]

\* The semaphore's channel has room.
SlotOrQueue == Cardinality(Running) <= pool.workers
SlotFree == Cardinality(Running) < pool.workers

\* The select of the dispatch loop: a free slot starts the item, a canceled
\* context records it without starting it; either when both are ready.
Dispatch ==
  /\ dispatch \in Items /\ dispatch' = dispatch + 1
  /\ \/ canceled /\ Settle(dispatch, "canceled")
     \/ /\ SlotFree
        /\ Move(dispatch, IF pool.bulk THEN "acquire" ELSE "fetch")
  /\ UNCHANGED <<pool, batches, avail, frames, free, reading, canceled, verdict>>

\* getBulkFrame pops a buffer and makes a new one when that is too small.
\* Fetching into it replaces what it held.
Acquire(i) ==
  /\ items[i].at = "acquire" /\ ~canceled /\ avail >= Need(i)
  /\ avail' = avail - Need(i)
  /\ LET pop == free # <<>>
         top == free[Len(free)]
         old == pop /\ frames[top].cap >= FrameSize(i)
         f   == IF old THEN top ELSE Len(frames) + 1
         cap == IF old THEN frames[top].cap ELSE Max({pool.frameCap, FrameSize(i)})
     IN /\ free' = IF pop THEN SubSeq(free, 1, Len(free) - 1) ELSE free
        /\ frames' = [g \in 1 .. Max({f, Len(frames)}) |->
                        IF g = f THEN [of |-> i, cap |-> cap] ELSE frames[g]]
        /\ items' = [items EXCEPT ![i].at = "fetch", ![i].frame = f]
  /\ UNCHANGED <<pool, batches, dispatch, reading, canceled, verdict>>

\* A waiter is woken by the cancellation too.
AcquireCanceled(i) ==
  /\ items[i].at = "acquire" /\ canceled /\ Settle(i, "canceled")
  /\ UNCHANGED <<pool, batches, dispatch, avail, frames, free, reading, canceled, verdict>>

\* A request may fail by itself, or because the context is canceled.
Errors == {"failed"} \cup (IF canceled THEN {"canceled"} ELSE {})

FetchBulkChunks(i) ==
  /\ items[i].at = "fetch"
  /\ \/ Move(i, "upload") /\ reading' = IF pool.bulk THEN reading \cup {i} ELSE reading
     \/ \E err \in Errors : /\ items' = [items EXCEPT ![i].at = "drain", ![i].err = err]
                            /\ UNCHANGED reading
  /\ UNCHANGED <<pool, batches, dispatch, avail, frames, free, canceled, verdict>>

\* The server accepts a frame it has read; it may refuse before that.
UploadAnswered(i) ==
  /\ items[i].at = "upload"
  /\ \E err \in Errors \cup (IF i \in reading THEN {} ELSE {"none"}) :
       items' = [items EXCEPT ![i].at = "drain", ![i].err = err]
  /\ UNCHANGED <<pool, batches, dispatch, avail, frames, free, reading, canceled, verdict>>

TransportDone(i) ==
  /\ i \in reading /\ reading' = reading \ {i}
  /\ UNCHANGED <<pool, batches, dispatch, items, avail, frames, free, canceled, verdict>>

\* signAndDoBody's wait: the transport has closed the body.
AnswerIsEnough(i) == TRUE
BodyClosed(i) == i \notin reading

\* putBulkFrame keeps buffers of the one capacity, and only a few.
Recycled(f) == frames[f].cap = pool.frameCap /\ Len(free) <= pool.maxFree

\* The deferred calls: the frame goes back, then the budget, then the result
\* is recorded and the rest canceled.
Finish(i) ==
  /\ items[i].at = "drain" /\ BodyClosed(i)
  /\ Settle(i, items[i].err)
  /\ LET f == items[i].frame IN
       IF f = 0 THEN UNCHANGED <<free, avail>>
       ELSE /\ free' = IF Recycled(f) THEN Append(free, f) ELSE free
            /\ avail' = avail + Need(i)
  /\ canceled' = (canceled \/ (items[i].err # "none" /\ pool.cancelOnError))
  /\ UNCHANGED <<pool, batches, dispatch, frames, reading, verdict>>

\* firstTransferError: the first genuine failure in the order of the items.
FirstOfAny(S) == IF S = {} THEN 0 ELSE Min(S)
FirstTransferError ==
  LET failed == {i \in Items : items[i].err = "failed"}
      any    == {i \in Items : items[i].err # "none"}
  IN IF failed # {} THEN Min(failed) ELSE FirstOfAny(any)

\* wg.Wait
NoneRunning == Running = {}
Return ==
  /\ verdict = -1 /\ dispatch \notin Items /\ NoneRunning
  /\ verdict' = FirstTransferError
  /\ UNCHANGED <<pool, batches, dispatch, items, avail, frames, free, reading, canceled>>

ItemStep(i) ==
  i \in Items /\ (\/ Acquire(i) \/ AcquireCanceled(i) \/ FetchBulkChunks(i)
                 \/ UploadAnswered(i) \/ TransportDone(i) \/ Finish(i))

PoolNext == Dispatch \/ Return \/ (\E i \in Items : ItemStep(i))

\* Fairness: the dispatch loop and every goroutine run, every request is
\* answered or fails, and the transport lets go of the body.
AllItems == 1 .. Max({Len(p.lengths) : p \in PoolInstances})
-----------------------------------------------------------------------------
PoolTypeOK ==
  /\ avail \in 0 .. pool.budget /\ canceled \in BOOLEAN /\ reading \subseteq Items
  /\ \A i \in Items : /\ items[i].at \in {"todo", "acquire", "fetch", "upload", "drain", "settled"}
                      /\ items[i].err \in {"none", "failed", "canceled"}
                      /\ items[i].frame \in 0 .. Len(frames)
  /\ Cardinality(Running) <= pool.workers

\* While the transport reads an item's frame, the frame holds that item's data:
\* it is not on the free list and no other item has fetched into it.
FramesNotShared ==
  /\ \A i \in reading : items[i].frame # 0 => frames[items[i].frame].of = i
  /\ \A i \in reading, n \in DOMAIN free : items[i].frame # free[n]
  /\ \A i, j \in Items : i # j /\ items[i].frame # 0 => items[i].frame # items[j].frame

\* The frames in use stay within the budget, and all of it comes back.
Holds == [i \in Items |-> IF items[i].frame = 0 THEN 0 ELSE Need(i)]
BudgetKept == avail + SumOf(Holds) = pool.budget

\* Batches hold the chunks in their order; each is as large as the bounds let
\* it be, and only a chunk larger than the target makes a batch beyond it.
BatchesFit ==
  LET sizes == [b \in DOMAIN batches |-> Len(batches[b])]
  IN /\ SumOf(sizes) = Len(pool.lengths)
     /\ \A b \in DOMAIN batches :
          /\ batches[b] = SubSeq(pool.lengths, SumTo(sizes, b - 1) + 1, SumTo(sizes, b))
          /\ batches[b] # <<>>
          /\ pool.bulk =>
               /\ Len(batches[b]) <= pool.maxRecords
               /\ SumOf(batches[b]) <= pool.target \/ Len(batches[b]) = 1
               /\ b < Len(batches) => \/ Len(batches[b]) = pool.maxRecords
                                      \/ SumOf(batches[b]) + batches[b + 1][1] > pool.target

\* The pool returns when nothing of it runs any more.  It reports success only
\* if every item was sent, and otherwise the first item that itself failed,
\* never one that was only canceled.
VerdictIsHonest == verdict # -1 =>
  /\ Running = {} /\ reading = {} /\ dispatch = Len(batches) + 1
  /\ \A i \in Items : items[i].at = "settled"
  /\ IF verdict = 0 THEN \A i \in Items : items[i].err = "none"
     ELSE items[verdict].err = "failed" /\ \A i \in 1 .. verdict - 1 : items[i].err # "failed"

\* What a transfer relies on, together.
PoolSafe == FramesNotShared /\ BudgetKept /\ BatchesFit /\ VerdictIsHonest
=============================================================================
