------------------------------- MODULE Reader -------------------------------
(***************************************************************************)
(* One GET of zeros3.go (sections 4c, 10b, 14, 16d): conditions, the range *)
(* header, and the object's bytes from its chunks (manifestReader, which   *)
(* reads runs of adjacent pack records at once) or, for a range, from its  *)
(* representation (repStreamReader, a goroutine that reconstructs ahead of *)
(* the handler through a channel).                                         *)
(*                                                                         *)
(* A byte is its position in the object.  A copy of a chunk verifies or    *)
(* does not; while the request runs one may decay, and a repair may        *)
(* publish a loose one.  casRead is one step: it tries every copy.         *)
(***************************************************************************)
EXTENDS Integers, Sequences, FiniteSets, FiniteSetsExt, Sums

CONSTANTS GetInstances,   \* objects with the copies of their chunks, and requests
          RunMaxRecords,  \* packRunMaxRecords
          RunMaxLogical,  \* packRunMaxLogical
          Piece,          \* repStreamPiece
          ChannelCap      \* capacity of repStreamReader.ch

ASSUME ReaderAssumption ==
  /\ {RunMaxRecords, RunMaxLogical, Piece, ChannelCap} \subseteq Nat \ {0}
  /\ \A i \in GetInstances :
       /\ i.lengths \in Seq(Nat \ {0}) /\ Len(i.packed) = Len(i.lengths)
       /\ i.cond \in {"proceed", "failed", "unmodified"}
       /\ i.range \in [kind : {"none", "suffix", "from"}, n : Nat, start : Nat, end : Nat \cup {-1}]
       /\ i.rep \in {"none", "unreadable", "unsupported", "usable"} /\ i.fails \in Nat
       /\ {i.decays, i.repairs} \subseteq 0 .. 1

VARIABLES get,      \* the object and the request
          intact,   \* the copies that verify: <<chunk, 0>> loose, <<chunk, n>> its n-th packed one
          absent,   \* chunks without a loose copy
          lost,     \* chunks that had no copy left at some moment
          handler,  \* the handler: where it is, the range, the answer
          out,      \* the bytes written to the client
          reader,   \* manifestReader
          stream,   \* repStreamReader: the consumer's side and the channel
          producer, \* its goroutine
          wear      \* decays and repairs left

getVars == <<get, intact, absent, lost, handler, out, reader, stream, producer, wear>>

Positions == DOMAIN get.lengths
Upto(i) == SumTo(get.lengths, i)   \* offset after chunk i
Size == Upto(Len(get.lengths))
Copies(i) == {<<i, j>> : j \in DOMAIN get.packed[i]} \cup (IF i \in absent THEN {} ELSE {<<i, 0>>})
Served(i) == Copies(i) \cap intact # {}

ReaderIdle == [idx |-> 1, queue |-> <<>>, bad |-> {}]
StreamIdle == [ch |-> <<>>, canceled |-> FALSE, open |-> FALSE]
ProducerIdle == [on |-> FALSE, at |-> 0, buf |-> <<>>, err |-> FALSE]

GetInit ==
  /\ get \in GetInstances
  /\ absent = {i \in DOMAIN get.lengths : get.loose[i] = "none"}
  /\ intact = (UNION {{<<i, j>> : j \in {n \in DOMAIN get.packed[i] : get.packed[i][n].ok}} : i \in Positions})
              \cup {<<i, 0>> : i \in {n \in Positions : get.loose[n] = "good"}}
  /\ lost = {i \in Positions : ~Served(i)}
  /\ handler = [pc |-> "parse", start |-> 0, end |-> Size - 1, answer |-> "none"]
  /\ out = <<>> /\ reader = ReaderIdle /\ stream = StreamIdle /\ producer = ProducerIdle
  /\ wear = [decays |-> get.decays, repairs |-> get.repairs]

Ends(answer) == handler' = [handler EXCEPT !.pc = "done", !.answer = answer]
Goes(pc) == handler' = [handler EXCEPT !.pc = pc]
-----------------------------------------------------------------------------
(* handleGetObject: conditions first, then the range header.               *)

\* parseRangeSpec.  A start past the end is refused before the end is read.
ClampedEnd(end) == IF end >= Size THEN Size - 1 ELSE end
ParseRangeSpec(r) ==
  LET ignored == [present |-> FALSE, ok |-> TRUE, start |-> 0, end |-> Size - 1]
      refused == [present |-> TRUE, ok |-> FALSE, start |-> 0, end |-> 0]
      first == IF r.n > Size THEN 0 ELSE Size - r.n
  IN CASE r.kind = "none" -> ignored
       [] r.kind = "suffix" -> IF r.n = 0 \/ Size = 0 THEN refused
                               ELSE [present |-> TRUE, ok |-> TRUE, start |-> first, end |-> Size - 1]
       [] r.kind = "from" ->
            IF r.start >= Size THEN refused
            ELSE IF r.end = -1 THEN [present |-> TRUE, ok |-> TRUE, start |-> r.start, end |-> Size - 1]
            ELSE IF r.end < r.start THEN ignored
            ELSE [present |-> TRUE, ok |-> TRUE, start |-> r.start, end |-> ClampedEnd(r.end)]

HandleGetObject ==
  /\ handler.pc = "parse"
  /\ LET spec == ParseRangeSpec(get.range)
     IN IF get.cond # "proceed" THEN Ends(get.cond)
        ELSE IF ~spec.ok THEN Ends("unsatisfiable")
        ELSE handler' = [pc |-> "open", start |-> spec.start, end |-> spec.end, answer |-> "none"]
  /\ UNCHANGED <<get, intact, absent, lost, out, reader, stream, producer, wear>>

Whole == handler.start = 0 /\ handler.end = Size - 1

\* openObjectReader: only a range is read from the representation.
OpenObjectReader ==
  /\ handler.pc = "open"
  /\ IF get.rep = "usable" /\ ~Whole
     THEN /\ stream' = [StreamIdle EXCEPT !.open = TRUE]
          /\ producer' = [ProducerIdle EXCEPT !.on = TRUE, !.at = handler.start]
          /\ Goes("first")
     ELSE Goes("chunks") /\ UNCHANGED <<stream, producer>>
  /\ UNCHANGED <<get, intact, absent, lost, out, reader, wear>>
-----------------------------------------------------------------------------
(* manifestReader: the next chunk of the range, from the current run, from *)
(* a new run that begins with it, or through the ordinary copy selection.  *)

\* packPrimary: the hottest packed record, unless a loose copy outranks it.
Primary(i) == /\ get.packed[i] # <<>> /\ get.packed[i][1].pack \notin reader.bad
              /\ get.packed[i][1].hot \/ i \in absent
\* Chunk j extends a run that ends with the chunk before it.
Extending(j) ==
  LET p == get.packed[j][1]
      q == get.packed[j - 1][1]
  IN Primary(j) /\ p.pack = q.pack /\ p.at = q.at + 1
RunLength(i) == Max({n \in 1 .. RunMaxRecords : i + n - 1 \in Positions /\
  /\ \A j \in i + 1 .. i + n - 1 : Upto(j - 1) <= handler.end /\ Extending(j)
  /\ n > 1 => Upto(i + n - 1) - Upto(i - 1) <= RunMaxLogical})

\* fetchRun: one ReadAt, every record verified on its own.
Fetched(i) == [n \in 1 .. RunLength(i) |-> [idx |-> i + n - 1, ok |-> <<i + n - 1, 1>> \in intact]]

\* A record that failed in its run is read again through casRead.
FailsWithItsRun(i, e) == e.ok
ReadAgain(i, e) == e.ok \/ Served(i)

\* The bytes of chunk i inside the range.
LastOf(i) == IF handler.end < Upto(i) - 1 THEN handler.end ELSE Upto(i) - 1
Slice(i) ==
  LET lo == IF handler.start > Upto(i - 1) THEN handler.start ELSE Upto(i - 1)
  IN [n \in 1 .. LastOf(i) - lo + 1 |-> lo + n - 1]

\* Before the first byte a failure is an S3 error, later a truncated body.
Failed == IF out = <<>> THEN "error" ELSE "truncated"

NextChunk ==
  LET i == reader.idx
      queue == IF reader.queue # <<>> THEN reader.queue
               ELSE IF Primary(i) THEN Fetched(i) ELSE <<[idx |-> i, ok |-> FALSE]>>
      runFailed == reader.queue = <<>> /\ Primary(i) /\ \E n \in DOMAIN queue : ~queue[n].ok
      readable == ReadAgain(i, queue[1])
  IN /\ handler.pc = "chunks" /\ i \in Positions /\ Upto(i - 1) <= handler.end
     /\ IF Upto(i) <= handler.start
        THEN reader' = [reader EXCEPT !.idx = i + 1] /\ UNCHANGED <<handler, out>>
        ELSE /\ reader' = [idx |-> i + 1, queue |-> Tail(queue),
                           bad |-> IF runFailed THEN reader.bad \cup {get.packed[i][1].pack} ELSE reader.bad]
             /\ IF readable THEN out' = out \o Slice(i) /\ UNCHANGED handler
                ELSE Ends(Failed) /\ UNCHANGED out
     /\ UNCHANGED <<get, intact, absent, lost, stream, producer, wear>>

ChunksDone ==
  /\ handler.pc = "chunks" /\ (reader.idx \notin Positions \/ Upto(reader.idx - 1) > handler.end)
  /\ Ends("complete")
  /\ UNCHANGED <<get, intact, absent, lost, out, reader, stream, producer, wear>>
-----------------------------------------------------------------------------
(* The goroutine behind repStreamReader.                                   *)

Left == UNCHANGED <<get, intact, absent, lost, handler, out, reader, wear>>

\* repChanWriter.Write: the next byte of the range, verified, goes to the buffer.
Produce ==
  /\ producer.on /\ Len(producer.buf) < Piece /\ producer.at <= handler.end
  /\ IF stream.canceled \/ (get.fails > 0 /\ producer.at = handler.start + get.fails - 1)
     THEN producer' = [producer EXCEPT !.on = FALSE, !.err = TRUE]
     ELSE producer' = [producer EXCEPT !.at = @ + 1, !.buf = Append(@, producer.at)]
  /\ UNCHANGED stream /\ Left

\* flush: into the channel, or out when the consumer has gone.
MayFlush == Len(stream.ch) < ChannelCap \/ stream.canceled
Flush ==
  /\ producer.on /\ (Len(producer.buf) = Piece \/ producer.at > handler.end)
  /\ MayFlush
  /\ \/ Len(stream.ch) < ChannelCap
        /\ stream' = [stream EXCEPT !.ch = Append(@, producer.buf)]
        /\ producer' = [producer EXCEPT !.buf = <<>>, !.on = producer.at <= handler.end]
     \/ stream.canceled /\ producer' = [producer EXCEPT !.on = FALSE, !.err = TRUE] /\ UNCHANGED stream
  /\ Left
-----------------------------------------------------------------------------
(* The handler's side of it.                                               *)

Kept == UNCHANGED <<get, intact, absent, lost, reader, wear>>

\* next: a piece, or once the goroutine has ended its error or the end.
NextPiece ==
  /\ handler.pc \in {"first", "pieces"} /\ stream.ch # <<>>
  /\ out' = out \o Head(stream.ch) /\ stream' = [stream EXCEPT !.ch = Tail(@)]
  /\ Goes("pieces") /\ UNCHANGED producer /\ Kept

\* An error before the first piece falls back to the chunks of the object.
FallsBack == handler.pc = "first"
StreamEnds ==
  /\ handler.pc \in {"first", "pieces"} /\ stream.ch = <<>> /\ ~producer.on
  /\ stream' = [stream EXCEPT !.canceled = TRUE, !.open = FALSE]
  /\ IF ~producer.err THEN Ends("complete")
     ELSE IF FallsBack THEN Goes("chunks") ELSE Ends("truncated")
  /\ UNCHANGED <<out, producer>> /\ Kept

\* The client is gone: the write fails and close cancels the goroutine,
\* drains what it still sends, and closes the source when it has ended.
ClientGone ==
  /\ handler.pc \in {"chunks", "pieces"} /\ out # <<>>
  /\ IF stream.open THEN Goes("closing") ELSE Ends("gone")
  /\ stream' = [stream EXCEPT !.canceled = TRUE]
  /\ UNCHANGED <<out, producer>> /\ Kept

Drained == stream.ch = <<>> /\ ~producer.on
Drain ==
  /\ handler.pc = "closing"
  /\ IF Drained THEN Ends("gone") /\ stream' = [stream EXCEPT !.open = FALSE]
     ELSE stream.ch # <<>> /\ stream' = [stream EXCEPT !.ch = Tail(@)] /\ UNCHANGED handler
  /\ UNCHANGED <<out, producer>> /\ Kept
-----------------------------------------------------------------------------
(* What happens to the copies meanwhile.                                   *)

Decay(copy) ==
  /\ handler.pc # "done" /\ copy \in intact /\ wear.decays > 0
  /\ wear' = [wear EXCEPT !.decays = @ - 1]
  /\ intact' = intact \ {copy}
  /\ lost' = lost \cup {i \in Positions : Copies(i) \cap intact' = {}}
  /\ UNCHANGED <<get, absent, handler, out, reader, stream, producer>>

Repaired(i) ==
  /\ handler.pc # "done" /\ wear.repairs > 0 /\ ~Served(i)
  /\ wear' = [wear EXCEPT !.repairs = @ - 1]
  /\ intact' = intact \cup {<<i, 0>>} /\ absent' = absent \ {i}
  /\ UNCHANGED <<get, lost, handler, out, reader, stream, producer>>

GetHandler == HandleGetObject \/ OpenObjectReader \/ NextChunk \/ ChunksDone
              \/ NextPiece \/ StreamEnds \/ Drain
GetProducer == Produce \/ Flush
GetNext == GetHandler \/ GetProducer \/ ClientGone
           \/ (\E copy \in intact : Decay(copy)) \/ (\E i \in Positions : Repaired(i))

\* Fairness: both goroutines are scheduled, and a write to the client returns.
-----------------------------------------------------------------------------
\* Types of Reader.
GetTypeOK ==
  /\ handler.pc \in {"parse", "open", "chunks", "first", "pieces", "closing", "done"}
  /\ handler.answer \in {"none", "failed", "unmodified", "unsatisfiable", "complete", "error", "truncated", "gone"}
  /\ Len(stream.ch) <= ChannelCap /\ Len(producer.buf) <= Piece
  /\ \A n \in DOMAIN reader.queue : reader.queue[n].idx = reader.idx + n - 1

\* The bytes a request names, by the meaning of its header: a range that
\* names none is refused, and one that ends before it starts is no range.
Requested ==
  LET r == get.range
      all == 0 .. Size - 1
  IN IF r.kind = "none" \/ (r.kind = "from" /\ r.end # -1 /\ r.end < r.start) THEN all
     ELSE {b \in all : IF r.kind = "suffix" THEN b >= Size - r.n
                       ELSE b >= r.start /\ (r.end # -1 => b <= r.end)}

\* A GET delivers the bytes its range names, in order and each once, says it
\* is complete only when it is, and fails only for a chunk of the range that
\* had no valid copy, or a representation that failed under way; the source
\* of a representation outlives the goroutine that reads it.
ReadsAreFaithful ==
  /\ \A n \in DOMAIN out : out[n] \in Requested /\ (n > 1 => out[n] = out[n - 1] + 1)
  /\ out # <<>> => out[1] = Min(Requested)
  /\ handler.answer = "complete" => Len(out) = Cardinality(Requested)
  /\ handler.answer = "unsatisfiable" => Requested = {} \/ get.range.start >= Size
  /\ handler.answer \in {"error", "truncated"} =>
       \/ producer.err /\ handler.answer = "truncated"
       \/ \E i \in lost : \E b \in Requested : Upto(i - 1) <= b /\ b < Upto(i)
  /\ producer.on => stream.open

\* "A representation can be absent, unreadable or stale without changing any
\* S3-visible behavior" (section 16d): a GET whose chunks can all be read is
\* answered in full, whatever becomes of the representation.
RepresentationsDontShow ==
  lost = {} => handler.answer \notin {"error", "truncated"}
=============================================================================
