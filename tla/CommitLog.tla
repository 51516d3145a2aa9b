------------------------------ MODULE CommitLog ------------------------------
(***************************************************************************)
(* What the visibility journal promises its callers, with no file, cursor, *)
(* sync or process in sight: an ordered log of mutations that grows at its *)
(* end, and a set of acknowledged mutations.  A failure may drop the       *)
(* newest mutations, but never an acknowledged one, and it never reorders, *)
(* alters or invents one.  Journal.tla is shown to implement this module.  *)
(***************************************************************************)
EXTENDS Naturals, Sequences

CONSTANT Ops              \* the mutations clients ask for

VARIABLES log,            \* the mutations a reader of the journal finds, in order
          acked           \* the mutations acknowledged to their clients

vars == <<log, acked>>

Holds(l, op) == \E i \in 1 .. Len(l) : l[i] = op

Init == log = <<>> /\ acked = {}

Commit(op) == log' = Append(log, op) /\ UNCHANGED acked

Ack(op) == Holds(log, op) /\ acked' = acked \cup {op} /\ UNCHANGED log

\* A failure keeps a prefix that still holds every acknowledged mutation.
Lose(n) ==
  /\ log' = SubSeq(log, 1, n)
  /\ \A op \in acked : Holds(log', op)
  /\ UNCHANGED acked

Next == \/ \E op \in Ops : Commit(op) \/ Ack(op)
        \/ \E n \in 0 .. Len(log) : Lose(n)

Spec == Init /\ [][Next]_vars
=============================================================================
