------------------------------ MODULE MCCommit ------------------------------
(* Instances of LooseCAS and Journal for TLC, one at a time: what a PUT    *)
(* makes durable before it is acknowledged.                                *)
EXTENDS MCLooseCAS, Journal

VARIABLE commitPart     \* the one this behaviour is of

commitVars == <<commitPart, casVars, journalVars>>

CommitInit == commitPart \in {"loose", "journal"} /\ CasInit /\ JournalInit

\* A server can always publish; a journal may be full, or refuse to open.
CommitNext ==
  /\ UNCHANGED commitPart
  /\ \/ commitPart = "loose" /\ CasNext /\ UNCHANGED journalVars
     \/ commitPart = "journal" /\ JournalNext /\ UNCHANGED casVars
     \/ commitPart = "journal" /\ UNCHANGED <<casVars, journalVars>>

CommitSpec == CommitInit /\ [][CommitNext]_commitVars /\ CasFairness
=============================================================================
