------------------------------ MODULE MCJournal ------------------------------
(* Instances of Journal for TLC; mutants of its definitions.               *)
EXTENDS Journal
=============================================================================
