-------------------------- MODULE MCStoreOwnership --------------------------
(* Instances of StoreOwnership for TLC: which commands run on one store.   *)
EXTENDS StoreOwnership, TLC

CONSTANTS s, t, g, h, v

\* A server that is up, and three exclusive commands started beside it; or a
\* server starting while collectors run.
Maintenance ==
  {[run |-> s :> "serve" @@ g :> "gc" @@ h :> "gc" @@ v :> "prune", up |-> {s}],
   [run |-> s :> "serve" @@ g :> "gc" @@ h :> "gc" @@ v :> "gc", up |-> {}]}
\* A server starting while history is pruned and collected.
StartBesidePrune == {[run |-> s :> "serve" @@ g :> "gc" @@ v :> "prune", up |-> {}]}
\* A server that is up, and a command documented to be safe beside it.
RepairBesideServer == {[run |-> s :> "serve" @@ t :> "repair", up |-> {s}]}
=============================================================================
