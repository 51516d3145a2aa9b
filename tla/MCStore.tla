------------------------------- MODULE MCStore -------------------------------
(* Instances of Packs, StoreOwnership and Roots for TLC, one at a time.    *)
EXTENDS MCPacks, MCStoreOwnership, Roots

CONSTANTS m1, m2, m3, m4, c, r1, r2, q, k1, k2, s1, s2, s3,
          StoreParts     \* which of them are explored

VARIABLE storePart       \* the one this behaviour is of

ASSUME MaintenanceAssumption == Supervised

storeVars == <<storePart, packVars, vars, rootVars>>
-----------------------------------------------------------------------------
\* m3 is a copy of m1; m4 comes with a bundle; the representations share a component.
Lists == m1 :> {a} @@ m2 :> {a, b} @@ m3 :> {a} @@ m4 :> {b, c}
Representations == m1 :> r1 @@ m2 :> r2 @@ m3 :> r1 @@ m4 :> r2
Components == [m \in {m1, m2, m3, m4} |-> {q}]

\* A bundle of a snapshot this store has lost or never had, and a delta to it.
FullAndDelta == {[id |-> s1, base |-> FullBundle], [id |-> s2, base |-> s1]}

Holds(first, second) == k1 :> first @@ k2 :> second
Bound(f) == [op \in RootOps |-> IF op \in DOMAIN f THEN f[op] ELSE 0]
Root(objects, old, taken, kept, built, worn, bound) ==
  [objs |-> objects, hist |-> old, snaps |-> taken, stored |-> kept, reps |-> built,
   damage |-> worn, left |-> Bound(bound)]

NoSnapshots == [id \in SnapshotIDs |-> None]
TwoSnapshots == s1 :> Holds(m1, NoManifest) @@ s2 :> Holds(m1, m4) @@ s3 :> None
IdleRoots == Root(None, {}, NoSnapshots, {}, {}, 0, <<>>)
SnapshotRoots ==
  {Root(Holds(m1, NoManifest), {}, TwoSnapshots, {}, {}, 0,
       [put |-> 2, create |-> 1, delete |-> 1, gc |-> 1, prune |-> 1, power |-> 1, kill |-> 1])}
RepRoots ==
  {Root(Holds(m1, NoManifest), {}, TwoSnapshots, {}, {m1}, 1,
       [put |-> 1, rep |-> 1, gc |-> 1, prune |-> 1, retire |-> 1, repair |-> 1, power |-> 1]),
   Root(Holds(m1, NoManifest), {}, TwoSnapshots, {}, {m1}, 1,
       [put |-> 2, rep |-> 1, gc |-> 1, prune |-> 1, retire |-> 1, power |-> 1])}
ImportRoots ==
  {Root(None, {}, TwoSnapshots, {s1}, {}, 1,
       [import |-> 2, rep |-> 1, delete |-> 1, gc |-> 1, repair |-> 1, power |-> 1, kill |-> 1])}
Roots_ == {IdleRoots} \cup SnapshotRoots \cup RepRoots \cup ImportRoots
-----------------------------------------------------------------------------
\* The parts that are not explored have nothing to do.
NoPacks == PacksInit /\ budget = CHOOSE limit \in Budgets : TRUE
NoOwnership == /\ file = <<>> /\ data = {} /\ acked = {} /\ run = [i \in Procs |-> "gc"]
               /\ lock = [i \in Procs |-> "none"] /\ proc = [i \in Procs |-> Done(i)]
NoRoots == RootInit /\ objs = None /\ left = [op \in RootOps |-> 0]

StoreInit ==
  /\ storePart \in StoreParts
  /\ IF storePart = "packs" THEN PacksInit ELSE NoPacks
  /\ IF storePart = "ownership" THEN Init ELSE NoOwnership
  /\ IF storePart = "roots" THEN RootInit ELSE NoRoots

OnlyPacks == UNCHANGED <<storePart, vars, rootVars>>
OnlyOwnership == UNCHANGED <<storePart, packVars, rootVars>>
OnlyRoots == UNCHANGED <<storePart, packVars, vars>>

\* Uploads and commands on packs can always go on; the others may come to an end.
StoreNext ==
  \/ storePart = "packs" /\ PacksNext /\ OnlyPacks
  \/ storePart = "ownership" /\ Next /\ OnlyOwnership
  \/ storePart = "roots" /\ RootNext /\ OnlyRoots
  \/ storePart # "packs" /\ UNCHANGED storeVars

StoreSpec == StoreInit /\ [][StoreNext]_storeVars
-----------------------------------------------------------------------------
\* Types of StoreOwnership and Roots.
StoreTypes == (storePart = "ownership" => TypeOK) /\ (storePart = "roots" => RootTypeOK)
=============================================================================
