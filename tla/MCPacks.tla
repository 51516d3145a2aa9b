------------------------------- MODULE MCPacks -------------------------------
(* Instances of Packs for TLC.                                             *)
EXTENDS Packs, TLC

CONSTANTS a, b

\* They share a chunk, so that deleting one leaves a pack partly dead.
Sharing == {{a}, {a, b}}

Budget(atOnce, uploads, commands, rots, deflate, failures) ==
  [atOnce |-> atOnce, uploads |-> uploads, commands |-> commands, rots |-> rots,
   deflate |-> deflate, failures |-> failures]

PowerLost == {"error", "kill", "power"}
KilledAnywhere == {"error", "kill", "unsyncedExit"}

\* Concurrent uploads and one command; two commands in a row over what two
\* uploads left; two commands with a damaged copy; compressed packs; and
\* processes that end between a rename and its fsync, with the power on.
Bounds == {Budget(2, 3, 1, 0, {FALSE}, PowerLost),
           Budget(1, 2, 2, 0, {FALSE}, PowerLost),
           Budget(1, 1, 2, 1, {FALSE}, PowerLost),
           Budget(1, 1, 2, 0, BOOLEAN, PowerLost),
           Budget(1, 2, 1, 0, {FALSE}, KilledAnywhere),
           Budget(1, 1, 2, 0, {FALSE}, KilledAnywhere)}

\* One upload, so that what is lost is lost by a command.
OneUpload == {Budget(1, 1, 2, 0, {FALSE}, {"kill", "power", "unsyncedExit"})}
=============================================================================
