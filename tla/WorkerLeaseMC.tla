--------------------------- MODULE WorkerLeaseMC ---------------------------
(* WorkerLease for TLC: the processes are interchangeable.                 *)
EXTENDS WorkerLease, TLC

Interchangeable == Permutations(Nodes)
=============================================================================
