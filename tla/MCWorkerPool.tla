---------------------------- MODULE MCWorkerPool ----------------------------
(* Two keys and three workers: a key can be dispatched again while its     *)
(* killed worker still runs and the other key is busy.                     *)
EXTENDS WorkerPool, TLC

Symmetry == Permutations(Workers) \cup Permutations(Keys) \cup Permutations(Passes)

=============================================================================
