--------------------------- MODULE MCMeshScheduler ---------------------------
(***************************************************************************)
(* Small instances of MeshScheduler.                                       *)
(***************************************************************************)
EXTENDS MeshScheduler, TLC

\* Shards and sequences are interchangeable; workers too where the run has more
\* than one.  Instances are numbers, and are not.
Symmetry == Permutations(Sequences) \cup Permutations(Shards) \cup Permutations(Workers)
=============================================================================
