----------------------------- MODULE MCDatabase -----------------------------
(* Instances of Database for TLC.  The processes are interchangeable, and  *)
(* so are the entries.                                                     *)
EXTENDS Database, TLC

Symmetry == Permutations(Process) \cup Permutations(Entry)

=============================================================================
