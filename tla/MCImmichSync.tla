---------------------------- MODULE MCImmichSync ----------------------------
(* Instances of ImmichSync for TLC.  The directories are interchangeable.  *)
EXTENDS ImmichSync, TLC

DirSymmetry == Permutations(Dir)

=============================================================================
