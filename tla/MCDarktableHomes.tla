-------------------------- MODULE MCDarktableHomes --------------------------
(* Instances of DarktableHomes for TLC.  The exports are interchangeable.  *)
EXTENDS DarktableHomes, TLC

TaskSymmetry == Permutations(Task)

=============================================================================
