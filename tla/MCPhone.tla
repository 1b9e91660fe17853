-------------------------------- MODULE MCPhone --------------------------------
(* Small instances of Phone for TLC.                                         *)
EXTENDS Phone, TLC

Symmetry == Permutations(Handlers) \cup Permutations(Commands) \cup Permutations(Sessions)
================================================================================
