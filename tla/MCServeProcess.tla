---------------------------- MODULE MCServeProcess ----------------------------
(* Small instances of ServeProcess for TLC.                                *)
EXTENDS ServeProcess, TLC

Symmetry == Permutations(Handlers) \cup Permutations(Commands) \cup Permutations(Sessions)
=============================================================================
