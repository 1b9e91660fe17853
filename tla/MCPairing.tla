------------------------------- MODULE MCPairing -------------------------------
(* Small instances of Pairing for TLC.                                        *)
EXTENDS Pairing, TLC

Symmetry == Permutations(Procs) \cup Permutations(Devices) \cup Permutations(Phones)
=============================================================================
