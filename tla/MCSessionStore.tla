---------------------------- MODULE MCSessionStore ----------------------------
(* Small instances of SessionStore for TLC.                                *)
EXTENDS SessionStore, TLC

Symmetry == Permutations(Procs) \cup Permutations(Sessions)
NoFaults == {}
OneOfEach == [kind : FaultKinds, nr : {1}]
=============================================================================
