--------------------------- MODULE MCDeviceRegistry ---------------------------
(* Small instances of DeviceRegistry for TLC.                              *)
EXTENDS DeviceRegistry, TLC

Symmetry == Permutations(Procs) \cup Permutations(Devices)
=============================================================================
