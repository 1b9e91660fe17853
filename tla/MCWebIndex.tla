------------------------------- MODULE MCWebIndex -------------------------------
(* Small instances of WebIndex for TLC.                                       *)
EXTENDS WebIndex
=================================================================================
