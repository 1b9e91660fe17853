-------------------------------- MODULE Proxify --------------------------------
(***************************************************************************)
(* The Proxify that httpCapture embeds and manages: its process            *)
(* (ProxifyProcess), the bodies that pass through it (BodyCapture) and the *)
(* file it writes (TransactionLog).  The three share no variable, so each  *)
(* of them goes on whatever the others do.                                 *)
(***************************************************************************)
EXTENDS ProxifyProcess, BodyCapture, TransactionLog

ProxifySpec == Spec /\ BodySpec /\ LogSpec

\* What is known in the middle of every operation, of every body and of every
\* archiving: the inductive invariants of the three.
ProxifyInv == ProcessInv /\ BodyInv /\ LogInv
=============================================================================
