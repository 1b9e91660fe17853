--------------------------- MODULE MCProxifyProcess ---------------------------
(* Small instances for TLC of the three modules about Proxify.  They share no  *)
(* variable, so a step of one says nothing of the others: one run explores     *)
(* each while the others rest, which ProxifySpec allows.                       *)
EXTENDS Proxify, TLC

VARIABLE part

allVars == <<vars, bodyVars, logVars, part>>

MCInit ==
  /\ Init /\ LogInit
  /\ \/ part \in {"process", "log"} /\ BodyInit /\ side = "request" /\ kind = CHOOSE k \in BodyKinds : TRUE
     \/ part = "body" /\ BodyInit

MCNext ==
  \/ part = "process" /\ Next /\ UNCHANGED <<bodyVars, logVars, part>>
  \/ part = "body" /\ BodyNext /\ UNCHANGED <<vars, logVars, part>>
  \/ part = "log" /\ LogNext /\ UNCHANGED <<vars, bodyVars, part>>

MCSpec == MCInit /\ [][MCNext]_allVars

\* Empty, of unknown and of known length, and longer than what is kept.
MCBodies == [declared : {-1}, size : 0..3] \cup {[declared |-> n, size |-> n] : n \in 0..3}

Symmetry == Permutations(Procs) \cup Permutations(Instances) \cup Permutations(Exchanges)
=============================================================================
