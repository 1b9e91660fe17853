-------------------------- MODULE ServeProcessProofs --------------------------
(***************************************************************************)
(* Proofs about ServeProcess, for any clients of the control server: what  *)
(* serve leaves behind when it ends.                                       *)
(***************************************************************************)
EXTENDS ServeProcess, ControlServerProofs

\* Phases after the archiving, in which the session found active is over.
Archived == {"drainControl", "drainWeb", "stopProxify", "exited"}

\* serve is one of those that use the control server and the store.
LEMMA ServeServerStep ==
  ASSUME TypeOK, [Next]_vars
  PROVE  ServerStep
<1>1. Serve => ServerStep
  BY DEF Serve, ServerStep, Terminal, Elsewhere
<1>2. ASSUME ArchiveActive PROVE ServerStep
  <2>1. CASE UNCHANGED <<open, outcome>>
    <3>1. UNCHANGED controlVars
      BY <1>2, <2>1 DEF ArchiveActive, controlVars, storeVars
    <3>2. QED
      BY <3>1 DEF ServerStep
  <2>2. CASE open # None /\ Store!Close(open, "completed")
    <3>1. open \in Sessions
      BY <2>2 DEF TypeOK, ControlTypeOK, Store!LifecycleTypeOK
    <3>2. QED
      BY <1>2, <2>2, <3>1 DEF ArchiveActive, ServerStep, Elsewhere
  <2>3. QED
    BY <1>2, <2>1, <2>2 DEF ArchiveActive
<1>3. ASSUME \/ EnsureProxify \/ ReadBack \/ Setup \/ OpenPage \/ ClosePage \/ OtherProxify \/ WebBreaks \/ Signal
             \/ PeekActive \/ DrainControl \/ DrainWeb \/ StopProxify \/ UNCHANGED vars
      PROVE  UNCHANGED controlVars
  BY <1>3 DEF EnsureProxify, ReadBack, Setup, OpenPage, ClosePage, OtherProxify, WebBreaks, Signal, PeekActive,
     DrainControl, DrainWeb, StopProxify, vars
<1>4. QED
  BY <1>1, <1>2, <1>3 DEF Next, Shutdown, ServerStep

\* serve's own variables keep their types: the Proxify it knows as its own is the one
\* it has started.
LEMMA ServeTypes ==
  ASSUME TypeOK, ControlTypeOK', [Next]_vars
  PROVE  TypeOK'
<1> USE Nothing DEF TypeOK, Phases, Ended, proxifyVars, vars, serveVars, Next, Shutdown, EnsureProxify,
      ReadBack, Setup, Serve, OpenPage, ClosePage, OtherProxify, WebBreaks, Signal, PeekActive,
      ArchiveActive, DrainControl, DrainWeb, StopProxify
<1>1. /\ phase' \in Phases
      /\ noted' # None => phase' \in {"archive", "drainControl", "drainWeb", "stopProxify"} \cup Ended
  OBVIOUS
<1>2. noted' \in Sessions \cup {None}
  BY DEF ControlTypeOK, Store!LifecycleTypeOK
<1>3. record' \in {"none", "ours", "other"} /\ mine' \in {"none", "ours", "other"}
  OBVIOUS
<1>4. page' \in BOOLEAN
  OBVIOUS
<1>5. runs' \in BOOLEAN
  BY Zenon
<1>6. runs' /\ phase' \notin {"readBack", "failed"} => mine' # "none"
  OBVIOUS
<1>7. QED
  BY <1>1, <1>2, <1>3, <1>4, <1>5, <1>6, Zenon

\* Only the archiving, which ends whatever is open, leads to the later phases; what
\* is over stays over.
LEMMA NotedStep ==
  ASSUME TypeOK, ControlInv, NotedInv, [Next]_vars
  PROVE  NotedInv'
<1> USE Nothing
<1>1. /\ noted \in Sessions \cup {None}
      /\ noted # None /\ outcome[noted] # "new" => outcome'[noted] # "new"
      /\ noted # None /\ outcome[noted] \in Over => outcome'[noted] \in Over
  BY ServeServerStep, History DEF TypeOK, ControlInv
<1>2. ASSUME UNCHANGED noted, phase' \in Archived => phase \in Archived
      PROVE  NotedInv'
  BY <1>1, <1>2 DEF NotedInv, Archived
<1>3. CASE EnsureProxify \/ ReadBack \/ Setup \/ WebBreaks \/ Signal
  BY <1>2, <1>3 DEF EnsureProxify, ReadBack, Setup, WebBreaks, Signal, Archived
<1>4. CASE Serve \/ OtherProxify \/ OpenPage \/ ClosePage \/ UNCHANGED vars
  BY <1>2, <1>4 DEF Serve, OtherProxify, OpenPage, ClosePage, vars, serveVars
<1>5. CASE DrainControl \/ DrainWeb \/ StopProxify
  BY <1>2, <1>5 DEF DrainControl, DrainWeb, StopProxify, Archived
<1>6. CASE PeekActive
  <2>1. CASE noted' = open /\ phase' = IF open = None THEN "drainControl" ELSE "archive"
    <3>1. open # None => outcome[open] = "open"
      BY DEF ControlInv, OpenInv, ControlTypeOK, Store!LifecycleTypeOK
    <3>2. QED
      BY <1>6, <2>1, <3>1 DEF PeekActive, NotedInv, controlVars, storeVars
  <2>2. CASE phase' = "failed" /\ UNCHANGED noted
    BY <1>2, <2>2 DEF Archived
  <2>3. QED
    BY <1>6, <2>1, <2>2 DEF PeekActive
<1>7. CASE ArchiveActive
  <2>1. UNCHANGED noted
    BY <1>7 DEF ArchiveActive
  <2>2. CASE phase' = "failed"
    BY <1>2, <2>1, <2>2 DEF Archived
  <2>3. CASE open # None /\ Store!Close(open, "completed")
    <3>1. noted # None => outcome[noted] \in Over \/ noted = open
      BY <1>1 DEF NotedInv, ControlInv, OpenInv
    <3>2. noted # None => outcome'[noted] \in Over
      BY <1>1, <2>3, <3>1 DEF Over, Store!Close, TypeOK, ControlTypeOK, Store!LifecycleTypeOK
    <3>3. QED
      BY <1>1, <2>1, <3>2 DEF NotedInv, Over
  <2>4. QED
    BY <1>7, <2>2, <2>3 DEF ArchiveActive
<1>8. QED
  BY <1>3, <1>4, <1>5, <1>6, <1>7 DEF Next, Shutdown

-----------------------------------------------------------------------------
\* Types, the control server's invariant, the fate of the session found active.
THEOREM ServeInvHolds == Spec => []ServeInv
<1>1. Init => ServeInv
  <2>1. ASSUME Init PROVE ControlInv
    BY <2>1, ControlStart DEF Init
  <2>2. ASSUME Init PROVE TypeOK /\ NotedInv
    BY <2>1, <2>2, Nothing DEF Init, TypeOK, Phases, Ended, NotedInv, ControlInv
  <2>3. QED
    BY <2>1, <2>2 DEF ServeInv
<1>2. ASSUME ServeInv, [Next]_vars PROVE ServeInv'
  <2>1. TypeOK /\ ControlInv /\ NotedInv
    BY <1>2 DEF ServeInv
  <2>2. ControlInv'
    BY <1>2, <2>1, ControlStep, ServeServerStep
  <2>3. TypeOK'
    BY <1>2, <2>1, <2>2, ServeTypes DEF ControlInv
  <2>4. QED
    BY <1>2, <2>1, <2>2, <2>3, NotedStep DEF ServeInv
<1>3. QED
  BY <1>1, <1>2, PTL DEF Spec

\* serve stops its Proxify only after the session it found active is over.
THEOREM ArchivedFirst == Spec => ArchivedBeforeProxifyStops
<1>1. ASSUME ServeInv, ServeStopsProxifyNow PROVE noted = None \/ outcome[noted] \in Over
  BY <1>1 DEF ServeInv, NotedInv, ServeStopsProxifyNow
<1>2. ServeInv /\ [Next]_vars
        => [ServeStopsProxifyNow => noted = None \/ outcome[noted] \in Over]_vars
  BY <1>1
<1>3. QED
  BY <1>2, ServeInvHolds, PTL DEF Spec, ArchivedBeforeProxifyStops

\* What the clients of this server are told is and stays true, up to its end.
THEOREM ServeAnswersTrue == Spec => []AnswersAreTrue
<1>1. ServeInv => AnswersAreTrue
  BY AnswersFollow DEF ServeInv
<1>2. QED
  BY <1>1, ServeInvHolds, PTL
=============================================================================
