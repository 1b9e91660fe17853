--------------------------- MODULE CaptureLifecycle ---------------------------
(***************************************************************************)
(* What the capture-session store promises to its callers, without files,  *)
(* locks, processes or engines.  A session is opened once, at most one is  *)
(* open at any time, and an open session ends exactly once: completed,     *)
(* abandoned or, once the environment has destroyed state, lost.           *)
(***************************************************************************)
CONSTANTS Sessions,  \* capture ids
          None       \* "no session"

VARIABLES open,      \* the open session, or None
          outcome,   \* what became of every session
          mayLose    \* a crash or a failed write may have destroyed state

lifecycleVars == <<open, outcome, mayLose>>

Final == {"completed", "abandoned", "lost"}

Init ==
  /\ open = None
  /\ outcome = [s \in Sessions |-> "new"]
  /\ mayLose = FALSE

\* A start that was accepted.
Open(s) ==
  /\ open = None
  /\ outcome[s] = "new"
  /\ open' = s
  /\ outcome' = [outcome EXCEPT ![s] = "open"]

\* A stop or an abandon that went through.
Close(s, how) ==
  /\ open = s
  /\ open' = None
  /\ outcome' = [outcome EXCEPT ![s] = how]

Lose(s) == mayLose' /\ Close(s, "lost")

Move ==
  \E s \in Sessions :
     \/ Open(s)
     \/ Close(s, "completed")
     \/ Close(s, "abandoned")
     \/ Lose(s)

Next ==
  /\ Move \/ UNCHANGED <<open, outcome>>
  /\ mayLose' \in {mayLose, TRUE}

Spec == Init /\ [][Next]_lifecycleVars

-----------------------------------------------------------------------------
LifecycleTypeOK ==
  /\ open \in Sessions \cup {None}
  /\ outcome \in [Sessions -> {"new", "open"} \cup Final]
  /\ mayLose \in BOOLEAN

\* The open session is the one that has not ended, and none is lost unless state
\* was destroyed.
LifecycleInv ==
  /\ LifecycleTypeOK
  /\ \A s \in Sessions : /\ outcome[s] = "open" <=> open = s
                         /\ outcome[s] = "lost" => mayLose

\* A session that was opened is never new again, and one that has ended stays as it
\* ended: nobody reopens it, and a stop is never turned into an abandon.
EndsForGood ==
  [][\A s \in Sessions : /\ outcome[s] # "new" => outcome'[s] # "new"
                         /\ outcome[s] \in Final => outcome'[s] = outcome[s]]_lifecycleVars
=============================================================================
