----------------------------- MODULE RequestIndex -----------------------------
(***************************************************************************)
(* What the index of requests promises, commit by commit, to those who     *)
(* read it: the event stream, the page and the exports.  The requests of a *)
(* session only grow, unless its reset epoch is raised by one and they are *)
(* read anew; a session that is removed loses them and its epoch, which    *)
(* then starts from nothing.                                               *)
(***************************************************************************)
EXTENDS Naturals, Sequences, SequencesExt

CONSTANT Indexed  \* sessions

VARIABLES rows,   \* requests of every session, in the order of their ids
          epoch   \* reset epoch of every session, 0 when it has none

contractVars == <<rows, epoch>>

\* An index that is found may hold anything.
Init ==
  /\ rows \in [Indexed -> Seq(Nat)]
  /\ epoch \in [Indexed -> Nat]
  /\ \A s \in Indexed : epoch[s] = 0 => rows[s] = <<>>

\* One commit concerns one session.
Commit(s) ==
  /\ rows' = [rows EXCEPT ![s] = rows'[s]] /\ rows'[s] \in Seq(Nat)
  /\ epoch' = [epoch EXCEPT ![s] = epoch'[s]]

\* Only a session that has been read once grows.
Grow(s) == Commit(s) /\ epoch[s] > 0 /\ epoch'[s] = epoch[s] /\ IsPrefix(rows[s], rows'[s])

Reset(s) == Commit(s) /\ epoch'[s] = epoch[s] + 1

Forget(s) == Commit(s) /\ epoch'[s] = 0 /\ rows'[s] = <<>>

Next == \E s \in Indexed : Grow(s) \/ Reset(s) \/ Forget(s)

Spec == Init /\ [][Next]_contractVars
=============================================================================
