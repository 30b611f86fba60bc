---------------------------- MODULE MCSupervisor ----------------------------
(***************************************************************************)
(* Instances of Supervisor and of the rows of a review session for TLC.     *)
(* They share no state: a behaviour exercises one, and `part` says which.   *)
(***************************************************************************)
EXTENDS Supervisor, ReviewRecords, TLC

CONSTANTS p1, p2, e1, t1, s1, s2, d1, d2

OneTeam == e1 :> t1

VARIABLE part

ReviewInit == part \in {"aggregate", "rows"} /\ Init /\ RecordsInit
ReviewNext ==
  \/ part = "aggregate" /\ Next /\ UNCHANGED <<part, recordVars>>
  \/ part = "rows" /\ RecordsNext /\ UNCHANGED <<part, vars>>
ReviewSpec == ReviewInit /\ [][ReviewNext]_<<part, vars, recordVars>>

\* Commits, decision ids and Primaries are interchangeable.
ReviewSymmetry ==
  Permutations({p1, p2}) \cup Permutations({s1, s2}) \cup Permutations({d1, d2})
=============================================================================
