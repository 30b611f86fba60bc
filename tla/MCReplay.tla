------------------------------ MODULE MCReplay ------------------------------
(***************************************************************************)
(* Instances of Replay for TLC.                                            *)
(***************************************************************************)
EXTENDS Replay, TLC

CONSTANTS p1, e1, e2, t1, t2, d1, d2

TwoTeams == (e1 :> t1) @@ (e2 :> t2)

\* Two teams of one executor each are interchangeable with their executors,
\* and so are the decision ids.
TeamSymmetry ==
  Permutations({d1, d2}) \cup
  {f \in Permutations({e1, e2, t1, t2}) : \A e \in {e1, e2} :
     f[e] \in {e1, e2} /\ f[TwoTeams[e]] = TwoTeams[f[e]]}

\* A consultation shares nothing with a request: it is tried without one.
Apart == (\E c \in Consultation : consulted[c] # None) => Created = {}
=============================================================================
