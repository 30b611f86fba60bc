----------------------------- MODULE MCHistory -----------------------------
(***************************************************************************)
(* Instances for TLC of what the store keeps beside the snapshot: Content,  *)
(* over Archive, and Projections, which share nothing, in one run (part).   *)
(***************************************************************************)
EXTENDS Content, TLC

CONSTANTS a1, a2, b1, r1, r2, m1, m2, m3, m4, m5, c1, c2, e1, v1, v2,
          Staff, Processes, MaxRevision, MaxDescribed

OneActor == {a1}
TwoReqs  == {r1, r2}
Five     == {m1, m2, m3, m4, m5}
Ends     == (r1 :> m3) @@ (r2 :> m4)
Symmetric == Permutations({c1, c2})

\* Ids that differ only in their name are taken in one order.
InOrder ==
  /\ m2 \in Accepted' => m1 \in Accepted
  /\ m5 \in Accepted' => m2 \in Accepted
  /\ request'[r2].st # "None" => request[r1].st # "None"

VARIABLES part,  \* "archive", "requests" or "projections"
          row, teams, actors, requests, manifest, activity, anchor, credit, frozen,
          loaded, described

\* Two teams; b1 is of the second one.
P == INSTANCE Projections WITH
  Teams <- {"t", "u"}, Actors <- Staff,
  TeamOf <- [a \in Staff |-> IF a = b1 THEN "u" ELSE "t"],
  Requests <- {r1}, Clients <- Processes,
  team <- teams, actor <- actors, request <- requests

\* A team of one member is the member: only notices are addressed to the team.
ToTheMember == \A m \in Messages :
  mailbox'[m] # NoDelivery /\ mailbox'[m].target = "Team" => mailbox'[m].kind = "Notice"

\* A replacement in a team that has accepted work of an earlier generation: only
\* ProjectionsOnly has it too, and SummariesFollow fails under it.
Adopts == \E r \in {r1} :
  /\ P!Historical(requests[r], teams) /\ ~P!Terminal(requests[r])
  /\ teams'[requests[r].team].epoch # teams[requests[r].team].epoch
  /\ teams[requests[r].team].status = "Active"

projectionVars == <<row, teams, actors, requests, manifest, activity, anchor, credit,
                    frozen, loaded, described>>
historyPartVars == <<allVars, contentVars>>
HistoryVars == <<part, historyPartVars, projectionVars>>

HistoryInit ==
  part \in {"archive", "requests", "projections"} /\ ContentInit /\ P!Init

\* One request, two messages and its last one, of every kind, over two generations of
\* the team, which is neither paused nor silent (MCMailbox has that); the first one is
\* sent and acknowledged again.
OneRequest ==
  /\ primary' /\ ToTheMember /\ request'[r2].st = "None" /\ m5 \notin Accepted'
  /\ team'.status # "Paused" /\ member'[a1].status # "Stale"
ArchivePart ==
  /\ part = "archive" /\ ContentNext(OneRequest /\ InOrder)
  /\ client'.msg \in {Nothing, m1} /\ evidence' = evidence
  /\ UNCHANGED <<part, projectionVars>>

\* Two requests, their dependencies, decisions and evidence, under two Primaries, in one
\* generation of the team, whose member reads its messages in order.
ReadsInOrder(m) == \A n \in Hot :
  AcceptedAt(n) < AcceptedAt(m) => mailbox[n].acks # {}
Exchange ==
  \/ \E m \in Messages, r \in Requests : Ask(m, r, a1)
  \/ \E m \in Messages, r \in Requests, st \in {"Blocking", "Settled", "Terminal"} :
       (st = "Terminal" => m = Ends[r]) /\ Outcome(m, r, a1, st)
  \/ \E m \in Accepted : ReadsInOrder(m) /\ Acknowledge(m, a1)
  \/ (\A m \in Hot : Unread(mailbox[m]) = {}) /\ LosePrimary
  \/ ActivatePrimary
RequestsPart ==
  /\ part = "requests" /\ Loads
  /\ \/ Mutation(Exchange /\ InOrder /\ UNCHANGED about)
     \/ \E m \in Messages, r, q \in Requests : Mutation(Depend(m, r, q) /\ InOrder)
  /\ PersistNew /\ (evidence' # evidence => evidence'[e1] = v1 \/ e1 \in DOMAIN evidence)
  /\ UNCHANGED <<part, projectionVars>>

\* Two clients overlap in the first two mutations, and the others come one by one.
Overlapping == row'.rev < 2 \/ \E c \in Processes : loaded'[c] = Nothing
ProjectionsPart == part = "projections" /\ P!Next /\ Overlapping
                   /\ UNCHANGED <<part, historyPartVars>>

HistorySpec == HistoryInit /\
  [][ArchivePart \/ RequestsPart \/ (ProjectionsPart /\ ~Adopts)]_HistoryVars

\* The parts alone.
ArchiveOnly     == HistoryInit /\ part = "archive" /\ [][ArchivePart]_HistoryVars
RequestsOnly    == HistoryInit /\ part = "requests" /\ [][RequestsPart]_HistoryVars
ProjectionsOnly == HistoryInit /\ part = "projections" /\ [][ProjectionsPart]_HistoryVars

-----------------------------------------------------------------------------
\* Archiving loses and repeats nothing: the rows verify, whoever sends or acknowledges
\* an archived message again finds it, and what it said is kept (ArchiveVerifies,
\* RetryIsRecognised, ContentIsKept).
HistoryIsFaithful == ArchiveVerifies /\ RetryIsRecognised /\ ContentIsKept

\* Whatever describing transactions come between a load and its commit, the
\* checkpoints in the snapshot and the manifests never part, which would leave an
\* incident for ever; and the counts the aggregate keeps up message by message,
\* hand-off by hand-off and through every close and re-creation are those the snapshot
\* implies, each change of a team's count recorded
\* (domain_or_observability_changed_since_load, update_request_observability,
\* observe_accepted, verify_team_activity_rows).
SummariesFollow ==
  row.facts = manifest.facts /\ row.gens = manifest.gens /\ P!SummariesVerify

\* Every completed request is credited once, to the generation that did it, which
\* is known to have begun before (update_request_observability,
\* verify_completed_assignment_rows, verify_observability_fact_chain).
CompletionsAreCreditedOnce ==
  P!CreditsVerify /\ P!CountersVerify /\ P!FactsVerify /\ P!FrozenVerify

\* verify_actor_generation_rows: the recorded generation of every actor is one of
\* its team's current generation.
GenerationsAreAnchored == P!GenerationsVerify
=============================================================================
