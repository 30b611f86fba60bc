---------------------------- MODULE Transitions ----------------------------
(***************************************************************************)
(* The four state machines of agsv-core (transitions.rs).  Each is a       *)
(* table: an event is legal in the statuses the first table lists and      *)
(* leads to the status the second one names.  A pair that a table does not *)
(* list is the source's `InvalidTransition` error.                         *)
(***************************************************************************)

RequestStatus ==
  {"Assigned", "InProgress", "Blocked", "CandidateReady", "ChangesRequested",
   "Accepted", "IntegrationAuthorized", "Completed", "Cancelled"}

RunStatus ==
  {"Active", "Paused", "Blocked", "AwaitingReview", "RevisionRequested",
   "Accepted", "Authorized", "Completed", "Cancelled"}

ActorStatus == {"Absent", "Healthy", "Stale", "Revoked", "Stopped"}

TeamStatus == {"Absent", "Active", "Paused", "Closing", "Closed"}

IsTerminal(s) == s \in {"Cancelled", "Completed"}

\* Work that still needs its team: accepted and authorized work does not.
BlocksTeamClose(s) ==
  s \notin {"Accepted", "IntegrationAuthorized", "Cancelled", "Completed"}

-----------------------------------------------------------------------------
Workable == {"Assigned", "InProgress", "Blocked", "ChangesRequested"}

RequestFrom ==
  [Start     |-> Workable,
   Block     |-> Workable,
   Submit    |-> Workable \cup {"CandidateReady"},
   Reject    |-> {"CandidateReady", "ChangesRequested"},
   Accept    |-> {"CandidateReady", "Accepted"},
   Authorize |-> {"Accepted", "IntegrationAuthorized"},
   Complete  |-> {"IntegrationAuthorized", "Completed"},
   Cancel    |-> RequestStatus \ {"Completed"}]

RequestTo ==
  [Start     |-> "InProgress",
   Block     |-> "Blocked",
   Submit    |-> "CandidateReady",
   Reject    |-> "ChangesRequested",
   Accept    |-> "Accepted",
   Authorize |-> "IntegrationAuthorized",
   Complete  |-> "Completed",
   Cancel    |-> "Cancelled"]

\* The event a run takes with the request event of the same name; `Start` of
\* a request is `Resume` of its run, and `Pause` moves the run alone.
RunFrom ==
  [Start     |-> {"Paused", "Blocked", "RevisionRequested", "Active"},
   Pause     |-> {"Active", "Paused"},
   Block     |-> {"Active", "Blocked"},
   Submit    |-> {"Active", "Blocked", "AwaitingReview", "RevisionRequested"},
   Reject    |-> {"AwaitingReview", "RevisionRequested"},
   Accept    |-> {"AwaitingReview", "Accepted"},
   Authorize |-> {"Accepted", "Authorized"},
   Complete  |-> {"Authorized", "Completed"},
   Cancel    |-> RunStatus \ {"Completed"}]

RunTo ==
  [Start     |-> "Active",
   Pause     |-> "Paused",
   Block     |-> "Blocked",
   Submit    |-> "AwaitingReview",
   Reject    |-> "RevisionRequested",
   Accept    |-> "Accepted",
   Authorize |-> "Authorized",
   Complete  |-> "Completed",
   Cancel    |-> "Cancelled"]

-----------------------------------------------------------------------------
\* Staying put is always legal for an actor or a team.
ActorCan(from, to) ==
  \/ from = to
  \/ from = "Stale" /\ to \in {"Healthy", "Revoked", "Stopped"}
  \/ from = "Healthy" /\ to \in {"Stale", "Revoked", "Stopped"}
  \/ from = "Revoked" /\ to = "Stopped"

TeamCan(from, to) ==
  \/ from = to
  \/ from = "Active" /\ to \in {"Paused", "Closing"}
  \/ from = "Paused" /\ to \in {"Active", "Closing"}
  \/ from = "Closing" /\ to = "Closed"
=============================================================================
