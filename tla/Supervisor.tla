----------------------------- MODULE Supervisor -----------------------------
(***************************************************************************)
(* The workspace aggregate of agsv-core (supervisor.rs): the Primary lease, *)
(* teams and actor generations, request ownership, review and integration,  *)
(* two-phase handoff, and the fences every accepted envelope passes.        *)
(*                                                                         *)
(* An action is one call of the aggregate.  A refused call changes nothing, *)
(* so only accepted calls appear; stale and misaddressed envelopes are      *)
(* among those `Accept` is offered.                                         *)
(***************************************************************************)
EXTENDS Naturals, Sequences, Transitions

CONSTANTS
  Primary,             \* actor ids with the human_facing_primary capability
  Executor,            \* actor ids with the implementation capability
  Team,
  HomeTeam,            \* the team an executor id is registered under
  Request,             \* request ids; the run of a request shares its id
  Sha,                 \* candidate commits
  DecisionId,
  HandoffId,
  None,                \* an absent value
  MaxPrimaryEpoch,     \* where each epoch type is exhausted
  MaxActorEpoch,
  MaxTeamEpoch,
  MaxAssignmentEpoch

ASSUME ActorAssumption ==
  /\ Primary \cap Executor = {}
  /\ None \notin Primary \cup Executor
  /\ HomeTeam \in [Executor -> Team]

ASSUME EpochAssumption ==
  /\ MaxPrimaryEpoch \in Nat \ {0}
  /\ MaxActorEpoch \in Nat \ {0}
  /\ MaxTeamEpoch \in Nat \ {0}
  /\ MaxAssignmentEpoch \in Nat \ {0}

Actor == Primary \cup Executor
ActorRef == [id : Actor, epoch : 1..MaxActorEpoch]
Candidate == [sha : Sha, by : ActorRef]
Verdict == {"Accept", "Reject"}
Decision == [id : DecisionId, verdict : Verdict, candidate : Candidate]
Authorization == [id : DecisionId, candidate : Candidate]
Assignment == [actor : ActorRef, epoch : 1..MaxAssignmentEpoch]

Unregistered == [status |-> "Absent", epoch |-> 0]
ActorState == {Unregistered} \cup
  [status : ActorStatus \ {"Absent"}, epoch : 1..MaxActorEpoch]
TeamState ==
  [status : TeamStatus, epoch : 0..MaxTeamEpoch, actors : SUBSET Executor]

RequestState ==
  [status : RequestStatus, team : Team, teamEpoch : 1..MaxTeamEpoch,
   assignment : Assignment,
   candidate : Candidate \cup {None}, history : Seq(Candidate),
   rejections : Nat,
   decision : Decision \cup {None}, authorization : Authorization \cup {None}]

RunState ==
  [status : RunStatus, team : Team, teamEpoch : 1..MaxTeamEpoch,
   assignment : Assignment]

PendingHandoff ==
  [id : HandoffId, request : Request, from : Team, to : Team,
   candidate : Candidate \cup {None}, by : ActorRef,
   epoch : 1..MaxAssignmentEpoch]

\* An envelope's addressing and fences.  The policy revision is constant, and
\* an accepted message is never applied twice (its id is in the mailbox).
Envelope ==
  [sender : ActorRef, primaryEpoch : 1..MaxPrimaryEpoch,
   team : Team, teamEpoch : 1..MaxTeamEpoch,
   request : Request, assignmentEpoch : (1..MaxAssignmentEpoch) \cup {None}]

ASSUME NoneAssumption ==
  None \notin RequestState \cup RunState \cup Candidate \cup Decision
             \cup Authorization \cup Nat

VARIABLES
  primaryEpoch, activePrimary,        \* the Primary lease
  actor, team,                        \* registries
  request, run, handoffs,             \* owned work
  decided,                            \* decision ids in the mailbox
  leaseUses, assignmentUses           \* fences of the accepted messages

lease == <<primaryEpoch, activePrimary>>
registry == <<actor, team>>
work == <<request, run, handoffs, decided>>
uses == <<leaseUses, assignmentUses>>
vars == <<lease, registry, work, uses>>

TypeOK ==
  /\ primaryEpoch \in 1..MaxPrimaryEpoch
  /\ activePrimary \in Primary \cup {None}
  /\ actor \in [Actor -> ActorState]
  /\ team \in [Team -> TeamState]
  /\ request \in [Request -> RequestState \cup {None}]
  /\ run \in [Request -> RunState \cup {None}]
  /\ handoffs \in SUBSET PendingHandoff
  /\ decided \in SUBSET DecisionId
  /\ leaseUses \in SUBSET [sender : ActorRef, epoch : 1..MaxPrimaryEpoch]
  /\ assignmentUses \in SUBSET
       [request : Request, sender : ActorRef, epoch : 1..MaxAssignmentEpoch]

Init ==
  /\ primaryEpoch = 1
  /\ activePrimary = None
  /\ actor = [a \in Actor |-> Unregistered]
  /\ team = [t \in Team |-> [status |-> "Absent", epoch |-> 0, actors |-> {}]]
  /\ request = [r \in Request |-> None]
  /\ run = [r \in Request |-> None]
  /\ handoffs = {}
  /\ decided = {}
  /\ leaseUses = {}
  /\ assignmentUses = {}

Ref(a) == [id |-> a, epoch |-> actor[a].epoch]
Created == {r \in Request : request[r] # None}
IsCurrent(ref) == actor[ref.id].epoch = ref.epoch

\* An epoch that is used up refuses the call that would advance it.
\* (A definition whose name has a suffix after the name of the next one is a
\* faulty variant of it: a bug the runs are able to tell from the code.)
HasGeneration_OffByOne(a) == actor[a].epoch \leq MaxActorEpoch
HasGeneration(a) == actor[a].epoch < MaxActorEpoch
NextGeneration(a) == [status |-> "Healthy", epoch |-> actor[a].epoch + 1]
NextAssignment_Reused(ref, epoch) == [actor |-> ref, epoch |-> epoch]
NextAssignment(ref, epoch) == [actor |-> ref, epoch |-> epoch + 1]

-----------------------------------------------------------------------------
(* The Primary lease and actor presence.                                   *)

AdvanceLease_Lost == UNCHANGED primaryEpoch
AdvanceLease ==
  /\ primaryEpoch < MaxPrimaryEpoch
  /\ primaryEpoch' = primaryEpoch + 1

\* A repeated activation of the healthy active Primary changes nothing.  A
\* different active Primary is revoked and the lease epoch moves past it.
ActivatePrimary(p) ==
  /\ activePrimary # p
  /\ HasGeneration(p)
  /\ activePrimary' = p
  /\ IF activePrimary = None
     THEN /\ actor' = [actor EXCEPT ![p] = NextGeneration(p)]
          /\ UNCHANGED primaryEpoch
     ELSE /\ ActorCan(actor[activePrimary].status, "Revoked")
          /\ AdvanceLease
          /\ actor' = [actor EXCEPT ![activePrimary].status = "Revoked",
                                    ![p] = NextGeneration(p)]
  /\ UNCHANGED <<team, work, uses>>

LosesLease_OnlyStopped(id, status) ==
  activePrimary = id /\ status = "Stopped"
LosesLease(id, status) == activePrimary = id /\ status # "Healthy"

\* Presence loss (Stale), stop, and the heartbeat that undoes Stale.
SetActorStatus(ref, status) ==
  /\ IsCurrent(ref)
  /\ actor[ref.id].status # "Absent"
  /\ ActorCan(actor[ref.id].status, status)
  /\ status = "Healthy" /\ ref.id \in Primary => activePrimary = ref.id
  /\ actor' = [actor EXCEPT ![ref.id].status = status]
  /\ IF LosesLease(ref.id, status)
     THEN AdvanceLease /\ activePrimary' = None
     ELSE UNCHANGED lease
  /\ UNCHANGED <<team, work, uses>>

-----------------------------------------------------------------------------
(* Teams and executor generations.                                         *)

\* A closed team is created again as an empty generation.
CreateTeam(t) ==
  /\ team[t].status \in {"Absent", "Closed"}
  /\ team[t].epoch < MaxTeamEpoch
  /\ team' = [team EXCEPT ![t] =
       [status |-> "Active", epoch |-> team[t].epoch + 1, actors |-> {}]]
  /\ UNCHANGED <<lease, actor, work, uses>>

SetTeamStatus(t, status) ==
  /\ team[t].status # "Absent"
  /\ TeamCan(team[t].status, status)
  /\ team' = [team EXCEPT ![t].status = status]
  /\ UNCHANGED <<lease, actor, work, uses>>

\* The last mutation of reconcile_closing_team.
CloseTeam(t) ==
  /\ team[t].status = "Closing"
  /\ \A r \in Created :
       request[r].team = t => ~BlocksTeamClose(request[r].status)
  /\ \A a \in team[t].actors : actor[a].status = "Stopped"
  /\ SetTeamStatus(t, "Closed")

RegisterImplementation(a) ==
  LET t == HomeTeam[a] IN
  /\ team[t].status = "Active"
  /\ a \notin team[t].actors
  /\ actor[a].status \in {"Absent", "Stopped", "Revoked"}
  /\ HasGeneration(a)
  /\ actor' = [actor EXCEPT ![a] = NextGeneration(a)]
  /\ team' = [team EXCEPT ![t].actors = @ \cup {a}]
  /\ UNCHANGED <<lease, work, uses>>

\* Unfinished requests of a team, and those a replaced actor holds.
Carried(t) ==
  {r \in Created : request[r].team = t /\ ~IsTerminal(request[r].status)}
Reassigned(a) ==
  {r \in Carried(HomeTeam[a]) : request[r].assignment.actor.id = a}

\* The assignment under which a's next generation holds a request of a's.
Succession(r, a) ==
  NextAssignment([id |-> a, epoch |-> actor[a].epoch + 1],
                 request[r].assignment.epoch)

\* A request, or its run, after a's replacement: the work of the other members
\* stays with them in the new team generation.
Moved(w, r, a) ==
  IF r \notin Carried(HomeTeam[a]) THEN w
  ELSE [w EXCEPT !.teamEpoch = team[HomeTeam[a]].epoch + 1,
                 !.assignment = IF r \in Reassigned(a)
                                THEN Succession(r, a) ELSE @]

\* A member's next generation takes over its unfinished work; team, actor and
\* assignment fences advance together, and its pending handoffs are dropped.
ReplaceImplementation(a) ==
  LET t == HomeTeam[a] IN
  /\ team[t].status = "Active"
  /\ a \in team[t].actors
  /\ team[t].epoch < MaxTeamEpoch
  /\ HasGeneration(a)
  /\ \A r \in Reassigned(a) : request[r].assignment.epoch < MaxAssignmentEpoch
  /\ actor' = [actor EXCEPT ![a] = NextGeneration(a)]
  /\ team' = [team EXCEPT ![t].epoch = @ + 1]
  /\ request' = [r \in Request |-> Moved(request[r], r, a)]
  /\ run' = [r \in Request |-> Moved(run[r], r, a)]
  /\ handoffs' = {h \in handoffs : h.request \notin Reassigned(a)}
  /\ UNCHANGED <<lease, decided, uses>>

-----------------------------------------------------------------------------
(* Envelope fences (authorize_envelope, request_context).                   *)

\* The Primary may still address accepted, authorized or terminal work under
\* the team generation that finished it.
HistoricalPrimary(e) ==
  /\ e.sender.id \in Primary
  /\ e.request \in Created
  /\ request[e.request].team = e.team
  /\ ~BlocksTeamClose(request[e.request].status)
  /\ e.teamEpoch = request[e.request].teamEpoch
  /\ e.teamEpoch < team[e.team].epoch

Authorized(e) ==
  /\ e.primaryEpoch = primaryEpoch
  /\ IsCurrent(e.sender)
  /\ actor[e.sender.id].status = "Healthy"
  /\ team[e.team].status # "Absent"
  /\ e.teamEpoch = team[e.team].epoch \/ HistoricalPrimary(e)
  /\ e.sender.id \in Executor =>
       /\ e.team = HomeTeam[e.sender.id]
       /\ team[e.team].status \notin {"Paused", "Closed"}

\* The envelope speaks of a request in the generation that owns it.
Context(e) ==
  /\ e.request \in Created
  /\ request[e.request].team = e.team
  /\ \/ BlocksTeamClose(request[e.request].status)
     \/ e.teamEpoch = request[e.request].teamEpoch

FromPrimary(e) ==
  /\ activePrimary = e.sender.id
  /\ leaseUses' = leaseUses \cup
       {[sender |-> e.sender, epoch |-> e.primaryEpoch]}
  /\ UNCHANGED <<lease, registry, assignmentUses>>

FromAssignee(e) ==
  /\ e.sender.id \in Executor
  /\ Context(e)
  /\ request[e.request].assignment =
       [actor |-> e.sender, epoch |-> e.assignmentEpoch]
  /\ assignmentUses' = assignmentUses \cup
       {[request |-> e.request, sender |-> e.sender,
         epoch |-> e.assignmentEpoch]}
  /\ UNCHANGED <<lease, registry, leaseUses>>

\* A request and its run take the event together or not at all.
CanTake(r, event) ==
  /\ request[r].status \in RequestFrom[event]
  /\ run[r].status \in RunFrom[event]

Take_RequestOnly(r, event) ==
  /\ CanTake(r, event)
  /\ request' = [request EXCEPT ![r].status = RequestTo[event]]
  /\ UNCHANGED run
Take(r, event) ==
  /\ CanTake(r, event)
  /\ request' = [request EXCEPT ![r].status = RequestTo[event]]
  /\ run' = [run EXCEPT ![r].status = RunTo[event]]

HandoffsOf_WithCandidate(r) ==
  {h \in handoffs : h.request = r /\ h.candidate # None}
HandoffsOf(r) == {h \in handoffs : h.request = r}

-----------------------------------------------------------------------------
(* Messages of the Primary.                                                *)

\* Work starts assigned to a healthy executor of an active team.
CreateRequest(e, target) ==
  LET place == [team |-> e.team, teamEpoch |-> e.teamEpoch,
                assignment |-> [actor |-> Ref(target), epoch |-> 1]]
  IN
  /\ e.request \notin Created
  /\ team[e.team].status = "Active"
  /\ HomeTeam[target] = e.team
  /\ actor[target].status = "Healthy"
  /\ e.assignmentEpoch = None
  /\ request' = [request EXCEPT ![e.request] =
       [status |-> "Assigned", team |-> place.team,
        teamEpoch |-> place.teamEpoch, assignment |-> place.assignment,
        candidate |-> None, history |-> <<>>, rejections |-> 0,
        decision |-> None, authorization |-> None]]
  /\ run' = [run EXCEPT ![e.request] =
       [status |-> "Active", team |-> place.team,
        teamEpoch |-> place.teamEpoch, assignment |-> place.assignment]]
  /\ UNCHANGED <<handoffs, decided>>

\* The decision binds the candidate; an authorization it finds is void.
Judged(q, d, verdict) ==
  [q EXCEPT !.status = RequestTo[verdict],
            !.rejections = IF verdict = "Reject" THEN @ + 1 ELSE @,
            !.decision = [id |-> d, verdict |-> verdict,
                          candidate |-> q.candidate],
            !.authorization = None]

\* A verdict is about the current candidate under a fresh decision id.
Reject(e, d, c) ==
  LET r == e.request IN
  /\ Context(e)
  /\ d \notin decided
  /\ request[r].candidate = c
  /\ CanTake(r, "Reject")
  /\ request' = [request EXCEPT ![r] = Judged(@, d, "Reject")]
  /\ run' = [run EXCEPT ![r].status = RunTo.Reject]
  /\ decided' = decided \cup {d}
  /\ UNCHANGED handoffs

\* Acceptance also pins the team generation and ends a pending handoff.
AcceptCandidate(e, d, c) ==
  LET r == e.request IN
  /\ Context(e)
  /\ d \notin decided
  /\ request[r].candidate = c
  /\ CanTake(r, "Accept")
  /\ request' = [request EXCEPT ![r] =
       [Judged(@, d, "Accept") EXCEPT !.teamEpoch = e.teamEpoch]]
  /\ run' = [run EXCEPT ![r] = [@ EXCEPT !.status = RunTo.Accept,
                                         !.teamEpoch = e.teamEpoch]]
  /\ decided' = decided \cup {d}
  /\ handoffs' = handoffs \ HandoffsOf(r)

Authorize(e, d, c) ==
  LET r == e.request IN
  /\ Context(e)
  /\ request[r].decision = [id |-> d, verdict |-> "Accept", candidate |-> c]
  /\ request[r].candidate = c
  /\ CanTake(r, "Authorize")
  /\ request' = [request EXCEPT ![r] =
       [@ EXCEPT !.status = RequestTo.Authorize,
                 !.authorization = [id |-> d, candidate |-> c]]]
  /\ run' = [run EXCEPT ![r].status = RunTo.Authorize]
  /\ UNCHANGED <<handoffs, decided>>

Complete(e, d, c) ==
  /\ Context(e)
  /\ request[e.request].candidate = c
  /\ request[e.request].authorization # None
  /\ request[e.request].authorization.id = d
  /\ Take(e.request, "Complete")
  /\ UNCHANGED <<handoffs, decided>>

Cancel(e) ==
  LET r == e.request IN
  /\ Context(e)
  /\ CanTake(r, "Cancel")
  /\ request' = [request EXCEPT ![r] =
       [@ EXCEPT !.status = RequestTo.Cancel, !.teamEpoch = e.teamEpoch]]
  /\ run' = [run EXCEPT ![r] =
       [@ EXCEPT !.status = RunTo.Cancel, !.teamEpoch = e.teamEpoch]]
  /\ handoffs' = handoffs \ HandoffsOf(r)
  /\ UNCHANGED decided

\* Run control needs a team that can still act on it.
Controllable(e) ==
  /\ Context(e)
  /\ e.assignmentEpoch = None
  /\ BlocksTeamClose(request[e.request].status) =>
       team[e.team].status \notin {"Closing", "Closed"}

\* Pause stops the run and leaves the request's status alone.
PauseRun(e) ==
  /\ Controllable(e)
  /\ run[e.request].status \in RunFrom.Pause
  /\ run' = [run EXCEPT ![e.request].status = RunTo.Pause]
  /\ UNCHANGED <<request, handoffs, decided>>

ResumeRun(e) ==
  /\ Controllable(e)
  /\ Take(e.request, "Start")
  /\ UNCHANGED <<handoffs, decided>>

-----------------------------------------------------------------------------
(* Messages of the executor a request is assigned to.                      *)

Progress(e) == Take(e.request, "Start") /\ UNCHANGED <<handoffs, decided>>
Blocker(e) == Take(e.request, "Block") /\ UNCHANGED <<handoffs, decided>>

AwaitsRework(q) ==
  /\ q.candidate # None
  /\ q.decision # None
  /\ q.decision.verdict = "Reject"
  /\ q.decision.candidate = q.candidate

\* The candidate is immutable, except that a rejected one gives way to another
\* commit.
MayPropose_AnyTime(q, c) == AwaitsRework(q) => c.sha # q.candidate.sha
MayPropose(q, c) ==
  IF AwaitsRework(q) THEN c.sha # q.candidate.sha ELSE q.candidate \in {None, c}

\* A submitted candidate leaves no verdict on an earlier one behind.
Submitted(q, c) ==
  [q EXCEPT !.status = RequestTo.Submit,
            !.candidate = c,
            !.history = IF c = q.candidate THEN @ ELSE Append(@, c),
            !.decision = None,
            !.authorization = None]

\* A handoff that carries an older candidate is dropped.
SubmitCandidate(e, c) ==
  LET r == e.request IN
  /\ c.by = e.sender
  /\ MayPropose(request[r], c)
  /\ CanTake(r, "Submit")
  /\ request' = [request EXCEPT ![r] = Submitted(@, c)]
  /\ run' = [run EXCEPT ![r].status = RunTo.Submit]
  /\ handoffs' =
       handoffs \ {h \in HandoffsOf(r) : h.candidate \notin {None, c}}
  /\ UNCHANGED decided

\* The first phase of a handoff names an active team that can receive it.
OfferHandoff(e, h, to, c) ==
  LET q == request[e.request] IN
  /\ BlocksTeamClose(q.status)
  /\ to # e.team
  /\ team[to].status = "Active"
  /\ \E a \in Executor :
       HomeTeam[a] = to /\ actor[a].status \in {"Healthy", "Stale"}
  /\ c \in {None, q.candidate}
  /\ \A p \in handoffs : p.id # h /\ p.request # e.request
  /\ handoffs' = handoffs \cup
       {[id |-> h, request |-> e.request, from |-> e.team, to |-> to,
         candidate |-> c, by |-> e.sender, epoch |-> e.assignmentEpoch]}
  /\ UNCHANGED <<request, run, decided>>

AssigneeMessage(e) ==
  \/ Progress(e)
  \/ Blocker(e)
  \/ \E c \in Candidate : SubmitCandidate(e, c)
  \/ \E h \in HandoffId, to \in Team, c \in Candidate \cup {None} :
       OfferHandoff(e, h, to, c)

Received_KeepsFence(w, e, h) ==
  [w EXCEPT !.team = e.team, !.assignment = NextAssignment(e.sender, h.epoch)]
Received(w, e, h) ==
  [w EXCEPT !.team = e.team, !.teamEpoch = e.teamEpoch,
            !.assignment = NextAssignment(e.sender, h.epoch)]

\* The second phase: the receiver takes the request under a new assignment.
AcceptHandoff(e, h) ==
  LET r == e.request IN
  /\ e.sender.id \in Executor
  /\ e.team = h.to
  /\ e.request = h.request
  /\ r \in Created
  /\ e.assignmentEpoch = h.epoch
  /\ request[r].team = h.from
  /\ team[h.to].status = "Active"
  /\ h.candidate \in {None, request[r].candidate}
  /\ request[r].assignment = [actor |-> h.by, epoch |-> h.epoch]
  /\ h.epoch < MaxAssignmentEpoch
  /\ request' = [request EXCEPT ![r] = Received(@, e, h)]
  /\ run' = [run EXCEPT ![r] = Received(@, e, h)]
  /\ handoffs' = handoffs \ {h}
  /\ UNCHANGED <<lease, registry, decided, uses>>

PrimaryMessage(e) ==
  \/ \E a \in Executor : CreateRequest(e, a)
  \/ \E d \in DecisionId \ decided, c \in Candidate :
       Reject(e, d, c) \/ AcceptCandidate(e, d, c)
  \/ \E d \in decided, c \in Candidate : Authorize(e, d, c) \/ Complete(e, d, c)
  \/ Cancel(e)
  \/ PauseRun(e)
  \/ ResumeRun(e)

Accept(e) ==
  /\ Authorized(e)
  /\ \/ FromPrimary(e) /\ PrimaryMessage(e)
     \/ FromAssignee(e) /\ AssigneeMessage(e)
     \/ \E h \in handoffs : AcceptHandoff(e, h)

-----------------------------------------------------------------------------
\* A healthy actor goes stale or stops; a heartbeat undoes the first.
Presence ==
  \E ref \in ActorRef, s \in {"Healthy", "Stale", "Stopped"} :
    s # actor[ref.id].status /\ SetActorStatus(ref, s)

TeamLifecycle ==
  \E t \in Team :
    \/ CreateTeam(t)
    \/ CloseTeam(t)
    \/ \E s \in {"Active", "Paused", "Closing"} : SetTeamStatus(t, s)

Next ==
  \/ \E p \in Primary : ActivatePrimary(p)
  \/ Presence
  \/ TeamLifecycle
  \/ \E a \in Executor : RegisterImplementation(a) \/ ReplaceImplementation(a)
  \/ \E e \in Envelope : Accept(e)

Spec == Init /\ [][Next]_vars

-----------------------------------------------------------------------------
(* Safety.                                                                 *)

\* At most one Primary is healthy, and it is the one that holds the lease:
\* the active Primary is healthy and every other Primary is fenced.
PrimaryLease ==
  /\ activePrimary # None => actor[activePrimary].status = "Healthy"
  /\ \A p \in Primary : actor[p].status = "Healthy" => activePrimary = p

\* A lease epoch names one Primary generation for ever: the messages accepted
\* under one epoch were all sent by the same generation, across every takeover,
\* presence loss, stop and reactivation.
LeaseEpochNamesOneGeneration ==
  \A m, n \in leaseUses : m.epoch = n.epoch => m.sender = n.sender

\* An assignment epoch of a request names one executor generation for ever,
\* across replacement and handoff: two executors never both speak for it.
AssignmentEpochNamesOneExecutor ==
  \A m, n \in assignmentUses :
    m.request = n.request /\ m.epoch = n.epoch => m.sender = n.sender

\* Unfinished work belongs to a team that is not closed, at its current
\* generation, and to the current generation of one of the team's members.
Fenced(q) ==
  /\ q.teamEpoch = team[q.team].epoch
  /\ team[q.team].status \notin {"Absent", "Closed"}
  /\ q.assignment.actor.id \in team[q.team].actors
  /\ IsCurrent(q.assignment.actor)

ActiveWorkIsFenced ==
  \A r \in Created : BlocksTeamClose(request[r].status) => Fenced(request[r])

\* The run of a request agrees with it on team, generation and assignment, and
\* its status is one the request's status allows.
RunStatusFor ==
  [Assigned |-> {"Active", "Paused"}, InProgress |-> {"Active", "Paused"},
   Blocked |-> {"Blocked", "Paused"}, CandidateReady |-> {"AwaitingReview"},
   ChangesRequested |-> {"RevisionRequested"}, Accepted |-> {"Accepted"},
   IntegrationAuthorized |-> {"Authorized"}, Completed |-> {"Completed"},
   Cancelled |-> {"Cancelled"}]

Mirrors(w, q) ==
  /\ w.team = q.team
  /\ w.teamEpoch = q.teamEpoch
  /\ w.assignment = q.assignment
  /\ w.status \in RunStatusFor[q.status]

RunMirrorsRequest ==
  \A r \in Request :
    /\ run[r] = None <=> request[r] = None
    /\ r \in Created => Mirrors(run[r], request[r])

\* An executor that can send or be sent work is a member of its team, and the
\* team is open: closing and recreating a team leave no live executor behind.
LiveExecutorsHaveATeam ==
  \A a \in Executor : actor[a].status \in {"Healthy", "Stale"} =>
    /\ a \in team[HomeTeam[a]].actors
    /\ team[HomeTeam[a]].status \notin {"Absent", "Closed"}

\* What docs/v0.2.md says of a rejected commit, "The rejected SHA stays
\* forbidden": no commit is submitted twice as a new candidate of one request.
\* The code compares a new candidate with the latest one only.
RejectedShaStaysForbidden ==
  \A r \in Created :
    LET past == request[r].history IN
    \A i, j \in DOMAIN past : past[i].sha = past[j].sha => i = j

\* What snapshot validation asserts, "rejection count does not match candidate
\* review history": every candidate but the last was rejected once, the last
\* one if its decision says so.  The code lets a rejected candidate be rejected
\* again under a fresh decision id, which counts a second time.
RejectionCountMatchesHistory ==
  \A r \in Created :
    LET q == request[r] IN
    q.candidate # None =>
      q.rejections = Len(q.history) - (IF AwaitsRework(q) THEN 0 ELSE 1)

-----------------------------------------------------------------------------
(* What a step may never do.                                               *)

\* Terminal work is never reopened, moved or reassigned, and its candidate, decision
\* and authorization stay as they were; of other work a submitted candidate is
\* replaced only after it was rejected, and only by a different commit.
SettledWorkStays ==
  [][\A r \in Created :
       LET old == request[r].candidate
           new == request'[r].candidate
       IN  /\ IsTerminal(request[r].status) => request'[r] = request[r] /\ run'[r] = run[r]
           /\ old \notin {None, new} =>
                AwaitsRework(request[r]) /\ new.sha # old.sha]_vars

=============================================================================
