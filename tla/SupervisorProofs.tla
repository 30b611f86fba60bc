-------------------------- MODULE SupervisorProofs --------------------------
(***************************************************************************)
(* Theorems about Supervisor, for any sets of actors, teams, requests,      *)
(* commits and ids and any epoch limits; and about the rows of a review      *)
(* session (ReviewRecords), for any operations, plans, windows and clocks.   *)
(***************************************************************************)
EXTENDS Supervisor, ReviewRecords, FiniteSetTheorems, FunctionTheorems, TLAPS

-----------------------------------------------------------------------------
(* Types.                                                                  *)

LEMMA InitTyped == Init => TypeOK
  BY ActorAssumption, EpochAssumption
  DEF Init, TypeOK, ActorState, Unregistered, TeamState, ActorStatus, TeamStatus, Actor

LEMMA ActivateTyped ==
  ASSUME TypeOK, NEW p \in Primary, ActivatePrimary(p)
  PROVE  TypeOK'
  <1>1. NextGeneration(p) \in ActorState
    BY EpochAssumption
    DEF TypeOK, ActivatePrimary, HasGeneration, NextGeneration, ActorState,
        Unregistered, ActorStatus, Actor
  <1>2. CASE activePrimary = None
    BY <1>1, <1>2 DEF TypeOK, ActivatePrimary, Actor, work, uses
  <1>3. CASE activePrimary # None
    <2>1. activePrimary \in Actor /\ actor[activePrimary].status # "Absent"
      BY <1>3 DEF TypeOK, ActivatePrimary, ActorCan, Actor
    <2>2. [actor[activePrimary] EXCEPT !.status = "Revoked"] \in ActorState
      BY <2>1 DEF TypeOK, ActorState, Unregistered, ActorStatus
    <2>3. actor' \in [Actor -> ActorState]
      BY <1>1, <1>3, <2>1, <2>2 DEF TypeOK, ActivatePrimary, Actor
    <2>4. primaryEpoch' \in 1..MaxPrimaryEpoch
      BY <1>3, EpochAssumption DEF TypeOK, ActivatePrimary, AdvanceLease
    <2>5. QED BY <2>3, <2>4 DEF TypeOK, ActivatePrimary, work, uses
  <1>4. QED BY <1>2, <1>3

LEMMA PresenceTyped ==
  ASSUME TypeOK, NEW ref \in ActorRef, NEW s \in ActorStatus \ {"Absent"},
         SetActorStatus(ref, s)
  PROVE  TypeOK'
  BY ActorAssumption, EpochAssumption
  DEF TypeOK, SetActorStatus, AdvanceLease, ActorRef, ActorState, Unregistered, Actor,
      work, uses, lease

LEMMA CreateTeamTyped ==
  ASSUME TypeOK, NEW t \in Team, CreateTeam(t)
  PROVE  TypeOK'
  BY EpochAssumption
  DEF TypeOK, CreateTeam, TeamState, TeamStatus, work, uses, lease

LEMMA TeamStatusTyped ==
  ASSUME TypeOK, NEW t \in Team, NEW s \in TeamStatus, SetTeamStatus(t, s)
  PROVE  TypeOK'
  BY EpochAssumption
  DEF TypeOK, SetTeamStatus, TeamState, work, uses, lease

LEMMA RegisterTyped ==
  ASSUME TypeOK, NEW a \in Executor, RegisterImplementation(a)
  PROVE  TypeOK'
  BY ActorAssumption, EpochAssumption
  DEF TypeOK, RegisterImplementation, HasGeneration, NextGeneration,
      ActorState, Unregistered, ActorStatus, Actor, TeamState, work, uses, lease

-----------------------------------------------------------------------------
(* The records the messages build.                                         *)

LEMMA PairedRun ==
  ASSUME TypeOK, RunMirrorsRequest, NEW r \in Created
  PROVE  /\ request[r] \in RequestState
         /\ run[r] \in RunState
         /\ Mirrors(run[r], request[r])
  BY NoneAssumption DEF TypeOK, RunMirrorsRequest, Created

LEMMA JudgedTyped ==
  ASSUME NEW q \in RequestState, q.candidate \in Candidate,
         NEW d \in DecisionId, NEW v \in Verdict
  PROVE  Judged(q, d, v) \in RequestState
  <1>1. RequestTo[v] \in RequestStatus
    BY DEF Verdict, RequestTo, RequestStatus
  <1>2. [id |-> d, verdict |-> v, candidate |-> q.candidate] \in Decision
    BY DEF Decision
  <1>3. (IF v = "Reject" THEN q.rejections + 1 ELSE q.rejections) \in Nat
    BY DEF RequestState
  <1>4. QED BY <1>1, <1>2, <1>3 DEF Judged, RequestState

LEMMA SubmittedTyped ==
  ASSUME NEW q \in RequestState, NEW c \in Candidate
  PROVE  Submitted(q, c) \in RequestState
  <1>1. Append(q.history, c) \in Seq(Candidate)
    BY DEF RequestState
  <1>2. "CandidateReady" \in RequestStatus /\ RequestTo.Submit = "CandidateReady"
    BY DEF RequestStatus, RequestTo
  <1>3. QED BY <1>1, <1>2 DEF Submitted, RequestState

LEMMA ReceivedTyped ==
  ASSUME NEW e \in Envelope, NEW h \in PendingHandoff,
         h.epoch < MaxAssignmentEpoch
  PROVE  /\ \A q \in RequestState : Received(q, e, h) \in RequestState
         /\ \A w \in RunState : Received(w, e, h) \in RunState
  <1>1. NextAssignment(e.sender, h.epoch) \in Assignment
    BY EpochAssumption
    DEF NextAssignment, Assignment, Envelope, PendingHandoff
  <1>2. e.team \in Team /\ e.teamEpoch \in 1..MaxTeamEpoch
    BY DEF Envelope
  <1>3. QED BY <1>1, <1>2 DEF Received, RequestState, RunState

LEMMA MovedTyped ==
  ASSUME TypeOK, RunMirrorsRequest, NEW a \in Executor,
         ReplaceImplementation(a), NEW r \in Created
  PROVE  /\ Moved(request[r], r, a) \in RequestState
         /\ Moved(run[r], r, a) \in RunState
  <1>1. request[r] \in RequestState /\ run[r] \in RunState
    BY PairedRun
  <1>2. ASSUME r \in Reassigned(a) PROVE Succession(r, a) \in Assignment
    <2>1. a \in Actor /\ actor[a].epoch + 1 \in 1..MaxActorEpoch
      BY EpochAssumption
      DEF TypeOK, ReplaceImplementation, HasGeneration, ActorState, Unregistered, Actor
    <2>2. request[r].assignment.epoch + 1 \in 1..MaxAssignmentEpoch
      BY <1>1, <1>2, EpochAssumption
      DEF ReplaceImplementation, RequestState, Assignment
    <2>3. QED BY <2>1, <2>2 DEF Succession, NextAssignment, Assignment, ActorRef
  <1>3. team[HomeTeam[a]].epoch + 1 \in 1..MaxTeamEpoch
    BY ActorAssumption, EpochAssumption
    DEF TypeOK, ReplaceImplementation, TeamState
  <1>4. QED BY <1>1, <1>2, <1>3 DEF Moved, RequestState, RunState

LEMMA ReplaceTyped ==
  ASSUME TypeOK, RunMirrorsRequest, NEW a \in Executor, ReplaceImplementation(a)
  PROVE  TypeOK'
  <1>1. /\ request' \in [Request -> RequestState \cup {None}]
        /\ run' \in [Request -> RunState \cup {None}]
    <2>1. ASSUME NEW r \in Request
          PROVE  /\ Moved(request[r], r, a) \in RequestState \cup {None}
                 /\ Moved(run[r], r, a) \in RunState \cup {None}
      <3>1. CASE r \in Created
        BY <3>1, MovedTyped
      <3>2. CASE r \notin Created
        BY <3>2 DEF Moved, Carried, Created, TypeOK, RunMirrorsRequest
      <3>3. QED BY <3>1, <3>2
    <2>2. QED BY <2>1 DEF ReplaceImplementation
  <1>2. actor' \in [Actor -> ActorState]
    BY EpochAssumption
    DEF TypeOK, ReplaceImplementation, HasGeneration, NextGeneration,
        ActorState, Unregistered, ActorStatus, Actor
  <1>3. team' \in [Team -> TeamState]
    BY ActorAssumption, EpochAssumption
    DEF TypeOK, ReplaceImplementation, TeamState
  <1>4. QED
    BY <1>1, <1>2, <1>3
    DEF TypeOK, ReplaceImplementation, lease, uses

-----------------------------------------------------------------------------
(* A request and its run move together.                                    *)

LEMMA MoveTogether ==
  ASSUME TypeOK, RunMirrorsRequest,
         NEW r \in Request, NEW q \in RequestState, NEW w \in RunState,
         Mirrors(w, q),
         request' = [request EXCEPT ![r] = q],
         run' = [run EXCEPT ![r] = w]
  PROVE  /\ request' \in [Request -> RequestState \cup {None}]
         /\ run' \in [Request -> RunState \cup {None}]
         /\ RunMirrorsRequest'
  BY NoneAssumption DEF TypeOK, RunMirrorsRequest, Created, Mirrors

Work == TypeOK /\ RunMirrorsRequest

LEMMA TakeMirrors ==
  ASSUME Work, NEW r \in Created,
         NEW event \in {"Start", "Block", "Complete"}, Take(r, event)
  PROVE  /\ request' \in [Request -> RequestState \cup {None}]
         /\ run' \in [Request -> RunState \cup {None}]
         /\ RunMirrorsRequest'
  <1> DEFINE q == [request[r] EXCEPT !.status = RequestTo[event]]
             w == [run[r] EXCEPT !.status = RunTo[event]]
  <1>1. /\ request[r] \in RequestState
        /\ run[r] \in RunState
        /\ Mirrors(run[r], request[r])
    BY PairedRun DEF Work
  <1>2. /\ RequestTo[event] \in RequestStatus
        /\ RunTo[event] \in RunStatus
        /\ RunTo[event] \in RunStatusFor[RequestTo[event]]
    BY DEF RequestTo, RunTo, RequestStatus, RunStatus, RunStatusFor
  <1>3. q \in RequestState /\ w \in RunState
    BY <1>1, <1>2 DEF RequestState, RunState
  <1>4. Mirrors(w, q)
    BY <1>1, <1>2 DEF Mirrors, RequestState, RunState
  <1>5. request' = [request EXCEPT ![r] = q] /\ run' = [run EXCEPT ![r] = w]
    BY DEF Take
  <1>6. r \in Request
    BY DEF Created
  <1> HIDE DEF q, w
  <1>7. QED BY <1>3, <1>4, <1>5, <1>6, MoveTogether DEF Work

LEMMA PauseMirrors ==
  ASSUME Work, NEW e \in Envelope, PauseRun(e)
  PROVE  /\ request' \in [Request -> RequestState \cup {None}]
         /\ run' \in [Request -> RunState \cup {None}]
         /\ RunMirrorsRequest'
  <1> DEFINE r == e.request
             w == [run[r] EXCEPT !.status = "Paused"]
  <1>1. r \in Created
    BY DEF PauseRun, Controllable, Context
  <1>2. /\ request[r] \in RequestState
        /\ run[r] \in RunState
        /\ Mirrors(run[r], request[r])
    BY <1>1, PairedRun DEF Work
  <1>3. w \in RunState
    BY <1>2 DEF RunState, RunStatus
  <1>4. run[r].status \in {"Active", "Paused"}
    BY DEF PauseRun, RunFrom
  <1>5. request[r].status \in {"Assigned", "InProgress", "Blocked"}
        /\ "Paused" \in RunStatusFor[request[r].status]
    BY <1>2, <1>4 DEF Mirrors, RunStatusFor, RequestState, RequestStatus
  <1>6. Mirrors(w, request[r])
    BY <1>2, <1>5 DEF Mirrors, RunState
  <1>7. /\ request' = [request EXCEPT ![r] = request[r]]
        /\ run' = [run EXCEPT ![r] = w]
    BY DEF PauseRun, RunTo, Work, TypeOK
  <1>8. r \in Request
    BY <1>1 DEF Created
  <1> HIDE DEF r, w
  <1>9. QED BY <1>2, <1>3, <1>6, <1>7, <1>8, MoveTogether DEF Work

LEMMA CreateMirrors ==
  ASSUME Work, NEW e \in Envelope, NEW a \in Executor, Authorized(e),
         CreateRequest(e, a)
  PROVE  /\ request' \in [Request -> RequestState \cup {None}]
         /\ run' \in [Request -> RunState \cup {None}]
         /\ RunMirrorsRequest'
  <1> DEFINE r == e.request
             h == [actor |-> Ref(a), epoch |-> 1]
             q == [status |-> "Assigned", team |-> e.team,
                   teamEpoch |-> e.teamEpoch, assignment |-> h,
                   candidate |-> None, history |-> <<>>, rejections |-> 0,
                   decision |-> None, authorization |-> None]
             w == [status |-> "Active", team |-> e.team,
                   teamEpoch |-> e.teamEpoch, assignment |-> h]
  <1>1. actor[a].epoch \in 1..MaxActorEpoch
    BY DEF Work, TypeOK, CreateRequest, ActorState, Unregistered, Actor
  <1>2. h \in Assignment
    BY <1>1, EpochAssumption DEF Assignment, ActorRef, Ref, Actor
  <1>3. q \in RequestState /\ w \in RunState
    <2>1. <<>> \in Seq(Candidate)
      OBVIOUS
    <2>2. "Assigned" \in RequestStatus /\ "Active" \in RunStatus
      BY DEF RequestStatus, RunStatus
    <2>3. e.team \in Team /\ e.teamEpoch \in 1..MaxTeamEpoch
      BY DEF Envelope
    <2> HIDE DEF h
    <2>4. QED BY <1>2, <2>1, <2>2, <2>3 DEF RequestState, RunState
  <1>4. Mirrors(w, q)
    BY DEF Mirrors, RunStatusFor
  <1>5. request' = [request EXCEPT ![r] = q] /\ run' = [run EXCEPT ![r] = w]
    BY DEF CreateRequest
  <1>6. r \in Request
    BY DEF Envelope
  <1> HIDE DEF r, q, w
  <1>7. QED BY <1>3, <1>4, <1>5, <1>6, MoveTogether DEF Work

LEMMA RejectMirrors ==
  ASSUME Work, NEW e \in Envelope, NEW d \in DecisionId, NEW c \in Candidate, Reject(e, d, c)
  PROVE  /\ request' \in [Request -> RequestState \cup {None}]
         /\ run' \in [Request -> RunState \cup {None}]
         /\ RunMirrorsRequest'
  <1> DEFINE r == e.request
             q == Judged(request[r], d, "Reject")
             w == [run[r] EXCEPT !.status = RunTo.Reject]
  <1>1. r \in Created
    BY DEF Reject, Context
  <1>2. /\ request[r] \in RequestState
        /\ run[r] \in RunState
        /\ Mirrors(run[r], request[r])
    BY <1>1, PairedRun DEF Work
  <1>3. q \in RequestState
    BY <1>2, JudgedTyped DEF Reject, Verdict
  <1>4. w \in RunState
    BY <1>2 DEF RunState, RunTo, RunStatus
  <1>5. Mirrors(w, q)
    BY <1>2 DEF Mirrors, RunStatusFor, RequestTo, RunTo, RequestState, RunState,
                Judged
  <1>6. request' = [request EXCEPT ![r] = q] /\ run' = [run EXCEPT ![r] = w]
    BY DEF Reject
  <1>7. r \in Request
    BY <1>1 DEF Created
  <1> HIDE DEF r, q, w
  <1>8. QED BY <1>3, <1>4, <1>5, <1>6, <1>7, MoveTogether DEF Work

LEMMA AcceptMirrors ==
  ASSUME Work, NEW e \in Envelope, NEW d \in DecisionId, NEW c \in Candidate, AcceptCandidate(e, d, c)
  PROVE  /\ request' \in [Request -> RequestState \cup {None}]
         /\ run' \in [Request -> RunState \cup {None}]
         /\ RunMirrorsRequest'
  <1> DEFINE r == e.request
             q == [Judged(request[r], d, "Accept") EXCEPT !.teamEpoch = e.teamEpoch]
             w == [run[r] EXCEPT !.status = RunTo.Accept, !.teamEpoch = e.teamEpoch]
  <1>1. r \in Created
    BY DEF AcceptCandidate, Context
  <1>2. /\ request[r] \in RequestState
        /\ run[r] \in RunState
        /\ Mirrors(run[r], request[r])
    BY <1>1, PairedRun DEF Work
  <1>3. q \in RequestState
    <2>1. Judged(request[r], d, "Accept") \in RequestState
      BY <1>2, JudgedTyped DEF AcceptCandidate, Verdict
    <2>2. QED BY <2>1 DEF RequestState, Envelope
  <1>4. w \in RunState
    BY <1>2 DEF RunState, RunTo, RunStatus, Envelope
  <1>5. Mirrors(w, q)
    BY <1>2 DEF Mirrors, RunStatusFor, RequestTo, RunTo, RequestState, RunState, Judged
  <1>6. request' = [request EXCEPT ![r] = q] /\ run' = [run EXCEPT ![r] = w]
    BY DEF AcceptCandidate
  <1>7. r \in Request
    BY <1>1 DEF Created
  <1> HIDE DEF r, q, w
  <1>8. QED BY <1>3, <1>4, <1>5, <1>6, <1>7, MoveTogether DEF Work

LEMMA AuthorizeMirrors ==
  ASSUME Work, NEW e \in Envelope, NEW d \in DecisionId, NEW c \in Candidate, Authorize(e, d, c)
  PROVE  /\ request' \in [Request -> RequestState \cup {None}]
         /\ run' \in [Request -> RunState \cup {None}]
         /\ RunMirrorsRequest'
  <1> DEFINE r == e.request
             q == [request[r] EXCEPT !.status = RequestTo.Authorize,
                                 !.authorization = [id |-> d, candidate |-> c]]
             w == [run[r] EXCEPT !.status = RunTo.Authorize]
  <1>1. r \in Created
    BY DEF Authorize, Context
  <1>2. /\ request[r] \in RequestState
        /\ run[r] \in RunState
        /\ Mirrors(run[r], request[r])
    BY <1>1, PairedRun DEF Work
  <1>3. q \in RequestState
    <2>1. [id |-> d, candidate |-> c] \in Authorization
      BY DEF Authorization
    <2>2. QED BY <1>2, <2>1 DEF RequestState, RequestTo, RequestStatus
  <1>4. w \in RunState
    BY <1>2 DEF RunState, RunTo, RunStatus
  <1>5. Mirrors(w, q)
    BY <1>2 DEF Mirrors, RunStatusFor, RequestTo, RunTo, RequestState, RunState
  <1>6. request' = [request EXCEPT ![r] = q] /\ run' = [run EXCEPT ![r] = w]
    BY DEF Authorize
  <1>7. r \in Request
    BY <1>1 DEF Created
  <1> HIDE DEF r, q, w
  <1>8. QED BY <1>3, <1>4, <1>5, <1>6, <1>7, MoveTogether DEF Work

LEMMA CancelMirrors ==
  ASSUME Work, NEW e \in Envelope, Cancel(e)
  PROVE  /\ request' \in [Request -> RequestState \cup {None}]
         /\ run' \in [Request -> RunState \cup {None}]
         /\ RunMirrorsRequest'
  <1> DEFINE r == e.request
             q == [request[r] EXCEPT !.status = RequestTo.Cancel,
                                 !.teamEpoch = e.teamEpoch]
             w == [run[r] EXCEPT !.status = RunTo.Cancel,
                             !.teamEpoch = e.teamEpoch]
  <1>1. r \in Created
    BY DEF Cancel, Context
  <1>2. /\ request[r] \in RequestState
        /\ run[r] \in RunState
        /\ Mirrors(run[r], request[r])
    BY <1>1, PairedRun DEF Work
  <1>3. q \in RequestState
    BY <1>2 DEF RequestState, RequestTo, RequestStatus, Envelope
  <1>4. w \in RunState
    BY <1>2 DEF RunState, RunTo, RunStatus, Envelope
  <1>5. Mirrors(w, q)
    BY <1>2 DEF Mirrors, RunStatusFor, RequestTo, RunTo, RequestState, RunState
  <1>6. request' = [request EXCEPT ![r] = q] /\ run' = [run EXCEPT ![r] = w]
    BY DEF Cancel
  <1>7. r \in Request
    BY <1>1 DEF Created
  <1> HIDE DEF r, q, w
  <1>8. QED BY <1>3, <1>4, <1>5, <1>6, <1>7, MoveTogether DEF Work

LEMMA SubmitMirrors ==
  ASSUME Work, NEW e \in Envelope, FromAssignee(e), NEW c \in Candidate, SubmitCandidate(e, c)
  PROVE  /\ request' \in [Request -> RequestState \cup {None}]
         /\ run' \in [Request -> RunState \cup {None}]
         /\ RunMirrorsRequest'
  <1> DEFINE r == e.request
             q == Submitted(request[r], c)
             w == [run[r] EXCEPT !.status = RunTo.Submit]
  <1>1. r \in Created
    BY DEF FromAssignee, Context
  <1>2. /\ request[r] \in RequestState
        /\ run[r] \in RunState
        /\ Mirrors(run[r], request[r])
    BY <1>1, PairedRun DEF Work
  <1>3. q \in RequestState
    BY <1>2, SubmittedTyped
  <1>4. w \in RunState
    BY <1>2 DEF RunState, RunTo, RunStatus
  <1>5. Mirrors(w, q)
    BY <1>2 DEF Mirrors, RunStatusFor, RequestTo, RunTo, RequestState, RunState, Submitted
  <1>6. request' = [request EXCEPT ![r] = q] /\ run' = [run EXCEPT ![r] = w]
    BY DEF SubmitCandidate
  <1>7. r \in Request
    BY <1>1 DEF Created
  <1> HIDE DEF r, q, w
  <1>8. QED BY <1>3, <1>4, <1>5, <1>6, <1>7, MoveTogether DEF Work

LEMMA AcceptHandoffMirrors ==
  ASSUME Work, NEW e \in Envelope, NEW h \in handoffs, AcceptHandoff(e, h)
  PROVE  /\ request' \in [Request -> RequestState \cup {None}]
         /\ run' \in [Request -> RunState \cup {None}]
         /\ RunMirrorsRequest'
  <1> DEFINE r == e.request
             q == Received(request[r], e, h)
             w == Received(run[r], e, h)
  <1>1. r \in Created
    BY DEF AcceptHandoff
  <1>2. /\ request[r] \in RequestState
        /\ run[r] \in RunState
        /\ Mirrors(run[r], request[r])
    BY <1>1, PairedRun DEF Work
  <1>3. h \in PendingHandoff /\ h.epoch < MaxAssignmentEpoch
    BY DEF Work, TypeOK, AcceptHandoff
  <1>4. q \in RequestState /\ w \in RunState
    BY <1>2, <1>3, ReceivedTyped
  <1>5. Mirrors(w, q)
    BY <1>2 DEF Mirrors, RequestState, RunState, Received
  <1>6. request' = [request EXCEPT ![r] = q] /\ run' = [run EXCEPT ![r] = w]
    BY DEF AcceptHandoff
  <1>7. r \in Request
    BY <1>1 DEF Created
  <1> HIDE DEF r, q, w
  <1>8. QED BY <1>4, <1>5, <1>6, <1>7, MoveTogether DEF Work

LEMMA ReplaceMirrors ==
  ASSUME Work, NEW a \in Executor, ReplaceImplementation(a)
  PROVE  RunMirrorsRequest'
  <1> SUFFICES ASSUME NEW r \in Request
               PROVE  /\ run'[r] = None <=> request'[r] = None
                      /\ r \in Created' => Mirrors(run'[r], request'[r])
    BY DEF RunMirrorsRequest
  <1>1. request'[r] = Moved(request[r], r, a) /\ run'[r] = Moved(run[r], r, a)
    BY DEF ReplaceImplementation
  <1>2. CASE r \notin Created
    BY <1>1, <1>2
    DEF Created, Moved, Carried, Work, RunMirrorsRequest
  <1>3. CASE r \in Created
    <2>1. /\ request[r] \in RequestState
          /\ run[r] \in RunState
          /\ Mirrors(run[r], request[r])
      BY <1>3, PairedRun DEF Work
    <2>2. /\ Moved(request[r], r, a) \in RequestState
          /\ Moved(run[r], r, a) \in RunState
      BY <1>3, MovedTyped DEF Work
    <2>3. Mirrors(Moved(run[r], r, a), Moved(request[r], r, a))
      BY <2>1 DEF Moved, Mirrors, RequestState, RunState
    <2>4. QED BY <1>1, <2>2, <2>3, NoneAssumption
  <1>4. QED BY <1>2, <1>3

-----------------------------------------------------------------------------
(* Every step keeps the types and the pairing of requests and runs.        *)

LEMMA PrimaryMessageWork ==
  ASSUME Work, NEW e \in Envelope, Authorized(e), FromPrimary(e),
         PrimaryMessage(e)
  PROVE  Work'
  <1>1. /\ request' \in [Request -> RequestState \cup {None}]
        /\ run' \in [Request -> RunState \cup {None}]
        /\ RunMirrorsRequest'
    <2>1. CASE \E a \in Executor : CreateRequest(e, a)
      BY <2>1, CreateMirrors
    <2>2. CASE \E d \in DecisionId \ decided, c \in Candidate :
                 Reject(e, d, c) \/ AcceptCandidate(e, d, c)
      BY <2>2, RejectMirrors, AcceptMirrors
    <2>3. CASE \E d \in decided, c \in Candidate : Authorize(e, d, c)
      BY <2>3, AuthorizeMirrors DEF Work, TypeOK
    <2>4. CASE \E d \in decided, c \in Candidate : Complete(e, d, c)
      BY <2>4, TakeMirrors DEF Complete, Context
    <2>5. CASE Cancel(e)
      BY <2>5, CancelMirrors
    <2>6. CASE PauseRun(e)
      BY <2>6, PauseMirrors
    <2>7. CASE ResumeRun(e)
      BY <2>7, TakeMirrors DEF ResumeRun, Controllable, Context
    <2>8. QED BY <2>1, <2>2, <2>3, <2>4, <2>5, <2>6, <2>7 DEF PrimaryMessage
  <1>2. handoffs' \in SUBSET handoffs /\ decided' \in SUBSET DecisionId
    BY DEF PrimaryMessage, CreateRequest, Reject, AcceptCandidate, Authorize,
           Complete, Cancel, PauseRun, ResumeRun, Work, TypeOK
  <1>3. leaseUses' \in SUBSET [sender : ActorRef, epoch : 1..MaxPrimaryEpoch]
    BY DEF Work, TypeOK, FromPrimary, Envelope
  <1>4. QED
    BY <1>1, <1>2, <1>3
    DEF Work, TypeOK, FromPrimary, lease, registry

LEMMA AssigneeMessageWork ==
  ASSUME Work, NEW e \in Envelope, FromAssignee(e), AssigneeMessage(e)
  PROVE  Work'
  <1>1. e.request \in Created /\ e.assignmentEpoch \in 1..MaxAssignmentEpoch
    <2>1. e.request \in Created
      BY DEF FromAssignee, Context
    <2>2. request[e.request].assignment \in Assignment
      BY <2>1, PairedRun DEF Work, RequestState
    <2>3. QED BY <2>1, <2>2 DEF FromAssignee, Assignment
  <1>2. /\ request' \in [Request -> RequestState \cup {None}]
        /\ run' \in [Request -> RunState \cup {None}]
        /\ RunMirrorsRequest'
    <2>1. CASE Progress(e) \/ Blocker(e)
      BY <1>1, <2>1, TakeMirrors DEF Progress, Blocker
    <2>2. CASE \E c \in Candidate : SubmitCandidate(e, c)
      BY <2>2, SubmitMirrors
    <2>3. CASE \E h \in HandoffId, to \in Team, c \in Candidate \cup {None} :
                 OfferHandoff(e, h, to, c)
      BY <2>3 DEF OfferHandoff, Work, TypeOK, RunMirrorsRequest, Created
    <2>4. QED BY <2>1, <2>2, <2>3 DEF AssigneeMessage
  <1>3. handoffs' \in SUBSET PendingHandoff /\ decided' = decided
    <2>1. CASE \E h \in HandoffId, to \in Team, c \in Candidate \cup {None} :
                 OfferHandoff(e, h, to, c)
      BY <1>1, <2>1
      DEF OfferHandoff, Work, TypeOK, PendingHandoff, Envelope, Created
    <2>2. CASE Progress(e) \/ Blocker(e)
               \/ \E c \in Candidate : SubmitCandidate(e, c)
      BY <2>2 DEF Progress, Blocker, SubmitCandidate, Work, TypeOK
    <2>3. QED BY <2>1, <2>2 DEF AssigneeMessage
  <1>4. assignmentUses' \in SUBSET
          [request : Request, sender : ActorRef, epoch : 1..MaxAssignmentEpoch]
    BY <1>1 DEF Work, TypeOK, FromAssignee, Envelope
  <1>5. QED
    BY <1>2, <1>3, <1>4
    DEF Work, TypeOK, FromAssignee, lease, registry

LEMMA WorkStep == Work /\ [Next]_vars => Work'
  <1> SUFFICES ASSUME Work, [Next]_vars PROVE Work'
    OBVIOUS
  <1>1. CASE \E p \in Primary : ActivatePrimary(p)
    BY <1>1, ActivateTyped
    DEF Work, ActivatePrimary, work, RunMirrorsRequest, Created
  <1>2. CASE Presence
    BY <1>2, PresenceTyped
    DEF Presence, Work, SetActorStatus, work, RunMirrorsRequest, Created,
        ActorStatus
  <1>3. CASE TeamLifecycle
    <2>1. \E t \in Team :
            CreateTeam(t) \/ \E s \in TeamStatus : SetTeamStatus(t, s)
      BY <1>3 DEF TeamLifecycle, CloseTeam, TeamStatus
    <2>2. TypeOK'
      BY <2>1, CreateTeamTyped, TeamStatusTyped DEF Work
    <2>3. UNCHANGED <<request, run>>
      BY <2>1 DEF CreateTeam, SetTeamStatus, work
    <2>4. QED BY <2>2, <2>3 DEF Work, RunMirrorsRequest, Created
  <1>4. CASE \E a \in Executor : RegisterImplementation(a)
    BY <1>4, RegisterTyped
    DEF Work, RegisterImplementation, work, RunMirrorsRequest, Created
  <1>5. CASE \E a \in Executor : ReplaceImplementation(a)
    BY <1>5, ReplaceTyped, ReplaceMirrors DEF Work
  <1>6. ASSUME NEW e \in Envelope, Accept(e)
        PROVE  Work'
    <2>1. CASE FromPrimary(e) /\ PrimaryMessage(e)
      BY <1>6, <2>1, PrimaryMessageWork DEF Accept
    <2>2. CASE FromAssignee(e) /\ AssigneeMessage(e)
      BY <1>6, <2>2, AssigneeMessageWork
    <2>3. CASE \E h \in handoffs : AcceptHandoff(e, h)
      BY <2>3, AcceptHandoffMirrors
      DEF Work, TypeOK, AcceptHandoff, lease, registry, uses
    <2>4. QED BY <1>6, <2>1, <2>2, <2>3 DEF Accept
  <1>7. CASE UNCHANGED vars
    BY <1>7
    DEF Work, TypeOK, RunMirrorsRequest, Created, vars, lease, registry, work,
        uses
  <1>8. QED BY <1>1, <1>2, <1>3, <1>4, <1>5, <1>6, <1>7 DEF Next

LEMMA WorkAlways == Spec => []Work
  <1>1. Init => Work
    BY InitTyped DEF Init, Work, RunMirrorsRequest, Created
  <1>2. QED BY <1>1, WorkStep, PTL DEF Spec

\* Every value of the state has its type, whatever the sequence of calls:
\* no epoch passes its limit, no record is built with a missing part.
THEOREM TypeCorrect == Spec => []TypeOK
  BY WorkAlways, PTL DEF Work

\* A request and its run never part on team, generation, assignment or status.
THEOREM RunsFollowRequests == Spec => []RunMirrorsRequest
  BY WorkAlways, PTL DEF Work

-----------------------------------------------------------------------------
(* The Primary lease.  A use of the present epoch is by the generation that *)
(* holds the lease now, and no use is of a later epoch; so the epoch that a *)
(* new holder gets has no use yet.                                         *)

LeaseUsesBounded ==
  \A m \in leaseUses :
    /\ m.epoch \leq primaryEpoch
    /\ m.epoch = primaryEpoch =>
         activePrimary # None /\ m.sender = Ref(activePrimary)

LeaseInv == PrimaryLease /\ LeaseEpochNamesOneGeneration /\ LeaseUsesBounded

LEMMA LeaseKept ==
  ASSUME TypeOK, LeaseInv, UNCHANGED <<lease, leaseUses>>,
         \A p \in Primary : actor'[p] = actor[p]
  PROVE  LeaseInv'
  BY DEF TypeOK, LeaseInv, PrimaryLease, LeaseEpochNamesOneGeneration,
         LeaseUsesBounded, Ref, lease

LEMMA LeaseActivate ==
  ASSUME TypeOK, LeaseInv, NEW p \in Primary, ActivatePrimary(p)
  PROVE  LeaseInv'
  <1>1. p \in Actor /\ NextGeneration(p).status = "Healthy"
    BY DEF Actor, NextGeneration
  <1>2. activePrimary' = p /\ p # None /\ leaseUses' = leaseUses
    BY ActorAssumption DEF ActivatePrimary, uses
  <1>3. CASE activePrimary = None
    <2>1. actor' = [actor EXCEPT ![p] = NextGeneration(p)]
          /\ primaryEpoch' = primaryEpoch
      BY <1>3 DEF ActivatePrimary
    <2>2. PrimaryLease'
      <3>1. actor'[p] = NextGeneration(p)
            /\ \A o \in Primary \ {p} : actor'[o] = actor[o]
        BY <1>1, <2>1 DEF TypeOK, Actor
      <3>2. QED
        BY <1>1, <1>2, <1>3, <3>1, ActorAssumption DEF LeaseInv, PrimaryLease
    <2>3. LeaseUsesBounded' /\ LeaseEpochNamesOneGeneration'
      BY <1>2, <1>3, <2>1
      DEF LeaseInv, LeaseUsesBounded, LeaseEpochNamesOneGeneration
    <2>4. QED BY <2>2, <2>3 DEF LeaseInv
  <1>4. CASE activePrimary # None
    <2>1. /\ actor' = [actor EXCEPT ![activePrimary].status = "Revoked",
                                    ![p] = NextGeneration(p)]
          /\ primaryEpoch' = primaryEpoch + 1
          /\ activePrimary # p
      BY <1>4 DEF ActivatePrimary, AdvanceLease
    <2>2. PrimaryLease'
      <3>1. activePrimary \in Actor
        BY <1>4 DEF TypeOK, Actor
      <3>2. actor'[activePrimary].status = "Revoked"
            /\ actor'[p].status = "Healthy"
        BY <1>1, <2>1, <3>1 DEF TypeOK, ActorState, Unregistered
      <3>3. \A o \in Primary \ {p, activePrimary} : actor'[o] = actor[o]
        BY <2>1 DEF TypeOK, Actor
      <3>4. QED BY <1>2, <3>2, <3>3 DEF LeaseInv, PrimaryLease
    <2>3. LeaseUsesBounded' /\ LeaseEpochNamesOneGeneration'
      <3>1. \A m \in leaseUses : m.epoch \in Nat /\ m.epoch \leq primaryEpoch
        BY EpochAssumption DEF TypeOK, LeaseInv, LeaseUsesBounded
      <3>2. primaryEpoch \in Nat
        BY EpochAssumption DEF TypeOK
      <3>3. QED
        BY <1>2, <2>1, <3>1, <3>2
        DEF LeaseInv, LeaseUsesBounded, LeaseEpochNamesOneGeneration
    <2>4. QED BY <2>2, <2>3 DEF LeaseInv
  <1>5. QED BY <1>3, <1>4

LEMMA LeasePresence ==
  ASSUME TypeOK, LeaseInv, NEW ref \in ActorRef,
         NEW s \in {"Healthy", "Stale", "Stopped"}, SetActorStatus(ref, s)
  PROVE  LeaseInv'
  <1>1. /\ ref.id \in Actor
        /\ actor[ref.id] \in ActorState
        /\ actor' = [actor EXCEPT ![ref.id].status = s]
        /\ leaseUses' = leaseUses
    BY DEF TypeOK, ActorRef, SetActorStatus, uses
  <1>2. \A p \in Primary :
          /\ actor'[p].epoch = actor[p].epoch
          /\ actor'[p].status = IF p = ref.id THEN s ELSE actor[p].status
    BY <1>1 DEF TypeOK, Actor, ActorState, Unregistered
  <1>3. CASE LosesLease(ref.id, s)
    <2>1. /\ primaryEpoch' = primaryEpoch + 1
          /\ activePrimary' = None
          /\ activePrimary = ref.id
          /\ s # "Healthy"
      BY <1>3 DEF SetActorStatus, AdvanceLease, LosesLease
    <2>2. PrimaryLease'
      BY <1>2, <2>1 DEF LeaseInv, PrimaryLease
    <2>3. \A m \in leaseUses : m.epoch \in Nat /\ m.epoch \leq primaryEpoch
      BY EpochAssumption DEF TypeOK, LeaseInv, LeaseUsesBounded
    <2>4. primaryEpoch \in Nat
      BY EpochAssumption DEF TypeOK
    <2>5. LeaseUsesBounded' /\ LeaseEpochNamesOneGeneration'
      BY <1>1, <2>1, <2>3, <2>4
      DEF LeaseInv, LeaseUsesBounded, LeaseEpochNamesOneGeneration
    <2>6. QED BY <2>2, <2>5 DEF LeaseInv
  <1>4. CASE ~LosesLease(ref.id, s)
    <2>1. UNCHANGED lease
      BY <1>4 DEF SetActorStatus
    <2>2. ref.id \in Primary => (s = "Healthy" <=> activePrimary = ref.id)
      BY <1>4, ActorAssumption DEF SetActorStatus, LosesLease
    <2>3. PrimaryLease'
      BY <1>2, <2>1, <2>2 DEF TypeOK, LeaseInv, PrimaryLease, lease
    <2>4. LeaseUsesBounded' /\ LeaseEpochNamesOneGeneration'
      BY <1>1, <1>2, <2>1
      DEF TypeOK, LeaseInv, LeaseUsesBounded, LeaseEpochNamesOneGeneration,
          Ref, lease
    <2>5. QED BY <2>3, <2>4 DEF LeaseInv
  <1>5. QED BY <1>3, <1>4

LEMMA LeaseMessage ==
  ASSUME TypeOK, LeaseInv, NEW e \in Envelope, Authorized(e), FromPrimary(e)
  PROVE  LeaseInv'
  <1>1. UNCHANGED <<lease, registry>>
    BY DEF FromPrimary
  <1>2. PrimaryLease'
    BY <1>1 DEF LeaseInv, PrimaryLease, lease, registry
  <1>3. e.primaryEpoch = primaryEpoch /\ e.sender = Ref(e.sender.id)
    BY DEF Authorized, IsCurrent, Ref, Envelope, ActorRef
  <1>4. e.sender.id = activePrimary /\ activePrimary # None
    <2>1. e.sender.id \in Actor /\ actor[e.sender.id].status = "Healthy"
      BY DEF Envelope, ActorRef, Authorized
    <2>2. QED BY <2>1, ActorAssumption DEF FromPrimary, Actor
  <1>5. LeaseUsesBounded' /\ LeaseEpochNamesOneGeneration'
    BY <1>1, <1>3, <1>4, EpochAssumption
    DEF TypeOK, LeaseInv, LeaseUsesBounded, LeaseEpochNamesOneGeneration,
        FromPrimary, Ref, lease, registry
  <1>6. QED BY <1>2, <1>5 DEF LeaseInv

LEMMA LeaseStep == TypeOK /\ LeaseInv /\ [Next]_vars => LeaseInv'
  <1> SUFFICES ASSUME TypeOK, LeaseInv, [Next]_vars PROVE LeaseInv'
    OBVIOUS
  <1>1. CASE \E p \in Primary : ActivatePrimary(p)
    BY <1>1, LeaseActivate
  <1>2. CASE Presence
    BY <1>2, LeasePresence DEF Presence
  <1>3. CASE TeamLifecycle
    BY <1>3, LeaseKept
    DEF TeamLifecycle, CreateTeam, CloseTeam, SetTeamStatus, uses
  <1>4. CASE \E a \in Executor :
               RegisterImplementation(a) \/ ReplaceImplementation(a)
    <2>1. PICK a \in Executor :
            RegisterImplementation(a) \/ ReplaceImplementation(a)
      BY <1>4
    <2>2. actor' = [actor EXCEPT ![a] = NextGeneration(a)]
          /\ UNCHANGED <<lease, leaseUses>>
      BY <2>1 DEF RegisterImplementation, ReplaceImplementation, uses
    <2>3. \A p \in Primary : actor'[p] = actor[p]
      BY <2>2, ActorAssumption DEF TypeOK, Actor
    <2>4. QED BY <2>2, <2>3, LeaseKept
  <1>5. ASSUME NEW e \in Envelope, Accept(e)
        PROVE  LeaseInv'
    <2>1. CASE FromPrimary(e)
      BY <1>5, <2>1, LeaseMessage DEF Accept
    <2>2. CASE FromAssignee(e) \/ \E h \in handoffs : AcceptHandoff(e, h)
      BY <2>2, LeaseKept DEF FromAssignee, AcceptHandoff, registry, uses
    <2>3. QED BY <1>5, <2>1, <2>2 DEF Accept
  <1>6. CASE UNCHANGED vars
    BY <1>6, LeaseKept DEF vars, registry, uses
  <1>7. QED BY <1>1, <1>2, <1>3, <1>4, <1>5, <1>6 DEF Next

\* One healthy Primary at a time, and each lease epoch names one generation of
\* one Primary for ever: no takeover, presence loss or restart of a Primary
\* ever lets two generations speak under the same epoch.
THEOREM LeaseIsExclusive ==
  Spec => [](PrimaryLease /\ LeaseEpochNamesOneGeneration)
  <1>1. Init => LeaseInv
    BY DEF Init, LeaseInv, PrimaryLease, LeaseEpochNamesOneGeneration,
           LeaseUsesBounded, Unregistered, Actor
  <1>2. LeaseInv => PrimaryLease /\ LeaseEpochNamesOneGeneration
    BY DEF LeaseInv
  <1>3. QED BY <1>1, <1>2, LeaseStep, TypeCorrect, PTL DEF Spec

\* At most one Primary is healthy, and it holds the lease, whatever calls activate, lose,
\* stop or revive Primaries (activate_primary and set_actor_status).
THEOREM PrimaryIsAlone == Spec => []PrimaryLease
  BY LeaseIsExclusive, PTL

-----------------------------------------------------------------------------
(* What a message other than a creation or a handoff does to a request: it   *)
(* stays with its team and assignment, and unfinished work is neither made   *)
(* of finished work nor moved to another team generation.                   *)

Edits(r, q) ==
  /\ r \in Created
  /\ q \in RequestState
  /\ request' = [request EXCEPT ![r] = q]
  /\ q.team = request[r].team
  /\ q.assignment = request[r].assignment
  /\ BlocksTeamClose(q.status) =>
       /\ BlocksTeamClose(request[r].status)
       /\ q.teamEpoch = request[r].teamEpoch

LEMMA TakeEdits ==
  ASSUME Work, NEW r \in Created,
         NEW event \in {"Start", "Block", "Complete"}, Take(r, event)
  PROVE  \E q : Edits(r, q)
  <1> DEFINE q == [request[r] EXCEPT !.status = RequestTo[event]]
  <1>1. request[r] \in RequestState
    BY PairedRun DEF Work
  <1>2. RequestTo[event] \in RequestStatus
    BY DEF RequestTo, RequestStatus
  <1>3. BlocksTeamClose(RequestTo[event]) =>
          BlocksTeamClose(request[r].status)
    BY DEF RequestTo, RequestFrom, Workable, BlocksTeamClose, Take, CanTake
  <1>4. Edits(r, q)
    BY <1>1, <1>2, <1>3 DEF Edits, Take, RequestState
  <1>5. QED BY <1>4

LEMMA RejectEdits ==
  ASSUME Work, NEW e \in Envelope, NEW d \in DecisionId, NEW c \in Candidate, Reject(e, d, c)
  PROVE  \E q : Edits(e.request, q)
  <1> DEFINE r == e.request
             q == Judged(request[r], d, "Reject")
  <1>1. r \in Created /\ request[r] \in RequestState
    BY PairedRun DEF Work, Reject, Context
  <1>2. q \in RequestState
    BY <1>1, JudgedTyped DEF Reject, Verdict
  <1>3. /\ q.team = request[r].team
        /\ q.assignment = request[r].assignment
        /\ BlocksTeamClose(q.status) =>
             /\ BlocksTeamClose(request[r].status)
             /\ q.teamEpoch = request[r].teamEpoch
    BY <1>1 DEF Reject, CanTake, RequestFrom, RequestTo, Workable, RequestState,
                BlocksTeamClose, Judged
  <1>4. request' = [request EXCEPT ![r] = q]
    BY DEF Reject
  <1> HIDE DEF q
  <1>5. Edits(r, q)
    BY <1>1, <1>2, <1>3, <1>4 DEF Edits
  <1>6. QED BY <1>5

LEMMA AcceptEdits ==
  ASSUME Work, NEW e \in Envelope, NEW d \in DecisionId, NEW c \in Candidate, AcceptCandidate(e, d, c)
  PROVE  \E q : Edits(e.request, q)
  <1> DEFINE r == e.request
             q == [Judged(request[r], d, "Accept") EXCEPT !.teamEpoch = e.teamEpoch]
  <1>1. r \in Created /\ request[r] \in RequestState
    BY PairedRun DEF Work, AcceptCandidate, Context
  <1>2. q \in RequestState
    <2>1. Judged(request[r], d, "Accept") \in RequestState
      BY <1>1, JudgedTyped DEF AcceptCandidate, Verdict
    <2>2. QED BY <2>1 DEF RequestState, Envelope
  <1>3. /\ q.team = request[r].team
        /\ q.assignment = request[r].assignment
        /\ BlocksTeamClose(q.status) =>
             /\ BlocksTeamClose(request[r].status)
             /\ q.teamEpoch = request[r].teamEpoch
    BY <1>1 DEF AcceptCandidate, CanTake, RequestFrom, RequestTo, Workable, RequestState,
                BlocksTeamClose, Judged
  <1>4. request' = [request EXCEPT ![r] = q]
    BY DEF AcceptCandidate
  <1> HIDE DEF q
  <1>5. Edits(r, q)
    BY <1>1, <1>2, <1>3, <1>4 DEF Edits
  <1>6. QED BY <1>5

LEMMA AuthorizeEdits ==
  ASSUME Work, NEW e \in Envelope, NEW d \in DecisionId, NEW c \in Candidate, Authorize(e, d, c)
  PROVE  \E q : Edits(e.request, q)
  <1> DEFINE r == e.request
             q == [request[r] EXCEPT !.status = RequestTo.Authorize,
                                 !.authorization = [id |-> d, candidate |-> c]]
  <1>1. r \in Created /\ request[r] \in RequestState
    BY PairedRun DEF Work, Authorize, Context
  <1>2. q \in RequestState
    <2>1. [id |-> d, candidate |-> c] \in Authorization
      BY DEF Authorization
    <2>2. QED BY <1>1, <2>1 DEF RequestState, RequestTo, RequestStatus
  <1>3. /\ q.team = request[r].team
        /\ q.assignment = request[r].assignment
        /\ BlocksTeamClose(q.status) =>
             /\ BlocksTeamClose(request[r].status)
             /\ q.teamEpoch = request[r].teamEpoch
    BY <1>1 DEF Authorize, CanTake, RequestFrom, RequestTo, Workable, RequestState,
                BlocksTeamClose
  <1>4. request' = [request EXCEPT ![r] = q]
    BY DEF Authorize
  <1> HIDE DEF q
  <1>5. Edits(r, q)
    BY <1>1, <1>2, <1>3, <1>4 DEF Edits
  <1>6. QED BY <1>5

LEMMA CancelEdits ==
  ASSUME Work, NEW e \in Envelope, Cancel(e)
  PROVE  \E q : Edits(e.request, q)
  <1> DEFINE r == e.request
             q == [request[r] EXCEPT !.status = RequestTo.Cancel,
                                 !.teamEpoch = e.teamEpoch]
  <1>1. r \in Created /\ request[r] \in RequestState
    BY PairedRun DEF Work, Cancel, Context
  <1>2. q \in RequestState
    BY <1>1 DEF RequestState, RequestTo, RequestStatus, Envelope
  <1>3. /\ q.team = request[r].team
        /\ q.assignment = request[r].assignment
        /\ BlocksTeamClose(q.status) =>
             /\ BlocksTeamClose(request[r].status)
             /\ q.teamEpoch = request[r].teamEpoch
    BY <1>1 DEF Cancel, CanTake, RequestFrom, RequestTo, Workable, RequestState,
                BlocksTeamClose
  <1>4. request' = [request EXCEPT ![r] = q]
    BY DEF Cancel
  <1> HIDE DEF q
  <1>5. Edits(r, q)
    BY <1>1, <1>2, <1>3, <1>4 DEF Edits
  <1>6. QED BY <1>5

LEMMA SubmitEdits ==
  ASSUME Work, NEW e \in Envelope, FromAssignee(e), NEW c \in Candidate, SubmitCandidate(e, c)
  PROVE  \E q : Edits(e.request, q)
  <1> DEFINE r == e.request
             q == Submitted(request[r], c)
  <1>1. r \in Created /\ request[r] \in RequestState
    BY PairedRun DEF Work, FromAssignee, Context
  <1>2. q \in RequestState
    BY <1>1, SubmittedTyped
  <1>3. /\ q.team = request[r].team
        /\ q.assignment = request[r].assignment
        /\ BlocksTeamClose(q.status) =>
             /\ BlocksTeamClose(request[r].status)
             /\ q.teamEpoch = request[r].teamEpoch
    BY <1>1 DEF SubmitCandidate, CanTake, RequestFrom, RequestTo, Workable, RequestState,
                BlocksTeamClose, Submitted
  <1>4. request' = [request EXCEPT ![r] = q]
    BY DEF SubmitCandidate
  <1> HIDE DEF q
  <1>5. Edits(r, q)
    BY <1>1, <1>2, <1>3, <1>4 DEF Edits
  <1>6. QED BY <1>5

LEMMA UnchangedEdits ==
  ASSUME Work, NEW r \in Created, UNCHANGED request
  PROVE  \E q : Edits(r, q)
  <1>1. request[r] \in RequestState
    BY PairedRun DEF Work
  <1>2. Edits(r, request[r])
    BY <1>1 DEF Edits, Work, TypeOK
  <1>3. QED BY <1>2

LEMMA PrimaryEdits ==
  ASSUME Work, NEW e \in Envelope, PrimaryMessage(e)
  PROVE  \/ \E a \in Executor : CreateRequest(e, a)
         \/ \E q : Edits(e.request, q)
  <1>1. CASE \E d \in DecisionId \ decided, c \in Candidate :
               Reject(e, d, c) \/ AcceptCandidate(e, d, c)
    BY <1>1, RejectEdits, AcceptEdits
  <1>2. CASE \E d \in decided, c \in Candidate : Authorize(e, d, c)
    BY <1>2, AuthorizeEdits DEF Work, TypeOK
  <1>3. CASE \E d \in decided, c \in Candidate : Complete(e, d, c)
    BY <1>3, TakeEdits DEF Complete, Context
  <1>4. CASE Cancel(e)
    BY <1>4, CancelEdits
  <1>5. CASE PauseRun(e)
    BY <1>5, UnchangedEdits DEF PauseRun, Controllable, Context
  <1>6. CASE ResumeRun(e)
    BY <1>6, TakeEdits DEF ResumeRun, Controllable, Context
  <1>7. QED BY <1>1, <1>2, <1>3, <1>4, <1>5, <1>6 DEF PrimaryMessage

LEMMA AssigneeEdits ==
  ASSUME Work, NEW e \in Envelope, FromAssignee(e), AssigneeMessage(e)
  PROVE  \E q : Edits(e.request, q)
  <1>1. e.request \in Created
    BY DEF FromAssignee, Context
  <1>2. CASE Progress(e) \/ Blocker(e)
    BY <1>1, <1>2, TakeEdits DEF Progress, Blocker
  <1>3. CASE \E c \in Candidate : SubmitCandidate(e, c)
    BY <1>3, SubmitEdits
  <1>4. CASE \E h \in HandoffId, to \in Team, c \in Candidate \cup {None} :
               OfferHandoff(e, h, to, c)
    BY <1>1, <1>4, UnchangedEdits DEF OfferHandoff
  <1>5. QED BY <1>2, <1>3, <1>4 DEF AssigneeMessage

-----------------------------------------------------------------------------
(* Assignment epochs.  As with the lease: no message used a later epoch than *)
(* the request's present one, and those of the present one are the          *)
(* assignee's.                                                             *)

AssignmentUsesBounded ==
  \A m \in assignmentUses :
    /\ m.request \in Created
    /\ m.epoch \leq request[m.request].assignment.epoch
    /\ m.epoch = request[m.request].assignment.epoch =>
         m.sender = request[m.request].assignment.actor

AssignmentInv == AssignmentEpochNamesOneExecutor /\ AssignmentUsesBounded

\* A step keeps a request's assignment, or takes it to a later epoch.
AssignmentAdvances ==
  \A r \in Created :
    /\ r \in Created'
    /\ \/ request'[r].assignment = request[r].assignment
       \/ /\ request'[r].assignment.epoch \in Nat
          /\ request[r].assignment.epoch < request'[r].assignment.epoch

LEMMA AssignmentKept ==
  ASSUME Work, AssignmentInv, AssignmentAdvances, UNCHANGED assignmentUses
  PROVE  AssignmentInv'
  <1>1. \A m \in assignmentUses :
          /\ m.epoch \in Nat
          /\ request[m.request].assignment.epoch \in Nat
    <2>1. ASSUME NEW m \in assignmentUses
          PROVE  request[m.request].assignment.epoch \in Nat
      BY <2>1, PairedRun, EpochAssumption
      DEF AssignmentInv, AssignmentUsesBounded, Work, RequestState, Assignment
    <2>2. QED BY <2>1, EpochAssumption DEF Work, TypeOK
  <1>2. QED
    BY <1>1
    DEF AssignmentInv, AssignmentUsesBounded, AssignmentEpochNamesOneExecutor,
        AssignmentAdvances

LEMMA EditKeepsAssignments ==
  ASSUME Work, NEW r, NEW q, Edits(r, q)
  PROVE  AssignmentAdvances
  BY NoneAssumption DEF Edits, AssignmentAdvances, Created, Work, TypeOK

LEMMA CreationKeepsAssignments ==
  ASSUME Work, NEW e \in Envelope, NEW a \in Executor, CreateRequest(e, a)
  PROVE  AssignmentAdvances
  BY DEF AssignmentAdvances, CreateRequest, Created, Work, TypeOK

LEMMA HandoffAdvances ==
  ASSUME Work, NEW e \in Envelope, NEW h \in handoffs, AcceptHandoff(e, h)
  PROVE  AssignmentAdvances
  <1>1. h \in PendingHandoff /\ h.epoch < MaxAssignmentEpoch /\ h.epoch \in Nat
    BY EpochAssumption DEF Work, TypeOK, AcceptHandoff, PendingHandoff
  <1>2. /\ e.request \in Created
        /\ request[e.request] \in RequestState
        /\ Received(request[e.request], e, h) \in RequestState
        /\ request[e.request].assignment.epoch = h.epoch
    BY <1>1, PairedRun, ReceivedTyped DEF Work, AcceptHandoff
  <1>3. Received(request[e.request], e, h).assignment.epoch = h.epoch + 1
    BY <1>2 DEF Received, NextAssignment, RequestState
  <1>4. request' =
          [request EXCEPT ![e.request] = Received(request[e.request], e, h)]
    BY DEF AcceptHandoff
  <1>5. QED
    BY <1>1, <1>2, <1>3, <1>4, NoneAssumption
    DEF AssignmentAdvances, Created, Work, TypeOK

LEMMA ReplacementAdvances ==
  ASSUME Work, NEW a \in Executor, ReplaceImplementation(a)
  PROVE  AssignmentAdvances
  <1> SUFFICES ASSUME NEW r \in Created
               PROVE  /\ r \in Created'
                      /\ \/ request'[r].assignment = request[r].assignment
                         \/ /\ request'[r].assignment.epoch \in Nat
                            /\ request[r].assignment.epoch
                                 < request'[r].assignment.epoch
    BY DEF AssignmentAdvances
  <1>1. /\ request[r] \in RequestState
        /\ Moved(request[r], r, a) \in RequestState
        /\ request'[r] = Moved(request[r], r, a)
        /\ r \in Request
    BY PairedRun, MovedTyped DEF Work, ReplaceImplementation, Created
  <1>2. r \in Created'
    BY <1>1, NoneAssumption DEF Created
  <1>3. request[r].assignment.epoch \in Nat
    BY <1>1, EpochAssumption DEF RequestState, Assignment
  <1>4. CASE r \in Reassigned(a)
    <2>1. Moved(request[r], r, a).assignment = Succession(r, a)
      BY <1>1, <1>4 DEF Moved, Reassigned, RequestState
    <2>2. QED BY <1>1, <1>2, <1>3, <2>1 DEF Succession, NextAssignment
  <1>5. CASE r \notin Reassigned(a)
    BY <1>1, <1>2, <1>5 DEF Moved, RequestState
  <1>6. QED BY <1>4, <1>5

LEMMA UseByAssignee ==
  ASSUME Work, AssignmentInv, NEW e \in Envelope, FromAssignee(e),
         AssigneeMessage(e)
  PROVE  AssignmentInv'
  <1> DEFINE m == [request |-> e.request, sender |-> e.sender,
                   epoch |-> e.assignmentEpoch]
  <1>1. PICK q : Edits(e.request, q)
    BY AssigneeEdits
  <1>2. AssignmentAdvances /\ \A r \in Created :
          r \in Created' /\ request'[r].assignment = request[r].assignment
    BY <1>1, EditKeepsAssignments, NoneAssumption
    DEF Edits, Created, Work, TypeOK
  <1>3. /\ e.request \in Created
        /\ request[e.request].assignment.actor = e.sender
        /\ request[e.request].assignment.epoch = e.assignmentEpoch
        /\ assignmentUses' = assignmentUses \cup {m}
    BY DEF FromAssignee, Context
  <1>4. e.assignmentEpoch \in Nat
    BY <1>3, PairedRun, EpochAssumption DEF Work, RequestState, Assignment
  <1>5. \A n \in assignmentUses :
          n.request = e.request /\ n.epoch = e.assignmentEpoch =>
            n.sender = e.sender
    BY <1>3 DEF AssignmentInv, AssignmentUsesBounded
  <1>6. AssignmentEpochNamesOneExecutor'
    BY <1>3, <1>5 DEF AssignmentInv, AssignmentEpochNamesOneExecutor
  <1>7. AssignmentUsesBounded'
    BY <1>2, <1>3, <1>4 DEF AssignmentInv, AssignmentUsesBounded
  <1>8. QED BY <1>6, <1>7 DEF AssignmentInv

LEMMA AssignmentStep == Work /\ AssignmentInv /\ [Next]_vars => AssignmentInv'
  <1> SUFFICES ASSUME Work, AssignmentInv, [Next]_vars PROVE AssignmentInv'
    OBVIOUS
  <1>1. CASE \/ \E p \in Primary : ActivatePrimary(p)
             \/ Presence
             \/ TeamLifecycle
             \/ \E a \in Executor : RegisterImplementation(a)
             \/ UNCHANGED vars
    <2>1. UNCHANGED <<request, assignmentUses>>
      BY <1>1
      DEF ActivatePrimary, Presence, SetActorStatus, TeamLifecycle, CreateTeam,
          CloseTeam, SetTeamStatus, RegisterImplementation, vars, work, uses
    <2>2. QED
      BY <2>1
      DEF AssignmentInv, AssignmentEpochNamesOneExecutor,
          AssignmentUsesBounded, Created
  <1>2. CASE \E a \in Executor : ReplaceImplementation(a)
    BY <1>2, ReplacementAdvances, AssignmentKept
    DEF ReplaceImplementation, uses
  <1>3. ASSUME NEW e \in Envelope, Accept(e)
        PROVE  AssignmentInv'
    <2>1. CASE FromPrimary(e) /\ PrimaryMessage(e)
      BY <2>1, PrimaryEdits, EditKeepsAssignments, CreationKeepsAssignments,
         AssignmentKept
      DEF FromPrimary
    <2>2. CASE FromAssignee(e) /\ AssigneeMessage(e)
      BY <2>2, UseByAssignee
    <2>3. CASE \E h \in handoffs : AcceptHandoff(e, h)
      BY <2>3, HandoffAdvances, AssignmentKept DEF AcceptHandoff, uses
    <2>4. QED BY <1>3, <2>1, <2>2, <2>3 DEF Accept
  <1>4. QED BY <1>1, <1>2, <1>3 DEF Next

\* No two executor generations are ever heard for one request under the same
\* assignment epoch, through any sequence of replacements and handoffs.
THEOREM AssignmentIsExclusive == Spec => []AssignmentEpochNamesOneExecutor
  <1>1. Init => AssignmentInv
    BY DEF Init, AssignmentInv, AssignmentEpochNamesOneExecutor,
           AssignmentUsesBounded
  <1>2. AssignmentInv => AssignmentEpochNamesOneExecutor
    BY DEF AssignmentInv
  <1>3. QED BY <1>1, <1>2, AssignmentStep, WorkAlways, PTL DEF Spec

-----------------------------------------------------------------------------
(* Ownership.  A member is registered under its own team, so the actions on  *)
(* one team leave the members of the others alone.                          *)

MembersAtHome == \A t \in Team : \A a \in team[t].actors : HomeTeam[a] = t

OwnershipInv == MembersAtHome /\ LiveExecutorsHaveATeam /\ ActiveWorkIsFenced

LEMMA OwnershipKept ==
  ASSUME Work, OwnershipInv, UNCHANGED <<request, team>>,
         \A a \in Executor :
           /\ actor'[a].epoch = actor[a].epoch
           /\ actor'[a].status \in {"Healthy", "Stale"} =>
                actor[a].status \in {"Healthy", "Stale"}
  PROVE  OwnershipInv'
  <1>1. MembersAtHome' /\ LiveExecutorsHaveATeam'
    BY DEF OwnershipInv, MembersAtHome, LiveExecutorsHaveATeam
  <1>2. ASSUME NEW r \in Created, Fenced(request[r])
        PROVE  Fenced(request[r])'
    <2>1. request[r] \in RequestState
      BY PairedRun DEF Work
    <2>2. request[r].assignment.actor.id \in Executor
      BY <1>2, <2>1 DEF Fenced, Work, TypeOK, TeamState, RequestState
    <2>3. QED BY <1>2, <2>2 DEF Fenced, IsCurrent
  <1>3. ActiveWorkIsFenced'
    BY <1>2 DEF OwnershipInv, ActiveWorkIsFenced, Created
  <1>4. QED BY <1>1, <1>3 DEF OwnershipInv

LEMMA PresenceOwnership ==
  ASSUME Work, OwnershipInv, NEW ref \in ActorRef,
         NEW s \in {"Healthy", "Stale", "Stopped"}, SetActorStatus(ref, s)
  PROVE  OwnershipInv'
  <1>1. /\ ref.id \in Actor
        /\ actor' = [actor EXCEPT ![ref.id].status = s]
        /\ ActorCan(actor[ref.id].status, s)
        /\ UNCHANGED <<request, team>>
    BY DEF SetActorStatus, ActorRef, work
  <1>2. \A a \in Executor :
          /\ actor'[a].epoch = actor[a].epoch
          /\ actor'[a].status = IF a = ref.id THEN s ELSE actor[a].status
    BY <1>1 DEF Work, TypeOK, Actor, ActorState, Unregistered
  <1>3. s \in {"Healthy", "Stale"} =>
          actor[ref.id].status \in {"Healthy", "Stale"}
    BY <1>1 DEF ActorCan
  <1>4. QED BY <1>1, <1>2, <1>3, OwnershipKept

LEMMA ActivationOwnership ==
  ASSUME Work, OwnershipInv, NEW p \in Primary, ActivatePrimary(p)
  PROVE  OwnershipInv'
  <1>1. \A a \in Executor : actor'[a] = actor[a]
    BY ActorAssumption DEF Work, TypeOK, ActivatePrimary, Actor
  <1>2. QED BY <1>1, OwnershipKept DEF ActivatePrimary, work

LEMMA TeamOwnership ==
  ASSUME Work, OwnershipInv, NEW t \in Team,
         \/ CreateTeam(t)
         \/ CloseTeam(t)
         \/ \E s \in {"Active", "Paused", "Closing"} : SetTeamStatus(t, s)
  PROVE  OwnershipInv'
  <1>1. UNCHANGED <<actor, request>>
    BY DEF CreateTeam, CloseTeam, SetTeamStatus, work
  <1>2. \A u \in Team \ {t} : team'[u] = team[u]
    BY DEF CreateTeam, CloseTeam, SetTeamStatus, Work, TypeOK
  <1>3. CASE CreateTeam(t)
    <2>1. team'[t].actors = {} /\ team[t].status \in {"Absent", "Closed"}
      BY <1>3 DEF CreateTeam, Work, TypeOK
    <2>2. MembersAtHome'
      BY <1>2, <2>1 DEF OwnershipInv, MembersAtHome
    <2>3. LiveExecutorsHaveATeam'
      BY <1>1, <1>2, <2>1, ActorAssumption
      DEF OwnershipInv, LiveExecutorsHaveATeam
    <2>4. ActiveWorkIsFenced'
      <3>1. \A r \in Created : request[r].team \in Team
        BY PairedRun DEF Work, RequestState
      <3>2. QED
        BY <1>1, <1>2, <2>1, <3>1
        DEF OwnershipInv, ActiveWorkIsFenced, Fenced, IsCurrent, Created
    <2>5. QED BY <2>2, <2>3, <2>4 DEF OwnershipInv
  <1>4. ASSUME NEW s \in {"Active", "Paused", "Closing", "Closed"},
               SetTeamStatus(t, s), s = "Closed" => CloseTeam(t)
        PROVE  OwnershipInv'
    <2>1. /\ team[t] \in TeamState
          /\ team'[t].status = s
          /\ team'[t].actors = team[t].actors
          /\ team'[t].epoch = team[t].epoch
      BY <1>4 DEF SetTeamStatus, Work, TypeOK, TeamState
    <2>2. MembersAtHome'
      BY <1>2, <2>1 DEF OwnershipInv, MembersAtHome
    <2>3. LiveExecutorsHaveATeam'
      <3>1. s = "Closed" => \A a \in team[t].actors : actor[a].status = "Stopped"
        BY <1>4 DEF CloseTeam
      <3>2. QED
        BY <1>1, <1>2, <2>1, <3>1, ActorAssumption
        DEF OwnershipInv, LiveExecutorsHaveATeam
    <2>4. ActiveWorkIsFenced'
      <3>1. s = "Closed" => \A r \in Created :
              request[r].team = t => ~BlocksTeamClose(request[r].status)
        BY <1>4 DEF CloseTeam
      <3>2. \A r \in Created : request[r].team \in Team
        BY PairedRun DEF Work, RequestState
      <3>3. QED
        BY <1>1, <1>2, <2>1, <3>1, <3>2
        DEF OwnershipInv, ActiveWorkIsFenced, Fenced, IsCurrent, Created
    <2>5. QED BY <2>2, <2>3, <2>4 DEF OwnershipInv
  <1>5. QED BY <1>3, <1>4 DEF CloseTeam

LEMMA RegisterOwnership ==
  ASSUME Work, OwnershipInv, NEW a \in Executor, RegisterImplementation(a)
  PROVE  OwnershipInv'
  <1> DEFINE t == HomeTeam[a]
  <1>1. /\ t \in Team
        /\ UNCHANGED request
        /\ actor' = [actor EXCEPT ![a] = NextGeneration(a)]
        /\ team' = [team EXCEPT ![t].actors = @ \cup {a}]
        /\ a \notin team[t].actors
        /\ team[t].status = "Active"
    BY ActorAssumption DEF RegisterImplementation, work
  <1>2. /\ team'[t].actors = team[t].actors \cup {a}
        /\ team'[t].status = "Active"
        /\ team'[t].epoch = team[t].epoch
        /\ \A u \in Team \ {t} : team'[u] = team[u]
    BY <1>1 DEF Work, TypeOK, TeamState
  <1>3. \A b \in Executor \ {a} : actor'[b] = actor[b]
    BY <1>1 DEF Work, TypeOK, Actor
  <1>4. MembersAtHome'
    BY <1>2 DEF OwnershipInv, MembersAtHome
  <1>5. LiveExecutorsHaveATeam'
    BY <1>2, <1>3, ActorAssumption DEF OwnershipInv, LiveExecutorsHaveATeam
  <1>6. ASSUME NEW r \in Created, BlocksTeamClose(request[r].status)
        PROVE  Fenced(request[r])'
    <2>1. request[r] \in RequestState /\ Fenced(request[r])
      BY <1>6, PairedRun DEF Work, OwnershipInv, ActiveWorkIsFenced
    <2>2. /\ request[r].team \in Team
          /\ request[r].assignment.actor.id \in team[request[r].team].actors
          /\ request[r].assignment.actor.id \in Executor
      BY <2>1 DEF Fenced, RequestState, Work, TypeOK, TeamState
    <2>3. request[r].assignment.actor.id # a
      BY <1>1, <2>2 DEF OwnershipInv, MembersAtHome
    <2>4. QED BY <1>1, <1>2, <1>3, <2>1, <2>2, <2>3 DEF Fenced, IsCurrent
  <1>7. ActiveWorkIsFenced'
    BY <1>1, <1>6 DEF ActiveWorkIsFenced, Created
  <1>8. QED BY <1>4, <1>5, <1>7 DEF OwnershipInv

LEMMA ReplaceOwnership ==
  ASSUME Work, OwnershipInv, NEW a \in Executor, ReplaceImplementation(a)
  PROVE  OwnershipInv'
  <1> DEFINE t == HomeTeam[a]
  <1>1. /\ t \in Team
        /\ a \in team[t].actors
        /\ team[t].status = "Active"
        /\ actor' = [actor EXCEPT ![a] = NextGeneration(a)]
        /\ team' = [team EXCEPT ![t].epoch = @ + 1]
    BY ActorAssumption DEF ReplaceImplementation
  <1>2. /\ team'[t].actors = team[t].actors
        /\ team'[t].status = "Active"
        /\ team'[t].epoch = team[t].epoch + 1
        /\ \A u \in Team \ {t} : team'[u] = team[u]
    BY <1>1 DEF Work, TypeOK, TeamState
  <1>3. /\ actor'[a] = NextGeneration(a)
        /\ \A b \in Executor \ {a} : actor'[b] = actor[b]
    BY <1>1 DEF Work, TypeOK, Actor
  <1>4. MembersAtHome'
    BY <1>2 DEF OwnershipInv, MembersAtHome
  <1>5. LiveExecutorsHaveATeam'
    BY <1>1, <1>2, <1>3, ActorAssumption DEF OwnershipInv, LiveExecutorsHaveATeam
  <1>6. ASSUME NEW r \in Created', BlocksTeamClose(request'[r].status)
        PROVE  Fenced(request[r])'
    <2>1. /\ r \in Created
          /\ request'[r] = Moved(request[r], r, a)
          /\ request[r] \in RequestState
      <3>1. r \in Request /\ request'[r] = Moved(request[r], r, a)
        BY DEF ReplaceImplementation, Created
      <3>2. r \in Created
        BY <3>1 DEF Moved, Carried, Created
      <3>3. QED BY <3>1, <3>2, PairedRun DEF Work
    <2>2. /\ Moved(request[r], r, a).status = request[r].status
          /\ Moved(request[r], r, a).team = request[r].team
      BY <2>1 DEF Moved, RequestState
    <2>3. /\ Fenced(request[r])
          /\ request[r].team \in Team
          /\ ~IsTerminal(request[r].status)
      BY <1>6, <2>1, <2>2
      DEF OwnershipInv, ActiveWorkIsFenced, RequestState, BlocksTeamClose,
          IsTerminal
    <2>4. /\ request[r].assignment.actor.id \in team[request[r].team].actors
          /\ request[r].assignment.actor.id \in Executor
      BY <2>3 DEF Fenced, Work, TypeOK, TeamState
    <2>5. CASE request[r].team = t
      <3>1. r \in Carried(t)
        BY <2>1, <2>3, <2>5 DEF Carried
      <3>2. Moved(request[r], r, a).teamEpoch = team'[t].epoch
        BY <1>2, <2>1, <3>1 DEF Moved, RequestState
      <3>3. CASE request[r].assignment.actor.id = a
        <4>1. r \in Reassigned(a)
          BY <3>1, <3>3 DEF Reassigned
        <4>2. Moved(request[r], r, a).assignment = Succession(r, a)
          BY <2>1, <3>1, <4>1 DEF Moved, RequestState
        <4>3. /\ Moved(request[r], r, a).assignment.actor.id = a
              /\ Moved(request[r], r, a).assignment.actor.epoch
                   = actor'[a].epoch
          BY <1>3, <4>2 DEF Succession, NextAssignment, NextGeneration
        <4>4. QED
          BY <1>1, <1>2, <2>1, <2>2, <2>5, <3>2, <4>3 DEF Fenced, IsCurrent
      <3>4. CASE request[r].assignment.actor.id # a
        <4>1. r \notin Reassigned(a)
          BY <3>4 DEF Reassigned
        <4>2. Moved(request[r], r, a).assignment = request[r].assignment
          BY <2>1, <3>1, <4>1 DEF Moved, RequestState
        <4>3. QED
          BY <1>2, <1>3, <2>1, <2>2, <2>3, <2>4, <2>5, <3>2, <3>4, <4>2
          DEF Fenced, IsCurrent
      <3>5. QED BY <3>3, <3>4
    <2>6. CASE request[r].team # t
      <3>1. Moved(request[r], r, a) = request[r]
        BY <2>6 DEF Moved, Carried
      <3>2. request[r].assignment.actor.id # a
        BY <2>3, <2>4, <2>6 DEF OwnershipInv, MembersAtHome
      <3>3. QED
        BY <1>2, <1>3, <2>1, <2>3, <2>4, <2>6, <3>1, <3>2 DEF Fenced, IsCurrent
    <2>7. QED BY <2>5, <2>6
  <1>7. ActiveWorkIsFenced'
    BY <1>6 DEF ActiveWorkIsFenced
  <1>8. QED BY <1>4, <1>5, <1>7 DEF OwnershipInv

LEMMA EditOwnership ==
  ASSUME Work, OwnershipInv, UNCHANGED registry, NEW r, NEW q, Edits(r, q)
  PROVE  OwnershipInv'
  <1>1. MembersAtHome' /\ LiveExecutorsHaveATeam'
    BY DEF OwnershipInv, MembersAtHome, LiveExecutorsHaveATeam, registry
  <1>2. ASSUME NEW s \in Created', BlocksTeamClose(request'[s].status)
        PROVE  Fenced(request[s])'
    <2>1. CASE s = r
      <3>1. request'[s] = q
        BY <2>1 DEF Edits, Work, TypeOK, Created
      <3>2. Fenced(request[r]) /\ q.teamEpoch = request[r].teamEpoch
        BY <1>2, <3>1 DEF Edits, OwnershipInv, ActiveWorkIsFenced
      <3>3. QED BY <3>1, <3>2 DEF Edits, Fenced, IsCurrent, registry
    <2>2. CASE s # r
      <3>1. s \in Created /\ request'[s] = request[s]
        BY <2>2 DEF Edits, Work, TypeOK, Created
      <3>2. QED
        BY <1>2, <3>1
        DEF OwnershipInv, ActiveWorkIsFenced, Fenced, IsCurrent, registry
    <2>3. QED BY <2>1, <2>2
  <1>3. QED BY <1>1, <1>2 DEF OwnershipInv, ActiveWorkIsFenced

LEMMA CreationOwnership ==
  ASSUME Work, OwnershipInv, UNCHANGED registry,
         NEW e \in Envelope, NEW a \in Executor, Authorized(e),
         CreateRequest(e, a)
  PROVE  OwnershipInv'
  <1>1. MembersAtHome' /\ LiveExecutorsHaveATeam'
    BY DEF OwnershipInv, MembersAtHome, LiveExecutorsHaveATeam, registry
  <1>2. a \in team[e.team].actors
    BY DEF OwnershipInv, LiveExecutorsHaveATeam, CreateRequest
  <1>3. e.teamEpoch = team[e.team].epoch
    BY DEF Authorized, HistoricalPrimary, CreateRequest
  <1>4. /\ e.request \in Request
        /\ request'[e.request].team = e.team
        /\ request'[e.request].teamEpoch = e.teamEpoch
        /\ request'[e.request].assignment.actor = Ref(a)
        /\ \A s \in Request \ {e.request} : request'[s] = request[s]
    BY DEF CreateRequest, Envelope, Work, TypeOK
  <1>5. ASSUME NEW s \in Created', BlocksTeamClose(request'[s].status)
        PROVE  Fenced(request[s])'
    <2>1. CASE s = e.request
      BY <1>2, <1>3, <1>4, <2>1
      DEF CreateRequest, Fenced, IsCurrent, Ref, registry
    <2>2. CASE s # e.request
      BY <1>4, <1>5, <2>2
      DEF OwnershipInv, ActiveWorkIsFenced, Fenced, IsCurrent, registry, Created
    <2>3. QED BY <2>1, <2>2
  <1>6. QED BY <1>1, <1>5 DEF OwnershipInv, ActiveWorkIsFenced

LEMMA HandoffOwnership ==
  ASSUME Work, OwnershipInv, NEW e \in Envelope, Authorized(e),
         NEW h \in handoffs, AcceptHandoff(e, h)
  PROVE  OwnershipInv'
  <1>1. UNCHANGED <<actor, team>>
    BY DEF AcceptHandoff, registry
  <1>2. MembersAtHome' /\ LiveExecutorsHaveATeam'
    BY <1>1 DEF OwnershipInv, MembersAtHome, LiveExecutorsHaveATeam
  <1>3. e.sender.id \in team[e.team].actors /\ team[e.team].status = "Active"
    BY DEF OwnershipInv, LiveExecutorsHaveATeam, AcceptHandoff, Authorized
  <1>4. e.teamEpoch = team[e.team].epoch
    BY ActorAssumption DEF Authorized, HistoricalPrimary, AcceptHandoff
  <1>5. /\ e.request \in Created
        /\ request[e.request] \in RequestState
        /\ request'[e.request] = Received(request[e.request], e, h)
        /\ \A s \in Request \ {e.request} : request'[s] = request[s]
    BY PairedRun DEF AcceptHandoff, Work, TypeOK, Created
  <1>6. /\ request'[e.request].team = e.team
        /\ request'[e.request].teamEpoch = e.teamEpoch
        /\ request'[e.request].assignment.actor = e.sender
    BY <1>5 DEF Received, NextAssignment, RequestState
  <1>7. ASSUME NEW s \in Created', BlocksTeamClose(request'[s].status)
        PROVE  Fenced(request[s])'
    <2>1. CASE s = e.request
      BY <1>1, <1>3, <1>4, <1>6, <2>1 DEF Fenced, IsCurrent, Authorized
    <2>2. CASE s # e.request
      BY <1>1, <1>5, <1>7, <2>2
      DEF OwnershipInv, ActiveWorkIsFenced, Fenced, IsCurrent, Created
    <2>3. QED BY <2>1, <2>2
  <1>8. QED BY <1>2, <1>7 DEF OwnershipInv, ActiveWorkIsFenced

LEMMA OwnershipStep == Work /\ OwnershipInv /\ [Next]_vars => OwnershipInv'
  <1> SUFFICES ASSUME Work, OwnershipInv, [Next]_vars PROVE OwnershipInv'
    OBVIOUS
  <1>1. CASE \E p \in Primary : ActivatePrimary(p)
    BY <1>1, ActivationOwnership
  <1>2. CASE Presence
    BY <1>2, PresenceOwnership DEF Presence
  <1>3. CASE TeamLifecycle
    BY <1>3, TeamOwnership DEF TeamLifecycle
  <1>4. CASE \E a \in Executor :
               RegisterImplementation(a) \/ ReplaceImplementation(a)
    BY <1>4, RegisterOwnership, ReplaceOwnership
  <1>5. ASSUME NEW e \in Envelope, Accept(e)
        PROVE  OwnershipInv'
    <2>1. CASE FromPrimary(e) /\ PrimaryMessage(e)
      BY <1>5, <2>1, PrimaryEdits, EditOwnership, CreationOwnership
      DEF FromPrimary, Accept
    <2>2. CASE FromAssignee(e) /\ AssigneeMessage(e)
      BY <2>2, AssigneeEdits, EditOwnership DEF FromAssignee
    <2>3. CASE \E h \in handoffs : AcceptHandoff(e, h)
      BY <1>5, <2>3, HandoffOwnership DEF Accept
    <2>4. QED BY <1>5, <2>1, <2>2, <2>3 DEF Accept
  <1>6. CASE UNCHANGED vars
    BY <1>6, OwnershipKept DEF vars, registry, work
  <1>7. QED BY <1>1, <1>2, <1>3, <1>4, <1>5, <1>6 DEF Next

\* Unfinished work is always fenced by the present generations: its team is
\* open and at the epoch the work names, and its assignee is a member's current
\* generation.  Live executors always belong to an open team.
THEOREM OwnershipIsCurrent ==
  Spec => [](ActiveWorkIsFenced /\ LiveExecutorsHaveATeam)
  <1>1. Init => OwnershipInv
    BY DEF Init, OwnershipInv, MembersAtHome, LiveExecutorsHaveATeam,
           ActiveWorkIsFenced, Created, Unregistered, Actor
  <1>2. OwnershipInv => ActiveWorkIsFenced /\ LiveExecutorsHaveATeam
    BY DEF OwnershipInv
  <1>3. QED BY <1>1, <1>2, OwnershipStep, WorkAlways, PTL DEF Spec

-----------------------------------------------------------------------------
(* Settled work.  No handoff of it is pending, so none can move it; every  *)
(* other call finds its status refused, or repeats what it already says.   *)

HandoffsAreOpen ==
  \A h \in handoffs :
    h.request \in Created /\ BlocksTeamClose(request[h.request].status)

LEMMA TakeLeaves ==
  ASSUME Work, NEW x \in Created, NEW event \in {"Start", "Block", "Complete"}, Take(x, event)
  PROVE  /\ request[x] \in RequestState
         /\ request' = [request EXCEPT ![x] = [request[x] EXCEPT !.status = RequestTo[event]]]
         /\ run' = [run EXCEPT ![x] = [run[x] EXCEPT !.status = RunTo[event]]]
  BY PairedRun DEF Take, Work

\* What a step does to the work: the requests it makes, and the one that a message is about.
LEMMA MessageTouchesOne ==
  ASSUME Work, NEW e \in Envelope, Accept(e), NEW r \in Created, r # e.request
  PROVE  request'[r] = request[r] /\ run'[r] = run[r]
  <1>1. request \in [Request -> RequestState \cup {None}] /\ run \in [Request -> RunState \cup {None}]
        /\ r \in Request
    BY DEF Work, TypeOK, Created
  <1>2. CASE PrimaryMessage(e)
    BY <1>1, <1>2
    DEF PrimaryMessage, CreateRequest, Reject, AcceptCandidate, Authorize, Complete, Take,
        Cancel, PauseRun, ResumeRun
  <1>3. CASE AssigneeMessage(e)
    BY <1>1, <1>3 DEF AssigneeMessage, Progress, Blocker, Take, SubmitCandidate, OfferHandoff
  <1>4. CASE \E h \in handoffs : AcceptHandoff(e, h)
    BY <1>1, <1>4 DEF AcceptHandoff
  <1>5. QED BY <1>2, <1>3, <1>4 DEF Accept

\* What SettledWorkStays says of one request.
Settles(r) ==
  /\ IsTerminal(request[r].status) => request'[r] = request[r] /\ run'[r] = run[r]
  /\ request[r].candidate \notin {None, request'[r].candidate} =>
       AwaitsRework(request[r]) /\ request'[r].candidate.sha # request[r].candidate.sha

\* ... and what a message about the request keeps.
Follows(r) ==
  /\ Settles(r) /\ r \in Created'
  /\ BlocksTeamClose(request'[r].status) \/ \A h \in handoffs' : h.request # r
  /\ \A h \in handoffs' : h \in handoffs \/ h.request = r

LEMMA NothingPends ==
  ASSUME HandoffsAreOpen, NEW r \in Created, ~BlocksTeamClose(request[r].status)
  PROVE  \A h \in handoffs : h.request # r
  BY DEF HandoffsAreOpen

\* A message that leaves the candidate alone and moves no settled work.
LEMMA MovesOn ==
  ASSUME Work, NEW r \in Created, NEW q \in RequestState, NEW w,
         request' = [request EXCEPT ![r] = q], run' = [run EXCEPT ![r] = w],
         q.candidate = request[r].candidate,
         IsTerminal(request[r].status) => q = request[r] /\ w = run[r]
  PROVE  Settles(r) /\ request'[r] = q /\ r \in Created'
  BY NoneAssumption DEF Work, TypeOK, Created, Settles

LEMMA TakeFollows ==
  ASSUME Work, HandoffsAreOpen, NEW r \in Created, UNCHANGED handoffs,
         NEW event \in {"Start", "Block", "Complete"}, Take(r, event)
  PROVE  Follows(r)
  <1> DEFINE q == [request[r] EXCEPT !.status = RequestTo[event]]
             w == [run[r] EXCEPT !.status = RunTo[event]]
  <1>1. /\ request[r] \in RequestState /\ run[r] \in RunState /\ Mirrors(run[r], request[r])
    BY PairedRun DEF Work
  <1>2. request' = [request EXCEPT ![r] = q] /\ run' = [run EXCEPT ![r] = w]
    BY TakeLeaves
  <1>3. /\ q.candidate = request[r].candidate /\ q.status = RequestTo[event]
        /\ q \in RequestState
    BY <1>1 DEF RequestState, RequestTo, RequestStatus
  <1>4. request[r].status \in RequestFrom[event]
    BY DEF Take, CanTake
  <1>5. CASE event \in {"Start", "Block"}
    <2>1. ~IsTerminal(request[r].status) /\ BlocksTeamClose(RequestTo[event])
      BY <1>4, <1>5 DEF RequestFrom, RequestTo, Workable, IsTerminal, BlocksTeamClose
    <2> HIDE DEF q, w
    <2>2. QED BY <1>2, <1>3, <2>1, MovesOn DEF Follows
  <1>6. CASE event = "Complete"
    <2>1. request[r].status \in {"IntegrationAuthorized", "Completed"}
      BY <1>4, <1>6 DEF RequestFrom
    <2>2. \A h \in handoffs : h.request # r
      BY <2>1, NothingPends DEF BlocksTeamClose
    <2>3. IsTerminal(request[r].status) => q = request[r] /\ w = run[r]
      <3>1. ASSUME request[r].status = "Completed" PROVE q = request[r] /\ w = run[r]
        <4>1. run[r].status = "Completed"
          BY <1>1, <3>1 DEF Mirrors, RunStatusFor
        <4>2. RequestTo[event] = "Completed" /\ RunTo[event] = "Completed"
          BY <1>6 DEF RequestTo, RunTo
        <4>3. QED BY <1>1, <3>1, <4>1, <4>2 DEF RequestState, RunState
      <3>2. QED BY <2>1, <3>1 DEF IsTerminal
    <2> HIDE DEF q, w
    <2>4. QED BY <1>2, <1>3, <2>2, <2>3, MovesOn DEF Follows
  <1>7. QED BY <1>5, <1>6

LEMMA JudgeFollows ==
  ASSUME Work, HandoffsAreOpen, NEW e \in Envelope, NEW d \in DecisionId,
         NEW c \in Candidate,
         Reject(e, d, c) \/ AcceptCandidate(e, d, c) \/ Authorize(e, d, c)
  PROVE  Follows(e.request)
  <1> DEFINE r == e.request
  <1>1. r \in Created
    BY DEF Reject, AcceptCandidate, Authorize, Context
  <1>2. /\ request[r] \in RequestState /\ run[r] \in RunState
    BY <1>1, PairedRun DEF Work
  <1>3. /\ request[r].status \in {"CandidateReady", "ChangesRequested", "Accepted",
                                 "IntegrationAuthorized"}
    BY DEF Reject, AcceptCandidate, Authorize, CanTake, RequestFrom
  <1>4. ~IsTerminal(request[r].status)
    BY <1>3 DEF IsTerminal
  <1>5. CASE Reject(e, d, c)
    <2>1. /\ request' = [request EXCEPT ![r] = Judged(request[r], d, "Reject")]
          /\ run' = [run EXCEPT ![r] = [run[r] EXCEPT !.status = RunTo.Reject]]
          /\ UNCHANGED handoffs
      BY <1>5 DEF Reject
    <2> DEFINE q == Judged(request[r], d, "Reject")
    <2>2. /\ q.candidate = request[r].candidate /\ q.status = "ChangesRequested"
          /\ q \in RequestState
      <3>1. request[r].candidate \in Candidate /\ "Reject" \in Verdict
        BY <1>5 DEF Reject, Verdict
      <3>2. q \in RequestState
        BY <1>2, <3>1, JudgedTyped
      <3>3. QED BY <1>2, <3>2 DEF Judged, RequestState, RequestTo
    <2>3. BlocksTeamClose("ChangesRequested")
      BY DEF BlocksTeamClose
    <2> HIDE DEF q
    <2>4. QED BY ZenonT(40), <1>1, <1>4, <2>1, <2>2, <2>3, MovesOn DEF Follows, q
  <1>6. CASE AcceptCandidate(e, d, c)
    <2> DEFINE q == [Judged(request[r], d, "Accept") EXCEPT !.teamEpoch = e.teamEpoch]
    <2>1. /\ request' = [request EXCEPT ![r] = q]
          /\ run' = [run EXCEPT ![r] = [run[r] EXCEPT !.status = RunTo.Accept,
                                                      !.teamEpoch = e.teamEpoch]]
          /\ handoffs' = handoffs \ HandoffsOf(r)
      BY <1>6 DEF AcceptCandidate
    <2>2. q.candidate = request[r].candidate /\ q \in RequestState
      <3>1. Judged(request[r], d, "Accept") \in RequestState
        BY <1>2, <1>6, JudgedTyped DEF AcceptCandidate, Verdict
      <3>2. Judged(request[r], d, "Accept").candidate = request[r].candidate
        BY <1>2 DEF Judged, RequestState
      <3>3. QED BY <3>1, <3>2 DEF RequestState, Envelope
    <2> HIDE DEF q
    <2>3. QED BY ZenonT(40), <1>1, <1>4, <2>1, <2>2, MovesOn DEF Follows, HandoffsOf
  <1>7. CASE Authorize(e, d, c)
    <2> DEFINE q == [request[r] EXCEPT !.status = RequestTo.Authorize,
                                       !.authorization = [id |-> d, candidate |-> c]]
               w == [run[r] EXCEPT !.status = RunTo.Authorize]
    <2>1. /\ request' = [request EXCEPT ![r] = q] /\ run' = [run EXCEPT ![r] = w]
          /\ UNCHANGED handoffs
          /\ request[r].status \in {"Accepted", "IntegrationAuthorized"}
      BY <1>7 DEF Authorize, CanTake, RequestFrom
    <2>2. q.candidate = request[r].candidate /\ q \in RequestState
      <3>1. [id |-> d, candidate |-> c] \in Authorization
        BY DEF Authorization
      <3>2. QED BY <1>2, <3>1 DEF RequestState, RequestTo, RequestStatus
    <2>3. \A h \in handoffs : h.request # r
      BY <1>1, <2>1, NothingPends DEF BlocksTeamClose
    <2> HIDE DEF q, w
    <2>4. Settles(r) /\ request'[r] = q /\ r \in Created'
      BY <1>1, <1>4, <2>1, <2>2, MovesOn
    <2>5. QED BY <2>1, <2>3, <2>4 DEF Follows
  <1>8. QED BY <1>5, <1>6, <1>7

LEMMA CancelFollows ==
  ASSUME Work, NEW e \in Envelope, Cancel(e)
  PROVE  Follows(e.request)
  <1> DEFINE r == e.request
             q == [request[r] EXCEPT !.status = RequestTo.Cancel, !.teamEpoch = e.teamEpoch]
             w == [run[r] EXCEPT !.status = RunTo.Cancel, !.teamEpoch = e.teamEpoch]
  <1>1. r \in Created
    BY DEF Cancel, Context
  <1>2. /\ request[r] \in RequestState /\ run[r] \in RunState /\ Mirrors(run[r], request[r])
    BY <1>1, PairedRun DEF Work
  <1>3. /\ request' = [request EXCEPT ![r] = q] /\ run' = [run EXCEPT ![r] = w]
        /\ handoffs' = handoffs \ HandoffsOf(r)
    BY DEF Cancel
  <1>4. q.candidate = request[r].candidate /\ q \in RequestState
    BY <1>2 DEF RequestState, RequestTo, RequestStatus, Envelope
  <1>5. IsTerminal(request[r].status) => q = request[r] /\ w = run[r]
    <2>1. ASSUME IsTerminal(request[r].status) PROVE q = request[r] /\ w = run[r]
      <3>1. request[r].status = "Cancelled"
        BY <2>1 DEF Cancel, CanTake, RequestFrom, RequestStatus, IsTerminal
      <3>2. e.teamEpoch = request[r].teamEpoch
        BY <3>1 DEF Cancel, Context, BlocksTeamClose
      <3>3. run[r].status = "Cancelled" /\ run[r].teamEpoch = request[r].teamEpoch
        BY <1>2, <3>1 DEF Mirrors, RunStatusFor
      <3>4. RequestTo.Cancel = "Cancelled" /\ RunTo.Cancel = "Cancelled"
        BY DEF RequestTo, RunTo
      <3>5. QED BY <1>2, <3>1, <3>2, <3>3, <3>4 DEF RequestState, RunState
    <2>2. QED BY <2>1
  <1> HIDE DEF q, w
  <1>6. QED BY <1>1, <1>3, <1>4, <1>5, MovesOn DEF Follows, HandoffsOf

LEMMA PauseFollows ==
  ASSUME Work, HandoffsAreOpen, NEW e \in Envelope, PauseRun(e)
  PROVE  Follows(e.request)
  <1> DEFINE r == e.request
  <1>1. r \in Created
    BY DEF PauseRun, Controllable, Context
  <1>2. /\ request[r] \in RequestState /\ run[r] \in RunState /\ Mirrors(run[r], request[r])
    BY <1>1, PairedRun DEF Work
  <1>3. run[r].status \in {"Active", "Paused"} /\ UNCHANGED <<request, handoffs>>
    BY DEF PauseRun, RunFrom
  <1>4. request[r].status \in {"Assigned", "InProgress", "Blocked"}
    BY <1>2, <1>3 DEF Mirrors, RunStatusFor, RequestState, RequestStatus
  <1>5. QED BY <1>1, <1>3, <1>4 DEF Follows, Settles, IsTerminal, BlocksTeamClose, Created

LEMMA SubmitFollows ==
  ASSUME Work, NEW e \in Envelope, FromAssignee(e), NEW c \in Candidate, SubmitCandidate(e, c)
  PROVE  Follows(e.request)
  <1> DEFINE r == e.request
  <1>1. r \in Created /\ r \in Request
    BY DEF FromAssignee, Context, Created
  <1>2. request[r] \in RequestState
    BY <1>1, PairedRun DEF Work
  <1>3. /\ request' = [request EXCEPT ![r] = Submitted(request[r], c)]
        /\ MayPropose(request[r], c) /\ handoffs' \subseteq handoffs
        /\ request[r].status \in Workable \cup {"CandidateReady"}
    BY DEF SubmitCandidate, CanTake, RequestFrom
  <1>4. /\ Submitted(request[r], c).candidate = c
        /\ Submitted(request[r], c).status = "CandidateReady"
        /\ Submitted(request[r], c) \in RequestState
    BY <1>2, SubmittedTyped DEF Submitted, RequestState, RequestTo
  <1>5. request'[r] = Submitted(request[r], c)
    BY <1>1, <1>3 DEF Work, TypeOK
  <1>6. ~IsTerminal(request[r].status)
    BY <1>3 DEF IsTerminal, Workable
  <1>7. Settles(r)
    BY <1>3, <1>4, <1>5, <1>6 DEF Settles, MayPropose
  <1>8. r \in Created'
    BY <1>1, <1>4, <1>5, NoneAssumption DEF Created
  <1>9. QED BY <1>3, <1>4, <1>5, <1>7, <1>8 DEF Follows, BlocksTeamClose

LEMMA OfferFollows ==
  ASSUME Work, NEW e \in Envelope, e.request \in Created, NEW h, NEW to, NEW c,
         OfferHandoff(e, h, to, c)
  PROVE  Follows(e.request)
  <1>1. /\ UNCHANGED <<request, run>> /\ BlocksTeamClose(request[e.request].status)
        /\ \A p \in handoffs' : p \in handoffs \/ p.request = e.request
    BY DEF OfferHandoff
  <1>2. QED BY <1>1 DEF Follows, Settles, Created

LEMMA HandoffFollows ==
  ASSUME Work, HandoffsAreOpen, NEW e \in Envelope, NEW h \in handoffs, AcceptHandoff(e, h)
  PROVE  Follows(e.request)
  <1> DEFINE r == e.request
  <1>1. r \in Created /\ r = h.request
    BY DEF AcceptHandoff
  <1>2. request[r] \in RequestState /\ BlocksTeamClose(request[r].status)
    BY <1>1, PairedRun DEF Work, HandoffsAreOpen
  <1>3. /\ request' = [request EXCEPT ![r] = Received(request[r], e, h)]
        /\ run' = [run EXCEPT ![r] = Received(run[r], e, h)]
        /\ handoffs' \subseteq handoffs
    BY DEF AcceptHandoff
  <1>4. /\ Received(request[r], e, h).candidate = request[r].candidate
        /\ Received(request[r], e, h).status = request[r].status
        /\ Received(request[r], e, h) \in RequestState
    BY <1>2, ReceivedTyped DEF Received, RequestState, AcceptHandoff, Work, TypeOK
  <1>5. ~IsTerminal(request[r].status)
    BY <1>2 DEF IsTerminal, BlocksTeamClose
  <1>6. QED BY <1>1, <1>2, <1>3, <1>4, <1>5, MovesOn DEF Follows

LEMMA MessageFollows ==
  ASSUME Work, HandoffsAreOpen, NEW e \in Envelope, Accept(e), e.request \in Created
  PROVE  Follows(e.request)
  <1>1. CASE FromPrimary(e) /\ PrimaryMessage(e)
    <2>1. CASE \E d \in DecisionId, c \in Candidate :
                 Reject(e, d, c) \/ AcceptCandidate(e, d, c) \/ Authorize(e, d, c)
      BY <2>1, JudgeFollows
    <2>2. CASE (\E d \in decided, c \in Candidate : Complete(e, d, c)) \/ ResumeRun(e)
      BY <2>2, TakeFollows DEF Complete, ResumeRun
    <2>3. CASE Cancel(e) \/ PauseRun(e)
      BY <2>3, CancelFollows, PauseFollows
    <2>4. ~(\E a \in Executor : CreateRequest(e, a))
      BY DEF CreateRequest
    <2>5. decided \subseteq DecisionId
      BY DEF Work, TypeOK
    <2>6. QED BY <1>1, <2>1, <2>2, <2>3, <2>4, <2>5 DEF PrimaryMessage
  <1>2. CASE FromAssignee(e) /\ AssigneeMessage(e)
    BY <1>2, TakeFollows, SubmitFollows, OfferFollows DEF AssigneeMessage, Progress, Blocker
  <1>3. CASE \E h \in handoffs : AcceptHandoff(e, h)
    BY <1>3, HandoffFollows
  <1>4. QED BY <1>1, <1>2, <1>3 DEF Accept

\* A replacement carries unfinished work along, and leaves the rest where it is.
LEMMA ReplaceSettles ==
  ASSUME Work, HandoffsAreOpen, NEW a \in Executor, ReplaceImplementation(a)
  PROVE  /\ \A r \in Created : Settles(r) /\ request'[r].status = request[r].status
                               /\ request'[r] # None
         /\ handoffs' \subseteq handoffs
  <1>1. ASSUME NEW r \in Created
        PROVE  Settles(r) /\ request'[r].status = request[r].status /\ request'[r] # None
    <2>1. /\ request'[r] = Moved(request[r], r, a) /\ run'[r] = Moved(run[r], r, a)
          /\ request[r] \in RequestState
      BY PairedRun DEF ReplaceImplementation, Work, Created
    <2>2. IsTerminal(request[r].status) => r \notin Carried(HomeTeam[a])
      BY DEF Carried
    <2>3. /\ Moved(request[r], r, a).status = request[r].status
          /\ Moved(request[r], r, a).candidate = request[r].candidate
          /\ Moved(request[r], r, a) \in RequestState
      BY <2>1, MovedTyped DEF Moved, RequestState, Work
    <2>4. QED BY <2>1, <2>2, <2>3, NoneAssumption DEF Settles, Moved
  <1>2. QED BY <1>1 DEF ReplaceImplementation

LEMMA SettledStep ==
  ASSUME Work, HandoffsAreOpen, [Next]_vars
  PROVE  HandoffsAreOpen' /\ \A r \in Created : Settles(r)
  <1>1. CASE UNCHANGED <<request, run, handoffs>>
    BY <1>1 DEF HandoffsAreOpen, Settles, Created
  <1>2. CASE \E a \in Executor : ReplaceImplementation(a)
    <2>1. PICK a \in Executor : ReplaceImplementation(a)
      BY <1>2
    <2>2. /\ \A r \in Created : Settles(r) /\ request'[r].status = request[r].status
                                /\ request'[r] # None
          /\ handoffs' \subseteq handoffs
      BY <2>1, ReplaceSettles
    <2>3. QED BY <2>2 DEF HandoffsAreOpen, Created
  <1>3. ASSUME NEW e \in Envelope, Accept(e)
        PROVE  HandoffsAreOpen' /\ \A r \in Created : Settles(r)
    <2>1. \A r \in Created \ {e.request} : request'[r] = request[r] /\ run'[r] = run[r]
      BY <1>3, MessageTouchesOne
    <2>2. CASE e.request \in Created
      <3>1. Follows(e.request)
        BY <1>3, <2>2, MessageFollows
      <3>2. \A r \in Created : r \in Created'
        BY <2>1, <3>1 DEF Follows, Created
      <3>3. HandoffsAreOpen'
        BY <2>1, <3>1, <3>2 DEF HandoffsAreOpen, Follows
      <3>4. \A r \in Created : Settles(r)
        BY <2>1, <3>1 DEF Follows, Settles
      <3>5. QED BY <3>3, <3>4
    <2>3. CASE e.request \notin Created
      <3>1. \E a \in Executor : CreateRequest(e, a)
        BY <1>3, <2>3
        DEF Accept, FromAssignee, PrimaryMessage, Context, Reject, AcceptCandidate, Authorize,
            Complete, Cancel, PauseRun, ResumeRun, Controllable, AcceptHandoff
      <3>2. UNCHANGED handoffs
        BY <3>1 DEF CreateRequest
      <3>3. \A r \in Created : Settles(r) /\ r \in Created' /\ request'[r] = request[r]
        BY <2>1, <2>3 DEF Settles, Created
      <3>4. QED BY <3>2, <3>3 DEF HandoffsAreOpen
    <2>4. QED BY <2>2, <2>3
  <1>4. QED
    BY <1>1, <1>2, <1>3
    DEF Next, ActivatePrimary, Presence, SetActorStatus, TeamLifecycle, CreateTeam, CloseTeam,
        SetTeamStatus, RegisterImplementation, vars, work

\* Terminal work is never reopened, moved or reassigned, and its candidate, decision and
\* authorization stay as they were; of other work a submitted candidate is replaced only
\* after it was rejected, and only by a different commit (Supervisor::apply).
THEOREM SettledWorkIsFinal == Spec => SettledWorkStays
  <1>1. Init => HandoffsAreOpen
    BY DEF Init, HandoffsAreOpen
  <1>2. Work /\ HandoffsAreOpen /\ [Next]_vars => HandoffsAreOpen'
    BY SettledStep
  <1>3. Work /\ HandoffsAreOpen /\ [Next]_vars =>
          [\A r \in Created :
             LET old == request[r].candidate
                 new == request'[r].candidate
             IN  /\ IsTerminal(request[r].status) =>
                      request'[r] = request[r] /\ run'[r] = run[r]
                 /\ old \notin {None, new} =>
                      AwaitsRework(request[r]) /\ new.sha # old.sha]_vars
    BY SettledStep DEF Settles
  <1>4. QED BY <1>1, <1>2, <1>3, WorkAlways, PTL DEF Spec, SettledWorkStays

-----------------------------------------------------------------------------
(* The rows of a review session.                                           *)

RecordTypes ==
  /\ clock \in Time /\ facts \subseteq Fact
  /\ environments \subseteq Environment /\ results \subseteq Result
  /\ IsFiniteSet(results) /\ command \in Command

\* Attempts are numbered without a gap.
AttemptsAreNumbered == \E n \in Nat : {f.sequence : f \in facts} = 1..n

\* An attempt has one running fact, recorded as it started, and at most one verdict, of
\* the same operation.
AttemptsAreGrouped ==
  /\ \A f \in facts : \E g \in facts :
       /\ IsRunning(g) /\ g.sequence = f.sequence /\ g.operation = f.operation
       /\ g.started = f.started /\ g.recorded = g.started
  /\ \A f, g \in facts :
       f.sequence = g.sequence /\ (IsRunning(f) <=> IsRunning(g)) => f = g

VerdictsAreExplained ==
  \A f \in facts : FactIsValid(f) /\ (IsRunning(f) \/ ExplainedBy(f, ResultsOf(f.sequence)))

\* A row is of an attempt that ran when it was made, and refers to what stands.
Began(sequence, time) ==
  \E f \in facts : IsRunning(f) /\ f.sequence = sequence /\ f.started <= time
RowsAreBacked ==
  /\ \A e \in environments : Began(e.sequence, e.recorded) /\ OutputStands(e, "tools")
  /\ \A r \in results :
       Began(r.sequence, r.started) /\ OutputStands(r, "check") /\ IsReadable(r)

\* The results of an attempt are numbered by their executions.
ResultsAreNumbered ==
  /\ \A r \in results : r.execution <= Cardinality(ResultsOf(r.sequence))
  /\ \A r, q \in results : r.sequence = q.sequence /\ r.execution = q.execution => r = q

\* The command works on an attempt without a verdict, and the output it goes by stands.
CommandIsBacked ==
  /\ command.at \in Attempting =>
       /\ \E f \in facts : IsRunning(f) /\ f.sequence = command.sequence
       /\ \A f \in facts : f.sequence = command.sequence => IsRunning(f)
  /\ command.at \in {"spawn", "wait", "environment", "result"} =>
       Published("tools", TRUE) \in outputs
  /\ command.at \in {"environment", "result"} => Published("check", TRUE) \in outputs

RecordsInv ==
  /\ RecordTypes /\ AttemptsAreNumbered /\ AttemptsAreGrouped /\ VerdictsAreExplained
  /\ RowsAreBacked /\ ResultsAreNumbered /\ CommandIsBacked

-----------------------------------------------------------------------------
(* The invariant has `doctor` and `review.show` accept the rows.           *)

LEMMA RunningIsOne ==
  ASSUME RecordsInv, NEW f \in facts, IsRunning(f)
  PROVE  RunningFact(f.sequence) = f
  <1>1. \A g \in FactsOf(f.sequence) : IsRunning(g) => g = f
    BY DEF RecordsInv, AttemptsAreGrouped, FactsOf
  <1>2. f \in FactsOf(f.sequence)
    BY DEF FactsOf
  <1>3. QED BY <1>1, <1>2 DEF RunningFact

LEMMA GroupsVerify ==
  ASSUME RecordsInv, NEW f \in facts
  PROVE  GroupIsValid(f.sequence)
  <1>1. PICK g \in facts :
          /\ IsRunning(g) /\ g.sequence = f.sequence
          /\ g.recorded = g.started
    BY DEF RecordsInv, AttemptsAreGrouped
  <1>2. g \in FactsOf(f.sequence)
    BY <1>1 DEF FactsOf
  <1>3. ASSUME NEW h \in FactsOf(f.sequence) \ {g}
        PROVE  /\ ~IsRunning(h) /\ h.operation = g.operation
               /\ h.started = g.started /\ h.recorded >= g.recorded
    <2>1. h \in facts /\ h.sequence = g.sequence /\ h # g
      BY <1>1, <1>3 DEF FactsOf
    <2>2. ~IsRunning(h)
      BY <1>1, <2>1 DEF RecordsInv, AttemptsAreGrouped
    <2>3. PICK k \in facts : /\ IsRunning(k) /\ k.sequence = h.sequence
                             /\ k.operation = h.operation /\ k.started = h.started
      BY <2>1 DEF RecordsInv, AttemptsAreGrouped
    <2>4. k = g
      BY <1>1, <2>1, <2>3 DEF RecordsInv, AttemptsAreGrouped
    <2>5. h.recorded >= h.started
      BY <2>1 DEF RecordsInv, VerdictsAreExplained, FactIsValid
    <2>6. QED BY <1>1, <2>2, <2>3, <2>4, <2>5
  <1>4. IsFiniteSet(FactsOf(f.sequence)) /\ Cardinality(FactsOf(f.sequence)) <= 2
    <2>1. CASE FactsOf(f.sequence) = {g}
      BY <2>1, FS_Singleton
    <2>2. CASE FactsOf(f.sequence) # {g}
      <3>1. PICK h \in FactsOf(f.sequence) : h # g
        BY <1>2, <2>2
      <3>2. \A k \in FactsOf(f.sequence) \ {g} : k = h
        BY <1>3, <3>1 DEF RecordsInv, AttemptsAreGrouped, FactsOf
      <3>3. FactsOf(f.sequence) = {g} \cup {h}
        BY <1>2, <3>1, <3>2
      <3>4. IsFiniteSet({g}) /\ Cardinality({g}) = 1
        BY FS_Singleton
      <3>5. IsFiniteSet({g} \cup {h}) /\ Cardinality({g} \cup {h}) = 2
        BY <3>1, <3>4, FS_AddElement
      <3>6. QED BY <3>3, <3>5
    <2>3. QED BY <2>1, <2>2
  <1>5. QED BY <1>1, <1>2, <1>3, <1>4 DEF GroupIsValid

LEMMA ExecutionsVerify ==
  ASSUME RecordsInv, NEW f \in facts
  PROVE  ExecutionsAreValid(f.sequence)
  <1>1. PICK g \in facts : IsRunning(g) /\ g.sequence = f.sequence
    BY DEF RecordsInv, AttemptsAreGrouped
  <1>2. RunningFact(f.sequence) = g
    BY <1>1, RunningIsOne
  <1>3. \A time : Began(f.sequence, time) => g.started <= time
    BY <1>1 DEF RecordsInv, AttemptsAreGrouped, Began
  <1>4. g.started \in Nat
    BY RecordsAssumption DEF RecordsInv, RecordTypes, Fact, Result, Time
  <1>5. ASSUME NEW e \in environments, e.sequence = f.sequence
        PROVE  e.recorded >= g.started /\ OutputStands(e, "tools")
    <2>1. Began(f.sequence, e.recorded) /\ OutputStands(e, "tools")
      BY <1>5 DEF RecordsInv, RowsAreBacked
    <2>2. e.recorded \in Nat
      BY <1>5, RecordsAssumption DEF RecordsInv, RecordTypes, Environment, Result, Time
    <2>3. QED BY <1>3, <1>4, <2>1, <2>2
  <1>6. ASSUME NEW r \in ResultsOf(f.sequence)
        PROVE  r.started >= g.started /\ OutputStands(r, "check") /\ IsReadable(r)
    <2>1. r \in results /\ r.sequence = f.sequence
      BY <1>6 DEF ResultsOf
    <2>2. Began(f.sequence, r.started) /\ OutputStands(r, "check") /\ IsReadable(r)
      BY <2>1 DEF RecordsInv, RowsAreBacked
    <2>3. r.started \in Nat
      BY <2>1, RecordsAssumption DEF RecordsInv, RecordTypes, Environment, Result, Time
    <2>4. QED BY <1>3, <1>4, <2>2, <2>3
  <1>7. \A h \in Ends(f.sequence) : ExplainedBy(h, ResultsOf(f.sequence))
    BY DEF RecordsInv, VerdictsAreExplained, Ends, FactsOf
  <1>8. QED BY <1>2, <1>5, <1>6, <1>7 DEF ExecutionsAreValid

LEMMA RecordsVerify == ASSUME RecordsInv PROVE RowsVerify
  <1>1. PICK n \in Nat : {f.sequence : f \in facts} = 1..n
    BY DEF RecordsInv, AttemptsAreNumbered
  <1>2. Cardinality(1..n) = n
    BY FS_Interval, <1>1
  <1>3. {f.sequence : f \in facts} = 1..Cardinality({f.sequence : f \in facts})
    BY <1>1, <1>2
  <1>4. \A s \in {f.sequence : f \in facts} : GroupIsValid(s) /\ ExecutionsAreValid(s)
    BY GroupsVerify, ExecutionsVerify
  <1>5. RowsAreOwned({f.sequence : f \in facts})
    BY DEF RecordsInv, RowsAreBacked, Began, RowsAreOwned
  <1>6. IsShown
    BY DEF RecordsInv, RowsAreBacked, VerdictsAreExplained, IsShown
  <1>7. QED BY <1>3, <1>4, <1>5, <1>6 DEF RowsVerify, VerifyReviewRows

-----------------------------------------------------------------------------
(* Steps that append no row.                                               *)

LEMMA RowsStand ==
  ASSUME RecordsInv, UNCHANGED <<facts, environments, results>>, outputs \subseteq outputs'
  PROVE  /\ AttemptsAreNumbered' /\ AttemptsAreGrouped' /\ VerdictsAreExplained'
         /\ RowsAreBacked' /\ ResultsAreNumbered'
  <1>1. AttemptsAreNumbered' /\ AttemptsAreGrouped'
    BY DEF RecordsInv, AttemptsAreNumbered, AttemptsAreGrouped
  <1>2. \A s : ResultsOf(s)' = ResultsOf(s)
    BY DEF ResultsOf
  <1>3. VerdictsAreExplained'
    BY <1>2 DEF RecordsInv, VerdictsAreExplained
  <1>4. \A s, time : Began(s, time)' <=> Began(s, time)
    BY DEF Began
  <1>5. \A row, of : OutputStands(row, of) => OutputStands(row, of)'
    BY DEF OutputStands
  <1>6. \A r : IsReadable(r)' <=> IsReadable(r)
    BY DEF IsReadable
  <1>7. RowsAreBacked'
    BY <1>4, <1>5, <1>6 DEF RecordsInv, RowsAreBacked
  <1>8. ResultsAreNumbered'
    BY <1>2 DEF RecordsInv, ResultsAreNumbered
  <1>9. QED BY <1>1, <1>3, <1>7, <1>8

\* A command goes on with its attempt, or leaves it, and has kept what it goes by.
CommandFollows ==
  /\ command'.at \in Attempting =>
       command.at \in Attempting /\ command'.sequence = command.sequence
  /\ command'.at \in {"spawn", "wait", "environment", "result"} =>
       \/ command.at \in {"spawn", "wait", "environment", "result"}
       \/ Published("tools", TRUE) \in outputs'
  /\ command'.at \in {"environment", "result"} =>
       \/ command.at \in {"environment", "result"}
       \/ Published("check", TRUE) \in outputs'

LEMMA CommandGoesOn ==
  ASSUME RecordsInv, UNCHANGED <<facts, results>>, outputs \subseteq outputs',
         CommandFollows
  PROVE  CommandIsBacked'
  <1>1. CASE command'.at \notin Attempting
    BY <1>1 DEF CommandIsBacked, Attempting
  <1>2. CASE command.at \in Attempting /\ command'.sequence = command.sequence
    <2>1. Done' = Done
      BY <1>2 DEF Done, ResultsOf
    <2>2. \A of : Published(of, TRUE)' = Published(of, TRUE)
      BY <1>2, <2>1 DEF Published
    <2>3. CommandIsBacked
      BY DEF RecordsInv
    <2>4. /\ \E f \in facts' : IsRunning(f) /\ f.sequence = command'.sequence
          /\ \A f \in facts' : f.sequence = command'.sequence => IsRunning(f)
      BY <1>2, <2>3 DEF CommandIsBacked
    <2>5. command'.at \in {"spawn", "wait", "environment", "result"} =>
            Published("tools", TRUE) \in outputs'
      BY <2>3 DEF CommandIsBacked, CommandFollows
    <2>6. command'.at \in {"environment", "result"} => Published("check", TRUE) \in outputs'
      BY <2>3 DEF CommandIsBacked, CommandFollows
    <2>7. QED BY <2>2, <2>4, <2>5, <2>6 DEF CommandIsBacked
  <1>3. QED BY <1>1, <1>2 DEF CommandFollows

LEMMA IdleStands ==
  ASSUME RecordsInv, UNCHANGED <<facts, environments, results>>, outputs \subseteq outputs',
         clock' \in Time, command' = NoCommand
  PROVE  RecordsInv'
  <1>1. /\ NoCommand \in Command /\ NoCommand.at = "idle"
    BY RecordsAssumption DEF NoCommand, Command, Point, Attempting, Time
  <1>2. RecordTypes'
    BY <1>1 DEF RecordsInv, RecordTypes
  <1>3. CommandIsBacked'
    BY <1>1, CommandGoesOn DEF CommandFollows, Attempting
  <1>4. QED BY <1>2, <1>3, RowsStand DEF RecordsInv

LEMMA DieStands == ASSUME RecordsInv, Die PROVE RecordsInv'
  <1>1. /\ UNCHANGED <<facts, environments, results, clock>> /\ command' = NoCommand
        /\ outputs \subseteq outputs'
    BY DEF Die
  <1>2. clock' \in Time
    BY <1>1 DEF RecordsInv, RecordTypes
  <1>3. QED BY <1>1, <1>2, IdleStands

LEMMA ClockStands == ASSUME RecordsInv, Tick \/ TurnBack PROVE RecordsInv'
  <1>1. /\ UNCHANGED <<facts, environments, results, outputs, command>>
    BY DEF Tick, TurnBack, tables
  <1>2. clock' \in Time
    BY RecordsAssumption DEF Tick, TurnBack, RecordsInv, RecordTypes, Environment, Result, Time
  <1>3. RecordTypes'
    BY <1>1, <1>2 DEF RecordsInv, RecordTypes
  <1>4. Done' = Done
    BY <1>1 DEF Done, ResultsOf
  <1>5. CommandIsBacked'
    BY <1>1, <1>4 DEF RecordsInv, CommandIsBacked, Published
  <1>6. QED BY <1>1, <1>3, <1>5, RowsStand DEF RecordsInv

\* A command that goes on to another step of its attempt.
LEMMA StepStands ==
  ASSUME RecordsInv, UNCHANGED <<facts, environments, results, clock>>,
         outputs \subseteq outputs', command' \in Command,
         CommandFollows
  PROVE  RecordsInv'
  <1>1. RecordTypes'
    BY DEF RecordsInv, RecordTypes
  <1>2. CommandIsBacked'
    BY CommandGoesOn
  <1>3. QED BY <1>1, <1>2, RowsStand DEF RecordsInv

LEMMA GotoFollows ==
  ASSUME RecordsInv, NEW point \in Point, Goto(point)
  PROVE  /\ command' \in Command /\ command'.at = point
         /\ command'.sequence = command.sequence /\ command'.operation = command.operation
  <1>1. command \in Command
    BY DEF RecordsInv, RecordTypes
  <1>2. QED BY <1>1 DEF Goto, Command

LEMMA FailFollows ==
  ASSUME Fail
  PROVE  command' \in Command /\ command'.at = "idle"
  BY RecordsAssumption DEF Fail, NoCommand, Command, Point, Attempting, Time

LEMMA TransitionFollows ==
  ASSUME RecordsInv, NEW resume \in BOOLEAN, NEW point \in Point,
         Transition(resume, point)
  PROVE  /\ command' \in Command /\ command'.at \in {point, "idle"}
         /\ command'.at = point => command'.sequence = command.sequence \/ point = "idle"
  <1>1. CASE Goto(point)
    BY <1>1, GotoFollows
  <1>2. CASE Fail
    BY <1>2, FailFollows DEF Fail, NoCommand
  <1>3. QED BY <1>1, <1>2 DEF Transition

LEMMA MarkStands == ASSUME RecordsInv, Mark PROVE RecordsInv'
  <1>1. /\ UNCHANGED <<facts, environments, results, outputs, clock>>
        /\ command.at = "mark" /\ Transition(TRUE, "capture")
    BY DEF Mark, At, world, tables
  <1>2. "capture" \in Point /\ TRUE \in BOOLEAN
    BY DEF Point, Attempting
  <1>3. /\ command' \in Command /\ command'.at \in {"capture", "idle"}
        /\ command'.at = "capture" => command'.sequence = command.sequence
    BY <1>1, <1>2, TransitionFollows
  <1>4. CommandFollows
    BY <1>1, <1>3 DEF CommandFollows, Attempting
  <1>5. QED BY <1>1, <1>3, <1>4, StepStands

LEMMA CaptureStands == ASSUME RecordsInv, Capture PROVE RecordsInv'
  <1>1. UNCHANGED <<facts, environments, results, clock>> /\ command.at = "capture"
    BY DEF Capture, At, world
  <1>2. {"conclude", "interrupt"} \subseteq Point
    BY DEF Point, Attempting
  <1>3. CASE Goto("conclude") /\ UNCHANGED outputs
    <2>1. command' \in Command /\ command'.at = "conclude"
          /\ command'.sequence = command.sequence
      BY <1>2, <1>3, GotoFollows
    <2>2. CommandFollows
      BY <1>1, <2>1 DEF CommandFollows, Attempting
    <2>3. QED BY <1>1, <1>3, <2>1, <2>2, StepStands
  <1>4. CASE Goto("interrupt") /\ UNCHANGED outputs
    <2>1. command' \in Command /\ command'.at = "interrupt"
          /\ command'.sequence = command.sequence
      BY <1>2, <1>4, GotoFollows
    <2>2. CommandFollows
      BY <1>1, <2>1 DEF CommandFollows, Attempting
    <2>3. QED BY <1>1, <1>4, <2>1, <2>2, StepStands
  <1>5. CASE /\ outputs' = outputs \cup {Published("tools", TRUE)}
             /\ command' = [command EXCEPT !.at = "spawn", !.captured = clock]
    <2>1. command \in Command /\ clock \in Time
      BY DEF RecordsInv, RecordTypes
    <2>2. command' \in Command /\ command'.at = "spawn"
          /\ command'.sequence = command.sequence
      BY <1>5, <2>1 DEF Command, Point, Attempting
    <2>3. Published("tools", TRUE) \in outputs' /\ outputs \subseteq outputs'
      BY <1>5
    <2>4. CommandFollows
      BY <1>1, <2>2, <2>3 DEF CommandFollows, Attempting
    <2>5. QED BY <1>1, <2>2, <2>3, <2>4, StepStands
  <1>6. QED BY <1>3, <1>4, <1>5 DEF Capture

LEMMA SpawnStands == ASSUME RecordsInv, Spawn PROVE RecordsInv'
  <1>1. UNCHANGED <<facts, environments, results, outputs, clock>> /\ command.at = "spawn"
    BY DEF Spawn, At, world, tables
  <1>2. command \in Command /\ clock \in Time
    BY DEF RecordsInv, RecordTypes
  <1>3. command' \in Command /\ command'.at = "wait"
        /\ command'.sequence = command.sequence
    BY <1>2 DEF Spawn, Command, Point, Attempting
  <1>4. CommandFollows
    BY <1>1, <1>3 DEF CommandFollows, Attempting
  <1>5. QED BY <1>1, <1>3, <1>4, StepStands

LEMMA WaitStands == ASSUME RecordsInv, NEW passed \in BOOLEAN, Wait(passed) PROVE RecordsInv'
  <1>1. UNCHANGED <<facts, environments, results, clock>> /\ command.at = "wait"
    BY DEF Wait, At, world
  <1>2. CASE Goto("interrupt") /\ UNCHANGED outputs
    <2>1. command' \in Command /\ command'.at = "interrupt"
          /\ command'.sequence = command.sequence
      BY <1>2, GotoFollows DEF Point, Attempting
    <2>2. CommandFollows
      BY <1>1, <2>1 DEF CommandFollows, Attempting
    <2>3. QED BY <1>1, <1>2, <2>1, <2>2, StepStands
  <1>3. CASE \E next \in {"environment", "interrupt"} :
             /\ outputs' = outputs \cup {Published("check", TRUE)}
             /\ command' = [command EXCEPT !.ended = clock, !.passed = passed, !.at = next]
    <2>1. PICK next \in {"environment", "interrupt"} :
             /\ outputs' = outputs \cup {Published("check", TRUE)}
             /\ command' = [command EXCEPT !.ended = clock, !.passed = passed, !.at = next]
      BY <1>3
    <2>2. command \in Command /\ clock \in Time
      BY DEF RecordsInv, RecordTypes
    <2>3. command' \in Command /\ command'.at = next
          /\ command'.sequence = command.sequence
      BY <2>1, <2>2 DEF Command, Point, Attempting
    <2>4. Published("check", TRUE) \in outputs' /\ outputs \subseteq outputs'
      BY <2>1
    <2>5. CommandFollows
      BY <1>1, <2>3, <2>4 DEF CommandFollows, Attempting
    <2>6. QED BY <1>1, <2>3, <2>4, <2>5, StepStands
  <1>4. QED BY <1>2, <1>3 DEF Wait

LEMMA RecoverStands == ASSUME RecordsInv, Recover PROVE RecordsInv'
  <1>1. /\ UNCHANGED <<facts, environments, results, outputs, clock>>
        /\ Transition(FALSE, "answer") \/ Goto("answer")
    BY DEF Recover, At, world, tables
  <1>2. "answer" \in Point /\ FALSE \in BOOLEAN
    BY DEF Point, Attempting
  <1>3. command' \in Command /\ command'.at \in {"answer", "idle"}
    BY <1>1, <1>2, TransitionFollows, GotoFollows
  <1>4. CommandFollows
    BY <1>3 DEF CommandFollows, Attempting
  <1>5. QED BY <1>1, <1>3, <1>4, StepStands

LEMMA AnswerStands == ASSUME RecordsInv, Answer PROVE RecordsInv'
  <1>1. UNCHANGED <<facts, environments, results, outputs, clock>> /\ command' = NoCommand
    BY DEF Answer, At, world, tables, Fail
  <1>2. clock' \in Time
    BY <1>1 DEF RecordsInv, RecordTypes
  <1>3. QED BY <1>1, <1>2, IdleStands

-----------------------------------------------------------------------------
(* Steps that append a row.                                                *)

LEMMA FailStands ==
  ASSUME RecordsInv, Fail, UNCHANGED <<facts, environments, results, outputs, clock>>
  PROVE  RecordsInv'
  <1>1. clock' \in Time
    BY DEF RecordsInv, RecordTypes
  <1>2. QED BY <1>1, IdleStands DEF Fail

LEMMA AppendEnvironmentStands == ASSUME RecordsInv, AppendEnvironment PROVE RecordsInv'
  <1>1. UNCHANGED <<facts, results, outputs, clock>> /\ command.at = "environment"
    BY DEF AppendEnvironment, At, world
  <1>2. CASE Fail /\ UNCHANGED environments
    BY <1>1, <1>2, FailStands
  <1>3. CASE /\ MayRecordEnvironment(TheEnvironment) /\ Goto("result")
             /\ environments' = environments \cup {TheEnvironment}
    <2>1. PICK e : e = TheEnvironment
      OBVIOUS
    <2>2. /\ e.sequence = command.sequence /\ e.execution = Done + 1
          /\ e.recorded = command.captured
          /\ e = [sequence |-> command.sequence, execution |-> Done + 1,
                  recorded |-> command.captured]
      BY <2>1 DEF TheEnvironment
    <2>3. Began(e.sequence, e.recorded)
      <3>1. PICK f \in facts : f.sequence = e.sequence /\ IsRunning(f)
        BY <1>3, <2>1 DEF MayRecordEnvironment, FactsOf
      <3>2. RunningFact(e.sequence) = f
        BY <3>1, RunningIsOne
      <3>3. e.recorded >= f.started
        BY <1>3, <2>1, <3>2 DEF MayRecordEnvironment
      <3>4. f.started \in Nat /\ e.recorded \in Nat
        BY <2>2, <3>1, RecordsAssumption
        DEF RecordsInv, RecordTypes, Environment, Fact, Command, Time
      <3>5. QED BY <3>1, <3>3, <3>4 DEF Began
    <2>4. OutputStands(e, "tools")
      BY <1>1, <2>2 DEF RecordsInv, CommandIsBacked, OutputStands, Published
    <2>5. environments' = environments \cup {e}
      BY <1>3, <2>1
    <2>6. Done \in Nat
      <3>1. IsFiniteSet(ResultsOf(command.sequence))
        BY FS_Subset DEF RecordsInv, RecordTypes, ResultsOf
      <3>2. QED BY <3>1, FS_CardinalityType DEF Done
    <2>7. command \in Command
      BY DEF RecordsInv, RecordTypes
    <2>8. e \in Environment
      BY <2>2, <2>6, <2>7 DEF Command, Environment
    <2>9. /\ command' \in Command /\ command'.at = "result"
          /\ command'.sequence = command.sequence
      BY <1>3, GotoFollows DEF Point, Attempting
    <2>10. RecordTypes'
      BY <1>1, <2>5, <2>8, <2>9 DEF RecordsInv, RecordTypes
    <2>11. CommandFollows /\ outputs \subseteq outputs'
      BY <1>1, <2>9 DEF CommandFollows, Attempting
    <2>12. CommandIsBacked'
      BY <1>1, <2>11, CommandGoesOn
    <2>13. \A q : ResultsOf(q)' = ResultsOf(q)
      BY <1>1 DEF ResultsOf
    <2>14. AttemptsAreNumbered' /\ AttemptsAreGrouped' /\ ResultsAreNumbered'
      BY <1>1, <2>13
      DEF RecordsInv, AttemptsAreNumbered, AttemptsAreGrouped, ResultsAreNumbered
    <2>15. VerdictsAreExplained'
      BY <1>1, <2>13 DEF RecordsInv, VerdictsAreExplained
    <2>16. \A q, time : Began(q, time)' <=> Began(q, time)
      BY <1>1 DEF Began
    <2>17. \A row, of : OutputStands(row, of)' <=> OutputStands(row, of)
      BY <1>1 DEF OutputStands
    <2>18. \A r : IsReadable(r) => IsReadable(r)'
      BY <2>5 DEF IsReadable
    <2>19. RowsAreBacked'
      BY <1>1, <2>3, <2>4, <2>5, <2>16, <2>17, <2>18 DEF RecordsInv, RowsAreBacked
    <2>20. QED BY <2>10, <2>12, <2>14, <2>15, <2>19 DEF RecordsInv
  <1>4. QED BY <1>2, <1>3 DEF AppendEnvironment

LEMMA AppendResultStands == ASSUME RecordsInv, AppendResult PROVE RecordsInv'
  <1>1. UNCHANGED <<facts, environments, outputs, clock>> /\ command.at = "result"
    BY DEF AppendResult, At, world
  <1>2. CASE Fail /\ UNCHANGED results
    BY <1>1, <1>2, FailStands
  <1>3. CASE /\ MayRecordResult(TheResult) /\ results' = results \cup {TheResult}
             /\ command' = [command EXCEPT !.at = "capture", !.captured = 0,
                             !.spawned = 0, !.ended = 0, !.passed = FALSE]
    <2>1. PICK n : n = command.sequence
      OBVIOUS
    <2>2. PICK r : r = TheResult
      OBVIOUS
    <2>3. /\ r.sequence = n /\ r.execution = Done + 1 /\ r.started = command.spawned
          /\ r = [sequence |-> n, execution |-> Done + 1, started |-> command.spawned,
                  finished |-> command.ended, passed |-> command.passed]
      BY <2>1, <2>2 DEF TheResult
    <2>4. command \in Command
      BY DEF RecordsInv, RecordTypes
    <2>5. IsFiniteSet(ResultsOf(n)) /\ Done = Cardinality(ResultsOf(n)) /\ Done \in Nat
      <3>1. IsFiniteSet(ResultsOf(n))
        BY FS_Subset DEF RecordsInv, RecordTypes, ResultsOf
      <3>2. QED BY <2>1, <3>1, FS_CardinalityType DEF Done
    <2>6. r \in Result
      BY <2>1, <2>3, <2>4, <2>5 DEF Command, Result
    <2>7. results' = results \cup {r}
      BY <1>3, <2>2
    <2>8. /\ command' \in Command /\ command'.at = "capture"
          /\ command'.sequence = n
      <3>1. 0 \in Time /\ "capture" \in Point
        BY RecordsAssumption DEF Time, Point, Attempting
      <3>2. QED BY <1>3, <2>1, <2>4, <3>1 DEF Command
    <2>9. RecordTypes'
      <3>1. IsFiniteSet(results')
        BY <2>7, FS_AddElement DEF RecordsInv, RecordTypes
      <3>2. QED BY <1>1, <2>6, <2>7, <2>8, <3>1 DEF RecordsInv, RecordTypes
    <2>10. AttemptsAreNumbered' /\ AttemptsAreGrouped'
      BY <1>1 DEF RecordsInv, AttemptsAreNumbered, AttemptsAreGrouped
    <2>11. \A q : q # n => ResultsOf(q)' = ResultsOf(q)
      BY <2>3, <2>7 DEF ResultsOf
    <2>12. \A f \in facts : f.sequence = n => IsRunning(f)
      BY <1>1, <2>1 DEF RecordsInv, CommandIsBacked, Attempting
    <2>13. VerdictsAreExplained'
      BY <1>1, <2>11, <2>12 DEF RecordsInv, VerdictsAreExplained
    <2>14. Began(n, r.started)
      <3>1. PICK f \in facts : f.sequence = n /\ IsRunning(f)
        BY <1>3, <2>2, <2>3 DEF MayRecordResult, FactsOf
      <3>2. RunningFact(n) = f
        BY <3>1, RunningIsOne
      <3>3. r.started >= f.started
        BY <1>3, <2>2, <2>3, <3>2 DEF MayRecordResult
      <3>4. f.started \in Nat /\ r.started \in Nat
        BY <2>6, <3>1, RecordsAssumption DEF RecordsInv, RecordTypes, Fact, Result, Time
      <3>5. QED BY <3>1, <3>3, <3>4 DEF Began
    <2>15. OutputStands(r, "check")
      BY <1>1, <2>1, <2>3 DEF RecordsInv, CommandIsBacked, OutputStands, Published
    <2>16. IsReadable(r)
      BY <1>3, <2>2 DEF MayRecordResult
    <2>17. \A q, time : Began(q, time)' <=> Began(q, time)
      BY <1>1 DEF Began
    <2>18. \A row, of : OutputStands(row, of)' <=> OutputStands(row, of)
      BY <1>1 DEF OutputStands
    <2>19. \A q : IsReadable(q)' <=> IsReadable(q)
      BY <1>1 DEF IsReadable
    <2>20. RowsAreBacked'
      BY <1>1, <2>3, <2>7, <2>14, <2>15, <2>16, <2>17, <2>18, <2>19
      DEF RecordsInv, RowsAreBacked
    <2>21. ResultsAreNumbered'
      <3>1. \A q \in results : q.sequence = n => q.execution <= Done /\ q.execution \in Nat
        BY <2>5 DEF RecordsInv, ResultsAreNumbered, RecordTypes, Result
      <3>2. r \notin ResultsOf(n)
        BY <2>3, <2>5, <3>1 DEF ResultsOf
      <3>3. ResultsOf(n)' = ResultsOf(n) \cup {r}
        BY <2>3, <2>7 DEF ResultsOf
      <3>4. Cardinality(ResultsOf(n)') = Done + 1
        BY <2>5, <3>2, <3>3, FS_AddElement
      <3>5. \A q \in results' : q.execution <= Cardinality(ResultsOf(q.sequence)')
        <4> SUFFICES ASSUME NEW q \in results'
                     PROVE  q.execution <= Cardinality(ResultsOf(q.sequence)')
          OBVIOUS
        <4>1. CASE q.sequence # n
          <5>1. q \in results /\ ResultsOf(q.sequence)' = ResultsOf(q.sequence)
            BY <2>3, <2>7, <2>11, <4>1
          <5>2. QED BY <5>1 DEF RecordsInv, ResultsAreNumbered
        <4>2. CASE q.sequence = n
          <5>1. q.execution \in Nat /\ q.execution <= Done + 1
            BY <2>3, <2>5, <2>7, <3>1, <4>2
          <5>2. QED BY <3>4, <4>2, <5>1
        <4>3. QED BY <4>1, <4>2
      <3>6. \A q \in results : ~(q.sequence = n /\ q.execution = r.execution)
        BY <2>3, <2>5, <3>1
      <3>7. \A p, q \in results' : p.sequence = q.sequence /\ p.execution = q.execution => p = q
        BY <2>3, <2>7, <3>6 DEF RecordsInv, ResultsAreNumbered
      <3>8. QED BY <3>5, <3>7 DEF ResultsAreNumbered
    <2>22. CommandIsBacked'
      <3>1. /\ \E f \in facts' : IsRunning(f) /\ f.sequence = command'.sequence
            /\ \A f \in facts' : f.sequence = command'.sequence => IsRunning(f)
        BY <1>1, <2>1, <2>8 DEF RecordsInv, CommandIsBacked, Attempting
      <3>2. QED BY <2>8, <3>1 DEF CommandIsBacked
    <2>23. QED BY <2>9, <2>10, <2>13, <2>20, <2>21, <2>22 DEF RecordsInv
  <1>4. QED BY <1>2, <1>3 DEF AppendResult

LEMMA TerminateStands ==
  ASSUME RecordsInv, NEW verdict \in AttemptVerdict, Terminate(verdict),
         UNCHANGED <<environments, results, outputs, clock>>
  PROVE  RecordsInv'
  <1>1. CASE Fail /\ UNCHANGED facts
    BY <1>1, FailStands
  <1>2. CASE ~(Fail /\ UNCHANGED facts)
    <2>1. PICK f : f = [sequence |-> command.sequence, operation |-> command.operation,
                        status |-> verdict, started |-> command.started, recorded |-> clock]
      OBVIOUS
    <2>2. /\ MayEnd(f) /\ facts' = facts \cup {f}
          /\ command' = [NoCommand EXCEPT !.at = "recover", !.operation = f.operation,
                                          !.sequence = f.sequence]
      BY <1>2, <2>1 DEF Terminate
    <2>3. f.status = verdict /\ ~IsRunning(f)
      BY <2>1 DEF IsRunning, AttemptVerdict
    <2>4. PICK g \in facts : /\ FactsOf(f.sequence) = {g} /\ FactsFor(f.operation) = {g}
                             /\ IsRunning(g) /\ g.started = f.started
      BY <2>2 DEF MayEnd
    <2>5. g.sequence = f.sequence /\ g.operation = f.operation
      BY <2>4 DEF FactsOf, FactsFor
    <2>6. g \in Fact
      BY DEF RecordsInv, RecordTypes
    <2>7. f \in Fact
      <3>1. /\ f.sequence \in Nat /\ f.operation \in Operation /\ f.started \in Time
        BY <2>4, <2>5, <2>6 DEF Fact
      <3>2. clock \in Time
        BY DEF RecordsInv, RecordTypes
      <3>3. QED BY <2>1, <3>1, <3>2 DEF Fact
    <2>8. command' \in Command /\ command'.at = "recover"
      <3>1. f.operation \in Operation /\ f.sequence \in Nat
        BY <2>7 DEF Fact
      <3>2. NoCommand \in Command
        BY RecordsAssumption DEF NoCommand, Command, Point, Attempting, Time
      <3>3. "recover" \in Point
        BY DEF Point
      <3>4. QED BY <2>2, <3>1, <3>2, <3>3 DEF Command
    <2>9. RecordTypes'
      BY <2>2, <2>7, <2>8 DEF RecordsInv, RecordTypes
    <2>10. AttemptsAreNumbered'
      <3>1. {h.sequence : h \in facts'} = {h.sequence : h \in facts}
        BY <2>2, <2>5
      <3>2. QED BY <3>1 DEF RecordsInv, AttemptsAreNumbered
    <2>11. AttemptsAreGrouped'
      <3>1. g.recorded = g.started
        BY <2>4 DEF RecordsInv, AttemptsAreGrouped
      <3>2. \A h \in facts : h.sequence = f.sequence => h = g
        BY <2>4 DEF FactsOf
      <3>3. \A h \in facts' : \E k \in facts' :
              /\ IsRunning(k) /\ k.sequence = h.sequence /\ k.operation = h.operation
              /\ k.started = h.started /\ k.recorded = k.started
        <4> SUFFICES ASSUME NEW h \in facts'
                     PROVE  \E k \in facts' :
              /\ IsRunning(k) /\ k.sequence = h.sequence /\ k.operation = h.operation
              /\ k.started = h.started /\ k.recorded = k.started
          OBVIOUS
        <4>1. CASE h \in facts
          BY <2>2, <4>1 DEF RecordsInv, AttemptsAreGrouped
        <4>2. CASE h = f
          BY <2>2, <2>4, <2>5, <3>1, <4>2
        <4>3. QED BY <2>2, <4>1, <4>2
      <3>4. \A h, k \in facts' :
              h.sequence = k.sequence /\ (IsRunning(h) <=> IsRunning(k)) => h = k
        BY <2>2, <2>3, <2>4, <3>2 DEF RecordsInv, AttemptsAreGrouped
      <3>5. QED BY <3>3, <3>4 DEF AttemptsAreGrouped
    <2>12. \A q : ResultsOf(q)' = ResultsOf(q)
      BY DEF ResultsOf
    <2>13. VerdictsAreExplained'
      <3>1. ExplainedBy(f, ResultsOf(f.sequence)) /\ FactIsValid(f)
        BY <2>2 DEF MayEnd, ExplainedBy
      <3>2. QED BY <2>2, <2>12, <3>1 DEF RecordsInv, VerdictsAreExplained
    <2>14. \A q, time : Began(q, time) => Began(q, time)'
      BY <2>2 DEF Began
    <2>15. RowsAreBacked'
      <3>1. \A row, of : OutputStands(row, of)' <=> OutputStands(row, of)
        BY DEF OutputStands
      <3>2. \A q : IsReadable(q)' <=> IsReadable(q)
        BY DEF IsReadable
      <3>3. QED BY <2>14, <3>1, <3>2 DEF RecordsInv, RowsAreBacked
    <2>16. ResultsAreNumbered'
      BY <2>12 DEF RecordsInv, ResultsAreNumbered
    <2>17. CommandIsBacked'
      BY <2>8 DEF CommandIsBacked, Attempting
    <2>18. QED BY <2>9, <2>10, <2>11, <2>13, <2>15, <2>16, <2>17 DEF RecordsInv
  <1>3. QED BY <1>1, <1>2

LEMMA EndStands == ASSUME RecordsInv, Conclude \/ Interrupt PROVE RecordsInv'
  <1>1. UNCHANGED <<environments, results, outputs, clock>>
    BY DEF Conclude, Interrupt, At, world
  <1>2. \E verdict \in AttemptVerdict : Terminate(verdict)
    BY DEF Conclude, Interrupt, AttemptVerdict
  <1>3. QED BY <1>1, <1>2, TerminateStands

\* The attempt that is not yet there is the next one.
LEMMA NextIsNext ==
  ASSUME NEW n \in Nat, {f.sequence : f \in facts} = 1..n
  PROVE  NextSequence = n + 1
  <1>1. PICK S : S = 1..n \cup {0}
    OBVIOUS
  <1>2. n \in S /\ \A m \in S : n >= m /\ m \in Nat
    BY <1>1
  <1>3. Max(S) = n
    <2>1. PICK x : x = Max(S)
      OBVIOUS
    <2>2. x \in S /\ x >= n
      BY <1>2, <2>1 DEF Max
    <2>3. x \in Nat /\ n >= x
      BY <1>2, <2>2
    <2>4. QED BY <2>1, <2>2, <2>3
  <1>4. {f.sequence : f \in facts} \cup {0} = S
    BY <1>1
  <1>5. NextSequence = Max(S) + 1
    BY <1>4, Zenon DEF NextSequence
  <1>6. QED BY <1>3, <1>5

LEMMA CallStands ==
  ASSUME RecordsInv, NEW o \in Operation, Call(o)
  PROVE  RecordsInv'
  <1>1. UNCHANGED <<environments, results, outputs, clock>> /\ command = NoCommand
    BY DEF Call, world
  <1>2. ASSUME NEW f \in Fact, NEW point \in Point,
               command' = [NoCommand EXCEPT !.at = point, !.operation = o,
                           !.sequence = f.sequence, !.started = f.started]
        PROVE  /\ command' \in Command /\ command'.at = point
               /\ command'.sequence = f.sequence
    <2>1. PICK c : c = NoCommand
      OBVIOUS
    <2>2. c \in Command
      BY <2>1, RecordsAssumption DEF NoCommand, Command, Point, Attempting, Time
    <2>3. f.sequence \in Nat /\ f.started \in Time
      BY DEF Fact
    <2>4. command' = [c EXCEPT !.at = point, !.operation = o,
                     !.sequence = f.sequence, !.started = f.started]
      BY <1>2, <2>1
    <2>5. QED BY <2>2, <2>3, <2>4 DEF Command
  <1>3. ASSUME NEW f \in facts, UNCHANGED facts,
               command' \in Command /\ command'.at = "recover"
        PROVE  RecordsInv'
    <2>1. CommandFollows
      BY <1>3 DEF CommandFollows, Attempting
    <2>2. QED BY <1>1, <1>3, <2>1, StepStands
  <1>4. ASSUME NEW f \in FactsFor(o), \A g \in FactsFor(o) : IsRunning(g),
               UNCHANGED facts, command' \in Command /\ command'.at = "interrupt",
               command'.sequence = f.sequence
        PROVE  RecordsInv'
    <2>1. f \in facts /\ f.operation = o /\ IsRunning(f)
      BY <1>4 DEF FactsFor
    <2>2. \A g \in facts : g.sequence = f.sequence => IsRunning(g)
      <3> SUFFICES ASSUME NEW g \in facts, g.sequence = f.sequence PROVE IsRunning(g)
        OBVIOUS
      <3>1. PICK k \in facts : /\ IsRunning(k) /\ k.sequence = g.sequence
                               /\ k.operation = g.operation
        BY DEF RecordsInv, AttemptsAreGrouped
      <3>2. k = f
        BY <2>1, <3>1 DEF RecordsInv, AttemptsAreGrouped
      <3>3. g \in FactsFor(o)
        BY <2>1, <3>1, <3>2 DEF FactsFor
      <3>4. QED BY <1>4, <3>3
    <2>3. CommandIsBacked'
      BY <1>4, <2>1, <2>2 DEF CommandIsBacked
    <2>4. RecordTypes'
      BY <1>1, <1>4 DEF RecordsInv, RecordTypes
    <2>5. QED BY <1>1, <1>4, <2>3, <2>4, RowsStand DEF RecordsInv
  <1>5. ASSUME NEW f, FactsOf(NextSequence) = {},
               f = [sequence |-> NextSequence, operation |-> o, status |-> "running",
                    started |-> clock, recorded |-> clock],
               facts' = facts \cup {f}, command'.at = "mark",
               f \in Fact => command' \in Command,
               command'.sequence = f.sequence
        PROVE  RecordsInv'
    <2>1. PICK n \in Nat : {g.sequence : g \in facts} = 1..n
      BY DEF RecordsInv, AttemptsAreNumbered
    <2>2. f.sequence = n + 1
      BY <1>5, <2>1, NextIsNext
    <2>3. IsRunning(f) /\ f.started = clock /\ f.recorded = clock
      BY <1>5 DEF IsRunning
    <2>4. clock \in Time
      BY DEF RecordsInv, RecordTypes
    <2>5. f \in Fact
      BY <1>5, <2>1, <2>2, <2>4 DEF Fact
    <2>6. \A g \in facts : g.sequence # f.sequence
      BY <1>5 DEF FactsOf
    <2>7. RecordTypes'
      BY <1>1, <1>5, <2>4, <2>5 DEF RecordsInv, RecordTypes
    <2>8. AttemptsAreNumbered'
      <3>1. {g.sequence : g \in facts'} = {g.sequence : g \in facts} \cup {n + 1}
        BY <1>5, <2>2
      <3>2. {g.sequence : g \in facts'} = 1..(n + 1)
        <4>1. \A m \in Nat : (1..m) \cup {m + 1} = 1..(m + 1)
          OBVIOUS
        <4>2. QED BY <2>1, <3>1, <4>1
      <3>3. QED BY <2>1, <3>2 DEF AttemptsAreNumbered
    <2>9. AttemptsAreGrouped'
      <3>1. \A h \in facts' : \E k \in facts' :
              /\ IsRunning(k) /\ k.sequence = h.sequence /\ k.operation = h.operation
              /\ k.started = h.started /\ k.recorded = k.started
        BY <1>5, <2>3 DEF RecordsInv, AttemptsAreGrouped
      <3>2. \A h, k \in facts' :
              h.sequence = k.sequence /\ (IsRunning(h) <=> IsRunning(k)) => h = k
        BY <1>5, <2>6 DEF RecordsInv, AttemptsAreGrouped
      <3>3. QED BY <3>1, <3>2 DEF AttemptsAreGrouped
    <2>10. \A q : ResultsOf(q)' = ResultsOf(q)
      BY <1>1 DEF ResultsOf
    <2>11. VerdictsAreExplained'
      <3>1. FactIsValid(f)
        <4>1. clock \in Nat
          BY <2>4, RecordsAssumption DEF Time
        <4>2. QED BY <2>1, <2>2, <2>3, <4>1 DEF FactIsValid
      <3>2. QED BY <1>5, <2>3, <2>10, <3>1 DEF RecordsInv, VerdictsAreExplained
    <2>12. RowsAreBacked'
      <3>1. \A row, of : OutputStands(row, of)' <=> OutputStands(row, of)
        BY <1>1 DEF OutputStands
      <3>2. \A q : IsReadable(q)' <=> IsReadable(q)
        BY <1>1 DEF IsReadable
      <3>3. \A q, time : Began(q, time) => Began(q, time)'
        BY <1>5 DEF Began
      <3>4. QED BY <1>1, <3>1, <3>2, <3>3 DEF RecordsInv, RowsAreBacked
    <2>13. ResultsAreNumbered'
      BY <1>1, <2>10 DEF RecordsInv, ResultsAreNumbered
    <2>14. CommandIsBacked'
      BY <1>5, <2>3, <2>6 DEF CommandIsBacked
    <2>15. QED BY <2>7, <2>8, <2>9, <2>11, <2>12, <2>13, <2>14 DEF RecordsInv
  <1>6. {"recover", "interrupt", "mark"} \subseteq Point /\ facts \subseteq Fact
    BY DEF Point, Attempting, RecordsInv, RecordTypes
  <1>7. CASE /\ UNCHANGED facts
             /\ \E f \in FactsFor(o) : command' = [NoCommand EXCEPT !.at = "recover",
                   !.operation = o, !.sequence = f.sequence, !.started = f.started]
    BY <1>2, <1>3, <1>6, <1>7 DEF FactsFor
  <1>8. CASE /\ UNCHANGED facts /\ \A f \in FactsFor(o) : IsRunning(f)
             /\ \E f \in FactsFor(o) : command' = [NoCommand EXCEPT !.at = "interrupt",
                   !.operation = o, !.sequence = f.sequence, !.started = f.started]
    <2>1. PICK f \in FactsFor(o) : command' = [NoCommand EXCEPT !.at = "interrupt",
                   !.operation = o, !.sequence = f.sequence, !.started = f.started]
      BY <1>8
    <2>2. f \in Fact
      BY <1>6 DEF FactsFor
    <2>3. /\ command' \in Command /\ command'.at = "interrupt"
          /\ command'.sequence = f.sequence
      BY <1>2, <1>6, <2>1, <2>2
    <2>4. QED BY <1>4, <1>8, <2>3
  <1>9. CASE /\ FactsOf(NextSequence) = {}
             /\ \E f : /\ f = [sequence |-> NextSequence, operation |-> o,
                               status |-> "running", started |-> clock, recorded |-> clock]
                        /\ facts' = facts \cup {f}
                        /\ command' = [NoCommand EXCEPT !.at = "mark", !.operation = o,
                              !.sequence = f.sequence, !.started = f.started]
    <2>1. PICK f : /\ f = [sequence |-> NextSequence, operation |-> o,
                           status |-> "running", started |-> clock, recorded |-> clock]
                   /\ facts' = facts \cup {f}
                   /\ command' = [NoCommand EXCEPT !.at = "mark", !.operation = o,
                         !.sequence = f.sequence, !.started = f.started]
      BY <1>9
    <2>2. f \in Fact => command' \in Command
      BY <1>2, <1>6, <2>1
    <2>3. command'.at = "mark" /\ command'.sequence = f.sequence
      BY <2>1 DEF NoCommand
    <2>4. QED BY <1>5, <1>9, <2>1, <2>2, <2>3
  <1>10. QED BY <1>7, <1>8, <1>9 DEF Call

-----------------------------------------------------------------------------
(* The theorems about the rows.                                            *)

LEMMA RecordsInitially == RecordsInit => RecordsInv
  <1> SUFFICES ASSUME RecordsInit PROVE RecordsInv
    OBVIOUS
  <1>1. /\ NoCommand \in Command /\ NoCommand.at = "idle"
    BY RecordsAssumption DEF NoCommand, Command, Point, Attempting, Time
  <1>2. RecordTypes
    BY <1>1, RecordsAssumption, FS_EmptySet DEF RecordsInit, RecordTypes, Time
  <1>3. AttemptsAreNumbered
    <2>1. {f.sequence : f \in facts} = 1..0
      BY DEF RecordsInit
    <2>2. QED BY <2>1 DEF AttemptsAreNumbered
  <1>4. AttemptsAreGrouped /\ VerdictsAreExplained /\ RowsAreBacked /\ ResultsAreNumbered
    BY DEF RecordsInit, AttemptsAreGrouped, VerdictsAreExplained, RowsAreBacked,
           ResultsAreNumbered
  <1>5. CommandIsBacked
    BY <1>1 DEF RecordsInit, CommandIsBacked, Attempting
  <1>6. QED BY <1>2, <1>3, <1>4, <1>5 DEF RecordsInv

LEMMA RecordsStep == RecordsInv /\ [RecordsNext]_recordVars => RecordsInv'
  <1> SUFFICES ASSUME RecordsInv, [RecordsNext]_recordVars PROVE RecordsInv'
    OBVIOUS
  <1>1. CASE \E o \in Operation : Call(o)
    BY <1>1, CallStands
  <1>2. CASE Step
    BY <1>2, MarkStands, CaptureStands, SpawnStands, WaitStands, AppendEnvironmentStands,
       AppendResultStands, EndStands, RecoverStands, AnswerStands DEF Step
  <1>3. CASE Tick \/ TurnBack
    BY <1>3, ClockStands
  <1>4. CASE Die
    BY <1>4, DieStands
  <1>5. CASE UNCHANGED recordVars
    <2>1. /\ UNCHANGED <<facts, environments, results, clock, outputs, command>>
      BY <1>5 DEF recordVars
    <2>2. command' \in Command
      BY <2>1 DEF RecordsInv, RecordTypes
    <2>3. Done' = Done
      BY <2>1 DEF Done, ResultsOf
    <2>4. CommandIsBacked'
      BY <2>1, <2>3 DEF RecordsInv, CommandIsBacked, Published
    <2>5. RecordTypes'
      BY <2>1 DEF RecordsInv, RecordTypes
    <2>6. QED BY <2>1, <2>4, <2>5, RowsStand DEF RecordsInv
  <1>6. QED BY <1>1, <1>2, <1>3, <1>4, <1>5 DEF RecordsNext

\* `doctor` and `review.show` accept the rows at every moment, whatever operations and
\* plans there are, the clock did and died (verify_review_rows, review_session_records).
THEOREM RecordsAlwaysVerify == RecordsSpec => []RowsVerify
  <1>1. RecordsInit => RecordsInv
    BY RecordsInitially
  <1>2. RecordsInv /\ [RecordsNext]_recordVars => RecordsInv'
    BY RecordsStep
  <1>3. RecordsInv => RowsVerify
    BY RecordsVerify
  <1>4. QED BY <1>1, <1>2, <1>3, PTL DEF RecordsSpec

\* While the results of the session fit the window, all of an attempt's are read back.
LEMMA WindowShowsAll ==
  ASSUME RecordsInv, Cardinality(results) <= Window, NEW n
  PROVE  ReadBack(n) = ResultsOf(n)
  <1>1. IsFiniteSet(results) /\ Cardinality(results) \in Nat
    BY FS_CardinalityType DEF RecordsInv, RecordTypes
  <1>2. ASSUME NEW T, T \subseteq results PROVE Cardinality(T) <= Window
    <2>1. /\ Cardinality(T) <= Cardinality(results) /\ IsFiniteSet(T)
      BY <1>1, <1>2, FS_Subset
    <2>2. Cardinality(T) \in Nat
      BY <2>1, FS_CardinalityType
    <2>3. QED BY <1>1, <2>1, <2>2, RecordsAssumption
  <1>3. \A r : {m \in results :
                 \/ m.sequence > r.sequence
                 \/ m.sequence = r.sequence /\ m.execution <= r.execution} \subseteq results
    OBVIOUS
  <1>4. \A r \in ResultsOf(n) :
          Cardinality({m \in results :
            \/ m.sequence > r.sequence
            \/ m.sequence = r.sequence /\ m.execution <= r.execution}) <= Window
    BY <1>2, <1>3
  <1>5. QED BY <1>4 DEF ReadBack

\* An attempt that has a result of every execution has as many.
LEMMA CompleteIsCounted ==
  ASSUME RecordsInv, NEW n, {r.execution : r \in ResultsOf(n)} = 1..Executions
  PROVE  Cardinality(ResultsOf(n)) = Executions
  <1>1. PICK S : S = ResultsOf(n)
    OBVIOUS
  <1>2. /\ IsFiniteSet(S) /\ {r.execution : r \in S} = 1..Executions
        /\ \A r, q \in S : r.execution = q.execution => r = q
    <2>1. IsFiniteSet(S)
      BY <1>1, FS_Subset DEF RecordsInv, RecordTypes, ResultsOf
    <2>2. \A r, q \in S : r.execution = q.execution => r = q
      BY <1>1 DEF RecordsInv, ResultsAreNumbered, ResultsOf
    <2>3. QED BY <1>1, <2>1, <2>2
  <1>3. PICK g : g = [r \in S |-> r.execution]
    OBVIOUS
  <1>4. g \in Bijection(S, 1..Executions)
    <2>1. g \in [S -> 1..Executions] /\ \A r \in S : g[r] = r.execution
      BY <1>2, <1>3
    <2>2. \A r, q \in S : g[r] = g[q] => r = q
      BY <1>2, <2>1
    <2>3. \A i \in 1..Executions : \E r \in S : g[r] = i
      BY <1>2, <2>1
    <2>4. QED BY <2>1, <2>2, <2>3, Fun_IsBij
  <1>5. Cardinality(1..Executions) = Cardinality(S)
    BY <1>2, <1>4, FS_Bijection, Fun_ExistsBij
  <1>6. Cardinality(1..Executions) = Executions
    <2>1. Executions \in Nat
      BY RecordsAssumption
    <2>2. QED BY <2>1, FS_Interval
  <1>7. QED BY <1>1, <1>5, <1>6

LEMMA RetriesEnd ==
  ASSUME RecordsInv, NEW f \in facts, IsRunning(f), ~Unconcluded(f.operation),
         Ends(f.sequence) = {}
  PROVE  ExplainedBy([f EXCEPT !.status = "interrupted", !.recorded = Latest],
                     ResultsOf(f.sequence))
  <1>1. PICK g : g = [f EXCEPT !.status = "interrupted", !.recorded = Latest]
    OBVIOUS
  <1>2. f \in Fact
    BY DEF RecordsInv, RecordTypes
  <1>3. /\ g.sequence = f.sequence /\ g.status = "interrupted" /\ g.started = f.started
        /\ g.recorded = Latest
    BY <1>1, <1>2 DEF Fact
  <1>4. f.sequence > 0 /\ f.started \in Nat /\ f.started <= Latest
    <2>1. f.sequence > 0
      BY DEF RecordsInv, VerdictsAreExplained, FactIsValid
    <2>2. QED BY <1>2, <2>1, RecordsAssumption DEF Fact, Time
  <1>5. FactIsValid(g)
    BY <1>3, <1>4, RecordsAssumption DEF FactIsValid
  <1>6. ASSUME NEW r \in ResultsOf(f.sequence)
        PROVE  g.started <= r.started /\ r.finished <= g.recorded
    <2>1. r \in results /\ r.sequence = f.sequence
      BY <1>6 DEF ResultsOf
    <2>2. PICK h \in facts : IsRunning(h) /\ h.sequence = f.sequence /\ h.started <= r.started
      BY <2>1 DEF RecordsInv, RowsAreBacked, Began
    <2>3. h = f
      BY <2>2 DEF RecordsInv, AttemptsAreGrouped
    <2>4. r.finished <= Latest
      BY <2>1, RecordsAssumption DEF RecordsInv, RecordTypes, Environment, Result, Time
    <2>5. QED BY <1>3, <2>2, <2>3, <2>4
  <1>7. ~({r.execution : r \in ResultsOf(f.sequence)} = 1..Executions
          /\ \A r \in ResultsOf(f.sequence) : r.passed)
    <2>1. f \in FactsFor(f.operation)
      BY DEF FactsFor
    <2>2. QED BY <2>1, CompleteIsCounted DEF Unconcluded
  <1>8. Supports("interrupted", {r.execution : r \in ResultsOf(f.sequence)} = 1..Executions,
                 \A r \in ResultsOf(f.sequence) : r.passed)
    BY <1>7 DEF Supports
  <1>9. ExplainedBy(g, ResultsOf(f.sequence))
    BY <1>3, <1>5, <1>6, <1>8 DEF ExplainedBy
  <1>10. QED BY <1>1, <1>9

LEMMA RetriesFollow ==
  ASSUME RecordsInv, Cardinality(results) <= Window
  PROVE  RetriesAreAnswered
  <1>1. \A f \in facts : ~IsRunning(f) => ExplainedBy(f, ReadBack(f.sequence))
    BY WindowShowsAll DEF RecordsInv, VerdictsAreExplained
  <1>2. QED BY <1>1, RetriesEnd DEF RetriesAreAnswered

\* An operation that is repeated gets the verdict of its attempt, as long as the results
\* of the session are no more than the window reads back (review_verification_result).
THEOREM RetriesGetAnswers ==
  RecordsSpec => [](Cardinality(results) <= Window => RetriesAreAnswered)
  <1>1. RecordsInit => RecordsInv
    BY RecordsInitially
  <1>2. RecordsInv /\ [RecordsNext]_recordVars => RecordsInv'
    BY RecordsStep
  <1>3. RecordsInv => (Cardinality(results) <= Window => RetriesAreAnswered)
    BY RetriesFollow
  <1>4. QED BY <1>1, <1>2, <1>3, PTL DEF RecordsSpec

-----------------------------------------------------------------------------
(* Types, and the answers.                                                 *)

\* A verdict is recorded before it is answered.
VerdictsAreRecorded ==
  /\ command.at \in {"recover", "answer"} =>
       \E f \in facts : f.operation = command.operation /\ ~IsRunning(f)
  /\ \A o \in Operation : answers[o] # "none" =>
       \E f \in facts : f.operation = o /\ ~IsRunning(f) /\ f.status = answers[o]

AnswersInv == RecordsInv /\ RecordsTypeOK /\ VerdictsAreRecorded

\* What a step may do to what is not in the rows.
LEMMA AnswersStand ==
  ASSUME AnswersInv, RecordsInv', facts \subseteq facts', outputs' \subseteq Output,
         session' \in [resume : BOOLEAN, updated : Time], UNCHANGED <<turns, deaths, answers>>,
         command'.at \in {"recover", "answer"} =>
           \E f \in facts' : f.operation = command'.operation /\ ~IsRunning(f)
  PROVE  AnswersInv'
  <1>1. RecordsTypeOK'
    BY DEF AnswersInv, RecordsTypeOK, RecordsInv, RecordTypes
  <1>2. VerdictsAreRecorded'
    BY DEF AnswersInv, VerdictsAreRecorded
  <1>3. QED BY <1>1, <1>2 DEF AnswersInv

LEMMA PublishedIsOutput ==
  ASSUME RecordsInv, NEW of \in {"tools", "check"}, NEW whole \in BOOLEAN
  PROVE  Published(of, whole) \in Output
  <1>1. IsFiniteSet(ResultsOf(command.sequence))
    BY FS_Subset DEF RecordsInv, RecordTypes, ResultsOf
  <1>2. Done \in Nat
    BY <1>1, FS_CardinalityType DEF Done
  <1>3. command.sequence \in Nat
    BY DEF RecordsInv, RecordTypes, Command
  <1>4. QED BY <1>2, <1>3 DEF Published, Output

LEMMA TransitionTyped ==
  ASSUME AnswersInv, NEW resume \in BOOLEAN, NEW point \in Point, Transition(resume, point)
  PROVE  /\ session' \in [resume : BOOLEAN, updated : Time]
         /\ Goto(point) \/ Fail
  <1>1. clock \in Time /\ session \in [resume : BOOLEAN, updated : Time]
    BY DEF AnswersInv, RecordsTypeOK
  <1>2. QED BY <1>1 DEF Transition

LEMMA AnswersStep == AnswersInv /\ [RecordsNext]_recordVars => AnswersInv'
  <1> SUFFICES ASSUME AnswersInv, [RecordsNext]_recordVars PROVE AnswersInv'
    OBVIOUS
  <1>0. RecordsInv /\ RecordsInv'
    BY RecordsStep DEF AnswersInv
  <1>1. /\ outputs \subseteq Output /\ session \in [resume : BOOLEAN, updated : Time]
        /\ command \in Command
    BY DEF AnswersInv, RecordsTypeOK
  <1>2. ASSUME NEW o \in Operation, Call(o) PROVE AnswersInv'
    <2>1. /\ facts \subseteq facts' /\ UNCHANGED <<outputs, session, turns, deaths, answers>>
      BY <1>2 DEF Call, world
    <2>2. command'.at \in {"recover", "answer"} =>
            \E f \in facts' : f.operation = command'.operation /\ ~IsRunning(f)
      <3>1. CASE /\ UNCHANGED facts
                 /\ \E f \in FactsFor(o) : ~IsRunning(f)
                      /\ command' = [NoCommand EXCEPT !.at = "recover", !.operation = o,
                                       !.sequence = f.sequence, !.started = f.started]
        <4>1. command'.operation = o
          BY <3>1 DEF NoCommand
        <4>2. \E f \in facts' : f.operation = o /\ ~IsRunning(f)
          BY <3>1 DEF FactsFor
        <4>3. QED BY <4>1, <4>2
      <3>2. CASE \E f, point : point \in {"interrupt", "mark"}
                      /\ command' = [NoCommand EXCEPT !.at = point, !.operation = o,
                                       !.sequence = f.sequence, !.started = f.started]
        BY <3>2 DEF NoCommand
      <3>3. QED BY <1>2, <3>1, <3>2 DEF Call
    <2>3. QED BY <1>0, <1>1, <2>1, <2>2, AnswersStand
  <1>3. CASE Mark \/ Recover
    <2>1. /\ UNCHANGED <<facts, outputs, turns, deaths, answers>>
          /\ command.at \in {"mark", "recover"}
      BY <1>3 DEF Mark, Recover, At, world, tables
    <2>2. {"capture", "answer"} \subseteq Point
      BY DEF Point, Attempting
    <2>3. CASE Mark
      <3>1. session' \in [resume : BOOLEAN, updated : Time] /\ (Goto("capture") \/ Fail)
        BY <2>2, <2>3, TransitionTyped DEF Mark
      <3>2. command'.at \in {"capture", "idle"}
        BY <1>1, <3>1, FailFollows DEF Goto, Command
      <3>3. QED BY <1>0, <1>1, <2>1, <3>1, <3>2, AnswersStand
    <2>4. CASE Recover
      <3>1. session' \in [resume : BOOLEAN, updated : Time] /\ (Goto("answer") \/ Fail)
        BY <1>1, <2>2, <2>4, TransitionTyped DEF Recover
      <3>2. command'.at = "idle" \/ command'.operation = command.operation
        BY <1>1, <3>1, FailFollows DEF Goto, Command
      <3>3. command.at = "recover"
        BY <2>4 DEF Recover, At
      <3>4. command'.at \in {"recover", "answer"} =>
              \E f \in facts' : f.operation = command'.operation /\ ~IsRunning(f)
        BY <2>1, <3>2, <3>3 DEF AnswersInv, VerdictsAreRecorded
      <3>5. QED BY <1>0, <1>1, <2>1, <3>1, <3>4, AnswersStand
    <2>5. QED BY <1>3, <2>3, <2>4
  <1>4. CASE Capture \/ Spawn \/ \E passed \in BOOLEAN : Wait(passed)
    <2>1. UNCHANGED <<facts, session, turns, deaths, answers>>
      BY <1>4 DEF Capture, Spawn, Wait, At, world, tables
    <2>2. outputs' \subseteq Output
      <3>1. \A of \in {"tools", "check"} : Published(of, TRUE) \in Output
        BY <1>0, PublishedIsOutput
      <3>2. QED BY <1>1, <1>4, <3>1 DEF Capture, Spawn, Wait, tables
    <2>3. command'.at \notin {"recover", "answer"}
      BY <1>1, <1>4 DEF Capture, Spawn, Wait, Goto, Command
    <2>4. QED BY <1>0, <1>1, <2>1, <2>2, <2>3, AnswersStand
  <1>5. CASE AppendEnvironment \/ AppendResult
    <2>1. UNCHANGED <<facts, session, outputs, turns, deaths, answers>>
      BY <1>5 DEF AppendEnvironment, AppendResult, At, world, tables
    <2>2. command'.at \notin {"recover", "answer"}
      BY <1>1, <1>5, FailFollows DEF AppendEnvironment, AppendResult, Goto, Command
    <2>3. QED BY <1>0, <1>1, <2>1, <2>2, AnswersStand
  <1>6. CASE Conclude \/ Interrupt
    <2>1. UNCHANGED <<session, outputs, turns, deaths, answers>>
      BY <1>6 DEF Conclude, Interrupt, At, world
    <2>2. PICK verdict \in AttemptVerdict : Terminate(verdict)
      BY <1>6 DEF Conclude, Interrupt, AttemptVerdict
    <2>3. CASE Fail /\ UNCHANGED facts
      <3>1. command'.at \notin {"recover", "answer"}
        BY <2>3, FailFollows
      <3>2. QED BY <1>0, <1>1, <2>1, <2>3, <3>1, AnswersStand
    <2>4. CASE ~(Fail /\ UNCHANGED facts)
      <3>1. PICK f : /\ f = [sequence |-> command.sequence, operation |-> command.operation,
                            status |-> verdict, started |-> command.started,
                            recorded |-> clock]
                     /\ facts' = facts \cup {f}
                     /\ command' = [NoCommand EXCEPT !.at = "recover",
                          !.operation = f.operation, !.sequence = f.sequence]
        BY <2>2, <2>4 DEF Terminate
      <3>2. command'.operation = f.operation
        BY <3>1 DEF NoCommand
      <3>3. f \in facts' /\ ~IsRunning(f)
        BY <3>1 DEF IsRunning, AttemptVerdict
      <3>4. QED BY <1>0, <1>1, <2>1, <3>1, <3>2, <3>3, AnswersStand
    <2>5. QED BY <2>3, <2>4
  <1>7. CASE Answer
    <2>1. PICK o : o = command.operation
      OBVIOUS
    <2>2. PICK f : f = TerminalFact(o)
      OBVIOUS
    <2>3. f \in FactsFor(o) /\ ~IsRunning(f)
      BY <1>7, <2>1, <2>2 DEF Answer, At, AnswersInv, VerdictsAreRecorded, TerminalFact, FactsFor
    <2>4. f \in facts /\ f \in Fact /\ f.operation = o
      BY <2>3 DEF FactsFor, AnswersInv, RecordsTypeOK
    <2>5. o \in Operation /\ f.status \in AttemptVerdict
      BY <2>3, <2>4 DEF Fact, IsRunning
    <2>6. /\ UNCHANGED <<facts, environments, results, outputs, session, turns, deaths>>
          /\ answers' = answers \/ answers' = [answers EXCEPT ![o] = f.status]
      BY <1>7, <2>1, <2>2, <2>4 DEF Answer, At, world, tables
    <2>7. command'.at = "idle"
      BY <1>7, FailFollows DEF Answer
    <2>8. answers \in [Operation -> AttemptVerdict \cup {"none"}]
      BY DEF AnswersInv, RecordsTypeOK
    <2>9. answers' \in [Operation -> AttemptVerdict \cup {"none"}]
      BY <2>5, <2>6, <2>8
    <2>10. RecordsTypeOK'
      BY <1>0, <2>6, <2>9 DEF AnswersInv, RecordsTypeOK, RecordsInv, RecordTypes
    <2>11. VerdictsAreRecorded'
      BY <2>3, <2>4, <2>5, <2>6, <2>7, <2>8 DEF AnswersInv, VerdictsAreRecorded
    <2>12. QED BY <1>0, <2>10, <2>11 DEF AnswersInv
  <1>8. CASE Tick \/ TurnBack \/ Die \/ UNCHANGED recordVars
    <2>1. /\ UNCHANGED <<facts, session, answers>>
          /\ command' = NoCommand \/ command' = command
      BY <1>8 DEF Tick, TurnBack, Die, tables, recordVars
    <2>2. turns' \in 0..MaxTurns /\ deaths' \in 0..MaxDeaths
      <3>1. turns \in 0..MaxTurns /\ deaths \in 0..MaxDeaths
        BY DEF AnswersInv, RecordsTypeOK
      <3>2. MaxTurns \in Nat /\ MaxDeaths \in Nat
        BY RecordsAssumption
      <3>3. turns' = turns \/ (turns < MaxTurns /\ turns' = turns + 1)
        BY <1>8 DEF Tick, TurnBack, Die, recordVars
      <3>4. deaths' = deaths \/ (deaths < MaxDeaths /\ deaths' = deaths + 1)
        BY <1>8 DEF Tick, TurnBack, Die, recordVars
      <3>5. QED BY <3>1, <3>2, <3>3, <3>4
    <2>3. outputs' \subseteq Output
      <3>1. \A of \in {"tools", "check"} : Published(of, FALSE) \in Output
        BY <1>0, PublishedIsOutput
      <3>2. QED BY <1>1, <1>8, <3>1 DEF Tick, TurnBack, Die, tables, recordVars
    <2>4. RecordsTypeOK'
      BY <1>0, <2>1, <2>2, <2>3 DEF AnswersInv, RecordsTypeOK, RecordsInv, RecordTypes
    <2>5. NoCommand.at = "idle"
      BY DEF NoCommand
    <2>6. VerdictsAreRecorded'
      BY <2>1, <2>5 DEF AnswersInv, VerdictsAreRecorded
    <2>7. QED BY <1>0, <2>4, <2>6 DEF AnswersInv
  <1>9. QED BY <1>2, <1>3, <1>4, <1>5, <1>6, <1>7, <1>8 DEF RecordsNext, Step

LEMMA AnswersInitially == RecordsInit => AnswersInv
  <1> SUFFICES ASSUME RecordsInit PROVE AnswersInv
    OBVIOUS
  <1>1. NoCommand.at = "idle"
    BY DEF NoCommand
  <1>2. VerdictsAreRecorded
    BY <1>1 DEF RecordsInit, VerdictsAreRecorded
  <1>3. RecordsInv
    BY RecordsInitially
  <1>4. 0 \in Time /\ 0 \in 0..MaxTurns /\ 0 \in 0..MaxDeaths
    BY RecordsAssumption DEF Time
  <1>5. RecordsTypeOK
    BY <1>3, <1>4 DEF RecordsInit, RecordsTypeOK, RecordsInv, RecordTypes
  <1>6. QED BY <1>2, <1>3, <1>5 DEF AnswersInv

\* The rows, the files and the answers of a review session have their types, and what an
\* operation is answered is the verdict recorded for it (review_verification_result).
THEOREM AnswersAreVerdicts == RecordsSpec => [](RecordsTypeOK /\ VerdictsAreRecorded)
  <1>1. RecordsInit => AnswersInv
    BY AnswersInitially
  <1>2. AnswersInv /\ [RecordsNext]_recordVars => AnswersInv'
    BY AnswersStep
  <1>3. AnswersInv => RecordsTypeOK /\ VerdictsAreRecorded
    BY DEF AnswersInv
  <1>4. QED BY <1>1, <1>2, <1>3, PTL DEF RecordsSpec

=============================================================================
