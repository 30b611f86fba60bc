------------------------------- MODULE Replay -------------------------------
(***************************************************************************)
(* Restoring the aggregate of Supervisor from its snapshot                  *)
(* (supervisor.rs, from_snapshot): the structural validation of the state,  *)
(* and the causal replay, which folds the log of accepted messages through  *)
(* a second implementation of every message and compares where it ends with *)
(* the state.  `past` is that fold, kept as the log grows; replacements of  *)
(* actors, presence and the life of teams leave no message in the log.      *)
(*                                                                         *)
(* A store restores what a command made before it commits it: a command     *)
(* whose result cannot be restored is refused and never becomes durable.    *)
(* `Refused` names the calls that the aggregate accepts and its replay does *)
(* not; the invariant says that there are no others.                        *)
(***************************************************************************)
EXTENDS Supervisor

CONSTANT Consultation   \* consultation ids

ASSUME ConsultationAssumption == Consultation \cap {None} = {}

VARIABLES
  past,       \* the fold of the replay over the accepted messages
  consulted   \* consultations in the mailbox: who asked which team

replayVars == <<vars, past, consulted>>

ReplayInit ==
  /\ Init
  /\ consulted = [c \in Consultation |-> None]
  /\ past = [ok |-> TRUE, request |-> request, run |-> run, handoffs |-> {},
             decided |-> {}, asked |-> consulted,
             epochs |-> [a \in Actor |-> 0], teams |-> [t \in Team |-> 0],
             last |-> 1, holder |-> [n \in 1..MaxPrimaryEpoch |-> None]]

-----------------------------------------------------------------------------
(***************************************************************************)
(* The fences of the log (authorize_history, validate_history_team_fence).  *)
(***************************************************************************)
IsPrimary(e) == e.sender.id \in Primary

InOrder(e) ==
  /\ e.primaryEpoch \in past.last..primaryEpoch
  /\ e.sender.epoch \in past.epochs[e.sender.id]..actor[e.sender.id].epoch
  /\ e.teamEpoch \leq team[e.team].epoch
  /\ IsPrimary(e) => past.holder[e.primaryEpoch] \in {None, e.sender.id}
  /\ ~IsPrimary(e) =>
       e.team = HomeTeam[e.sender.id] /\ past.teams[e.team] \leq e.teamEpoch

Seen(e, p) ==
  [p EXCEPT !.last = e.primaryEpoch,
            !.epochs[e.sender.id] = e.sender.epoch,
            !.teams[e.team] = IF IsPrimary(e) THEN @ ELSE e.teamEpoch,
            !.holder[e.primaryEpoch] = IF IsPrimary(e) THEN e.sender.id ELSE @]

\* The message enters the log: the fold takes it, or the replay is lost.
Logged(e, valid, next) ==
  past' = IF InOrder(e) /\ valid THEN Seen(e, next)
          ELSE [past EXCEPT !.ok = FALSE]

\* request_context, of the replayed request.
Speaks(e) ==
  LET q == past.request[e.request] IN
  /\ q # None
  /\ q.team = e.team
  /\ BlocksTeamClose(q.status) \/ e.teamEpoch = q.teamEpoch

\* ensure_assignment: a newer assignment than the last one heard of is taken
\* from the message, the same one must be the same actor's.
Assigned(e) ==
  LET known == past.request[e.request].assignment IN
  /\ e.assignmentEpoch \geq known.epoch
  /\ e.assignmentEpoch = known.epoch => known.actor.id = e.sender.id
Heard(e) ==
  LET held == [actor |-> e.sender, epoch |-> e.assignmentEpoch] IN
  [past EXCEPT !.request[e.request].assignment = held,
               !.run[e.request].assignment = held]

Steps(e, event) ==
  /\ past.request[e.request].status \in RequestFrom[event]
  /\ past.run[e.request].status \in RunFrom[event]
Stepped(p, e, event) ==
  [p EXCEPT !.request[e.request].status = RequestTo[event],
            !.run[e.request].status = RunTo[event]]

Pinned(p, e) ==
  [p EXCEPT !.request[e.request].teamEpoch = e.teamEpoch,
            !.run[e.request].teamEpoch = e.teamEpoch]
NoOffers(p, e) ==
  [p EXCEPT !.handoffs = {h \in @ : h.request # e.request}]

-----------------------------------------------------------------------------
(***************************************************************************)
(* What the aggregate accepts and the replay does not.                     *)
(***************************************************************************)
\* The team was replaced under accepted work: the log still has it in the
\* generation of its acceptance and takes nothing addressed to the next.
SettledMoved(e) ==
  /\ ~BlocksTeamClose(request[e.request].status)
  /\ past.request[e.request].teamEpoch # e.teamEpoch

\* The work ends before its replaced executor's next generation was heard of:
\* the assignment of terminal work is compared as the log has it.
EndsUnheard(e) ==
  past.request[e.request].assignment # request[e.request].assignment

\* A replacement dropped the offer, the log keeps it.
OfferStands(e, h) ==
  \E p \in past.handoffs : p.request = e.request \/ p.id = h

\* A consultation is answered once more.
AnsweredBefore(c) == past.asked[c] = None

\* A rejected candidate is rejected once more: one rejection too many for the
\* length of its history.
RejectedBefore(e) == request[e.request].status = "ChangesRequested"

-----------------------------------------------------------------------------
(***************************************************************************)
(* The messages of the Primary, live and replayed.                         *)
(***************************************************************************)
Fresh(e, a) ==
  LET held == [actor |-> Ref(a), epoch |-> 1] IN
  [past EXCEPT
     !.request[e.request] =
       [status |-> "Assigned", team |-> e.team, teamEpoch |-> e.teamEpoch,
        assignment |-> held, candidate |-> None, history |-> <<>>,
        rejections |-> 0, decision |-> None, authorization |-> None],
     !.run[e.request] =
       [status |-> "Active", team |-> e.team, teamEpoch |-> e.teamEpoch,
        assignment |-> held]]

LogCreate(e) ==
  \E a \in Executor :
    /\ CreateRequest(e, a)
    /\ Logged(e, past.request[e.request] = None /\ HomeTeam[a] = e.team, Fresh(e, a))

\* review: a fresh decision about the replayed candidate.
Reviewed(e, d, c, verdict) ==
  [Stepped(past, e, verdict) EXCEPT
     !.decided = @ \cup {d},
     !.request[e.request].decision = [id |-> d, verdict |-> verdict, candidate |-> c],
     !.request[e.request].authorization = None]
Reviewable(e, d, c, verdict) ==
  /\ Speaks(e) /\ d \notin past.decided
  /\ past.request[e.request].candidate = c
  /\ Steps(e, verdict)

LogReject(e, d, c) ==
  /\ Reject(e, d, c)
  /\ ~RejectedBefore(e)
  /\ Logged(e, Reviewable(e, d, c, "Reject"),
       [Reviewed(e, d, c, "Reject") EXCEPT !.request[e.request].rejections = @ + 1])

LogAccept(e, d, c) ==
  /\ AcceptCandidate(e, d, c)
  /\ ~SettledMoved(e)
  /\ Logged(e, Reviewable(e, d, c, "Accept"),
            NoOffers(Pinned(Reviewed(e, d, c, "Accept"), e), e))

DecidedOn(e, d, c, verdict) ==
  LET q == past.request[e.request] IN
  /\ q.candidate = c /\ q.decision # None
  /\ q.decision.id = d /\ q.decision.verdict = verdict

\* A fix request changes nothing.
LogFix(e, d, c) ==
  LET q == request[e.request] IN
  /\ Context(e)
  /\ q.status = "ChangesRequested" /\ q.candidate = c
  /\ q.decision.id = d /\ q.decision.verdict = "Reject"
  /\ Logged(e, Speaks(e) /\ DecidedOn(e, d, c, "Reject"), past)
  /\ UNCHANGED work

LogAuthorize(e, d, c) ==
  /\ Authorize(e, d, c)
  /\ ~SettledMoved(e)
  /\ Logged(e, Speaks(e) /\ DecidedOn(e, d, c, "Accept") /\ Steps(e, "Authorize"),
       [Stepped(past, e, "Authorize") EXCEPT
          !.request[e.request].authorization = [id |-> d, candidate |-> c]])

LogComplete(e, d, c) ==
  /\ Complete(e, d, c)
  /\ ~SettledMoved(e) /\ ~EndsUnheard(e)
  /\ LET q == past.request[e.request] IN
     Logged(e, /\ Speaks(e) /\ q.candidate = c /\ Steps(e, "Complete")
               /\ q.authorization # None /\ q.authorization.id = d,
            Stepped(past, e, "Complete"))

LogCancel(e) ==
  /\ Cancel(e)
  /\ ~SettledMoved(e) /\ ~EndsUnheard(e)
  /\ Logged(e, Speaks(e) /\ Steps(e, "Cancel"),
            NoOffers(Pinned(Stepped(past, e, "Cancel"), e), e))

LogRunControl(e) ==
  \/ /\ PauseRun(e)
     /\ Logged(e, Speaks(e) /\ past.run[e.request].status \in RunFrom.Pause,
               [past EXCEPT !.run[e.request].status = RunTo.Pause])
  \/ /\ ResumeRun(e)
     /\ Logged(e, Speaks(e) /\ Steps(e, "Start"), Stepped(past, e, "Start"))

PrimaryLogs(e) ==
  \/ LogCreate(e)
  \/ \E d \in DecisionId \ decided, c \in Candidate :
       LogReject(e, d, c) \/ LogAccept(e, d, c)
  \/ \E d \in decided, c \in Candidate :
       LogFix(e, d, c) \/ LogAuthorize(e, d, c) \/ LogComplete(e, d, c)
  \/ LogCancel(e)
  \/ LogRunControl(e)

-----------------------------------------------------------------------------
(***************************************************************************)
(* The messages of the executor.                                           *)
(***************************************************************************)
LogWork(e) ==
  \/ /\ Progress(e)
     /\ Logged(e, Speaks(e) /\ Assigned(e) /\ Steps(e, "Start"),
               Stepped(Heard(e), e, "Start"))
  \/ /\ Blocker(e)
     /\ Logged(e, Speaks(e) /\ Assigned(e) /\ Steps(e, "Block"),
               Stepped(Heard(e), e, "Block"))

\* The result of a test of the candidate changes nothing, but is heard.
LogQaResult(e) ==
  LET c == request[e.request].candidate IN
  /\ c # None
  /\ BlocksTeamClose(request[e.request].status) \/ ~SettledMoved(e)
  /\ Logged(e, Speaks(e) /\ Assigned(e) /\ past.request[e.request].candidate = c,
            Heard(e))
  /\ UNCHANGED work

\* submit_candidate
Proposable(e, c) ==
  LET q == past.request[e.request] IN
  IF AwaitsRework(q) THEN c.sha # q.candidate.sha ELSE q.candidate \in {None, c}
Proposed(e, c) ==
  LET isNew == past.request[e.request].candidate # c IN
  [Stepped(Heard(e), e, "Submit") EXCEPT
     !.request[e.request].history = IF isNew THEN Append(@, c) ELSE @,
     !.request[e.request].candidate = c,
     !.request[e.request].decision = None,
     !.request[e.request].authorization = None,
     !.handoffs = {h \in @ : h.request = e.request => h.candidate \in {None, c}}]

LogSubmit(e, c) ==
  /\ SubmitCandidate(e, c)
  /\ Logged(e, Speaks(e) /\ Assigned(e) /\ Proposable(e, c) /\ Steps(e, "Submit"),
            Proposed(e, c))

LogOffer(e, h, to, c) ==
  /\ OfferHandoff(e, h, to, c)
  /\ ~OfferStands(e, h)
  /\ Logged(e,
       /\ Speaks(e) /\ Assigned(e)
       /\ c # None => past.request[e.request].candidate = c
       /\ \A p \in past.handoffs : p.id # h /\ p.request # e.request,
       [Heard(e) EXCEPT !.handoffs = @ \cup
          {[id |-> h, request |-> e.request, from |-> e.team, to |-> to,
            candidate |-> c, by |-> e.sender, epoch |-> e.assignmentEpoch]}])

AssigneeLogs(e) ==
  \/ LogWork(e)
  \/ LogQaResult(e)
  \/ \E c \in Candidate : LogSubmit(e, c)
  \/ \E h \in HandoffId, to \in Team, c \in Candidate \cup {None} :
       LogOffer(e, h, to, c)

\* accept_handoff: the offer and the assignment are those of the log.
Taken(w, e, h) ==
  [w EXCEPT !.team = e.team, !.teamEpoch = e.teamEpoch,
            !.assignment = [actor |-> e.sender, epoch |-> h.epoch + 1]]
LogAcceptance(e, h) ==
  /\ AcceptHandoff(e, h)
  /\ LET q == past.request[e.request] IN
     Logged(e, /\ h \in past.handoffs /\ q # None
               /\ q.team = h.from /\ e.team = h.to
               /\ q.assignment = [actor |-> h.by, epoch |-> h.epoch]
               /\ e.assignmentEpoch = h.epoch,
       [past EXCEPT !.request[e.request] = Taken(@, e, h),
                    !.run[e.request] = Taken(@, e, h),
                    !.handoffs = {p \in @ : p.id # h.id}])

\* A consultation has no request; an answer goes back to whoever asked.
Healthy(a) ==
  /\ actor[a].status = "Healthy"
  /\ a \in Primary => activePrimary = a
  /\ a \in Executor => team[HomeTeam[a]].status \notin {"Paused", "Closed"}
Scope(a, t) ==
  [sender |-> Ref(a), primaryEpoch |-> primaryEpoch, team |-> t,
   teamEpoch |-> team[t].epoch]

Consult(a, c, to) ==
  /\ consulted[c] = None /\ Healthy(a)
  /\ a \in Executor => HomeTeam[a] # to
  /\ team[to].status = "Active"
  /\ consulted' = [consulted EXCEPT ![c] = [by |-> a, to |-> to]]
  /\ Logged(Scope(a, IF a \in Executor THEN HomeTeam[a] ELSE to),
            past.asked[c] = None,
            [past EXCEPT !.asked[c] = [by |-> a, to |-> to]])
  /\ UNCHANGED <<lease, registry, work, assignmentUses>>
  /\ leaseUses' = IF a \in Primary
       THEN leaseUses \cup {[sender |-> Ref(a), epoch |-> primaryEpoch]}
       ELSE leaseUses

Respond(a, c) ==
  /\ consulted[c] # None /\ Healthy(a)
  /\ a \in Executor /\ HomeTeam[a] = consulted[c].to
  /\ ~AnsweredBefore(c)
  /\ Logged(Scope(a, HomeTeam[a]),
            past.asked[c] # None /\ past.asked[c] = consulted[c],
            [past EXCEPT !.asked[c] = None])
  /\ UNCHANGED <<vars, consulted>>

-----------------------------------------------------------------------------
Unlogged == UNCHANGED <<past, consulted>>

\* The mutation that creates a team registers its actors with it.
TeamCreated(t) ==
  LET members == {a \in Executor : HomeTeam[a] = t} IN
  /\ team[t].status \in {"Absent", "Closed"}
  /\ team[t].epoch < MaxTeamEpoch
  /\ \A a \in members : HasGeneration(a)
  /\ team' = [team EXCEPT ![t] = [status |-> "Active", epoch |-> @.epoch + 1,
                                  actors |-> members]]
  /\ actor' = [a \in Actor |-> IF a \in members THEN NextGeneration(a) ELSE actor[a]]
  /\ UNCHANGED <<lease, work, uses>>

Durable ==
  \/ \E p \in Primary : ActivatePrimary(p)
  \/ Presence
  \/ \E t \in Team : TeamCreated(t) \/ CloseTeam(t)
       \/ \E s \in {"Active", "Paused", "Closing"} : SetTeamStatus(t, s)
  \/ \E a \in Executor : ReplaceImplementation(a)

\* The assignment epoch is the assignee's; without one the Primary can say anything.
Message(e) ==
  /\ IsPrimary(e) => e.assignmentEpoch = None
  /\ Authorized(e)
  /\ \/ FromPrimary(e) /\ PrimaryLogs(e)
     \/ FromAssignee(e) /\ AssigneeLogs(e)
     \/ \E h \in handoffs : LogAcceptance(e, h)
  /\ UNCHANGED consulted

ReplayNext ==
  \/ Durable /\ Unlogged
  \/ \E e \in Envelope : Message(e)
  \/ \E a \in Actor, c \in Consultation, to \in Team : Consult(a, c, to)
  \/ \E a \in Actor, c \in Consultation : Respond(a, c)

ReplaySpec == ReplayInit /\ [][ReplayNext]_replayVars

-----------------------------------------------------------------------------
(***************************************************************************)
(* The end of the replay: unfinished work takes its assignment and the      *)
(* generation of its team from the state, and then all must be equal.       *)
(***************************************************************************)
Renewed(w, now) ==
  [w EXCEPT !.assignment = now.assignment,
            !.teamEpoch = IF w.team = now.team /\ @ \leq now.teamEpoch
                          THEN now.teamEpoch ELSE @]

Uninstrumented(q) == q.history = <<>> /\ q.rejections = 0
Ended(r) ==
  LET q == past.request[r] IN
  [IF IsTerminal(request[r].status) THEN q ELSE Renewed(q, request[r])
   EXCEPT !.history = IF Uninstrumented(request[r]) THEN <<>> ELSE @,
          !.rejections = IF Uninstrumented(request[r]) THEN 0 ELSE @]
EndedRun(r) ==
  IF IsTerminal(request[r].status) THEN past.run[r] ELSE Renewed(past.run[r], run[r])

EndedHandoffs ==
  {h \in past.handoffs :
     request[h.request].assignment = [actor |-> h.by, epoch |-> h.epoch]}

ReplayAgrees ==
  /\ past.ok
  /\ \A u \in leaseUses : u.epoch = primaryEpoch => activePrimary = u.sender.id
  /\ \A r \in Request : past.request[r] = None <=> request[r] = None
  /\ \A r \in Created : Ended(r) = request[r] /\ EndedRun(r) = run[r]
  /\ EndedHandoffs = handoffs

-----------------------------------------------------------------------------
(***************************************************************************)
(* The structural validation.                                              *)
(***************************************************************************)
ValidPrimary ==
  /\ activePrimary # None => actor[activePrimary].status = "Healthy"
  /\ \A p \in Primary : actor[p].status = "Healthy" => activePrimary = p

ValidLinks ==
  /\ \A t \in Team : \A a \in team[t].actors :
       HomeTeam[a] = t /\ actor[a].status # "Absent"
  /\ \A a \in Executor :
       actor[a].status # "Absent" => a \in team[HomeTeam[a]].actors

ValidAssignment(q) ==
  LET held == q.assignment.actor IN
  /\ HomeTeam[held.id] = q.team
  /\ \/ IsCurrent(held)
     \/ /\ q.teamEpoch < team[q.team].epoch
        /\ ~BlocksTeamClose(q.status)
        /\ held.epoch \leq actor[held.id].epoch

ValidCandidate(q) ==
  IF q.candidate = None
  THEN /\ q.decision = None /\ q.authorization = None /\ Uninstrumented(q)
       /\ q.status \in {"Assigned", "InProgress", "Blocked", "Cancelled"}
  ELSE /\ \A c \in {q.candidate} \cup {q.history[i] : i \in DOMAIN q.history} :
            c.by.epoch \leq actor[c.by.id].epoch
       /\ Uninstrumented(q) \/
            /\ q.history # <<>> /\ q.history[Len(q.history)] = q.candidate
            /\ \A i \in 2..Len(q.history) : q.history[i].sha # q.history[i - 1].sha
            /\ q.rejections = Len(q.history) -
                 (IF q.decision # None /\ q.decision.verdict = "Reject" THEN 0 ELSE 1)

Shape(q) ==
  LET judged(v) == q.decision # None /\ q.decision.verdict = v
      unauthorized == q.authorization = None
  IN [CandidateReady |-> q.decision = None /\ unauthorized,
      ChangesRequested |-> judged("Reject") /\ unauthorized,
      Accepted |-> judged("Accept") /\ unauthorized,
      IntegrationAuthorized |-> judged("Accept") /\ ~unauthorized,
      Completed |-> judged("Accept") /\ ~unauthorized]
ValidReview(q) ==
  /\ q.decision # None => q.decision.candidate = q.candidate
  /\ q.authorization # None =>
       /\ q.authorization.candidate = q.candidate
       /\ q.decision # None /\ q.decision.verdict = "Accept"
       /\ q.decision.id = q.authorization.id
  /\ q.status \in DOMAIN Shape(q) => Shape(q)[q.status]

ValidRequest(q) ==
  /\ q.teamEpoch \leq team[q.team].epoch
  /\ BlocksTeamClose(q.status) => q.teamEpoch = team[q.team].epoch
  /\ ValidAssignment(q) /\ ValidCandidate(q) /\ ValidReview(q)

ValidRun(r) ==
  /\ run[r] # None /\ Mirrors(run[r], request[r])
  /\ run[r].teamEpoch \leq team[run[r].team].epoch

ValidHandoff(h) ==
  LET q == request[h.request] IN
  /\ q # None /\ BlocksTeamClose(q.status)
  /\ q.team = h.from /\ team[h.to].status # "Absent"
  /\ q.assignment = [actor |-> h.by, epoch |-> h.epoch]
  /\ IsCurrent(h.by) /\ h.candidate \in {None, q.candidate}
  /\ \A p \in handoffs : p.request = h.request \/ p.id = h.id => p = h

StateIsValid ==
  /\ ValidPrimary /\ ValidLinks
  /\ \A r \in Created : ValidRequest(request[r]) /\ ValidRun(r)
  /\ \A q, r \in Created : LET d == request[q].decision IN
       d # None /\ request[r].decision # None /\ d.id = request[r].decision.id => q = r
  /\ \A h \in handoffs : ValidHandoff(h)

-----------------------------------------------------------------------------
\* from_snapshot accepts every state the aggregate reaches by calls other than
\* those named above, though the log has no word of replacements, presence and
\* teams: the replay never refuses a message the aggregate took, and it ends,
\* request for request and offer for offer, where the aggregate is.
Restores == StateIsValid /\ ReplayAgrees

\* request_blocks_team_close (model.rs:486) says of accepted and authorized work
\* that it no longer needs its implementation team: whatever becomes of the team,
\* there is a message under which the present Primary can authorize, complete or
\* cancel it, that the aggregate (request_context) and the replay both accept.
SettledWorkCanEnd ==
  \A r \in Created :
    activePrimary # None /\ request[r].status \in {"Accepted", "IntegrationAuthorized"} =>
      \E e \in Envelope :
        e.request = r /\ IsPrimary(e) /\ Authorized(e) /\ Context(e) /\ Speaks(e)
=============================================================================
