------------------------------ MODULE Mailbox ------------------------------
(***************************************************************************)
(* The durable mailbox of the aggregate (agsv-core/src/supervisor.rs): who  *)
(* must acknowledge a message is frozen when the message is accepted, and   *)
(* every later change of generation or close of the team decides what       *)
(* becomes of those who have not.  One team, its Primary and its requests.  *)
(*                                                                         *)
(* Requests are told apart only by what the mailbox asks of them: whether   *)
(* they block closing the team, are settled, or terminal.                   *)
(***************************************************************************)
EXTENDS Naturals, FiniteSets

CONSTANTS Members,      \* the actors of the team
          Requests,     \* request ids
          Messages,     \* message ids
          LastMessage,  \* the id kept for the message that ends a request
          NoRequest,
          MaxTeamEpoch  \* bound on the generations of the team

ASSUME MailboxAssumption ==
  /\ IsFiniteSet(Members) /\ Members \cap {"Team", "Primary"} = {}
  /\ LastMessage \in [Requests -> Messages]
  /\ NoRequest \notin Requests
  /\ MaxTeamEpoch \in Nat \ {0}

VARIABLES team, member,
          primary,      \* whether a Primary is active
          request, mailbox
vars == <<team, member, primary, request, mailbox>>

Kinds     == {"Ask", "Fix", "Directive", "Notice", "Report", "Outcome", "Answer"}
Obsolete  == {"Report", "Outcome", "Answer"}   \* team_close_disposition
Lifecycle == {"Ask", "Fix"}

\* A message that was not accepted.
NoDelivery == [kind |-> "None"]

\* A frozen recipient: the logical Primary, or one generation of a member in
\* one generation of the team.
ThePrimary == [actor |-> "Primary", gen |-> 0, team |-> 0]
Rec(a)     == [actor |-> a, gen |-> member[a].gen, team |-> team.epoch]
IsCurrent(x) == x.gen = member[x.actor].gen /\ x.team = team.epoch
OfMembers(need) == need \ {ThePrimary}

Accepted == {m \in Messages : mailbox[m] # NoDelivery}
Waived(d) == DOMAIN d.waived
Unread(d) == d.need \ (d.acks \cup Waived(d))

Blocking(r) == r # NoRequest /\ request[r].st = "Blocking"

\* message_requires_team_action
RequiresAction(kind, r) ==
  \/ kind \in {"Directive", "Notice"}
  \/ kind \in Lifecycle /\ Blocking(r)

\* team_close_blocking_message_ids_except_request_lifecycle
BlockingMessages(deferred) ==
  {m \in Accepted : LET d == mailbox[m] IN
     /\ ~d.retired /\ RequiresAction(d.kind, d.req)
     /\ ~(d.kind \in Lifecycle /\ d.req \in deferred)
     /\ OfMembers(Unread(d)) # {}}

BlockingRequests == {r \in Requests : Blocking(r)}

-----------------------------------------------------------------------------
(* Retirement. *)

Superseded(epoch) == [why |-> "superseded", epoch |-> epoch]
Closed(epoch)     == [why |-> "closed", epoch |-> epoch]

\* retire_fully_acknowledged: everyone answered or was waived, and the request,
\* if there is one, is over or the delivery was waived for someone.
Resolved(d, req) ==
  /\ Unread(d) = {}
  /\ d.req = NoRequest \/ req[d.req].st = "Terminal" \/ Waived(d) # {}

Retired(box, req) ==
  [m \in Messages |->
     IF box[m] = NoDelivery THEN NoDelivery
     ELSE [box[m] EXCEPT !.retired = box[m].retired \/ Resolved(box[m], req)]]

\* Waive the recipients of d that reasons names; who was waived before keeps the
\* old reason.
Waive(d, reasons) ==
  [d EXCEPT !.waived = [x \in DOMAIN d.waived \cup DOMAIN reasons |->
     IF x \in DOMAIN d.waived THEN d.waived[x] ELSE reasons[x]]]

\* replace_implementation: whoever in the team had not answered in the previous
\* team generation is waived, the replaced actor and its teammates alike.
SupersedeGeneration_ReplacedOnly(a) ==
  [m \in Messages |->
     IF mailbox[m] = NoDelivery \/ (mailbox[m] # NoDelivery /\ mailbox[m].retired) THEN mailbox[m]
     ELSE Waive(mailbox[m],
            [x \in {y \in OfMembers(Unread(mailbox[m])) : y.team = team.epoch /\ y.actor = a} |->
               Superseded(team.epoch)])]
SupersedeGeneration(a) ==
  [m \in Messages |->
     IF mailbox[m] = NoDelivery \/ (mailbox[m] # NoDelivery /\ mailbox[m].retired) THEN mailbox[m]
     ELSE Waive(mailbox[m],
            [x \in {y \in OfMembers(Unread(mailbox[m])) : y.team = team.epoch} |->
               Superseded(team.epoch)])]

\* supersede_terminal_team_delivery_history: a closed generation that is created
\* again waives everyone who never answered, and "closed" becomes "superseded".
SupersedeHistory ==
  [m \in Messages |->
     IF mailbox[m] = NoDelivery THEN NoDelivery
     ELSE LET d == mailbox[m]
              xs == {x \in OfMembers(d.need \ d.acks) : x.team <= team.epoch}
          IN [d EXCEPT !.waived = [x \in DOMAIN d.waived \cup xs |-> Superseded(x.team)]]]

\* Why nobody of a closed team answers any more.
ClosedOrSuperseded(xs) ==
  [x \in xs |-> IF x.team = team.epoch THEN Closed(x.team) ELSE Superseded(x.team)]

\* retire_obsolete_team_recipients, in the mutation that closes the team.
RetireObsolete ==
  [m \in Messages |->
     IF mailbox[m] = NoDelivery \/ (mailbox[m] # NoDelivery
          /\ (mailbox[m].retired \/ RequiresAction(mailbox[m].kind, mailbox[m].req)))
     THEN mailbox[m]
     ELSE Waive(mailbox[m], ClosedOrSuperseded(OfMembers(Unread(mailbox[m]))))]

-----------------------------------------------------------------------------
Init ==
  /\ team = [status |-> "Active", epoch |-> 1]
  /\ member = [a \in Members |-> [gen |-> 1, status |-> "Healthy"]]
  /\ primary = TRUE
  /\ request = [r \in Requests |-> [st |-> "None", epoch |-> 0, by |-> ThePrimary]]
  /\ mailbox = [m \in Messages |-> NoDelivery]

(* Accepting a message. *)

\* delivery_recipient_plan: an outcome of work an earlier team generation did
\* goes to the member who did it.
Recipients(kind, target, r) ==
  IF kind \in Obsolete /\ r # NoRequest /\ request[r].epoch < team.epoch
  THEN {[request[r].by EXCEPT !.team = request[r].epoch]}
  ELSE IF target = "Primary" THEN {ThePrimary}
  ELSE IF target = "Team"
  THEN {Rec(a) : a \in {b \in Members :
          \/ kind = "Directive" \/ (kind \in Obsolete /\ team.status = "Closed")
          \/ member[b].status # "Stopped"}}
  ELSE {Rec(target)}

NoWaivers == [x \in {} |-> Closed(0)]

\* initial_undeliverable_recipients, on the request as the message leaves it.
InitialWaivers(kind, r, need) ==
  IF kind \in {"Directive", "Notice"} \/ (kind \in Lifecycle /\ request'[r].st = "Blocking")
  THEN NoWaivers
  ELSE IF r # NoRequest /\ request'[r].epoch < team.epoch /\ request'[r].st # "Blocking"
  THEN [x \in OfMembers(need) |-> Superseded(request'[r].epoch)]
  ELSE IF team.status = "Closed"
  THEN ClosedOrSuperseded(OfMembers(need))
  ELSE NoWaivers

\* A message id that was accepted before is answered from the mailbox: as a
\* duplicate, or as a conflict if anything about it differs.
IsNew_Always(m) == TRUE
IsNew(m) == mailbox[m] = NoDelivery

Deliver(m, kind, target, r) ==
  LET need == Recipients(kind, target, r) IN
  /\ IsNew(m) /\ need # {}
  /\ (\E q \in Requests : m = LastMessage[q]) =>
       r # NoRequest /\ m = LastMessage[r] /\ request'[r].st = "Terminal"
  /\ ~(kind = "Fix" /\ OfMembers(need) # {} /\ team.status \in {"Closing", "Closed"})
  /\ mailbox' = Retired([mailbox EXCEPT ![m] =
       [kind |-> kind, target |-> target, req |-> r, need |-> need, acks |-> {},
        waived |-> InitialWaivers(kind, r, need), retired |-> FALSE]], request')
  /\ UNCHANGED <<team, member, primary>>

\* The Primary asks a member for an implementation.
Ask(m, r, a) ==
  /\ primary /\ team.status = "Active"
  /\ request[r].st = "None" /\ member[a].status = "Healthy"
  /\ request' = [request EXCEPT ![r] = [st |-> "Blocking", epoch |-> team.epoch, by |-> Rec(a)]]
  /\ Deliver(m, "Ask", a, r)

AssigneeTarget(r, target) == target \in {"Team", request[r].by.actor}

\* The Primary asks for fixes, or pauses or resumes the run.
Fix(m, r, target) ==
  /\ primary /\ Blocking(r) /\ AssigneeTarget(r, target)
  /\ UNCHANGED request /\ Deliver(m, "Fix", target, r)

\* A directive, with or without a request.
Directive(m, r, target) ==
  /\ primary /\ team.status \in {"Active", "Paused"}
  /\ r # NoRequest => request[r].st # "None" /\ AssigneeTarget(r, target)
  /\ target \in Members => member[target].status # "Stopped"
  /\ UNCHANGED request /\ Deliver(m, "Directive", target, r)

\* Another team consults this one, reports a conflict or offers a handoff.
Notice(m) ==
  /\ team.status = "Active"
  /\ UNCHANGED request /\ Deliver(m, "Notice", "Team", NoRequest)

\* Another team answers what a member asked it.
Answer(m, a) == UNCHANGED request /\ Deliver(m, "Answer", a, NoRequest)

\* The assignee reports on its work.
Report(m, r) ==
  /\ Blocking(r) /\ team.status \in {"Active", "Closing"}
  /\ LET a == request[r].by.actor IN
       member[a].status = "Healthy" /\ member[a].gen = request[r].by.gen
  /\ UNCHANGED request /\ Deliver(m, "Report", "Primary", r)

\* A review decision, an authorization, a completion or a cancellation.
Outcome(m, r, target, st) ==
  /\ primary /\ request[r].st \in {"Blocking", "Settled"}
  /\ AssigneeTarget(r, target)
  /\ request[r].st = "Settled" => st # "Blocking"
  /\ request' = [request EXCEPT ![r].st = st]
  /\ Deliver(m, "Outcome", target, r)

-----------------------------------------------------------------------------
(* Acknowledging. *)

\* current_recipient_for_actor
Acknowledge(m, a) ==
  /\ m \in Accepted /\ ~mailbox[m].retired /\ member[a].status = "Healthy"
  /\ Rec(a) \in Unread(mailbox[m])
  /\ mailbox' = Retired([mailbox EXCEPT ![m].acks = @ \cup {Rec(a)}], request)
  /\ UNCHANGED <<team, member, primary, request>>

AcknowledgePrimary(m) ==
  /\ m \in Accepted /\ ~mailbox[m].retired /\ primary
  /\ ThePrimary \in Unread(mailbox[m])
  /\ mailbox' = Retired([mailbox EXCEPT ![m].acks = @ \cup {ThePrimary}], request)
  /\ UNCHANGED <<team, member, primary, request>>

-----------------------------------------------------------------------------
(* Generations and the life of the team. *)

\* Every stopped member has a team generation left to be replaced in.
Reserve == team.epoch + Cardinality({a \in Members : member[a].status = "Stopped"})
             < MaxTeamEpoch

SetStatus(a, from, to) ==
  /\ member[a].status \in from
  /\ member' = [member EXCEPT ![a].status = to]
  /\ UNCHANGED <<team, primary, request, mailbox>>

Expire(a)    == SetStatus(a, {"Healthy"}, "Stale")
Heartbeat(a) == SetStatus(a, {"Stale"}, "Healthy")
Stop(a)      == Reserve /\ SetStatus(a, {"Healthy", "Stale"}, "Stopped")

LosePrimary ==
  /\ primary /\ primary' = FALSE
  /\ UNCHANGED <<team, member, request, mailbox>>
ActivatePrimary ==
  /\ ~primary /\ primary' = TRUE
  /\ UNCHANGED <<team, member, request, mailbox>>

\* The work of the team moves to its next generation, the replaced actor's own
\* to its next incarnation.
Replace(a) ==
  /\ team.status = "Active" /\ member[a].status # "Healthy"
  /\ IF member[a].status = "Stopped" THEN team.epoch < MaxTeamEpoch ELSE Reserve
  /\ team' = [team EXCEPT !.epoch = @ + 1]
  /\ member' = [member EXCEPT ![a] = [gen |-> @.gen + 1, status |-> "Healthy"]]
  /\ request' = [r \in Requests |->
       IF request[r].st \notin {"Blocking", "Settled"} THEN request[r]
       ELSE [request[r] EXCEPT !.epoch = team.epoch + 1,
               !.by = IF @.actor = a THEN [@ EXCEPT !.gen = member[a].gen + 1] ELSE @]]
  /\ mailbox' = Retired(SupersedeGeneration(a), request')
  /\ UNCHANGED primary

Pause ==
  /\ team.status = "Active" /\ team' = [team EXCEPT !.status = "Paused"]
  /\ UNCHANGED <<member, primary, request, mailbox>>
Resume ==
  /\ team.status = "Paused" /\ team' = [team EXCEPT !.status = "Active"]
  /\ UNCHANGED <<member, primary, request, mailbox>>

\* team_close: --when-idle waits for requests, never for other messages.
RequestClose_DefersAll(whenIdle) ==
  /\ team.status \in {"Active", "Paused"}
  /\ whenIdle \/ (BlockingRequests = {} /\ BlockingMessages({}) = {})
  /\ team' = [team EXCEPT !.status = "Closing"]
  /\ UNCHANGED <<member, primary, request, mailbox>>
RequestClose(whenIdle) ==
  /\ team.status \in {"Active", "Paused"}
  /\ whenIdle \/ BlockingRequests = {}
  /\ BlockingMessages(IF whenIdle THEN BlockingRequests ELSE {}) = {}
  /\ team' = [team EXCEPT !.status = "Closing"]
  /\ UNCHANGED <<member, primary, request, mailbox>>

\* reconcile_closing_team stops the members of an idle team and then closes it.
Idle == BlockingRequests = {} /\ BlockingMessages({}) = {}

StopForClose(a) ==
  /\ team.status = "Closing" /\ Idle
  /\ SetStatus(a, {"Healthy", "Stale"}, "Stopped")

CloseTeam_Leaves ==
  /\ team.status = "Closing" /\ Idle
  /\ \A a \in Members : member[a].status = "Stopped"
  /\ team' = [team EXCEPT !.status = "Closed"]
  /\ UNCHANGED <<member, primary, request, mailbox>>
CloseTeam ==
  /\ team.status = "Closing" /\ Idle
  /\ \A a \in Members : member[a].status = "Stopped"
  /\ mailbox' = Retired(RetireObsolete, request)
  /\ team' = [team EXCEPT !.status = "Closed"]
  /\ UNCHANGED <<member, primary, request>>

\* A closed team is created again and its members registered again.
Recreate ==
  /\ team.status = "Closed" /\ team.epoch < MaxTeamEpoch
  /\ mailbox' = Retired(SupersedeHistory, request)
  /\ team' = [status |-> "Active", epoch |-> team.epoch + 1]
  /\ member' = [a \in Members |-> [gen |-> member[a].gen + 1, status |-> "Healthy"]]
  /\ UNCHANGED <<primary, request>>

-----------------------------------------------------------------------------
Targets == Members \cup {"Team"}

Send(m) ==
  \/ \E r \in Requests, a \in Members : Ask(m, r, a)
  \/ \E r \in Requests, t \in Targets : Fix(m, r, t)
  \/ \E r \in Requests \cup {NoRequest}, t \in Targets : Directive(m, r, t)
  \/ \E r \in Requests, t \in Targets, st \in {"Blocking", "Settled", "Terminal"} :
       Outcome(m, r, t, st)
  \/ \E r \in Requests : Report(m, r)
  \/ Notice(m)
  \/ \E a \in Members : Answer(m, a)

Next ==
  \/ \E m \in Messages : Send(m) \/ AcknowledgePrimary(m)
                         \/ \E a \in Members : Acknowledge(m, a)
  \/ \E a \in Members : Expire(a) \/ Heartbeat(a) \/ Stop(a) \/ Replace(a) \/ StopForClose(a)
  \/ LosePrimary \/ ActivatePrimary
  \/ Pause \/ Resume \/ CloseTeam \/ Recreate
  \/ \E w \in BOOLEAN : RequestClose(w)

Spec == Init /\ [][Next]_vars

\* Agents and the Primary go on reading their inboxes, live agents heartbeat,
\* reconciliation replaces stopped members and finishes a close, and the Primary
\* ends the requests a closing team still has.
Fairness ==
  /\ SF_vars(\E m \in Messages :
       AcknowledgePrimary(m) \/ \E a \in Members : Acknowledge(m, a))
  /\ \A a \in Members : /\ WF_vars(Heartbeat(a)) /\ WF_vars(Replace(a))
                        /\ WF_vars(StopForClose(a))
  /\ WF_vars(ActivatePrimary) /\ WF_vars(CloseTeam)
  /\ \A r \in Requests : SF_vars(
       \E t \in Targets : Outcome(LastMessage[r], r, t, "Terminal"))

FairSpec == Spec /\ Fairness
-----------------------------------------------------------------------------
Recipient == [actor : Members \cup {"Primary"}, gen : 0 .. 2 * MaxTeamEpoch,
              team : 0 .. MaxTeamEpoch]

TypeOK ==
  /\ team \in [status : {"Active", "Paused", "Closing", "Closed"}, epoch : 1 .. MaxTeamEpoch]
  /\ member \in [Members -> [gen : 1 .. MaxTeamEpoch,
                             status : {"Healthy", "Stale", "Stopped"}]]
  /\ primary \in BOOLEAN
  /\ request \in [Requests -> [st : {"None", "Blocking", "Settled", "Terminal"},
                               epoch : 0 .. MaxTeamEpoch, by : Recipient]]
  /\ \A m \in Accepted : LET d == mailbox[m] IN
       /\ d.kind \in Kinds /\ d.need \subseteq Recipient /\ d.need # {}
       /\ d.acks \subseteq d.need /\ Waived(d) \subseteq d.need

(* What from_snapshot asks of a delivery (restore_deliveries). *)

\* historical_target_matches
InTarget(x, target) == IF x = ThePrimary THEN target = "Primary"
                       ELSE target \in {"Team", x.actor}

\* historical_actor_recipient_is_current_or_resolved: a recipient of an earlier
\* generation has answered or is waived.
CurrentOrResolved(d, x) ==
  /\ x.gen <= member[x.actor].gen /\ x.team <= team.epoch /\ InTarget(x, d.target)
  /\ IsCurrent(x) \/ x \in d.acks \/ x \in Waived(d)

\* validate_historical_directive_recipients: one of an earlier generation of the
\* team, too, and waived for that very generation.
DirectiveRecipients(d) == \A x \in d.need :
  IsCurrent(x) \/ (x.team < team.epoch
                    /\ (x \in d.acks \/ (x \in Waived(d) /\ d.waived[x] = Superseded(x.team))))

\* validate_historical_required_recipients: no generation of an actor is asked in
\* two generations of the team, and a target that is one reader has that one.
RequiredRecipients(d) ==
  /\ \A x, y \in OfMembers(d.need) : x.actor = y.actor /\ x.gen = y.gen => x = y
  /\ d.target # "Team" => Cardinality(d.need) = 1
  /\ \A x \in d.need : IF x = ThePrimary THEN d.target = "Primary" ELSE CurrentOrResolved(d, x)
  /\ d.kind = "Directive" /\ d.target = "Team" => DirectiveRecipients(d)

\* validate_historical_ack, validate_historical_envelope: only recipients answer, and
\* what a message is about is known.
AcknowledgementsRestore(d) == \A x \in d.acks :
  x \in d.need /\ InTarget(x, d.target) /\ (x # ThePrimary => x.gen <= member[x.actor].gen)
ContextRestores(d) == d.req # NoRequest => request[d.req].st # "None"

\* validate_historical_undeliverable_recipients
Truthful(d) == \A x \in Waived(d) :
  /\ x \in OfMembers(d.need) /\ x \notin d.acks /\ d.waived[x].epoch = x.team
  /\ IF d.waived[x].why = "superseded" THEN x.team < team.epoch
     ELSE /\ x.team = team.epoch /\ team.status \in {"Closing", "Closed"}
          /\ ~RequiresAction(d.kind, d.req)

\* restore_deliveries: retired says exactly what the dispositions say.
RetiredExactly(d) == d.retired <=> Resolved(d, request)

DeliveryRestores(d) ==
  /\ RequiredRecipients(d) /\ AcknowledgementsRestore(d) /\ ContextRestores(d)
  /\ Truthful(d) /\ RetiredExactly(d)

\* Whatever was sent, acknowledged, replaced, closed and created again, in
\* whatever order, the mailbox is one that from_snapshot accepts: nobody who can
\* no longer answer is still waited for, nobody is waived for a reason that is
\* not true (any more), and no closed team owes an answer.
MailboxRestores ==
  /\ \A m \in Accepted : DeliveryRestores(mailbox[m])
  /\ team.status = "Closed" => BlockingMessages({}) = {}

\* Once a close was accepted nobody can owe the team's answer to a directive, a
\* consultation or an offer: nothing but its requests can hold the close up.
ClosingOwesNoAction ==
  team.status \in {"Closing", "Closed"} => BlockingMessages(Requests) = {}

\* What was accepted stays: a repeated message neither replaces the delivery nor
\* forgets an answer, and a delivery that was retired is not revived.
AcceptedOnce ==
  [][\A m \in Accepted : LET d == mailbox[m]
                             e == mailbox'[m] IN
       /\ e # NoDelivery /\ e.kind = d.kind /\ e.need = d.need
       /\ d.acks \subseteq e.acks /\ Waived(d) \subseteq Waived(e)
       /\ d.retired => e.retired]_vars

Waits(m) == m \in Accepted /\ Unread(mailbox[m]) # {}

\* No message waits for ever: everyone it was sent to answers it or is waived,
\* unless the team is paused meanwhile.
EveryMessageIsResolved ==
  \A m \in Messages : Waits(m) ~> ~Waits(m) \/ team.status = "Paused"
=============================================================================
