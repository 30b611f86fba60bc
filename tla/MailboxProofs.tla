---------------------------- MODULE MailboxProofs ---------------------------
(***************************************************************************)
(* The mailbox restores, is never rewritten, and lets a closing team close, *)
(* for any number of members, requests, messages and generations; and what  *)
(* is over leaves for the archive without a loss (Archive).                 *)
(***************************************************************************)
EXTENDS Archive, Sending, FiniteSetTheorems, TLAPS

-----------------------------------------------------------------------------
(* The inductive invariant.                                                *)

Reason == [why : {"superseded", "closed"}, epoch : 0 .. MaxTeamEpoch]
Reasons(S) == [S -> Reason]
Reader == {ThePrimary} \cup [actor : Members, gen : 1 .. MaxTeamEpoch, team : 1 .. MaxTeamEpoch]
Waivers == UNION {[S -> Reason] : S \in SUBSET Reader}
Delivery ==
  [kind : Kinds, target : Targets \cup {"Primary"}, req : Requests \cup {NoRequest},
   need : (SUBSET Reader) \ {{}}, acks : SUBSET Reader, waived : Waivers, retired : BOOLEAN]
Request == [st : {"None", "Blocking", "Settled", "Terminal"}, epoch : 0 .. MaxTeamEpoch,
            by : Recipient]
Member == [gen : 1 .. MaxTeamEpoch, status : {"Healthy", "Stale", "Stopped"}]
Team == [status : {"Active", "Paused", "Closing", "Closed"}, epoch : 1 .. MaxTeamEpoch]

TeamTyped == team \in Team /\ member \in [Members -> Member] /\ primary \in BOOLEAN
WorkTyped == request \in [Requests -> Request]
MailTyped == mailbox \in [Messages -> Delivery \cup {NoDelivery}]

\* Every generation of an actor took one of the team.
GenerationsFollow == \A a \in Members : member[a].gen <= team.epoch

\* A request that was asked for has a member's generation for it; while it blocks
\* closing the team it is the team's present generation that works, and no team closes
\* over it.
WorkFollows ==
  \A r \in Requests : request[r].st # "None" =>
    LET a == request[r].by.actor IN
    /\ a \in Members /\ request[r].by.gen \in 1 .. member[a].gen
    /\ request[r].epoch \in 1 .. team.epoch
    /\ request[r].st = "Blocking" => request[r].epoch = team.epoch /\ team.status # "Closed"

EveryDeliveryRestores == \A m \in Accepted : DeliveryRestores(mailbox[m])

\* A delivery that needs the team's action keeps no closing team open, but by a request.
NothingOwed(d) ==
  d.kind \in {"Directive", "Notice"} => d.retired \/ OfMembers(Unread(d)) = {}
ClosingOwesNothing ==
  team.status \in {"Closing", "Closed"} => \A m \in Accepted : NothingOwed(mailbox[m])

MailInv ==
  /\ TeamTyped /\ WorkTyped /\ MailTyped
  /\ GenerationsFollow /\ WorkFollows /\ EveryDeliveryRestores /\ ClosingOwesNothing

-----------------------------------------------------------------------------
(* Deliveries and what is done to them.                                    *)

LEMMA ReaderIs ==
  ASSUME NEW x \in Reader, x # ThePrimary
  PROVE  x.actor \in Members /\ x.gen \in 1 .. MaxTeamEpoch /\ x.team \in 1 .. MaxTeamEpoch
  BY DEF Reader

LEMMA MemberReads ==
  ASSUME NEW a \in Members, NEW g \in 1 .. MaxTeamEpoch, NEW t \in 1 .. MaxTeamEpoch
  PROVE  [actor |-> a, gen |-> g, team |-> t] \in Reader \ {ThePrimary}
  BY MailboxAssumption DEF Reader, ThePrimary

LEMMA WaiversAre ==
  \A f : f \in Waivers <=> \E S \in SUBSET Reader : f \in [S -> Reason]
  BY DEF Waivers

LEMMA SomeDelivery == NoDelivery \notin Delivery
  BY DEF NoDelivery, Delivery, Kinds

\* Everything about a delivery but what became of it.
SameMessage(d, e) ==
  /\ d \in Delivery /\ e \in Delivery
  /\ e.kind = d.kind /\ e.target = d.target /\ e.req = d.req /\ e.need = d.need

LEMMA Retiring ==
  ASSUME NEW d \in Delivery, NEW b \in BOOLEAN
  PROVE  LET e == [d EXCEPT !.retired = b] IN
         SameMessage(d, e) /\ e.acks = d.acks /\ e.waived = d.waived /\ e.retired = b
  BY DEF Delivery, SameMessage

LEMMA Answering ==
  ASSUME NEW d \in Delivery, NEW x \in Reader
  PROVE  LET e == [d EXCEPT !.acks = @ \cup {x}] IN
         SameMessage(d, e) /\ e.acks = d.acks \cup {x} /\ e.waived = d.waived
         /\ e.retired = d.retired
  BY DEF Delivery, SameMessage

LEMMA Rewaiving ==
  ASSUME NEW d \in Delivery, NEW w \in Waivers
  PROVE  LET e == [d EXCEPT !.waived = w] IN
         SameMessage(d, e) /\ e.acks = d.acks /\ e.waived = w /\ e.retired = d.retired
  BY DEF Delivery, SameMessage

LEMMA Waiving ==
  ASSUME NEW d \in Delivery, NEW S \in SUBSET Reader, NEW reasons \in Reasons(S),
         NEW e, e = Waive(d, reasons)
  PROVE  /\ SameMessage(d, e) /\ e.acks = d.acks /\ e.retired = d.retired
         /\ Waived(e) = Waived(d) \cup S
         /\ \A x \in Waived(d) : e.waived[x] = d.waived[x]
         /\ \A x \in S \ Waived(d) : e.waived[x] = reasons[x]
  <1> DEFINE w == [x \in DOMAIN d.waived \cup DOMAIN reasons |->
                     IF x \in DOMAIN d.waived THEN d.waived[x] ELSE reasons[x]]
  <1>1. PICK T \in SUBSET Reader : d.waived \in [T -> Reason]
    BY WaiversAre DEF Delivery
  <1>2. w \in [T \cup S -> Reason] /\ T \cup S \in SUBSET Reader
    BY <1>1 DEF Reasons
  <1>3. w \in Waivers
    BY <1>2, WaiversAre
  <1>4. /\ DOMAIN w = Waived(d) \cup S
        /\ \A x \in Waived(d) : w[x] = d.waived[x]
        /\ \A x \in S \ Waived(d) : w[x] = reasons[x]
    BY DEF Waived, Reasons
  <1> HIDE DEF w
  <1>5. e = [d EXCEPT !.waived = w]
    BY DEF Waive, w
  <1>6. QED BY <1>3, <1>4, <1>5, Rewaiving DEF Waived

\* What Retired makes of a mailbox.
LEMMA RetiredIs ==
  ASSUME NEW box \in [Messages -> Delivery \cup {NoDelivery}], NEW req
  PROVE  LET after == Retired(box, req) IN
         /\ after \in [Messages -> Delivery \cup {NoDelivery}]
         /\ \A m \in Messages :
              /\ box[m] = NoDelivery => after[m] = NoDelivery
              /\ box[m] # NoDelivery =>
                   /\ SameMessage(box[m], after[m])
                   /\ after[m].acks = box[m].acks /\ after[m].waived = box[m].waived
                   /\ after[m].retired <=> box[m].retired \/ Resolved(box[m], req)
  <1> DEFINE b(m) == box[m].retired \/ Resolved(box[m], req)
             after == Retired(box, req)
  <1>1. ASSUME NEW m \in Messages, box[m] # NoDelivery
        PROVE  /\ SameMessage(box[m], after[m])
               /\ after[m].acks = box[m].acks /\ after[m].waived = box[m].waived
               /\ after[m].retired <=> b(m)
    <2>1. box[m] \in Delivery
      BY <1>1
    <2>2. b(m) \in BOOLEAN
      BY DEF Resolved
    <2>3. after[m] = [box[m] EXCEPT !.retired = b(m)]
      BY <1>1 DEF Retired
    <2> HIDE DEF b
    <2>4. QED BY <2>1, <2>2, <2>3, Retiring
  <1>2. ASSUME NEW m \in Messages, box[m] = NoDelivery
        PROVE  after[m] = NoDelivery
    BY <1>2 DEF Retired
  <1>3. \A m \in Messages : after[m] \in Delivery \cup {NoDelivery}
    BY <1>1, <1>2 DEF SameMessage
  <1>4. after \in [Messages -> Delivery \cup {NoDelivery}]
    <2>1. after = [m \in Messages |-> after[m]]
      BY DEF Retired
    <2> HIDE DEF after
    <2>2. QED BY <1>3, <2>1
  <1>5. QED BY <1>1, <1>2, <1>4

-----------------------------------------------------------------------------
(* What restores, but for being retired exactly.                           *)

RestoresOpen(d) ==
  RequiredRecipients(d) /\ AcknowledgementsRestore(d) /\ ContextRestores(d) /\ Truthful(d)

LEMMA RestoresInParts ==
  ASSUME NEW d
  PROVE  /\ DeliveryRestores(d) <=> RestoresOpen(d) /\ RetiredExactly(d)
         /\ DeliveryRestores(d)' <=> RestoresOpen(d)' /\ RetiredExactly(d)'
  BY Zenon DEF DeliveryRestores, RestoresOpen

\* How the surroundings of a delivery may change without touching it.
Undisturbed ==
  /\ team'.epoch = team.epoch /\ (\A a \in Members : member'[a].gen = member[a].gen)
  /\ team.status \in {"Closing", "Closed"} => team'.status \in {"Closing", "Closed"}
  /\ \A r \in Requests : /\ request[r].st # "None" => request'[r].st # "None"
                         /\ request'[r].st = "Blocking" => request[r].st \in {"Blocking", "None"}

LEMMA BlockingNot ==
  ASSUME Undisturbed, NEW k, NEW r \in Requests \cup {NoRequest},
         r # NoRequest => request[r].st # "None", ~RequiresAction(k, r)
  PROVE  ~RequiresAction(k, r)'
  BY DEF Undisturbed, RequiresAction, Blocking

LEMMA Carries ==
  ASSUME NEW d \in Delivery, RestoresOpen(d), Undisturbed
  PROVE  RestoresOpen(d)'
  <1>1. d.req \in Requests \cup {NoRequest} /\ d.need \subseteq Reader /\ d.acks \subseteq Reader
    BY DEF Delivery
  <1>2. \A x \in OfMembers(d.need) : x.actor \in Members
    BY <1>1, ReaderIs DEF OfMembers
  <1>3. \A x \in d.need : x # ThePrimary => (IsCurrent(x) <=> IsCurrent(x)')
    BY <1>2 DEF IsCurrent, Undisturbed, OfMembers
  <1>4. RequiredRecipients(d)'
    <2>1. \A x \in d.need : x # ThePrimary => (CurrentOrResolved(d, x) => CurrentOrResolved(d, x)')
      BY <1>2, <1>3 DEF CurrentOrResolved, Undisturbed, OfMembers
    <2>2. d.kind = "Directive" /\ d.target = "Team" => DirectiveRecipients(d)'
      <3>1. DEFINE T(x) == x \in d.acks \/ (x \in Waived(d) /\ d.waived[x] = Superseded(x.team))
      <3>2. SUFFICES ASSUME d.kind = "Directive", d.target = "Team", NEW x \in d.need
                     PROVE  IsCurrent(x)' \/ (x.team < team'.epoch /\ T(x))
        BY DEF DirectiveRecipients
      <3>3. IsCurrent(x) \/ (x.team < team.epoch /\ T(x))
        BY <3>2 DEF RestoresOpen, RequiredRecipients, DirectiveRecipients
      <3>4. x # ThePrimary
        BY <3>2 DEF RestoresOpen, RequiredRecipients
      <3> HIDE DEF T
      <3>5. QED BY <1>3, <3>2, <3>3, <3>4 DEF Undisturbed
    <2>3. QED BY <2>1, <2>2 DEF RestoresOpen, RequiredRecipients
  <1>5. AcknowledgementsRestore(d)'
    BY <1>2 DEF RestoresOpen, AcknowledgementsRestore, Undisturbed, OfMembers
  <1>6. ContextRestores(d)'
    BY <1>1 DEF RestoresOpen, ContextRestores, Undisturbed
  <1>7. Truthful(d)'
    <2> SUFFICES ASSUME NEW x \in Waived(d)
                 PROVE  /\ x \in OfMembers(d.need) /\ x \notin d.acks
                        /\ d.waived[x].epoch = x.team
                        /\ IF d.waived[x].why = "superseded" THEN x.team < team'.epoch
                           ELSE /\ x.team = team'.epoch /\ team'.status \in {"Closing", "Closed"}
                                /\ ~RequiresAction(d.kind, d.req)'
      BY DEF Truthful
    <2>1. /\ x \in OfMembers(d.need) /\ x \notin d.acks /\ d.waived[x].epoch = x.team
          /\ IF d.waived[x].why = "superseded" THEN x.team < team.epoch
             ELSE /\ x.team = team.epoch /\ team.status \in {"Closing", "Closed"}
                  /\ ~RequiresAction(d.kind, d.req)
      BY DEF RestoresOpen, Truthful
    <2>2. d.req # NoRequest => request[d.req].st # "None"
      BY DEF RestoresOpen, ContextRestores
    <2>3. ~RequiresAction(d.kind, d.req) => ~RequiresAction(d.kind, d.req)'
      BY <1>1, <2>2, BlockingNot
    <2>4. QED BY <2>1, <2>3 DEF Undisturbed
  <1>8. QED BY <1>4, <1>5, <1>6, <1>7 DEF RestoresOpen

LEMMA SameRestores ==
  ASSUME NEW d, NEW e, SameMessage(d, e), e.acks = d.acks, e.waived = d.waived,
         RestoresOpen(d)'
  PROVE  RestoresOpen(e)'
  <1>1. Waived(e) = Waived(d)
    BY DEF Waived
  <1>2. RequiredRecipients(e)'
    BY <1>1 DEF RestoresOpen, RequiredRecipients, SameMessage, CurrentOrResolved,
                DirectiveRecipients, InTarget
  <1>3. AcknowledgementsRestore(e)'
    BY DEF RestoresOpen, AcknowledgementsRestore, SameMessage, InTarget
  <1>4. ContextRestores(e)'
    BY DEF RestoresOpen, ContextRestores, SameMessage
  <1>5. Truthful(e)'
    BY <1>1 DEF RestoresOpen, Truthful, SameMessage
  <1>6. QED BY <1>2, <1>3, <1>4, <1>5 DEF RestoresOpen

LEMMA SameResolved ==
  ASSUME NEW d, NEW e, SameMessage(d, e), e.acks = d.acks, e.waived = d.waived, NEW req
  PROVE  Resolved(e, req) <=> Resolved(d, req)
  BY DEF Resolved, SameMessage, Unread, Waived

\* A mailbox that is retired at the end of its step restores, if all in it does.
LEMMA Assembled ==
  ASSUME NEW box \in [Messages -> Delivery \cup {NoDelivery}], NEW req, req = request',
         mailbox' = Retired(box, req),
         \A m \in Messages : box[m] # NoDelivery =>
           RestoresOpen(box[m])' /\ (box[m].retired => Resolved(box[m], req))
  PROVE  MailTyped' /\ EveryDeliveryRestores'
         /\ \A m \in Messages :
              /\ mailbox'[m] = NoDelivery <=> box[m] = NoDelivery
              /\ box[m] # NoDelivery =>
                   /\ SameMessage(box[m], mailbox'[m]) /\ mailbox'[m].acks = box[m].acks
                   /\ mailbox'[m].waived = box[m].waived
                   /\ box[m].retired => mailbox'[m].retired
  <1> DEFINE After(m) ==
        /\ mailbox'[m] = NoDelivery <=> box[m] = NoDelivery
        /\ box[m] # NoDelivery =>
             /\ SameMessage(box[m], mailbox'[m]) /\ mailbox'[m].acks = box[m].acks
             /\ mailbox'[m].waived = box[m].waived
             /\ mailbox'[m].retired <=> box[m].retired \/ Resolved(box[m], req)
  <1>1. MailTyped' /\ \A m \in Messages : After(m)
    BY RetiredIs, SomeDelivery DEF MailTyped, SameMessage
  <1>2. ASSUME NEW m \in Messages, mailbox'[m] # NoDelivery
        PROVE  DeliveryRestores(mailbox[m])'
    <2>1. PICK e : e = mailbox'[m]
      OBVIOUS
    <2>2. /\ SameMessage(box[m], e) /\ e.acks = box[m].acks /\ e.waived = box[m].waived
          /\ e.retired <=> box[m].retired \/ Resolved(box[m], req)
          /\ box[m] # NoDelivery
      BY <1>1, <1>2, <2>1
    <2>3. RestoresOpen(e)'
      BY <2>2, SameRestores
    <2>4. e.retired <=> Resolved(e, req)
      BY <2>2, SameResolved
    <2>5. RetiredExactly(e)'
      BY <2>4 DEF RetiredExactly
    <2>6. DeliveryRestores(e)'
      BY <2>3, <2>5, RestoresInParts
    <2>7. QED
      BY <2>1, <2>6
         DEF DeliveryRestores, RequiredRecipients, AcknowledgementsRestore, ContextRestores,
             Truthful, RetiredExactly, CurrentOrResolved, DirectiveRecipients, InTarget
  <1>3. EveryDeliveryRestores'
    BY <1>2 DEF EveryDeliveryRestores, Accepted
  <1>4. QED BY <1>1, <1>3

-----------------------------------------------------------------------------
(* Steps that send nothing new.                                            *)

LEMMA MailIs ==
  ASSUME MailInv, NEW m \in Messages, mailbox[m] # NoDelivery
  PROVE  /\ mailbox[m] \in Delivery /\ RestoresOpen(mailbox[m])
         /\ mailbox[m].retired <=> Resolved(mailbox[m], request)
         /\ \A x \in mailbox[m].need : x # ThePrimary =>
              /\ x.actor \in Members /\ x.gen \in 1 .. member[x.actor].gen
              /\ x.team \in 1 .. team.epoch
              /\ IsCurrent(x) \/ x \in mailbox[m].acks \/ x \in Waived(mailbox[m])
  <1>1. mailbox[m] \in Delivery /\ RestoresOpen(mailbox[m]) /\ RetiredExactly(mailbox[m])
    BY DEF MailInv, MailTyped, EveryDeliveryRestores, Accepted, DeliveryRestores, RestoresOpen
  <1>2. ASSUME NEW x \in mailbox[m].need, x # ThePrimary
        PROVE  /\ x.actor \in Members /\ x.gen \in 1 .. member[x.actor].gen
               /\ x.team \in 1 .. team.epoch
               /\ IsCurrent(x) \/ x \in mailbox[m].acks \/ x \in Waived(mailbox[m])
    <2>1. x \in Reader
      BY <1>1 DEF Delivery
    <2>2. CurrentOrResolved(mailbox[m], x)
      BY <1>1, <1>2 DEF RestoresOpen, RequiredRecipients
    <2>3. member[x.actor].gen \in Nat /\ team.epoch \in Nat
      BY <1>2, <2>1, ReaderIs DEF MailInv, TeamTyped, Member, Team
    <2>4. QED BY <1>2, <2>1, <2>2, <2>3, ReaderIs DEF CurrentOrResolved
  <1>3. QED BY <1>1, <1>2 DEF RetiredExactly

LEMMA QuietKeeps ==
  ASSUME MailInv, Undisturbed, UNCHANGED <<request, mailbox>>, TeamTyped',
         ClosingOwesNothing', team'.status = "Closed" => team.status = "Closed"
  PROVE  MailInv'
  <1>1. WorkTyped' /\ MailTyped'
    BY DEF MailInv, WorkTyped, MailTyped
  <1>2. GenerationsFollow' /\ WorkFollows'
    BY DEF MailInv, GenerationsFollow, WorkFollows, Undisturbed
  <1>3. ASSUME NEW m \in Messages, mailbox'[m] # NoDelivery
        PROVE  DeliveryRestores(mailbox[m])'
    <2>1. PICK d : d = mailbox[m]
      OBVIOUS
    <2>2. d \in Delivery /\ RestoresOpen(d) /\ (d.retired <=> Resolved(d, request))
      BY <1>3, <2>1, MailIs DEF RestoresOpen, RequiredRecipients, AcknowledgementsRestore,
         ContextRestores, Truthful, CurrentOrResolved, DirectiveRecipients, InTarget
    <2>3. RestoresOpen(d)' /\ RetiredExactly(d)'
      BY <2>2, Carries DEF RetiredExactly
    <2>4. QED
      BY <2>1, <2>3, RestoresInParts
         DEF DeliveryRestores, RequiredRecipients, AcknowledgementsRestore, ContextRestores,
             Truthful, RetiredExactly, CurrentOrResolved, DirectiveRecipients, InTarget
  <1>4. EveryDeliveryRestores'
    BY <1>3 DEF EveryDeliveryRestores, Accepted
  <1>5. QED BY <1>1, <1>2, <1>4 DEF MailInv

LEMMA SetStatusKeeps ==
  ASSUME MailInv, NEW a \in Members, NEW from, NEW to \in {"Healthy", "Stale", "Stopped"},
         SetStatus(a, from, to)
  PROVE  MailInv'
  <1>1. member' = [member EXCEPT ![a].status = to] /\ UNCHANGED <<team, primary, request, mailbox>>
    BY DEF SetStatus
  <1>2. [member[a] EXCEPT !.status = to] \in Member
        /\ [member[a] EXCEPT !.status = to].gen = member[a].gen
    BY DEF MailInv, TeamTyped, Member
  <1>3. TeamTyped' /\ Undisturbed
    BY <1>1, <1>2 DEF MailInv, TeamTyped, Undisturbed
  <1>4. ClosingOwesNothing'
    BY <1>1 DEF MailInv, ClosingOwesNothing, Accepted
  <1>5. QED BY <1>1, <1>3, <1>4, QuietKeeps

LEMMA PrimaryKeeps ==
  ASSUME MailInv, LosePrimary \/ ActivatePrimary
  PROVE  MailInv'
  <1>1. UNCHANGED <<team, member, request, mailbox>> /\ primary' \in BOOLEAN
    BY DEF LosePrimary, ActivatePrimary
  <1>2. TeamTyped' /\ Undisturbed /\ ClosingOwesNothing'
    BY <1>1 DEF MailInv, TeamTyped, Undisturbed, ClosingOwesNothing, Accepted
  <1>3. QED BY <1>1, <1>2, QuietKeeps

LEMMA PauseKeeps ==
  ASSUME MailInv, Pause \/ Resume
  PROVE  MailInv'
  <1>1. /\ UNCHANGED <<member, primary, request, mailbox>>
        /\ team.status \in {"Active", "Paused"}
        /\ \E s \in {"Active", "Paused"} : team' = [team EXCEPT !.status = s]
    BY DEF Pause, Resume
  <1>2. /\ team' \in Team /\ team'.epoch = team.epoch
        /\ team'.status \in {"Active", "Paused"}
    BY <1>1 DEF MailInv, TeamTyped, Team
  <1>3. TeamTyped' /\ Undisturbed /\ ClosingOwesNothing'
    BY <1>1, <1>2 DEF MailInv, TeamTyped, Undisturbed, ClosingOwesNothing
  <1>4. QED BY <1>1, <1>2, <1>3, QuietKeeps

\* A close is accepted when nothing is owed but by the requests it may wait for.
LEMMA RequestCloseKeeps ==
  ASSUME MailInv, NEW w \in BOOLEAN, RequestClose(w)
  PROVE  MailInv'
  <1>1. /\ UNCHANGED <<member, primary, request, mailbox>>
        /\ team.status \in {"Active", "Paused"} /\ team' = [team EXCEPT !.status = "Closing"]
    BY DEF RequestClose
  <1>2. team' \in Team /\ team'.epoch = team.epoch /\ team'.status = "Closing"
    BY <1>1 DEF MailInv, TeamTyped, Team
  <1>3. \A m \in Accepted : NothingOwed(mailbox[m])
    <2> SUFFICES ASSUME NEW m \in Accepted, mailbox[m].kind \in {"Directive", "Notice"},
                        ~mailbox[m].retired
                 PROVE  OfMembers(Unread(mailbox[m])) = {}
      BY DEF NothingOwed
    <2>1. RequiresAction(mailbox[m].kind, mailbox[m].req)
      BY DEF RequiresAction
    <2>2. mailbox[m].kind \notin Lifecycle
      BY DEF Lifecycle
    <2>3. QED BY <2>1, <2>2 DEF RequestClose, BlockingMessages
  <1>4. TeamTyped' /\ Undisturbed /\ ClosingOwesNothing'
    BY <1>1, <1>2, <1>3
       DEF MailInv, TeamTyped, Undisturbed, ClosingOwesNothing, Accepted, NothingOwed
  <1>5. QED BY <1>1, <1>2, <1>4, QuietKeeps

-----------------------------------------------------------------------------
(* An answer.                                                              *)

LEMMA AnswerRestores ==
  ASSUME NEW d \in Delivery, RestoresOpen(d), NEW x \in Unread(d), NEW e,
         SameMessage(d, e), e.acks = d.acks \cup {x}, e.waived = d.waived
  PROVE  RestoresOpen(e)
  <1>1. x \in d.need /\ x \notin d.acks /\ x \notin Waived(d) /\ Waived(e) = Waived(d)
    BY DEF Unread, Waived
  <1>2. InTarget(x, d.target) /\ (x # ThePrimary => x.gen <= member[x.actor].gen)
    BY <1>1 DEF RestoresOpen, RequiredRecipients, CurrentOrResolved, InTarget
  <1>3. RequiredRecipients(e)
    BY <1>1 DEF RestoresOpen, RequiredRecipients, SameMessage, CurrentOrResolved,
                DirectiveRecipients, InTarget
  <1>4. AcknowledgementsRestore(e)
    BY <1>1, <1>2 DEF RestoresOpen, AcknowledgementsRestore, SameMessage
  <1>5. ContextRestores(e)
    BY DEF RestoresOpen, ContextRestores, SameMessage
  <1>6. Truthful(e)
    BY <1>1 DEF RestoresOpen, Truthful, SameMessage
  <1>7. QED BY <1>3, <1>4, <1>5, <1>6 DEF RestoresOpen

\* A later mailbox that waives and answers no less owes no more.
LEMMA OwesNoMore ==
  ASSUME NEW d, NEW e, SameMessage(d, e), d.acks \subseteq e.acks, Waived(d) \subseteq Waived(e),
         d.retired => e.retired, NothingOwed(d)
  PROVE  NothingOwed(e)
  BY DEF NothingOwed, SameMessage, Unread, OfMembers

\* What was accepted grows in answers and waivers, in this step.
Grew ==
  \A n \in Messages : mailbox[n] # NoDelivery =>
    LET d == mailbox[n]
        e == mailbox'[n]
    IN /\ e # NoDelivery /\ SameMessage(d, e) /\ d.acks \subseteq e.acks
       /\ Waived(d) \subseteq Waived(e) /\ (d.retired => e.retired)

LEMMA Became ==
  ASSUME NEW box \in [Messages -> Delivery \cup {NoDelivery}], NEW req, req = request',
         mailbox' = Retired(box, req),
         \A n \in Messages : box[n] # NoDelivery =>
           RestoresOpen(box[n])' /\ (box[n].retired => Resolved(box[n], req)),
         \A n \in Messages : mailbox[n] # NoDelivery =>
           /\ box[n] # NoDelivery /\ SameMessage(mailbox[n], box[n])
           /\ mailbox[n].acks \subseteq box[n].acks /\ Waived(mailbox[n]) \subseteq Waived(box[n])
           /\ mailbox[n].retired => box[n].retired
  PROVE  /\ MailTyped' /\ EveryDeliveryRestores' /\ Grew
         /\ \A n \in Messages : mailbox'[n] # NoDelivery =>
              /\ box[n] # NoDelivery /\ SameMessage(box[n], mailbox'[n])
              /\ mailbox'[n].acks = box[n].acks /\ mailbox'[n].waived = box[n].waived
              /\ box[n].retired => mailbox'[n].retired
  <1>1. /\ MailTyped' /\ EveryDeliveryRestores'
        /\ \A n \in Messages :
             /\ mailbox'[n] = NoDelivery <=> box[n] = NoDelivery
             /\ box[n] # NoDelivery =>
                  /\ SameMessage(box[n], mailbox'[n]) /\ mailbox'[n].acks = box[n].acks
                  /\ mailbox'[n].waived = box[n].waived
                  /\ box[n].retired => mailbox'[n].retired
    BY Assembled
  <1>2. Grew
    BY <1>1 DEF Grew, SameMessage, Waived
  <1>3. QED BY <1>1, <1>2

\* Nothing new is owed where nothing was owed and nothing was sent.
LEMMA StillNothingOwed ==
  ASSUME ClosingOwesNothing, Grew,
         team'.status \in {"Closing", "Closed"} => team.status \in {"Closing", "Closed"},
         \A n \in Messages : mailbox[n] = NoDelivery /\ mailbox'[n] # NoDelivery =>
           (team'.status \in {"Closing", "Closed"} => NothingOwed(mailbox'[n]))
  PROVE  ClosingOwesNothing'
  <1> SUFFICES ASSUME team'.status \in {"Closing", "Closed"}, NEW n \in Messages,
                      mailbox'[n] # NoDelivery
               PROVE  NothingOwed(mailbox'[n])
    BY DEF ClosingOwesNothing, Accepted, NothingOwed
  <1>1. CASE mailbox[n] # NoDelivery
    <2>1. NothingOwed(mailbox[n])
      BY <1>1 DEF ClosingOwesNothing, Accepted
    <2>2. QED BY <1>1, <2>1, OwesNoMore DEF Grew
  <1>2. QED BY <1>1

LEMMA AcknowledgeKeeps ==
  ASSUME MailInv, NEW m \in Messages, mailbox[m] # NoDelivery, ~mailbox[m].retired,
         NEW x \in Unread(mailbox[m]),
         mailbox' = Retired([mailbox EXCEPT ![m].acks = @ \cup {x}], request),
         UNCHANGED <<team, member, primary, request>>
  PROVE  MailInv' /\ Grew
  <1> DEFINE d == mailbox[m]
             f == [d EXCEPT !.acks = @ \cup {x}]
  <1>1. d \in Delivery /\ RestoresOpen(d)
    BY MailIs
  <1>2. x \in Reader
    BY <1>1 DEF Unread, Delivery
  <1>3. SameMessage(d, f) /\ f.acks = d.acks \cup {x} /\ f.waived = d.waived /\ f.retired = d.retired
    <2> HIDE DEF d
    <2>1. QED BY <1>1, <1>2, Answering
  <1>4. PICK box : box = [mailbox EXCEPT ![m].acks = @ \cup {x}]
    OBVIOUS
  <1>5. box = [mailbox EXCEPT ![m] = f]
    BY <1>4
  <1> HIDE DEF f
  <1>6. f \in Delivery /\ mailbox \in [Messages -> Delivery \cup {NoDelivery}]
    BY <1>3 DEF SameMessage, MailInv, MailTyped
  <1>7. /\ box \in [Messages -> Delivery \cup {NoDelivery}]
        /\ box[m] = f /\ \A n \in Messages \ {m} : box[n] = mailbox[n]
    BY <1>5, <1>6
  <1>8. Undisturbed
    BY DEF Undisturbed
  <1>9. ASSUME NEW n \in Messages, box[n] # NoDelivery
        PROVE  /\ RestoresOpen(box[n])' /\ (box[n].retired => Resolved(box[n], request))
               /\ mailbox[n] # NoDelivery /\ SameMessage(mailbox[n], box[n])
               /\ mailbox[n].acks \subseteq box[n].acks
               /\ Waived(mailbox[n]) \subseteq Waived(box[n])
               /\ mailbox[n].retired => box[n].retired
    <2>1. CASE n = m
      <3>1. RestoresOpen(f)
        BY <1>1, <1>3, AnswerRestores
      <3>2. RestoresOpen(box[n])
        BY <1>7, <2>1, <3>1
      <3>3. RestoresOpen(box[n])'
        BY <1>6, <1>7, <1>8, <2>1, <3>2, Carries
      <3>4. QED BY <1>3, <1>7, <2>1, <3>3 DEF Waived
    <2>2. CASE n # m
      <3>1. mailbox[n] = box[n]
        BY <1>7, <2>2
      <3>2. RestoresOpen(mailbox[n]) /\ (mailbox[n].retired => Resolved(mailbox[n], request))
            /\ mailbox[n] \in Delivery
        BY <1>9, <3>1, MailIs
      <3>3. RestoresOpen(box[n])
        BY <3>1, <3>2
      <3>4. RestoresOpen(box[n])'
        BY <1>8, <3>1, <3>2, <3>3, Carries
      <3>5. QED BY <1>9, <3>1, <3>2, <3>4 DEF SameMessage
    <2>3. QED BY <2>1, <2>2
  <1>10. PICK req : req = request
    OBVIOUS
  <1>11. /\ MailTyped' /\ EveryDeliveryRestores' /\ Grew
         /\ \A n \in Messages : mailbox'[n] # NoDelivery => box[n] # NoDelivery
    <2>1. req = request' /\ mailbox' = Retired(box, req)
      BY <1>4, <1>10
    <2>2. \A n \in Messages : box[n] # NoDelivery =>
            RestoresOpen(box[n])' /\ (box[n].retired => Resolved(box[n], req))
      BY <1>9, <1>10
    <2>3. \A n \in Messages : mailbox[n] # NoDelivery =>
            /\ box[n] # NoDelivery /\ SameMessage(mailbox[n], box[n])
            /\ mailbox[n].acks \subseteq box[n].acks
            /\ Waived(mailbox[n]) \subseteq Waived(box[n])
            /\ mailbox[n].retired => box[n].retired
      BY <1>6, <1>7, <1>9, SomeDelivery
    <2>4. QED BY <1>7, <2>1, <2>2, <2>3, Became
  <1>12. ClosingOwesNothing'
    <2>1. \A n \in Messages : mailbox[n] = NoDelivery => mailbox'[n] = NoDelivery
      BY <1>9, <1>11
    <2>2. QED BY <1>11, <2>1, StillNothingOwed DEF MailInv
  <1>13. QED BY <1>11, <1>12
     DEF MailInv, TeamTyped, WorkTyped, GenerationsFollow, WorkFollows

LEMMA AcknowledgingKeeps ==
  ASSUME MailInv, NEW m \in Messages,
         AcknowledgePrimary(m) \/ \E a \in Members : Acknowledge(m, a)
  PROVE  MailInv' /\ Grew
  <1>1. CASE AcknowledgePrimary(m)
    <2>1. PICK x : x = ThePrimary
      OBVIOUS
    <2>2. /\ mailbox[m] # NoDelivery /\ ~mailbox[m].retired /\ x \in Unread(mailbox[m])
          /\ mailbox' = Retired([mailbox EXCEPT ![m].acks = @ \cup {x}], request)
          /\ UNCHANGED <<team, member, primary, request>>
      BY <1>1, <2>1 DEF AcknowledgePrimary, Accepted
    <2>3. QED BY <2>2, AcknowledgeKeeps
  <1>2. ASSUME NEW a \in Members, Acknowledge(m, a)
        PROVE  MailInv' /\ Grew
    <2>1. PICK x : x = Rec(a)
      OBVIOUS
    <2>2. /\ mailbox[m] # NoDelivery /\ ~mailbox[m].retired /\ x \in Unread(mailbox[m])
          /\ mailbox' = Retired([mailbox EXCEPT ![m].acks = @ \cup {x}], request)
          /\ UNCHANGED <<team, member, primary, request>>
      BY <1>2, <2>1 DEF Acknowledge, Accepted
    <2>3. QED BY <2>2, AcknowledgeKeeps
  <1>3. QED BY <1>1, <1>2

-----------------------------------------------------------------------------
(* Waivers: a generation is replaced, a team closes or is created again.   *)

\* No generation comes back and no request is forgotten.
Onward ==
  /\ team.epoch \in Nat /\ team'.epoch \in Nat /\ team.epoch <= team'.epoch
  /\ \A a \in Members : /\ member[a].gen \in Nat /\ member'[a].gen \in Nat
                        /\ member[a].gen <= member'[a].gen
  /\ \A r \in Requests : request[r].st # "None" => request'[r].st # "None"

LEMMA WaivingRestores ==
  ASSUME NEW d \in Delivery, RestoresOpen(d), Onward, NEW e, SameMessage(d, e), e.acks = d.acks,
         Truthful(e)',
         \A x \in OfMembers(d.need) :
           /\ IsCurrent(x)' \/ x \in d.acks \/ x \in Waived(e)
           /\ IsCurrent(x) => IsCurrent(x)' \/ x.team < team'.epoch
  PROVE  RestoresOpen(e)'
  <1>1. /\ d.req \in Requests \cup {NoRequest} /\ d.need \subseteq Reader /\ d.acks \subseteq Reader
        /\ e.need = d.need /\ e.kind = d.kind /\ e.target = d.target /\ e.req = d.req
        /\ e \in Delivery
    BY DEF Delivery, SameMessage
  <1>2. \A x \in OfMembers(d.need) : x.actor \in Members /\ x.gen \in Nat /\ x.team \in Nat
    BY <1>1, ReaderIs, MailboxAssumption DEF OfMembers
  <1>3. \A x \in OfMembers(d.need) : CurrentOrResolved(e, x)'
    <2> SUFFICES ASSUME NEW x \in OfMembers(d.need)
                 PROVE  CurrentOrResolved(e, x)'
      OBVIOUS
    <2>1. CurrentOrResolved(d, x)
      BY DEF RestoresOpen, RequiredRecipients, OfMembers
    <2>2. x.gen <= member'[x.actor].gen /\ x.team <= team'.epoch /\ InTarget(x, e.target)
      BY <1>1, <1>2, <2>1 DEF CurrentOrResolved, Onward
    <2>3. IsCurrent(x)' \/ x \in e.acks \/ x \in Waived(e)
      OBVIOUS
    <2>4. QED BY <2>2, <2>3 DEF CurrentOrResolved, InTarget
  <1>4. e.kind = "Directive" /\ e.target = "Team" => DirectiveRecipients(e)'
    <2> SUFFICES ASSUME e.kind = "Directive", e.target = "Team", NEW x \in e.need
                 PROVE  IsCurrent(x)'
                        \/ (x.team < team'.epoch
                             /\ (x \in e.acks
                                  \/ (x \in Waived(e) /\ e.waived[x] = Superseded(x.team))))
      BY DEF DirectiveRecipients
    <2>1. x \in OfMembers(d.need)
      BY <1>1 DEF RestoresOpen, RequiredRecipients, OfMembers
    <2>2. IsCurrent(x) \/ x.team < team.epoch
      BY <1>1 DEF RestoresOpen, RequiredRecipients, DirectiveRecipients
    <2>3. IsCurrent(x)' \/ x.team < team'.epoch
      BY <1>2, <2>1, <2>2 DEF Onward
    <2>4. ASSUME x \in Waived(e)
          PROVE  e.waived[x] = Superseded(x.team)
      <3>1. e.waived[x] \in Reason
        BY <1>1, <2>4, WaiversAre DEF Delivery, Waived
      <3>2. e.waived[x].epoch = x.team /\ (e.waived[x].why # "superseded" => ~RequiresAction(e.kind, e.req)')
        BY <2>4 DEF Truthful
      <3>3. e.waived[x].why = "superseded"
        BY <3>2 DEF RequiresAction
      <3>4. QED BY <3>1, <3>2, <3>3 DEF Reason, Superseded
    <2>5. IsCurrent(x)' \/ x \in e.acks \/ x \in Waived(e)
      BY <2>1
    <2>6. QED BY <2>3, <2>4, <2>5
  <1>5. RequiredRecipients(e)'
    BY <1>1, <1>3, <1>4 DEF RestoresOpen, RequiredRecipients, OfMembers
  <1>6. AcknowledgementsRestore(e)'
    <2> SUFFICES ASSUME NEW x \in d.acks
                 PROVE  x \in d.need /\ InTarget(x, d.target)
                        /\ (x # ThePrimary => x.gen <= member'[x.actor].gen)
      BY <1>1 DEF AcknowledgementsRestore, InTarget
    <2>1. x \in d.need /\ InTarget(x, d.target) /\ (x # ThePrimary => x.gen <= member[x.actor].gen)
      BY DEF RestoresOpen, AcknowledgementsRestore
    <2>2. QED BY <1>2, <2>1 DEF OfMembers, Onward
  <1>7. ContextRestores(e)'
    BY <1>1 DEF RestoresOpen, ContextRestores, Onward
  <1>8. QED BY <1>5, <1>6, <1>7 DEF RestoresOpen

\* Waived for a true reason, a delivery is as truthful as it was.
LEMMA StillTruthful ==
  ASSUME NEW d \in Delivery, Truthful(d)', NEW S \in SUBSET Reader, NEW reasons \in Reasons(S),
         S \subseteq OfMembers(Unread(d)),
         \A x \in S :
           /\ reasons[x].epoch = x.team
           /\ IF reasons[x].why = "superseded" THEN x.team < team'.epoch
              ELSE /\ x.team = team'.epoch /\ team'.status \in {"Closing", "Closed"}
                   /\ ~RequiresAction(d.kind, d.req)',
         NEW e, e = Waive(d, reasons)
  PROVE  /\ SameMessage(d, e) /\ e.acks = d.acks /\ e.retired = d.retired
         /\ Waived(e) = Waived(d) \cup S /\ Truthful(e)'
  <1>1. /\ SameMessage(d, e) /\ e.acks = d.acks /\ e.retired = d.retired
        /\ Waived(e) = Waived(d) \cup S
        /\ \A x \in Waived(d) : e.waived[x] = d.waived[x]
        /\ \A x \in S \ Waived(d) : e.waived[x] = reasons[x]
    BY Waiving
  <1>2. \A x \in S : x \in OfMembers(d.need) /\ x \notin d.acks
    BY DEF Unread, OfMembers
  <1>3. Truthful(e)'
    BY <1>1, <1>2 DEF Truthful, SameMessage
  <1>4. QED BY <1>1, <1>3

\* A step that waives recipients, seen from one delivery.
WaivedTo(d, e) ==
  /\ SameMessage(d, e) /\ e.acks = d.acks /\ e.retired = d.retired
  /\ Waived(d) \subseteq Waived(e)

LEMMA CloseWaives ==
  ASSUME MailInv, CloseTeam, NEW m \in Messages, mailbox[m] # NoDelivery
  PROVE  /\ WaivedTo(mailbox[m], RetireObsolete[m]) /\ RetireObsolete[m] # NoDelivery
         /\ \A e : e = RetireObsolete[m] => RestoresOpen(e)'
         /\ mailbox[m].retired => RetireObsolete[m] = mailbox[m]
  <1>1. PICK d : d = mailbox[m]
    OBVIOUS
  <1>2. /\ d \in Delivery /\ RestoresOpen(d)
        /\ \A x \in d.need : x # ThePrimary =>
             /\ x.actor \in Members /\ x.gen \in 1 .. member[x.actor].gen
             /\ x.team \in 1 .. team.epoch
             /\ IsCurrent(x) \/ x \in d.acks \/ x \in Waived(d)
    BY <1>1, MailIs DEF RestoresOpen, RequiredRecipients, AcknowledgementsRestore,
       ContextRestores, Truthful, CurrentOrResolved, DirectiveRecipients, InTarget
  <1>3. /\ Undisturbed /\ Onward /\ team'.epoch = team.epoch /\ team'.status = "Closed"
        /\ UNCHANGED <<member, request>>
    <2>1. team' = [team EXCEPT !.status = "Closed"] /\ UNCHANGED <<member, request>>
      BY DEF CloseTeam
    <2>2. team'.epoch = team.epoch /\ team'.status = "Closed" /\ team.epoch \in Nat
      BY <2>1, MailboxAssumption DEF MailInv, TeamTyped, Team
    <2>3. \A a \in Members : member[a].gen \in Nat
      BY DEF MailInv, TeamTyped, Member
    <2>4. QED BY <2>1, <2>2, <2>3 DEF Undisturbed, Onward
  <1>4. RestoresOpen(d)'
    BY <1>2, <1>3, Carries
  <1>5. CASE d.retired \/ RequiresAction(d.kind, d.req)
    <2>1. RetireObsolete[m] = mailbox[m]
      BY <1>1, <1>5 DEF RetireObsolete
    <2>2. QED BY <1>1, <1>2, <1>4, <2>1, SomeDelivery DEF WaivedTo, SameMessage
  <1>6. CASE ~d.retired /\ ~RequiresAction(d.kind, d.req)
    <2>1. PICK S : S = OfMembers(Unread(d))
      OBVIOUS
    <2>2. PICK reasons : reasons = ClosedOrSuperseded(S)
      OBVIOUS
    <2>3. PICK e : e = Waive(d, reasons)
      OBVIOUS
    <2>4. RetireObsolete[m] = e
      BY <1>1, <1>6, <2>1, <2>2, <2>3 DEF RetireObsolete
    <2>5. S \in SUBSET Reader /\ S \subseteq OfMembers(d.need)
      BY <1>2, <2>1 DEF OfMembers, Unread, Delivery
    <2>6. \A x \in S : x.team \in 1 .. team.epoch /\ x.team \in 0 .. MaxTeamEpoch
      BY <1>2, <2>5, ReaderIs DEF OfMembers
    <2>7. reasons \in Reasons(S)
      BY <2>2, <2>6 DEF Reasons, ClosedOrSuperseded, Closed, Superseded, Reason
    <2>8. ~RequiresAction(d.kind, d.req)'
      BY <1>3, <1>6 DEF RequiresAction, Blocking
    <2>9. \A x \in S :
            /\ reasons[x].epoch = x.team
            /\ IF reasons[x].why = "superseded" THEN x.team < team'.epoch
               ELSE /\ x.team = team'.epoch /\ team'.status \in {"Closing", "Closed"}
                    /\ ~RequiresAction(d.kind, d.req)'
      <3> SUFFICES ASSUME NEW x \in S
                   PROVE  /\ reasons[x].epoch = x.team
                          /\ IF reasons[x].why = "superseded" THEN x.team < team'.epoch
                             ELSE /\ x.team = team'.epoch
                                  /\ team'.status \in {"Closing", "Closed"}
        BY <2>8
      <3>1. reasons[x] = IF x.team = team.epoch THEN Closed(x.team) ELSE Superseded(x.team)
        BY <2>2 DEF ClosedOrSuperseded
      <3>2. x.team \in Nat /\ team.epoch \in Nat /\ x.team <= team.epoch
        BY <1>3, <2>6 DEF Onward
      <3>3. QED BY <1>3, <3>1, <3>2 DEF Closed, Superseded
    <2>10. Truthful(d)'
      BY <1>4 DEF RestoresOpen
    <2>11. /\ SameMessage(d, e) /\ e.acks = d.acks /\ e.retired = d.retired
           /\ Waived(e) = Waived(d) \cup S /\ Truthful(e)'
      BY <1>2, <2>1, <2>3, <2>5, <2>7, <2>9, <2>10, StillTruthful
    <2>12. \A x \in OfMembers(d.need) :
             /\ IsCurrent(x)' \/ x \in d.acks \/ x \in Waived(e)
             /\ IsCurrent(x) => IsCurrent(x)' \/ x.team < team'.epoch
      BY <1>2, <1>3, <2>11 DEF OfMembers, IsCurrent
    <2>13. RestoresOpen(e)'
      BY <1>2, <1>3, <2>11, <2>12, WaivingRestores
    <2>14. e # NoDelivery
      BY <2>11, SomeDelivery DEF SameMessage
    <2>15. QED
      <3>1. WaivedTo(d, e) /\ ~d.retired
        BY <1>6, <2>11 DEF WaivedTo
      <3>2. \A f : f = RetireObsolete[m] => RestoresOpen(f)'
        <4> SUFFICES ASSUME NEW f, f = RetireObsolete[m] PROVE RestoresOpen(f)'
          OBVIOUS
        <4>1. f = e
          BY <2>4
        <4>2. QED BY <2>13, <4>1
      <3>3. QED BY <1>1, <2>4, <2>14, <3>1, <3>2
  <1>7. QED BY <1>5, <1>6

\* What a step that waives recipients leaves of the invariant.
LEMMA WaiversKeep ==
  ASSUME MailInv, NEW box \in [Messages -> Delivery \cup {NoDelivery}], NEW req, req = request',
         mailbox' = Retired(box, req),
         \A m \in Messages : mailbox[m] = NoDelivery => box[m] = NoDelivery,
         \A m \in Messages : mailbox[m] # NoDelivery =>
           /\ WaivedTo(mailbox[m], box[m]) /\ RestoresOpen(box[m])'
           /\ mailbox[m].retired => Resolved(box[m], req),
         team'.status = "Closed" => team.status \in {"Closing", "Closed"},
         team'.status # "Closing"
  PROVE  MailTyped' /\ EveryDeliveryRestores' /\ ClosingOwesNothing' /\ Grew
  <1>1. \A n \in Messages : box[n] # NoDelivery =>
          RestoresOpen(box[n])' /\ (box[n].retired => Resolved(box[n], req))
    BY DEF WaivedTo
  <1>2. \A n \in Messages : mailbox[n] # NoDelivery =>
          /\ box[n] # NoDelivery /\ SameMessage(mailbox[n], box[n])
          /\ mailbox[n].acks \subseteq box[n].acks /\ Waived(mailbox[n]) \subseteq Waived(box[n])
          /\ mailbox[n].retired => box[n].retired
    BY SomeDelivery DEF WaivedTo, SameMessage
  <1>3. /\ MailTyped' /\ EveryDeliveryRestores' /\ Grew
        /\ \A n \in Messages : mailbox'[n] # NoDelivery => box[n] # NoDelivery
    BY <1>1, <1>2, Became
  <1>4. \A n \in Messages : mailbox[n] = NoDelivery => mailbox'[n] = NoDelivery
    BY <1>3
  <1>5. ClosingOwesNothing'
    BY <1>3, <1>4, StillNothingOwed DEF MailInv
  <1>6. QED BY <1>3, <1>5

LEMMA CloseTeamKeeps ==
  ASSUME MailInv, CloseTeam
  PROVE  MailInv' /\ Grew
  <1>1. PICK box : box = RetireObsolete
    OBVIOUS
  <1>2. PICK req : req = request
    OBVIOUS
  <1>3. /\ mailbox' = Retired(box, req) /\ req = request'
        /\ team' = [team EXCEPT !.status = "Closed"]
        /\ UNCHANGED <<member, primary, request>>
        /\ team.status = "Closing"
    BY <1>1, <1>2 DEF CloseTeam
  <1>4. team' \in Team /\ team'.epoch = team.epoch /\ team'.status = "Closed"
    BY <1>3 DEF MailInv, TeamTyped, Team
  <1>5. \A m \in Messages : mailbox[m] # NoDelivery =>
          /\ WaivedTo(mailbox[m], box[m]) /\ RestoresOpen(box[m])'
          /\ mailbox[m].retired => Resolved(box[m], req)
    <2> SUFFICES ASSUME NEW m \in Messages, mailbox[m] # NoDelivery
                 PROVE  /\ WaivedTo(mailbox[m], box[m]) /\ RestoresOpen(box[m])'
                        /\ mailbox[m].retired => Resolved(box[m], req)
      OBVIOUS
    <2>1. /\ WaivedTo(mailbox[m], box[m])
          /\ \A e : e = box[m] => RestoresOpen(e)'
          /\ mailbox[m].retired => box[m] = mailbox[m]
      BY <1>1, CloseWaives
    <2>2. RestoresOpen(box[m])'
      BY <2>1
    <2>3. mailbox[m].retired => Resolved(mailbox[m], req)
      BY <1>2, MailIs
    <2>4. QED BY <2>1, <2>2, <2>3
  <1>6. \A m \in Messages : mailbox[m] = NoDelivery => box[m] = NoDelivery
    BY <1>1 DEF RetireObsolete
  <1>7. box \in [Messages -> Delivery \cup {NoDelivery}]
    <2>1. \A m \in Messages : box[m] \in Delivery \cup {NoDelivery}
      BY <1>5, <1>6 DEF WaivedTo, SameMessage
    <2>2. box = [m \in Messages |-> box[m]]
      BY <1>1 DEF RetireObsolete
    <2>3. QED BY <2>1, <2>2
  <1>8. MailTyped' /\ EveryDeliveryRestores' /\ ClosingOwesNothing' /\ Grew
    BY <1>3, <1>4, <1>5, <1>6, <1>7, WaiversKeep
  <1>9. TeamTyped' /\ WorkTyped' /\ GenerationsFollow'
    BY <1>3, <1>4 DEF MailInv, TeamTyped, WorkTyped, GenerationsFollow
  <1>10. WorkFollows'
    <2>1. \A r \in Requests : request[r].st # "Blocking"
      BY MailboxAssumption DEF CloseTeam, Idle, BlockingRequests, Blocking
    <2>2. QED BY <1>3, <1>4, <2>1 DEF MailInv, WorkFollows
  <1>11. QED BY <1>8, <1>9, <1>10 DEF MailInv

\* What replacing a member does to the team, its generations and its work.
LEMMA ReplaceMoves ==
  ASSUME MailInv, NEW a \in Members, Replace(a)
  PROVE  /\ team' \in Team /\ team'.epoch = team.epoch + 1
         /\ team.status = "Active" /\ team'.status = "Active"
         /\ member' \in [Members -> Member] /\ primary' = primary
         /\ \A b \in Members : member'[b].gen = IF b = a THEN member[a].gen + 1 ELSE member[b].gen
         /\ Onward /\ GenerationsFollow'
  <1>1. team.epoch \in 1 .. MaxTeamEpoch /\ MaxTeamEpoch \in Nat
    BY MailboxAssumption DEF MailInv, TeamTyped, Team
  <1>2. team.epoch < MaxTeamEpoch
    <2>1. CASE member[a].status = "Stopped"
      BY <2>1 DEF Replace
    <2>2. CASE Reserve
      <3> DEFINE Out == {b \in Members : member[b].status = "Stopped"}
      <3>1. IsFiniteSet(Out)
        BY FS_Subset, MailboxAssumption
      <3>2. Cardinality(Out) \in Nat
        BY <3>1, FS_CardinalityType
      <3>3. team.epoch + Cardinality(Out) < MaxTeamEpoch
        BY <2>2 DEF Reserve
      <3> HIDE DEF Out
      <3>4. QED BY <1>1, <3>2, <3>3
    <2>3. QED BY <2>1, <2>2 DEF Replace
  <1>3. team' \in Team /\ team'.epoch = team.epoch + 1 /\ team'.status = team.status
    <2>1. team \in Team /\ team' = [team EXCEPT !.epoch = team.epoch + 1]
      BY DEF Replace, MailInv, TeamTyped
    <2>2. team.epoch + 1 \in 1 .. MaxTeamEpoch
      BY <1>1, <1>2
    <2>3. QED BY <2>1, <2>2 DEF Team
  <1>4. /\ member[a] \in Member /\ member[a].gen \in 1 .. MaxTeamEpoch
        /\ member[a].gen <= team.epoch
    BY DEF MailInv, TeamTyped, GenerationsFollow, Member
  <1>5. [gen |-> member[a].gen + 1, status |-> "Healthy"] \in Member
    BY <1>1, <1>2, <1>4 DEF Member
  <1>6. member' = [member EXCEPT ![a] = [gen |-> member[a].gen + 1, status |-> "Healthy"]]
    BY DEF Replace
  <1>7. /\ member' \in [Members -> Member]
        /\ \A b \in Members : member'[b].gen = IF b = a THEN member[a].gen + 1 ELSE member[b].gen
    BY <1>5, <1>6 DEF MailInv, TeamTyped
  <1>8. \A b \in Members : member[b].gen \in 1 .. MaxTeamEpoch /\ member[b].gen <= team.epoch
    BY DEF MailInv, TeamTyped, GenerationsFollow, Member
  <1>9. GenerationsFollow'
    BY <1>1, <1>3, <1>7, <1>8 DEF GenerationsFollow
  <1>10. \A r \in Requests : request'[r].st = request[r].st
    BY DEF Replace, MailInv, WorkTyped, Request
  <1>11. Onward
    BY <1>1, <1>3, <1>7, <1>8, <1>10 DEF Onward
  <1>12. QED BY <1>3, <1>7, <1>9, <1>11 DEF Replace

LEMMA ReplaceWork ==
  ASSUME MailInv, NEW a \in Members, Replace(a)
  PROVE  /\ WorkTyped' /\ WorkFollows'
         /\ \A r \in Requests : request'[r].st = request[r].st
  <1>1. /\ team.epoch \in Nat /\ team'.epoch = team.epoch + 1
        /\ team'.epoch \in 1 .. MaxTeamEpoch /\ team'.status = "Active"
        /\ \A b \in Members :
             /\ member'[b].gen = IF b = a THEN member[a].gen + 1 ELSE member[b].gen
             /\ member[b].gen \in 1 .. MaxTeamEpoch /\ member'[b].gen \in 1 .. MaxTeamEpoch
    <2>1. /\ team' \in Team /\ team'.epoch = team.epoch + 1 /\ team'.status = "Active"
          /\ member' \in [Members -> Member]
          /\ \A b \in Members : member'[b].gen = IF b = a THEN member[a].gen + 1 ELSE member[b].gen
      BY ReplaceMoves
    <2>2. QED BY <2>1 DEF MailInv, TeamTyped, Team, Member
  <1>2. ASSUME NEW r \in Requests
        PROVE  /\ request'[r] \in Request /\ request'[r].st = request[r].st
               /\ request[r].st # "None" =>
                    /\ request'[r].by.actor \in Members
                    /\ request'[r].by.gen \in 1 .. member'[request'[r].by.actor].gen
                    /\ request'[r].epoch \in 1 .. team'.epoch
                    /\ request[r].st = "Blocking" => request'[r].epoch = team'.epoch
    <2>1. request[r] \in Request
      BY DEF MailInv, WorkTyped
    <2>2. request[r].st # "None" =>
            /\ request[r].by.actor \in Members
            /\ request[r].by.gen \in 1 .. member[request[r].by.actor].gen
            /\ request[r].epoch \in 1 .. team.epoch
      BY DEF MailInv, WorkFollows
    <2>3. CASE request[r].st \notin {"Blocking", "Settled"}
      <3>1. request'[r] = request[r]
        BY <2>3 DEF Replace
      <3>2. QED BY <1>1, <2>1, <2>2, <2>3, <3>1
    <2>4. CASE request[r].st \in {"Blocking", "Settled"}
      <3> DEFINE by == IF request[r].by.actor = a
                       THEN [request[r].by EXCEPT !.gen = member[a].gen + 1]
                       ELSE request[r].by
      <3>1. request'[r] = [request[r] EXCEPT !.epoch = team.epoch + 1, !.by = by]
        <4>1. request'[r] = [request[r] EXCEPT !.epoch = team.epoch + 1,
                 !.by = IF @.actor = a THEN [@ EXCEPT !.gen = member[a].gen + 1] ELSE @]
          BY <2>4 DEF Replace
        <4>2. QED BY <4>1, <2>1 DEF Request
      <3>2. member[a].gen + 1 \in 1 .. MaxTeamEpoch /\ MaxTeamEpoch \in Nat
        BY <1>1, MailboxAssumption
      <3>3. /\ by \in Recipient /\ by.actor = request[r].by.actor
            /\ by.gen = IF request[r].by.actor = a THEN member[a].gen + 1 ELSE request[r].by.gen
        BY <2>1, <3>2 DEF Request, Recipient
      <3> HIDE DEF by
      <3>4. /\ request'[r] \in Request /\ request'[r].st = request[r].st
            /\ request'[r].epoch = team.epoch + 1 /\ request'[r].by = by
        <4>1. PICK t : t = team.epoch + 1
          OBVIOUS
        <4>2. t \in 0 .. MaxTeamEpoch
          BY <1>1, <3>2, <4>1
        <4>3. request'[r] = [st |-> request[r].st, epoch |-> t, by |-> by]
          BY <2>1, <3>1, <4>1 DEF Request
        <4>4. QED BY <2>1, <3>3, <4>1, <4>2, <4>3 DEF Request
      <3>5. request'[r].by.gen \in 1 .. member'[request'[r].by.actor].gen
        BY <1>1, <2>2, <2>4, <3>3, <3>4
      <3>6. QED BY <1>1, <2>2, <2>4, <3>3, <3>4, <3>5
    <2>5. QED BY <2>3, <2>4
  <1>3. request' = [r \in Requests |-> request'[r]]
    BY DEF Replace
  <1>4. WorkTyped'
    BY <1>2, <1>3 DEF WorkTyped
  <1>5. WorkFollows'
    BY <1>1, <1>2 DEF WorkFollows
  <1>6. QED BY <1>2, <1>4, <1>5

LEMMA ReplaceWaives ==
  ASSUME MailInv, NEW a \in Members, Replace(a), NEW m \in Messages, mailbox[m] # NoDelivery,
         NEW e, e = SupersedeGeneration(a)[m]
  PROVE  /\ WaivedTo(mailbox[m], e) /\ RestoresOpen(e)'
         /\ mailbox[m].retired => e = mailbox[m]
  <1>1. PICK d : d = mailbox[m]
    OBVIOUS
  <1>2. /\ d \in Delivery /\ RestoresOpen(d) /\ (d.retired => Unread(d) = {})
        /\ \A x \in d.need : x # ThePrimary =>
             /\ x.actor \in Members /\ x.gen \in 1 .. member[x.actor].gen
             /\ x.team \in 1 .. team.epoch
             /\ IsCurrent(x) \/ x \in d.acks \/ x \in Waived(d)
    BY <1>1, MailIs DEF RestoresOpen, RequiredRecipients, AcknowledgementsRestore,
       ContextRestores, Truthful, CurrentOrResolved, DirectiveRecipients, InTarget, Resolved
  <1>3. /\ Onward /\ team'.epoch = team.epoch + 1 /\ team.status = "Active"
        /\ team.epoch \in Nat
    BY ReplaceMoves DEF Onward
  <1>4. \A x \in Waived(d) : x \in OfMembers(d.need)
    BY <1>2 DEF RestoresOpen, Truthful
  <1>5. Truthful(d)'
    <2> SUFFICES ASSUME NEW x \in Waived(d)
                 PROVE  /\ x \in OfMembers(d.need) /\ x \notin d.acks /\ d.waived[x].epoch = x.team
                        /\ d.waived[x].why = "superseded" /\ x.team < team'.epoch
      BY DEF Truthful
    <2>1. /\ x \in OfMembers(d.need) /\ x \notin d.acks /\ d.waived[x].epoch = x.team
          /\ d.waived[x].why = "superseded" /\ x.team < team.epoch
      BY <1>2, <1>3 DEF RestoresOpen, Truthful
    <2>2. x.team \in Nat
      BY <1>2, <2>1 DEF OfMembers
    <2>3. QED BY <1>3, <2>1, <2>2
  <1>6. ASSUME NEW f, SameMessage(d, f), f.acks = d.acks, Truthful(f)',
               \A x \in OfMembers(d.need) : x.team = team.epoch => x \in d.acks \/ x \in Waived(f),
               Waived(d) \subseteq Waived(f)
        PROVE  RestoresOpen(f)'
    <2>1. \A x \in OfMembers(d.need) :
            /\ IsCurrent(x)' \/ x \in d.acks \/ x \in Waived(f)
            /\ IsCurrent(x) => IsCurrent(x)' \/ x.team < team'.epoch
      BY <1>2, <1>3, <1>6 DEF OfMembers, IsCurrent
    <2>2. QED BY <1>2, <1>3, <1>6, <2>1, WaivingRestores
  <1>7. CASE d.retired
    <2>1. e = d
      BY <1>1, <1>7 DEF SupersedeGeneration
    <2>2. \A x \in OfMembers(d.need) : x \in d.acks \/ x \in Waived(d)
      BY <1>2, <1>7 DEF Unread, OfMembers
    <2>3. SameMessage(d, e)
      BY <1>2, <2>1 DEF SameMessage
    <2>4. Truthful(e)'
      BY <1>5, <2>1
    <2>5. RestoresOpen(e)'
      BY <1>6, <2>1, <2>2, <2>3, <2>4
    <2>6. QED BY <1>1, <2>1, <2>3, <2>5 DEF WaivedTo
  <1>8. CASE ~d.retired
    <2>1. PICK S : S = {y \in OfMembers(Unread(d)) : y.team = team.epoch}
      OBVIOUS
    <2>2. PICK reasons : reasons = [x \in S |-> Superseded(team.epoch)]
      OBVIOUS
    <2>3. e = Waive(d, reasons)
      BY <1>1, <1>8, <2>1, <2>2 DEF SupersedeGeneration
    <2>4. S \in SUBSET Reader /\ S \subseteq OfMembers(Unread(d))
      BY <1>2, <2>1 DEF OfMembers, Unread, Delivery
    <2>5. team.epoch \in 0 .. MaxTeamEpoch
      BY MailboxAssumption DEF MailInv, TeamTyped, Team
    <2>6. reasons \in Reasons(S)
      BY <2>2, <2>5 DEF Reasons, Superseded, Reason
    <2>7. \A x \in S : /\ reasons[x].epoch = x.team /\ reasons[x].why = "superseded"
                       /\ x.team < team'.epoch
      BY <1>3, <2>1, <2>2 DEF Superseded
    <2>8. /\ SameMessage(d, e) /\ e.acks = d.acks /\ e.retired = d.retired
          /\ Waived(e) = Waived(d) \cup S /\ Truthful(e)'
      BY <1>2, <1>5, <2>3, <2>4, <2>6, <2>7, StillTruthful
    <2>9. \A x \in OfMembers(d.need) : x.team = team.epoch => x \in d.acks \/ x \in Waived(e)
      BY <2>1, <2>8 DEF OfMembers, Unread
    <2>10. RestoresOpen(e)'
      BY <1>6, <2>8, <2>9
    <2>11. QED BY <1>1, <1>8, <2>8, <2>10 DEF WaivedTo
  <1>9. QED BY <1>7, <1>8

LEMMA ReplaceKeeps ==
  ASSUME MailInv, NEW a \in Members, Replace(a)
  PROVE  MailInv' /\ Grew
  <1>1. PICK box : box = SupersedeGeneration(a)
    OBVIOUS
  <1>2. PICK req : req = request'
    OBVIOUS
  <1>3. /\ mailbox' = Retired(box, req) /\ req = request' /\ team'.status = "Active"
        /\ \A r \in Requests : req[r].st = request[r].st
    <2>1. mailbox' = Retired(SupersedeGeneration(a), request')
      BY DEF Replace
    <2>2. team'.status = "Active" /\ \A r \in Requests : request'[r].st = request[r].st
      BY ReplaceMoves, ReplaceWork
    <2>3. QED BY <1>1, <1>2, <2>1, <2>2
  <1>4. \A m \in Messages : mailbox[m] # NoDelivery =>
          /\ WaivedTo(mailbox[m], box[m]) /\ RestoresOpen(box[m])'
          /\ mailbox[m].retired => Resolved(box[m], req)
    <2> SUFFICES ASSUME NEW m \in Messages, mailbox[m] # NoDelivery
                 PROVE  /\ WaivedTo(mailbox[m], box[m]) /\ RestoresOpen(box[m])'
                        /\ mailbox[m].retired => Resolved(box[m], req)
      OBVIOUS
    <2>1. /\ WaivedTo(mailbox[m], box[m]) /\ RestoresOpen(box[m])'
          /\ mailbox[m].retired => box[m] = mailbox[m]
      <3>1. box[m] = SupersedeGeneration(a)[m]
        BY <1>1
      <3>2. QED BY <3>1, ReplaceWaives
    <2>2. mailbox[m].retired => Resolved(mailbox[m], request)
      BY MailIs
    <2>3. mailbox[m].req \in Requests \cup {NoRequest}
      BY MailIs DEF Delivery
    <2>4. mailbox[m].retired => Resolved(mailbox[m], req)
      BY <1>3, <2>2, <2>3 DEF Resolved
    <2>5. QED BY <2>1, <2>4
  <1>5. \A m \in Messages : mailbox[m] = NoDelivery => box[m] = NoDelivery
    BY <1>1 DEF SupersedeGeneration
  <1>6. box \in [Messages -> Delivery \cup {NoDelivery}]
    <2>1. \A m \in Messages : box[m] \in Delivery \cup {NoDelivery}
      BY <1>4, <1>5 DEF WaivedTo, SameMessage
    <2>2. box = [m \in Messages |-> box[m]]
      BY <1>1 DEF SupersedeGeneration
    <2>3. QED BY <2>1, <2>2
  <1>7. MailTyped' /\ EveryDeliveryRestores' /\ ClosingOwesNothing' /\ Grew
    BY <1>3, <1>4, <1>5, <1>6, WaiversKeep
  <1>8. TeamTyped' /\ WorkTyped' /\ GenerationsFollow' /\ WorkFollows'
    BY ReplaceMoves, ReplaceWork DEF MailInv, TeamTyped
  <1>9. QED BY <1>7, <1>8 DEF MailInv

LEMMA RecreateMoves ==
  ASSUME MailInv, Recreate
  PROVE  /\ team.status = "Closed" /\ team'.status = "Active" /\ team'.epoch = team.epoch + 1
         /\ TeamTyped' /\ GenerationsFollow' /\ Onward /\ WorkTyped' /\ WorkFollows'
  <1>1. /\ team.epoch \in 1 .. MaxTeamEpoch /\ MaxTeamEpoch \in Nat
        /\ team.epoch + 1 \in 1 .. MaxTeamEpoch /\ team.status = "Closed"
    BY MailboxAssumption DEF MailInv, TeamTyped, Team, Recreate
  <1>2. /\ team' \in Team /\ team'.status = "Active" /\ team'.epoch = team.epoch + 1
        /\ UNCHANGED <<primary, request>>
    BY <1>1 DEF Recreate, Team
  <1>3. \A b \in Members : member[b].gen \in 1 .. MaxTeamEpoch /\ member[b].gen <= team.epoch
    BY DEF MailInv, TeamTyped, GenerationsFollow, Member
  <1>4. \A b \in Members : [gen |-> member[b].gen + 1, status |-> "Healthy"] \in Member
    BY <1>1, <1>3 DEF Member
  <1>5. /\ member' \in [Members -> Member]
        /\ \A b \in Members : member'[b].gen = member[b].gen + 1
    BY <1>4 DEF Recreate
  <1>6. TeamTyped' /\ GenerationsFollow' /\ WorkTyped'
    BY <1>1, <1>2, <1>3, <1>5 DEF MailInv, TeamTyped, GenerationsFollow, WorkTyped
  <1>7. Onward
    BY <1>1, <1>2, <1>3, <1>5 DEF Onward
  <1>8. WorkFollows'
    <2>1. ASSUME NEW r \in Requests, request[r].st # "None"
          PROVE  /\ request[r].by.actor \in Members
                 /\ request[r].by.gen \in 1 .. member'[request[r].by.actor].gen
                 /\ request[r].epoch \in 1 .. team'.epoch
                 /\ request[r].st # "Blocking"
      <3>1. /\ request[r].by.actor \in Members
            /\ request[r].by.gen \in 1 .. member[request[r].by.actor].gen
            /\ request[r].epoch \in 1 .. team.epoch
            /\ request[r].st # "Blocking"
        BY <1>1, <2>1 DEF MailInv, WorkFollows
      <3>2. QED BY <1>1, <1>2, <1>3, <1>5, <3>1
    <2>2. QED BY <1>2, <2>1 DEF WorkFollows
  <1>9. QED BY <1>1, <1>2, <1>6, <1>7, <1>8

LEMMA RecreateWaives ==
  ASSUME MailInv, Recreate, NEW m \in Messages, mailbox[m] # NoDelivery,
         NEW e, e = SupersedeHistory[m]
  PROVE  WaivedTo(mailbox[m], e) /\ RestoresOpen(e)'
  <1>1. PICK d : d = mailbox[m]
    OBVIOUS
  <1>2. /\ d \in Delivery /\ RestoresOpen(d)
        /\ \A x \in d.need : x # ThePrimary =>
             /\ x.actor \in Members /\ x.gen \in 1 .. member[x.actor].gen
             /\ x.team \in 1 .. team.epoch
             /\ IsCurrent(x) \/ x \in d.acks \/ x \in Waived(d)
    BY <1>1, MailIs DEF RestoresOpen, RequiredRecipients, AcknowledgementsRestore,
       ContextRestores, Truthful, CurrentOrResolved, DirectiveRecipients, InTarget
  <1>3. /\ Onward /\ team'.epoch = team.epoch + 1 /\ team.epoch \in 1 .. MaxTeamEpoch
    BY RecreateMoves DEF MailInv, TeamTyped, Team
  <1>4. \A x \in OfMembers(d.need) : x.team \in 0 .. MaxTeamEpoch /\ x.team <= team.epoch
                                     /\ x.team < team'.epoch
    BY <1>2, <1>3, MailboxAssumption DEF OfMembers
  <1>5. \A x \in Waived(d) : x \in OfMembers(d.need) /\ x \notin d.acks
    BY <1>2 DEF RestoresOpen, Truthful
  <1>6. PICK xs : xs = {x \in OfMembers(d.need \ d.acks) : x.team <= team.epoch}
    OBVIOUS
  <1>7. PICK w : w = [x \in DOMAIN d.waived \cup xs |-> Superseded(x.team)]
    OBVIOUS
  <1>8. e = [d EXCEPT !.waived = w]
    BY <1>1, <1>6, <1>7 DEF SupersedeHistory
  <1>9. /\ DOMAIN w = Waived(d) \cup xs
        /\ \A x \in DOMAIN w : /\ x \in OfMembers(d.need) /\ x \notin d.acks
                               /\ w[x] = Superseded(x.team) /\ w[x] \in Reason
    <2>1. DOMAIN w = Waived(d) \cup xs
      BY <1>7 DEF Waived
    <2>2. \A x \in xs : x \in OfMembers(d.need) /\ x \notin d.acks
      BY <1>6 DEF OfMembers
    <2>3. \A x \in DOMAIN w : w[x] = Superseded(x.team)
      BY <1>7
    <2>4. \A x \in DOMAIN w : x \in OfMembers(d.need) /\ x \notin d.acks
      BY <1>5, <2>1, <2>2
    <2>5. \A x \in DOMAIN w : w[x] \in Reason
      BY <1>4, <2>3, <2>4 DEF Superseded, Reason
    <2>6. QED BY <2>1, <2>3, <2>4, <2>5
  <1>10. w \in Waivers
    <2>1. DOMAIN w \in SUBSET Reader
      BY <1>2, <1>9 DEF OfMembers, Delivery
    <2>2. w \in [DOMAIN w -> Reason]
      BY <1>7, <1>9
    <2>3. QED BY <2>1, <2>2, WaiversAre
  <1>11. SameMessage(d, e) /\ e.acks = d.acks /\ e.waived = w /\ e.retired = d.retired
    BY <1>2, <1>8, <1>10, Rewaiving
  <1>12. WaivedTo(d, e)
    BY <1>9, <1>11 DEF WaivedTo, Waived
  <1>13. Truthful(e)'
    <2>1. \A x \in Waived(e) :
            /\ x \in OfMembers(e.need) /\ x \notin e.acks /\ e.waived[x] = Superseded(x.team)
            /\ x.team < team'.epoch
      BY <1>4, <1>9, <1>11 DEF Waived, SameMessage
    <2>2. \A x \in Waived(e) :
            /\ x \in OfMembers(e.need) /\ x \notin e.acks /\ e.waived[x].epoch = x.team
            /\ e.waived[x].why = "superseded" /\ x.team < team'.epoch
      <3>1. \A t : Superseded(t).epoch = t /\ Superseded(t).why = "superseded"
        BY DEF Superseded
      <3>2. QED BY <2>1, <3>1
    <2>3. QED BY <2>2 DEF Truthful
  <1>14. \A x \in OfMembers(d.need) : x \in d.acks \/ x \in Waived(e)
    BY <1>4, <1>6, <1>9, <1>11 DEF OfMembers, Waived
  <1>15. RestoresOpen(e)'
    BY <1>2, <1>3, <1>4, <1>11, <1>13, <1>14, WaivingRestores
  <1>16. QED BY <1>1, <1>12, <1>15

LEMMA RecreateKeeps ==
  ASSUME MailInv, Recreate
  PROVE  MailInv' /\ Grew
  <1>1. PICK box : box = SupersedeHistory
    OBVIOUS
  <1>2. PICK req : req = request
    OBVIOUS
  <1>3. mailbox' = Retired(box, req) /\ req = request' /\ team'.status = "Active"
    BY <1>1, <1>2, RecreateMoves DEF Recreate
  <1>4. \A m \in Messages : mailbox[m] # NoDelivery =>
          /\ WaivedTo(mailbox[m], box[m]) /\ RestoresOpen(box[m])'
          /\ mailbox[m].retired => Resolved(box[m], req)
    <2> SUFFICES ASSUME NEW m \in Messages, mailbox[m] # NoDelivery
                 PROVE  /\ WaivedTo(mailbox[m], box[m]) /\ RestoresOpen(box[m])'
                        /\ mailbox[m].retired => Resolved(box[m], req)
      OBVIOUS
    <2>1. WaivedTo(mailbox[m], box[m]) /\ RestoresOpen(box[m])'
      <3>1. box[m] = SupersedeHistory[m]
        BY <1>1
      <3>2. QED BY <3>1, RecreateWaives
    <2>2. mailbox[m].retired => Resolved(mailbox[m], req)
      BY <1>2, MailIs
    <2>3. Resolved(mailbox[m], req) => Resolved(box[m], req)
      BY <2>1 DEF WaivedTo, SameMessage, Resolved, Unread
    <2>4. QED BY <2>1, <2>2, <2>3
  <1>5. \A m \in Messages : mailbox[m] = NoDelivery => box[m] = NoDelivery
    BY <1>1 DEF SupersedeHistory
  <1>6. box \in [Messages -> Delivery \cup {NoDelivery}]
    <2>1. \A m \in Messages : box[m] \in Delivery \cup {NoDelivery}
      BY <1>4, <1>5 DEF WaivedTo, SameMessage
    <2>2. box = [m \in Messages |-> box[m]]
      BY <1>1 DEF SupersedeHistory
    <2>3. QED BY <2>1, <2>2
  <1>7. MailTyped' /\ EveryDeliveryRestores' /\ ClosingOwesNothing' /\ Grew
    BY <1>3, <1>4, <1>5, <1>6, WaiversKeep
  <1>8. QED BY <1>7, RecreateMoves DEF MailInv

-----------------------------------------------------------------------------
(* A message is sent.                                                      *)

\* What the actions that send one have in common: what it may do to its request.
Sent(kind, target, r) ==
  /\ UNCHANGED <<team, member, primary>> /\ WorkTyped' /\ WorkFollows' /\ Undisturbed
  /\ \A q \in Requests : request[q].st = "Terminal" => request'[q].st = "Terminal"
  /\ r # NoRequest => request'[r].st # "None"
  /\ kind \in Lifecycle => r # NoRequest /\ request'[r].st = "Blocking"
  /\ kind \in Obsolete /\ r # NoRequest =>
       /\ request[r].st # "None" /\ request'[r].epoch = request[r].epoch
       /\ request[r].epoch < team.epoch =>
            request'[r].st # "Blocking" /\ AssigneeTarget(r, target)
  /\ kind \in {"Directive", "Notice"} => team.status \notin {"Closing", "Closed"}

Fresh(kind, target, r, need, w) ==
  [kind |-> kind, target |-> target, req |-> r, need |-> need, acks |-> {}, waived |-> w,
   retired |-> FALSE]

LEMMA Currently ==
  ASSUME MailInv, NEW a \in Members
  PROVE  /\ Rec(a) \in Reader \ {ThePrimary} /\ IsCurrent(Rec(a)) /\ Rec(a).actor = a
         /\ Rec(a).team = team.epoch /\ Rec(a).gen = member[a].gen
  <1>1. member[a].gen \in 1 .. MaxTeamEpoch /\ team.epoch \in 1 .. MaxTeamEpoch
    BY DEF MailInv, TeamTyped, Member, Team
  <1>2. PICK g, t : g = member[a].gen /\ t = team.epoch
    OBVIOUS
  <1>3. [actor |-> a, gen |-> g, team |-> t] \in Reader \ {ThePrimary}
    BY <1>1, <1>2, MemberReads
  <1>4. Rec(a) = [actor |-> a, gen |-> g, team |-> t]
    BY <1>2 DEF Rec
  <1>5. QED BY <1>2, <1>3, <1>4 DEF IsCurrent

\* A delivery to readers who are current, waived at once if the team is closed.
LEMMA NewCurrent ==
  ASSUME MailInv, NEW kind \in Kinds, NEW target \in Targets \cup {"Primary"},
         NEW r \in Requests \cup {NoRequest}, Sent(kind, target, r),
         ~(kind \in Obsolete /\ r # NoRequest /\ request[r].epoch < team.epoch),
         NEW need, need = Recipients(kind, target, r), need # {},
         NEW w, w = InitialWaivers(kind, r, need),
         NEW e, e = Fresh(kind, target, r, need, w)
  PROVE  e \in Delivery /\ RestoresOpen(e)'
  <1>1. \/ target = "Primary" /\ need = {ThePrimary}
        \/ target = "Team" /\ \E B \in SUBSET Members : need = {Rec(a) : a \in B}
        \/ target \in Members /\ need = {Rec(target)}
    <2>1. CASE target = "Primary"
      BY <2>1 DEF Recipients
    <2>2. CASE target = "Team"
      <3>1. need = {Rec(a) : a \in {b \in Members :
              \/ kind = "Directive" \/ (kind \in Obsolete /\ team.status = "Closed")
              \/ member[b].status # "Stopped"}}
        BY <2>2 DEF Recipients
      <3>2. QED BY <2>2, <3>1
    <2>3. CASE target \in Members
      <3>1. target # "Team" /\ target # "Primary"
        BY <2>3, MailboxAssumption
      <3>2. QED BY <2>3, <3>1 DEF Recipients
    <2>4. QED BY <2>1, <2>2, <2>3 DEF Targets
  <1>2. \A x \in need : x \in Reader /\
          IF x = ThePrimary THEN target = "Primary"
          ELSE /\ x.actor \in Members /\ x = Rec(x.actor) /\ target \in {"Team", x.actor}
    <2>1. CASE target = "Primary" /\ need = {ThePrimary}
      BY <2>1 DEF Reader
    <2>2. ASSUME target = "Team", NEW B \in SUBSET Members, need = {Rec(a) : a \in B}
          PROVE  \A x \in need : x \in Reader /\ x # ThePrimary /\ x.actor \in Members
                                 /\ x = Rec(x.actor)
      BY <2>2, Currently
    <2>3. CASE target \in Members /\ need = {Rec(target)}
      BY <2>3, Currently
    <2>4. QED BY <1>1, <2>1, <2>2, <2>3
  <1>3. \A x \in OfMembers(need) :
          /\ x \in Reader /\ x.actor \in Members /\ x = Rec(x.actor)
          /\ IsCurrent(x) /\ x.team = team.epoch /\ x.gen = member[x.actor].gen
    BY <1>2, Currently DEF OfMembers
  <1>4. \/ w = NoWaivers
        \/ w = ClosedOrSuperseded(OfMembers(need)) /\ team.status = "Closed" /\ kind \in Obsolete
    <2>1. CASE kind \in {"Directive", "Notice"}
      BY <2>1 DEF InitialWaivers
    <2>2. CASE kind \in Lifecycle
      BY <2>2 DEF InitialWaivers, Sent
    <2>3. CASE kind \in Obsolete
      <3>1. ~(r # NoRequest /\ request'[r].epoch < team.epoch)
        BY <2>3 DEF Sent
      <3>2. kind \notin {"Directive", "Notice"} /\ kind \notin Lifecycle
        BY <2>3 DEF Obsolete, Lifecycle
      <3>3. w = IF team.status = "Closed" THEN ClosedOrSuperseded(OfMembers(need)) ELSE NoWaivers
        BY <3>1, <3>2 DEF InitialWaivers
      <3>4. QED BY <2>3, <3>3
    <2>4. QED BY <2>1, <2>2, <2>3 DEF Kinds, Lifecycle, Obsolete
  <1>5. team.epoch \in 0 .. MaxTeamEpoch /\ team.epoch \in Nat
    BY MailboxAssumption DEF MailInv, TeamTyped, Team
  <1>6. /\ w \in Waivers
        /\ \A x \in DOMAIN w : /\ x \in OfMembers(need) /\ w[x] = Closed(x.team)
                               /\ team.status = "Closed" /\ kind \in Obsolete
    <2>1. CASE w = NoWaivers
      <3>1. DOMAIN w = {} /\ w \in [{} -> Reason]
        BY <2>1 DEF NoWaivers
      <3>2. QED BY <3>1, WaiversAre
    <2>2. CASE w = ClosedOrSuperseded(OfMembers(need)) /\ team.status = "Closed" /\ kind \in Obsolete
      <3>1. w = [x \in OfMembers(need) |->
                   IF x.team = team.epoch THEN Closed(x.team) ELSE Superseded(x.team)]
        BY <2>2 DEF ClosedOrSuperseded
      <3>2. DOMAIN w = OfMembers(need) /\ \A x \in OfMembers(need) : w[x] = Closed(x.team)
        BY <1>3, <3>1
      <3>3. \A x \in OfMembers(need) : w[x] \in Reason
        BY <1>3, <1>5, <3>2 DEF Closed, Reason
      <3>4. w \in [OfMembers(need) -> Reason] /\ OfMembers(need) \in SUBSET Reader
        BY <1>3, <3>1, <3>2, <3>3
      <3>5. QED BY <2>2, <3>2, <3>4, WaiversAre
    <2>3. QED BY <1>4, <2>1, <2>2
  <1>7. need \in (SUBSET Reader) \ {{}}
    BY <1>2
  <1>8. /\ e \in Delivery /\ e.kind = kind /\ e.target = target /\ e.req = r /\ e.need = need
        /\ e.acks = {} /\ e.waived = w
    BY <1>6, <1>7 DEF Fresh, Delivery
  <1>9. \A x \in OfMembers(need) : IsCurrent(x)' /\ x.gen <= member'[x.actor].gen /\ x.team <= team'.epoch
    <2>1. \A x \in OfMembers(need) : x.gen \in Nat
      BY <1>3 DEF MailInv, TeamTyped, Member
    <2>2. QED BY <1>3, <1>5, <2>1 DEF Sent, IsCurrent
  <1>10. \A x \in need : InTarget(x, target)
    BY <1>2 DEF InTarget
  <1>11. RequiredRecipients(e)'
    <2>1. \A x, y \in OfMembers(e.need) : x.actor = y.actor /\ x.gen = y.gen => x = y
      BY <1>3, <1>8
    <2>2. e.target # "Team" => Cardinality(e.need) = 1
      <3>1. \A x : Cardinality({x}) = 1
        BY FS_Singleton
      <3>2. QED BY SMTT(40), <1>1, <1>8, <3>1
    <2>3. \A x \in e.need : IF x = ThePrimary THEN e.target = "Primary" ELSE CurrentOrResolved(e, x)'
      BY <1>2, <1>8, <1>9, <1>10 DEF CurrentOrResolved, InTarget, OfMembers
    <2>4. e.kind = "Directive" /\ e.target = "Team" => DirectiveRecipients(e)'
      BY <1>2, <1>8, <1>9, MailboxAssumption DEF DirectiveRecipients, OfMembers
    <2>5. QED BY <2>1, <2>2, <2>3, <2>4 DEF RequiredRecipients
  <1>12. AcknowledgementsRestore(e)'
    BY <1>8 DEF AcknowledgementsRestore
  <1>13. ContextRestores(e)'
    BY <1>8 DEF ContextRestores, Sent
  <1>14. Truthful(e)'
    <2>1. \A t : Closed(t).epoch = t /\ Closed(t).why = "closed"
      BY DEF Closed
    <2>2. kind \in Obsolete => ~RequiresAction(kind, r)'
      BY DEF RequiresAction, Obsolete, Lifecycle
    <2>3. \A x \in Waived(e) :
            /\ x \in OfMembers(e.need) /\ x \notin e.acks /\ e.waived[x].epoch = x.team
            /\ e.waived[x].why = "closed" /\ team.status = "Closed" /\ x.team = team.epoch
            /\ kind \in Obsolete
      BY <1>3, <1>6, <1>8, <2>1 DEF Waived
    <2>4. QED BY <1>8, <2>2, <2>3 DEF Truthful, Sent
  <1>15. QED BY <1>8, <1>11, <1>12, <1>13, <1>14 DEF RestoresOpen

\* The outcome of work an earlier generation did goes to whoever did it, and is waived.
LEMMA NewOld ==
  ASSUME MailInv, NEW kind \in Obsolete, NEW target \in Targets \cup {"Primary"},
         NEW r \in Requests, Sent(kind, target, r), request[r].epoch < team.epoch,
         NEW need, need = Recipients(kind, target, r),
         NEW w, w = InitialWaivers(kind, r, need),
         NEW e, e = Fresh(kind, target, r, need, w)
  PROVE  e \in Delivery /\ RestoresOpen(e)'
  <1>1. PICK g, t, a : g = request[r].by.gen /\ t = request[r].epoch /\ a = request[r].by.actor
    OBVIOUS
  <1>2. r # NoRequest /\ kind \in Kinds /\ kind \notin {"Directive", "Notice"}
        /\ kind \notin Lifecycle /\ kind # "Directive"
    BY MailboxAssumption DEF Obsolete, Kinds, Lifecycle
  <1>3. /\ request[r].st # "None" /\ request'[r].st # "None" /\ request'[r].epoch = t
        /\ request'[r].st # "Blocking" /\ target \in {"Team", a}
    BY <1>1, <1>2 DEF Sent, AssigneeTarget
  <1>4. /\ a \in Members /\ g \in 1 .. member[a].gen /\ t \in 1 .. team.epoch
        /\ member[a].gen \in 1 .. MaxTeamEpoch /\ team.epoch \in 1 .. MaxTeamEpoch
        /\ MaxTeamEpoch \in Nat /\ t < team.epoch
    <2>1. a \in Members /\ g \in 1 .. member[a].gen /\ t \in 1 .. team.epoch /\ t < team.epoch
      BY <1>1, <1>3 DEF MailInv, WorkFollows
    <2>2. QED BY <2>1, MailboxAssumption DEF MailInv, TeamTyped, Member, Team
  <1>5. PICK x : x = [actor |-> a, gen |-> g, team |-> t]
    OBVIOUS
  <1>6. g \in 1 .. MaxTeamEpoch /\ t \in 1 .. MaxTeamEpoch /\ t \in 0 .. MaxTeamEpoch
    BY <1>4
  <1>7. x \in Reader \ {ThePrimary} /\ x.actor = a /\ x.gen = g /\ x.team = t
    BY <1>4, <1>5, <1>6, MemberReads
  <1>8. need = {x}
    <2>1. request[r].by \in Recipient
      BY DEF MailInv, WorkTyped, Request
    <2>2. [request[r].by EXCEPT !.team = request[r].epoch] = x
      BY <1>1, <1>5, <2>1 DEF Recipient
    <2>3. QED BY <1>2, <2>2 DEF Recipients
  <1>9. OfMembers(need) = {x}
    BY <1>7, <1>8 DEF OfMembers
  <1>10. w = [y \in {x} |-> Superseded(t)]
    <2>1. request'[r].epoch < team.epoch
      BY <1>3, <1>4
    <2>2. w = [y \in OfMembers(need) |-> Superseded(request'[r].epoch)]
      BY <1>2, <1>3, <2>1 DEF InitialWaivers
    <2>3. QED BY <1>3, <1>9, <2>2
  <1>11. w \in Waivers /\ DOMAIN w = {x} /\ w[x].epoch = t /\ w[x].why = "superseded"
    <2>1. Superseded(t) \in Reason /\ Superseded(t).epoch = t /\ Superseded(t).why = "superseded"
      BY <1>6 DEF Superseded, Reason
    <2>2. w \in [{x} -> Reason] /\ DOMAIN w = {x} /\ w[x] = Superseded(t)
      BY <1>10, <2>1
    <2>3. {x} \in SUBSET Reader
      BY <1>7
    <2>4. QED BY <2>1, <2>2, <2>3, WaiversAre
  <1>12. /\ e \in Delivery /\ e.kind = kind /\ e.target = target /\ e.req = r /\ e.need = {x}
         /\ e.acks = {} /\ e.waived = w
    <2>1. need \in (SUBSET Reader) \ {{}}
      BY <1>7, <1>8
    <2>2. QED BY <1>2, <1>8, <1>11, <2>1 DEF Fresh, Delivery
  <1>13. InTarget(x, target)
    BY <1>3, <1>7 DEF InTarget
  <1>14. RequiredRecipients(e)'
    <2>1. Cardinality(e.need) = 1
      BY <1>12, FS_Singleton
    <2>2. x.gen <= member'[x.actor].gen /\ x.team <= team'.epoch /\ x \in Waived(e)
      BY <1>4, <1>7, <1>11, <1>12 DEF Sent, Waived
    <2>3. CurrentOrResolved(e, x)'
      BY <1>12, <1>13, <2>2 DEF CurrentOrResolved, InTarget
    <2>4. \A y \in e.need : IF y = ThePrimary THEN e.target = "Primary" ELSE CurrentOrResolved(e, y)'
      <3> SUFFICES ASSUME NEW y \in e.need
                   PROVE  y # ThePrimary /\ CurrentOrResolved(e, y)'
        OBVIOUS
      <3>1. y = x
        BY <1>12
      <3>2. QED BY <1>7, <2>3, <3>1
    <2>5. \A y, z \in OfMembers(e.need) : y = z
      BY <1>12 DEF OfMembers
    <2>6. QED BY <1>2, <1>12, <2>1, <2>4, <2>5 DEF RequiredRecipients
  <1>15. AcknowledgementsRestore(e)'
    BY <1>12 DEF AcknowledgementsRestore
  <1>16. ContextRestores(e)'
    BY <1>3, <1>12 DEF ContextRestores
  <1>17. Truthful(e)'
    <2>1. x.team < team'.epoch
      BY <1>4, <1>7 DEF Sent
    <2>2. Waived(e) = {x} /\ OfMembers(e.need) = {x}
      BY <1>8, <1>9, <1>11, <1>12 DEF Waived
    <2>3. QED BY <1>7, <1>11, <1>12, <2>1, <2>2 DEF Truthful
  <1>18. QED BY <1>12, <1>14, <1>15, <1>16, <1>17 DEF RestoresOpen

LEMMA DeliverKeeps ==
  ASSUME MailInv, NEW m \in Messages, NEW kind \in Kinds, NEW target \in Targets \cup {"Primary"},
         NEW r \in Requests \cup {NoRequest}, Sent(kind, target, r), Deliver(m, kind, target, r)
  PROVE  MailInv' /\ Grew
  <1>1. PICK need : need = Recipients(kind, target, r)
    OBVIOUS
  <1>2. PICK w : w = InitialWaivers(kind, r, need)
    OBVIOUS
  <1>3. PICK e : e = Fresh(kind, target, r, need, w)
    OBVIOUS
  <1>4. PICK req : req = request'
    OBVIOUS
  <1>5. PICK box : box = [mailbox EXCEPT ![m] = e]
    OBVIOUS
  <1>6. mailbox[m] = NoDelivery /\ need # {} /\ mailbox' = Retired(box, req) /\ req = request'
    <2>1. /\ mailbox[m] = NoDelivery /\ need # {}
          /\ mailbox' = Retired([mailbox EXCEPT ![m] =
               [kind |-> kind, target |-> target, req |-> r, need |-> need, acks |-> {},
                waived |-> w, retired |-> FALSE]], request')
      BY <1>1, <1>2 DEF Deliver, IsNew, InitialWaivers
    <2>2. QED BY <1>3, <1>4, <1>5, <2>1 DEF Fresh
  <1>7. e \in Delivery /\ RestoresOpen(e)'
    <2>1. CASE kind \in Obsolete /\ r # NoRequest /\ request[r].epoch < team.epoch
      BY <1>1, <1>2, <1>3, <2>1, NewOld
    <2>2. CASE ~(kind \in Obsolete /\ r # NoRequest /\ request[r].epoch < team.epoch)
      BY <1>1, <1>2, <1>3, <1>6, <2>2, NewCurrent
    <2>3. QED BY <2>1, <2>2
  <1>8. e.retired = FALSE /\ e.kind = kind
    BY <1>3 DEF Fresh
  <1>9. mailbox \in [Messages -> Delivery \cup {NoDelivery}] /\ Undisturbed
    BY DEF MailInv, MailTyped, Sent
  <1>10. /\ box \in [Messages -> Delivery \cup {NoDelivery}]
         /\ box[m] = e /\ \A n \in Messages \ {m} : box[n] = mailbox[n]
    BY <1>5, <1>7, <1>9
  <1>11. ASSUME NEW n \in Messages, box[n] # NoDelivery
         PROVE  RestoresOpen(box[n])' /\ (box[n].retired => Resolved(box[n], req))
    <2>1. CASE n = m
      BY <1>7, <1>8, <1>10, <2>1
    <2>2. CASE n # m
      <3>1. mailbox[n] = box[n]
        BY <1>10, <2>2
      <3>2. RestoresOpen(mailbox[n]) /\ (mailbox[n].retired => Resolved(mailbox[n], request))
            /\ mailbox[n] \in Delivery
        BY <1>11, <3>1, MailIs
      <3>3. RestoresOpen(box[n])
        BY <3>1, <3>2
      <3>4. RestoresOpen(box[n])'
        BY <1>9, <3>1, <3>2, <3>3, Carries
      <3>5. mailbox[n].retired => Resolved(mailbox[n], req)
        <4>1. mailbox[n].req \in Requests \cup {NoRequest}
          BY <3>2 DEF Delivery
        <4>2. \A q \in Requests : request[q].st = "Terminal" => req[q].st = "Terminal"
          BY <1>4 DEF Sent
        <4>3. QED BY <3>2, <4>1, <4>2 DEF Resolved
      <3>6. QED BY <3>1, <3>4, <3>5
    <2>3. QED BY <2>1, <2>2
  <1>12. \A n \in Messages : mailbox[n] # NoDelivery =>
           /\ box[n] # NoDelivery /\ SameMessage(mailbox[n], box[n])
           /\ mailbox[n].acks \subseteq box[n].acks
           /\ Waived(mailbox[n]) \subseteq Waived(box[n])
           /\ mailbox[n].retired => box[n].retired
    <2> SUFFICES ASSUME NEW n \in Messages, mailbox[n] # NoDelivery
                 PROVE  box[n] = mailbox[n] /\ SameMessage(mailbox[n], mailbox[n])
      OBVIOUS
    <2>1. n # m
      BY <1>6
    <2>2. QED BY <1>9, <1>10, <2>1 DEF SameMessage
  <1>13. /\ MailTyped' /\ EveryDeliveryRestores' /\ Grew
         /\ \A n \in Messages : mailbox'[n] # NoDelivery =>
              box[n] # NoDelivery /\ SameMessage(box[n], mailbox'[n])
    BY <1>6, <1>10, <1>11, <1>12, Became
  <1>14. ClosingOwesNothing'
    <2>1. ASSUME NEW n \in Messages, mailbox[n] = NoDelivery, mailbox'[n] # NoDelivery,
                 team'.status \in {"Closing", "Closed"}
          PROVE  NothingOwed(mailbox'[n])
      <3>1. n = m
        BY <1>10, <1>13, <2>1
      <3>2. mailbox'[n].kind = kind
        BY <1>8, <1>10, <1>13, <2>1, <3>1 DEF SameMessage
      <3>3. kind \notin {"Directive", "Notice"}
        BY <2>1 DEF Sent
      <3>4. QED BY <3>2, <3>3 DEF NothingOwed
    <2>2. team' = team
      BY DEF Sent
    <2>3. QED BY <1>13, <2>1, <2>2, StillNothingOwed DEF MailInv
  <1>15. TeamTyped' /\ GenerationsFollow' /\ WorkTyped' /\ WorkFollows'
    BY DEF MailInv, Sent, TeamTyped, GenerationsFollow
  <1>16. QED BY <1>13, <1>14, <1>15 DEF MailInv

LEMMA WorkStays ==
  ASSUME MailInv, UNCHANGED <<team, member, primary, request>>
  PROVE  /\ WorkTyped' /\ WorkFollows' /\ Undisturbed
         /\ \A q \in Requests : request'[q] = request[q]
  <1>1. WorkTyped' /\ WorkFollows'
    BY DEF MailInv, WorkTyped, WorkFollows
  <1>2. QED BY <1>1 DEF Undisturbed

LEMMA AskKeeps ==
  ASSUME MailInv, NEW m \in Messages, NEW r \in Requests, NEW a \in Members, Ask(m, r, a)
  PROVE  MailInv' /\ Grew
  <1>1. PICK w : w = [st |-> "Blocking", epoch |-> team.epoch, by |-> Rec(a)]
    OBVIOUS
  <1>2. /\ Deliver(m, "Ask", a, r) /\ UNCHANGED <<team, member, primary>>
        /\ request' = [request EXCEPT ![r] = w] /\ request[r].st = "None"
        /\ team.status = "Active"
    BY <1>1 DEF Ask, Deliver
  <1>3. /\ team.epoch \in 1 .. team.epoch /\ team.epoch \in 1 .. MaxTeamEpoch
        /\ team.epoch \in 0 .. MaxTeamEpoch
        /\ member[a].gen \in 1 .. member[a].gen /\ member[a].gen \in 0 .. 2 * MaxTeamEpoch
    <2>1. /\ team.epoch \in 1 .. MaxTeamEpoch /\ member[a].gen \in 1 .. MaxTeamEpoch
          /\ MaxTeamEpoch \in Nat
      BY MailboxAssumption DEF MailInv, TeamTyped, Team, Member
    <2>2. QED BY <2>1
  <1>4. Rec(a) \in Recipient /\ Rec(a).actor = a /\ Rec(a).gen = member[a].gen
    BY <1>3 DEF Rec, Recipient
  <1>5. /\ w \in Request /\ w.st = "Blocking" /\ w.epoch = team.epoch
        /\ w.by.actor = a /\ w.by.gen = member[a].gen
    BY <1>1, <1>3, <1>4 DEF Request
  <1>6. WorkTyped' /\ request'[r] = w /\ \A q \in Requests \ {r} : request'[q] = request[q]
    BY <1>2, <1>5 DEF MailInv, WorkTyped
  <1>7. WorkFollows'
    <2> SUFFICES ASSUME NEW q \in Requests, request'[q].st # "None"
                 PROVE  /\ request'[q].by.actor \in Members
                        /\ request'[q].by.gen \in 1 .. member[request'[q].by.actor].gen
                        /\ request'[q].epoch \in 1 .. team.epoch
                        /\ request'[q].st = "Blocking" =>
                             request'[q].epoch = team.epoch /\ team.status # "Closed"
      BY <1>2 DEF WorkFollows
    <2>1. CASE q = r
      BY <1>2, <1>3, <1>5, <1>6, <2>1
    <2>2. CASE q # r
      BY <1>6, <2>2 DEF MailInv, WorkFollows
    <2>3. QED BY <2>1, <2>2
  <1>8. Undisturbed /\ \A q \in Requests : request[q].st = "Terminal" => request'[q].st = "Terminal"
    BY <1>2, <1>5, <1>6 DEF Undisturbed
  <1>9. r # NoRequest /\ request'[r].st = "Blocking"
    BY <1>5, <1>6, MailboxAssumption
  <1>10. Sent("Ask", a, r)
    BY <1>2, <1>6, <1>7, <1>8, <1>9 DEF Sent, Obsolete
  <1>11. "Ask" \in Kinds /\ a \in Targets \cup {"Primary"} /\ r \in Requests \cup {NoRequest}
    BY DEF Kinds, Targets
  <1>12. QED BY <1>2, <1>10, <1>11, DeliverKeeps

LEMMA OutcomeKeeps ==
  ASSUME MailInv, NEW m \in Messages, NEW r \in Requests, NEW target \in Targets,
         NEW st \in {"Blocking", "Settled", "Terminal"}, Outcome(m, r, target, st)
  PROVE  MailInv' /\ Grew
  <1>1. /\ Deliver(m, "Outcome", target, r) /\ UNCHANGED <<team, member, primary>>
        /\ request' = [request EXCEPT ![r].st = st] /\ request[r].st \in {"Blocking", "Settled"}
        /\ AssigneeTarget(r, target) /\ (request[r].st = "Settled" => st # "Blocking")
    BY DEF Outcome, Deliver
  <1>2. PICK w : w = [request[r] EXCEPT !.st = st]
    OBVIOUS
  <1>3. /\ w \in Request /\ w.st = st /\ w.epoch = request[r].epoch /\ w.by = request[r].by
        /\ request' = [request EXCEPT ![r] = w]
    BY <1>1, <1>2 DEF MailInv, WorkTyped, Request
  <1>4. WorkTyped' /\ request'[r] = w /\ \A q \in Requests \ {r} : request'[q] = request[q]
    BY <1>3 DEF MailInv, WorkTyped
  <1>5. WorkFollows'
    <2> SUFFICES ASSUME NEW q \in Requests, request'[q].st # "None"
                 PROVE  /\ request'[q].by.actor \in Members
                        /\ request'[q].by.gen \in 1 .. member[request'[q].by.actor].gen
                        /\ request'[q].epoch \in 1 .. team.epoch
                        /\ request'[q].st = "Blocking" =>
                             request'[q].epoch = team.epoch /\ team.status # "Closed"
      BY <1>1 DEF WorkFollows
    <2>1. CASE q = r
      BY <1>1, <1>3, <1>4, <2>1 DEF MailInv, WorkFollows
    <2>2. CASE q # r
      BY <1>4, <2>2 DEF MailInv, WorkFollows
    <2>3. QED BY <2>1, <2>2
  <1>6. Undisturbed /\ \A q \in Requests : request[q].st = "Terminal" => request'[q].st = "Terminal"
    BY <1>1, <1>3, <1>4 DEF Undisturbed
  <1>7. request[r].epoch < team.epoch => request'[r].st # "Blocking"
    <2>1. request[r].st = "Blocking" => request[r].epoch = team.epoch
      BY DEF MailInv, WorkFollows
    <2>2. team.epoch \in Nat
      BY MailboxAssumption DEF MailInv, TeamTyped, Team
    <2>3. QED BY <1>1, <1>3, <1>4, <2>1, <2>2
  <1>8. Sent("Outcome", target, r)
    BY <1>1, <1>3, <1>4, <1>5, <1>6, <1>7 DEF Sent, Lifecycle
  <1>9. "Outcome" \in Kinds /\ target \in Targets \cup {"Primary"} /\ r \in Requests \cup {NoRequest}
    BY DEF Kinds
  <1>10. QED BY <1>1, <1>8, <1>9, DeliverKeeps

\* The messages that leave the requests as they are.
LEMMA OthersKeep ==
  ASSUME MailInv, NEW m \in Messages,
         \/ \E r \in Requests, t \in Targets : Fix(m, r, t)
         \/ \E r \in Requests \cup {NoRequest}, t \in Targets : Directive(m, r, t)
         \/ \E r \in Requests : Report(m, r)
         \/ Notice(m)
         \/ \E a \in Members : Answer(m, a)
  PROVE  MailInv' /\ Grew
  <1>1. UNCHANGED <<team, member, primary, request>>
    BY DEF Fix, Directive, Report, Notice, Answer, Deliver
  <1>2. /\ WorkTyped' /\ WorkFollows' /\ Undisturbed
        /\ \A q \in Requests : request'[q] = request[q]
    BY <1>1, WorkStays
  <1>3. ASSUME NEW r \in Requests, NEW t \in Targets, Fix(m, r, t)
        PROVE  MailInv' /\ Grew
    <2>1. Deliver(m, "Fix", t, r) /\ request[r].st = "Blocking" /\ r # NoRequest
      BY <1>3 DEF Fix, Blocking
    <2>2. Sent("Fix", t, r)
      BY <1>1, <1>2, <2>1 DEF Sent, Obsolete
    <2>3. "Fix" \in Kinds /\ t \in Targets \cup {"Primary"} /\ r \in Requests \cup {NoRequest}
      BY DEF Kinds
    <2>4. QED BY <2>1, <2>2, <2>3, DeliverKeeps
  <1>4. ASSUME NEW r \in Requests \cup {NoRequest}, NEW t \in Targets, Directive(m, r, t)
        PROVE  MailInv' /\ Grew
    <2>1. /\ Deliver(m, "Directive", t, r) /\ (r # NoRequest => request[r].st # "None")
          /\ team.status \in {"Active", "Paused"}
      BY <1>4 DEF Directive
    <2>2. Sent("Directive", t, r)
      BY <1>1, <1>2, <2>1 DEF Sent, Obsolete, Lifecycle
    <2>3. "Directive" \in Kinds /\ t \in Targets \cup {"Primary"}
      BY DEF Kinds
    <2>4. QED BY <2>1, <2>2, <2>3, DeliverKeeps
  <1>5. ASSUME NEW r \in Requests, Report(m, r)
        PROVE  MailInv' /\ Grew
    <2>1. Deliver(m, "Report", "Primary", r) /\ request[r].st = "Blocking"
      BY <1>5 DEF Report, Blocking
    <2>2. request[r].epoch = team.epoch /\ team.epoch \in Nat
      BY <2>1, MailboxAssumption DEF MailInv, WorkFollows, TeamTyped, Team
    <2>3. Sent("Report", "Primary", r)
      BY <1>1, <1>2, <2>1, <2>2 DEF Sent, Lifecycle
    <2>4. "Report" \in Kinds /\ "Primary" \in Targets \cup {"Primary"}
          /\ r \in Requests \cup {NoRequest}
      BY DEF Kinds
    <2>5. QED BY <2>1, <2>3, <2>4, DeliverKeeps
  <1>6. ASSUME Notice(m)
        PROVE  MailInv' /\ Grew
    <2>1. Deliver(m, "Notice", "Team", NoRequest) /\ team.status = "Active"
      BY <1>6 DEF Notice
    <2>2. Sent("Notice", "Team", NoRequest)
      BY <1>1, <1>2, <2>1 DEF Sent, Lifecycle, Obsolete
    <2>3. "Notice" \in Kinds /\ "Team" \in Targets \cup {"Primary"}
          /\ NoRequest \in Requests \cup {NoRequest}
      BY DEF Kinds, Targets
    <2>4. QED BY <2>1, <2>2, <2>3, DeliverKeeps
  <1>7. ASSUME NEW a \in Members, Answer(m, a)
        PROVE  MailInv' /\ Grew
    <2>1. Deliver(m, "Answer", a, NoRequest)
      BY <1>7 DEF Answer
    <2>2. Sent("Answer", a, NoRequest)
      BY <1>1, <1>2, <2>1 DEF Sent, Lifecycle
    <2>3. "Answer" \in Kinds /\ a \in Targets \cup {"Primary"}
          /\ NoRequest \in Requests \cup {NoRequest}
      BY DEF Kinds, Targets
    <2>4. QED BY <2>1, <2>2, <2>3, DeliverKeeps
  <1>8. QED BY <1>3, <1>4, <1>5, <1>6, <1>7

-----------------------------------------------------------------------------
(* The theorems.                                                           *)

LEMMA MailInitially ==
  ASSUME Init
  PROVE  MailInv
  <1>1. TeamTyped
    BY MailboxAssumption DEF Init, TeamTyped, Team, Member
  <1>2. WorkTyped
    <2>1. ThePrimary \in Recipient /\ 0 \in 0 .. MaxTeamEpoch
      BY MailboxAssumption DEF ThePrimary, Recipient
    <2>2. [st |-> "None", epoch |-> 0, by |-> ThePrimary] \in Request
      BY <2>1 DEF Request
    <2>3. QED BY <2>2 DEF Init, WorkTyped
  <1>3. MailTyped
    BY DEF Init, MailTyped
  <1>4. GenerationsFollow /\ WorkFollows
    BY DEF Init, GenerationsFollow, WorkFollows
  <1>5. EveryDeliveryRestores /\ ClosingOwesNothing
    BY DEF Init, EveryDeliveryRestores, ClosingOwesNothing, Accepted
  <1>6. QED BY <1>1, <1>2, <1>3, <1>4, <1>5 DEF MailInv

LEMMA MailStep ==
  ASSUME MailInv, [Next]_vars
  PROVE  MailInv' /\ Grew
  <1>1. CASE UNCHANGED vars
    <2>1. MailInv'
      <3>1. TeamTyped' /\ Undisturbed /\ ClosingOwesNothing'
        BY <1>1 DEF vars, MailInv, TeamTyped, Undisturbed, ClosingOwesNothing, Accepted
      <3>2. QED BY <1>1, <3>1, QuietKeeps DEF vars
    <2>2. mailbox' = mailbox
      BY <1>1 DEF vars
    <2>3. QED BY <2>1, <2>2, SomeDelivery DEF MailInv, MailTyped, Grew, SameMessage
  <1>2. ASSUME mailbox' = mailbox
        PROVE  Grew
    BY <1>2, SomeDelivery DEF MailInv, MailTyped, Grew, SameMessage
  <1>3. ASSUME NEW m \in Messages, Send(m)
        PROVE  MailInv' /\ Grew
    BY <1>3, AskKeeps, OutcomeKeeps, OthersKeep DEF Send
  <1>4. ASSUME NEW m \in Messages, AcknowledgePrimary(m) \/ \E a \in Members : Acknowledge(m, a)
        PROVE  MailInv' /\ Grew
    BY <1>4, AcknowledgingKeeps
  <1>5. ASSUME NEW a \in Members, Expire(a) \/ Heartbeat(a) \/ Stop(a) \/ StopForClose(a)
        PROVE  MailInv' /\ Grew
    <2>1. \/ SetStatus(a, {"Healthy"}, "Stale") \/ SetStatus(a, {"Stale"}, "Healthy")
          \/ SetStatus(a, {"Healthy", "Stale"}, "Stopped")
      BY <1>5 DEF Expire, Heartbeat, Stop, StopForClose
    <2>2. mailbox' = mailbox
      BY <2>1 DEF SetStatus
    <2>3. QED BY <1>2, <2>1, <2>2, SetStatusKeeps
  <1>6. ASSUME NEW a \in Members, Replace(a)
        PROVE  MailInv' /\ Grew
    BY <1>6, ReplaceKeeps
  <1>7. CASE LosePrimary \/ ActivatePrimary
    BY <1>2, <1>7, PrimaryKeeps DEF LosePrimary, ActivatePrimary
  <1>8. CASE Pause \/ Resume
    BY <1>2, <1>8, PauseKeeps DEF Pause, Resume
  <1>9. CASE CloseTeam
    BY <1>9, CloseTeamKeeps
  <1>10. CASE Recreate
    BY <1>10, RecreateKeeps
  <1>11. ASSUME NEW w \in BOOLEAN, RequestClose(w)
         PROVE  MailInv' /\ Grew
    BY <1>2, <1>11, RequestCloseKeeps DEF RequestClose
  <1>12. QED
    BY <1>1, <1>3, <1>4, <1>5, <1>6, <1>7, <1>8, <1>9, <1>10, <1>11 DEF Next

LEMMA MailImplies ==
  ASSUME MailInv
  PROVE  TypeOK /\ MailboxRestores /\ ClosingOwesNoAction
  <1>1. ASSUME NEW m \in Accepted
        PROVE  mailbox[m] \in Delivery /\ DeliveryRestores(mailbox[m])
    BY DEF Accepted, MailInv, MailTyped, EveryDeliveryRestores
  <1>2. Reader \subseteq Recipient
    <2>1. ThePrimary \in Recipient
      BY MailboxAssumption DEF ThePrimary, Recipient
    <2>2. ASSUME NEW a \in Members, NEW g \in 1 .. MaxTeamEpoch, NEW t \in 1 .. MaxTeamEpoch
          PROVE  [actor |-> a, gen |-> g, team |-> t] \in Recipient
      <3>1. g \in 0 .. 2 * MaxTeamEpoch /\ t \in 0 .. MaxTeamEpoch
        BY MailboxAssumption
      <3>2. QED BY <3>1 DEF Recipient
    <2>3. QED BY <2>1, <2>2 DEF Reader
  <1>3. TypeOK
    <2>1. ASSUME NEW m \in Accepted
          PROVE  LET d == mailbox[m] IN
                 /\ d.kind \in Kinds /\ d.need \subseteq Recipient /\ d.need # {}
                 /\ d.acks \subseteq d.need /\ Waived(d) \subseteq d.need
      <3> DEFINE d == mailbox[m]
      <3>1. d.kind \in Kinds /\ d.need \subseteq Recipient
        BY <1>1, <1>2 DEF Delivery
      <3>2. d.acks \subseteq d.need /\ Waived(d) \subseteq d.need
        BY <1>1 DEF DeliveryRestores, AcknowledgementsRestore, Truthful, OfMembers
      <3>3. d.need # {}
        BY <1>1 DEF Delivery
      <3>4. QED BY <3>1, <3>2, <3>3
    <2>2. QED BY <2>1 DEF TypeOK, MailInv, TeamTyped, WorkTyped, Team, Member, Request
  <1>4. ASSUME team.status \in {"Closing", "Closed"}, NEW m \in Accepted, ~mailbox[m].retired,
               mailbox[m].kind \in {"Directive", "Notice"}
        PROVE  OfMembers(Unread(mailbox[m])) = {}
    BY <1>4 DEF MailInv, ClosingOwesNothing, NothingOwed
  <1>5. ClosingOwesNoAction
    <2> SUFFICES ASSUME team.status \in {"Closing", "Closed"}, NEW m \in BlockingMessages(Requests)
                 PROVE  FALSE
      BY DEF ClosingOwesNoAction
    <2>1. /\ m \in Accepted /\ ~mailbox[m].retired
          /\ RequiresAction(mailbox[m].kind, mailbox[m].req)
          /\ ~(mailbox[m].kind \in Lifecycle /\ mailbox[m].req \in Requests)
          /\ OfMembers(Unread(mailbox[m])) # {}
      BY DEF BlockingMessages
    <2>2. mailbox[m].req \in Requests \cup {NoRequest}
      BY <1>1, <2>1 DEF Delivery
    <2>3. mailbox[m].kind \in {"Directive", "Notice"}
      BY <2>1, <2>2 DEF RequiresAction, Blocking
    <2>4. QED BY <1>4, <2>1, <2>3
  <1>6. team.status = "Closed" => BlockingMessages({}) = {}
    <2> SUFFICES ASSUME team.status = "Closed", NEW m \in BlockingMessages({})
                 PROVE  FALSE
      OBVIOUS
    <2>1. /\ m \in Accepted /\ ~mailbox[m].retired
          /\ RequiresAction(mailbox[m].kind, mailbox[m].req)
          /\ OfMembers(Unread(mailbox[m])) # {}
      BY DEF BlockingMessages
    <2>2. mailbox[m].req \in Requests \cup {NoRequest}
      BY <1>1, <2>1 DEF Delivery
    <2>3. ~Blocking(mailbox[m].req)
      BY <2>2 DEF Blocking, MailInv, WorkFollows
    <2>4. mailbox[m].kind \in {"Directive", "Notice"}
      BY <2>1, <2>3 DEF RequiresAction
    <2>5. QED BY <1>4, <2>1, <2>4
  <1>7. QED BY <1>1, <1>3, <1>5, <1>6 DEF MailboxRestores

LEMMA MailKeepsInv == Spec => []MailInv
  <1>1. Init => MailInv
    BY MailInitially
  <1>2. MailInv /\ [Next]_vars => MailInv'
    BY MailStep
  <1>3. QED BY <1>1, <1>2, PTL DEF Spec

\* Team, members, requests and deliveries have their types, and who answered or was
\* waived is among those a delivery was for (MailboxState, MessageDelivery).
THEOREM MailTypes == Spec => []TypeOK
  <1>1. MailInv => TypeOK
    BY MailImplies
  <1>2. QED BY <1>1, MailKeepsInv, PTL

\* Whatever is sent, answered, replaced, closed and created again, the mailbox is one
\* that from_snapshot accepts: nobody who can no longer answer is waited for, and
\* nobody is waived for a reason that is not true.
THEOREM MailboxAlwaysRestores == Spec => []MailboxRestores
  <1>1. MailInv => MailboxRestores
    BY MailImplies
  <1>2. QED BY <1>1, MailKeepsInv, PTL

\* Once a close was accepted nobody owes the team's answer to a directive, a
\* consultation or an offer.
THEOREM ClosingIsFree == Spec => []ClosingOwesNoAction
  <1>1. MailInv => ClosingOwesNoAction
    BY MailImplies
  <1>2. QED BY <1>1, MailKeepsInv, PTL

\* No step replaces a delivery, forgets an answer or a waiver, or revives what was
\* retired (accept_message_with_delivery and every change of a generation).
THEOREM MessagesAreAcceptedOnce == Spec => AcceptedOnce
  <1> DEFINE Step == \A m \in Accepted : LET d == mailbox[m]
                                             e == mailbox'[m] IN
                /\ e # NoDelivery /\ e.kind = d.kind /\ e.need = d.need
                /\ d.acks \subseteq e.acks /\ Waived(d) \subseteq Waived(e)
                /\ d.retired => e.retired
  <1>1. MailInv /\ [Next]_vars => Step
    <2> SUFFICES ASSUME MailInv, [Next]_vars PROVE Step
      OBVIOUS
    <2>1. Grew
      BY MailStep
    <2>2. QED BY <2>1 DEF Grew, Accepted, SameMessage
  <1>2. Spec => [][Step]_vars
    <2>1. MailInv /\ [Next]_vars => [Step]_vars
      BY <1>1
    <2>2. QED BY <2>1, MailKeepsInv, PTL DEF Spec
  <1>3. QED BY <1>2 DEF AcceptedOnce

-----------------------------------------------------------------------------
(* What a step does to the mail, as its history sees it: it accepts one      *)
(* message, or takes one answer, or neither.                                *)

\* No other message is accepted or answered.
OthersStay(ms) ==
  \A n \in Messages \ ms :
    /\ mailbox[n] = NoDelivery => mailbox'[n] = NoDelivery
    /\ mailbox[n] # NoDelivery => mailbox'[n].acks = mailbox[n].acks

NoRequestStarts ==
  \A r \in Requests : request[r].st = "None" => request'[r].st = "None"
OverIsOver ==
  \A r \in Requests : request[r].st = "Terminal" => request'[r].st = "Terminal"

Accepts(m) ==
  /\ mailbox[m] = NoDelivery /\ mailbox'[m] # NoDelivery /\ mailbox'[m].acks = {}
  /\ OthersStay({m})
  /\ \A r \in Requests : request[r].st = "None" /\ request'[r].st # "None" =>
       mailbox'[m].kind = "Ask" /\ mailbox'[m].req = r
Answers(m, x) ==
  /\ mailbox[m] # NoDelivery /\ ~mailbox[m].retired /\ x \in Reader \ mailbox[m].acks
  /\ mailbox'[m].acks = mailbox[m].acks \cup {x} /\ OthersStay({m}) /\ NoRequestStarts
Mails ==
  \/ \E m \in Messages : Accepts(m)
  \/ \E m \in Messages : \E x \in Reader : Answers(m, x)
  \/ OthersStay({}) /\ NoRequestStarts

LEMMA DeliverAccepts ==
  ASSUME MailInv, NEW m \in Messages, NEW kind \in Kinds, NEW target, NEW r,
         Deliver(m, kind, target, r)
  PROVE  /\ mailbox[m] = NoDelivery /\ mailbox'[m] # NoDelivery /\ mailbox'[m].acks = {}
         /\ mailbox'[m].kind = kind /\ mailbox'[m].req = r /\ mailbox'[m].target = target
         /\ OthersStay({m})
  <1>1. PICK need : need = Recipients(kind, target, r)
    OBVIOUS
  <1>2. PICK w : w = InitialWaivers(kind, r, need)
    OBVIOUS
  <1>3. PICK e : e = [kind |-> kind, target |-> target, req |-> r, need |-> need, acks |-> {},
                      waived |-> w, retired |-> FALSE]
    OBVIOUS
  <1>4. PICK box : box = [mailbox EXCEPT ![m] = e]
    OBVIOUS
  <1>5. PICK req : req = request'
    OBVIOUS
  <1>6. mailbox[m] = NoDelivery /\ mailbox' = Retired(box, req)
    BY <1>1, <1>2, <1>3, <1>4, <1>5 DEF Deliver, IsNew, InitialWaivers
  <1>7. /\ mailbox \in [Messages -> Delivery \cup {NoDelivery}]
        /\ box[m] = e /\ \A n \in Messages \ {m} : box[n] = mailbox[n]
    BY <1>4 DEF MailInv, MailTyped
  <1>8. e # NoDelivery
    BY <1>3 DEF NoDelivery, Kinds
  <1>9. PICK b : b = (e.retired \/ Resolved(e, req))
    OBVIOUS
  <1>10. mailbox'[m] = [e EXCEPT !.retired = b]
    BY <1>6, <1>7, <1>8, <1>9 DEF Retired
  <1>11. mailbox'[m] = [kind |-> kind, target |-> target, req |-> r, need |-> need, acks |-> {},
                        waived |-> w, retired |-> b]
    BY <1>3, <1>10
  <1>12. OthersStay({m})
    <2> SUFFICES ASSUME NEW n \in Messages \ {m}
                 PROVE  /\ mailbox[n] = NoDelivery => mailbox'[n] = NoDelivery
                        /\ mailbox[n] # NoDelivery => mailbox'[n].acks = mailbox[n].acks
      BY DEF OthersStay
    <2>1. mailbox[n] = NoDelivery => mailbox'[n] = NoDelivery
      BY <1>6, <1>7 DEF Retired
    <2>2. ASSUME mailbox[n] # NoDelivery
          PROVE  mailbox'[n].acks = mailbox[n].acks
      <3>1. mailbox[n] \in Delivery
        BY <1>7, <2>2
      <3>2. mailbox'[n] = [mailbox[n] EXCEPT !.retired = mailbox[n].retired \/ Resolved(mailbox[n], req)]
        BY <1>6, <1>7, <2>2 DEF Retired
      <3>3. QED BY <3>1, <3>2 DEF Delivery
    <2>3. QED BY <2>1, <2>2
  <1>13. mailbox'[m] # NoDelivery
    BY <1>11 DEF NoDelivery, Kinds
  <1>14. QED BY <1>6, <1>11, <1>12, <1>13

LEMMA WaiversAnswerNothing ==
  ASSUME MailInv, NEW box \in [Messages -> Delivery \cup {NoDelivery}], NEW req,
         mailbox' = Retired(box, req),
         \A m \in Messages : mailbox[m] = NoDelivery => box[m] = NoDelivery,
         \A m \in Messages : mailbox[m] # NoDelivery => WaivedTo(mailbox[m], box[m])
  PROVE  OthersStay({})
  <1> SUFFICES ASSUME NEW n \in Messages
               PROVE  /\ mailbox[n] = NoDelivery => mailbox'[n] = NoDelivery
                      /\ mailbox[n] # NoDelivery => mailbox'[n].acks = mailbox[n].acks
    BY DEF OthersStay
  <1>1. mailbox[n] = NoDelivery => mailbox'[n] = NoDelivery
    BY RetiredIs
  <1>2. ASSUME mailbox[n] # NoDelivery
        PROVE  mailbox'[n].acks = mailbox[n].acks
    <2>1. box[n] # NoDelivery /\ box[n].acks = mailbox[n].acks
      BY <1>2, SomeDelivery DEF WaivedTo, SameMessage
    <2>2. mailbox'[n].acks = box[n].acks
      BY <2>1, RetiredIs
    <2>3. QED BY <2>1, <2>2
  <1>3. QED BY <1>1, <1>2

LEMMA CloseTeamMails ==
  ASSUME MailInv, CloseTeam
  PROVE  OthersStay({}) /\ NoRequestStarts /\ OverIsOver
  <1>1. PICK box : box = RetireObsolete
    OBVIOUS
  <1>2. PICK req : req = request
    OBVIOUS
  <1>3. mailbox' = Retired(box, req) /\ request' = request
    BY <1>1, <1>2 DEF CloseTeam
  <1>4. \A m \in Messages : mailbox[m] = NoDelivery => box[m] = NoDelivery
    BY <1>1 DEF RetireObsolete
  <1>5. \A m \in Messages : mailbox[m] # NoDelivery => WaivedTo(mailbox[m], box[m])
    BY <1>1, CloseWaives
  <1>6. box \in [Messages -> Delivery \cup {NoDelivery}]
    <2>1. \A m \in Messages : box[m] \in Delivery \cup {NoDelivery}
      BY <1>4, <1>5 DEF WaivedTo, SameMessage
    <2>2. box = [m \in Messages |-> box[m]]
      BY <1>1 DEF RetireObsolete
    <2>3. QED BY <2>1, <2>2
  <1>7. OthersStay({})
    BY <1>3, <1>4, <1>5, <1>6, WaiversAnswerNothing
  <1>8. QED BY <1>3, <1>7 DEF NoRequestStarts, OverIsOver

LEMMA ReplaceMails ==
  ASSUME MailInv, NEW a \in Members, Replace(a)
  PROVE  OthersStay({}) /\ NoRequestStarts /\ OverIsOver
  <1>1. PICK box : box = SupersedeGeneration(a)
    OBVIOUS
  <1>2. PICK req : req = request'
    OBVIOUS
  <1>3. mailbox' = Retired(box, req)
    <2>1. mailbox' = Retired(SupersedeGeneration(a), request')
      BY DEF Replace
    <2>2. QED BY <1>1, <1>2, <2>1
  <1>4. \A m \in Messages : mailbox[m] = NoDelivery => box[m] = NoDelivery
    BY <1>1 DEF SupersedeGeneration
  <1>5. ASSUME NEW m \in Messages, mailbox[m] # NoDelivery
        PROVE  WaivedTo(mailbox[m], box[m])
    <2>1. box[m] = SupersedeGeneration(a)[m]
      BY <1>1
    <2>2. QED BY <1>5, <2>1, ReplaceWaives
  <1>6. box \in [Messages -> Delivery \cup {NoDelivery}]
    <2>1. \A m \in Messages : box[m] \in Delivery \cup {NoDelivery}
      BY <1>4, <1>5 DEF WaivedTo, SameMessage
    <2>2. box = [m \in Messages |-> box[m]]
      BY <1>1 DEF SupersedeGeneration
    <2>3. QED BY <2>1, <2>2
  <1>7. OthersStay({})
    BY <1>3, <1>4, <1>5, <1>6, WaiversAnswerNothing
  <1>8. \A r \in Requests : request'[r].st = request[r].st
    BY ReplaceWork
  <1>9. QED BY <1>7, <1>8 DEF NoRequestStarts, OverIsOver

LEMMA RecreateMails ==
  ASSUME MailInv, Recreate
  PROVE  OthersStay({}) /\ NoRequestStarts /\ OverIsOver
  <1>1. PICK box : box = SupersedeHistory
    OBVIOUS
  <1>2. PICK req : req = request
    OBVIOUS
  <1>3. mailbox' = Retired(box, req) /\ request' = request
    BY <1>1, <1>2 DEF Recreate
  <1>4. \A m \in Messages : mailbox[m] = NoDelivery => box[m] = NoDelivery
    BY <1>1 DEF SupersedeHistory
  <1>5. ASSUME NEW m \in Messages, mailbox[m] # NoDelivery
        PROVE  WaivedTo(mailbox[m], box[m])
    <2>1. box[m] = SupersedeHistory[m]
      BY <1>1
    <2>2. QED BY <1>5, <2>1, RecreateWaives
  <1>6. box \in [Messages -> Delivery \cup {NoDelivery}]
    <2>1. \A m \in Messages : box[m] \in Delivery \cup {NoDelivery}
      BY <1>4, <1>5 DEF WaivedTo, SameMessage
    <2>2. box = [m \in Messages |-> box[m]]
      BY <1>1 DEF SupersedeHistory
    <2>3. QED BY <2>1, <2>2
  <1>7. OthersStay({})
    BY <1>3, <1>4, <1>5, <1>6, WaiversAnswerNothing
  <1>8. QED BY <1>3, <1>7 DEF NoRequestStarts, OverIsOver

LEMMA AcknowledgeMails ==
  ASSUME MailInv, NEW m \in Messages,
         AcknowledgePrimary(m) \/ \E a \in Members : Acknowledge(m, a)
  PROVE  Mails /\ OverIsOver
  <1>1. /\ request' = request
        /\ \E x : /\ mailbox[m] # NoDelivery /\ ~mailbox[m].retired /\ x \in Unread(mailbox[m])
                  /\ mailbox' = Retired([mailbox EXCEPT ![m].acks = @ \cup {x}], request)
    BY DEF AcknowledgePrimary, Acknowledge, Accepted
  <1>2. PICK x : /\ mailbox[m] # NoDelivery /\ ~mailbox[m].retired /\ x \in Unread(mailbox[m])
                 /\ mailbox' = Retired([mailbox EXCEPT ![m].acks = @ \cup {x}], request)
    BY <1>1
  <1>3. PICK d : d = mailbox[m]
    OBVIOUS
  <1>4. d \in Delivery /\ x \in Reader \ d.acks
    BY <1>2, <1>3, MailIs DEF Unread, Delivery
  <1>5. PICK f : f = [d EXCEPT !.acks = @ \cup {x}]
    OBVIOUS
  <1>6. f \in Delivery /\ f.acks = d.acks \cup {x}
    BY <1>4, <1>5, Answering DEF SameMessage
  <1>7. PICK box : box = [mailbox EXCEPT ![m] = f]
    OBVIOUS
  <1>8. box = [mailbox EXCEPT ![m].acks = @ \cup {x}]
    BY <1>3, <1>5, <1>7
  <1>9. /\ box \in [Messages -> Delivery \cup {NoDelivery}]
        /\ box[m] = f /\ \A n \in Messages \ {m} : box[n] = mailbox[n]
    BY <1>6, <1>7 DEF MailInv, MailTyped
  <1>10. PICK req : req = request
    OBVIOUS
  <1>11. mailbox' = Retired(box, req)
    BY <1>2, <1>8, <1>10
  <1>12. mailbox'[m].acks = d.acks \cup {x}
    BY <1>6, <1>9, <1>11, RetiredIs, SomeDelivery
  <1>13. OthersStay({m})
    BY <1>9, <1>11, RetiredIs DEF OthersStay
  <1>14. Answers(m, x) /\ OverIsOver
    BY <1>1, <1>2, <1>3, <1>4, <1>12, <1>13 DEF Answers, NoRequestStarts, OverIsOver
  <1>15. QED BY <1>4, <1>14 DEF Mails

\* Every message but the one that asks for a request leaves the unasked ones alone.
LEMMA OtherMails ==
  ASSUME MailInv, NEW m \in Messages, NEW kind \in Kinds, NEW target, NEW r,
         Deliver(m, kind, target, r), NoRequestStarts
  PROVE  Mails
  <1>1. /\ mailbox[m] = NoDelivery /\ mailbox'[m] # NoDelivery /\ mailbox'[m].acks = {}
        /\ OthersStay({m})
    BY DeliverAccepts
  <1>2. Accepts(m)
    BY <1>1 DEF Accepts, NoRequestStarts
  <1>3. QED BY <1>2 DEF Mails

LEMMA SendMails ==
  ASSUME MailInv, NEW m \in Messages, Send(m)
  PROVE  Mails /\ OverIsOver
  <1>1. ASSUME NEW r \in Requests, NEW a \in Members, Ask(m, r, a)
        PROVE  Mails /\ OverIsOver
    <2>1. PICK w : w = [st |-> "Blocking", epoch |-> team.epoch, by |-> Rec(a)]
      OBVIOUS
    <2>2. /\ Deliver(m, "Ask", a, r) /\ request' = [request EXCEPT ![r] = w]
          /\ request[r].st = "None"
      BY <1>1, <2>1 DEF Ask
    <2>3. \A q \in Requests \ {r} : request'[q] = request[q]
      BY <2>2 DEF MailInv, WorkTyped
    <2>4. "Ask" \in Kinds
      BY DEF Kinds
    <2>5. /\ mailbox[m] = NoDelivery /\ mailbox'[m] # NoDelivery /\ mailbox'[m].acks = {}
          /\ OthersStay({m}) /\ mailbox'[m].kind = "Ask" /\ mailbox'[m].req = r
      BY <2>2, <2>4, DeliverAccepts
    <2>6. Accepts(m) /\ OverIsOver
      BY <2>2, <2>3, <2>5 DEF Accepts, OverIsOver
    <2>7. QED BY <2>6 DEF Mails
  <1>2. ASSUME NEW r \in Requests, NEW t \in Targets, NEW st \in {"Blocking", "Settled", "Terminal"},
               Outcome(m, r, t, st)
        PROVE  Mails /\ OverIsOver
    <2>1. PICK w : w = [request[r] EXCEPT !.st = st]
      OBVIOUS
    <2>2. /\ Deliver(m, "Outcome", t, r) /\ request' = [request EXCEPT ![r] = w]
          /\ request[r].st \in {"Blocking", "Settled"}
      BY <1>2, <2>1 DEF Outcome
    <2>3. \A q \in Requests \ {r} : request'[q] = request[q]
      BY <2>2 DEF MailInv, WorkTyped
    <2>4. NoRequestStarts /\ OverIsOver
      BY <2>2, <2>3 DEF NoRequestStarts, OverIsOver
    <2>5. "Outcome" \in Kinds
      BY DEF Kinds
    <2>6. QED BY <2>2, <2>4, <2>5, OtherMails
  <1>3. ASSUME UNCHANGED request, NEW kind \in Kinds, NEW t, NEW r, Deliver(m, kind, t, r)
        PROVE  Mails /\ OverIsOver
    <2>1. NoRequestStarts /\ OverIsOver
      BY <1>3 DEF NoRequestStarts, OverIsOver
    <2>2. QED BY <1>3, <2>1, OtherMails
  <1>4. {"Fix", "Directive", "Notice", "Report", "Answer"} \subseteq Kinds
    BY DEF Kinds
  <1>5. ASSUME NEW r \in Requests, NEW t \in Targets, Fix(m, r, t)
        PROVE  Mails /\ OverIsOver
    BY <1>3, <1>4, <1>5 DEF Fix
  <1>6. ASSUME NEW r \in Requests \cup {NoRequest}, NEW t \in Targets, Directive(m, r, t)
        PROVE  Mails /\ OverIsOver
    BY <1>3, <1>4, <1>6 DEF Directive
  <1>7. ASSUME NEW r \in Requests, Report(m, r)
        PROVE  Mails /\ OverIsOver
    BY <1>3, <1>4, <1>7 DEF Report
  <1>8. ASSUME Notice(m)
        PROVE  Mails /\ OverIsOver
    BY <1>3, <1>4, <1>8 DEF Notice
  <1>9. ASSUME NEW a \in Members, Answer(m, a)
        PROVE  Mails /\ OverIsOver
    BY <1>3, <1>4, <1>9 DEF Answer
  <1>10. QED BY <1>1, <1>2, <1>5, <1>6, <1>7, <1>8, <1>9 DEF Send

\* What every step of the mailbox does to its mail.
LEMMA NextMails ==
  ASSUME MailInv, Next
  PROVE  Mails /\ OverIsOver /\ MailInv' /\ Grew
  <1>1. ASSUME UNCHANGED <<request, mailbox>>
        PROVE  Mails /\ OverIsOver
    BY <1>1 DEF Mails, OthersStay, NoRequestStarts, OverIsOver
  <1>2. ASSUME NEW a \in Members, Expire(a) \/ Heartbeat(a) \/ Stop(a) \/ StopForClose(a)
        PROVE  Mails /\ OverIsOver
    BY <1>1, <1>2 DEF Expire, Heartbeat, Stop, StopForClose, SetStatus
  <1>3. ASSUME LosePrimary \/ ActivatePrimary \/ Pause \/ Resume \/ \E w \in BOOLEAN : RequestClose(w)
        PROVE  Mails /\ OverIsOver
    <2>1. request' = request /\ mailbox' = mailbox
      BY <1>3 DEF LosePrimary, ActivatePrimary, Pause, Resume, RequestClose
    <2>2. QED BY <1>1, <2>1
  <1>4. ASSUME CloseTeam \/ Recreate \/ \E a \in Members : Replace(a)
        PROVE  Mails /\ OverIsOver
    <2>1. OthersStay({}) /\ NoRequestStarts /\ OverIsOver
      BY <1>4, CloseTeamMails, RecreateMails, ReplaceMails
    <2>2. QED BY <2>1 DEF Mails
  <1>5. ASSUME NEW m \in Messages,
               Send(m) \/ AcknowledgePrimary(m) \/ \E a \in Members : Acknowledge(m, a)
        PROVE  Mails /\ OverIsOver
    BY <1>5, SendMails, AcknowledgeMails
  <1>6. Mails /\ OverIsOver
    BY <1>2, <1>3, <1>4, <1>5 DEF Next
  <1>7. QED BY <1>6, MailStep

-----------------------------------------------------------------------------
(* The events of a set of deliveries, one by one.                          *)

EventOf(m, x) == [msg |-> m, by |-> x]
Voices(d) == {Acceptance} \cup d.acks
OwnEvents(log, box) ==
  \A s \in DOMAIN log : \E m \in DOMAIN box : \E x \in Voices(box[m]) : log[s] = EventOf(m, x)
AllEvents(log, box) ==
  \A m \in DOMAIN box : \A x \in Voices(box[m]) : \E s \in DOMAIN log : log[s] = EventOf(m, x)
AcceptedFirst(log) ==
  \A s, t \in DOMAIN log : log[s].msg = log[t].msg =>
    /\ log[s].by = log[t].by => s = t
    /\ log[s].by = Acceptance => s <= t

LEMMA LinksAre ==
  ASSUME NEW log, NEW box
  PROVE  AuditLinks(log, box) <=>
           OwnEvents(log, box) /\ AllEvents(log, box) /\ AcceptedFirst(log)
  <1>1. PICK Es : Es = UNION {{[msg |-> m, by |-> x] : x \in {Acceptance} \cup box[m].acks} : m \in DOMAIN box}
    OBVIOUS
  <1>2. \A e : e \in Es <=> \E m \in DOMAIN box : \E x \in Voices(box[m]) : e = EventOf(m, x)
    BY <1>1 DEF Voices, EventOf
  <1>3. PICK Ls : Ls = {log[s] : s \in DOMAIN log}
    OBVIOUS
  <1>4. \A e : e \in Ls <=> \E s \in DOMAIN log : e = log[s]
    BY <1>3
  <1>5. Ls = Es <=> OwnEvents(log, box) /\ AllEvents(log, box)
    <2>1. ASSUME Ls = Es
          PROVE  OwnEvents(log, box) /\ AllEvents(log, box)
      <3>1. OwnEvents(log, box)
        BY <1>2, <1>4, <2>1 DEF OwnEvents
      <3>2. AllEvents(log, box)
        <4> SUFFICES ASSUME NEW m \in DOMAIN box, NEW x \in Voices(box[m])
                     PROVE  \E s \in DOMAIN log : log[s] = EventOf(m, x)
          BY DEF AllEvents
        <4>1. EventOf(m, x) \in Es
          BY <1>2
        <4>2. QED BY <1>4, <2>1, <4>1
      <3>3. QED BY <3>1, <3>2
    <2>2. ASSUME OwnEvents(log, box), AllEvents(log, box)
          PROVE  Ls = Es
      <3>1. ASSUME NEW e \in Ls PROVE e \in Es
        BY <1>2, <1>4, <2>2 DEF OwnEvents
      <3>2. ASSUME NEW e \in Es PROVE e \in Ls
        <4>1. PICK m \in DOMAIN box : \E x \in Voices(box[m]) : e = EventOf(m, x)
          BY <1>2
        <4>2. PICK x \in Voices(box[m]) : e = EventOf(m, x)
          BY <4>1
        <4>3. QED BY <1>4, <2>2, <4>2 DEF AllEvents
      <3>3. QED BY <3>1, <3>2
    <2>3. QED BY <2>1, <2>2
  <1>6. AuditLinks(log, box) <=> Ls = Es /\ AcceptedFirst(log)
    BY <1>1, <1>3 DEF AuditLinks, AcceptedFirst
  <1>7. QED BY <1>5, <1>6

LEMMA EventsAre ==
  ASSUME NEW m, NEW x
  PROVE  EventOf(m, x).msg = m /\ EventOf(m, x).by = x
  BY DEF EventOf

\* The part of a log that is about some of its messages.
LEMMA LinksPart ==
  ASSUME NEW log, NEW box, AuditLinks(log, box), NEW ms \in SUBSET DOMAIN box,
         NEW part, part = [s \in {t \in DOMAIN log : log[t].msg \in ms} |-> log[s]],
         NEW own, own = [m \in ms |-> box[m]]
  PROVE  AuditLinks(part, own)
  <1>1. OwnEvents(log, box) /\ AllEvents(log, box) /\ AcceptedFirst(log)
    BY LinksAre
  <1>2. OwnEvents(part, own)
    <2> SUFFICES ASSUME NEW s \in DOMAIN part
                 PROVE  \E m \in DOMAIN own : \E x \in Voices(own[m]) : part[s] = EventOf(m, x)
      BY DEF OwnEvents
    <2>1. s \in DOMAIN log /\ part[s] = log[s] /\ log[s].msg \in ms
      OBVIOUS
    <2>2. PICK m \in DOMAIN box : \E x \in Voices(box[m]) : log[s] = EventOf(m, x)
      BY <1>1, <2>1 DEF OwnEvents
    <2>3. PICK x \in Voices(box[m]) : log[s] = EventOf(m, x)
      BY <2>2
    <2>4. m \in ms
      BY <2>1, <2>3, EventsAre
    <2>5. own[m] = box[m] /\ m \in DOMAIN own
      BY <2>4
    <2>6. QED BY <2>1, <2>3, <2>5
  <1>3. AllEvents(part, own)
    <2> SUFFICES ASSUME NEW m \in DOMAIN own, NEW x \in Voices(own[m])
                 PROVE  \E s \in DOMAIN part : part[s] = EventOf(m, x)
      BY DEF AllEvents
    <2>1. m \in ms /\ m \in DOMAIN box /\ own[m] = box[m]
      OBVIOUS
    <2>2. PICK s \in DOMAIN log : log[s] = EventOf(m, x)
      BY <1>1, <2>1 DEF AllEvents
    <2>3. log[s].msg \in ms
      BY <2>1, <2>2, EventsAre
    <2>4. s \in DOMAIN part /\ part[s] = log[s]
      BY <2>3
    <2>5. QED BY <2>2, <2>4
  <1>4. AcceptedFirst(part)
    BY <1>1 DEF AcceptedFirst
  <1>5. QED BY <1>2, <1>3, <1>4, LinksAre

\* Two logs about different messages.
Joins(log, box, f, b, g, c) ==
  /\ AuditLinks(f, b) /\ AuditLinks(g, c)
  /\ DOMAIN f \cap DOMAIN g = {} /\ DOMAIN b \cap DOMAIN c = {}
  /\ DOMAIN log = DOMAIN f \cup DOMAIN g
  /\ (\A s \in DOMAIN f : log[s] = f[s]) /\ \A s \in DOMAIN g : log[s] = g[s]
  /\ DOMAIN box = DOMAIN b \cup DOMAIN c
  /\ (\A m \in DOMAIN b : box[m] = b[m]) /\ \A m \in DOMAIN c : box[m] = c[m]

LEMMA LinksJoin ==
  ASSUME NEW f, NEW g, NEW b, NEW c, NEW log, NEW box, Joins(log, box, f, b, g, c)
  PROVE  AuditLinks(log, box)
  <1> USE DEF Joins
  <1>1. /\ OwnEvents(f, b) /\ AllEvents(f, b) /\ AcceptedFirst(f)
        /\ OwnEvents(g, c) /\ AllEvents(g, c) /\ AcceptedFirst(g)
    BY LinksAre
  <1>2. \A s \in DOMAIN f : \E m \in DOMAIN b : \E x \in Voices(box[m]) : log[s] = EventOf(m, x)
    BY <1>1 DEF OwnEvents
  <1>3. \A s \in DOMAIN g : \E m \in DOMAIN c : \E x \in Voices(box[m]) : log[s] = EventOf(m, x)
    BY <1>1 DEF OwnEvents
  <1>4. OwnEvents(log, box)
    BY <1>2, <1>3 DEF OwnEvents
  <1>5. AllEvents(log, box)
    <2> SUFFICES ASSUME NEW m \in DOMAIN box, NEW x \in Voices(box[m])
                 PROVE  \E s \in DOMAIN log : log[s] = EventOf(m, x)
      BY DEF AllEvents
    <2>1. CASE m \in DOMAIN b
      <3>1. PICK s \in DOMAIN f : f[s] = EventOf(m, x)
        BY <1>1, <2>1 DEF AllEvents
      <3>2. QED BY <3>1
    <2>2. CASE m \in DOMAIN c
      <3>1. PICK s \in DOMAIN g : g[s] = EventOf(m, x)
        BY <1>1, <2>2 DEF AllEvents
      <3>2. QED BY <3>1
    <2>3. QED BY <2>1, <2>2
  <1>6. /\ \A s \in DOMAIN f : log[s].msg \in DOMAIN b
        /\ \A s \in DOMAIN g : log[s].msg \in DOMAIN c
    BY <1>2, <1>3, EventsAre
  <1>7. AcceptedFirst(log)
    <2> SUFFICES ASSUME NEW s \in DOMAIN log, NEW t \in DOMAIN log, log[s].msg = log[t].msg
                 PROVE  /\ log[s].by = log[t].by => s = t
                        /\ log[s].by = Acceptance => s <= t
      BY DEF AcceptedFirst
    <2>1. (s \in DOMAIN f /\ t \in DOMAIN f) \/ (s \in DOMAIN g /\ t \in DOMAIN g)
      BY <1>6
    <2>2. QED BY <1>1, <2>1 DEF AcceptedFirst
  <1>8. QED BY <1>4, <1>5, <1>7, LinksAre

\* A log to which the event of a message is added, at its end.
Extends(longer, more, log, box, last, m, x) ==
  /\ AuditLinks(log, box) /\ last \in Nat /\ DOMAIN log \subseteq 1 .. last
  /\ DOMAIN more = DOMAIN box \cup {m}
  /\ \A n \in DOMAIN box \ {m} : more[n].acks = box[n].acks
  /\ \/ m \notin DOMAIN box /\ x = Acceptance /\ more[m].acks = {}
     \/ /\ m \in DOMAIN box /\ more[m].acks = box[m].acks \cup {x}
        /\ x \notin box[m].acks /\ x # Acceptance
  /\ DOMAIN longer = DOMAIN log \cup {last + 1} /\ longer[last + 1] = EventOf(m, x)
  /\ \A s \in DOMAIN log : longer[s] = log[s]

LEMMA LinksGrow ==
  ASSUME NEW log, NEW box, NEW last, NEW m, NEW x, NEW more, NEW longer,
         Extends(longer, more, log, box, last, m, x)
  PROVE  AuditLinks(longer, more)
  <1> USE DEF Extends
  <1>1. OwnEvents(log, box) /\ AllEvents(log, box) /\ AcceptedFirst(log)
    BY LinksAre
  <1>2. /\ \A n \in DOMAIN box \ {m} : Voices(more[n]) = Voices(box[n])
        /\ x \in Voices(more[m])
        /\ m \in DOMAIN box => Voices(more[m]) = Voices(box[m]) \cup {x} /\ x \notin Voices(box[m])
        /\ m \notin DOMAIN box => Voices(more[m]) = {x}
    BY DEF Voices
  <1>3. \A s \in DOMAIN log : s # last + 1 /\ s <= last + 1
    OBVIOUS
  <1>4. OwnEvents(longer, more)
    <2> SUFFICES ASSUME NEW s \in DOMAIN longer
                 PROVE  \E n \in DOMAIN more : \E y \in Voices(more[n]) : longer[s] = EventOf(n, y)
      BY DEF OwnEvents
    <2>1. CASE s = last + 1
      BY <1>2, <2>1
    <2>2. CASE s \in DOMAIN log
      <3>1. PICK n \in DOMAIN box : \E y \in Voices(box[n]) : log[s] = EventOf(n, y)
        BY <1>1, <2>2 DEF OwnEvents
      <3>2. Voices(box[n]) \subseteq Voices(more[n])
        BY <1>2
      <3>3. QED BY <2>2, <3>1, <3>2
    <2>3. QED BY <2>1, <2>2
  <1>5. AllEvents(longer, more)
    <2> SUFFICES ASSUME NEW n \in DOMAIN more, NEW y \in Voices(more[n])
                 PROVE  \E s \in DOMAIN longer : longer[s] = EventOf(n, y)
      BY DEF AllEvents
    <2>1. CASE n = m /\ y = x
      BY <2>1
    <2>2. CASE ~(n = m /\ y = x)
      <3>1. n \in DOMAIN box /\ y \in Voices(box[n])
        BY <1>2, <2>2
      <3>2. PICK s \in DOMAIN log : log[s] = EventOf(n, y)
        BY <1>1, <3>1 DEF AllEvents
      <3>3. QED BY <3>2
    <2>3. QED BY <2>1, <2>2
  <1>6. \A s \in DOMAIN log : ~(longer[s].msg = m /\ longer[s].by = x)
    <2> SUFFICES ASSUME NEW s \in DOMAIN log, log[s].msg = m, log[s].by = x
                 PROVE  FALSE
      OBVIOUS
    <2>1. PICK n \in DOMAIN box : \E y \in Voices(box[n]) : log[s] = EventOf(n, y)
      BY <1>1 DEF OwnEvents
    <2>2. PICK y \in Voices(box[n]) : log[s] = EventOf(n, y)
      BY <2>1
    <2>3. n = m /\ y = x
      BY <2>2, EventsAre
    <2>4. QED BY <1>2, <2>3
  <1>7. x = Acceptance => \A s \in DOMAIN log : longer[s].msg # m
    <2> SUFFICES ASSUME x = Acceptance, NEW s \in DOMAIN log, log[s].msg = m
                 PROVE  FALSE
      OBVIOUS
    <2>1. PICK n \in DOMAIN box : \E y \in Voices(box[n]) : log[s] = EventOf(n, y)
      BY <1>1 DEF OwnEvents
    <2>2. n = m
      BY <2>1, EventsAre
    <2>3. QED BY <2>2
  <1>8. AcceptedFirst(longer)
    <2> SUFFICES ASSUME NEW s \in DOMAIN longer, NEW t \in DOMAIN longer,
                        longer[s].msg = longer[t].msg
                 PROVE  /\ longer[s].by = longer[t].by => s = t
                        /\ longer[s].by = Acceptance => s <= t
      BY DEF AcceptedFirst
    <2>1. longer[last + 1].msg = m /\ longer[last + 1].by = x
      BY EventsAre
    <2>2. CASE s \in DOMAIN log /\ t \in DOMAIN log
      BY <1>1, <2>2 DEF AcceptedFirst
    <2>3. CASE s = last + 1 /\ t = last + 1
      BY <2>3
    <2>4. CASE s = last + 1 /\ t \in DOMAIN log
      BY <1>6, <1>7, <2>1, <2>4
    <2>5. CASE s \in DOMAIN log /\ t = last + 1
      BY <1>3, <1>6, <2>1, <2>5
    <2>6. QED BY <2>2, <2>3, <2>4, <2>5
  <1>9. QED BY <1>4, <1>5, <1>8, LinksAre

-----------------------------------------------------------------------------
(* The inductive invariant of the history.                                 *)

\* A consultation, and what answers one, is about no request; no two hot messages
\* answer the same one.
AboutIsSound ==
  /\ about \in [Messages -> Messages \cup Requests \cup {Nothing, Consult}]
  /\ \A m \in Messages \ Accepted : about[m] = Nothing
  /\ \A m \in Accepted : about[m] \in Messages \cup {Consult} => mailbox[m].req = NoRequest
  /\ \A m \in Accepted : about[m] \in Messages => about[m] \in Accepted /\ about[about[m]] = Consult
  /\ \A m, n \in Hot : about[m] \in Messages /\ about[m] = about[n] => m = n

\* A row is the delivery as it stays, but for the reasons of its waivers.
RowsAreKept ==
  /\ Rows \subseteq Accepted /\ IsFiniteSet(Rows)
  /\ \A m \in Rows : /\ SameMessage(archive.rows[m], mailbox[m])
                     /\ archive.rows[m].acks = mailbox[m].acks
                     /\ archive.rows[m].retired /\ mailbox[m].retired

RequestsAreOver ==
  /\ IsFiniteSet(DOMAIN archive.requests)
  /\ \A r \in DOMAIN archive.requests : r \in Requests /\ request[r].st = "Terminal"

CheckpointTyped ==
  checkpoint \in [events : Nat, deliveries : Nat, requests : Nat, archived : Nat, commits : Nat]

ArchivedEvents == [s \in DOMAIN archive.audit |-> archive.audit[s].event]
ProvenanceIsKept == AuditLinks(ArchivedEvents, archive.rows)

Keys == Rows \cup DOMAIN archive.audit \cup DOMAIN archive.requests
CommitsAreAll ==
  /\ commits \in Seq(SUBSET Keys)
  /\ UNION {commits[i] : i \in DOMAIN commits} = Keys
  /\ CommitsVerify /\ CheckpointVerifies

ClientIsAnswered ==
  /\ client.pc \in {"idle", "loaded"}
  /\ client.pc = "loaded" =>
       /\ client.msg \in Accepted
       /\ client.by = Acceptance \/ client.by \in mailbox[client.msg].acks
       /\ client.seen \in BOOLEAN /\ (~client.seen => client.msg \in Rows)

ArchiveInv ==
  /\ MailInv /\ AboutIsSound /\ RowsAreKept /\ RequestsAreOver /\ CheckpointTyped
  /\ HotHistory /\ ProvenanceIsKept /\ AuditVerifies /\ CommitsAreAll /\ ClientIsAnswered

-----------------------------------------------------------------------------
(* The log a mutation leaves, before it archives.                          *)

LEMMA NewEventsAre ==
  ASSUME MailInv, Mails, Grew
  PROVE  \/ \E m \in Messages : Accepts(m) /\ NewEvents = {EventOf(m, Acceptance)}
         \/ \E m \in Messages : \E x \in Reader : Answers(m, x) /\ NewEvents = {EventOf(m, x)}
         \/ OthersStay({}) /\ NoRequestStarts /\ NewEvents = {}
  <1>1. PICK As : As = {[msg |-> m, by |-> Acceptance] :
                          m \in {n \in Messages \ Accepted : mailbox'[n] # NoDelivery}}
    OBVIOUS
  <1>2. PICK Bs : Bs = UNION {{[msg |-> m, by |-> x] : x \in mailbox'[m].acks \ mailbox[m].acks} :
                                m \in Accepted}
    OBVIOUS
  <1>3. NewEvents = As \cup Bs
    BY <1>1, <1>2 DEF NewEvents
  <1>4. \A e : e \in As <=> \E m \in Messages : /\ mailbox[m] = NoDelivery /\ mailbox'[m] # NoDelivery
                                                /\ e = EventOf(m, Acceptance)
    BY <1>1 DEF EventOf, Accepted
  <1>5. \A e : e \in Bs <=> \E m \in Messages : /\ mailbox[m] # NoDelivery
                                                /\ \E x \in mailbox'[m].acks \ mailbox[m].acks : e = EventOf(m, x)
    BY <1>2 DEF EventOf, Accepted
  <1>6. ASSUME NEW m \in Messages, Accepts(m)
        PROVE  NewEvents = {EventOf(m, Acceptance)}
    <2>1. \A e : e \in As <=> e = EventOf(m, Acceptance)
      BY <1>4, <1>6 DEF Accepts, OthersStay
    <2>2. \A e : e \notin Bs
      BY <1>5, <1>6 DEF Accepts, OthersStay
    <2>3. QED BY <1>3, <2>1, <2>2
  <1>7. ASSUME NEW m \in Messages, NEW x \in Reader, Answers(m, x)
        PROVE  NewEvents = {EventOf(m, x)}
    <2>1. \A e : e \notin As
      BY <1>4, <1>7 DEF Answers, OthersStay
    <2>2. mailbox'[m].acks \ mailbox[m].acks = {x}
      BY <1>7 DEF Answers
    <2>3. \A e : e \in Bs <=> e = EventOf(m, x)
      <3>1. \A n \in Messages \ {m} : mailbox[n] # NoDelivery => mailbox'[n].acks \ mailbox[n].acks = {}
        BY <1>7 DEF Answers, OthersStay
      <3>2. mailbox[m] # NoDelivery
        BY <1>7 DEF Answers
      <3>3. QED BY <1>5, <2>2, <3>1, <3>2
    <2>4. QED BY <1>3, <2>1, <2>3
  <1>8. ASSUME OthersStay({})
        PROVE  NewEvents = {}
    <2>1. \A e : e \notin As
      BY <1>4, <1>8 DEF OthersStay
    <2>2. \A e : e \notin Bs
      BY <1>5, <1>8 DEF OthersStay
    <2>3. QED BY <1>3, <2>1, <2>2
  <1>9. QED BY <1>6, <1>7, <1>8 DEF Mails

LEMMA LeftIs ==
  ASSUME RowsAreKept, Grew
  PROVE  /\ Hot \subseteq Left /\ Left \cap Rows = {} /\ Left \subseteq Messages
         /\ \A m \in Left : mailbox'[m] # NoDelivery
         /\ OthersStay({}) => Left = Hot
         /\ \A m \in Messages : Accepts(m) => Left = Hot \cup {m} /\ m \notin Hot
         /\ \A m \in Messages, x \in Reader : Answers(m, x) => Left = Hot /\ m \in Hot
  <1>1. Hot \subseteq Left /\ Left \cap Rows = {} /\ Left \subseteq Messages
        /\ \A m \in Left : mailbox'[m] # NoDelivery
    BY DEF Hot, Left, Accepted, Grew
  <1>2. OthersStay({}) => Left = Hot
    BY <1>1 DEF OthersStay, Hot, Left, Accepted
  <1>3. ASSUME NEW m \in Messages, Accepts(m)
        PROVE  Left = Hot \cup {m} /\ m \notin Hot
    BY <1>1, <1>3 DEF Accepts, OthersStay, Hot, Left, Accepted, RowsAreKept
  <1>4. ASSUME NEW m \in Messages, NEW x \in Reader, Answers(m, x)
        PROVE  Left = Hot /\ m \in Hot
    BY <1>1, <1>4 DEF Answers, OthersStay, Hot, Left, Accepted, RowsAreKept
  <1>5. QED BY <1>1, <1>2, <1>3, <1>4

\* No reader of a message is taken for its acceptance.
LEMMA AcceptanceIsApart == Acceptance \notin Reader
  <1>1. ThePrimary \in Recipient
    BY MailboxAssumption DEF ThePrimary, Recipient
  <1>2. ASSUME NEW a \in Members, NEW g \in 1 .. MaxTeamEpoch, NEW t \in 1 .. MaxTeamEpoch
        PROVE  [actor |-> a, gen |-> g, team |-> t] \in Recipient
    <2>1. g \in 0 .. 2 * MaxTeamEpoch /\ t \in 0 .. MaxTeamEpoch
      BY MailboxAssumption
    <2>2. QED BY <2>1 DEF Recipient
  <1>3. Reader \subseteq Recipient
    BY <1>1, <1>2 DEF Reader
  <1>4. QED BY <1>3, ArchiveAssumption

LEMMA LogIs ==
  ASSUME ArchiveInv, Mails, Grew, NEW log, log = Log,
         NEW box, box = [m \in Left |-> mailbox'[m]]
  PROVE  /\ Events \in Nat /\ checkpoint.events <= Events
         /\ DOMAIN log = DOMAIN audit \cup (checkpoint.events + 1 .. Events)
         /\ DOMAIN log \subseteq 1 .. Events /\ IsFiniteSet(DOMAIN log)
         /\ \A s \in DOMAIN audit : log[s] = audit[s]
         /\ checkpoint.archived + Cardinality(DOMAIN log) = Events
         /\ AuditLinks(log, box)
  <1>1. PICK last : last = checkpoint.events
    OBVIOUS
  <1>2. last \in Nat /\ checkpoint.archived \in Nat
    BY <1>1 DEF ArchiveInv, CheckpointTyped
  <1>3. /\ DOMAIN audit \subseteq 1 .. last /\ AuditLinks(audit, [m \in Hot |-> mailbox[m]])
        /\ checkpoint.archived + Cardinality(DOMAIN audit) = last
    BY <1>1 DEF ArchiveInv, HotHistory, CheckpointAgrees
  <1>4. IsFiniteSet(DOMAIN audit) /\ Cardinality(DOMAIN audit) \in Nat
    <2>1. IsFiniteSet(1 .. last)
      BY <1>2, FS_Interval
    <2>2. IsFiniteSet(DOMAIN audit)
      BY <1>3, <2>1, FS_Subset
    <2>3. QED BY <2>2, FS_CardinalityType
  <1>5. /\ Hot \subseteq Left
        /\ OthersStay({}) => Left = Hot
        /\ \A m \in Messages : Accepts(m) => Left = Hot \cup {m} /\ m \notin Hot
        /\ \A m \in Messages, x \in Reader : Answers(m, x) => Left = Hot /\ m \in Hot
    BY LeftIs DEF ArchiveInv
  <1>6. Hot \subseteq Messages /\ \A m \in Hot : mailbox[m] # NoDelivery
    BY DEF Hot, Accepted
  <1>7. PICK hot : hot = [m \in Hot |-> mailbox[m]]
    OBVIOUS
  <1>8. ASSUME NEW m \in Messages, NEW x, NewEvents = {EventOf(m, x)},
               OthersStay({m}), Left = Hot \cup {m},
               \/ m \notin Hot /\ x = Acceptance /\ mailbox'[m].acks = {}
               \/ /\ m \in Hot /\ mailbox'[m].acks = mailbox[m].acks \cup {x}
                  /\ x \notin mailbox[m].acks /\ x # Acceptance
        PROVE  /\ Events = last + 1
               /\ DOMAIN log = DOMAIN audit \cup (last + 1 .. Events)
               /\ DOMAIN log \subseteq 1 .. Events /\ IsFiniteSet(DOMAIN log)
               /\ \A s \in DOMAIN audit : log[s] = audit[s]
               /\ checkpoint.archived + Cardinality(DOMAIN log) = Events
               /\ AuditLinks(log, box)
    <2>1. Events = last + 1
      BY <1>1, <1>8, FS_Singleton DEF Events
    <2>2. last + 1 .. Events = {last + 1} /\ last + 1 \notin DOMAIN audit
      BY <1>2, <1>3, <2>1
    <2>3. /\ DOMAIN log = DOMAIN audit \cup {last + 1} /\ log[last + 1] = EventOf(m, x)
          /\ \A s \in DOMAIN audit : log[s] = audit[s]
      <3>1. (CHOOSE e \in NewEvents : TRUE) = EventOf(m, x)
        BY <1>8
      <3>2. log = [s \in DOMAIN audit \cup {last + 1} |->
                     IF s \in DOMAIN audit THEN audit[s] ELSE EventOf(m, x)]
        BY <1>1, <2>2, <3>1 DEF Log
      <3>3. QED BY <2>2, <3>2
    <2>4. /\ DOMAIN log \subseteq 1 .. Events /\ IsFiniteSet(DOMAIN log)
          /\ checkpoint.archived + Cardinality(DOMAIN log) = Events
      <3>1. IsFiniteSet(DOMAIN log) /\ Cardinality(DOMAIN log) = Cardinality(DOMAIN audit) + 1
        BY <1>4, <2>2, <2>3, FS_AddElement
      <3>2. DOMAIN log \subseteq 1 .. Events
        BY <1>2, <1>3, <2>1, <2>3
      <3>3. QED BY <1>2, <1>3, <1>4, <2>1, <3>1, <3>2
    <2>5. AuditLinks(log, box)
      <3>1. /\ DOMAIN hot = Hot /\ DOMAIN box = DOMAIN hot \cup {m}
            /\ \A n \in DOMAIN hot \ {m} : box[n].acks = hot[n].acks
            /\ box[m] = mailbox'[m] /\ (m \in Hot => hot[m] = mailbox[m])
        <4>1. \A n \in Hot \ {m} : mailbox'[n].acks = mailbox[n].acks
          BY <1>6, <1>8 DEF OthersStay
        <4>2. QED BY <1>7, <1>8, <4>1
      <3>2. AuditLinks(audit, hot)
        BY <1>3, <1>7
      <3>3. \/ m \notin DOMAIN hot /\ x = Acceptance /\ box[m].acks = {}
            \/ /\ m \in DOMAIN hot /\ box[m].acks = hot[m].acks \cup {x}
               /\ x \notin hot[m].acks /\ x # Acceptance
        BY <1>8, <3>1
      <3>4. DOMAIN audit \subseteq 1 .. last
        BY <1>3
      <3>5. Extends(log, box, audit, hot, last, m, x)
        BY <1>2, <2>3, <3>1, <3>2, <3>3, <3>4 DEF Extends
      <3>6. QED BY <3>5, LinksGrow
    <2>6. QED BY <2>1, <2>2, <2>3, <2>4, <2>5
  <1>9. ASSUME OthersStay({}), NewEvents = {}
        PROVE  /\ Events = last
               /\ DOMAIN log = DOMAIN audit \cup (last + 1 .. Events)
               /\ DOMAIN log \subseteq 1 .. Events /\ IsFiniteSet(DOMAIN log)
               /\ \A s \in DOMAIN audit : log[s] = audit[s]
               /\ checkpoint.archived + Cardinality(DOMAIN log) = Events
               /\ AuditLinks(log, box)
    <2>1. Events = last
      BY <1>1, <1>2, <1>9, FS_EmptySet DEF Events
    <2>2. last + 1 .. Events = {}
      BY <1>2, <2>1
    <2>3. DOMAIN log = DOMAIN audit /\ \A s \in DOMAIN audit : log[s] = audit[s]
      BY <1>1, <2>2 DEF Log
    <2>4. AuditLinks(log, box)
      <3>1. OwnEvents(audit, hot) /\ AllEvents(audit, hot) /\ AcceptedFirst(audit)
        BY <1>3, <1>7, LinksAre
      <3>2. DOMAIN box = DOMAIN hot /\ \A m \in DOMAIN box : Voices(box[m]) = Voices(hot[m])
        <4>1. \A n \in Hot : mailbox'[n].acks = mailbox[n].acks
          BY <1>6, <1>9 DEF OthersStay
        <4>2. DOMAIN box = Hot /\ DOMAIN hot = Hot
          BY <1>5, <1>7, <1>9
        <4>3. ASSUME NEW n \in Hot
              PROVE  box[n].acks = hot[n].acks
          <5>1. box[n] = mailbox'[n] /\ hot[n] = mailbox[n]
            BY <1>5, <1>7, <1>9
          <5>2. QED BY <4>1, <5>1
        <4>4. QED BY <4>2, <4>3 DEF Voices
      <3>3. OwnEvents(log, box) /\ AllEvents(log, box) /\ AcceptedFirst(log)
        BY <2>3, <3>1, <3>2 DEF OwnEvents, AllEvents, AcceptedFirst
      <3>4. QED BY <3>3, LinksAre
    <2>5. QED BY <1>3, <1>4, <2>1, <2>2, <2>3, <2>4
  <1>10. Acceptance \notin Reader
    BY AcceptanceIsApart
  <1>11. MailInv
    BY DEF ArchiveInv
  <1>12. CASE \E m \in Messages : Accepts(m) /\ NewEvents = {EventOf(m, Acceptance)}
    <2>1. PICK m \in Messages : Accepts(m) /\ NewEvents = {EventOf(m, Acceptance)}
      BY <1>12
    <2>2. /\ OthersStay({m}) /\ Left = Hot \cup {m} /\ m \notin Hot /\ mailbox'[m].acks = {}
      BY <1>5, <2>1 DEF Accepts
    <2>3. /\ Events = last + 1
          /\ DOMAIN log = DOMAIN audit \cup (last + 1 .. Events)
          /\ DOMAIN log \subseteq 1 .. Events /\ IsFiniteSet(DOMAIN log)
          /\ \A s \in DOMAIN audit : log[s] = audit[s]
          /\ checkpoint.archived + Cardinality(DOMAIN log) = Events
          /\ AuditLinks(log, box)
      BY <1>8, <2>1, <2>2
    <2>4. QED BY <1>1, <1>2, <2>3
  <1>13. CASE \E m \in Messages : \E x \in Reader : Answers(m, x) /\ NewEvents = {EventOf(m, x)}
    <2>1. PICK m \in Messages, x \in Reader : Answers(m, x) /\ NewEvents = {EventOf(m, x)}
      BY <1>13
    <2>2. /\ OthersStay({m}) /\ Left = Hot \cup {m} /\ m \in Hot
          /\ mailbox'[m].acks = mailbox[m].acks \cup {x} /\ x \notin mailbox[m].acks
          /\ x # Acceptance
      BY <1>5, <1>10, <2>1 DEF Answers
    <2>3. /\ Events = last + 1
          /\ DOMAIN log = DOMAIN audit \cup (last + 1 .. Events)
          /\ DOMAIN log \subseteq 1 .. Events /\ IsFiniteSet(DOMAIN log)
          /\ \A s \in DOMAIN audit : log[s] = audit[s]
          /\ checkpoint.archived + Cardinality(DOMAIN log) = Events
          /\ AuditLinks(log, box)
      BY <1>8, <2>1, <2>2
    <2>4. QED BY <1>1, <1>2, <2>3
  <1>14. CASE OthersStay({}) /\ NewEvents = {}
    BY <1>1, <1>2, <1>9, <1>14
  <1>15. QED BY <1>11, <1>12, <1>13, <1>14, NewEventsAre

-----------------------------------------------------------------------------
(* What a mutation archives.                                               *)

\* How the step that accepts a message says what it is about.
AboutMoves ==
  \/ about' = about
  \/ \E m \in Messages : \E x \in Messages \cup Requests \cup {Consult} :
       /\ Accepts(m) /\ about' = [about EXCEPT ![m] = x]
       /\ x \in Messages \cup {Consult} => mailbox'[m].req = NoRequest
       /\ x \in Messages => x \in Hot /\ about[x] = Consult /\ \A k \in Hot : about[k] # x

Moves ==
  /\ ArchiveInv /\ MailInv' /\ Mails /\ OverIsOver /\ Grew /\ KnownContext /\ AboutMoves

Archived(left, log, over, gone, leaving) ==
  /\ left = Left /\ log = Log /\ over = Over(left) /\ gone = Gone(left, over)
  /\ leaving = Leaving(log, gone)
  /\ archive' = [rows |-> NewRows(gone), audit |-> NewAudit(log, leaving),
                 requests |-> NewRequests(log, over)]
  /\ audit' = [s \in DOMAIN log \ leaving |-> log[s]]
  /\ commits' = NewCommits(gone \cup leaving \cup over)
  /\ checkpoint' = NewCheckpoint(over, gone, leaving)

LEMMA ArchivingIs ==
  ASSUME ArchiveHistory
  PROVE  \E left, log, over, gone, leaving : Archived(left, log, over, gone, leaving)
  <1>1. PICK left, log : left = Left /\ log = Log
    OBVIOUS
  <1>2. PICK over : over = Over(left)
    OBVIOUS
  <1>3. PICK gone : gone = Gone(left, over)
    OBVIOUS
  <1>4. PICK leaving : leaving = Leaving(log, gone)
    OBVIOUS
  <1>5. Archived(left, log, over, gone, leaving)
    BY <1>1, <1>2, <1>3, <1>4 DEF ArchiveHistory, Archived
  <1>6. QED BY <1>5

\* What is hot, archived and over after it.
LEMMA Parts ==
  ASSUME Moves, NEW left, NEW log, NEW over, NEW gone, NEW leaving,
         Archived(left, log, over, gone, leaving)
  PROVE  /\ left \subseteq Messages /\ gone \subseteq left /\ left \cap Rows = {}
         /\ Rows' = Rows \cup gone /\ Hot' = left \ gone /\ Accepted' = left \cup Rows
         /\ \A m \in gone : archive'.rows[m] = mailbox'[m]
         /\ \A m \in Rows : archive'.rows[m] = archive.rows[m]
         /\ DOMAIN archive'.requests = DOMAIN archive.requests \cup over
         /\ over \subseteq Requests \ DOMAIN archive.requests
         /\ \A r \in over : /\ request'[r].st = "Terminal"
                            /\ \E m \in left : mailbox'[m].req = r
                            /\ \A m \in left : mailbox'[m].req = r => mailbox'[m].retired
         /\ \A m \in left : m \in gone <=>
              /\ mailbox'[m].retired
              /\ IF mailbox'[m].req # NoRequest THEN mailbox'[m].req \in over ELSE Paired(m, left)
  <1>1. /\ left = Left /\ over = Over(left) /\ gone = Gone(left, over)
        /\ archive'.rows = NewRows(gone) /\ archive'.requests = NewRequests(log, over)
    BY DEF Archived
  <1>2. /\ left \subseteq Messages /\ left \cap Rows = {}
        /\ left = {m \in Messages : mailbox'[m] # NoDelivery} \ Rows
    BY <1>1 DEF Left
  <1>3. gone \subseteq left /\ \A m \in left : m \in gone <=>
          /\ mailbox'[m].retired
          /\ IF mailbox'[m].req # NoRequest THEN mailbox'[m].req \in over ELSE Paired(m, left)
    BY <1>1 DEF Gone
  <1>4. /\ over \subseteq Requests \ DOMAIN archive.requests
        /\ \A r \in over : /\ request'[r].st = "Terminal"
                           /\ \E m \in left : mailbox'[m].req = r
                           /\ \A m \in left : mailbox'[m].req = r => mailbox'[m].retired
    BY <1>1 DEF Over
  <1>5. /\ Rows' = Rows \cup gone
        /\ \A m \in Rows : archive'.rows[m] = archive.rows[m]
        /\ \A m \in gone : archive'.rows[m] = mailbox'[m]
    BY <1>1, <1>2, <1>3 DEF NewRows, Rows
  <1>6. DOMAIN archive'.requests = DOMAIN archive.requests \cup over
    BY <1>1 DEF NewRequests
  <1>7. Rows \subseteq Messages /\ \A m \in Rows : mailbox'[m] # NoDelivery
    BY DEF Moves, ArchiveInv, RowsAreKept, Accepted, Grew
  <1>8. Accepted' = left \cup Rows
    BY <1>2, <1>7 DEF Accepted
  <1>9. Hot' = left \ gone
    BY <1>2, <1>5, <1>8 DEF Hot
  <1>10. QED BY <1>2, <1>3, <1>4, <1>5, <1>6, <1>8, <1>9

\* The messages of a request that is over leave with it.
LEMMA OverLeaves ==
  ASSUME Moves, NEW left, NEW log, NEW over, NEW gone, NEW leaving,
         Archived(left, log, over, gone, leaving), NEW m \in left, mailbox'[m].req \in over
  PROVE  m \in gone
  <1>1. mailbox'[m].req # NoRequest
    BY Parts, MailboxAssumption
  <1>2. QED BY <1>1, Parts

\* What a message that is hot before and after is about.
LEMMA HotStays ==
  ASSUME Moves, NEW m \in Hot
  PROVE  /\ m \in Left /\ SameMessage(mailbox[m], mailbox'[m])
         /\ about'[m] = about[m] /\ mailbox[m] # NoDelivery /\ m \in Messages
  <1>1. m \in Messages /\ mailbox[m] # NoDelivery
    BY DEF Hot, Accepted
  <1>2. m \in Left
    BY LeftIs DEF Moves, ArchiveInv
  <1>3. SameMessage(mailbox[m], mailbox'[m])
    BY <1>1 DEF Moves, Grew
  <1>4. about'[m] = about[m]
    <2>1. CASE about' = about
      BY <2>1
    <2>2. ASSUME NEW n \in Messages, NEW x, Accepts(n), about' = [about EXCEPT ![n] = x]
          PROVE  about'[m] = about[m]
      <3>1. n # m
        BY <1>1, <2>2 DEF Accepts
      <3>2. QED BY <2>2, <3>1, <1>1 DEF Moves, ArchiveInv, AboutIsSound
    <2>3. QED BY <2>1, <2>2 DEF Moves, AboutMoves
  <1>5. QED BY <1>1, <1>2, <1>3, <1>4

\* The message that is accepted.
LEMMA NewIs ==
  ASSUME Moves, NEW m \in Left \ Hot
  PROVE  /\ Accepts(m) /\ Left = Hot \cup {m} /\ m \in Messages
         /\ \/ about'[m] = Nothing
            \/ /\ about'[m] \in Messages \cup Requests \cup {Consult}
               /\ about'[m] \in Messages \cup {Consult} => mailbox'[m].req = NoRequest
               /\ about'[m] \in Messages =>
                    /\ about'[m] \in Hot /\ about[about'[m]] = Consult
                    /\ \A k \in Hot : about[k] # about'[m]
  <1>1. /\ Left \subseteq Messages
        /\ OthersStay({}) => Left = Hot
    BY LeftIs DEF Moves, ArchiveInv
  <1>2. m \in Messages
    BY <1>1
  <1>3. \A n \in Messages, x \in Reader : Answers(n, x) => Left = Hot
    BY LeftIs DEF Moves, ArchiveInv
  <1>4. \A n \in Messages : Accepts(n) => Left = Hot \cup {n}
    BY LeftIs DEF Moves, ArchiveInv
  <1>5. PICK n \in Messages : Accepts(n)
    <2>1. ~OthersStay({})
      BY LeftIs DEF Moves, ArchiveInv
    <2>2. QED BY <1>3, <2>1 DEF Moves, Mails
  <1>6. n = m /\ Accepts(m) /\ Left = Hot \cup {m} /\ m \in Messages
    BY <1>4, <1>5
  <1>7. CASE about' = about
    <2>1. m \notin Accepted
      BY <1>6 DEF Accepts, Accepted
    <2>2. QED BY <1>6, <1>7, <2>1 DEF Moves, ArchiveInv, AboutIsSound
  <1>8. ASSUME NEW k \in Messages, NEW x \in Messages \cup Requests \cup {Consult},
               Accepts(k), about' = [about EXCEPT ![k] = x],
               x \in Messages \cup {Consult} => mailbox'[k].req = NoRequest,
               x \in Messages => x \in Hot /\ about[x] = Consult /\ \A h \in Hot : about[h] # x
        PROVE  /\ about'[m] \in Messages \cup Requests \cup {Consult}
               /\ about'[m] \in Messages \cup {Consult} => mailbox'[m].req = NoRequest
               /\ about'[m] \in Messages =>
                    /\ about'[m] \in Hot /\ about[about'[m]] = Consult
                    /\ \A h \in Hot : about[h] # about'[m]
    <2>1. k = m
      BY <1>4, <1>8, <1>6
    <2>2. about'[m] = x
      BY <1>6, <1>8, <2>1 DEF Moves, ArchiveInv, AboutIsSound
    <2>3. QED BY <1>8, <2>1, <2>2
  <1>9. QED BY <1>6, <1>7, <1>8 DEF Moves, AboutMoves

\* A message that answers a consultation finds it hot, and is its only hot answer.
LEMMA AnswersAre ==
  ASSUME Moves, NEW m \in Left, NEW n, n = about'[m], n \in Messages
  PROVE  /\ n \in Hot /\ about'[n] = Consult /\ about[n] = Consult
         /\ mailbox'[m].req = NoRequest /\ mailbox'[n].req = NoRequest
         /\ \A k \in Left : about'[k] = n => k = m
  <1>1. n \in Hot /\ about[n] = Consult /\ mailbox'[m].req = NoRequest
    <2>1. CASE m \in Hot
      <3>1. about[m] = n /\ SameMessage(mailbox[m], mailbox'[m])
        BY <2>1, HotStays
      <3>2. n \in Hot
        BY <2>1, <3>1 DEF Moves, ArchiveInv, HotHistory, HotLinks
      <3>3. m \in Accepted
        BY <2>1 DEF Hot
      <3>4. about[n] = Consult /\ mailbox[m].req = NoRequest
        BY <3>1, <3>3 DEF Moves, ArchiveInv, AboutIsSound
      <3>5. QED BY <3>1, <3>2, <3>4 DEF SameMessage
    <2>2. CASE m \notin Hot
      BY <2>2, NewIs, ArchiveAssumption
    <2>3. QED BY <2>1, <2>2
  <1>2. about'[n] = Consult /\ mailbox'[n].req = NoRequest
    <2>1. about'[n] = about[n] /\ SameMessage(mailbox[n], mailbox'[n])
      BY <1>1, HotStays
    <2>2. n \in Accepted
      BY <1>1 DEF Hot
    <2>3. mailbox[n].req = NoRequest
      BY <1>1, <2>2 DEF Moves, ArchiveInv, AboutIsSound
    <2>4. QED BY <1>1, <2>1, <2>3 DEF SameMessage
  <1>3. ASSUME NEW k \in Left, about'[k] = n
        PROVE  k = m
    <2>1. \A h \in Hot : about'[h] = about[h]
      BY HotStays
    <2>2. CASE k \in Hot /\ m \in Hot
      BY <1>3, <2>1, <2>2 DEF Moves, ArchiveInv, AboutIsSound
    <2>3. CASE k \notin Hot /\ m \notin Hot
      BY <2>3, NewIs
    <2>4. CASE k \in Hot /\ m \notin Hot
      <3>1. about[k] = n
        BY <1>3, <2>1, <2>4
      <3>2. about'[m] # Nothing
        BY ArchiveAssumption
      <3>3. QED BY <2>4, <3>1, <3>2, NewIs
    <2>5. CASE k \notin Hot /\ m \in Hot
      <3>1. about[m] = n
        BY <2>1, <2>5
      <3>2. about'[k] # Nothing
        BY <1>3, ArchiveAssumption
      <3>3. QED BY <1>3, <2>5, <3>1, <3>2, NewIs
    <2>6. QED BY <2>2, <2>3, <2>4, <2>5
  <1>4. QED BY <1>1, <1>2, <1>3

\* Neither half of a consultation leaves without the other.
LEMMA PairsLeave ==
  ASSUME Moves, NEW left, NEW log, NEW over, NEW gone, NEW leaving,
         Archived(left, log, over, gone, leaving),
         NEW m \in left, NEW n, n = about'[m], n \in Messages
  PROVE  n \in left /\ (m \in gone <=> n \in gone)
  <1>1. left = Left
    BY DEF Archived
  <1>2. /\ n \in Hot /\ about'[n] = Consult
        /\ mailbox'[m].req = NoRequest /\ mailbox'[n].req = NoRequest
        /\ \A k \in left : about'[k] = n => k = m
    BY <1>1, AnswersAre
  <1>3. n \in left
    BY <1>1, <1>2, HotStays
  <1>4. Paired(m, left) <=> mailbox'[n].retired
    BY <1>3, ArchiveAssumption DEF Paired
  <1>5. Paired(n, left) <=> mailbox'[m].retired
    BY <1>2, <1>3, ArchiveAssumption DEF Paired
  <1>6. QED BY <1>2, <1>3, <1>4, <1>5, Parts

LEMMA AboutKeeps ==
  ASSUME Moves, NEW left, NEW log, NEW over, NEW gone, NEW leaving,
         Archived(left, log, over, gone, leaving)
  PROVE  AboutIsSound'
  <1>1. left = Left /\ Accepted' = left \cup Rows /\ Hot' = left \ gone /\ left \subseteq Messages
    <2>1. left = Left
      BY DEF Archived
    <2>2. QED BY <2>1, Parts
  <1>2. Accepted = Hot \cup Rows /\ Rows \subseteq Accepted
    BY DEF Hot, Moves, ArchiveInv, RowsAreKept
  <1>3. about' \in [Messages -> Messages \cup Requests \cup {Nothing, Consult}]
    <2>1. CASE about' = about
      BY <2>1 DEF Moves, ArchiveInv, AboutIsSound
    <2>2. ASSUME NEW k \in Messages, NEW x \in Messages \cup Requests \cup {Consult},
                 about' = [about EXCEPT ![k] = x]
          PROVE  about' \in [Messages -> Messages \cup Requests \cup {Nothing, Consult}]
      BY <2>2 DEF Moves, ArchiveInv, AboutIsSound
    <2>3. QED BY <2>1, <2>2 DEF Moves, AboutMoves
  <1>4. \A m \in Rows : about'[m] = about[m] /\ mailbox'[m].req = mailbox[m].req
    <2> SUFFICES ASSUME NEW m \in Rows
                 PROVE  about'[m] = about[m] /\ mailbox'[m].req = mailbox[m].req
      OBVIOUS
    <2>1. m \in Messages /\ mailbox[m] # NoDelivery
      BY <1>2 DEF Accepted
    <2>2. SameMessage(mailbox[m], mailbox'[m])
      BY <2>1 DEF Moves, Grew
    <2>3. about'[m] = about[m]
      <3>1. CASE about' = about
        BY <3>1
      <3>2. ASSUME NEW k \in Messages, NEW x, Accepts(k), about' = [about EXCEPT ![k] = x]
            PROVE  about'[m] = about[m]
        <4>1. k # m
          BY <2>1, <3>2 DEF Accepts
        <4>2. QED BY <2>1, <3>2, <4>1 DEF Moves, ArchiveInv, AboutIsSound
      <3>3. QED BY <3>1, <3>2 DEF Moves, AboutMoves
    <2>4. QED BY <2>2, <2>3 DEF SameMessage
  <1>5. \A m \in Messages \ Accepted' : about'[m] = Nothing
    <2> SUFFICES ASSUME NEW m \in Messages \ Accepted'
                 PROVE  about'[m] = Nothing
      OBVIOUS
    <2>1. m \notin Accepted /\ mailbox'[m] = NoDelivery
      BY DEF Accepted, Moves, Grew
    <2>2. about[m] = Nothing
      BY <2>1 DEF Moves, ArchiveInv, AboutIsSound
    <2>3. CASE about' = about
      BY <2>2, <2>3
    <2>4. ASSUME NEW k \in Messages, NEW x, Accepts(k), about' = [about EXCEPT ![k] = x]
          PROVE  about'[m] = Nothing
      <3>1. k # m
        BY <2>1, <2>4 DEF Accepts
      <3>2. QED BY <2>2, <2>4, <3>1 DEF Moves, ArchiveInv, AboutIsSound
    <2>5. QED BY <2>3, <2>4 DEF Moves, AboutMoves
  <1>6. ASSUME NEW m \in Accepted', about'[m] \in Messages \cup {Consult}
        PROVE  mailbox'[m].req = NoRequest
    <2>1. CASE m \in Rows
      BY <1>2, <1>4, <1>6, <2>1 DEF Moves, ArchiveInv, AboutIsSound
    <2>2. CASE m \in Hot
      <3>1. about'[m] = about[m] /\ SameMessage(mailbox[m], mailbox'[m])
        BY <2>2, HotStays
      <3>2. m \in Accepted
        BY <2>2 DEF Hot
      <3>3. QED BY <1>6, <3>1, <3>2 DEF Moves, ArchiveInv, AboutIsSound, SameMessage
    <2>3. CASE m \in Left \ Hot
      <3>1. about'[m] # Nothing
        BY <1>6, ArchiveAssumption
      <3>2. QED BY <1>6, <2>3, <3>1, NewIs
    <2>4. QED BY <1>1, <2>1, <2>2, <2>3
  <1>7. ASSUME NEW m \in Accepted', about'[m] \in Messages
        PROVE  about'[m] \in Accepted' /\ about'[about'[m]] = Consult
    <2>1. CASE m \in Rows
      <3>1. PICK n : n = about[m]
        OBVIOUS
      <3>2. n \in Accepted /\ about[n] = Consult /\ about'[m] = n
        BY <1>2, <1>4, <1>7, <2>1, <3>1 DEF Moves, ArchiveInv, AboutIsSound
      <3>3. about'[n] = about[n]
        BY <1>2, <1>4, <3>2, HotStays
      <3>4. n \in Accepted'
        BY <3>2 DEF Accepted, Moves, Grew
      <3>5. QED BY <3>2, <3>3, <3>4
    <2>2. CASE m \in Left
      BY <1>1, <1>7, <2>2, AnswersAre, HotStays
    <2>3. QED BY <1>1, <2>1, <2>2
  <1>8. ASSUME NEW m \in Hot', NEW n \in Hot', about'[m] \in Messages, about'[m] = about'[n]
        PROVE  m = n
    BY <1>1, <1>8, AnswersAre
  <1>9. QED BY <1>3, <1>5, <1>6, <1>7, <1>8 DEF AboutIsSound

LEMMA HotLinksKeep ==
  ASSUME Moves, NEW left, NEW log, NEW over, NEW gone, NEW leaving,
         Archived(left, log, over, gone, leaving)
  PROVE  HotLinks'
  <1>1. left = Left
    BY DEF Archived
  <1>2. /\ Hot' = left \ gone /\ left \cap Rows = {} /\ left \subseteq Messages
        /\ Accepted' = left \cup Rows
        /\ DOMAIN archive'.requests = DOMAIN archive.requests \cup over
    BY Parts
  <1>3. \A r : r \in HotRequests' <=>
          /\ r \in Requests /\ request'[r].st # "None"
          /\ r \notin DOMAIN archive.requests /\ r \notin over
    BY <1>2 DEF HotRequests
  <1>4. \A m \in Hot : mailbox[m].req # NoRequest => mailbox[m].req \in HotRequests
    BY DEF Moves, ArchiveInv, HotHistory, HotLinks
  <1>5. ASSUME NEW m \in Hot', mailbox'[m].req # NoRequest
        PROVE  mailbox'[m].req \in HotRequests'
    <2>1. PICK r : r = mailbox'[m].req
      OBVIOUS
    <2>2. m \in left /\ m \notin gone /\ m \in Accepted'
      BY <1>2
    <2>3. r \in Requests /\ request'[r].st # "None"
      <3>1. MailInv' /\ m \in Messages /\ mailbox'[m] # NoDelivery
        BY <2>2 DEF Moves, Accepted
      <3>2. mailbox'[m] \in Delivery /\ ContextRestores(mailbox[m])'
        <4>1. DeliveryRestores(mailbox[m])'
          BY <2>2, <3>1 DEF MailInv, EveryDeliveryRestores
        <4>2. QED BY <3>1, <4>1 DEF DeliveryRestores, MailInv, MailTyped
      <3>3. QED BY <1>5, <2>1, <3>2 DEF ContextRestores, Delivery
    <2>4. r \notin over
      BY <2>1, <2>2, OverLeaves
    <2>5. r \notin DOMAIN archive.requests
      <3>1. CASE m \in Hot
        <4>1. mailbox[m].req = r
          BY <2>1, <3>1, HotStays DEF SameMessage
        <4>2. QED BY <1>4, <1>5, <2>1, <3>1, <4>1 DEF HotRequests
      <3>2. CASE m \notin Hot
        <4>1. m \in Left \ Accepted
          BY <1>1, <1>2, <2>2, <3>2 DEF Hot
        <4>2. r \in {NoRequest} \cup HotRequests \cup {q \in Requests : request[q].st = "None"}
          BY <2>1, <4>1 DEF Moves, KnownContext
        <4>3. \A q \in DOMAIN archive.requests : request[q].st = "Terminal"
          BY DEF Moves, ArchiveInv, RequestsAreOver
        <4>4. QED BY <1>5, <2>1, <4>2, <4>3 DEF HotRequests
      <3>3. QED BY <3>1, <3>2
    <2>6. QED BY <1>3, <2>1, <2>3, <2>4, <2>5
  <1>6. ASSUME NEW m \in Hot', about'[m] \in Messages
        PROVE  about'[m] \in Hot'
    <2>1. m \in left /\ m \notin gone
      BY <1>2
    <2>2. about'[m] \in left /\ (m \in gone <=> about'[m] \in gone)
      BY <1>6, <2>1, PairsLeave
    <2>3. QED BY <1>2, <2>1, <2>2
  <1>7. ASSUME NEW r \in HotRequests'
        PROVE  \E m \in Hot' : mailbox'[m].kind = "Ask" /\ mailbox'[m].req = r
    <2>1. r \in Requests /\ request'[r].st # "None" /\ r \notin DOMAIN archive.requests /\ r \notin over
      BY <1>3
    <2>2. \E m \in left : mailbox'[m].kind = "Ask" /\ mailbox'[m].req = r
      <3>1. CASE request[r].st # "None"
        <4>1. r \in HotRequests
          BY <2>1, <3>1 DEF HotRequests
        <4>2. PICK m \in Hot : mailbox[m].kind = "Ask" /\ mailbox[m].req = r
          BY <4>1 DEF Moves, ArchiveInv, HotHistory, HotLinks
        <4>3. QED BY <1>1, <4>2, HotStays DEF SameMessage
      <3>2. CASE request[r].st = "None"
        <4>1. ~NoRequestStarts
          BY <2>1, <3>2 DEF NoRequestStarts
        <4>2. PICK m \in Messages : Accepts(m)
          BY <4>1 DEF Moves, Mails, Answers
        <4>3. mailbox'[m].kind = "Ask" /\ mailbox'[m].req = r
          BY <2>1, <3>2, <4>2 DEF Accepts
        <4>4. m \in Left
          BY <4>2, LeftIs DEF Moves, ArchiveInv
        <4>5. QED BY <1>1, <4>3, <4>4
      <3>3. QED BY <3>1, <3>2
    <2>3. PICK m \in left : mailbox'[m].kind = "Ask" /\ mailbox'[m].req = r
      BY <2>2
    <2>4. m \notin gone
      <3>1. mailbox'[m].req # NoRequest
        BY <2>1, <2>3, MailboxAssumption
      <3>2. QED BY <2>1, <2>3, <3>1, Parts
    <2>5. QED BY <1>2, <2>3, <2>4
  <1>8. QED BY <1>5, <1>6, <1>7 DEF HotLinks

LEMMA RequestsKeep ==
  ASSUME Moves, NEW left, NEW log, NEW over, NEW gone, NEW leaving,
         Archived(left, log, over, gone, leaving)
  PROVE  \A r \in DOMAIN archive'.requests : r \in Requests /\ request'[r].st = "Terminal"
  BY Parts DEF Moves, ArchiveInv, RequestsAreOver, OverIsOver

-----------------------------------------------------------------------------
(* The events that leave with the deliveries, and how many there are.      *)

\* What leaves of the log and what stays.
LEMMA LogParts ==
  ASSUME Moves, NEW left, NEW log, NEW over, NEW gone, NEW leaving,
         Archived(left, log, over, gone, leaving)
  PROVE  /\ leaving \subseteq DOMAIN log /\ IsFiniteSet(leaving) /\ IsFiniteSet(DOMAIN log)
         /\ DOMAIN log \subseteq 1 .. Events /\ Events \in Nat
         /\ DOMAIN log = DOMAIN audit \cup (checkpoint.events + 1 .. Events)
         /\ checkpoint.events <= Events
         /\ \A s \in DOMAIN audit : log[s] = audit[s]
         /\ checkpoint.archived + Cardinality(DOMAIN log) = Events
         /\ DOMAIN audit' = DOMAIN log \ leaving
         /\ \A s \in DOMAIN audit' : audit'[s] = log[s]
         /\ AuditLinks([s \in leaving |-> log[s]], [m \in gone |-> mailbox'[m]])
         /\ AuditLinks(audit', [m \in Hot' |-> mailbox'[m]])
  <1>1. PICK box : box = [m \in Left |-> mailbox'[m]]
    OBVIOUS
  <1>2. left = Left /\ log = Log /\ leaving = Leaving(log, gone)
        /\ audit' = [s \in DOMAIN log \ leaving |-> log[s]]
    BY DEF Archived
  <1>3. gone \subseteq left /\ Hot' = left \ gone
    BY Parts
  <1>4. /\ Events \in Nat /\ checkpoint.events <= Events
        /\ DOMAIN log = DOMAIN audit \cup (checkpoint.events + 1 .. Events)
        /\ DOMAIN log \subseteq 1 .. Events /\ IsFiniteSet(DOMAIN log)
        /\ \A s \in DOMAIN audit : log[s] = audit[s]
        /\ checkpoint.archived + Cardinality(DOMAIN log) = Events
        /\ AuditLinks(log, box)
    BY <1>1, <1>2, LogIs DEF Moves
  <1>5. leaving = {s \in DOMAIN log : log[s].msg \in gone}
    BY <1>2 DEF Leaving
  <1>6. AuditLinks([s \in leaving |-> log[s]], [m \in gone |-> mailbox'[m]])
    <2>1. gone \in SUBSET DOMAIN box
      BY <1>1, <1>2, <1>3
    <2>2. [m \in gone |-> mailbox'[m]] = [m \in gone |-> box[m]]
      BY <1>1, <1>2, <1>3
    <2>3. PICK own : own = [m \in gone |-> box[m]]
      OBVIOUS
    <2>4. PICK part : part = [s \in {t \in DOMAIN log : log[t].msg \in gone} |-> log[s]]
      OBVIOUS
    <2>5. AuditLinks(part, own)
      BY <1>4, <2>1, <2>3, <2>4, LinksPart
    <2>6. QED BY <1>5, <2>2, <2>3, <2>4, <2>5
  <1>7. AuditLinks(audit', [m \in Hot' |-> mailbox'[m]])
    <2>1. PICK ms : ms = left \ gone
      OBVIOUS
    <2>2. \A s \in DOMAIN log : log[s].msg \in left
      <3>1. OwnEvents(log, box)
        BY <1>4, LinksAre
      <3>2. QED BY <1>1, <1>2, <3>1, EventsAre DEF OwnEvents
    <2>3. DOMAIN log \ leaving = {t \in DOMAIN log : log[t].msg \in ms}
      BY <1>5, <2>1, <2>2
    <2>4. PICK own : own = [m \in ms |-> box[m]]
      OBVIOUS
    <2>5. PICK part : part = [s \in {t \in DOMAIN log : log[t].msg \in ms} |-> log[s]]
      OBVIOUS
    <2>6. ms \in SUBSET DOMAIN box
      BY <1>1, <1>2, <2>1
    <2>7. AuditLinks(part, own)
      BY <1>4, <2>4, <2>5, <2>6, LinksPart
    <2>8. audit' = part
      BY <1>2, <2>3, <2>5
    <2>9. [m \in Hot' |-> mailbox'[m]] = own
      <3>1. Hot' = ms /\ \A m \in ms : box[m] = mailbox'[m]
        BY <1>1, <1>2, <1>3, <2>1
      <3>2. QED BY <2>4, <3>1
    <2>10. QED BY <2>7, <2>8, <2>9
  <1>8. leaving \subseteq DOMAIN log /\ IsFiniteSet(leaving)
    BY <1>4, <1>5, FS_Subset
  <1>9. QED BY <1>2, <1>4, <1>6, <1>7, <1>8

\* Everything that leaves leaves with an event, every request with a message.
LEMMA Counts ==
  ASSUME Moves, NEW left, NEW log, NEW over, NEW gone, NEW leaving,
         Archived(left, log, over, gone, leaving)
  PROVE  /\ IsFiniteSet(over) /\ IsFiniteSet(gone)
         /\ Cardinality(over) \in Nat /\ Cardinality(gone) \in Nat /\ Cardinality(leaving) \in Nat
         /\ Cardinality(over) <= Cardinality(gone) /\ Cardinality(gone) <= Cardinality(leaving)
         /\ gone = {} <=> Cardinality(gone) = 0
         /\ gone = {} => over = {} /\ leaving = {}
  <1>1. PICK f : f = [s \in leaving |-> log[s]]
    OBVIOUS
  <1>2. PICK box : box = [m \in gone |-> mailbox'[m]]
    OBVIOUS
  <1>3. OwnEvents(f, box) /\ AllEvents(f, box) /\ IsFiniteSet(leaving)
    BY <1>1, <1>2, LogParts, LinksAre
  <1>4. /\ \A s \in leaving : log[s].msg \in gone
        /\ \A m \in gone : \E s \in leaving : log[s].msg = m
    <2>1. \A s \in leaving : log[s].msg \in gone
      BY <1>1, <1>2, <1>3, EventsAre DEF OwnEvents
    <2>2. ASSUME NEW m \in gone
          PROVE  \E s \in leaving : log[s].msg = m
      <3>1. Acceptance \in Voices(box[m])
        BY DEF Voices
      <3>2. PICK s \in leaving : f[s] = EventOf(m, Acceptance)
        BY <1>1, <1>2, <1>3, <3>1 DEF AllEvents
      <3>3. QED BY <1>1, <3>2, EventsAre
    <2>3. QED BY <2>1, <2>2
  <1>5. IsFiniteSet(gone) /\ Cardinality(gone) <= Cardinality(leaving)
    <2>1. PICK g : g = [s \in leaving |-> log[s].msg]
      OBVIOUS
    <2>2. g \in Surjection(leaving, gone)
      BY <1>4, <2>1 DEF Surjection
    <2>3. QED BY <1>3, <2>2, FS_Surjection
  <1>6. IsFiniteSet(over) /\ Cardinality(over) <= Cardinality(gone)
    <2>1. PICK ms : ms = {m \in gone : mailbox'[m].req \in over}
      OBVIOUS
    <2>2. PICK g : g = [m \in ms |-> mailbox'[m].req]
      OBVIOUS
    <2>3. \A r \in over : \E m \in ms : mailbox'[m].req = r
      <3> SUFFICES ASSUME NEW r \in over
                   PROVE  \E m \in ms : mailbox'[m].req = r
        OBVIOUS
      <3>1. PICK m \in left : mailbox'[m].req = r
        BY Parts
      <3>2. m \in gone
        BY <3>1, OverLeaves
      <3>3. QED BY <2>1, <3>1, <3>2
    <2>4. g \in Surjection(ms, over)
      BY <2>1, <2>2, <2>3 DEF Surjection
    <2>5. IsFiniteSet(ms) /\ Cardinality(ms) <= Cardinality(gone)
      BY <1>5, <2>1, FS_Subset
    <2>6. IsFiniteSet(over) /\ Cardinality(over) <= Cardinality(ms)
      BY <2>4, <2>5, FS_Surjection
    <2>7. Cardinality(over) \in Nat /\ Cardinality(ms) \in Nat /\ Cardinality(gone) \in Nat
      BY <1>5, <2>5, <2>6, FS_CardinalityType
    <2>8. QED BY <2>5, <2>6, <2>7
  <1>7. /\ Cardinality(over) \in Nat /\ Cardinality(gone) \in Nat /\ Cardinality(leaving) \in Nat
    BY <1>3, <1>5, <1>6, FS_CardinalityType
  <1>8. gone = {} <=> Cardinality(gone) = 0
    BY <1>5, FS_EmptySet
  <1>9. gone = {} => over = {} /\ leaving = {}
    <2> SUFFICES ASSUME gone = {}
                 PROVE  over = {} /\ leaving = {}
      OBVIOUS
    <2>1. leaving = {}
      BY <1>4
    <2>2. over = {}
      BY <1>6, <1>7, <1>8, FS_EmptySet
    <2>3. QED BY <2>1, <2>2
  <1>10. QED BY <1>5, <1>6, <1>7, <1>8, <1>9

LEMMA HotHistoryKeeps ==
  ASSUME Moves, NEW left, NEW log, NEW over, NEW gone, NEW leaving,
         Archived(left, log, over, gone, leaving)
  PROVE  CheckpointTyped' /\ HotHistory'
  <1>1. checkpoint' = [events     |-> Events,
                       deliveries |-> checkpoint.deliveries + Cardinality(gone),
                       requests   |-> checkpoint.requests + Cardinality(over),
                       archived   |-> checkpoint.archived + Cardinality(leaving),
                       commits    |-> checkpoint.commits + (IF gone = {} THEN 0 ELSE 1)]
    BY DEF Archived, NewCheckpoint
  <1>2. /\ Cardinality(over) \in Nat /\ Cardinality(gone) \in Nat /\ Cardinality(leaving) \in Nat
        /\ Cardinality(over) <= Cardinality(gone) /\ Cardinality(gone) <= Cardinality(leaving)
        /\ gone = {} <=> Cardinality(gone) = 0
        /\ gone = {} => over = {} /\ leaving = {}
    BY Counts
  <1>3. /\ checkpoint.events \in Nat /\ checkpoint.deliveries \in Nat
        /\ checkpoint.requests \in Nat /\ checkpoint.archived \in Nat /\ checkpoint.commits \in Nat
    BY DEF Moves, ArchiveInv, CheckpointTyped
  <1>4. Events \in Nat
    BY LogParts
  <1>5. CheckpointTyped'
    BY <1>1, <1>2, <1>3, <1>4 DEF CheckpointTyped
  <1>6. CheckpointAgrees'
    <2>1. Cardinality(DOMAIN audit') = Cardinality(DOMAIN log) - Cardinality(leaving)
      <3>1. /\ DOMAIN audit' = DOMAIN log \ leaving /\ leaving \subseteq DOMAIN log
            /\ IsFiniteSet(DOMAIN log)
        BY LogParts
      <3>2. DOMAIN log \cap leaving = leaving
        BY <3>1
      <3>3. QED BY <3>1, <3>2, FS_Difference
    <2>2. checkpoint.archived + Cardinality(DOMAIN log) = Events /\ Cardinality(DOMAIN log) \in Nat
      BY LogParts, FS_CardinalityType
    <2>3. /\ checkpoint.requests <= checkpoint.deliveries
          /\ checkpoint.deliveries <= checkpoint.archived
      BY DEF Moves, ArchiveInv, HotHistory, CheckpointAgrees
    <2>4. QED BY <1>1, <1>2, <1>3, <2>1, <2>2, <2>3 DEF CheckpointAgrees
  <1>7. CommitsAreCounted'
    <2>1. CommitsAreCounted
      BY DEF Moves, ArchiveInv, HotHistory
    <2>2. CASE gone = {}
      <3>1. Cardinality(over) = 0 /\ Cardinality(leaving) = 0 /\ Cardinality(gone) = 0
        BY <1>2, <2>2, FS_EmptySet
      <3>2. QED BY <1>1, <1>3, <2>1, <2>2, <3>1 DEF CommitsAreCounted
    <2>3. CASE gone # {}
      <3>1. /\ checkpoint'.commits = checkpoint.commits + 1
            /\ checkpoint'.deliveries = checkpoint.deliveries + Cardinality(gone)
            /\ checkpoint'.requests = checkpoint.requests + Cardinality(over)
            /\ checkpoint'.archived = checkpoint.archived + Cardinality(leaving)
        BY <1>1, <2>3
      <3>2. Cardinality(gone) >= 1
        BY <1>2, <2>3
      <3>3. checkpoint.commits <= checkpoint.deliveries + checkpoint.requests + checkpoint.archived
        BY <2>1 DEF CommitsAreCounted
      <3>4. PICK a, b, c, d, x, y, z : /\ a = checkpoint.deliveries /\ b = checkpoint.requests
              /\ c = checkpoint.archived /\ d = checkpoint.commits
              /\ x = Cardinality(gone) /\ y = Cardinality(over) /\ z = Cardinality(leaving)
        OBVIOUS
      <3>5. /\ d + 1 <= (a + x) + (b + y) + (c + z)
            /\ d + 1 # 0 /\ (a + x) + (b + y) + (c + z) # 0
        BY <1>2, <1>3, <3>2, <3>3, <3>4
      <3>6. QED BY <3>1, <3>4, <3>5 DEF CommitsAreCounted
    <2>4. QED BY <2>2, <2>3
  <1>8. DOMAIN audit' \subseteq 1 .. checkpoint'.events
    BY <1>1, LogParts
  <1>9. AuditLinks(audit', [m \in Hot' |-> mailbox'[m]])
    BY LogParts
  <1>10. HotLinks'
    BY HotLinksKeep
  <1>11. QED BY <1>5, <1>6, <1>7, <1>8, <1>9, <1>10 DEF HotHistory, AuditLinks

-----------------------------------------------------------------------------
(* The rows.                                                               *)

LEMMA DeliveriesAre ==
  ASSUME Moves, NEW m \in Accepted'
  PROVE  m \in Messages /\ mailbox'[m] \in Delivery
  <1>1. m \in Messages /\ mailbox'[m] # NoDelivery
    BY DEF Accepted
  <1>2. mailbox' \in [Messages -> Delivery \cup {NoDelivery}]
    BY DEF Moves, MailInv, MailTyped
  <1>3. QED BY <1>1, <1>2

LEMMA RowsKeep ==
  ASSUME Moves, NEW left, NEW log, NEW over, NEW gone, NEW leaving,
         Archived(left, log, over, gone, leaving)
  PROVE  RowsAreKept' /\ RequestsAreOver'
  <1>1. /\ Rows' = Rows \cup gone /\ Accepted' = left \cup Rows /\ gone \subseteq left
        /\ \A m \in gone : archive'.rows[m] = mailbox'[m] /\ mailbox'[m].retired
        /\ \A m \in Rows : archive'.rows[m] = archive.rows[m]
    BY Parts
  <1>2. Rows' \subseteq Accepted' /\ IsFiniteSet(Rows')
    <2>1. IsFiniteSet(Rows) /\ IsFiniteSet(gone)
      BY Counts DEF Moves, ArchiveInv, RowsAreKept
    <2>2. QED BY <1>1, <2>1, FS_Union
  <1>3. ASSUME NEW m \in Rows
        PROVE  /\ SameMessage(archive'.rows[m], mailbox'[m])
               /\ archive'.rows[m].acks = mailbox'[m].acks
               /\ archive'.rows[m].retired /\ mailbox'[m].retired
    <2>1. /\ m \in Messages /\ mailbox[m] # NoDelivery
          /\ SameMessage(archive.rows[m], mailbox[m]) /\ archive.rows[m].acks = mailbox[m].acks
          /\ archive.rows[m].retired /\ mailbox[m].retired
      BY DEF Moves, ArchiveInv, RowsAreKept, Accepted
    <2>2. SameMessage(mailbox[m], mailbox'[m]) /\ mailbox'[m].retired
      BY <2>1 DEF Moves, Grew
    <2>3. mailbox'[m].acks = mailbox[m].acks
      <3>1. ASSUME NEW n \in Messages, Accepts(n)
            PROVE  mailbox'[m].acks = mailbox[m].acks
        BY <2>1, <3>1 DEF Accepts, OthersStay
      <3>2. ASSUME NEW n \in Messages, NEW x \in Reader, Answers(n, x)
            PROVE  mailbox'[m].acks = mailbox[m].acks
        BY <2>1, <3>2 DEF Answers, OthersStay
      <3>3. ASSUME OthersStay({})
            PROVE  mailbox'[m].acks = mailbox[m].acks
        BY <2>1, <3>3 DEF OthersStay
      <3>4. QED BY <3>1, <3>2, <3>3 DEF Moves, Mails
    <2>4. QED BY <1>1, <2>1, <2>2, <2>3 DEF SameMessage
  <1>4. ASSUME NEW m \in gone
        PROVE  /\ SameMessage(archive'.rows[m], mailbox'[m])
               /\ archive'.rows[m].acks = mailbox'[m].acks
               /\ archive'.rows[m].retired /\ mailbox'[m].retired
    <2>1. mailbox'[m] \in Delivery
      BY <1>1, DeliveriesAre
    <2>2. QED BY <1>1, <2>1 DEF SameMessage
  <1>5. RowsAreKept'
    BY <1>1, <1>2, <1>3, <1>4 DEF RowsAreKept
  <1>6. RequestsAreOver'
    <2>1. IsFiniteSet(DOMAIN archive.requests) /\ IsFiniteSet(over)
      BY Counts DEF Moves, ArchiveInv, RequestsAreOver
    <2>2. DOMAIN archive'.requests = DOMAIN archive.requests \cup over
      BY Parts
    <2>3. IsFiniteSet(DOMAIN archive'.requests)
      BY <2>1, <2>2, FS_Union
    <2>4. \A r \in DOMAIN archive'.requests : r \in Requests /\ request'[r].st = "Terminal"
      BY RequestsKeep
    <2>5. QED BY <2>3, <2>4 DEF RequestsAreOver
  <1>7. QED BY <1>5, <1>6

\* The events that leave were hot, and join the archived ones.
LEMMA AuditParts ==
  ASSUME Moves, NEW left, NEW log, NEW over, NEW gone, NEW leaving,
         Archived(left, log, over, gone, leaving)
  PROVE  /\ DOMAIN archive'.audit = DOMAIN archive.audit \cup leaving
         /\ DOMAIN archive.audit \cap DOMAIN log = {}
         /\ DOMAIN archive.audit \cup DOMAIN log = 1 .. Events
         /\ DOMAIN archive.audit \subseteq 1 .. checkpoint.events
         /\ checkpoint.events \in Nat /\ Events \in Nat /\ checkpoint.events <= Events
         /\ \A s \in DOMAIN archive.audit : archive'.audit[s] = archive.audit[s]
         /\ \A s \in leaving : /\ archive'.audit[s].event = log[s]
                               /\ archive'.audit[s].before = Before(log, s)
  <1>1. archive'.audit = NewAudit(log, leaving)
    BY DEF Archived
  <1>2. /\ DOMAIN log = DOMAIN audit \cup (checkpoint.events + 1 .. Events)
        /\ checkpoint.events <= Events /\ Events \in Nat /\ leaving \subseteq DOMAIN log
    BY LogParts
  <1>3. checkpoint.events \in Nat
    BY DEF Moves, ArchiveInv, CheckpointTyped
  <1>4. /\ DOMAIN audit \cup DOMAIN archive.audit = 1 .. checkpoint.events
        /\ DOMAIN audit \cap DOMAIN archive.audit = {}
    BY DEF Moves, ArchiveInv, AuditVerifies
  <1>5. DOMAIN archive.audit \cap DOMAIN log = {}
    <2> SUFFICES ASSUME NEW s \in DOMAIN archive.audit, s \in DOMAIN log PROVE FALSE
      OBVIOUS
    <2>1. s \in 1 .. checkpoint.events /\ s \notin DOMAIN audit
      BY <1>4
    <2>2. s \in checkpoint.events + 1 .. Events
      BY <1>2, <2>1
    <2>3. QED BY <1>2, <1>3, <2>1, <2>2
  <1>6. DOMAIN archive.audit \cup DOMAIN log = 1 .. Events
    <2>1. DOMAIN archive.audit \cup DOMAIN log
            = (1 .. checkpoint.events) \cup (checkpoint.events + 1 .. Events)
      BY <1>2, <1>4
    <2>2. QED BY <1>2, <1>3, <2>1
  <1>7. /\ DOMAIN archive'.audit = DOMAIN archive.audit \cup leaving
        /\ \A s \in DOMAIN archive.audit \ leaving : archive'.audit[s] = archive.audit[s]
        /\ \A s \in leaving : archive'.audit[s] = [event |-> log[s], before |-> Before(log, s)]
    BY <1>1 DEF NewAudit
  <1>8. \A s \in DOMAIN archive.audit : s \notin leaving
    BY <1>2, <1>5
  <1>9. DOMAIN archive.audit \subseteq 1 .. checkpoint.events
    BY <1>4
  <1>10. \A s \in leaving : /\ archive'.audit[s].event = log[s]
                            /\ archive'.audit[s].before = Before(log, s)
    <2> SUFFICES ASSUME NEW s \in leaving
                 PROVE  /\ archive'.audit[s].event = log[s]
                        /\ archive'.audit[s].before = Before(log, s)
      OBVIOUS
    <2>1. PICK e, b : e = log[s] /\ b = Before(log, s)
      OBVIOUS
    <2>2. archive'.audit[s] = [event |-> e, before |-> b]
      BY <1>7, <2>1
    <2>3. QED BY <2>1, <2>2
  <1>11. QED BY <1>2, <1>3, <1>5, <1>6, <1>7, <1>8, <1>9, <1>10

LEMMA ProvenanceKeeps ==
  ASSUME Moves, NEW left, NEW log, NEW over, NEW gone, NEW leaving,
         Archived(left, log, over, gone, leaving)
  PROVE  ProvenanceIsKept'
  <1>1. PICK f, b : f = ArchivedEvents /\ b = archive.rows
    OBVIOUS
  <1>2. PICK g, c : g = [s \in leaving |-> log[s]] /\ c = [m \in gone |-> mailbox'[m]]
    OBVIOUS
  <1>3. PICK more, box : more = ArchivedEvents' /\ box = archive'.rows
    OBVIOUS
  <1>4. AuditLinks(f, b) /\ AuditLinks(g, c)
    BY <1>1, <1>2, LogParts DEF Moves, ArchiveInv, ProvenanceIsKept
  <1>5. leaving \subseteq DOMAIN log
    BY LogParts
  <1>6. /\ DOMAIN f \cap DOMAIN g = {} /\ DOMAIN more = DOMAIN f \cup DOMAIN g
        /\ (\A s \in DOMAIN f : more[s] = f[s]) /\ \A s \in DOMAIN g : more[s] = g[s]
    <2>1. /\ DOMAIN f = DOMAIN archive.audit /\ DOMAIN g = leaving
          /\ DOMAIN more = DOMAIN archive'.audit
          /\ \A s \in DOMAIN f : f[s] = archive.audit[s].event
          /\ \A s \in DOMAIN more : more[s] = archive'.audit[s].event
      BY <1>1, <1>2, <1>3 DEF ArchivedEvents
    <2>2. /\ DOMAIN archive'.audit = DOMAIN archive.audit \cup leaving
          /\ DOMAIN archive.audit \cap DOMAIN log = {}
          /\ \A s \in DOMAIN archive.audit : archive'.audit[s] = archive.audit[s]
          /\ \A s \in leaving : archive'.audit[s].event = log[s]
      BY AuditParts
    <2>3. QED BY <1>2, <1>5, <2>1, <2>2
  <1>7. /\ DOMAIN b \cap DOMAIN c = {} /\ DOMAIN box = DOMAIN b \cup DOMAIN c
        /\ (\A m \in DOMAIN b : box[m] = b[m]) /\ \A m \in DOMAIN c : box[m] = c[m]
    BY <1>1, <1>2, <1>3, Parts DEF Rows
  <1>8. Joins(more, box, f, b, g, c)
    BY <1>4, <1>6, <1>7 DEF Joins
  <1>9. AuditLinks(more, box)
    BY <1>8, LinksJoin
  <1>10. ProvenanceIsKept' <=> AuditLinks(ArchivedEvents', archive'.rows)
    BY DEF ProvenanceIsKept, AuditLinks
  <1>11. QED BY <1>3, <1>9, <1>10

\* The events are one chain, hot or archived.
LEMMA ChainKeeps ==
  ASSUME Moves, NEW left, NEW log, NEW over, NEW gone, NEW leaving,
         Archived(left, log, over, gone, leaving)
  PROVE  AuditVerifies'
  <1>1. /\ DOMAIN archive'.audit = DOMAIN archive.audit \cup leaving
        /\ DOMAIN archive.audit \cap DOMAIN log = {}
        /\ DOMAIN archive.audit \cup DOMAIN log = 1 .. Events
        /\ DOMAIN archive.audit \subseteq 1 .. checkpoint.events
        /\ checkpoint.events \in Nat /\ Events \in Nat /\ checkpoint.events <= Events
        /\ \A s \in DOMAIN archive.audit : archive'.audit[s] = archive.audit[s]
        /\ \A s \in leaving : /\ archive'.audit[s].event = log[s]
                              /\ archive'.audit[s].before = Before(log, s)
    BY AuditParts
  <1>2. /\ leaving \subseteq DOMAIN log /\ DOMAIN audit' = DOMAIN log \ leaving
        /\ \A s \in DOMAIN audit' : audit'[s] = log[s]
        /\ \A s \in DOMAIN audit : log[s] = audit[s] /\ s \in DOMAIN log
    BY ZenonT(40), LogParts
  <1>3. checkpoint'.events = Events
    BY DEF Archived, NewCheckpoint
  <1>4. /\ DOMAIN audit \cup DOMAIN archive.audit = 1 .. checkpoint.events
        /\ \A s \in DOMAIN archive.audit :
             archive.audit[s].before = IF s = 1 THEN Nothing ELSE Event(s - 1)
    BY DEF Moves, ArchiveInv, AuditVerifies
  <1>5. \A t \in 1 .. Events :
          Event(t)' = IF t \in DOMAIN log THEN log[t] ELSE archive.audit[t].event
    <2> SUFFICES ASSUME NEW t \in 1 .. Events
                 PROVE  Event(t)' = IF t \in DOMAIN log THEN log[t] ELSE archive.audit[t].event
      OBVIOUS
    <2>1. Event(t)' = IF t \in DOMAIN audit' THEN audit'[t] ELSE archive'.audit[t].event
      BY DEF Event
    <2>2. CASE t \in DOMAIN audit'
      BY <1>2, <2>1, <2>2
    <2>3. CASE t \in leaving
      BY <1>1, <1>2, <2>1, <2>3
    <2>4. CASE t \notin DOMAIN log
      <3>1. t \in DOMAIN archive.audit
        BY <1>1, <2>4
      <3>2. QED BY <1>1, <1>2, <2>1, <2>4, <3>1
    <2>5. QED BY <1>2, <2>2, <2>3, <2>4
  <1>6. \A t \in 1 .. checkpoint.events :
          Event(t) = IF t \in DOMAIN log THEN log[t] ELSE archive.audit[t].event
    <2> SUFFICES ASSUME NEW t \in 1 .. checkpoint.events
                 PROVE  Event(t) = IF t \in DOMAIN log THEN log[t] ELSE archive.audit[t].event
      OBVIOUS
    <2>1. CASE t \in DOMAIN audit
      BY <1>2, <2>1 DEF Event
    <2>2. CASE t \notin DOMAIN audit
      <3>1. t \in DOMAIN archive.audit
        BY <1>4, <2>2
      <3>2. t \notin DOMAIN log
        BY <1>1, <3>1
      <3>3. QED BY <2>2, <3>2 DEF Event
    <2>3. QED BY <2>1, <2>2
  <1>7. ASSUME NEW s \in DOMAIN archive'.audit
        PROVE  archive'.audit[s].before = IF s = 1 THEN Nothing ELSE Event(s - 1)'
    <2>1. CASE s \in DOMAIN archive.audit
      <3>1. archive'.audit[s].before = IF s = 1 THEN Nothing ELSE Event(s - 1)
        BY <1>1, <1>4, <2>1
      <3>2. s # 1 => s - 1 \in 1 .. checkpoint.events /\ s - 1 \in 1 .. Events
        BY <1>1, <2>1
      <3>3. s # 1 => Event(s - 1)' = Event(s - 1)
        BY <1>5, <1>6, <3>2
      <3>4. QED BY <3>1, <3>3
    <2>2. CASE s \in leaving
      <3>1. archive'.audit[s].before = Before(log, s)
        BY <1>1, <2>2
      <3>2. s # 1 => s - 1 \in 1 .. Events
        BY <1>1, <1>2, <2>2
      <3>3. CASE s = 1
        BY <3>1, <3>3 DEF Before
      <3>4. CASE s # 1
        <4>1. Before(log, s) = IF s - 1 \in DOMAIN log THEN log[s - 1] ELSE archive.audit[s - 1].event
          BY <3>4 DEF Before
        <4>2. QED BY <1>5, <3>1, <3>2, <3>4, <4>1
      <3>5. QED BY <3>3, <3>4
    <2>3. QED BY <1>1, <2>1, <2>2
  <1>8. /\ DOMAIN audit' \cup DOMAIN archive'.audit = 1 .. checkpoint'.events
        /\ DOMAIN audit' \cap DOMAIN archive'.audit = {}
    BY <1>1, <1>2, <1>3
  <1>9. QED BY <1>7, <1>8 DEF AuditVerifies

\* Messages, events and requests are counted apart.
LEMMA CountedApart ==
  ASSUME NEW R, NEW A, NEW Q, IsFiniteSet(R), IsFiniteSet(A), IsFiniteSet(Q),
         R \subseteq Messages, A \subseteq Nat, Q \subseteq Requests
  PROVE  Cardinality(R \cup A \cup Q) = Cardinality(R) + Cardinality(A) + Cardinality(Q)
  <1>1. R \cap A = {} /\ (R \cup A) \cap Q = {}
    BY ArchiveAssumption
  <1>2. PICK S : S = R \cup A
    OBVIOUS
  <1>3. IsFiniteSet(S) /\ Cardinality(S) = Cardinality(R) + Cardinality(A) - Cardinality(R \cap A)
    BY <1>2, FS_Union
  <1>4. Cardinality(S \cup Q) = Cardinality(S) + Cardinality(Q) - Cardinality(S \cap Q)
    BY <1>3, FS_Union
  <1>5. Cardinality(R \cap A) = 0 /\ Cardinality(S \cap Q) = 0
    BY <1>1, <1>2, FS_EmptySet
  <1>6. /\ Cardinality(R) \in Nat /\ Cardinality(A) \in Nat /\ Cardinality(Q) \in Nat
        /\ Cardinality(S) \in Nat
    BY <1>3, FS_CardinalityType
  <1>7. PICK r, a, q, s, rs, u, v :
          /\ r = Cardinality(R) /\ a = Cardinality(A) /\ q = Cardinality(Q) /\ s = Cardinality(S)
          /\ rs = Cardinality(S \cup Q) /\ u = Cardinality(R \cap A) /\ v = Cardinality(S \cap Q)
    OBVIOUS
  <1>8. rs = r + a + q
    BY <1>3, <1>4, <1>5, <1>6, <1>7
  <1>9. QED BY <1>2, <1>7, <1>8

LEMMA Adds ==
  ASSUME NEW S, NEW T, IsFiniteSet(S), IsFiniteSet(T), S \cap T = {}
  PROVE  IsFiniteSet(S \cup T) /\ Cardinality(S \cup T) = Cardinality(S) + Cardinality(T)
  <1>1. IsFiniteSet(S \cup T) /\ Cardinality(S \cup T) = Cardinality(S) + Cardinality(T) - Cardinality(S \cap T)
    BY FS_Union
  <1>2. Cardinality(S \cap T) = 0
    BY FS_EmptySet
  <1>3. Cardinality(S) \in Nat /\ Cardinality(T) \in Nat
    BY FS_CardinalityType
  <1>4. PICK s, t, u, v : /\ s = Cardinality(S) /\ t = Cardinality(T)
                          /\ u = Cardinality(S \cup T) /\ v = Cardinality(S \cap T)
    OBVIOUS
  <1>5. u = s + t
    BY <1>1, <1>2, <1>3, <1>4
  <1>6. QED BY <1>1, <1>4, <1>5

\* The commits of some keys, and none of another: one more, or the same.
LEMMA CommitsGrow ==
  ASSUME NEW keys, NEW more, more # {}, more \cap keys = {},
         NEW c \in Seq(SUBSET keys), UNION {c[i] : i \in DOMAIN c} = keys,
         \A i \in DOMAIN c : c[i] # {},
         \A i, j \in DOMAIN c : i # j => c[i] \cap c[j] = {},
         NEW d, d = Append(c, more)
  PROVE  /\ d \in Seq(SUBSET (keys \cup more)) /\ Len(d) = Len(c) + 1
         /\ UNION {d[i] : i \in DOMAIN d} = keys \cup more
         /\ \A i \in DOMAIN d : d[i] # {} /\ d[i] \subseteq keys \cup more
         /\ \A i, j \in DOMAIN d : i # j => d[i] \cap d[j] = {}
  <1>1. PICK n : n = Len(c)
    OBVIOUS
  <1>2. /\ n \in Nat /\ DOMAIN c = 1 .. n /\ DOMAIN d = 1 .. n + 1 /\ Len(d) = n + 1
        /\ d[n + 1] = more /\ \A i \in 1 .. n : d[i] = c[i] /\ c[i] \subseteq keys
    BY <1>1
  <1>3. \A i \in 1 .. n + 1 : i \in 1 .. n \/ i = n + 1
    BY <1>2
  <1>4. \A i \in DOMAIN d : d[i] # {} /\ d[i] \subseteq keys \cup more
    BY <1>2, <1>3
  <1>5. d \in Seq(SUBSET (keys \cup more))
    <2>1. c \in Seq(SUBSET (keys \cup more)) /\ more \in SUBSET (keys \cup more)
      BY <1>1, <1>2
    <2>2. QED BY <2>1
  <1>6. UNION {d[i] : i \in DOMAIN d} = keys \cup more
    <2>1. \A k \in keys : \E i \in 1 .. n : k \in c[i]
      BY <1>2
    <2>2. \A k \in keys : \E i \in DOMAIN d : k \in d[i]
      <3> SUFFICES ASSUME NEW k \in keys PROVE \E i \in DOMAIN d : k \in d[i]
        OBVIOUS
      <3>1. PICK i \in 1 .. n : k \in c[i]
        BY <2>1
      <3>2. i \in 1 .. n + 1
        BY <1>2
      <3>3. QED BY <1>2, <3>1, <3>2
    <2>3. n + 1 \in DOMAIN d /\ d[n + 1] = more
      BY <1>2
    <2>4. QED BY <1>4, <2>2, <2>3
  <1>7. ASSUME NEW i \in DOMAIN d, NEW j \in DOMAIN d, i # j
        PROVE  d[i] \cap d[j] = {}
    <2>1. CASE i \in 1 .. n /\ j \in 1 .. n
      BY <1>2, <1>7, <2>1
    <2>2. CASE i = n + 1 /\ j \in 1 .. n
      BY <1>2, <2>2
    <2>3. CASE j = n + 1 /\ i \in 1 .. n
      BY <1>2, <2>3
    <2>4. QED BY <1>2, <1>3, <1>7, <2>1, <2>2, <2>3
  <1>8. QED BY <1>1, <1>2, <1>4, <1>5, <1>6, <1>7

\* What the doctor verifies of the rows, as equations over their keys.
Tallied(c, keys) ==
  /\ c \in Seq(SUBSET keys) /\ UNION {c[i] : i \in DOMAIN c} = keys
  /\ \A i \in DOMAIN c : c[i] # {} /\ c[i] \subseteq keys
  /\ \A i, j \in DOMAIN c : i # j => c[i] \cap c[j] = {}

LEMMA CommitsKeep ==
  ASSUME Moves, NEW left, NEW log, NEW over, NEW gone, NEW leaving,
         Archived(left, log, over, gone, leaving)
  PROVE  CommitsAreAll'
  <1>1. PICK R, A, Q : R = Rows /\ A = DOMAIN archive.audit /\ Q = DOMAIN archive.requests
    OBVIOUS
  <1>2. /\ R \subseteq Messages /\ A \subseteq Nat /\ Q \subseteq Requests
        /\ IsFiniteSet(R) /\ IsFiniteSet(A) /\ IsFiniteSet(Q)
    <2>1. R \subseteq Messages /\ Q \subseteq Requests /\ IsFiniteSet(R) /\ IsFiniteSet(Q)
      BY <1>1 DEF Moves, ArchiveInv, RowsAreKept, RequestsAreOver, Accepted
    <2>2. A \subseteq 1 .. checkpoint.events /\ checkpoint.events \in Nat
      BY <1>1, AuditParts
    <2>3. IsFiniteSet(1 .. checkpoint.events)
      BY <2>2, FS_Interval
    <2>4. IsFiniteSet(A)
      BY <2>2, <2>3, FS_Subset
    <2>5. A \subseteq Nat
      BY <2>2
    <2>6. QED BY <2>1, <2>4, <2>5
  <1>3. /\ gone \subseteq Messages /\ gone \cap R = {} /\ Rows' = R \cup gone
        /\ over \subseteq Requests /\ over \cap Q = {} /\ DOMAIN archive'.requests = Q \cup over
    <2>1. /\ gone \subseteq left /\ left \subseteq Messages /\ left \cap Rows = {} /\ Rows' = Rows \cup gone
          /\ DOMAIN archive'.requests = DOMAIN archive.requests \cup over
          /\ over \subseteq Requests \ DOMAIN archive.requests
      BY Parts
    <2>2. QED BY <1>1, <2>1
  <1>4. leaving \subseteq Nat /\ leaving \cap A = {} /\ DOMAIN archive'.audit = A \cup leaving
    <2>1. /\ DOMAIN archive'.audit = DOMAIN archive.audit \cup leaving
          /\ DOMAIN archive.audit \cap DOMAIN log = {}
      BY AuditParts
    <2>2. leaving \subseteq DOMAIN log /\ DOMAIN log \subseteq 1 .. Events
      BY LogParts
    <2>3. QED BY <1>1, <2>1, <2>2
  <1>5. IsFiniteSet(gone) /\ IsFiniteSet(over) /\ IsFiniteSet(leaving)
    BY Counts, LogParts
  <1>6. PICK keys, more : keys = Keys /\ more = gone \cup leaving \cup over
    OBVIOUS
  <1>7. keys = R \cup A \cup Q /\ Keys' = keys \cup more
    BY <1>1, <1>3, <1>4, <1>6 DEF Keys
  <1>8. keys \cap more = {}
    BY <1>2, <1>3, <1>4, <1>6, <1>7, ArchiveAssumption
  <1>9. commits \in Seq(SUBSET keys) /\ Tallied(commits, keys)
    BY <1>6 DEF Moves, ArchiveInv, CommitsAreAll, CommitsVerify, EntriesVerify, Keys, Tallied
  <1>10. Len(commits') = Len(commits) + (IF gone = {} THEN 0 ELSE 1) /\ Tallied(commits', keys \cup more)
    <2>1. commits' = NewCommits(more)
      BY <1>6 DEF Archived
    <2>2. CASE gone = {}
      <3>1. more = {}
        BY <1>6, <2>2, Counts
      <3>2. QED BY <1>9, <2>1, <2>2, <3>1 DEF NewCommits
    <2>3. CASE gone # {}
      <3>1. more # {} /\ commits' = Append(commits, more)
        BY <1>6, <2>1, <2>3 DEF NewCommits
      <3>2. PICK c, d : c = commits /\ d = commits'
        OBVIOUS
      <3>3. Tallied(d, keys \cup more) /\ Len(d) = Len(c) + 1
        BY <1>8, <1>9, <3>1, <3>2, CommitsGrow DEF Tallied
      <3>4. QED BY <2>3, <3>2, <3>3
    <2>4. QED BY <2>2, <2>3
  <1>11. /\ Cardinality(Rows') = Cardinality(R) + Cardinality(gone)
         /\ Cardinality(DOMAIN archive'.audit) = Cardinality(A) + Cardinality(leaving)
         /\ Cardinality(DOMAIN archive'.requests) = Cardinality(Q) + Cardinality(over)
         /\ IsFiniteSet(Rows') /\ IsFiniteSet(DOMAIN archive'.audit)
         /\ IsFiniteSet(DOMAIN archive'.requests)
    <2>1. IsFiniteSet(R \cup gone) /\ Cardinality(R \cup gone) = Cardinality(R) + Cardinality(gone)
      BY <1>2, <1>3, <1>5, Adds
    <2>2. /\ IsFiniteSet(A \cup leaving)
          /\ Cardinality(A \cup leaving) = Cardinality(A) + Cardinality(leaving)
      BY <1>2, <1>4, <1>5, Adds
    <2>3. IsFiniteSet(Q \cup over) /\ Cardinality(Q \cup over) = Cardinality(Q) + Cardinality(over)
      BY <1>2, <1>3, <1>5, Adds
    <2>4. QED BY <1>3, <1>4, <2>1, <2>2, <2>3
  <1>12. Cardinality(Keys') = Cardinality(Rows') + Cardinality(DOMAIN archive'.audit)
                                + Cardinality(DOMAIN archive'.requests)
    <2>1. Rows' \subseteq Messages /\ DOMAIN archive'.audit \subseteq Nat
          /\ DOMAIN archive'.requests \subseteq Requests
      BY <1>2, <1>3, <1>4
    <2>2. PICK X, Y, Z : X = Rows' /\ Y = DOMAIN archive'.audit /\ Z = DOMAIN archive'.requests
      OBVIOUS
    <2>3. Cardinality(X \cup Y \cup Z) = Cardinality(X) + Cardinality(Y) + Cardinality(Z)
      BY <1>11, <2>1, <2>2, CountedApart
    <2>4. QED BY <2>2, <2>3 DEF Keys
  <1>13. CheckpointVerifies'
    <2>1. /\ checkpoint'.deliveries = checkpoint.deliveries + Cardinality(gone)
          /\ checkpoint'.requests = checkpoint.requests + Cardinality(over)
          /\ checkpoint'.archived = checkpoint.archived + Cardinality(leaving)
          /\ checkpoint'.commits = checkpoint.commits + (IF gone = {} THEN 0 ELSE 1)
      BY DEF Archived, NewCheckpoint
    <2>2. /\ checkpoint.deliveries = Cardinality(R) /\ checkpoint.requests = Cardinality(Q)
          /\ checkpoint.archived = Cardinality(A) /\ checkpoint.commits = Len(commits)
      BY <1>1 DEF Moves, ArchiveInv, CommitsAreAll, CheckpointVerifies
    <2>3. UNION {commits'[i] : i \in DOMAIN commits'} = Keys'
      BY <1>7, <1>10 DEF Tallied
    <2>4. QED BY <1>10, <1>11, <1>12, <2>1, <2>2, <2>3 DEF CheckpointVerifies
  <1>14. CommitsVerify'
    <2>1. Tallied(commits', Keys')
      BY <1>7, <1>10
    <2>2. QED BY <2>1 DEF Tallied, CommitsVerify, EntriesVerify, Keys
  <1>15. QED BY <1>7, <1>10, <1>13, <1>14 DEF CommitsAreAll, Tallied

LEMMA ClientKeeps ==
  ASSUME Moves, NEW left, NEW log, NEW over, NEW gone, NEW leaving,
         Archived(left, log, over, gone, leaving), client' = client
  PROVE  ClientIsAnswered'
  <1>1. Rows' = Rows \cup gone
    BY Parts
  <1>2. \A m \in Accepted : m \in Accepted' /\ mailbox[m].acks \subseteq mailbox'[m].acks
    BY DEF Accepted, Moves, Grew
  <1>3. QED BY <1>1, <1>2 DEF Moves, ArchiveInv, ClientIsAnswered

LEMMA MovesKeep ==
  ASSUME Moves, ArchiveHistory, client' = client
  PROVE  ArchiveInv'
  <1>1. PICK left, log, over, gone, leaving : Archived(left, log, over, gone, leaving)
    BY ArchivingIs
  <1>2. AboutIsSound'
    BY <1>1, AboutKeeps
  <1>3. RowsAreKept' /\ RequestsAreOver'
    BY <1>1, RowsKeep
  <1>4. CheckpointTyped' /\ HotHistory'
    BY <1>1, HotHistoryKeeps
  <1>5. ProvenanceIsKept'
    BY <1>1, ProvenanceKeeps
  <1>6. AuditVerifies'
    BY <1>1, ChainKeeps
  <1>7. CommitsAreAll'
    BY <1>1, CommitsKeep
  <1>8. ClientIsAnswered'
    BY <1>1, ClientKeeps
  <1>9. MailInv'
    BY DEF Moves
  <1>10. QED BY <1>2, <1>3, <1>4, <1>5, <1>6, <1>7, <1>8, <1>9 DEF ArchiveInv

-----------------------------------------------------------------------------
(* Sending and acknowledging again.                                        *)

\* The provenance that a look-up asks for is there.
LEMMA ProvenanceIsThere ==
  ASSUME ArchiveInv, NEW m \in Rows
  PROVE  Provenance(m)
  <1>1. PICK f, box : f = ArchivedEvents /\ box = archive.rows
    OBVIOUS
  <1>2. OwnEvents(f, box) /\ AllEvents(f, box) /\ AcceptedFirst(f)
    BY <1>1, LinksAre DEF ArchiveInv, ProvenanceIsKept
  <1>3. /\ DOMAIN f = DOMAIN archive.audit /\ \A s \in DOMAIN f : f[s] = archive.audit[s].event
        /\ m \in DOMAIN box
    BY <1>1 DEF ArchivedEvents, Rows
  <1>4. PICK es : es = {s \in DOMAIN f : f[s].msg = m}
    OBVIOUS
  <1>5. PICK acks : acks = box[m].acks
    OBVIOUS
  <1>6. IsFiniteSet(es)
    <2>1. DOMAIN f \subseteq 1 .. checkpoint.events /\ checkpoint.events \in Nat
      BY <1>3 DEF ArchiveInv, AuditVerifies, CheckpointTyped
    <2>2. IsFiniteSet(1 .. checkpoint.events)
      BY <2>1, FS_Interval
    <2>3. QED BY <1>4, <2>1, <2>2, FS_Subset
  <1>7. PICK g : g = [s \in es |-> f[s].by]
    OBVIOUS
  <1>8. \A s \in es : f[s].by \in {Acceptance} \cup acks
    <2> SUFFICES ASSUME NEW s \in es PROVE f[s].by \in {Acceptance} \cup acks
      OBVIOUS
    <2>1. PICK n \in DOMAIN box : \E x \in Voices(box[n]) : f[s] = EventOf(n, x)
      BY <1>2, <1>4 DEF OwnEvents
    <2>2. PICK x \in Voices(box[n]) : f[s] = EventOf(n, x)
      BY <2>1
    <2>3. n = m /\ f[s].by = x
      BY <1>4, <2>2, EventsAre
    <2>4. QED BY <1>5, <2>2, <2>3 DEF Voices
  <1>9. \A x \in {Acceptance} \cup acks : \E s \in es : f[s].by = x
    <2> SUFFICES ASSUME NEW x \in {Acceptance} \cup acks PROVE \E s \in es : f[s].by = x
      OBVIOUS
    <2>1. x \in Voices(box[m])
      BY <1>5 DEF Voices
    <2>2. PICK s \in DOMAIN f : f[s] = EventOf(m, x)
      BY <1>2, <1>3, <2>1 DEF AllEvents
    <2>3. QED BY <1>4, <2>2, EventsAre
  <1>10. \A s, t \in es : f[s].by = f[t].by => s = t
    BY <1>2, <1>4 DEF AcceptedFirst
  <1>11. /\ g \in Surjection(es, {Acceptance} \cup acks)
         /\ g \in Injection(es, {Acceptance} \cup acks)
    <2>1. PICK T : T = {Acceptance} \cup acks
      OBVIOUS
    <2>2. g \in [es -> T] /\ \A s \in es : g[s] = f[s].by
      BY <1>7, <1>8, <2>1
    <2>3. g \in Surjection(es, T)
      BY <1>9, <2>1, <2>2 DEF Surjection
    <2>4. g \in Injection(es, T)
      BY <1>10, <2>2 DEF Injection, IsInjective
    <2>5. QED BY <2>1, <2>3, <2>4
  <1>12. /\ IsFiniteSet({Acceptance} \cup acks)
         /\ Cardinality({Acceptance} \cup acks) = Cardinality(es)
    BY <1>6, <1>11, FS_Surjection
  <1>13. Acceptance \notin acks
    <2>1. m \in Accepted /\ acks = mailbox[m].acks
      BY <1>1, <1>5 DEF ArchiveInv, RowsAreKept
    <2>2. mailbox[m] \in Delivery
      BY <2>1, MailIs DEF ArchiveInv, Accepted
    <2>3. acks \subseteq Reader
      BY <2>1, <2>2 DEF Delivery
    <2>4. QED BY <2>3, AcceptanceIsApart
  <1>14. IsFiniteSet(acks)
    BY <1>12, FS_Subset
  <1>15. Cardinality({Acceptance} \cup acks) = 1 + Cardinality(acks)
    <2>1. {Acceptance} \cup acks = acks \cup {Acceptance}
      OBVIOUS
    <2>2. Cardinality(acks \cup {Acceptance}) = Cardinality(acks) + 1
      BY <1>13, <1>14, FS_AddElement
    <2>3. Cardinality(acks) \in Nat
      BY <1>14, FS_CardinalityType
    <2>4. PICK n, k : n = Cardinality(acks) /\ k = Cardinality(acks \cup {Acceptance})
      OBVIOUS
    <2>5. k = 1 + n
      BY <2>2, <2>3, <2>4
    <2>6. QED BY <2>1, <2>4, <2>5
  <1>16. {f[s].by : s \in es} = {Acceptance} \cup acks
    BY <1>8, <1>9
  <1>17. es = {s \in DOMAIN archive.audit : archive.audit[s].event.msg = m}
    BY <1>3, <1>4
  <1>18. {f[s].by : s \in es} = {archive.audit[s].event.by : s \in es}
    BY <1>3, <1>4
  <1>19. QED BY <1>1, <1>5, <1>12, <1>15, <1>16, <1>17, <1>18 DEF Provenance

LEMMA RepetitionsKeep ==
  ASSUME ArchiveInv, Repetitions
  PROVE  UNCHANGED <<vars, historyVars>> /\ ClientIsAnswered'
  <1>1. /\ UNCHANGED <<vars, historyVars>> => Accepted' = Accepted /\ Rows' = Rows /\ mailbox' = mailbox
        /\ Places[1] = Hot /\ Places[2] = Rows
    BY DEF vars, historyVars, Accepted, Rows, Places
  <1>2. ASSUME NEW m \in Accepted, NEW x, x = Acceptance \/ x \in mailbox[m].acks,
               client' = [pc |-> "loaded", msg |-> m, by |-> x, seen |-> m \in Places[1]],
               UNCHANGED <<vars, historyVars>>
        PROVE  ClientIsAnswered'
    <2>1. m \in Accepted' /\ Rows' = Rows /\ mailbox' = mailbox
      BY <1>1, <1>2
    <2>2. PICK b \in BOOLEAN : b <=> m \in Hot
      OBVIOUS
    <2>3. client' = [pc |-> "loaded", msg |-> m, by |-> x, seen |-> b]
      BY <1>1, <1>2, <2>2
    <2>4. ~b => m \in Rows
      BY <2>2 DEF Hot
    <2>5. QED BY <1>2, <2>1, <2>3, <2>4 DEF ClientIsAnswered
  <1>3. ASSUME NEW m \in Accepted, SendAgain(m)
        PROVE  UNCHANGED <<vars, historyVars>> /\ ClientIsAnswered'
    BY <1>2, <1>3 DEF SendAgain
  <1>4. ASSUME NEW m \in Accepted, NEW x \in mailbox[m].acks, AcknowledgeAgain(m, x)
        PROVE  UNCHANGED <<vars, historyVars>> /\ ClientIsAnswered'
    BY <1>2, <1>4 DEF AcknowledgeAgain
  <1>5. ASSUME LookUp
        PROVE  UNCHANGED <<vars, historyVars>> /\ ClientIsAnswered'
    <2>1. PICK m : m = client.msg
      OBVIOUS
    <2>2. /\ m \in Accepted
          /\ client.by = Acceptance \/ client.by \in mailbox[m].acks
          /\ client.seen \in BOOLEAN /\ (~client.seen => m \in Rows)
      BY <1>5, <2>1 DEF LookUp, ArchiveInv, ClientIsAnswered
    <2>3. ASSUME m \in Rows
          PROVE  Readable(m) /\ Recognised(m, client.by)
      <3>1. archive.rows[m].acks = mailbox[m].acks
        BY <2>3 DEF ArchiveInv, RowsAreKept
      <3>2. QED BY <2>2, <2>3, <3>1, ProvenanceIsThere DEF Readable, Recognised
    <2>4. client' = [client EXCEPT !.pc = "idle"]
      BY <1>1, <1>5, <2>1, <2>2, <2>3 DEF LookUp
    <2>5. client'.pc = "idle" \/ client' = client
      BY <2>4
    <2>6. QED BY <1>1, <1>5, <2>5 DEF LookUp, ArchiveInv, ClientIsAnswered
  <1>6. QED BY <1>3, <1>4, <1>5 DEF Repetitions

LEMMA StillWhole ==
  ASSUME ArchiveInv, UNCHANGED <<vars, historyVars>>, ClientIsAnswered'
  PROVE  ArchiveInv'
  <1>1. MailInv'
    BY MailStep DEF ArchiveInv
  <1>2. /\ mailbox' = mailbox /\ request' = request /\ about' = about /\ audit' = audit
        /\ archive' = archive /\ commits' = commits /\ checkpoint' = checkpoint
    BY DEF vars, historyVars
  <1>3. Accepted' = Accepted /\ Rows' = Rows /\ Hot' = Hot /\ HotRequests' = HotRequests
    BY <1>2 DEF Accepted, Rows, Hot, HotRequests
  <1>4. AboutIsSound' /\ RowsAreKept'
    BY <1>2, <1>3 DEF ArchiveInv, AboutIsSound, RowsAreKept
  <1>5. RequestsAreOver' /\ CheckpointTyped'
    BY <1>2 DEF ArchiveInv, RequestsAreOver, CheckpointTyped
  <1>6. HotHistory'
    <2>1. HotLinks'
      BY <1>2, <1>3 DEF ArchiveInv, HotHistory, HotLinks
    <2>2. CheckpointAgrees' /\ CommitsAreCounted' /\ DOMAIN audit' \subseteq 1 .. checkpoint'.events
      BY <1>2 DEF ArchiveInv, HotHistory, CheckpointAgrees, CommitsAreCounted
    <2>3. [m \in Hot' |-> mailbox'[m]] = [m \in Hot |-> mailbox[m]]
      BY <1>2, <1>3
    <2>4. AuditLinks(audit', [m \in Hot' |-> mailbox'[m]])
      BY <1>2, <2>3 DEF ArchiveInv, HotHistory
    <2>5. QED BY <2>1, <2>2, <2>4 DEF HotHistory, AuditLinks
  <1>7. ProvenanceIsKept'
    <2>1. ArchivedEvents' = ArchivedEvents
      BY <1>2 DEF ArchivedEvents
    <2>2. AuditLinks(ArchivedEvents', archive'.rows)
      BY <1>2, <2>1 DEF ArchiveInv, ProvenanceIsKept
    <2>3. QED BY <2>2 DEF ProvenanceIsKept, AuditLinks
  <1>8. AuditVerifies'
    BY <1>2 DEF ArchiveInv, AuditVerifies, Event
  <1>9. CommitsAreAll'
    <2>1. Keys' = Keys
      BY <1>2, <1>3 DEF Keys
    <2>2. CommitsVerify'
      BY <1>2, <1>3 DEF ArchiveInv, CommitsAreAll, CommitsVerify, EntriesVerify
    <2>3. CheckpointVerifies'
      BY <1>2, <1>3 DEF ArchiveInv, CommitsAreAll, CheckpointVerifies
    <2>4. QED BY <1>2, <2>1, <2>2, <2>3 DEF ArchiveInv, CommitsAreAll
  <1>10. QED BY <1>1, <1>4, <1>5, <1>6, <1>7, <1>8, <1>9 DEF ArchiveInv

-----------------------------------------------------------------------------
(* The mutations.                                                          *)

\* A message that says what it is about, and changes no request.
LEMMA SayingMoves ==
  ASSUME ArchiveInv, NEW m \in Messages, NEW kind \in Kinds, NEW target, NEW r,
         Deliver(m, kind, target, r), request' = request, MailInv', Grew,
         NEW x \in Messages \cup Requests \cup {Consult}, about' = [about EXCEPT ![m] = x],
         x \in Messages \cup {Consult} => r = NoRequest,
         x \in Messages => x \in Hot /\ about[x] = Consult /\ \A k \in Hot : about[k] # x,
         KnownContext
  PROVE  Moves
  <1>1. MailInv
    BY DEF ArchiveInv
  <1>2. NoRequestStarts /\ OverIsOver
    BY DEF NoRequestStarts, OverIsOver
  <1>3. Mails
    BY <1>1, <1>2, OtherMails
  <1>4. /\ mailbox[m] = NoDelivery /\ mailbox'[m] # NoDelivery /\ mailbox'[m].acks = {}
        /\ mailbox'[m].req = r /\ OthersStay({m})
    BY <1>1, DeliverAccepts
  <1>5. Accepts(m)
    BY <1>2, <1>4 DEF Accepts, NoRequestStarts
  <1>6. AboutMoves
    BY <1>4, <1>5 DEF AboutMoves
  <1>7. QED BY <1>2, <1>3, <1>6 DEF Moves

LEMMA MutationsMove ==
  ASSUME ArchiveInv, Mutations(TRUE)
  PROVE  Moves /\ ArchiveHistory /\ client' = client
  <1>1. MailInv
    BY DEF ArchiveInv
  <1>2. CASE Mutation(Next /\ TRUE /\ UNCHANGED about)
    <2>1. Next /\ about' = about /\ KnownContext /\ ArchiveHistory /\ client' = client
      BY <1>2 DEF Mutation
    <2>2. Mails /\ OverIsOver /\ MailInv' /\ Grew
      BY <1>1, <2>1, NextMails
    <2>3. QED BY <2>1, <2>2 DEF Moves, AboutMoves
  <1>3. ASSUME NEW m \in Messages, Mutation(AskAdvice(m) /\ TRUE)
        PROVE  Moves /\ ArchiveHistory /\ client' = client
    <2>1. /\ Notice(m) /\ about' = [about EXCEPT ![m] = Consult]
          /\ KnownContext /\ ArchiveHistory /\ client' = client
      BY <1>3 DEF Mutation, AskAdvice, About
    <2>2. Deliver(m, "Notice", "Team", NoRequest) /\ request' = request
      BY <2>1 DEF Notice
    <2>3. MailInv' /\ Grew
      BY <1>1, <2>1, OthersKeep
    <2>4. "Notice" \in Kinds /\ Consult \notin Messages
      BY ArchiveAssumption DEF Kinds
    <2>5. Moves
      BY <2>1, <2>2, <2>3, <2>4, SayingMoves
    <2>6. QED BY <2>1, <2>5
  <1>4. ASSUME NEW m \in Messages, NEW n \in Messages, Mutation(Advise(m, n) /\ TRUE)
        PROVE  Moves /\ ArchiveHistory /\ client' = client
    <2>1. /\ n \in Hot /\ about[n] = Consult /\ \A k \in Hot : about[k] # n
          /\ request' = request /\ Deliver(m, "Answer", "Primary", NoRequest)
          /\ about' = [about EXCEPT ![m] = n]
          /\ KnownContext /\ ArchiveHistory /\ client' = client
      BY <1>4 DEF Mutation, Advise, About
    <2>2. UNCHANGED <<team, member, primary, request>>
      BY <2>1 DEF Deliver
    <2>3. Sent("Answer", "Primary", NoRequest)
      BY <1>1, <2>2, WorkStays DEF Sent, Lifecycle
    <2>4. "Answer" \in Kinds
      BY DEF Kinds
    <2>5. MailInv' /\ Grew
      BY <1>1, <2>1, <2>3, <2>4, DeliverKeeps
    <2>6. Moves
      BY <2>1, <2>4, <2>5, SayingMoves
    <2>7. QED BY <2>1, <2>6
  <1>5. ASSUME NEW m \in Messages, NEW r \in Requests, NEW q \in Requests,
               Mutation(Depend(m, r, q) /\ TRUE)
        PROVE  Moves /\ ArchiveHistory /\ client' = client
    <2>1. /\ Blocking(r) /\ team.status = "Active" /\ request' = request
          /\ Deliver(m, "Notice", "Team", r) /\ about' = [about EXCEPT ![m] = q]
          /\ KnownContext /\ ArchiveHistory /\ client' = client
      BY <1>5 DEF Mutation, Depend, About
    <2>2. UNCHANGED <<team, member, primary, request>>
      BY <2>1 DEF Deliver
    <2>3. Sent("Notice", "Team", r)
      BY <1>1, <2>1, <2>2, WorkStays DEF Sent, Lifecycle, Obsolete, Blocking
    <2>4. "Notice" \in Kinds /\ "Team" \in Targets
      BY DEF Kinds, Targets
    <2>5. MailInv' /\ Grew
      BY <1>1, <2>1, <2>3, <2>4, DeliverKeeps
    <2>6. q \notin Messages \cup {Consult}
      BY ArchiveAssumption
    <2>7. Moves
      BY <2>1, <2>4, <2>5, <2>6, SayingMoves
    <2>8. QED BY <2>1, <2>7
  <1>6. QED BY <1>2, <1>3, <1>4, <1>5 DEF Mutations

LEMMA ArchiveStep ==
  ASSUME ArchiveInv, [ArchiveNext]_allVars
  PROVE  ArchiveInv'
  <1>1. CASE Mutations(TRUE)
    BY <1>1, MutationsMove, MovesKeep
  <1>2. CASE Repetitions
    BY <1>2, RepetitionsKeep, StillWhole
  <1>3. CASE UNCHANGED allVars
    <2>1. UNCHANGED <<vars, historyVars>> /\ client' = client
      BY <1>3 DEF allVars
    <2>2. Accepted' = Accepted /\ Rows' = Rows /\ mailbox' = mailbox
      BY <2>1 DEF vars, historyVars, Accepted, Rows
    <2>3. ClientIsAnswered'
      BY <2>1, <2>2 DEF ArchiveInv, ClientIsAnswered
    <2>4. QED BY <2>1, <2>3, StillWhole
  <1>4. QED BY <1>1, <1>2, <1>3 DEF ArchiveNext

LEMMA ArchiveInitially ==
  ASSUME ArchiveInit
  PROVE  ArchiveInv
  <1>1. /\ about = [m \in Messages |-> Nothing] /\ DOMAIN audit = {} /\ Rows = {}
        /\ DOMAIN archive.audit = {} /\ DOMAIN archive.requests = {} /\ commits = << >>
        /\ checkpoint = [events |-> 0, deliveries |-> 0, requests |-> 0, archived |-> 0,
                         commits |-> 0]
        /\ client.pc = "idle" /\ Init
    BY DEF ArchiveInit, Rows
  <1>2. Accepted = {} /\ Hot = {} /\ HotRequests = {}
    BY <1>1 DEF Init, Accepted, Hot, HotRequests
  <1>3. IsFiniteSet({}) /\ Cardinality({}) = 0
    BY FS_EmptySet
  <1>4. MailInv
    BY <1>1, MailInitially
  <1>5. AboutIsSound
    BY <1>1, <1>2 DEF AboutIsSound
  <1>6. RowsAreKept /\ RequestsAreOver /\ CheckpointTyped /\ ClientIsAnswered
    BY <1>1, <1>2, <1>3 DEF RowsAreKept, RequestsAreOver, CheckpointTyped, ClientIsAnswered
  <1>7. HotHistory
    <2>1. \A log, box : DOMAIN log = {} /\ DOMAIN box = {} => AuditLinks(log, box)
      BY LinksAre DEF OwnEvents, AllEvents, AcceptedFirst
    <2>2. AuditLinks(audit, [m \in Hot |-> mailbox[m]])
      <3>1. PICK box : box = [m \in Hot |-> mailbox[m]]
        OBVIOUS
      <3>2. DOMAIN box = {}
        BY <1>2, <3>1
      <3>3. QED BY <1>1, <2>1, <3>1, <3>2
    <2>3. HotLinks /\ CheckpointAgrees /\ CommitsAreCounted
      BY <1>1, <1>2, <1>3 DEF HotLinks, CheckpointAgrees, CommitsAreCounted
    <2>4. QED BY <1>1, <2>2, <2>3 DEF HotHistory
  <1>8. ProvenanceIsKept
    <2>1. DOMAIN ArchivedEvents = {} /\ DOMAIN archive.rows = {}
      BY <1>1 DEF ArchivedEvents, Rows
    <2>2. QED BY <2>1, LinksAre DEF ProvenanceIsKept, OwnEvents, AllEvents, AcceptedFirst
  <1>9. AuditVerifies
    BY <1>1 DEF AuditVerifies
  <1>10. CommitsAreAll
    <2>1. Keys = {} /\ DOMAIN commits = {} /\ Len(commits) = 0 /\ commits \in Seq(SUBSET Keys)
      BY <1>1 DEF Keys
    <2>2. UNION {commits[i] : i \in DOMAIN commits} = {}
      BY <2>1
    <2>3. CommitsVerify
      BY <2>1 DEF CommitsVerify
    <2>4. CheckpointVerifies
      <3>1. Cardinality(UNION {commits[i] : i \in DOMAIN commits}) = 0
        BY <1>3, <2>2
      <3>2. /\ Cardinality(Rows) = 0 /\ Cardinality(DOMAIN archive.audit) = 0
            /\ Cardinality(DOMAIN archive.requests) = 0
        BY <1>1, <1>3
      <3>3. /\ checkpoint.deliveries = 0 /\ checkpoint.requests = 0 /\ checkpoint.archived = 0
            /\ checkpoint.commits = 0
        BY <1>1
      <3>4. QED BY <2>1, <3>1, <3>2, <3>3 DEF CheckpointVerifies
    <2>5. QED BY <2>1, <2>2, <2>3, <2>4 DEF CommitsAreAll
  <1>11. QED BY <1>4, <1>5, <1>6, <1>7, <1>8, <1>9, <1>10 DEF ArchiveInv

LEMMA ArchiveKeepsInv == ArchiveSpec => []ArchiveInv
  <1>1. ArchiveInit => ArchiveInv
    BY ArchiveInitially
  <1>2. ArchiveInv /\ [ArchiveNext]_allVars => ArchiveInv'
    BY ArchiveStep
  <1>3. QED BY <1>1, <1>2, PTL DEF ArchiveSpec

\* What stays hot can always be replayed without what left: every hot message about a
\* request finds it hot, a consultation and its answer are hot together, every hot request
\* has the message that asked for it, each hot delivery has its own events, once each and
\* its acceptance first, and the checkpoint counts what is archived
\* (archive_compact_history, restore_deliveries, validate_audit,
\* restore_history_checkpoint, validate_archive_commit_checkpoint).
THEOREM HotHistoryStaysWhole == ArchiveSpec => []HotHistoryIsWhole
  <1>1. ArchiveInv => HotHistoryIsWhole
    BY DEF ArchiveInv, HotHistoryIsWhole
  <1>2. QED BY <1>1, ArchiveKeepsInv, PTL

\* Who sends or acknowledges an accepted message again is recognised, wherever the commit
\* that archives it falls between the load and the look-up: what the load did not have
\* is in a row with its whole provenance and every acknowledgement (message_send,
\* message_ack, read_archived_delivery, validate_archived_delivery_audit,
\* classify_archived_retry, classify_archived_ack).
THEOREM RetriesAreRecognised == ArchiveSpec => []RetryIsRecognised
  <1>1. ArchiveInv => RetryIsRecognised
    BY DEF ArchiveInv, ClientIsAnswered, RetryIsRecognised
  <1>2. QED BY <1>1, ArchiveKeepsInv, PTL

\* However many mutations archive, every row is in exactly one commit and no commit is
\* empty, the checkpoint counts the rows of each kind and the commits, and the events, hot
\* and archived, are one chain without a gap whose archived ones name the event before them
\* (verify_archive_commit_chain, verify_compact_archive_checkpoint,
\* verify_protocol_audit_checkpoint).
THEOREM RowsAreCounted == ArchiveSpec => [](CommitsVerify /\ CheckpointVerifies /\ AuditVerifies)
  <1>1. ArchiveInv => CommitsVerify /\ CheckpointVerifies /\ AuditVerifies
    BY DEF ArchiveInv, CommitsAreAll
  <1>2. QED BY <1>1, ArchiveKeepsInv, PTL

-----------------------------------------------------------------------------
(* The command that sends (Sending): the input a message was committed with *)
(* and the one whose answer is recorded are both recognised in it, and       *)
(* whoever is refused gave another input than the claim or the result has.   *)

SendingInv ==
  /\ sentKind \in SendKinds
  /\ envelope # None => Recognises(first.input)
  /\ result # None => Recognises(result)
  /\ OwnInputIsRecognised

\* What the aggregate does meanwhile touches neither message nor answer.
LEMMA StillRecognised ==
  ASSUME SendingInv, UNCHANGED <<sentKind, envelope, first, claim, result>>, refused' => refused
  PROVE  SendingInv'
  <1>1. \A i : Text(i)' = Text(i)
    BY DEF Text
  <1>2. \A i : Recognises(i)' <=> Recognises(i)
    BY <1>1 DEF Recognises
  <1>3. QED BY <1>2 DEF SendingInv, OwnInputIsRecognised

\* The message that is built has what its input gives.
LEMMA BuiltAsAsked ==
  ASSUME sentKind \in SendKinds, NEW s \in Senders, NEW i \in Inputs[sentKind], OwnTeam(s, i),
         SendFirst(s, i)
  PROVE  Recognises(i)'
  <1>1. /\ envelope'.target = DerivedTarget(i) /\ envelope'.team = ContextTeam(s, i)
        /\ envelope'.request = Concerns(i) /\ envelope'.text = Text(i) /\ sentKind' = sentKind
    BY DEF SendFirst, Message
  <1>2. Text(i)' = Text(i)
    BY <1>1 DEF Text
  <1>3. Has(i, "to") => i.to = envelope'.target
    BY <1>1 DEF SendFirst, TargetIsAsked
  <1>4. Has(i, "request") => sentKind # "handoff_acceptance"
    BY DEF SendFirst, Valid, Has, Allowed, Required
  <1>5. Has(i, "request") => i.request = envelope'.request
    BY <1>1, <1>4 DEF Concerns
  <1>6. Has(i, "team") => i.team = envelope'.team
    <2>1. CASE Has(i, "team")
      <3>1. HomeOf(s) = None
        BY <2>1 DEF OwnTeam
      <3>2. sentKind \in {"consultation_request", "directive"}
        BY <2>1 DEF SendFirst, Valid, Has, Allowed, Required, SendKinds
      <3>3. ~Has(i, "request")
        BY <2>1, <3>2 DEF SendFirst, Valid, Has, Allowed, Required
      <3>4. QED BY <1>1, <2>1, <3>1, <3>2, <3>3 DEF ContextTeam
    <2>2. QED BY <2>1
  <1>7. sentKind = "directive" => Has(i, "request") = (envelope'.request # None)
    <2>1. Has(i, "request") => i.request # None
      BY SendingAssumption
    <2>2. CASE sentKind = "directive"
      <3>1. Concerns(i) = IF Has(i, "request") THEN i.request ELSE None
        BY <2>2 DEF Concerns
      <3>2. CASE Has(i, "request")
        BY <1>1, <2>1, <3>1, <3>2 DEF Has
      <3>3. CASE ~Has(i, "request")
        <4>1. envelope'.request = None
          BY <1>1, <3>1, <3>3
        <4>2. QED BY <3>3, <4>1 DEF Has
      <3>4. QED BY <3>2, <3>3
    <2>3. QED BY <2>2
  <1>8. QED BY <1>1, <1>2, <1>3, <1>5, <1>6, <1>7 DEF Recognises

LEMMA SendingStep ==
  ASSUME SendingInv, [SendingNext]_sendingVars
  PROVE  SendingInv'
  <1>1. ASSUME NEW s \in Senders, NEW i \in Inputs[sentKind], OwnTeam(s, i), SendFirst(s, i)
        PROVE  SendingInv'
    <2>1. Recognises(i)'
      BY <1>1, BuiltAsAsked DEF SendingInv
    <2>2. /\ sentKind' = sentKind /\ first'.input = i /\ refused' = FALSE
          /\ result' = i \/ (result' = None /\ result = None)
      BY <1>1 DEF SendFirst, Ends
    <2>3. QED BY <2>1, <2>2 DEF SendingInv, OwnInputIsRecognised
  <1>2. ASSUME NEW s \in Senders, NEW i \in Inputs[sentKind], Resend(s, i)
        PROVE  SendingInv'
    <2>1. /\ UNCHANGED <<sentKind, envelope, first>>
          /\ result = None /\ envelope # None
      BY <1>2 DEF Resend
    <2>2. \A j : Recognises(j)' <=> Recognises(j)
      <3>1. \A j : Text(j)' = Text(j)
        BY <2>1 DEF Text
      <3>2. QED BY <2>1, <3>1 DEF Recognises
    <2>3. CASE Recognises(i)
      <3>1. refused' = FALSE /\ (result' = i \/ result' = None)
        BY <1>2, <2>1, <2>3 DEF Resend, Ends
      <3>2. QED BY <2>1, <2>2, <2>3, <3>1 DEF SendingInv, OwnInputIsRecognised
    <2>4. CASE ~Recognises(i)
      <3>1. refused' = IsFirst(s, i) /\ result' = None
        BY <1>2, <2>1, <2>4 DEF Resend
      <3>2. ~IsFirst(s, i)
        BY <2>1, <2>4 DEF SendingInv, IsFirst
      <3>3. QED BY <2>1, <2>2, <3>1, <3>2 DEF SendingInv, OwnInputIsRecognised
    <2>5. QED BY <2>3, <2>4
  <1>3. ASSUME NEW s \in Senders, NEW i \in Inputs[sentKind],
               AnsweredFromResult(s, i) \/ ClaimedForAnother(s, i)
        PROVE  SendingInv'
    <2>1. /\ UNCHANGED <<sentKind, envelope, first, claim, result>>
          /\ refused' => \/ claim \notin {None, first.input}
                         \/ result \notin {None, first.input}
      <3>1. CASE AnsweredFromResult(s, i)
        <4>1. refused' => result # i /\ IsFirst(s, i)
          BY <3>1 DEF AnsweredFromResult
        <4>2. QED BY <3>1, <4>1 DEF AnsweredFromResult, IsFirst
      <3>2. CASE ClaimedForAnother(s, i)
        <4>1. refused' => IsFirst(s, i)
          BY <3>2 DEF ClaimedForAnother
        <4>2. QED BY <3>2, <4>1 DEF ClaimedForAnother, IsFirst
      <3>3. QED BY <1>3, <3>1, <3>2
    <2>2. \A j : Text(j)' = Text(j)
      BY <2>1 DEF Text
    <2>3. \A j : Recognises(j)' <=> Recognises(j)
      BY <2>1, <2>2 DEF Recognises
    <2>4. QED BY <2>1, <2>3 DEF SendingInv, OwnInputIsRecognised
  <1>4. CASE Meanwhile \/ UNCHANGED sendingVars
    <2>1. UNCHANGED <<sentKind, envelope, first, claim, result>> /\ refused' = refused
      BY <1>4 DEF Meanwhile, SubmitCandidate, Decide, OfferRequest, TakeRequest, Succeed,
                  sendingVars
    <2>2. QED BY <2>1, StillRecognised
  <1>5. QED BY <1>1, <1>2, <1>3, <1>4 DEF SendingNext, Invoke

\* Whatever input of whatever kind a message is sent with, and whatever becomes of its
\* request between two tries: its sender is refused under his own operation id only when the
\* id is tied to another input by then, and what is answered as sent is the message that was
\* asked for, its text, target, request and team (message_send, validate_message_retry).
THEOREM MessagesAreSentAsAsked == SendingSpec => []SentAsAsked
  <1>1. SendingInit => SendingInv
    BY DEF SendingInit, SendingInv, OwnInputIsRecognised
  <1>2. SendingInv => SentAsAsked
    <2>1. ASSUME SendingInv, result # None
          PROVE  /\ Text(result) = envelope.text
                 /\ \A f \in {"to", "request", "team"} \cap DOMAIN result :
                      result[f] = CASE f = "to" -> envelope.target
                                    [] f = "request" -> envelope.request
                                    [] OTHER -> envelope.team
      BY <2>1 DEF SendingInv, Recognises, Has
    <2>2. QED BY <2>1 DEF SendingInv, SentAsAsked, AnsweredAsSent
  <1>3. QED BY <1>1, <1>2, SendingStep, PTL DEF SendingSpec
=============================================================================
