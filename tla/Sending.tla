------------------------------ MODULE Sending ------------------------------
(***************************************************************************)
(* One operation id of message.send (agsv-control/src/engine.rs): the       *)
(* command derives from its flags and from the aggregate who is written to, *)
(* about which team and request, and commits the message under an id made   *)
(* of the operation id.  A retry finds the message and must recognise its   *)
(* own input in it, whatever became of the aggregate since.                 *)
(*                                                                         *)
(* Two teams, A with x and B with y; request r of A may be handed to B.     *)
(* Texts (body, rationale, resources) are told apart by name.               *)
(***************************************************************************)
EXTENDS Naturals, Functions

CONSTANTS None,   \* no message, no claim, no recorded result
          Inputs  \* the inputs tried, of each kind: TriedInputs

Teams     == {"A", "B"}
Actors    == {"x", "y"}
AllRequests == {"r", "q"}
Primary   == "Primary"
Senders   == {Primary, "x", "y"}
HomeOf(s) == CASE s = "x" -> "A" [] s = "y" -> "B" [] OTHER -> None

VARIABLES requests,  \* what the aggregate knows of each request
          offer,     \* whether r is on offer to team B
          asker,     \* who sent the consultation a response answers
          gen,       \* generation of each sender
          sentKind,  \* kind of the message of this behaviour
          envelope,  \* the message committed under the operation id
          first,     \* who committed it, with which input
          claim,     \* the input the operation id is claimed for
          result,    \* the input its recorded result answers
          refused    \* whether who committed it was just told the id has another input
sendingVars == <<requests, offer, asker, gen, sentKind, envelope, first, claim, result, refused>>

-----------------------------------------------------------------------------
(* MessageSendArgs: an input is a function from the flags given to values.  *)

SendKinds ==
  {"progress", "blocker", "fix_request", "handoff_offer", "consultation_request",
   "directive", "consultation_response", "dependency_notice", "conflict_notice",
   "handoff_acceptance", "qa_result", "integration_complete"}

Required(k) ==
  CASE k \in {"progress", "blocker", "fix_request"} -> {"body", "request"}
    [] k = "handoff_offer"         -> {"to", "body", "request"}
    [] k = "consultation_request"  -> {"to", "body"}
    [] k = "directive"             -> {"to", "decision", "rationale"}
    [] k = "consultation_response" -> {"body", "consultation"}
    [] k = "dependency_notice"     -> {"body", "request", "depends"}
    [] k = "conflict_notice"       -> {"to", "body", "resource"}
    [] k = "handoff_acceptance"    -> {"handoff"}
    [] k = "qa_result"             -> {"body", "request", "outcome"}
    [] OTHER                       -> {"request"}

Allowed(k) == {"to"} \cup Required(k) \cup
  CASE k = "consultation_request" -> {"team", "subject"}
    [] k = "directive"            -> {"team", "request"}
    [] OTHER                      -> {}

Has(i, flag) == flag \in DOMAIN i

\* The inputs of each kind name requests that exist (request() looks them up first).
ASSUME SendingAssumption ==
  /\ None \notin AllRequests
  /\ \A k \in SendKinds : \A i \in Inputs[k] : Has(i, "request") => i.request \in AllRequests

\* MessageSendArgs::validate_for
Valid(i) ==
  /\ Required(sentKind) \subseteq DOMAIN i /\ DOMAIN i \subseteq Allowed(sentKind)
  /\ sentKind = "directive" => Has(i, "request") # Has(i, "team")

\* What the message carries of the input; a subject nobody gave has a default.
Text(i) ==
  LET words == Restrict(i, DOMAIN i \ {"to", "team", "request"})
  IN IF sentKind # "consultation_request" \/ Has(i, "subject") THEN words
     ELSE [f \in DOMAIN words \cup {"subject"} |-> IF f = "subject" THEN "default" ELSE words[f]]

-----------------------------------------------------------------------------
(* Building the message. *)

\* The objects the kind needs are there.
Derivable(s, i) ==
  CASE sentKind = "qa_result" -> requests[i.request].candidate > 0
    [] sentKind = "fix_request" -> requests[i.request].decision # "none"
    [] sentKind = "integration_complete" -> requests[i.request].decision = "authorized"
    [] sentKind = "handoff_acceptance" -> offer
    [] sentKind = "consultation_response" -> HomeOf(s) = "B"   \* the team asked
    [] sentKind \in {"consultation_request", "conflict_notice", "handoff_offer"} -> i.to \in Teams
    [] OTHER -> TRUE

DerivedTarget(i) ==
  CASE sentKind \in {"progress", "blocker", "qa_result"} -> Primary
    [] sentKind = "consultation_response" -> asker
    [] sentKind = "dependency_notice" -> requests[i.depends].team
    [] sentKind = "handoff_acceptance" -> "A"
    [] sentKind \in {"integration_complete", "fix_request"} -> requests[i.request].by
    [] OTHER -> i.to

\* assert_target: --to may only confirm the derived target.
TargetIsAsked(i) == Has(i, "to") => i.to = DerivedTarget(i)

Concerns(i) == IF sentKind = "handoff_acceptance" THEN "r"
            ELSE IF Has(i, "request") THEN i.request ELSE None

\* make_envelope, request_envelope: the team of a message about a request is the
\* request's (an acceptance's is the team that accepts), else the sender's own,
\* and only a Primary's is the one it names.
ContextTeam(s, i) ==
  IF sentKind = "handoff_acceptance" THEN "B"
  ELSE IF Has(i, "request") THEN requests[i.request].team
  ELSE IF HomeOf(s) # None THEN HomeOf(s)
  ELSE IF Has(i, "team") THEN i.team ELSE None

Message(s, i) ==
  [from |-> s, gen |-> gen[s], target |-> DerivedTarget(i), team |-> ContextTeam(s, i),
   request |-> Concerns(i), text |-> Text(i),
   candidate |-> IF Concerns(i) = None THEN 0 ELSE requests[Concerns(i)].candidate]

\* The authority the aggregate asks of the sender (authorize_envelope,
\* apply_message), and the team a directive must stay in.
Authorized(m) ==
  /\ HomeOf(m.from) # None => m.team = HomeOf(m.from)
  /\ CASE sentKind \in {"directive", "fix_request", "integration_complete"} -> m.from = Primary
       [] sentKind \in {"progress", "blocker", "qa_result", "handoff_offer", "dependency_notice"} ->
            m.from = requests[m.request].by
       [] sentKind = "consultation_request" -> m.target # HomeOf(m.from)
       [] sentKind = "conflict_notice" -> m.from # Primary /\ m.target # m.team
       [] OTHER -> m.from # Primary
  /\ sentKind = "fix_request" => requests[m.request].decision = "rejected"
  /\ sentKind = "directive" =>
       IF m.request # None THEN m.target = requests[m.request].by
       ELSE m.target = m.team \/ (m.target \in Actors /\ HomeOf(m.target) = m.team)

-----------------------------------------------------------------------------
(* Recognising a retry. *)

\* validate_message_retry
Recognises_DerivedAgain(i) ==
  /\ DerivedTarget(i) = envelope.target
  /\ Has(i, "to") => i.to = envelope.target
  /\ Has(i, "request") => i.request = envelope.request
  /\ Has(i, "team") => i.team = envelope.team
  /\ sentKind = "directive" => Has(i, "request") = (envelope.request # None)
  /\ Text(i) = envelope.text
Recognises(i) ==
  /\ Has(i, "to") => i.to = envelope.target
  /\ Has(i, "request") => i.request = envelope.request
  /\ Has(i, "team") => i.team = envelope.team
  /\ sentKind = "directive" => Has(i, "request") = (envelope.request # None)
  /\ Text(i) = envelope.text

-----------------------------------------------------------------------------
SendingInit ==
  /\ requests = [r \in AllRequests |-> [team |-> IF r = "r" THEN "A" ELSE "B",
                                        by |-> IF r = "r" THEN "x" ELSE "y",
                                        candidate |-> 0, decision |-> "none"]]
  /\ offer = FALSE /\ asker \in {Primary, "x"}
  /\ gen = [s \in Senders |-> 1] /\ sentKind \in SendKinds
  /\ envelope = None /\ first = None /\ claim = None /\ result = None /\ refused = FALSE

IsFirst(s, i) == first = [by |-> s, gen |-> gen[s], input |-> i]

\* A result is recorded under the id: its input gets the answer, another is refused.
AnsweredFromResult(s, i) ==
  /\ result # None
  /\ refused' = (result # i /\ IsFirst(s, i))
  /\ UNCHANGED <<requests, offer, asker, gen, sentKind, envelope, first, claim, result>>

\* The claim of a command that died admits only its own input (once it expired).
ClaimedForAnother(s, i) ==
  /\ result = None /\ claim # None /\ claim # i
  /\ refused' = IsFirst(s, i)
  /\ UNCHANGED <<requests, offer, asker, gen, sentKind, envelope, first, claim, result>>

\* How a command that committed ends: its result is recorded, waking the target
\* fails and the claim is given back, or the process dies with the claim.
Ends(i) ==
  \/ claim' = None /\ result' = i
  \/ claim' = None /\ UNCHANGED result
  \/ claim' = i /\ UNCHANGED result

\* The first time: build the message and commit it.
SendFirst(s, i) ==
  /\ result = None /\ claim \in {None, i} /\ envelope = None
  /\ Valid(i) /\ Derivable(s, i) /\ TargetIsAsked(i) /\ Authorized(Message(s, i))
  /\ envelope' = Message(s, i) /\ first' = [by |-> s, gen |-> gen[s], input |-> i]
  /\ Ends(i) /\ refused' = FALSE
  /\ UNCHANGED <<requests, offer, asker, gen, sentKind>>

\* The message is there: only its sender's generation may retry, and only its own
\* input; the message is applied again, which changes nothing.
Resend(s, i) ==
  /\ result = None /\ claim \in {None, i} /\ envelope # None
  /\ Valid(i) /\ envelope.from = s /\ envelope.gen = gen[s]
  /\ IF Recognises(i) THEN Ends(i) /\ refused' = FALSE
     ELSE /\ claim' = None /\ refused' = IsFirst(s, i)
          /\ UNCHANGED result
  /\ UNCHANGED <<requests, offer, asker, gen, sentKind, envelope, first>>

\* What the aggregate does meanwhile: the candidate of r comes, is judged, r is
\* offered to team B and taken, and the sender's generation is replaced.
SubmitCandidate ==
  /\ requests["r"].candidate = 0 /\ requests["r"].decision # "authorized"
  /\ requests' = [requests EXCEPT !["r"].candidate = @ + 1, !["r"].decision = "none"]
  /\ UNCHANGED <<offer, asker, gen, sentKind, envelope, first, claim, result, refused>>
Decide ==
  /\ requests["r"].candidate > 0 /\ requests["r"].decision = "none" /\ ~offer
  /\ \E d \in {"rejected", "authorized"} : requests' = [requests EXCEPT !["r"].decision = d]
  /\ UNCHANGED <<offer, asker, gen, sentKind, envelope, first, claim, result, refused>>
OfferRequest ==
  /\ ~offer /\ requests["r"].team = "A" /\ requests["r"].decision # "authorized"
  /\ offer' = TRUE
  /\ UNCHANGED <<requests, asker, gen, sentKind, envelope, first, claim, result, refused>>
TakeRequest ==
  /\ offer /\ offer' = FALSE
  /\ requests' = [requests EXCEPT !["r"] = [team |-> "B", by |-> "y", candidate |-> @.candidate,
                                           decision |-> @.decision]]
  /\ UNCHANGED <<asker, gen, sentKind, envelope, first, claim, result, refused>>
Succeed(s) ==
  /\ gen[s] = 1 /\ gen' = [gen EXCEPT ![s] = 2]
  /\ UNCHANGED <<requests, offer, asker, sentKind, envelope, first, claim, result, refused>>

\* The inputs tried: every choice of flags and values the kind allows, and one flag
\* that it does not.
Stray(k) == IF k = "blocker" THEN {"team"} ELSE {}
Values(f) == CASE f = "to" -> {"A", "B", "x", Primary} [] f = "body" -> {"one", "two"}
               [] f = "request" -> AllRequests [] f = "depends" -> {"q"} [] f = "team" -> Teams
               [] OTHER -> {"one"}
InputsWith(F) == {i \in [F -> UNION {Values(f) : f \in F}] : \A f \in F : i[f] \in Values(f)}
TriedInputs == [k \in SendKinds |->
             UNION {InputsWith(F) : F \in {G \in SUBSET (Allowed(k) \cup Stray(k)) :
                                            "body" \in G \/ "body" \notin Allowed(k)}}]

Invoke(s, i) ==
  \/ AnsweredFromResult(s, i) \/ ClaimedForAnother(s, i) \/ SendFirst(s, i) \/ Resend(s, i)

Meanwhile ==
  \/ SubmitCandidate \/ Decide \/ OfferRequest \/ TakeRequest
  \/ \E s \in {Primary, "x"} : Succeed(s)

\* Every input, and those of senders who leave --team, ignored in a message of an
\* executor, to the Primary.
AnyNext == (\E s \in Senders, i \in Inputs[sentKind] : Invoke(s, i)) \/ Meanwhile
OwnTeam(s, i) == HomeOf(s) # None => ~Has(i, "team")
SendingNext ==
  (\E s \in Senders, i \in Inputs[sentKind] : OwnTeam(s, i) /\ Invoke(s, i)) \/ Meanwhile
SendingSpec == SendingInit /\ [][SendingNext]_sendingVars

-----------------------------------------------------------------------------
\* message_send, validate_message_retry: the sender of a committed message is never
\* told that its operation id was used with other input, not when the request was
\* handed over, judged or got a candidate in between (only whoever repeated it with
\* other flags that mean the same has tied the id to those); and what is answered as
\* sent is the message asked for, its text, target, request and team.
OwnInputIsRecognised == refused => \/ claim \notin {None, first.input}
                                   \/ result \notin {None, first.input}
AnsweredAsSent ==
  result # None => /\ Text(result) = envelope.text
                   /\ \A f \in {"to", "request", "team"} \cap DOMAIN result :
                        result[f] = CASE f = "to" -> envelope.target
                                      [] f = "request" -> envelope.request
                                      [] OTHER -> envelope.team
SentAsAsked == OwnInputIsRecognised /\ AnsweredAsSent
=============================================================================
