------------------------------ MODULE Content ------------------------------
(***************************************************************************)
(* What messages say is kept apart from the deliveries, in immutable rows   *)
(* (agsv-control/src/store.rs, persist_message_body and its readers).  A    *)
(* body names rows of its own for the specification of a request, the       *)
(* rationale of a decision and every piece of evidence, so that each text   *)
(* is stored once and read in many places, long after its delivery is       *)
(* archived.                                                                *)
(*                                                                         *)
(* The text of a message is its id; what a piece of evidence says is one of *)
(* a few versions, chosen by whoever sends it under an id of their choice.  *)
(***************************************************************************)
EXTENDS Archive

CONSTANTS Evidence, Version   \* evidence ids; what a piece of evidence may say

VARIABLES
  body,           \* message_bodies: where a message has its text, and its digest
  specification,  \* request_specifications
  evidence,       \* evidence_records
  decisions,      \* decision_rationales, in the order of their sequence
  decision        \* the decision a request refers to

contentVars == <<body, specification, evidence, decisions, decision>>

ContentInit ==
  /\ ArchiveInit
  /\ body = [m \in {} |-> Nothing]
  /\ specification = [r \in {} |-> Nothing]
  /\ evidence = [e \in {} |-> Nothing]
  /\ decisions = << >>
  /\ decision = [r \in Requests |-> Nothing]

-----------------------------------------------------------------------------
(* Writing. *)

\* A review decision; authorizations, completions and cancellations come later.
IsDecision(m) ==
  /\ mailbox'[m].kind = "Outcome"
  /\ request[mailbox'[m].req].st = "Blocking" /\ request'[mailbox'[m].req].st # "Terminal"

\* The messages that have evidence: reports, outcomes, consultations and answers.
MayCite(m) ==
  /\ mailbox'[m].kind \in {"Report", "Outcome", "Notice", "Answer"}
  /\ about'[m] \notin Requests

\* insert_immutable_row: a row that is there already says the same, or the whole
\* transaction fails.
Immutable_LastWins(rows, new) == TRUE
Immutable(rows, new) == \A id \in DOMAIN rows \cap DOMAIN new : rows[id] = new[id]

With(rows, new) == [id \in DOMAIN rows \cup DOMAIN new |->
                      IF id \in DOMAIN new THEN new[id] ELSE rows[id]]

\* externalize_evidence
PersistEvidence(cited) ==
  /\ Immutable(evidence, cited) /\ evidence' = With(evidence, cited)

PersistSpecification(m) ==
  LET new == [r \in {mailbox'[m].req} |-> m] IN
  IF mailbox'[m].kind = "Ask"
  THEN Immutable(specification, new) /\ specification' = With(specification, new)
  ELSE UNCHANGED specification

\* persist_decision_history: the decision of a request, which a new candidate (one of
\* the reports) takes away again.
PersistDecision(m) ==
  LET d == mailbox'[m]
      refersTo(x) == decision' = [decision EXCEPT ![d.req] = x]
  IN IF IsDecision(m)
     THEN /\ decisions' = Append(decisions, [msg |-> m, req |-> d.req, rationale |-> m])
          /\ refersTo(m)
     ELSE /\ UNCHANGED decisions
          /\ \/ UNCHANGED decision
             \/ d.kind = "Report" /\ decision[d.req] # Nothing /\ refersTo(Nothing)

\* Where a body has its text from.
Source(m) == IF mailbox'[m].kind = "Ask" THEN "specification"
             ELSE IF IsDecision(m) THEN "rationale" ELSE "body"

\* insert_immutable_message
PersistBody(m, cited) ==
  LET new == [n \in {m} |-> [source |-> Source(m), text |-> m, cites |-> DOMAIN cited,
                             digest |-> [text |-> m, evidence |-> cited]]]
  IN Immutable(body, new) /\ body' = With(body, new)

\* persist_message_body
Persist(m, cited) ==
  /\ DOMAIN cited = {} \/ MayCite(m)
  /\ PersistEvidence(cited) /\ PersistSpecification(m) /\ PersistDecision(m)
  /\ PersistBody(m, cited)

\* persist_bulk_and_archive_history: the message the mutation accepted, if it did.
PersistNew ==
  IF Left \subseteq Accepted THEN UNCHANGED contentVars
  ELSE \E m \in Left \ Accepted : \E es \in SUBSET Evidence :
         \E cited \in [es -> Version] : Persist(m, cited)

-----------------------------------------------------------------------------
ContentNext(Considered) ==
  \/ Mutations(Considered) /\ PersistNew
  \/ Repetitions /\ UNCHANGED contentVars

ContentSpec == ContentInit /\ [][ContentNext(TRUE)]_<<allVars, contentVars>>

-----------------------------------------------------------------------------
(* Reading. *)

\* hydrate_bulk_markers: the texts that the reference of m finds.
Texts(m) ==
  CASE body[m].source = "specification" ->
         {specification[r] : r \in {mailbox[m].req} \cap DOMAIN specification}
    [] body[m].source = "rationale" ->
         {decisions[i].rationale : i \in {j \in DOMAIN decisions : decisions[j].msg = m}}
    [] OTHER -> {body[m].text}

\* hydrate_message_body: put together again, a message is what its digest says.
Hydrates(m) ==
  /\ m \in DOMAIN body /\ body[m].cites \subseteq DOMAIN evidence
  /\ {[text |-> t, evidence |-> [e \in body[m].cites |-> evidence[e]]] : t \in Texts(m)}
       = {body[m].digest}

\* validate_message_owned_bulk: the rows a message owns say what it says.
OwnsItsRows(m) ==
  LET says == body[m].digest IN
  /\ mailbox[m].kind = "Ask" =>
       mailbox[m].req \in DOMAIN specification /\ specification[mailbox[m].req] = says.text
  /\ body[m].source = "rationale" =>
       \E i \in DOMAIN decisions : decisions[i].msg = m /\ decisions[i].rationale = says.text
  /\ \A e \in DOMAIN says.evidence : e \in DOMAIN evidence /\ evidence[e] = says.evidence[e]

\* dehydrate_operation_result: what the result of a command says of a message is in
\* the rows, or the result is not recorded.
Recordable(m) == Hydrates(m) /\ OwnsItsRows(m)

\* validate_compact_bulk_references: a hot request refers to hot messages that describe
\* and decide it.
ReferencesHold ==
  \A r \in HotRequests :
    /\ \E m \in Hot : /\ mailbox[m].kind = "Ask" /\ mailbox[m].req = r
                      /\ specification[r] = body[m].digest.text
    /\ decision[r] # Nothing =>
         /\ decision[r] \in Hot /\ mailbox[decision[r]].req = r
         /\ body[decision[r]].source = "rationale"

\* hydrate_decision_history_row: a row agrees with the message it indexes.
DecisionVerifies(row) ==
  /\ row.msg \in DOMAIN body /\ mailbox[row.msg].req = row.req
  /\ body[row.msg].source = "rationale" /\ body[row.msg].digest.text = row.rationale

\* decision_history_query: the decisions of a request, the last of which none supersedes.
Unsuperseded(r) == {i \in DOMAIN decisions : decisions[i].req = r
                      /\ \A j \in DOMAIN decisions : decisions[j].req = r => j <= i}

AcceptedAt(m) ==
  CHOOSE s \in 1 .. checkpoint.events : Event(s) = [msg |-> m, by |-> Acceptance]

HistoryInOrder ==
  /\ \A i, j \in DOMAIN decisions : i < j =>
       AcceptedAt(decisions[i].msg) < AcceptedAt(decisions[j].msg)
  /\ \A r \in Requests :
       decision[r] \in {Nothing} \cup {decisions[i].msg : i \in Unsuperseded(r)}

-----------------------------------------------------------------------------
\* However many messages cite a piece of evidence, and long after deliveries and
\* requests are archived, every message that was ever accepted is read back as it was
\* sent, and so is the result of the command that sent it; a hot request finds what
\* describes and decides it; and the history of decisions is what was decided, in that
\* order (persist_message_body, validate_compact_bulk_references,
\* dehydrate_operation_result, hydrate_decision_history_row).
ContentIsKept ==
  /\ \A m \in Accepted : Recordable(m)
  /\ ReferencesHold
  /\ \A i \in DOMAIN decisions : DecisionVerifies(decisions[i])
  /\ HistoryInOrder
=============================================================================
