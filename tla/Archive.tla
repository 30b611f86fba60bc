------------------------------ MODULE Archive ------------------------------
(***************************************************************************)
(* History that is over leaves the snapshot for immutable rows              *)
(* (agsv-control/src/store.rs, archive_compact_history and its verifiers).  *)
(* Every mutation of the mailbox loads the hot snapshot, is applied, and    *)
(* archives in the same transaction what became archivable.                 *)
(*                                                                         *)
(* `mailbox` and `request` hold hot and archived history alike; a message   *)
(* is hot until it has a row, and the row keeps the delivery as it was.     *)
(***************************************************************************)
EXTENDS Mailbox, Sequences

CONSTANTS Nothing, Consult,  \* what a message is about, if not a message or a request
          Acceptance,        \* the audit event of an accepted message
          MaxLease           \* bound on the Primary's leases

\* Messages, requests and events are told apart wherever one stands for another.
ASSUME ArchiveAssumption ==
  /\ Consult # Nothing /\ Messages \cap (Requests \cup {Nothing, Consult}) = {}
  /\ {Nothing, Consult} \cap Requests = {} /\ (Messages \cup Requests) \cap Nat = {}
  /\ Acceptance \notin Recipient

VARIABLES
  about,    \* Consult, the consultation a message answers, the request it waits for
  lease,    \* [epoch, gen]: the lease, and the generation of the last Primary
  sent,     \* who sent a message, in which generation, team generation and lease
  audit,    \* the hot audit events by their global sequence
  archive,  \* [rows, audit, requests]: what was archived, by its key
  commits,  \* the archive commits, each the set of its row keys
  checkpoint,  \* history_checkpoint: how much history there is, and was archived
  client    \* a command that sends or acknowledges a message for the second time

historyVars == <<about, lease, sent, audit, archive, commits, checkpoint>>
allVars     == <<vars, historyVars, client>>

Rows  == DOMAIN archive.rows
Hot   == Accepted \ Rows
HotRequests == {r \in Requests : request[r].st # "None" /\ r \notin DOMAIN archive.requests}

ArchiveInit ==
  /\ Init
  /\ about = [m \in Messages |-> Nothing]
  /\ lease = [epoch |-> 1, gen |-> 1]
  /\ sent = [m \in Messages |-> Nothing]
  /\ audit = [s \in {} |-> Nothing]
  /\ archive = [rows |-> [m \in {} |-> NoDelivery], audit |-> [s \in {} |-> Nothing],
                requests |-> [r \in {} |-> 0]]
  /\ commits = << >>
  /\ checkpoint = [events |-> 0, deliveries |-> 0, requests |-> 0, archived |-> 0,
                   commits |-> 0]
  /\ client = [pc |-> "idle", msg |-> Nothing, by |-> Nothing, seen |-> FALSE]

-----------------------------------------------------------------------------
(* What from_snapshot asks of the hot history, which it replays without any   *)
(* reference to what was archived.                                            *)

HotLinks ==
  /\ \A m \in Hot : /\ mailbox[m].req # NoRequest => mailbox[m].req \in HotRequests
                    /\ about[m] \in Messages => about[m] \in Hot
  /\ \A r \in HotRequests :
       \E m \in Hot : mailbox[m].kind = "Ask" /\ mailbox[m].req = r

\* CausalReplay::dependency: the request waited for was created before.
HotDependencies == \A m \in Hot : about[m] \in Requests => about[m] \in HotRequests

\* validate_audit_links: of the messages of box, one acceptance each, one event for
\* each acknowledgement, and the acceptance first.
AuditLinks(log, box) ==
  /\ {log[s] : s \in DOMAIN log} =
       UNION {{[msg |-> m, by |-> x] : x \in {Acceptance} \cup box[m].acks} : m \in DOMAIN box}
  /\ \A s, t \in DOMAIN log : log[s].msg = log[t].msg =>
       /\ log[s].by = log[t].by => s = t
       /\ log[s].by = Acceptance => s <= t

\* restore_history_checkpoint
CheckpointAgrees ==
  /\ checkpoint.archived + Cardinality(DOMAIN audit) = checkpoint.events
  /\ checkpoint.requests <= checkpoint.deliveries
  /\ checkpoint.deliveries <= checkpoint.archived

\* validate_archive_commit_checkpoint
CommitsAreCounted ==
  LET rows == checkpoint.deliveries + checkpoint.requests + checkpoint.archived IN
  /\ checkpoint.commits <= rows
  /\ checkpoint.commits = 0 <=> rows = 0

HotHistory ==
  /\ HotLinks
  /\ AuditLinks(audit, [m \in Hot |-> mailbox[m]])
  /\ DOMAIN audit \subseteq 1 .. checkpoint.events
  /\ CheckpointAgrees /\ CommitsAreCounted

Loads == HotHistory /\ HotDependencies

\* validate_archived_delivery_audit: one acceptance, and every acknowledgement.
Provenance(m) ==
  LET es == {s \in DOMAIN archive.audit : archive.audit[s].event.msg = m}
      row == archive.rows[m]
  IN /\ Cardinality(es) = 1 + Cardinality(row.acks)
     /\ {archive.audit[s].event.by : s \in es} = {Acceptance} \cup row.acks

-----------------------------------------------------------------------------
(* The rest of a mutation: its audit event, and what it archives of the hot   *)
(* history it leaves.                                                         *)

\* append_audit: a message was accepted, or acknowledged.
NewEvents ==
  {[msg |-> m, by |-> Acceptance] :
     m \in {n \in Messages \ Accepted : mailbox'[n] # NoDelivery}}
  \cup UNION {{[msg |-> m, by |-> x] : x \in mailbox'[m].acks \ mailbox[m].acks} :
                m \in Accepted}

Events == checkpoint.events + Cardinality(NewEvents)

Log == [s \in DOMAIN audit \cup (checkpoint.events + 1 .. Events) |->
          IF s \in DOMAIN audit THEN audit[s] ELSE CHOOSE e \in NewEvents : TRUE]

\* The hot deliveries after the mutation, before it archives.
Left == {m \in Messages : mailbox'[m] # NoDelivery} \ Rows

Over_SomeRetired(left) == {r \in Requests \ DOMAIN archive.requests :
  /\ request'[r].st = "Terminal"
  /\ \E m \in left : mailbox'[m].req = r /\ mailbox'[m].retired}
Over(left) == {r \in Requests \ DOMAIN archive.requests :
  /\ request'[r].st = "Terminal"
  /\ \E m \in left : mailbox'[m].req = r
  /\ \A m \in left : mailbox'[m].req = r => mailbox'[m].retired}

\* A consultation and its answer leave together.
Paired_Alone(m, left) == TRUE
Paired(m, left) ==
  \/ about'[m] \notin {Consult} \cup Messages
  \/ about'[m] \in Messages /\ about'[m] \in left /\ mailbox'[about'[m]].retired
  \/ about'[m] = Consult /\ \E n \in left : about'[n] = m /\ mailbox'[n].retired

\* What leaves with the requests that are over.
Gone(left, over) ==
  {m \in left : /\ mailbox'[m].retired
                /\ IF mailbox'[m].req # NoRequest THEN mailbox'[m].req \in over
                                                  ELSE Paired(m, left)}
Leaving(log, gone) == {s \in DOMAIN log : log[s].msg \in gone}

\* The event before s, hot or archived (protocol_audit_predecessor_missing).
Before(log, s) ==
  IF s = 1 THEN Nothing
  ELSE IF s - 1 \in DOMAIN log THEN log[s - 1] ELSE archive.audit[s - 1].event

\* request_creation_audit_sequence
CreatedAt(log, r) == CHOOSE s \in DOMAIN log :
  /\ log[s].by = Acceptance /\ mailbox'[log[s].msg].kind = "Ask"
  /\ mailbox'[log[s].msg].req = r

\* insert_delivery_archive: the delivery as the mutation leaves it.
NewRows(gone) ==
  [m \in Rows \cup gone |-> IF m \in Rows THEN archive.rows[m] ELSE mailbox'[m]]

\* insert_protocol_audit_archive: with the digest of the event before.
NewAudit(log, leaving) ==
  [s \in DOMAIN archive.audit \cup leaving |->
     IF s \in leaving THEN [event |-> log[s], before |-> Before(log, s)] ELSE archive.audit[s]]

\* insert_terminal_request_archive
NewRequests(log, over) ==
  [r \in DOMAIN archive.requests \cup over |->
     IF r \in over THEN CreatedAt(log, r) ELSE archive.requests[r]]

\* append_archive_commit: one commit, if anything leaves.
NewCommits(entries) == IF entries = {} THEN commits ELSE Append(commits, entries)

\* The snapshot counts what its commit archives; the manifest, which the same
\* transaction updates, is equal to it.
NewCheckpoint(over, gone, leaving) ==
  [events     |-> Events,
   deliveries |-> checkpoint.deliveries + Cardinality(gone),
   requests   |-> checkpoint.requests + Cardinality(over),
   archived   |-> checkpoint.archived + Cardinality(leaving),
   commits    |-> checkpoint.commits + (IF gone = {} THEN 0 ELSE 1)]

\* archive_compact_history
ArchiveHistory ==
  LET log     == Log
      over    == Over(Left)
      gone    == Gone(Left, over)
      leaving == Leaving(log, gone)
  IN /\ archive' = [rows |-> NewRows(gone), audit |-> NewAudit(log, leaving),
                    requests |-> NewRequests(log, over)]
     /\ audit' = [s \in DOMAIN log \ leaving |-> log[s]]
     /\ commits' = NewCommits(gone \cup leaving \cup over)
     /\ checkpoint' = NewCheckpoint(over, gone, leaving)

\* A Primary that is lost takes its lease along; the next one is a new generation.
NextLease_Kept ==
  [epoch |-> lease.epoch, gen |-> lease.gen + (IF ~primary /\ primary' THEN 1 ELSE 0)]
NextLease ==
  [epoch |-> lease.epoch + (IF primary /\ ~primary' THEN 1 ELSE 0),
   gen   |-> lease.gen + (IF ~primary /\ primary' THEN 1 ELSE 0)]

\* The sender of an accepted message: the Primary, a member whose message is about its
\* own work or answers a consultation, or, for other notices and answers, another team.
ByMember(m, a) ==
  /\ member[a].status = "Healthy"
  /\ \/ about'[m] \in Messages
     \/ /\ mailbox'[m].kind = "Report" \/ about'[m] \in Requests
        /\ request[mailbox'[m].req].by.actor = a
Fences(m) ==
  IF mailbox'[m].kind = "Report" \/ about'[m] \in Messages \cup Requests
  THEN {[actor |-> a, gen |-> member[a].gen, team |-> team.epoch, lease |-> lease.epoch] :
          a \in {b \in Members : ByMember(m, b)}}
  ELSE IF mailbox'[m].kind \in {"Notice", "Answer"} /\ about'[m] = Nothing
  THEN {Nothing}
  ELSE {[actor |-> "Primary", gen |-> lease.gen, team |-> 0, lease |-> lease.epoch]}
Sends ==
  IF Left \subseteq Accepted THEN UNCHANGED sent
  ELSE \E m \in Left \ Accepted : \E f \in Fences(m) : sent' = [sent EXCEPT ![m] = f]

\* A message about an archived request is one about an unknown request.
KnownContext == \A m \in Left \ Accepted :
  mailbox'[m].req \in {NoRequest} \cup HotRequests
                       \cup {r \in Requests : request[r].st = "None"}

Mutation(A) ==
  /\ A /\ KnownContext /\ lease' = NextLease /\ lease'.epoch <= MaxLease
  /\ Sends /\ ArchiveHistory /\ UNCHANGED client

-----------------------------------------------------------------------------
(* Messages that refer to others. *)

About(m, x) == about' = [about EXCEPT ![m] = x]

\* The Primary consults the team, and a member answers it.
AskAdvice(m) == primary /\ Notice(m) /\ About(m, Consult)
Advise(m, n) ==
  /\ n \in Hot /\ about[n] = Consult
  /\ \E a \in Members : member[a].status = "Healthy"
  \* a second answer is refused when the snapshot is restored before it is stored
  /\ \A k \in Hot : about[k] # n
  /\ UNCHANGED request /\ Deliver(m, "Answer", "Primary", NoRequest) /\ About(m, n)

\* The assignee tells the team of request q that its own request waits for it; no
\* request waits for itself.
Depend(m, r, q) ==
  /\ r # q /\ Blocking(r) /\ q \in HotRequests
  /\ LET a == request[r].by.actor IN
       member[a].status = "Healthy" /\ member[a].gen = request[r].by.gen
  /\ team.status = "Active"
  /\ UNCHANGED request /\ Deliver(m, "Notice", "Team", r) /\ About(m, q)

-----------------------------------------------------------------------------
(* A command whose result was not recorded sends its message again, or         *)
(* acknowledges again what it has acknowledged: it loads the snapshot and then *)
(* looks for the message in the archive, before it commits (message_send) and  *)
(* in every attempt to commit (apply_envelope_with_archive,                    *)
(* acknowledge_with_archive).                                                  *)

Places_ArchiveFirst == <<Rows, Hot>>
Places == <<Hot, Rows>>

SendAgain(m) ==
  /\ client.pc = "idle"
  /\ client' = [pc |-> "loaded", msg |-> m, by |-> Acceptance, seen |-> m \in Places[1]]
  /\ UNCHANGED <<vars, historyVars>>

\* message_ack, by the same generation of the recipient as before.
AcknowledgeAgain(m, x) ==
  /\ client.pc = "idle"
  /\ client' = [pc |-> "loaded", msg |-> m, by |-> x, seen |-> m \in Places[1]]
  /\ UNCHANGED <<vars, historyVars>>

\* read_archived_delivery: the row, with its whole provenance.
Readable(m) == m \in Rows /\ Provenance(m)

\* classify_archived_retry, classify_archived_ack: the row answers for the hot
\* delivery that the load did not have.
Recognised_BySender(m, x) == x = Acceptance
Recognised(m, x) == x = Acceptance \/ x \in archive.rows[m].acks

LookUp ==
  /\ client.pc = "loaded"
  /\ LET m == client.msg
         found == IF m \in Places[2] /\ m \in Rows
                  THEN Readable(m) /\ Recognised(m, client.by) ELSE m \in Places[2]
     IN client' = [client EXCEPT !.pc = IF client.seen \/ found THEN "idle" ELSE "unknown"]
  /\ UNCHANGED <<vars, historyVars>>

-----------------------------------------------------------------------------
Repetitions ==
  \/ /\ Loads
     /\ \E m \in Accepted : SendAgain(m) \/ \E x \in mailbox[m].acks : AcknowledgeAgain(m, x)
  \/ LookUp

\* The mutations that an instance considers.
Mutations(Considered) ==
  /\ Loads
  /\ \/ Mutation(Next /\ Considered /\ UNCHANGED about)
     \/ \E m \in Messages : Mutation(AskAdvice(m) /\ Considered)
     \/ \E m, n \in Messages : Mutation(Advise(m, n) /\ Considered)
     \/ \E m \in Messages, r, q \in Requests : Mutation(Depend(m, r, q) /\ Considered)

ArchiveNext == Mutations(TRUE) \/ Repetitions

ArchiveSpec == ArchiveInit /\ [][ArchiveNext]_allVars
-----------------------------------------------------------------------------
(* What the doctor verifies of the rows (verify_archive_integrity). *)

Event(s) == IF s \in DOMAIN audit THEN audit[s] ELSE archive.audit[s].event

\* verify_protocol_audit_checkpoint
AuditVerifies ==
  /\ DOMAIN audit \cup DOMAIN archive.audit = 1 .. checkpoint.events
  /\ DOMAIN audit \cap DOMAIN archive.audit = {}
  /\ \A s \in DOMAIN archive.audit :
       archive.audit[s].before = IF s = 1 THEN Nothing ELSE Event(s - 1)

\* validate_archived_fence_event: whose fences the accepted messages carry, by the
\* place of their acceptance; of other teams they are not compared.
Fenced ==
  LET accepted == {s \in 1 .. checkpoint.events : /\ Event(s).by = Acceptance
                                                 /\ sent[Event(s).msg] # Nothing}
  IN [s \in accepted |-> sent[Event(s).msg]]

\* validate_primary_fence: leases never go back, and the present one is of the active
\* Primary alone.
LeasesAdvance(fences) ==
  /\ \A s \in DOMAIN fences : LET e == fences[s] IN
       /\ e.lease <= lease.epoch
       /\ e.actor = "Primary" /\ e.lease = lease.epoch => primary /\ e.gen = lease.gen
  /\ \A s, t \in DOMAIN fences : t < s => fences[t].lease <= fences[s].lease

\* validate_actor_and_team_fences: nor do the generations of an actor and a team.
GenerationsAdvance(fences) ==
  /\ \A s \in DOMAIN fences : LET e == fences[s] IN
       /\ e.gen <= (IF e.actor = "Primary" THEN lease.gen ELSE member[e.actor].gen)
       /\ e.team <= team.epoch
  /\ \A s, t \in DOMAIN fences : LET e == fences[s]  f == fences[t] IN t < s =>
       /\ f.actor = e.actor => f.gen <= e.gen
       /\ {e.actor, f.actor} \subseteq Members => f.team <= e.team

\* verify_archive_commit_entry: an entry names a row that exists.
EntriesVerify(i) == commits[i] \subseteq Rows \cup DOMAIN archive.audit \cup DOMAIN archive.requests

\* verify_archive_commit_chain: no commit is empty, none repeats an entry.
CommitsVerify ==
  /\ \A i \in DOMAIN commits : commits[i] # {} /\ EntriesVerify(i)
  /\ \A i, j \in DOMAIN commits : i # j => commits[i] \cap commits[j] = {}

\* verify_compact_archive_checkpoint: and every row is in a commit, and counted.
CheckpointVerifies ==
  /\ Cardinality(UNION {commits[i] : i \in DOMAIN commits})
       = Cardinality(Rows) + Cardinality(DOMAIN archive.audit) + Cardinality(DOMAIN archive.requests)
  /\ checkpoint.deliveries = Cardinality(Rows)
  /\ checkpoint.requests = Cardinality(DOMAIN archive.requests)
  /\ checkpoint.archived = Cardinality(DOMAIN archive.audit)
  /\ checkpoint.commits = Len(commits)

\* archived_audit_events_for_deliveries
EventsOf(ms) ==
  LET sequences == {s \in DOMAIN archive.audit : archive.audit[s].event.msg \in ms}
  IN [s \in sequences |-> archive.audit[s].event]

\* The acceptance of the message that asked for q: archived_request_reference finds it
\* in the hot history, or in the row of an archived request.
AskedAt(q) == {s \in DOMAIN audit :
  audit[s].by = Acceptance /\ mailbox[audit[s].msg].kind = "Ask" /\ mailbox[audit[s].msg].req = q}
Reference(q) == IF q \in HotRequests THEN AskedAt(q)
                ELSE {archive.requests[x] : x \in {q} \cap DOMAIN archive.requests}

\* CausalReplay::dependency, for a request that is not of the group: it was created
\* before the message that waits for it.
DependsOnEarlier(m, events) ==
  \E c \in Reference(about[m]) : \E s \in DOMAIN events :
     events[s] = [msg |-> m, by |-> Acceptance] /\ c < s

\* validate_archived_terminal_cycle: the group of a request is replayed on its own.
CycleVerifies(r, ms) ==
  LET events == EventsOf(ms) IN
  /\ request[r].st = "Terminal"
  /\ AuditLinks(events, [m \in ms |-> archive.rows[m]])
  /\ \A m \in ms : about[m] \in Requests => about[m] # r /\ DependsOnEarlier(m, events)

\* validate_archived_causal_history: every request with its messages.
RequestVerifies(r) ==
  LET ms == {m \in Rows : archive.rows[m].req = r} IN
  /\ \E m \in ms : archive.rows[m].kind = "Ask"
  /\ \A m \in ms :
       archive.rows[m].retired /\ RequiredRecipients(archive.rows[m]) /\ Provenance(m)
  /\ \A s \in DOMAIN EventsOf(ms) : s >= archive.requests[r]
  /\ CycleVerifies(r, ms)

\* The groups that have no request (verify_archived_requestless_groups).
GroupVerifies(m) ==
  /\ archive.rows[m].retired /\ RequiredRecipients(archive.rows[m]) /\ Provenance(m)
  /\ about[m] = Consult => \E n \in Rows : about[n] = m
  /\ about[m] \in Messages => about[m] \in Rows

GroupsVerify ==
  /\ \A r \in DOMAIN archive.requests : RequestVerifies(r)
  /\ \A m \in Rows : IF archive.rows[m].req = NoRequest THEN GroupVerifies(m)
                      ELSE archive.rows[m].req \in DOMAIN archive.requests

-----------------------------------------------------------------------------
\* Hot and archived history share no message, request or event, and what stays
\* hot can be replayed without what left, except for what waits for a request
\* (verify_hot_archive_disjointness, validate_audit, restore_history_checkpoint): no
\* mutation takes away the request of a message that is not over, or one half of a
\* consultation; every hot delivery has exactly its own events, and the checkpoint
\* counts what is archived.
HotHistoryIsWhole == HotHistory

\* Every archived group is complete and closed: a request with all its messages,
\* a consultation with its answer, a message with its whole provenance, committed
\* once; the events of hot and archived messages together are one chain without
\* a gap, wherever the event before an archived one was when it left; and along that
\* chain leases and generations never go back (archive_compact_history,
\* append_archive_commit and their verifiers, ArchivedFenceValidator).
ArchiveVerifies ==
  /\ CommitsVerify /\ CheckpointVerifies /\ GroupsVerify /\ AuditVerifies
  /\ LET fences == Fenced IN LeasesAdvance(fences) /\ GenerationsAdvance(fences)

\* A command that sends or acknowledges an accepted message again is recognised,
\* however its load and its look-up fall around the commit that archives the message
\* (message_send, message_ack, apply_envelope_with_archive, acknowledge_with_archive).
RetryIsRecognised == client.pc # "unknown"

\* validate_archived_terminal_cycle: "Cross-request dependency facts are
\* represented by independently verified compact references": hot history that
\* waits for an archived request still loads.
ArchivedDependencyLoads == HotDependencies

\* retire_obsolete_team_recipients, supersede_terminal_team_delivery_history: the
\* reasons kept in archived rows are verified against the team as it is now.
ArchivedWaiversAreTrue == \A m \in Rows : Truthful(archive.rows[m])
=============================================================================
