----------------------------- MODULE MCProgress -----------------------------
(***************************************************************************)
(* What must happen in the end in two message systems that share no state:  *)
(* the queue of the durable runtime and the mailbox of the aggregate.  A    *)
(* behaviour exercises one of them and `part` says which.  The fairness is  *)
(* that of each module, of the steps in its part.                           *)
(***************************************************************************)
EXTENDS Mailbox, TLC

CONSTANT NoActor

VARIABLES part, actors, lease, message, client

queueVars    == <<actors, lease, message, client>>
progressVars == <<part, queueVars, vars>>

\* Two executors of one team: x reports to the team, and the other reads it.
Q == INSTANCE RuntimeQueue WITH
       Actor <- {"x", "y"}, primary <- lease,
       Role <- [a \in {"x", "y"} |-> "implementation"],
       Team <- [a \in {"x", "y"} |-> "core"],
       Queue <- <<"report">>, Sender <- "report" :> "x", Target <- "report" :> "core",
       LeaseTtl <- 2, ClaimTtl <- 1, Delay <- 1

\* One member, one request, a message about it and the one that ends it.
EndsWith == "r" :> "end"

Queue(A) == part = "queue" /\ A /\ UNCHANGED <<part, vars>>
Mail(A)  == part = "mail" /\ A /\ UNCHANGED <<part, queueVars>>

ProgressInit == part \in {"queue", "mail"} /\ Q!QueueInit /\ Init
ProgressNext ==
  \/ part = "queue" /\ Q!QueueNext /\ UNCHANGED <<part, vars>>
  \/ part = "mail" /\ Next /\ UNCHANGED <<part, queueVars>>

QueueFairness ==
  /\ WF_progressVars(Queue(Q!QueueTick)) /\ WF_progressVars(Queue(Q!ReconcileExpired))
  /\ \A a \in {"x", "y"} :
       /\ WF_progressVars(Queue(Q!RegisterActor(a)))
       /\ SF_progressVars(Queue(Q!AttachSession(a))) /\ SF_progressVars(Queue(Q!Claim(a)))
       /\ SF_progressVars(Queue(Q!Acknowledge(a, "report")))

MailFairness ==
  /\ SF_progressVars(Mail(\E m \in {"m", "end"} :
       AcknowledgePrimary(m) \/ Acknowledge(m, "a")))
  /\ WF_progressVars(Mail(Heartbeat("a"))) /\ WF_progressVars(Mail(Replace("a")))
  /\ WF_progressVars(Mail(StopForClose("a")))
  /\ WF_progressVars(Mail(ActivatePrimary)) /\ WF_progressVars(Mail(CloseTeam))
  /\ SF_progressVars(Mail(\E t \in Targets : Outcome("end", "r", t, "Terminal")))

ProgressSpec ==
  ProgressInit /\ [][ProgressNext]_progressVars /\ QueueFairness /\ MailFairness

\* Every message sent through the durable runtime is acknowledged in the end
\* (claim_message, retry_message, reconcile_expired): a message to a team is not
\* lost with a claimant that dies, gives it back or is registered again.
SentIsAcknowledged == Q!SentIsAcknowledged
=============================================================================
