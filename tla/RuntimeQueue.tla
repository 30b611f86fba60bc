---------------------------- MODULE RuntimeQueue ----------------------------
(***************************************************************************)
(* The durable message queue of the runtime (agsv-runtime: store.rs):       *)
(* actors register, keep a lease alive and lose it, Primaries take turns    *)
(* under a fenced lease, messages are sent, claimed for a while,            *)
(* acknowledged, given back or taken over when the claim lapses.            *)
(*                                                                         *)
(* Every deadline of the code is compared with the present only, so a row   *)
(* keeps the time left until it; epochs are compared for equality only, so  *)
(* a client keeps whether its own is still the stored one.                  *)
(***************************************************************************)
EXTENDS Naturals, Sequences, FiniteSets

CONSTANTS
  Actor, NoActor,
  Role,           \* "primary" or "implementation"
  Team,           \* the team of each implementation actor
  Queue,          \* the messages in the order of created_at, message_id
  Sender, Target, \* target: an actor, a team, or "broadcast"
  LeaseTtl, ClaimTtl, Delay

Message == {Queue[i] : i \in DOMAIN Queue}

ASSUME QueueAssumption ==
  /\ NoActor \notin Actor
  /\ Role \in [Actor -> {"primary", "implementation"}]
  /\ Sender \in [Message -> Actor]
  /\ {LeaseTtl, ClaimTtl} \subseteq Nat \ {0}
  /\ Delay \in Nat

VARIABLES
  actors,    \* actors: state and time left of the lease
  primary,  \* primary_leases: owner, whether its generation is current, time left
  message,  \* messages: state, claimant, times left
  client    \* what each actor's clients hold; `old` is the generation before

queueVars == <<actors, primary, message, client>>

Generation == {"current", "old"}
View == [fence : BOOLEAN,                       \* its Primary fence is stored
         held : SUBSET (Message \X BOOLEAN)]    \* deliveries, TRUE if the last

NewView == [fence |-> FALSE, held |-> {}]
Nobody == [by |-> NoActor, generation |-> "current"]

QueueTypeOK ==
  /\ actors \in [Actor -> [state : {"none", "starting", "online", "offline"},
                          left : 0..LeaseTtl]]
  /\ primary \in [owner : Actor \cup {NoActor}, generation : Generation,
                  left : 0..LeaseTtl]
  /\ message \in [Message ->
       [state : {"unsent", "pending", "acknowledged"},
        claim : [by : Actor \cup {NoActor}, generation : Generation],
        left : 0..ClaimTtl, wait : 0..Delay]]
  /\ client \in [Actor -> [Generation -> View]]

QueueInit ==
  /\ actors = [a \in Actor |-> [state |-> "none", left |-> 0]]
  /\ primary = [owner |-> NoActor, generation |-> "current", left |-> 0]
  /\ message = [m \in Message |->
       [state |-> "unsent", claim |-> Nobody, left |-> 0, wait |-> 0]]
  /\ client = [a \in Actor |-> [g \in Generation |-> NewView]]

-----------------------------------------------------------------------------
(***************************************************************************)
(* Actors.                                                                 *)
(***************************************************************************)
Aged(claim, a) ==
  IF claim.by = a THEN [claim EXCEPT !.generation = "old"] ELSE claim

RegisterActor(a) ==
  /\ actors[a].state \in {"none", "offline"}
  /\ actors' = [actors EXCEPT ![a] = [state |-> "starting", left |-> LeaseTtl]]
  /\ client' = [client EXCEPT ![a] =
       [g \in Generation |-> IF g = "old" THEN @["current"] ELSE NewView]]
  /\ primary' = IF primary.owner = a
                THEN [primary EXCEPT !.generation = "old"] ELSE primary
  /\ message' = [m \in Message |->
       [message[m] EXCEPT !.claim = Aged(message[m].claim, a)]]

AttachSession(a) ==
  /\ actors[a].state # "none" /\ actors[a].left > 0
  /\ actors' = [actors EXCEPT ![a] = [state |-> "online", left |-> LeaseTtl]]
  /\ UNCHANGED <<primary, message, client>>

HeartbeatActor(a) ==
  /\ actors[a].state = "online" /\ actors[a].left > 0
  /\ actors' = [actors EXCEPT ![a].left = LeaseTtl]
  /\ UNCHANGED <<primary, message, client>>

MarkActorOffline(a) ==
  /\ actors[a].state # "none"
  /\ actors' = [actors EXCEPT ![a].state = "offline"]
  /\ UNCHANGED <<primary, message, client>>

Active(a, g) ==
  g = "current" /\ actors[a].state = "online" /\ actors[a].left > 0

(***************************************************************************)
(* The Primary lease: the same generation renews it under the same fence,   *)
(* any other takes it only after it has lapsed, under a new one.            *)
(***************************************************************************)
AcquirePrimary(a) ==
  /\ Role[a] = "primary"
  /\ actors[a].state # "none" /\ actors[a].left > 0
  /\ LET same == /\ primary.owner = a /\ primary.generation = "current"
                 /\ primary.left > 0
     IN  /\ same \/ primary.left = 0
         /\ client' = [b \in Actor |-> [g \in Generation |->
              [client[b][g] EXCEPT !.fence =
                 IF b = a /\ g = "current" THEN TRUE ELSE same /\ @]]]
  /\ primary' = [owner |-> a, generation |-> "current", left |-> LeaseTtl]
  /\ UNCHANGED <<actors, message>>

(***************************************************************************)
(* Messages.                                                               *)
(***************************************************************************)
FenceHolds(a, g) ==
  Role[a] = "primary" =>
    /\ client[a][g].fence /\ primary.left > 0
    /\ primary.owner = a /\ primary.generation = g

MayTarget(a, target) ==
  \/ Role[a] = "primary"
  \/ target \in Actor /\ (Role[target] = "primary" \/ Team[target] = Team[a])
  \/ target = Team[a]

Send(m, g) ==
  /\ message[m].state = "unsent"
  /\ Active(Sender[m], g) /\ FenceHolds(Sender[m], g)
  /\ MayTarget(Sender[m], Target[m])
  /\ Target[m] \in Actor => actors[Target[m]].state # "none"
  /\ \E delay \in 0..Delay :
       message' = [message EXCEPT ![m].state = "pending", ![m].wait = delay]
  /\ UNCHANGED <<actors, primary, client>>

Recipient_NoTeam(a, m) == Target[m] \in {a, "broadcast"}
Recipient(a, m) == Target[m] \in {a, Team[a], "broadcast"}
Lapsed(m) == message[m].claim.by = NoActor \/ message[m].left = 0
Claimable(a, m) ==
  /\ message[m].state = "pending" /\ message[m].wait = 0
  /\ Lapsed(m) /\ Recipient(a, m)

\* The delivery epoch of the row grows: every delivery before is not the last.
Delivered(a, m) ==
  [b \in Actor |-> [g \in Generation |->
     [client[b][g] EXCEPT !.held =
        {<<d[1], d[1] # m /\ d[2]>> : d \in @}
          \cup (IF b = a /\ g = "current" THEN {<<m, TRUE>>} ELSE {})]]]

Claim(a) ==
  /\ Active(a, "current")
  /\ \E i \in DOMAIN Queue :
       /\ Claimable(a, Queue[i])
       /\ \A j \in 1..i-1 : ~Claimable(a, Queue[j])
       /\ client' = Delivered(a, Queue[i])
       /\ message' = [message EXCEPT
            ![Queue[i]].claim = [by |-> a, generation |-> "current"],
            ![Queue[i]].left = ClaimTtl]
  /\ UNCHANGED <<actors, primary>>

HoldsClaim_AnyDelivery(a, g, m, last) ==
  /\ message[m].claim = [by |-> a, generation |-> g]
  /\ message[m].state = "pending" /\ message[m].left > 0
HoldsClaim(a, g, m, last) ==
  /\ last /\ message[m].claim = [by |-> a, generation |-> g]
  /\ message[m].state = "pending" /\ message[m].left > 0

Drop(a, g, m, last) ==
  client' = [client EXCEPT ![a][g].held = @ \ {<<m, last>>}]

\* Acknowledging once more in the same delivery answers the same.
Acknowledge(a, m) ==
  /\ \E g \in Generation, last \in BOOLEAN :
       /\ <<m, last>> \in client[a][g].held
       /\ Active(a, g) /\ HoldsClaim(a, g, m, last)
       /\ Drop(a, g, m, last)
  /\ message' = [message EXCEPT ![m].state = "acknowledged"]
  /\ UNCHANGED <<actors, primary>>

RetryMessage(a, m) ==
  /\ \E g \in Generation, last \in BOOLEAN :
       /\ <<m, last>> \in client[a][g].held
       /\ Active(a, g) /\ HoldsClaim(a, g, m, last)
       /\ Drop(a, g, m, last)
  /\ \E delay \in 0..Delay :
       message' = [message EXCEPT ![m].claim = Nobody, ![m].left = 0,
                                  ![m].wait = delay]
  /\ UNCHANGED <<actors, primary>>

Releasable(m) ==
  /\ message[m].state = "pending"
  /\ message[m].claim.by # NoActor /\ message[m].left = 0

ReconcileExpired ==
  /\ actors' = [a \in Actor |->
       IF actors[a].state \in {"starting", "online"} /\ actors[a].left = 0
       THEN [actors[a] EXCEPT !.state = "offline"] ELSE actors[a]]
  /\ message' = [m \in Message |->
       IF Releasable(m)
       THEN [message[m] EXCEPT !.claim = Nobody, !.left = 0, !.wait = 0] ELSE message[m]]
  /\ UNCHANGED <<primary, client>>

(***************************************************************************)
(* Time, and a client that dies with what it held.                         *)
(***************************************************************************)
Less(n) == IF n = 0 THEN 0 ELSE n - 1
QueueTick ==
  /\ actors' = [a \in Actor |-> [actors[a] EXCEPT !.left = Less(@)]]
  /\ primary' = [primary EXCEPT !.left = Less(@)]
  /\ message' = [m \in Message |->
       [message[m] EXCEPT !.left = Less(@), !.wait = Less(@)]]
  /\ UNCHANGED client

Crash(a) ==
  /\ client[a]["current"].held # {}
  /\ client' = [client EXCEPT ![a]["current"].held = {}]
  /\ UNCHANGED <<actors, primary, message>>

QueueNext ==
  \/ \E a \in Actor :
       \/ RegisterActor(a) \/ AttachSession(a) \/ HeartbeatActor(a)
       \/ MarkActorOffline(a) \/ AcquirePrimary(a) \/ Claim(a) \/ Crash(a)
       \/ \E m \in Message : Acknowledge(a, m) \/ RetryMessage(a, m)
  \/ \E m \in Message, g \in Generation : Send(m, g)
  \/ ReconcileExpired \/ QueueTick

(***************************************************************************)
(* The clock runs, the service reconciles, and an offline actor is launched *)
(* again.  One that can again and again be attached or offered a delivery   *)
(* takes it up, and one that holds a delivery over and over acknowledges in *)
(* time once.                                                               *)
(***************************************************************************)
QueueFairness ==
  /\ WF_queueVars(QueueTick) /\ WF_queueVars(ReconcileExpired)
  /\ \A a \in Actor :
       /\ WF_queueVars(RegisterActor(a))
       /\ SF_queueVars(AttachSession(a)) /\ SF_queueVars(Claim(a))
       /\ \A m \in Message : SF_queueVars(Acknowledge(a, m))

QueueSpec == QueueInit /\ [][QueueNext]_queueVars
QueueFairSpec == QueueSpec /\ QueueFairness

-----------------------------------------------------------------------------
(***************************************************************************)
(* Until it lapses a claim is ended by its own holder's answer alone: not   *)
(* by another recipient, by a reconciliation, or by an answer to an earlier *)
(* delivery of the same message; and an acknowledgement that succeeds       *)
(* answers the last delivery: nobody was given the message since            *)
(* (claim_message, retry_message, reconcile_expired, delivery_epoch).  And a *)
(* Primary's message enters the queue only while no later Primary was       *)
(* granted the lease, though its actor stays online after losing it.        *)
(***************************************************************************)
DeliveriesAreExclusive ==
  [][\A m \in Message :
       LET claim == message[m].claim
           Answered(a, g) == <<m, TRUE>> \in client[a][g].held
                             /\ <<m, TRUE>> \notin client'[a][g].held
       IN  /\ (/\ message[m].state = "pending" /\ message[m].left > 0
               /\ \/ message'[m].claim.by # claim.by
                  \/ message'[m].left > message[m].left)
              => message'[m].claim = Nobody /\ \E g \in Generation : Answered(claim.by, g)
           /\ (message[m].state = "pending" /\ message'[m].state = "acknowledged")
              => \E a \in Actor, g \in Generation : Answered(a, g)
           /\ (/\ message[m].state = "unsent" /\ message'[m].state = "pending"
               /\ Role[Sender[m]] = "primary")
              => primary.owner = Sender[m] /\ primary.left > 0]_queueVars

(***************************************************************************)
(* Every message that was sent is acknowledged in the end, whatever clients *)
(* crash, give it back, or are replaced while they hold it.                 *)
(***************************************************************************)
SentIsAcknowledged ==
  \A m \in Message :
    message[m].state = "pending" ~> message[m].state = "acknowledged"
=============================================================================
