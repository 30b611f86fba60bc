--------------------------- MODULE RuntimeLaunch ---------------------------
(***************************************************************************)
(* The durable runtime service launching one actor under one launch key     *)
(* (agsv-runtime: service.rs, store.rs) through the Herdr backend           *)
(* (agsv-session: herdr.rs).  Services are fenced by the daemon lease; each *)
(* call of the store is a transaction, each call of Herdr an external       *)
(* command, and another service, the clock or the user may act in between.  *)
(*                                                                         *)
(* A launch reads the clock once: every transaction of it, the one after    *)
(* the external launch too, compares leases with that reading.              *)
(***************************************************************************)
EXTENDS Naturals, FiniteSets

CONSTANTS
  Daemon,       \* service instances
  Thread,       \* callers of a service, which it does not serialise
  Service,      \* the service each thread calls
  Pane,         \* pane ids Herdr may return, one per created pane
  None,
  Ttl, MaxNow, MaxEpoch, MaxGone

ASSUME LaunchAssumption ==
  /\ None \notin Daemon \cup Pane
  /\ Service \in [Thread -> Daemon]
  /\ {Ttl, MaxNow, MaxEpoch} \subseteq Nat \ {0}
  /\ MaxGone \in Nat

VARIABLES
  now,
  lease,      \* the row of daemon_leases
  held,       \* the fencing epoch each service holds in memory, 0 without one
  actor,      \* the actor's row
  intent,     \* the row of launch_intents for the actor's launch key
  call,       \* the launch or reconciliation each thread is in
  panes,      \* panes Herdr has created and nobody closed
  agent,      \* the pane the agent of this session name runs in
  gone        \* times the user closed the agent's pane

durable == <<lease, actor, intent>>
backend == <<panes, agent, gone>>
launchVars == <<now, held, call, durable, backend>>

-----------------------------------------------------------------------------
Stage == {"register", "inspect", "create", "checkpoint", "start", "record",
          "attach", "observe", "heartbeat", "offline"}
Call == [stage : Stage, now : 0..MaxNow, fence : 1..MaxEpoch,
         epoch : 0..MaxEpoch, token : Pane \cup {None},
         recovered : BOOLEAN, pane : Pane \cup {None}]

ASSUME CallAssumption == None \notin Call

LaunchTypeOK ==
  /\ now \in 0..MaxNow
  /\ lease \in [owner : Daemon \cup {None}, epoch : 0..MaxEpoch,
                until : 0..MaxNow + Ttl]
  /\ held \in [Daemon -> 0..MaxEpoch]
  /\ actor \in [epoch : 0..MaxEpoch, until : 0..MaxNow + Ttl,
                state : {"none", "starting", "online", "offline"},
                session : Pane \cup {None}]
  /\ intent \in [state : {"none", "prepared", "checkpointed", "launched",
                          "attached"},
                 token : Pane \cup {None}]
  /\ call \in [Thread -> Call \cup {None}]
  /\ panes \subseteq Pane
  /\ agent \in Pane \cup {None}
  /\ actor.session # None => actor.state \in {"online", "offline"}
  /\ gone \in 0..MaxGone

LaunchInit ==
  /\ now = 0
  /\ lease = [owner |-> None, epoch |-> 0, until |-> 0]
  /\ held = [d \in Daemon |-> 0]
  /\ actor = [epoch |-> 0, until |-> 0, state |-> "none", session |-> None]
  /\ intent = [state |-> "none", token |-> None]
  /\ call = [t \in Thread |-> None]
  /\ panes = {}
  /\ agent = None
  /\ gone = 0

-----------------------------------------------------------------------------
Idle(t) == call[t] = None
At(t, stage) == call[t] # None /\ call[t].stage = stage
GoTo(t, stage) == call' = [call EXCEPT ![t].stage = stage]
End(t) == call' = [call EXCEPT ![t] = None]
Present == agent # None

\* The fence of a launch: the row still names this epoch, at the launch's time.
Fenced(d, epoch, at) ==
  lease.owner = d /\ lease.epoch = epoch /\ lease.until > at
CallFenced(t) == Fenced(Service[t], call[t].fence, call[t].now)
Refused(t) == End(t) /\ UNCHANGED <<now, held, durable, backend>>

(***************************************************************************)
(* The daemon lease.                                                       *)
(***************************************************************************)
NextFence(d) ==
  IF lease.owner = d /\ lease.until > now THEN lease.epoch ELSE lease.epoch + 1

Start(d) ==
  /\ lease.owner = d \/ lease.until <= now
  /\ NextFence(d) <= MaxEpoch
  /\ lease' = [owner |-> d, epoch |-> NextFence(d), until |-> now + Ttl]
  /\ held' = [held EXCEPT ![d] = NextFence(d)]
  /\ UNCHANGED <<now, actor, intent, call, backend>>

Heartbeat(d) ==
  /\ held[d] # 0
  /\ Fenced(d, held[d], now)
  /\ lease' = [lease EXCEPT !.until = now + Ttl]
  /\ UNCHANGED <<now, held, actor, intent, call, backend>>

(***************************************************************************)
(* launch_actor.                                                           *)
(***************************************************************************)
Healthy ==
  /\ actor.state = "online" /\ actor.until > now
  /\ actor.session # None /\ Present

Launch(t) ==
  /\ Idle(t) /\ held[Service[t]] # 0 /\ actor.epoch < MaxEpoch
  /\ Fenced(Service[t], held[Service[t]], now)
  /\ intent' = IF intent.state = "none"
               THEN [intent EXCEPT !.state = "prepared"] ELSE intent
  /\ ~Healthy
  /\ call' = [call EXCEPT ![t] =
       [stage |-> "register", now |-> now, fence |-> held[Service[t]], epoch |-> 0,
        token |-> intent.token, pane |-> None,
        recovered |-> intent.state \in {"launched", "attached"}]]
  /\ UNCHANGED <<now, held, lease, actor, backend>>

Registered(t) ==
  [epoch |-> actor.epoch + 1, until |-> call[t].now + Ttl,
   state |-> "starting", session |-> None]

Register(t) ==
  /\ At(t, "register")
  /\ CallFenced(t)
  /\ actor.epoch < MaxEpoch
  /\ actor' = Registered(t)
  /\ call' = [call EXCEPT ![t].stage = "inspect",
                          ![t].epoch = actor.epoch + 1]
  /\ UNCHANGED <<now, held, lease, intent, backend>>

(***************************************************************************)
(* Herdr.  A present agent of this name is recovered, in the recorded pane  *)
(* only; otherwise the agent is started in the recorded pane, or in a new   *)
(* one that is checkpointed first.                                         *)
(***************************************************************************)
Inspect(t) ==
  /\ At(t, "inspect")
  /\ IF Present
     THEN IF call[t].token \in {None, agent}
          THEN call' = [call EXCEPT ![t].stage = "record", ![t].pane = agent]
          ELSE End(t)
     ELSE call' = [call EXCEPT
                     ![t].stage = IF call[t].token = None THEN "create"
                                  ELSE "start",
                     ![t].pane = call[t].token]
  /\ UNCHANGED <<now, held, durable, backend>>

CreatePane(t) ==
  /\ At(t, "create")
  /\ \E p \in Pane \ panes :
       /\ \A u \in Thread : call[u] # None => call[u].pane # p
       /\ intent.token # p
       /\ panes' = panes \cup {p}
       /\ call' = [call EXCEPT ![t].stage = "checkpoint", ![t].pane = p]
  /\ UNCHANGED <<now, held, durable, agent, gone>>

CheckpointHolds_Any(t) == TRUE
CheckpointHolds(t) ==
  intent.state \in {"checkpointed", "launched", "attached"}
    => intent.token = call[t].pane

Checkpoint(t) ==
  /\ At(t, "checkpoint")
  /\ CallFenced(t) /\ CheckpointHolds(t)
  /\ intent' = IF intent.state = "prepared"
                    \/ intent.token # call[t].pane
               THEN [state |-> "checkpointed", token |-> call[t].pane]
               ELSE intent
  /\ GoTo(t, "start")
  /\ UNCHANGED <<now, held, lease, actor, backend>>

\* The name is taken, or the pane was closed, and Herdr refuses.
StartAgent(t) ==
  /\ At(t, "start")
  /\ IF ~Present /\ call[t].pane \in panes
     THEN /\ agent' = call[t].pane
          /\ GoTo(t, "record")
     ELSE /\ End(t)
          /\ UNCHANGED agent
  /\ UNCHANGED <<now, held, durable, panes, gone>>

\* The start times out, and the agent is found in this launch's pane after all.
StartTimesOut(t) ==
  /\ At(t, "start")
  /\ Present /\ agent = call[t].pane
  /\ GoTo(t, "record")
  /\ UNCHANGED <<now, held, durable, backend>>

Recordable(t) ==
  intent.state \in {"launched", "attached"} => intent.token = call[t].pane
Record(t) ==
  /\ At(t, "record")
  /\ CallFenced(t) /\ Recordable(t)
  /\ intent' = IF intent.state \in {"launched", "attached"} THEN intent
               ELSE [state |-> "launched", token |-> call[t].pane]
  /\ GoTo(t, "attach")
  /\ UNCHANGED <<now, held, lease, actor, backend>>

Attachable(t) == actor.epoch = call[t].epoch /\ actor.until > call[t].now
Attach(t) ==
  /\ At(t, "attach")
  /\ CallFenced(t) /\ Attachable(t)
  /\ actor' = [actor EXCEPT !.state = "online", !.session = call[t].pane,
                            !.until = call[t].now + Ttl]
  /\ intent' = [intent EXCEPT !.state = "attached"]
  /\ End(t)
  /\ UNCHANGED <<now, held, lease, backend>>

\* A transaction of the launch that fails ends it.
Refuse(t) ==
  /\ \/ At(t, "register") /\ ~CallFenced(t)
     \/ At(t, "checkpoint") /\ ~(CallFenced(t) /\ CheckpointHolds(t))
     \/ At(t, "record") /\ ~(CallFenced(t) /\ Recordable(t))
     \/ At(t, "attach") /\ ~(CallFenced(t) /\ Attachable(t))
  /\ Refused(t)

(***************************************************************************)
(* reconcile: expire, list the actors, ask the backend, then write.        *)
(***************************************************************************)
Expired ==
  IF actor.state \in {"starting", "online"} /\ actor.until <= now
  THEN [actor EXCEPT !.state = "offline"] ELSE actor

Reconcile(t) ==
  /\ Idle(t) /\ held[Service[t]] # 0
  /\ Fenced(Service[t], held[Service[t]], now)
  /\ actor' = Expired
  /\ call' = IF actor'.state # "online" THEN call
             ELSE [call EXCEPT ![t] =
               [stage |-> "observe", now |-> now, fence |-> held[Service[t]],
                epoch |-> actor.epoch, token |-> None, recovered |-> FALSE,
                pane |-> actor.session]]
  /\ UNCHANGED <<now, held, lease, intent, backend>>

Observe(t) ==
  /\ At(t, "observe")
  /\ GoTo(t, IF Present THEN "heartbeat" ELSE "offline")
  /\ UNCHANGED <<now, held, durable, backend>>

ActorHeartbeat(t) ==
  /\ At(t, "heartbeat")
  /\ actor' = IF /\ actor.epoch = call[t].epoch
                 /\ actor.state = "online" /\ actor.until > call[t].now
              THEN [actor EXCEPT !.until = call[t].now + Ttl] ELSE actor
  /\ End(t)
  /\ UNCHANGED <<now, held, lease, intent, backend>>

SameGeneration_Any(t) == TRUE
SameGeneration(t) == actor.epoch = call[t].epoch
MarkOffline(t) ==
  /\ At(t, "offline")
  /\ actor' = IF SameGeneration(t)
              THEN [actor EXCEPT !.state = "offline"] ELSE actor
  /\ End(t)
  /\ UNCHANGED <<now, held, lease, intent, backend>>

(***************************************************************************)
(* The environment: time, a service that dies, a pane that is closed.      *)
(***************************************************************************)
LaunchTick ==
  /\ now < MaxNow
  /\ now' = now + 1
  /\ UNCHANGED <<held, call, durable, backend>>

Die(d) ==
  /\ held[d] # 0
  /\ held' = [held EXCEPT ![d] = 0]
  /\ call' = [t \in Thread |-> IF Service[t] = d THEN None ELSE call[t]]
  /\ UNCHANGED <<now, durable, backend>>

ClosePane ==
  /\ Present /\ gone < MaxGone
  /\ panes' = panes \ {agent}
  /\ agent' = None
  /\ gone' = gone + 1
  /\ UNCHANGED <<now, held, call, durable>>

\* The agent's process ends and its pane stays: it can be started there again.
AgentExits ==
  /\ Present /\ gone < MaxGone
  /\ agent' = None
  /\ gone' = gone + 1
  /\ UNCHANGED <<now, held, call, durable, panes>>

LaunchNext ==
  \/ LaunchTick \/ ClosePane \/ AgentExits
  \/ \E d \in Daemon : Start(d) \/ Heartbeat(d) \/ Die(d)
  \/ \E t \in Thread :
       \/ Launch(t) \/ Register(t) \/ Inspect(t) \/ CreatePane(t)
       \/ Checkpoint(t) \/ StartAgent(t) \/ StartTimesOut(t) \/ Record(t)
       \/ Attach(t) \/ Refuse(t)
       \/ Reconcile(t) \/ Observe(t) \/ ActorHeartbeat(t) \/ MarkOffline(t)

LaunchSpec == LaunchInit /\ [][LaunchNext]_launchVars

-----------------------------------------------------------------------------
(***************************************************************************)
(* Two services never hold the same fencing epoch, however often the lease  *)
(* expires, is taken over and is renewed (acquire_daemon_lease), and the     *)
(* session an online actor is bound to is the one its launch recorded,      *)
(* whatever launches and reconciliations of other services overlapped.      *)
(***************************************************************************)
LaunchIsFenced ==
  /\ \A d, e \in Daemon : held[d] # 0 /\ held[d] = held[e] => d = e
  /\ actor.state = "online" =>
       /\ intent.state = "attached"
       /\ actor.session = intent.token

(***************************************************************************)
(* A reconciliation that saw a session missing takes only that generation   *)
(* offline, never the one launched after it looked.                        *)
(***************************************************************************)
LaterGenerationStaysOnline ==
  [][\A t \in Thread :
       At(t, "offline") /\ call'[t] = None /\ actor.epoch > call[t].epoch
         => actor'.state = actor.state]_launchVars
=============================================================================
