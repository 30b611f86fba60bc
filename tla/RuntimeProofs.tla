---------------------------- MODULE RuntimeProofs ----------------------------
(***************************************************************************)
(* Theorems about the durable runtime: launches and reconciliations of any   *)
(* services and threads (RuntimeLaunch), the message queue of any actors,    *)
(* messages and deadlines (RuntimeQueue), and the presentation of any actors *)
(* in any panes to a group (Presentation).                                  *)
(***************************************************************************)
EXTENDS RuntimeLaunch, RuntimeQueue, Presentation, FiniteSetTheorems,
        WellFoundedInduction, TLAPS

-----------------------------------------------------------------------------
(* The inductive invariant of a launch.                                    *)

\* The row knows every epoch a service holds, and the last one by its owner.
EpochsAreGranted ==
  \A d \in Daemon : held[d] # 0 =>
    held[d] <= lease.epoch /\ (held[d] = lease.epoch => lease.owner = d)

\* No epoch is held twice.
HoldersDiffer == \A d, e \in Daemon : held[d] # 0 /\ held[d] = held[e] => d = e

\* The session of an online actor is the one its launch recorded.
OnlineIsRecorded ==
  actor.state = "online" => intent.state = "attached" /\ actor.session = intent.token

\* A launch that has recorded its session finds the record as it left it: a recorded
\* session is never replaced (prepare_launch, record_launch).
RecordsAreKept ==
  \A t \in Thread : At(t, "attach") =>
    intent.state \in {"launched", "attached"} /\ intent.token = call[t].pane

LaunchInv ==
  LaunchTypeOK /\ EpochsAreGranted /\ HoldersDiffer /\ OnlineIsRecorded /\ RecordsAreKept

-----------------------------------------------------------------------------
(* Types.                                                                  *)

LEMMA CallTyped ==
  ASSUME LaunchTypeOK, NEW t \in Thread, call[t] # None
  PROVE  call[t] \in Call
  BY DEF LaunchTypeOK

\* A launch that goes on keeps a well-typed record.
LEMMA GoesOnTyped ==
  ASSUME LaunchTypeOK, NEW t \in Thread, call[t] # None, NEW stage \in Stage,
         \/ GoTo(t, stage)
         \/ \E p \in Pane \cup {None} :
              call' = [call EXCEPT ![t].stage = stage, ![t].pane = p]
         \/ \E e \in 0..MaxEpoch :
              call' = [call EXCEPT ![t].stage = stage, ![t].epoch = e]
  PROVE  call' \in [Thread -> Call \cup {None}]
  <1>1. call[t] \in Call
    BY CallTyped
  <1>2. /\ [call[t] EXCEPT !.stage = stage] \in Call
        /\ \A p \in Pane \cup {None} : [call[t] EXCEPT !.stage = stage, !.pane = p] \in Call
        /\ \A e \in 0..MaxEpoch : [call[t] EXCEPT !.stage = stage, !.epoch = e] \in Call
    BY <1>1 DEF Call
  <1>3. CASE GoTo(t, stage)
    BY <1>2, <1>3 DEF LaunchTypeOK, GoTo
  <1>4. ASSUME NEW p \in Pane \cup {None},
               call' = [call EXCEPT ![t].stage = stage, ![t].pane = p]
        PROVE  call' \in [Thread -> Call \cup {None}]
    BY <1>2, <1>4 DEF LaunchTypeOK
  <1>5. ASSUME NEW e \in 0..MaxEpoch,
               call' = [call EXCEPT ![t].stage = stage, ![t].epoch = e]
        PROVE  call' \in [Thread -> Call \cup {None}]
    BY <1>2, <1>5 DEF LaunchTypeOK
  <1>6. QED BY <1>3, <1>4, <1>5

LEMMA EndTyped ==
  ASSUME LaunchTypeOK, NEW t \in Thread, End(t)
  PROVE  call' \in [Thread -> Call \cup {None}]
  BY DEF LaunchTypeOK, End

LEMMA LaunchInitTyped == LaunchInit => LaunchTypeOK
  BY LaunchAssumption DEF LaunchInit, LaunchTypeOK

LEMMA StartTyped ==
  ASSUME LaunchTypeOK, NEW d \in Daemon, Start(d)
  PROVE  LaunchTypeOK'
  <1>1. NextFence(d) \in 0..MaxEpoch /\ now + Ttl \in 0..MaxNow + Ttl
    BY LaunchAssumption DEF LaunchTypeOK, Start, NextFence
  <1>2. QED BY <1>1 DEF LaunchTypeOK, Start, backend

LEMMA HeartbeatTyped ==
  ASSUME LaunchTypeOK, NEW d \in Daemon, Heartbeat(d)
  PROVE  LaunchTypeOK'
  <1>1. now + Ttl \in 0..MaxNow + Ttl
    BY LaunchAssumption DEF LaunchTypeOK
  <1>2. QED BY <1>1 DEF LaunchTypeOK, Heartbeat, backend

LEMMA LaunchTyped ==
  ASSUME LaunchTypeOK, NEW t \in Thread, Launch(t)
  PROVE  LaunchTypeOK'
  <1> DEFINE c == [stage |-> "register", now |-> now, fence |-> held[Service[t]], epoch |-> 0,
                   token |-> intent.token, pane |-> None,
                   recovered |-> intent.state \in {"launched", "attached"}]
  <1>1. c \in Call
    <2>1. ASSUME NEW b \in BOOLEAN
          PROVE  [stage |-> "register", now |-> now, fence |-> held[Service[t]], epoch |-> 0,
                  token |-> intent.token, pane |-> None, recovered |-> b] \in Call
      <3>1. held[Service[t]] \in 1..MaxEpoch /\ 0 \in 0..MaxEpoch /\ now \in 0..MaxNow
        <4>1. MaxEpoch \in Nat /\ Service[t] \in Daemon
          BY LaunchAssumption
        <4>2. held[Service[t]] \in 0..MaxEpoch /\ held[Service[t]] # 0
          BY <4>1 DEF LaunchTypeOK, Launch
        <4>3. QED BY <4>1, <4>2 DEF LaunchTypeOK
      <3>2. intent.token \in Pane \cup {None} /\ None \in Pane \cup {None}
        BY DEF LaunchTypeOK
      <3>3. QED BY <3>1, <3>2 DEF Call, Stage
    <2>2. (intent.state \in {"launched", "attached"}) \in BOOLEAN
      OBVIOUS
    <2>3. QED BY <2>1, <2>2, Zenon
  <1>2. call' \in [Thread -> Call \cup {None}]
    BY <1>1 DEF LaunchTypeOK, Launch
  <1>3. intent' \in [state : {"none", "prepared", "checkpointed", "launched", "attached"},
                     token : Pane \cup {None}]
    BY DEF LaunchTypeOK, Launch
  <1>4. QED BY <1>2, <1>3 DEF LaunchTypeOK, Launch, backend

LEMMA RegisterTyped ==
  ASSUME LaunchTypeOK, NEW t \in Thread, Register(t)
  PROVE  LaunchTypeOK'
  <1>1. call[t] \in Call
    BY CallTyped DEF Register, At
  <1>2. actor.epoch + 1 \in 0..MaxEpoch /\ call[t].now + Ttl \in 0..MaxNow + Ttl
    BY <1>1, LaunchAssumption DEF LaunchTypeOK, Register, Call
  <1>3. call' \in [Thread -> Call \cup {None}]
    BY <1>2, GoesOnTyped DEF Register, At, Stage
  <1>4. actor' \in [epoch : 0..MaxEpoch, until : 0..MaxNow + Ttl,
                    state : {"none", "starting", "online", "offline"},
                    session : Pane \cup {None}] /\ actor'.session = None
    BY <1>2 DEF Register, Registered
  <1>5. QED BY <1>3, <1>4 DEF LaunchTypeOK, Register, backend

LEMMA BackendTyped ==
  ASSUME LaunchTypeOK, NEW t \in Thread,
         Inspect(t) \/ CreatePane(t) \/ StartAgent(t) \/ StartTimesOut(t)
  PROVE  LaunchTypeOK'
  <1>1. call[t] # None /\ call[t] \in Call
    BY CallTyped DEF Inspect, CreatePane, StartAgent, StartTimesOut, At
  <1>2. call[t].token \in Pane \cup {None} /\ call[t].pane \in Pane \cup {None}
    BY <1>1 DEF Call
  <1>3. call' \in [Thread -> Call \cup {None}]
    <2>1. CASE Inspect(t)
      <3>1. agent \in Pane \cup {None}
        BY DEF LaunchTypeOK
      <3>2. \/ End(t)
            \/ call' = [call EXCEPT ![t].stage = "record", ![t].pane = agent]
            \/ call' = [call EXCEPT ![t].stage = "create", ![t].pane = call[t].token]
            \/ call' = [call EXCEPT ![t].stage = "start", ![t].pane = call[t].token]
        BY <2>1 DEF Inspect
      <3>3. {"record", "create", "start"} \subseteq Stage
        BY DEF Stage
      <3>4. QED BY <1>1, <1>2, <3>1, <3>2, <3>3, GoesOnTyped, EndTyped
    <2>2. CASE CreatePane(t)
      <3>1. PICK p \in Pane : call' = [call EXCEPT ![t].stage = "checkpoint", ![t].pane = p]
        BY <2>2 DEF CreatePane
      <3>2. QED BY <1>1, <3>1, GoesOnTyped DEF Stage
    <2>3. CASE StartAgent(t)
      BY <1>1, <2>3, GoesOnTyped, EndTyped DEF StartAgent, Stage
    <2>4. CASE StartTimesOut(t)
      BY <1>1, <2>4, GoesOnTyped DEF StartTimesOut, Stage
    <2>5. QED BY <2>1, <2>2, <2>3, <2>4
  <1>4. panes' \subseteq Pane /\ agent' \in Pane \cup {None}
    BY <1>1, <1>2
    DEF Inspect, CreatePane, StartAgent, StartTimesOut, LaunchTypeOK, backend
  <1>5. UNCHANGED <<now, held, lease, actor, intent, gone>>
    BY DEF Inspect, CreatePane, StartAgent, StartTimesOut, durable, backend
  <1>6. QED BY <1>3, <1>4, <1>5 DEF LaunchTypeOK

LEMMA RecordingTyped ==
  ASSUME LaunchTypeOK, NEW t \in Thread, Checkpoint(t) \/ Record(t)
  PROVE  LaunchTypeOK'
  <1>1. call[t] # None /\ call[t] \in Call
    BY CallTyped DEF Checkpoint, Record, At
  <1>2. call[t].pane \in Pane \cup {None}
    BY <1>1 DEF Call
  <1>3. call' \in [Thread -> Call \cup {None}]
    <2>1. GoTo(t, "start") \/ GoTo(t, "attach")
      BY DEF Checkpoint, Record
    <2>2. QED BY <1>1, <2>1, GoesOnTyped DEF Stage
  <1>4. intent' \in [state : {"none", "prepared", "checkpointed", "launched", "attached"},
                     token : Pane \cup {None}]
    BY <1>2 DEF Checkpoint, Record, LaunchTypeOK
  <1>5. UNCHANGED <<now, held, lease, actor, panes, agent, gone>>
    BY DEF Checkpoint, Record, backend
  <1>6. QED BY <1>3, <1>4, <1>5 DEF LaunchTypeOK

LEMMA AttachTyped ==
  ASSUME LaunchTypeOK, NEW t \in Thread, Attach(t)
  PROVE  LaunchTypeOK'
  <1>1. call[t] # None /\ call[t] \in Call
    BY CallTyped DEF Attach, At
  <1>2. call[t].pane \in Pane \cup {None} /\ call[t].now + Ttl \in 0..MaxNow + Ttl
    BY <1>1, LaunchAssumption DEF Call, LaunchTypeOK
  <1>3. actor' \in [epoch : 0..MaxEpoch, until : 0..MaxNow + Ttl,
                    state : {"none", "starting", "online", "offline"},
                    session : Pane \cup {None}] /\ actor'.state = "online"
    BY <1>2 DEF Attach, LaunchTypeOK
  <1>4. intent' \in [state : {"none", "prepared", "checkpointed", "launched", "attached"},
                     token : Pane \cup {None}]
    BY DEF Attach, LaunchTypeOK
  <1>5. QED BY <1>3, <1>4, EndTyped DEF Attach, LaunchTypeOK, backend

LEMMA ReconcileTyped ==
  ASSUME LaunchTypeOK, NEW t \in Thread,
         Reconcile(t) \/ Observe(t) \/ ActorHeartbeat(t) \/ MarkOffline(t)
  PROVE  LaunchTypeOK'
  <1>1. CASE Reconcile(t)
    <2> DEFINE c == [stage |-> "observe", now |-> now, fence |-> held[Service[t]],
                     epoch |-> actor.epoch, token |-> None, recovered |-> FALSE,
                     pane |-> actor.session]
    <2>1. c \in Call
      BY <1>1, LaunchAssumption DEF LaunchTypeOK, Reconcile, Call, Stage
    <2>2. call' \in [Thread -> Call \cup {None}]
      BY <1>1, <2>1 DEF LaunchTypeOK, Reconcile
    <2>3. actor' \in [epoch : 0..MaxEpoch, until : 0..MaxNow + Ttl,
                      state : {"none", "starting", "online", "offline"},
                      session : Pane \cup {None}]
          /\ (actor'.session # None => actor'.state \in {"online", "offline"})
      BY <1>1 DEF LaunchTypeOK, Reconcile, Expired
    <2>4. QED BY <1>1, <2>2, <2>3 DEF LaunchTypeOK, Reconcile, backend
  <1>2. CASE Observe(t)
    <2>1. call' \in [Thread -> Call \cup {None}]
      BY <1>2, GoesOnTyped DEF Observe, At, Stage
    <2>2. QED BY <1>2, <2>1 DEF LaunchTypeOK, Observe, durable, backend
  <1>3. CASE ActorHeartbeat(t)
    <2>1. call[t] \in Call
      BY <1>3, CallTyped DEF ActorHeartbeat, At
    <2>2. call[t].now + Ttl \in 0..MaxNow + Ttl
      BY <2>1, LaunchAssumption DEF Call
    <2>3. actor' \in [epoch : 0..MaxEpoch, until : 0..MaxNow + Ttl,
                      state : {"none", "starting", "online", "offline"},
                      session : Pane \cup {None}]
          /\ (actor'.session # None => actor'.state \in {"online", "offline"})
      BY <1>3, <2>2 DEF LaunchTypeOK, ActorHeartbeat
    <2>4. QED BY <1>3, <2>3, EndTyped DEF LaunchTypeOK, ActorHeartbeat, backend
  <1>4. CASE MarkOffline(t)
    <2>1. actor' \in [epoch : 0..MaxEpoch, until : 0..MaxNow + Ttl,
                      state : {"none", "starting", "online", "offline"},
                      session : Pane \cup {None}]
          /\ (actor'.session # None => actor'.state \in {"online", "offline"})
      BY <1>4 DEF LaunchTypeOK, MarkOffline
    <2>2. QED BY <1>4, <2>1, EndTyped DEF LaunchTypeOK, MarkOffline, backend
  <1>5. QED BY <1>1, <1>2, <1>3, <1>4

LEMMA LaunchStepTyped ==
  ASSUME LaunchTypeOK, [LaunchNext]_launchVars
  PROVE  LaunchTypeOK'
  <1>1. CASE LaunchTick
    BY <1>1, LaunchAssumption DEF LaunchTypeOK, LaunchTick, durable, backend
  <1>2. CASE ClosePane \/ AgentExits
    <2>1. gone' \in 0..MaxGone
      BY <1>2, LaunchAssumption DEF LaunchTypeOK, ClosePane, AgentExits
    <2>2. QED BY <1>2, <2>1 DEF LaunchTypeOK, ClosePane, AgentExits, durable
  <1>3. ASSUME NEW d \in Daemon, Start(d) \/ Heartbeat(d) \/ Die(d)
        PROVE  LaunchTypeOK'
    <2>1. CASE Die(d)
      BY <2>1, LaunchAssumption DEF LaunchTypeOK, Die, durable, backend
    <2>2. QED BY <1>3, <2>1, StartTyped, HeartbeatTyped
  <1>4. ASSUME NEW t \in Thread, Refuse(t)
        PROVE  LaunchTypeOK'
    BY <1>4, EndTyped DEF LaunchTypeOK, Refuse, Refused, durable, backend
  <1>5. CASE UNCHANGED launchVars
    BY <1>5 DEF LaunchTypeOK, launchVars, durable, backend
  <1>6. QED
    BY <1>1, <1>2, <1>3, <1>4, <1>5, LaunchTyped, RegisterTyped, BackendTyped,
       RecordingTyped, AttachTyped, ReconcileTyped
    DEF LaunchNext

-----------------------------------------------------------------------------
(* The fences of the services.                                             *)

LEMMA FencesStep ==
  ASSUME LaunchInv, [LaunchNext]_launchVars
  PROVE  EpochsAreGranted' /\ HoldersDiffer'
  <1>1. LaunchTypeOK /\ EpochsAreGranted /\ HoldersDiffer
    BY DEF LaunchInv
  <1>2. lease.epoch \in Nat /\ \A d \in Daemon : held[d] \in Nat
    BY <1>1, LaunchAssumption DEF LaunchTypeOK
  <1>3. ASSUME NEW d \in Daemon, Start(d)
        PROVE  EpochsAreGranted' /\ HoldersDiffer'
    <2>1. held' = [held EXCEPT ![d] = NextFence(d)]
      BY <1>3 DEF Start
    <2>2. lease'.owner = d /\ lease'.epoch = NextFence(d)
      BY <1>3 DEF Start
    <2>3. /\ held'[d] = NextFence(d)
          /\ \A e \in Daemon \ {d} : held'[e] = held[e]
      BY <1>1, <2>1 DEF LaunchTypeOK
    <2>4. NextFence(d) \in Nat /\ NextFence(d) >= lease.epoch
      BY <1>2 DEF NextFence
    <2>5. \A e \in Daemon \ {d} : held[e] # 0 => held[e] < NextFence(d)
      <3> SUFFICES ASSUME NEW e \in Daemon, e # d, held[e] # 0 PROVE held[e] < NextFence(d)
        OBVIOUS
      <3>1. held[e] <= lease.epoch /\ (held[e] = lease.epoch => lease.owner = e)
        BY <1>1 DEF EpochsAreGranted
      <3>2. CASE lease.owner = d /\ lease.until > now
        BY <1>2, <2>4, <3>1, <3>2
      <3>3. CASE ~(lease.owner = d /\ lease.until > now)
        BY <1>2, <3>1, <3>3 DEF NextFence
      <3>4. QED BY <3>2, <3>3
    <2>6. EpochsAreGranted'
      BY <1>2, <2>2, <2>3, <2>4, <2>5 DEF EpochsAreGranted
    <2>7. HoldersDiffer'
      <3> SUFFICES ASSUME NEW e \in Daemon, NEW f \in Daemon,
                          held'[e] # 0, held'[e] = held'[f]
                   PROVE  e = f
        BY DEF HoldersDiffer
      <3>1. CASE e = d /\ f # d
        BY <1>2, <2>3, <2>4, <2>5, <3>1
      <3>2. CASE e # d /\ f = d
        BY <1>2, <2>3, <2>4, <2>5, <3>2
      <3>3. CASE e # d /\ f # d
        BY <1>1, <2>3, <3>3 DEF HoldersDiffer
      <3>4. QED BY <3>1, <3>2, <3>3
    <2>8. QED BY <2>6, <2>7
  <1>4. ASSUME NEW d \in Daemon, Die(d)
        PROVE  EpochsAreGranted' /\ HoldersDiffer'
    <2>1. lease' = lease /\ \A e \in Daemon : held'[e] = 0 \/ held'[e] = held[e]
      BY <1>1, <1>4 DEF Die, LaunchTypeOK, durable
    <2>2. QED BY <1>1, <2>1 DEF EpochsAreGranted, HoldersDiffer
  <1>5. ASSUME NEW d \in Daemon, Heartbeat(d)
        PROVE  EpochsAreGranted' /\ HoldersDiffer'
    <2>1. lease'.owner = lease.owner /\ lease'.epoch = lease.epoch /\ held' = held
      BY <1>1, <1>5 DEF Heartbeat, LaunchTypeOK
    <2>2. QED BY <1>1, <2>1 DEF EpochsAreGranted, HoldersDiffer
  <1>6. CASE UNCHANGED <<lease, held>>
    BY <1>1, <1>6 DEF EpochsAreGranted, HoldersDiffer
  <1>7. QED
    BY <1>3, <1>4, <1>5, <1>6
    DEF LaunchNext, LaunchTick, ClosePane, AgentExits, Launch, Register, Inspect, CreatePane,
        Checkpoint, StartAgent, StartTimesOut, Record, Attach, Refuse, Refused, Reconcile,
        Observe, ActorHeartbeat, MarkOffline, launchVars, durable, backend

-----------------------------------------------------------------------------
(* The session and its record.                                             *)

\* Once a session is recorded, no launch records another.
LEMMA RecordStays ==
  ASSUME LaunchInv, [LaunchNext]_launchVars, intent.state \in {"launched", "attached"}
  PROVE  /\ intent'.token = intent.token
         /\ intent'.state \in {"launched", "attached"}
         /\ intent.state = "attached" => intent'.state = "attached"
  <1>1. LaunchTypeOK
    BY DEF LaunchInv
  <1>2. ASSUME NEW t \in Thread, Launch(t) \/ Checkpoint(t) \/ Record(t)
        PROVE  intent' = intent
    BY <1>2 DEF Launch, Checkpoint, CheckpointHolds, Record
  <1>3. ASSUME NEW t \in Thread, Attach(t)
        PROVE  intent'.token = intent.token /\ intent'.state = "attached"
    BY <1>1, <1>3 DEF Attach, LaunchTypeOK
  <1>4. QED
    BY <1>2, <1>3
    DEF LaunchNext, LaunchTick, ClosePane, AgentExits, Start, Heartbeat, Die, Register,
        Inspect, CreatePane, StartAgent, StartTimesOut, Refuse, Refused, Reconcile, Observe,
        ActorHeartbeat, MarkOffline, launchVars, durable

\* A launch comes to attach its session from the transaction that recorded it.
LEMMA RecordsStep ==
  ASSUME LaunchInv, [LaunchNext]_launchVars
  PROVE  RecordsAreKept'
  <1> SUFFICES ASSUME NEW t \in Thread, call'[t] # None, call'[t].stage = "attach"
               PROVE  intent'.state \in {"launched", "attached"} /\ intent'.token = call'[t].pane
    BY DEF RecordsAreKept, At
  <1>1. LaunchTypeOK /\ RecordsAreKept
    BY DEF LaunchInv
  <1>2. CASE At(t, "attach") /\ call'[t] = call[t]
    <2>1. intent.state \in {"launched", "attached"} /\ intent.token = call[t].pane
      BY <1>1, <1>2 DEF RecordsAreKept
    <2>2. QED BY <1>2, <2>1, RecordStays
  <1>3. CASE Record(t)
    <2>1. call[t] \in Call
      BY <1>3, CallTyped, <1>1 DEF Record, At
    <2>2. call'[t].pane = call[t].pane
      BY <1>1, <1>3, <2>1 DEF Record, GoTo, LaunchTypeOK, Call
    <2>3. QED BY <1>3, <2>2 DEF Record, Recordable
  <1>4. (At(t, "attach") /\ call'[t] = call[t]) \/ Record(t)
    <2>1. call'[t] = call[t] => At(t, "attach")
      BY DEF At
    <2>2. ASSUME NEW u \in Thread, call[u] # None, NEW stage \in Stage \ {"attach"},
                 \/ GoTo(u, stage)
                 \/ \E x : call' = [call EXCEPT ![u].stage = stage, ![u].pane = x]
                 \/ \E x : call' = [call EXCEPT ![u].stage = stage, ![u].epoch = x]
          PROVE  call'[t] = call[t]
      <3>1. call[u] \in Call
        BY <1>1, <2>2, CallTyped
      <3>2. \/ call'[u].stage = stage
            \/ call'[u] = call[u]
        <4>1. CASE GoTo(u, stage)
          BY <1>1, <3>1, <4>1 DEF GoTo, LaunchTypeOK, Call
        <4>2. ASSUME NEW x, call' = [call EXCEPT ![u].stage = stage, ![u].pane = x]
              PROVE  call'[u].stage = stage
          BY <1>1, <3>1, <4>2 DEF LaunchTypeOK, Call
        <4>3. ASSUME NEW x, call' = [call EXCEPT ![u].stage = stage, ![u].epoch = x]
              PROVE  call'[u].stage = stage
          BY <1>1, <3>1, <4>3 DEF LaunchTypeOK, Call
        <4>4. QED BY <2>2, <4>1, <4>2, <4>3
      <3>3. u # t => call'[t] = call[t]
        BY <1>1, <2>2 DEF GoTo, LaunchTypeOK
      <3>4. QED BY <2>2, <3>2, <3>3
    <2>3. ASSUME NEW u \in Thread, End(u) PROVE call'[t] = call[t]
      BY <1>1, <2>3 DEF End, LaunchTypeOK
    <2>4. ASSUME NEW u \in Thread, Launch(u) \/ Reconcile(u) PROVE call'[t] = call[t]
      BY <1>1, <2>4 DEF Launch, Reconcile, LaunchTypeOK
    <2>5. ASSUME NEW u \in Thread, Register(u) PROVE call'[t] = call[t]
      <3>1. \E x : call' = [call EXCEPT ![u].stage = "inspect", ![u].epoch = x]
        BY <2>5 DEF Register
      <3>2. call[u] # None /\ "inspect" \in Stage \ {"attach"}
        BY <2>5 DEF Register, At, Stage
      <3>3. QED BY <2>2, <3>1, <3>2
    <2>6. ASSUME NEW u \in Thread, Inspect(u) PROVE call'[t] = call[t]
      <3>1. \/ End(u)
            \/ \E x : call' = [call EXCEPT ![u].stage = "record", ![u].pane = x]
            \/ \E x : call' = [call EXCEPT ![u].stage = "create", ![u].pane = x]
            \/ \E x : call' = [call EXCEPT ![u].stage = "start", ![u].pane = x]
        BY <2>6 DEF Inspect
      <3>2. call[u] # None
        BY <2>6 DEF Inspect, At
      <3>3. QED BY <2>2, <2>3, <3>1, <3>2 DEF Stage
    <2>7. ASSUME NEW u \in Thread, CreatePane(u) PROVE call'[t] = call[t]
      <3>1. \E x : call' = [call EXCEPT ![u].stage = "checkpoint", ![u].pane = x]
        BY <2>7 DEF CreatePane
      <3>2. call[u] # None /\ "checkpoint" \in Stage \ {"attach"}
        BY <2>7 DEF CreatePane, At, Stage
      <3>3. QED BY <2>2, <3>1, <3>2
    <2>8. ASSUME NEW u \in Thread,
                 Checkpoint(u) \/ StartAgent(u) \/ StartTimesOut(u) \/ Observe(u)
          PROVE  call'[t] = call[t]
      <3>1. /\ call[u] # None
            /\ \/ End(u) \/ GoTo(u, "start") \/ GoTo(u, "record") \/ GoTo(u, "heartbeat")
               \/ GoTo(u, "offline")
        BY <2>8 DEF Checkpoint, StartAgent, StartTimesOut, Observe, At
      <3>2. {"start", "record", "heartbeat", "offline"} \subseteq Stage \ {"attach"}
        BY DEF Stage
      <3>3. QED BY <2>2, <2>3, <3>1, <3>2
    <2>9. ASSUME NEW u \in Thread,
                 Attach(u) \/ Refuse(u) \/ ActorHeartbeat(u) \/ MarkOffline(u)
          PROVE  call'[t] = call[t]
      BY <2>3, <2>9 DEF Attach, Refuse, Refused, ActorHeartbeat, MarkOffline
    <2>10. ASSUME NEW u \in Thread, Record(u)
           PROVE  call'[t] = call[t] \/ Record(t)
      BY <1>1, <2>10 DEF Record, GoTo, LaunchTypeOK
    <2>11. ASSUME NEW d \in Daemon, Start(d) \/ Heartbeat(d) \/ Die(d)
           PROVE  call'[t] = call[t]
      BY <1>1, <2>11 DEF Start, Heartbeat, Die, LaunchTypeOK
    <2>12. CASE LaunchTick \/ ClosePane \/ AgentExits \/ UNCHANGED launchVars
      BY <2>1, <2>12 DEF LaunchTick, ClosePane, AgentExits, launchVars, durable, backend
    <2>13. QED
      BY <2>1, <2>4, <2>5, <2>6, <2>7, <2>8, <2>9, <2>10, <2>11, <2>12 DEF LaunchNext
  <1>5. QED BY <1>2, <1>3, <1>4

\* An actor comes online with the recorded session, and its record stays.
LEMMA OnlineStep ==
  ASSUME LaunchInv, [LaunchNext]_launchVars
  PROVE  OnlineIsRecorded'
  <1> SUFFICES ASSUME actor'.state = "online"
               PROVE  intent'.state = "attached" /\ actor'.session = intent'.token
    BY DEF OnlineIsRecorded
  <1>1. LaunchTypeOK /\ OnlineIsRecorded /\ RecordsAreKept
    BY DEF LaunchInv
  <1>2. ASSUME NEW t \in Thread, Attach(t)
        PROVE  intent'.state = "attached" /\ actor'.session = intent'.token
    <2>1. intent.token = call[t].pane
      BY <1>1, <1>2 DEF RecordsAreKept, Attach
    <2>2. QED BY <1>1, <1>2, <2>1 DEF Attach, LaunchTypeOK
  <1>3. CASE actor'.state = actor.state /\ actor'.session = actor.session
    <2>1. intent.state = "attached" /\ actor.session = intent.token
      BY <1>1, <1>3 DEF OnlineIsRecorded
    <2>2. QED BY <1>3, <2>1, RecordStays
  <1>4. ASSUME NEW t \in Thread, Register(t)
        PROVE  FALSE
    BY <1>4 DEF Register, Registered
  <1>5. ASSUME NEW t \in Thread, Reconcile(t) \/ ActorHeartbeat(t) \/ MarkOffline(t)
        PROVE  actor'.state = actor.state /\ actor'.session = actor.session
    BY <1>1, <1>5 DEF Reconcile, Expired, ActorHeartbeat, MarkOffline, LaunchTypeOK
  <1>6. QED
    BY <1>2, <1>3, <1>4, <1>5
    DEF LaunchNext, LaunchTick, ClosePane, AgentExits, Start, Heartbeat, Die, Launch, Inspect,
        CreatePane, Checkpoint, StartAgent, StartTimesOut, Record, Refuse, Refused, Observe,
        launchVars, durable

-----------------------------------------------------------------------------
(* The theorems about launches.                                            *)

LEMMA LaunchInitInv == LaunchInit => LaunchInv
  BY LaunchInitTyped
  DEF LaunchInit, LaunchInv, EpochsAreGranted, HoldersDiffer, OnlineIsRecorded,
      RecordsAreKept, At

LEMMA LaunchStepInv == LaunchInv /\ [LaunchNext]_launchVars => LaunchInv'
  BY LaunchStepTyped, FencesStep, RecordsStep, OnlineStep DEF LaunchInv

\* The inductive invariant holds of every reachable state of launches, reconciliations,
\* leases and deaths (RuntimeLaunch).
THEOREM LaunchesKeepInv == LaunchSpec => []LaunchInv
  BY LaunchInitInv, LaunchStepInv, PTL DEF LaunchSpec

\* Every transaction of a launch leaves well-typed rows (agsv-runtime store.rs).
THEOREM LaunchTypes == LaunchSpec => []LaunchTypeOK
  BY LaunchesKeepInv, PTL DEF LaunchInv

\* No two services hold one fencing epoch, and an online actor is bound to the session
\* its launch recorded (acquire_daemon_lease, record_launch, attach_session).
THEOREM LaunchFencing == LaunchSpec => []LaunchIsFenced
  <1>1. LaunchInv => LaunchIsFenced
    BY DEF LaunchInv, HoldersDiffer, OnlineIsRecorded, LaunchIsFenced
  <1>2. QED BY <1>1, LaunchesKeepInv, PTL

\* A reconciliation takes offline only the generation it looked at (mark_offline).
THEOREM ReconciliationIsFenced == LaunchSpec => LaterGenerationStaysOnline
  <1> DEFINE Kept == \A t \in Thread :
               At(t, "offline") /\ call'[t] = None /\ actor.epoch > call[t].epoch
                 => actor'.state = actor.state
  <1>1. LaunchInv /\ [LaunchNext]_launchVars => Kept
    <2> SUFFICES ASSUME LaunchInv, [LaunchNext]_launchVars, NEW t \in Thread,
                        At(t, "offline"), call'[t] = None, actor.epoch > call[t].epoch
                 PROVE  actor'.state = actor.state
      OBVIOUS
    <2>1. LaunchTypeOK /\ call[t] \in Call /\ call[t] # None /\ call[t].stage = "offline"
      BY CallTyped DEF LaunchInv, At
    <2>2. actor.epoch \in Nat /\ call[t].epoch \in Nat /\ actor.epoch # call[t].epoch
      BY <2>1, LaunchAssumption DEF LaunchTypeOK, Call
    <2>3. CASE MarkOffline(t)
      BY <2>2, <2>3 DEF MarkOffline, SameGeneration
    <2>4. ASSUME NEW u \in Thread,
                 Register(u) \/ Attach(u) \/ Reconcile(u) \/ ActorHeartbeat(u) \/ MarkOffline(u),
                 ~MarkOffline(t)
          PROVE  FALSE
      <3>1. u # t
        BY <2>1, <2>4, CallAssumption
        DEF Register, Attach, Reconcile, ActorHeartbeat, MarkOffline, At, Idle
      <3>2. call'[t] = call[t]
        BY <2>1, <2>4, <3>1
        DEF Register, Attach, Reconcile, ActorHeartbeat, MarkOffline, End, LaunchTypeOK
      <3>3. QED BY <2>1, <3>2
    <2>5. QED
      BY <2>3, <2>4
      DEF LaunchNext, LaunchTick, ClosePane, AgentExits, Start, Heartbeat, Die, Launch,
          Inspect, CreatePane, Checkpoint, StartAgent, StartTimesOut, Record, Refuse, Refused,
          Observe, launchVars, durable
  <1>2. QED
    BY <1>1, LaunchesKeepInv, PTL DEF LaunchSpec, LaterGenerationStaysOnline

-----------------------------------------------------------------------------
(* The inductive invariant of the queue.                                   *)

\* A message nobody has claimed has no claim that runs.
UnclaimedIsFree == \A m \in Message : message[m].claim.by = NoActor => message[m].left = 0

\* The last delivery of a message is held by one generation of one actor at most
\* (delivery_epoch).
LastIsHeldOnce ==
  \A m \in Message, a, b \in Actor, g, h \in Generation :
    <<m, TRUE>> \in client[a][g].held /\ <<m, TRUE>> \in client[b][h].held => a = b /\ g = h

QueueInv == QueueTypeOK /\ UnclaimedIsFree /\ LastIsHeldOnce

ActorRow == [state : {"none", "starting", "online", "offline"}, left : 0..LeaseTtl]
ClaimRow == [by : Actor \cup {NoActor}, generation : Generation]
MessageRow ==
  [state : {"unsent", "pending", "acknowledged"}, claim : ClaimRow,
   left : 0..ClaimTtl, wait : 0..Delay]

\* The rows one by one.
LEMMA QueueRows ==
  QueueTypeOK <=>
    /\ actors \in [Actor -> ActorRow]
    /\ primary \in [owner : Actor \cup {NoActor}, generation : Generation, left : 0..LeaseTtl]
    /\ message \in [Message -> MessageRow]
    /\ client \in [Actor -> [Generation -> View]]
  BY DEF QueueTypeOK, ActorRow, ClaimRow, MessageRow

-----------------------------------------------------------------------------
(* Types.                                                                  *)

\* What an actor's client holds, one field replaced; a message's row, its claim replaced.
LEMMA ViewExcept ==
  ASSUME NEW S, NEW v \in [fence : BOOLEAN, held : SUBSET S]
  PROVE  /\ \A f \in BOOLEAN : [v EXCEPT !.fence = f] \in [fence : BOOLEAN, held : SUBSET S]
         /\ \A h \in SUBSET S : [v EXCEPT !.held = h] \in [fence : BOOLEAN, held : SUBSET S]
  OBVIOUS

LEMMA ClientView ==
  ASSUME QueueTypeOK, NEW a \in Actor, NEW g \in Generation
  PROVE  /\ client[a][g] \in View
         /\ client[a][g].held \in SUBSET (Message \X BOOLEAN)
         /\ \A f \in BOOLEAN : [client[a][g] EXCEPT !.fence = f] \in View
         /\ \A h \in SUBSET (Message \X BOOLEAN) : [client[a][g] EXCEPT !.held = h] \in View
  <1>1. client[a][g] \in View
    BY QueueRows
  <1>2. QED BY <1>1, ViewExcept DEF View

LEMMA MessageExcept ==
  ASSUME QueueTypeOK, NEW m \in Message, NEW c \in ClaimRow, NEW left \in 0..ClaimTtl,
         NEW wait \in 0..Delay
  PROVE  /\ [message[m] EXCEPT !.claim = c, !.left = left] \in MessageRow
         /\ [message[m] EXCEPT !.claim = c, !.left = left, !.wait = wait] \in MessageRow
  <1>1. message[m] \in MessageRow
    BY QueueRows
  <1>2. QED BY <1>1 DEF MessageRow

LEMMA QueueInitTyped == QueueInit => QueueTypeOK
  BY QueueAssumption DEF QueueInit, QueueTypeOK, Generation, View, NewView, Nobody

LEMMA RegisterActorTyped ==
  ASSUME QueueTypeOK, NEW a \in Actor, RegisterActor(a)
  PROVE  QueueTypeOK'
  <1>1. actors' \in [Actor -> ActorRow]
    BY QueueRows, QueueAssumption DEF RegisterActor, ActorRow
  <1>2. client' \in [Actor -> [Generation -> View]]
    BY QueueRows DEF RegisterActor, Generation, View, NewView
  <1>3. primary' \in [owner : Actor \cup {NoActor}, generation : Generation, left : 0..LeaseTtl]
    BY QueueRows DEF RegisterActor, Generation
  <1>4. \A m \in Message : Aged(message[m].claim, a) \in ClaimRow
    BY QueueRows DEF MessageRow, ClaimRow, Aged, Generation
  <1>5. message' \in [Message -> MessageRow]
    BY <1>4, QueueRows DEF RegisterActor, MessageRow
  <1>6. QED BY <1>1, <1>2, <1>3, <1>5 DEF QueueTypeOK, ActorRow, MessageRow, ClaimRow

LEMMA ActorTyped ==
  ASSUME QueueTypeOK, NEW a \in Actor,
         AttachSession(a) \/ HeartbeatActor(a) \/ MarkActorOffline(a)
  PROVE  QueueTypeOK'
  <1>1. actors' \in [Actor -> ActorRow]
    BY SMTT(40), QueueRows, QueueAssumption DEF AttachSession, HeartbeatActor, MarkActorOffline, ActorRow
  <1>2. UNCHANGED <<primary, message, client>>
    BY DEF AttachSession, HeartbeatActor, MarkActorOffline
  <1>3. QED BY <1>1, <1>2 DEF QueueTypeOK, ActorRow

LEMMA AcquireTyped ==
  ASSUME QueueTypeOK, NEW a \in Actor, AcquirePrimary(a)
  PROVE  QueueTypeOK'
  <1> DEFINE same == primary.owner = a /\ primary.generation = "current" /\ primary.left > 0
             fence(b, g) == IF b = a /\ g = "current" THEN TRUE ELSE same /\ client[b][g].fence
  <1>1. \A b \in Actor, g \in Generation : fence(b, g) \in BOOLEAN
    OBVIOUS
  <1>2. \A b \in Actor, g \in Generation, f \in BOOLEAN : [client[b][g] EXCEPT !.fence = f] \in View
    BY ClientView
  <1>3. client' = [b \in Actor |-> [g \in Generation |-> [client[b][g] EXCEPT !.fence = fence(b, g)]]]
    BY DEF AcquirePrimary
  <1>4. \A b \in Actor, g \in Generation : [client[b][g] EXCEPT !.fence = fence(b, g)] \in View
    BY <1>1, <1>2
  <1> HIDE DEF fence
  <1>5. client' \in [Actor -> [Generation -> View]]
    BY <1>3, <1>4
  <1>6. primary' \in [owner : Actor \cup {NoActor}, generation : Generation, left : 0..LeaseTtl]
    BY QueueAssumption DEF AcquirePrimary, Generation
  <1>7. QED BY <1>5, <1>6 DEF QueueTypeOK, AcquirePrimary

LEMMA SendTyped ==
  ASSUME QueueTypeOK, NEW m \in Message, NEW g \in Generation, Send(m, g)
  PROVE  QueueTypeOK'
  <1>1. PICK delay \in 0..Delay :
          message' = [message EXCEPT ![m].state = "pending", ![m].wait = delay]
    BY DEF Send
  <1>2. message' \in [Message -> MessageRow]
    BY ZenonT(40), <1>1, QueueRows DEF MessageRow
  <1>3. QED BY <1>2 DEF QueueTypeOK, Send, MessageRow, ClaimRow

LEMMA DeliveredTyped ==
  ASSUME QueueTypeOK, NEW a \in Actor, NEW m \in Message
  PROVE  Delivered(a, m) \in [Actor -> [Generation -> View]]
  <1>1. ASSUME NEW b \in Actor, NEW g \in Generation,
               NEW more \in SUBSET (Message \X BOOLEAN)
        PROVE  {<<d[1], d[1] # m /\ d[2]>> : d \in client[b][g].held} \cup more
                 \in SUBSET (Message \X BOOLEAN)
    <2>1. client[b][g].held \in SUBSET (Message \X BOOLEAN)
      BY ClientView
    <2>2. \A d \in Message \X BOOLEAN : <<d[1], d[1] # m /\ d[2]>> \in Message \X BOOLEAN
      OBVIOUS
    <2>3. QED BY <2>1, <2>2
  <1>2. \A b \in Actor, g \in Generation, kept \in SUBSET (Message \X BOOLEAN) :
          [client[b][g] EXCEPT !.held = kept] \in View
    BY ClientView
  <1>3. \A S : \A d \in S : {d} \in SUBSET S /\ {} \in SUBSET S
    OBVIOUS
  <1>4. <<m, TRUE>> \in Message \X BOOLEAN
    OBVIOUS
  <1>5. {<<m, TRUE>>} \in SUBSET (Message \X BOOLEAN) /\ {} \in SUBSET (Message \X BOOLEAN)
    BY <1>3, <1>4
  <1>6. QED BY <1>1, <1>2, <1>5 DEF Delivered

LEMMA ClaimTyped ==
  ASSUME QueueTypeOK, NEW a \in Actor, Claim(a)
  PROVE  QueueTypeOK'
  <1>1. PICK m \in Message :
          /\ client' = Delivered(a, m)
          /\ message' = [message EXCEPT
               ![m].claim = [by |-> a, generation |-> "current"], ![m].left = ClaimTtl]
    BY DEF Claim, Message
  <1>2. [by |-> a, generation |-> "current"] \in ClaimRow /\ ClaimTtl \in 0..ClaimTtl
        /\ 0 \in 0..Delay
    BY QueueAssumption DEF ClaimRow, Generation
  <1>5. message' \in [Message -> MessageRow]
    BY <1>1, <1>2, QueueRows, MessageExcept
  <1>3. client' \in [Actor -> [Generation -> View]]
    BY <1>1, DeliveredTyped
  <1>4. QED BY <1>5, <1>3 DEF QueueTypeOK, Claim, MessageRow, ClaimRow

LEMMA DropTyped ==
  ASSUME QueueTypeOK, NEW a \in Actor, NEW g \in Generation, NEW m, NEW last,
         Drop(a, g, m, last)
  PROVE  client' \in [Actor -> [Generation -> View]]
  <1>1. client[a][g].held \ {<<m, last>>} \in SUBSET (Message \X BOOLEAN)
    BY ClientView
  <1>2. [client[a][g] EXCEPT !.held = @ \ {<<m, last>>}] \in View
    BY <1>1, ClientView
  <1>3. QED BY <1>2, QueueRows DEF Drop

LEMMA AnswerTyped ==
  ASSUME QueueTypeOK, NEW a \in Actor, NEW m \in Message,
         Acknowledge(a, m) \/ RetryMessage(a, m)
  PROVE  QueueTypeOK'
  <1>1. client' \in [Actor -> [Generation -> View]]
    BY DropTyped DEF Acknowledge, RetryMessage
  <1>2. CASE Acknowledge(a, m)
    <2>1. message' \in [Message -> MessageRow]
      BY <1>2, QueueRows DEF Acknowledge, MessageRow
    <2>2. QED BY <1>1, <1>2, <2>1 DEF QueueTypeOK, Acknowledge, MessageRow, ClaimRow
  <1>3. CASE RetryMessage(a, m)
    <2>1. PICK delay \in 0..Delay :
            message' = [message EXCEPT ![m].claim = Nobody, ![m].left = 0, ![m].wait = delay]
      BY <1>3 DEF RetryMessage
    <2>2. Nobody \in ClaimRow /\ 0 \in 0..ClaimTtl
      BY QueueAssumption DEF ClaimRow, Nobody, Generation
    <2>3. message' \in [Message -> MessageRow]
      BY <2>1, <2>2, QueueRows, MessageExcept
    <2>4. QED BY <1>1, <1>3, <2>3 DEF QueueTypeOK, RetryMessage, MessageRow, ClaimRow
  <1>4. QED BY <1>2, <1>3

LEMMA ReconcileExpiredTyped ==
  ASSUME QueueTypeOK, ReconcileExpired
  PROVE  QueueTypeOK'
  <1>1. actors' \in [Actor -> ActorRow]
    BY QueueRows DEF ReconcileExpired, ActorRow
  <1>2. message' \in [Message -> MessageRow]
    <2>1. Nobody \in ClaimRow /\ 0 \in 0..ClaimTtl /\ 0 \in 0..Delay
      BY QueueAssumption DEF ClaimRow, Nobody, Generation
    <2>2. QED BY <2>1, QueueRows, MessageExcept DEF ReconcileExpired
  <1>3. QED BY <1>1, <1>2 DEF QueueTypeOK, ReconcileExpired, ActorRow, MessageRow, ClaimRow

LEMMA QueueTickTyped ==
  ASSUME QueueTypeOK, QueueTick
  PROVE  QueueTypeOK'
  <1>1. \A k \in Nat : \A n \in 0..k : Less(n) \in 0..k
    BY DEF Less
  <1>2. LeaseTtl \in Nat /\ ClaimTtl \in Nat /\ Delay \in Nat
    BY QueueAssumption
  <1>3. actors' \in [Actor -> ActorRow]
    BY <1>1, <1>2, QueueRows DEF QueueTick, ActorRow
  <1>4. primary' \in [owner : Actor \cup {NoActor}, generation : Generation, left : 0..LeaseTtl]
    BY <1>1, <1>2, QueueRows DEF QueueTick
  <1>5. message' \in [Message -> MessageRow]
    BY <1>1, <1>2, QueueRows DEF QueueTick, MessageRow
  <1>6. QED
    BY <1>3, <1>4, <1>5 DEF QueueTypeOK, QueueTick, ActorRow, MessageRow, ClaimRow

LEMMA QueueStepTyped ==
  ASSUME QueueTypeOK, [QueueNext]_queueVars
  PROVE  QueueTypeOK'
  <1>1. ASSUME NEW a \in Actor, Crash(a) PROVE QueueTypeOK'
    <2>1. client' \in [Actor -> [Generation -> View]]
      BY <1>1, QueueRows DEF Crash, View, Generation
    <2>2. QED BY <1>1, <2>1 DEF QueueTypeOK, Crash
  <1>2. CASE UNCHANGED queueVars
    BY <1>2 DEF QueueTypeOK, queueVars
  <1>3. QED
    BY <1>1, <1>2, RegisterActorTyped, ActorTyped, AcquireTyped, ClaimTyped, AnswerTyped,
       SendTyped, ReconcileExpiredTyped, QueueTickTyped
    DEF QueueNext

-----------------------------------------------------------------------------
(* Claims and deliveries, one step.                                        *)

\* The one message a claim is about.
LEMMA ClaimIsOfOne ==
  ASSUME QueueTypeOK, NEW a \in Actor, Claim(a)
  PROVE  \E m \in Message :
           /\ Claimable(a, m) /\ client' = Delivered(a, m)
           /\ message' = [message EXCEPT
                ![m].claim = [by |-> a, generation |-> "current"], ![m].left = ClaimTtl]
  BY DEF Claim, Message

\* An answer is given to the last delivery, and takes it out of the client's hands.
LEMMA AnswerIsToTheLast ==
  ASSUME QueueTypeOK, NEW a \in Actor, NEW m \in Message,
         Acknowledge(a, m) \/ RetryMessage(a, m)
  PROVE  \E g \in Generation :
           /\ message[m].claim = [by |-> a, generation |-> g]
           /\ message[m].state = "pending" /\ message[m].left > 0
           /\ <<m, TRUE>> \in client[a][g].held /\ <<m, TRUE>> \notin client'[a][g].held
           /\ client' = [client EXCEPT ![a][g].held = @ \ {<<m, TRUE>>}]
  <1>1. PICK g \in Generation, last \in BOOLEAN :
          /\ <<m, last>> \in client[a][g].held
          /\ HoldsClaim(a, g, m, last) /\ Drop(a, g, m, last)
    BY DEF Acknowledge, RetryMessage
  <1>2. last = TRUE
    BY <1>1 DEF HoldsClaim
  <1>3. client' = [client EXCEPT ![a][g].held = @ \ {<<m, TRUE>>}]
    BY <1>1, <1>2 DEF Drop
  <1>4. client'[a][g].held = client[a][g].held \ {<<m, TRUE>>}
    <2>1. client \in [Actor -> [Generation -> View]] /\ client[a][g] \in View
      BY QueueRows
    <2>2. QED BY <1>3, <2>1 DEF View
  <1>5. QED BY <1>1, <1>2, <1>3, <1>4 DEF HoldsClaim

LEMMA UnclaimedIsFreeKept ==
  ASSUME QueueTypeOK, UnclaimedIsFree, [QueueNext]_queueVars
  PROVE  UnclaimedIsFree'
  <1>1. ASSUME NEW a \in Actor, RegisterActor(a)
        PROVE  UnclaimedIsFree'
    <2>1. \A m \in Message : Aged(message[m].claim, a).by = message[m].claim.by
      BY QueueRows DEF Aged, MessageRow, ClaimRow
    <2>2. \A m \in Message : message'[m] = [message[m] EXCEPT !.claim = Aged(message[m].claim, a)]
      BY <1>1 DEF RegisterActor
    <2>3. ASSUME NEW m \in Message
          PROVE  /\ message'[m].claim = Aged(message[m].claim, a)
                 /\ message'[m].left = message[m].left
      <3>1. message[m] \in MessageRow
        BY QueueRows
      <3>2. QED BY <2>2, <3>1 DEF MessageRow
    <2>4. QED BY <2>1, <2>3 DEF UnclaimedIsFree
  <1>2. ASSUME UNCHANGED message
        PROVE  UnclaimedIsFree'
    BY <1>2 DEF UnclaimedIsFree
  <1>3. ASSUME NEW a \in Actor, Claim(a)
        PROVE  UnclaimedIsFree'
    <2>1. a # NoActor
      BY QueueAssumption
    <2>2. PICK m \in Message :
            message' = [message EXCEPT
              ![m].claim = [by |-> a, generation |-> "current"], ![m].left = ClaimTtl]
      BY <1>3, ClaimIsOfOne
    <2>3. QED BY <2>1, <2>2, QueueRows DEF UnclaimedIsFree, MessageRow
  <1>4. ASSUME NEW a \in Actor, NEW m \in Message, Acknowledge(a, m)
        PROVE  UnclaimedIsFree'
    <2>1. message' = [message EXCEPT ![m].state = "acknowledged"]
      BY <1>4 DEF Acknowledge
    <2>2. QED BY <2>1, QueueRows DEF UnclaimedIsFree, MessageRow
  <1>5. ASSUME NEW a \in Actor, NEW m \in Message, RetryMessage(a, m)
        PROVE  UnclaimedIsFree'
    BY <1>5, QueueRows DEF UnclaimedIsFree, RetryMessage, MessageRow
  <1>6. ASSUME NEW m \in Message, NEW g \in Generation, Send(m, g)
        PROVE  UnclaimedIsFree'
    BY <1>6, QueueRows DEF UnclaimedIsFree, Send, MessageRow
  <1>7. CASE ReconcileExpired
    BY <1>7, QueueRows DEF UnclaimedIsFree, ReconcileExpired, MessageRow
  <1>8. CASE QueueTick
    <2>1. Less(0) = 0
      BY DEF Less
    <2>2. QED BY <1>8, <2>1, QueueRows DEF UnclaimedIsFree, QueueTick, MessageRow
  <1>9. QED
    BY <1>1, <1>2, <1>3, <1>4, <1>5, <1>6, <1>7, <1>8
    DEF QueueNext, queueVars, AttachSession, HeartbeatActor, MarkActorOffline, AcquirePrimary,
        Crash

\* Deliveries only leave a client's hands, but for a claim and a new generation.
LEMMA HeldShrinks ==
  ASSUME QueueTypeOK, LastIsHeldOnce,
         \A a \in Actor, g \in Generation : client'[a][g].held \subseteq client[a][g].held
  PROVE  LastIsHeldOnce'
  <1>1. \A m \in Message, a \in Actor, g \in Generation :
          <<m, TRUE>> \in client'[a][g].held => <<m, TRUE>> \in client[a][g].held
    OBVIOUS
  <1>2. QED BY <1>1 DEF LastIsHeldOnce

LEMMA RegisterKeepsLast ==
  ASSUME QueueTypeOK, LastIsHeldOnce, NEW a \in Actor, RegisterActor(a)
  PROVE  LastIsHeldOnce'
  <1>1. /\ client'[a]["old"].held = client[a]["current"].held
        /\ client'[a]["current"].held = {}
        /\ \A b \in Actor \ {a} : client'[b] = client[b]
    BY QueueRows DEF RegisterActor, NewView, Generation
  <1>2. "current" \in Generation /\ \A g \in Generation : g \in {"current", "old"}
    BY DEF Generation
  <1>3. SUFFICES ASSUME NEW m \in Message, NEW b \in Actor, NEW c \in Actor,
                        NEW g \in Generation, NEW h \in Generation,
                        <<m, TRUE>> \in client'[b][g].held, <<m, TRUE>> \in client'[c][h].held
                 PROVE  b = c /\ g = h
    BY ZenonT(40) DEF LastIsHeldOnce
  <1>4. CASE b = a /\ c = a
    <2>1. g # "current" /\ h # "current"
      BY <1>1, <1>3, <1>4
    <2>2. QED BY <1>2, <1>4, <2>1
  <1>5. CASE b = a /\ c # a
    <2>1. <<m, TRUE>> \in client[a]["current"].held /\ <<m, TRUE>> \in client[c][h].held
      BY <1>1, <1>2, <1>3, <1>5
    <2>2. QED BY <1>2, <1>5, <2>1 DEF LastIsHeldOnce
  <1>6. CASE b # a /\ c = a
    <2>1. <<m, TRUE>> \in client[a]["current"].held /\ <<m, TRUE>> \in client[b][g].held
      BY <1>1, <1>2, <1>3, <1>6
    <2>2. QED BY <1>2, <1>6, <2>1 DEF LastIsHeldOnce
  <1>7. CASE b # a /\ c # a
    <2>1. <<m, TRUE>> \in client[b][g].held /\ <<m, TRUE>> \in client[c][h].held
      BY <1>1, <1>3, <1>7
    <2>2. QED BY <2>1 DEF LastIsHeldOnce
  <1>8. QED BY <1>4, <1>5, <1>6, <1>7

LEMMA ClaimKeepsLast ==
  ASSUME QueueTypeOK, LastIsHeldOnce, NEW a \in Actor, Claim(a)
  PROVE  LastIsHeldOnce'
  <1>1. PICK n \in Message : client' = Delivered(a, n)
    BY ClaimIsOfOne
  <1>2. ASSUME NEW b \in Actor, NEW g \in Generation, NEW m \in Message,
               <<m, TRUE>> \in client'[b][g].held
        PROVE  /\ m = n => b = a /\ g = "current"
               /\ m # n => <<m, TRUE>> \in client[b][g].held
    <2>1. client[b][g] \in View /\ client[b][g].held \in SUBSET (Message \X BOOLEAN)
      BY ClientView
    <2>2. client'[b][g].held =
            {<<d[1], d[1] # n /\ d[2]>> : d \in client[b][g].held}
              \cup (IF b = a /\ g = "current" THEN {<<n, TRUE>>} ELSE {})
      BY <1>1, <2>1 DEF Delivered, View
    <2>3. CASE <<m, TRUE>> \in {<<d[1], d[1] # n /\ d[2]>> : d \in client[b][g].held}
      <3>1. PICK d \in client[b][g].held : <<m, TRUE>> = <<d[1], d[1] # n /\ d[2]>>
        BY <2>3
      <3>2. d \in Message \X BOOLEAN
        BY <2>1
      <3>3. d = <<d[1], d[2]>> /\ d[2] \in BOOLEAN
        BY <3>2
      <3>4. m = d[1] /\ (d[1] # n /\ d[2])
        BY <3>1
      <3>5. d[2] = TRUE
        BY <3>3, <3>4
      <3>6. d = <<m, TRUE>>
        BY <3>3, <3>4, <3>5
      <3>7. QED BY <3>4, <3>6
    <2>4. CASE <<m, TRUE>> \in (IF b = a /\ g = "current" THEN {<<n, TRUE>>} ELSE {})
      BY <2>4
    <2>5. QED BY <1>2, <2>2, <2>3, <2>4
  <1>3. \A m \in Message, b \in Actor, g \in Generation : <<m, TRUE>> \in client'[b][g].held =>
          /\ m = n => b = a /\ g = "current"
          /\ m # n => <<m, TRUE>> \in client[b][g].held
    BY <1>2
  <1>4. ASSUME NEW m \in Message, NEW b \in Actor, NEW c \in Actor,
               NEW g \in Generation, NEW h \in Generation,
               <<m, TRUE>> \in client'[b][g].held, <<m, TRUE>> \in client'[c][h].held
        PROVE  b = c /\ g = h
    <2>1. /\ m = n => b = a /\ g = "current" /\ c = a /\ h = "current"
          /\ m # n => <<m, TRUE>> \in client[b][g].held /\ <<m, TRUE>> \in client[c][h].held
      BY <1>3, <1>4
    <2>2. <<m, TRUE>> \in client[b][g].held /\ <<m, TRUE>> \in client[c][h].held
          => b = c /\ g = h
      BY DEF LastIsHeldOnce
    <2>3. QED BY <2>1, <2>2
  <1>5. (\A m \in Message, b, c \in Actor, g, h \in Generation :
          <<m, TRUE>> \in client[b][g].held /\ <<m, TRUE>> \in client[c][h].held
            => b = c /\ g = h)'
    BY <1>4
  <1>6. QED BY <1>5 DEF LastIsHeldOnce

LEMMA LastIsHeldOnceKept ==
  ASSUME QueueTypeOK, LastIsHeldOnce, [QueueNext]_queueVars
  PROVE  LastIsHeldOnce'
  <1>1. ASSUME UNCHANGED client
        PROVE  LastIsHeldOnce'
    BY <1>1 DEF LastIsHeldOnce
  <1>2. ASSUME NEW a \in Actor, AcquirePrimary(a)
        PROVE  LastIsHeldOnce'
    <2>1. \A b \in Actor, g \in Generation : client'[b][g].held = client[b][g].held
      BY SMTT(40), <1>2, QueueRows DEF AcquirePrimary, View
    <2>2. QED BY <2>1, HeldShrinks
  <1>3. ASSUME NEW a \in Actor, NEW m \in Message, Acknowledge(a, m) \/ RetryMessage(a, m)
        PROVE  LastIsHeldOnce'
    <2>1. PICK g \in Generation :
           /\ message[m].claim = [by |-> a, generation |-> g]
           /\ message[m].state = "pending" /\ message[m].left > 0
           /\ <<m, TRUE>> \in client[a][g].held /\ <<m, TRUE>> \notin client'[a][g].held
           /\ client' = [client EXCEPT ![a][g].held = @ \ {<<m, TRUE>>}]
      BY <1>3, AnswerIsToTheLast
    <2>2. \A b \in Actor, h \in Generation : client'[b][h].held \subseteq client[b][h].held
      BY ZenonT(40), <2>1, QueueRows DEF View
    <2>3. QED BY <2>2, HeldShrinks
  <1>4. ASSUME NEW a \in Actor, Crash(a)
        PROVE  LastIsHeldOnce'
    <2>1. \A b \in Actor, h \in Generation : client'[b][h].held \subseteq client[b][h].held
      BY <1>4, QueueRows DEF Crash, View
    <2>2. QED BY <2>1, HeldShrinks
  <1>5. QED
    BY <1>1, <1>2, <1>3, <1>4, RegisterKeepsLast, ClaimKeepsLast
    DEF QueueNext, queueVars, AttachSession, HeartbeatActor, MarkActorOffline, Send,
        ReconcileExpired, QueueTick

-----------------------------------------------------------------------------
(* The theorems about the queue.                                           *)

\* QueueInv holds in every state of the queue.
THEOREM QueueKeepsInv == QueueSpec => []QueueInv
  <1>1. QueueInit => QueueInv
    <2>1. ASSUME QueueInit PROVE UnclaimedIsFree /\ LastIsHeldOnce
      BY <2>1 DEF QueueInit, UnclaimedIsFree, LastIsHeldOnce, NewView
    <2>2. QED BY <2>1, QueueInitTyped DEF QueueInv
  <1>2. QueueInv /\ [QueueNext]_queueVars => QueueInv'
    BY QueueStepTyped, UnclaimedIsFreeKept, LastIsHeldOnceKept DEF QueueInv
  <1>3. QED BY <1>1, <1>2, PTL DEF QueueSpec

\* Each row and each client's holdings keep their types (agsv-runtime store.rs: the
\* actors, primary_leases and messages tables).
THEOREM QueueTypes == QueueSpec => []QueueTypeOK
  <1>1. QueueInv => QueueTypeOK
    BY DEF QueueInv
  <1>2. QED BY <1>1, QueueKeepsInv, PTL

\* A delivery that still counts is in the hands of one generation of one actor: every
\* later claim makes the earlier deliveries stale (claim_message: delivery_epoch).
THEOREM LastDelivery == QueueSpec => []LastIsHeldOnce
  <1>1. QueueInv => LastIsHeldOnce
    BY DEF QueueInv
  <1>2. QED BY <1>1, QueueKeepsInv, PTL

-----------------------------------------------------------------------------
(* A claim that runs: one step.                                            *)

\* What a step may do to a message: DeliveriesAreExclusive at m.
Exclusive(m) ==
  /\ (/\ message[m].state = "pending" /\ message[m].left > 0
      /\ message'[m].claim.by # message[m].claim.by \/ message'[m].left > message[m].left)
     => /\ message'[m].claim = Nobody
        /\ \E g \in Generation : /\ <<m, TRUE>> \in client[message[m].claim.by][g].held
                                /\ <<m, TRUE>> \notin client'[message[m].claim.by][g].held
  /\ (message[m].state = "pending" /\ message'[m].state = "acknowledged")
     => \E a \in Actor, g \in Generation :
          <<m, TRUE>> \in client[a][g].held /\ <<m, TRUE>> \notin client'[a][g].held
  /\ (/\ message[m].state = "unsent" /\ message'[m].state = "pending"
      /\ Role[Sender[m]] = "primary")
     => primary.owner = Sender[m] /\ primary.left > 0

LEMMA RowKept ==
  ASSUME QueueTypeOK, NEW m \in Message,
         message'[m].claim.by = message[m].claim.by, message'[m].state = message[m].state,
         message'[m].left \in 0..message[m].left
  PROVE  Exclusive(m)
  <1>1. message[m].left \in Nat
    BY QueueAssumption, QueueRows DEF MessageRow
  <1>2. ~(message'[m].left > message[m].left)
    BY <1>1
  <1>3. QED BY <1>2 DEF Exclusive

LEMMA StepIsExclusive ==
  ASSUME QueueInv, QueueNext, NEW m \in Message
  PROVE  Exclusive(m)
  <1> USE DEF QueueInv
  <1>0. /\ message \in [Message -> MessageRow] /\ message[m] \in MessageRow
        /\ message[m].left \in Nat /\ message[m].left \in 0..message[m].left
    BY QueueRows, QueueAssumption DEF MessageRow
  <1>1. ASSUME UNCHANGED message
        PROVE  Exclusive(m)
    BY <1>0, <1>1, RowKept
  <1>2. ASSUME NEW a \in Actor, RegisterActor(a)
        PROVE  Exclusive(m)
    <2>1. message'[m] = [message[m] EXCEPT !.claim = Aged(message[m].claim, a)]
      BY <1>2 DEF RegisterActor
    <2>2. Aged(message[m].claim, a).by = message[m].claim.by
      BY <1>0 DEF Aged, MessageRow, ClaimRow
    <2>3. /\ message'[m].claim = Aged(message[m].claim, a)
          /\ message'[m].state = message[m].state /\ message'[m].left = message[m].left
      BY <1>0, <2>1 DEF MessageRow
    <2>4. QED BY <1>0, <2>2, <2>3, RowKept
  <1>3. ASSUME NEW a \in Actor, Claim(a)
        PROVE  Exclusive(m)
    <2>1. PICK n \in Message :
            /\ Claimable(a, n)
            /\ message' = [message EXCEPT
                 ![n].claim = [by |-> a, generation |-> "current"], ![n].left = ClaimTtl]
      BY <1>3, ClaimIsOfOne
    <2>2. CASE m # n
      BY <1>0, <2>1, <2>2, RowKept
    <2>3. CASE m = n
      <3>1. message[m].left = 0
        BY <2>1, <2>3 DEF Claimable, Lapsed, UnclaimedIsFree
      <3>2. message'[m].state = message[m].state
        BY <1>0, <2>1 DEF MessageRow
      <3>3. message[m].state = "pending"
        BY <2>1, <2>3 DEF Claimable
      <3>4. QED BY <3>1, <3>2, <3>3 DEF Exclusive
    <2>4. QED BY <2>2, <2>3
  <1>4. ASSUME NEW a \in Actor, NEW n \in Message, Acknowledge(a, n)
        PROVE  Exclusive(m)
    <2>1. message' = [message EXCEPT ![n].state = "acknowledged"]
      BY <1>4 DEF Acknowledge
    <2>2. CASE m # n
      BY <1>0, <2>1, <2>2, RowKept
    <2>3. CASE m = n
      <3>1. message'[m].claim = message[m].claim /\ message'[m].left = message[m].left
        BY <1>0, <2>1 DEF MessageRow
      <3>2. PICK g \in Generation :
              /\ message[m].state = "pending"
              /\ <<m, TRUE>> \in client[a][g].held /\ <<m, TRUE>> \notin client'[a][g].held
        BY <1>4, <2>3, AnswerIsToTheLast
      <3>3. ~(message'[m].left > message[m].left)
        BY <1>0, <3>1
      <3>4. QED BY <3>1, <3>2, <3>3 DEF Exclusive
    <2>4. QED BY <2>2, <2>3
  <1>5. ASSUME NEW a \in Actor, NEW n \in Message, RetryMessage(a, n)
        PROVE  Exclusive(m)
    <2>1. PICK delay \in 0..Delay :
            message' = [message EXCEPT ![n].claim = Nobody, ![n].left = 0, ![n].wait = delay]
      BY <1>5 DEF RetryMessage
    <2>2. CASE m # n
      BY <1>0, <2>1, <2>2, RowKept
    <2>3. CASE m = n
      <3>1. message'[m].claim = Nobody /\ message'[m].state = message[m].state
        BY <1>0, <2>1, <2>3 DEF MessageRow
      <3>2. PICK g \in Generation :
              /\ message[m].claim = [by |-> a, generation |-> g] /\ message[m].state = "pending"
              /\ <<m, TRUE>> \in client[a][g].held /\ <<m, TRUE>> \notin client'[a][g].held
        BY <1>5, <2>3, AnswerIsToTheLast
      <3>3. message[m].claim.by = a
        BY <3>2
      <3>4. QED BY <3>1, <3>2, <3>3 DEF Exclusive
    <2>4. QED BY <2>2, <2>3
  <1>6. ASSUME NEW n \in Message, NEW g \in Generation, Send(n, g)
        PROVE  Exclusive(m)
    <2>1. PICK delay \in 0..Delay :
            message' = [message EXCEPT ![n].state = "pending", ![n].wait = delay]
      BY <1>6 DEF Send
    <2>2. CASE m # n
      BY <1>0, <2>1, <2>2, RowKept
    <2>3. CASE m = n
      <3>1. message'[m].claim = message[m].claim /\ message'[m].left = message[m].left
            /\ message'[m].state = "pending"
        BY <1>0, <2>1, <2>3 DEF MessageRow
      <3>2. Role[Sender[m]] = "primary" => primary.owner = Sender[m] /\ primary.left > 0
        BY <1>6, <2>3 DEF Send, FenceHolds
      <3>3. message[m].state = "unsent"
        BY <1>6, <2>3 DEF Send
      <3>4. QED BY <1>0, <3>1, <3>2, <3>3 DEF Exclusive
    <2>4. QED BY <2>2, <2>3
  <1>7. CASE ReconcileExpired
    <2>1. CASE Releasable(m)
      <3>1. message[m].left = 0 /\ message'[m].state = message[m].state
        BY <1>0, <1>7, <2>1 DEF ReconcileExpired, Releasable, MessageRow
      <3>2. message[m].state = "pending"
        BY <2>1 DEF Releasable
      <3>3. QED BY <3>1, <3>2 DEF Exclusive
    <2>2. CASE ~Releasable(m)
      BY <1>0, <1>7, <2>2, RowKept DEF ReconcileExpired
    <2>3. QED BY <2>1, <2>2
  <1>8. CASE QueueTick
    <2>1. \A n \in Nat : Less(n) \in 0..n
      BY DEF Less
    <2>2. /\ message'[m].claim = message[m].claim /\ message'[m].state = message[m].state
          /\ message'[m].left = Less(message[m].left)
      BY <1>0, <1>8 DEF QueueTick, MessageRow
    <2>3. QED BY <1>0, <2>1, <2>2, RowKept
  <1>9. QED
    BY <1>1, <1>2, <1>3, <1>4, <1>5, <1>6, <1>7, <1>8
    DEF QueueNext, AttachSession, HeartbeatActor, MarkActorOffline, AcquirePrimary, Crash

\* Until it lapses a claim is ended by its own holder's answer alone, an acknowledgement
\* answers the last delivery, and a Primary's message enters the queue only under the lease
\* it holds (claim_message, acknowledge_message, retry_message, send_message).
THEOREM ClaimsAreExclusive == QueueSpec => DeliveriesAreExclusive
  <1>1. QueueInv /\ [QueueNext]_queueVars => [\A m \in Message : Exclusive(m)]_queueVars
    BY StepIsExclusive
  <1>2. [\A m \in Message : Exclusive(m)]_queueVars
        => [\A m \in Message :
             LET claim == message[m].claim
                 Answered(a, g) == <<m, TRUE>> \in client[a][g].held
                                   /\ <<m, TRUE>> \notin client'[a][g].held
             IN  /\ (/\ message[m].state = "pending" /\ message[m].left > 0
                     /\ \/ message'[m].claim.by # claim.by
                        \/ message'[m].left > message[m].left)
                    => message'[m].claim = Nobody
                       /\ \E g \in Generation : Answered(claim.by, g)
                 /\ (message[m].state = "pending" /\ message'[m].state = "acknowledged")
                    => \E a \in Actor, g \in Generation : Answered(a, g)
                 /\ (/\ message[m].state = "unsent" /\ message'[m].state = "pending"
                     /\ Role[Sender[m]] = "primary")
                    => primary.owner = Sender[m] /\ primary.left > 0]_queueVars
    BY DEF Exclusive
  <1>3. QED BY <1>1, <1>2, QueueKeepsInv, PTL DEF QueueSpec, DeliveriesAreExclusive

-----------------------------------------------------------------------------
(* A set of naturals that is not empty has a least element.                *)

Before == {pair \in Nat \X Nat : pair[1] < pair[2]}

LEMMA NaturalsAreWellFounded == IsWellFoundedOn(Before, Nat)
  BY NatLessThanWellFounded DEF OpToRel, Before

LEMMA LeastIsLeast ==
  ASSUME NEW T \in SUBSET Nat, T # {}
  PROVE  Least(T) \in T /\ \A n \in T : Least(T) <= n
  <1>1. PICK x \in T : \A y \in T : <<y, x>> \notin Before
    BY NaturalsAreWellFounded, WFMin
  <1>2. \A y \in T : ~(y < x)
    BY <1>1 DEF Before
  <1>3. \A y \in T : x <= y
    BY <1>2
  <1>4. QED BY <1>3 DEF Least

-----------------------------------------------------------------------------
(* The presentations' invariant.                                           *)

Place == Nat \X Nat
ShownRow == [slot : Place, desired : Nat, applied : Nat, synced : BOOLEAN]
Commands == Caller \cup {"primary"}
PresentationStep ==
  {"idle", "prepare", "allocate", "label", "relabel", "mark", "launch", "stop"}

Job == [step : PresentationStep, actor : Executor \cup {NoExecutor},
        epoch : Nat, label : Nat, free : SUBSET Nat]

ShownTypeOK ==
  /\ executors \in [Executor -> [epoch : Nat, healthy : BOOLEAN,
                                 session : {"none", "launching", "present", "stopped"}]]
  /\ title \in [Executor -> Nat]
  /\ rows \in [Executor -> ShownRow \cup {NoRow}]
  /\ archive \in [Executor -> [epoch : Nat, row : ShownRow \cup {NoRow}]]
  /\ job \in [Commands -> Job]
  /\ \A c \in Commands : job[c].step # "idle" => job[c].actor \in Executor

TabsTyped ==
  /\ reserved \in [DOMAIN reserved -> Nat \ {0}] /\ DOMAIN reserved \subseteq Nat
  /\ lastTab \in Nat /\ given \subseteq Place

\* What was ever given lies within the reservation of its group, if the group is still
\* there, and no group is beyond the last tab.
PlacesAreCounted ==
  /\ \A g \in DOMAIN reserved : g <= lastTab /\ g \notin Foreign
  /\ \A s \in given : /\ s[1] <= lastTab
                      /\ s[1] = 0 => 0 \in DOMAIN reserved
                      /\ s[1] \in DOMAIN reserved => s[2] < reserved[s[1]]

\* A row has a place that was given, in a group that is still reserved.
RowsAreGiven ==
  \A a \in Executor : HasRow(a) => rows[a].slot \in given /\ TabOf(rows[a]) \in DOMAIN reserved

\* A generation has a row until it is archived, and none after: only one that is starting
\* or healthy is given a row.
Alive(e) == e.healthy \/ e.session \in {"launching", "present"}

GenerationsAreArchived ==
  \A a \in Executor :
    /\ archive[a].epoch <= executors[a].epoch
    /\ HasRow(a) \/ Alive(executors[a]) => archive[a].epoch < executors[a].epoch

\* Who is about to be given a row lives, and a refresh neither launches nor stops.
JobsAreOfTheLiving ==
  /\ job["primary"].step \in {"prepare", "allocate"} => Alive(executors[job["primary"].actor])
  /\ job["primary"].step = "launch" => executors[job["primary"].actor].session = "launching"
  /\ \A c \in Caller : job[c].step \in {"prepare", "allocate"} =>
       executors[job[c].actor].healthy
  /\ \A c \in Caller \ {"primary"} : job[c].step \notin {"launch", "stop"}

ShownInv ==
  ShownTypeOK /\ TabsTyped /\ PlacesAreCounted /\ RowsAreGiven /\ GenerationsAreArchived
  /\ JobsAreOfTheLiving

LEMMA NoRowIsNone == NoRow \notin ShownRow
  BY DEF NoRow, ShownRow, Place

\* There is a number for a new tab: it is after all tabs and no person's.
LEMMA FreshIsFree ==
  ASSUME TabsTyped
  PROVE  FreshTab \in Nat /\ FreshTab > lastTab /\ FreshTab \notin Foreign
  <1> DEFINE n == Cardinality(Foreign)
             Room == lastTab + 1 .. lastTab + n + 1
             Free == {k \in lastTab + 1 .. lastTab + Cardinality(Foreign) + 1 : k \notin Foreign}
  <1>1. n \in Nat /\ lastTab \in Nat /\ IsFiniteSet(Foreign)
    BY FS_CardinalityType, PresentationAssumption DEF TabsTyped
  <1>2. Free # {}
    <2>1. SUFFICES ASSUME Room \subseteq Foreign PROVE FALSE
      OBVIOUS
    <2>2. IsFiniteSet(Room) /\ Cardinality(Room) = n + 1
      <3>1. lastTab + 1 \in Int /\ lastTab + n + 1 \in Int
        BY <1>1
      <3>2. IsFiniteSet(Room) /\ Cardinality(Room) = IF lastTab + 1 > lastTab + n + 1 THEN 0
                                       ELSE (lastTab + n + 1) - (lastTab + 1) + 1
        BY <3>1, FS_Interval
      <3> HIDE DEF n, Room
      <3>3. QED BY <1>1, <3>2
    <2>3. Cardinality(Room) <= n
      BY <1>1, <2>1, FS_Subset
    <2> HIDE DEF n, Room
    <2>4. QED BY <1>1, <2>2, <2>3
  <1>3. Free \in SUBSET Nat /\ \A k \in Free : k > lastTab /\ k \notin Foreign
    BY <1>1
  <1>4. FreshTab = Least(Free)
    BY DEF FreshTab
  <1> HIDE DEF Free
  <1>5. QED BY <1>2, <1>3, <1>4, LeastIsLeast

-----------------------------------------------------------------------------
(* How a step changes the rows and the jobs.                               *)

\* Rows whose place stays.
LEMMA PlacesStay ==
  ASSUME ShownInv, UNCHANGED <<reserved, lastTab, given, executors, archive>>,
         rows' \in [Executor -> ShownRow \cup {NoRow}],
         \A a \in Executor : /\ HasRow(a)' <=> HasRow(a)
                             /\ HasRow(a) => rows'[a].slot = rows[a].slot
  PROVE  /\ TabsTyped' /\ PlacesAreCounted' /\ RowsAreGiven' /\ GenerationsAreArchived'
         /\ PanesAreNotReused
  <1>1. TabsTyped' /\ PlacesAreCounted'
    BY DEF ShownInv, TabsTyped, PlacesAreCounted
  <1>2. RowsAreGiven'
    BY DEF ShownInv, RowsAreGiven, TabOf
  <1>3. GenerationsAreArchived'
    BY DEF ShownInv, GenerationsAreArchived
  <1>4. PanesAreNotReused
    BY DEF PanesAreNotReused
  <1>5. QED BY <1>1, <1>2, <1>3, <1>4

\* A command that goes on, for an actor that starts or is healthy if it is to get a row.
LEMMA JobGoesOn ==
  ASSUME ShownInv, ~Overtaken', UNCHANGED executors,
         NEW c \in Commands, NEW j \in Job, job' = [job EXCEPT ![c] = j],
         j.step # "idle" => j.actor \in Executor,
         j.step \in {"prepare", "allocate"} => Alive(executors[j.actor]),
         j.step = "launch" => executors[j.actor].session = "launching",
         c # "primary" => j.step \notin {"launch", "stop"}
  PROVE  /\ job' \in [Commands -> Job]
         /\ \A d \in Commands : job'[d].step # "idle" => job'[d].actor \in Executor
         /\ JobsAreOfTheLiving'
  <1>1. /\ job' \in [Commands -> Job]
        /\ \A d \in Commands : job'[d] = IF d = c THEN j ELSE job[d]
    BY DEF ShownInv, ShownTypeOK
  <1>2. \A d \in Commands : job'[d].step # "idle" => job'[d].actor \in Executor
    BY <1>1 DEF ShownInv, ShownTypeOK
  <1>3. \A d \in Caller : job'[d].step \in {"prepare", "allocate"} =>
          executors'[job'[d].actor].healthy
    BY DEF Overtaken
  <1>4. "primary" \in Commands
    BY DEF Commands
  <1>5. /\ job'["primary"].step \in {"prepare", "allocate"} =>
             Alive(executors'[job'["primary"].actor])
        /\ job'["primary"].step = "launch" =>
             executors'[job'["primary"].actor].session = "launching"
    BY <1>1, <1>4 DEF ShownInv, JobsAreOfTheLiving
  <1>6. \A d \in Caller \ {"primary"} : job'[d].step \notin {"launch", "stop"}
    BY <1>1 DEF ShownInv, JobsAreOfTheLiving, Commands
  <1>7. QED BY <1>1, <1>2, <1>3, <1>5, <1>6 DEF JobsAreOfTheLiving

LEMMA CurrentJob ==
  ASSUME ShownInv, NEW c \in Commands
  PROVE  /\ job[c] \in Job /\ (job[c].step # "idle" => job[c].actor \in Executor)
         /\ job[c].step \in {"prepare", "allocate"} => Alive(executors[job[c].actor])
         /\ c # "primary" => job[c].step \notin {"launch", "stop"}
  BY DEF ShownInv, ShownTypeOK, JobsAreOfTheLiving, Commands, Alive

LEMMA NoJobIsIdle == NoJob \in Job /\ NoJob.step = "idle"
  BY DEF NoJob, Job, PresentationStep

\* A generation with a row is not archived, one that may get a row neither.
LEMMA RowIsThere ==
  ASSUME ShownInv, NEW a \in Executor
  PROVE  HasRow(a) <=> rows[a] \in ShownRow
  BY NoRowIsNone DEF ShownInv, ShownTypeOK, HasRow

-----------------------------------------------------------------------------
(* The steps of a refresh or of a launch.                                  *)

LEMMA PrepareKeeps ==
  ASSUME ShownInv, ~Overtaken', NEW c \in Commands, Prepare(c)
  PROVE  ShownInv' /\ PanesAreNotReused
  <1>1. PICK v : v = [job[c] EXCEPT !.step  = IF HasRow(job[c].actor) THEN "label" ELSE "allocate",
                                    !.label = title[job[c].actor],
                                    !.free  = IF HasRow(job[c].actor) THEN {} ELSE ReusableGroups]
    OBVIOUS
  <1>2. /\ job[c].step = "prepare" /\ job[c].actor \in Executor
        /\ UNCHANGED <<placeFirst, executors, title, rows, reserved, lastTab, archive, shown, given>>
        /\ job' = [job EXCEPT ![c] = v] \/ job' = [job EXCEPT ![c] = NoJob]
    BY <1>1, CurrentJob DEF Prepare
  <1>3. ReusableGroups \subseteq Nat
    <2>1. \A a \in Executor : HasRow(a) => TabOf(rows[a]) \in Nat
      BY RowIsThere DEF TabOf, ShownRow, Place
    <2>2. QED BY <2>1 DEF ReusableGroups
  <1>4. title[job[c].actor] \in Nat
    BY <1>2 DEF ShownInv, ShownTypeOK
  <1>5. /\ v \in Job /\ v.actor = job[c].actor /\ v.step \in {"label", "allocate"}
    <2>1. PICK i \in Job : i = job[c]
      BY CurrentJob
    <2>2. PICK f \in SUBSET Nat : f = IF HasRow(job[c].actor) THEN {} ELSE ReusableGroups
      BY <1>3
    <2>3. PICK t \in {"label", "allocate"} :
            t = IF HasRow(job[c].actor) THEN "label" ELSE "allocate"
      OBVIOUS
    <2>4. PICK n \in Nat : n = title[job[c].actor]
      BY <1>4
    <2>5. v = [i EXCEPT !.step = t, !.label = n, !.free = f]
      BY <1>1, <2>1, <2>2, <2>3, <2>4
    <2>6. /\ v \in Job /\ v.actor = i.actor /\ v.step = t
      BY <2>5 DEF Job, PresentationStep
    <2>7. QED BY <2>1, <2>3, <2>6
  <1>6. PICK j \in {v, NoJob} : job' = [job EXCEPT ![c] = j]
    BY <1>2
  <1>7. /\ j \in Job
        /\ j.step # "idle" => j.actor \in Executor
        /\ j.step \in {"prepare", "allocate"} => Alive(executors[j.actor])
        /\ j.step \notin {"launch", "stop"}
    BY <1>2, <1>5, <1>6, CurrentJob, NoJobIsIdle
  <1>8. /\ job' \in [Commands -> Job]
        /\ \A d \in Commands : job'[d].step # "idle" => job'[d].actor \in Executor
        /\ JobsAreOfTheLiving'
    BY <1>2, <1>6, <1>7, JobGoesOn
  <1>9. ShownTypeOK'
    BY <1>2, <1>8 DEF ShownInv, ShownTypeOK
  <1>10. /\ TabsTyped' /\ PlacesAreCounted' /\ RowsAreGiven' /\ GenerationsAreArchived'
         /\ PanesAreNotReused
    <2>1. rows' \in [Executor -> ShownRow \cup {NoRow}]
      BY <1>2 DEF ShownInv, ShownTypeOK
    <2>2. \A a \in Executor : /\ HasRow(a)' <=> HasRow(a)
                              /\ HasRow(a) => rows'[a].slot = rows[a].slot
      BY <1>2 DEF HasRow
    <2>3. QED BY <1>2, <2>1, <2>2, PlacesStay
  <1>11. QED BY <1>8, <1>9, <1>10 DEF ShownInv


LEMMA LabelKeeps ==
  ASSUME ShownInv, ~Overtaken', NEW c \in Commands, Label(c)
  PROVE  ShownInv' /\ PanesAreNotReused
  <1>1. PICK a : a = job[c].actor
    OBVIOUS
  <1>2. /\ job[c] \in Job /\ job[c].step = "label" /\ a \in Executor
        /\ job[c].label \in Nat
        /\ UNCHANGED <<placeFirst, executors, title, reserved, lastTab, archive, shown, given>>
    BY <1>1, CurrentJob DEF Label, Job
  <1>3. PICK w : w = Labelled(rows[a], job[c].label)
    OBVIOUS
  <1>4. /\ HasRow(a) => rows' = [rows EXCEPT ![a] = w]
        /\ ~HasRow(a) => rows' = rows
    BY <1>1, <1>3 DEF Label
  <1>5. HasRow(a) => w \in ShownRow /\ w.slot = rows[a].slot
    BY <1>2, <1>3, RowIsThere DEF Labelled, ShownRow
  <1>6. rows' \in [Executor -> ShownRow \cup {NoRow}]
    BY <1>2, <1>4, <1>5 DEF ShownInv, ShownTypeOK
  <1>7. \A b \in Executor : /\ HasRow(b)' <=> HasRow(b)
                            /\ HasRow(b) => rows'[b].slot = rows[b].slot
    BY <1>2, <1>4, <1>5, NoRowIsNone DEF HasRow, ShownInv, ShownTypeOK
  <1>8. PICK j \in {[job[c] EXCEPT !.step = "launch"], [job[c] EXCEPT !.step = "relabel"], NoJob} :
          /\ job' = [job EXCEPT ![c] = j]
          /\ j.step = "launch" => c = "primary" /\ executors[a].session = "launching"
    <2>1. CASE HasRow(a)
      <3>1. CASE c = "primary" /\ executors[a].session = "launching"
        BY <1>1, <1>2, <2>1, <3>1 DEF Label
      <3>2. CASE ~(c = "primary" /\ executors[a].session = "launching")
        <4>1. [job[c] EXCEPT !.step = "relabel"].step = "relabel" /\ NoJob.step = "idle"
          BY <1>2, NoJobIsIdle DEF Job
        <4>2. QED BY <1>1, <1>2, <2>1, <3>2, <4>1 DEF Label
      <3>3. QED BY <3>1, <3>2
    <2>2. CASE ~HasRow(a)
      BY <1>1, <1>2, <2>2, NoJobIsIdle DEF Label
    <2>3. QED BY <2>1, <2>2
  <1>9. /\ j \in Job /\ j.step \in {"launch", "relabel", "idle"}
        /\ j.step # "idle" => j.actor = a
    BY <1>2, <1>1, <1>8, NoJobIsIdle DEF Job, PresentationStep
  <1>10. /\ job' \in [Commands -> Job]
         /\ \A d \in Commands : job'[d].step # "idle" => job'[d].actor \in Executor
         /\ JobsAreOfTheLiving'
    BY <1>2, <1>8, <1>9, JobGoesOn
  <1>11. ShownTypeOK'
    BY <1>2, <1>6, <1>10 DEF ShownInv, ShownTypeOK
  <1>12. QED BY <1>2, <1>6, <1>7, <1>10, <1>11, PlacesStay DEF ShownInv

LEMMA RelabelKeeps ==
  ASSUME ShownInv, ~Overtaken', NEW c \in Commands, Relabel(c)
  PROVE  ShownInv' /\ PanesAreNotReused
  <1>1. PICK a : a = job[c].actor
    OBVIOUS
  <1>2. /\ job[c] \in Job /\ job[c].step = "relabel" /\ a \in Executor
        /\ UNCHANGED <<placeFirst, executors, title, reserved, lastTab, archive, given>>
        /\ rows' = rows \/ (HasRow(a) /\ rows' = [rows EXCEPT ![a].synced = FALSE])
    BY <1>1, CurrentJob DEF Relabel
  <1>3. PICK j \in {[job[c] EXCEPT !.step = "mark"], NoJob} : job' = [job EXCEPT ![c] = j]
    BY <1>2 DEF Relabel, ShownInv, ShownTypeOK
  <1>4. /\ j \in Job /\ j.step \in {"mark", "idle"}
        /\ j.step # "idle" => j.actor \in Executor
    BY <1>1, <1>2, <1>3, NoJobIsIdle DEF Job, PresentationStep
  <1>5. /\ rows' \in [Executor -> ShownRow \cup {NoRow}]
        /\ \A b \in Executor : /\ HasRow(b)' <=> HasRow(b)
                               /\ HasRow(b) => rows'[b].slot = rows[b].slot
    <2>1. CASE rows' = rows
      BY <2>1 DEF HasRow, ShownInv, ShownTypeOK
    <2>2. CASE HasRow(a) /\ rows' = [rows EXCEPT ![a].synced = FALSE]
      <3>1. PICK w : w = [rows[a] EXCEPT !.synced = FALSE]
        OBVIOUS
      <3>2. w \in ShownRow /\ w.slot = rows[a].slot
        BY <1>2, <2>2, <3>1, RowIsThere DEF ShownRow
      <3>3. rows' = [rows EXCEPT ![a] = w]
        BY <2>2, <3>1
      <3>4. QED BY <1>2, <2>2, <3>2, <3>3, NoRowIsNone DEF HasRow, ShownInv, ShownTypeOK
    <2>3. QED BY <1>2, <2>1, <2>2
  <1>6. /\ job' \in [Commands -> Job]
        /\ \A d \in Commands : job'[d].step # "idle" => job'[d].actor \in Executor
        /\ JobsAreOfTheLiving'
    BY <1>2, <1>3, <1>4, JobGoesOn
  <1>7. ShownTypeOK'
    BY <1>2, <1>5, <1>6 DEF ShownInv, ShownTypeOK
  <1>8. QED BY <1>2, <1>5, <1>6, <1>7, PlacesStay DEF ShownInv

LEMMA MarkKeeps ==
  ASSUME ShownInv, ~Overtaken', NEW c \in Commands, MarkApplied(c)
  PROVE  ShownInv' /\ PanesAreNotReused
  <1>1. PICK a : a = job[c].actor
    OBVIOUS
  <1>2. /\ job[c] \in Job /\ job[c].step = "mark" /\ a \in Executor /\ job[c].label \in Nat
        /\ UNCHANGED <<placeFirst, executors, title, reserved, lastTab, archive, shown, given>>
        /\ job' = [job EXCEPT ![c] = NoJob]
    BY <1>1, CurrentJob DEF MarkApplied, Job
  <1>3. PICK w : w = [rows[a] EXCEPT !.applied = job[c].label,
                                     !.synced = rows[a].desired = job[c].label]
    OBVIOUS
  <1>4. rows' = IF HasRow(a) THEN [rows EXCEPT ![a] = w] ELSE rows
    BY <1>1, <1>2, <1>3 DEF MarkApplied, ShownInv, ShownTypeOK
  <1>5. HasRow(a) => w \in ShownRow /\ w.slot = rows[a].slot
    BY <1>2, <1>3, RowIsThere DEF ShownRow
  <1>6. /\ rows' \in [Executor -> ShownRow \cup {NoRow}]
        /\ \A b \in Executor : /\ HasRow(b)' <=> HasRow(b)
                               /\ HasRow(b) => rows'[b].slot = rows[b].slot
    BY <1>2, <1>4, <1>5, NoRowIsNone DEF HasRow, ShownInv, ShownTypeOK
  <1>7. /\ job' \in [Commands -> Job]
        /\ \A d \in Commands : job'[d].step # "idle" => job'[d].actor \in Executor
        /\ JobsAreOfTheLiving'
    BY <1>2, NoJobIsIdle, JobGoesOn
  <1>8. ShownTypeOK'
    BY <1>2, <1>6, <1>7 DEF ShownInv, ShownTypeOK
  <1>9. QED BY <1>2, <1>6, <1>7, <1>8, PlacesStay DEF ShownInv

LEMMA BeginRefreshKeeps ==
  ASSUME ShownInv, ~Overtaken', NEW c \in Commands, NEW a \in Executor, BeginRefresh(c, a)
  PROVE  ShownInv' /\ PanesAreNotReused
  <1>1. PICK j : j = [step |-> "prepare", actor |-> a, epoch |-> executors[a].epoch, label |-> 0,
                      free |-> {}]
    OBVIOUS
  <1>2. /\ executors[a].healthy /\ job' = [job EXCEPT ![c] = j]
        /\ UNCHANGED <<placeFirst, executors, title, rows, reserved, lastTab, archive, shown, given>>
    BY <1>1 DEF BeginRefresh
  <1>3. /\ j \in Job /\ j.step = "prepare" /\ j.actor = a /\ Alive(executors[a])
    BY <1>1, <1>2 DEF Job, PresentationStep, Alive, ShownInv, ShownTypeOK
  <1>4. /\ job' \in [Commands -> Job]
        /\ \A d \in Commands : job'[d].step # "idle" => job'[d].actor \in Executor
        /\ JobsAreOfTheLiving'
    BY <1>2, <1>3, JobGoesOn
  <1>5. ShownTypeOK'
    BY <1>2, <1>4 DEF ShownInv, ShownTypeOK
  <1>6. rows' \in [Executor -> ShownRow \cup {NoRow}]
    BY <1>5 DEF ShownTypeOK
  <1>7. \A b \in Executor : /\ HasRow(b)' <=> HasRow(b)
                            /\ HasRow(b) => rows'[b].slot = rows[b].slot
    BY <1>2 DEF HasRow
  <1>8. QED BY <1>2, <1>4, <1>5, <1>6, <1>7, PlacesStay DEF ShownInv


-----------------------------------------------------------------------------
(* A place is given.                                                       *)

\* The place that is chosen lies beyond what its group, or any tab, has given.
LEMMA ChosenIsNew ==
  ASSUME ShownInv, NEW groups \in SUBSET Nat, NEW slot, slot = ChooseSlot(groups)
  PROVE  /\ slot \in Place /\ slot \notin given
         /\ slot[1] \notin Foreign /\ slot[2] < MaxPanes
         /\ \/ slot[1] \in DOMAIN reserved /\ slot[2] = reserved[slot[1]]
            \/ slot[1] = 0 /\ 0 \notin DOMAIN reserved /\ slot[2] = 1
            \/ slot[1] > lastTab /\ slot[2] = 0
  <1>1. /\ lastTab \in Nat /\ given \subseteq Place /\ DOMAIN reserved \subseteq Nat
        /\ \A g \in DOMAIN reserved : /\ reserved[g] \in Nat \ {0}
                                      /\ g <= lastTab /\ g \notin Foreign
        /\ \A s \in given : /\ s[1] <= lastTab
                            /\ s[1] = 0 => 0 \in DOMAIN reserved
                            /\ s[1] \in DOMAIN reserved => s[2] < reserved[s[1]]
    BY DEF ShownInv, TabsTyped, PlacesAreCounted
  <1>2. 0 \notin Foreign /\ MaxPanes \in Nat \ {0}
    BY PresentationAssumption
  <1>3. CASE placeFirst /\ BesidePrimary < MaxPanes
    <2>1. slot = <<0, BesidePrimary>>
      BY <1>3 DEF ChooseSlot
    <2>2. CASE 0 \in DOMAIN reserved
      <3>1. BesidePrimary = reserved[0]
        BY <2>2 DEF BesidePrimary
      <3>2. QED BY <1>1, <1>2, <1>3, <2>1, <2>2, <3>1 DEF Place
    <2>3. CASE 0 \notin DOMAIN reserved
      <3>1. BesidePrimary = 1
        BY <2>3 DEF BesidePrimary
      <3>2. QED BY <1>1, <1>2, <1>3, <2>1, <2>3, <3>1 DEF Place
    <2>4. QED BY <2>2, <2>3
  <1>4. CASE ~(placeFirst /\ BesidePrimary < MaxPanes) /\ Openings(groups) # {}
    <2>1. Openings(groups) \in SUBSET Nat
      BY DEF Openings, RootedGroups
    <2>2. PICK g \in Openings(groups) : g = Least(Openings(groups))
      BY <1>4, <2>1, LeastIsLeast
    <2>3. slot = <<g, reserved[g]>>
      BY <1>4, <2>2 DEF ChooseSlot
    <2>4. g \in DOMAIN reserved /\ reserved[g] < MaxPanes
      BY <2>2 DEF Openings
    <2>5. QED BY <1>1, <2>3, <2>4 DEF Place
  <1>5. CASE ~(placeFirst /\ BesidePrimary < MaxPanes) /\ Openings(groups) = {}
    <2>1. slot = <<FreshTab, 0>>
      BY <1>5 DEF ChooseSlot
    <2>2. FreshTab \in Nat /\ FreshTab > lastTab /\ FreshTab \notin Foreign
      BY FreshIsFree DEF ShownInv
    <2>3. PICK n \in Nat : n = FreshTab
      BY <2>2
    <2>4. QED BY <1>1, <1>2, <2>1, <2>2, <2>3 DEF Place
  <1>6. QED BY <1>3, <1>4, <1>5

LEMMA AllocateKeeps ==
  ASSUME ShownInv, ~Overtaken', NEW c \in Commands, Allocate(c)
  PROVE  ShownInv' /\ PanesAreNotReused
  <1>1. PICK a : a = job[c].actor
    OBVIOUS
  <1>2. PICK slot : slot = ChooseSlot(job[c].free)
    OBVIOUS
  <1>3. PICK j : j = [job[c] EXCEPT !.step = "label", !.free = {}]
    OBVIOUS
  <1>4. /\ job[c] \in Job /\ job[c].step = "allocate" /\ a \in Executor
        /\ job[c].label \in Nat /\ job[c].free \in SUBSET Nat /\ Alive(executors[a])
    BY <1>1, CurrentJob DEF Allocate, Job
  <1>5. UNCHANGED <<placeFirst, executors, title, archive, shown>>
    BY DEF Allocate
  <1>6. job' = [job EXCEPT ![c] = j]
    BY <1>3, <1>4 DEF Allocate, ShownInv, ShownTypeOK
  <1>7. j \in Job /\ j.step = "label" /\ j.actor = a
    BY <1>1, <1>3, <1>4 DEF Job, PresentationStep
  <1>8. /\ job' \in [Commands -> Job]
        /\ \A d \in Commands : job'[d].step # "idle" => job'[d].actor \in Executor
        /\ JobsAreOfTheLiving'
    BY <1>4, <1>5, <1>6, <1>7, JobGoesOn
  <1>9. CASE HasRow(a)
    <2>1. UNCHANGED <<rows, reserved, lastTab, given>>
      BY <1>1, <1>9 DEF Allocate
    <2>2. /\ rows' \in [Executor -> ShownRow \cup {NoRow}]
          /\ \A b \in Executor : /\ HasRow(b)' <=> HasRow(b)
                                 /\ HasRow(b) => rows'[b].slot = rows[b].slot
      BY <2>1 DEF HasRow, ShownInv, ShownTypeOK
    <2>3. ShownTypeOK'
      BY <1>5, <1>8, <2>2 DEF ShownInv, ShownTypeOK
    <2>4. QED BY <1>5, <1>8, <2>1, <2>2, <2>3, PlacesStay DEF ShownInv
  <1>10. CASE ~HasRow(a)
    <2>1. PICK w : w = [slot |-> slot, desired |-> job[c].label, applied |-> 0, synced |-> FALSE]
      OBVIOUS
    <2>2. /\ Reserve(slot) /\ rows' = [rows EXCEPT ![a] = w] /\ given' = given \cup {slot}
      BY <1>1, <1>2, <1>10, <2>1 DEF Allocate
    <2>3. /\ slot \in Place /\ slot \notin given
          /\ slot[1] \notin Foreign /\ slot[2] < MaxPanes
          /\ \/ slot[1] \in DOMAIN reserved /\ slot[2] = reserved[slot[1]]
             \/ slot[1] = 0 /\ 0 \notin DOMAIN reserved /\ slot[2] = 1
             \/ slot[1] > lastTab /\ slot[2] = 0
      BY <1>2, <1>4, ChosenIsNew
    <2>4. PICK g \in Nat, n \in Nat : slot = <<g, n>>
      BY <2>3 DEF Place
    <2>5. slot[1] = g /\ slot[2] = n
      BY <2>4
    <2>6. w \in ShownRow /\ w.slot = slot
      BY <1>4, <2>1, <2>3 DEF ShownRow
    <2>7. /\ rows' \in [Executor -> ShownRow \cup {NoRow}]
          /\ \A b \in Executor : rows'[b] = IF b = a THEN w ELSE rows[b]
      BY <1>4, <2>2, <2>6 DEF ShownInv, ShownTypeOK
    <2>8. \A b \in Executor : HasRow(b)' <=> b = a \/ HasRow(b)
      BY <2>6, <2>7, NoRowIsNone DEF HasRow
    <2>9. /\ lastTab \in Nat /\ given \subseteq Place /\ DOMAIN reserved \subseteq Nat
          /\ \A h \in DOMAIN reserved : /\ reserved[h] \in Nat \ {0}
                                        /\ h <= lastTab /\ h \notin Foreign
          /\ \A s \in given : /\ s[1] <= lastTab
                              /\ s[1] = 0 => 0 \in DOMAIN reserved
                              /\ s[1] \in DOMAIN reserved => s[2] < reserved[s[1]]
      BY DEF ShownInv, TabsTyped, PlacesAreCounted
    <2>10. /\ DOMAIN reserved' = DOMAIN reserved \cup {g}
           /\ reserved' = [h \in DOMAIN reserved' |-> reserved'[h]]
           /\ \A h \in DOMAIN reserved' : reserved'[h] = IF h = g THEN n + 1 ELSE reserved[h]
           /\ lastTab' = IF n = 0 THEN g ELSE lastTab
      BY <2>2, <2>5 DEF Reserve
    <2>11. lastTab <= lastTab' /\ lastTab' \in Nat /\ g <= lastTab'
      BY <2>3, <2>5, <2>9, <2>10
    <2>12. TabsTyped'
      <3>1. given' \subseteq Place
        BY <2>2, <2>3, <2>9
      <3>2. \A h \in DOMAIN reserved' : reserved'[h] \in Nat \ {0}
        BY <2>9, <2>10
      <3>3. QED BY <2>4, <2>9, <2>10, <2>11, <3>1, <3>2 DEF TabsTyped
    <2>13. PlacesAreCounted'
      <3>1. \A h \in DOMAIN reserved' : h <= lastTab' /\ h \notin Foreign
        BY <2>3, <2>5, <2>9, <2>10, <2>11
      <3>2. ASSUME NEW s \in given'
            PROVE  /\ s[1] <= lastTab'
                   /\ s[1] = 0 => 0 \in DOMAIN reserved'
                   /\ s[1] \in DOMAIN reserved' => s[2] < reserved'[s[1]]
        <4>1. CASE s = slot
          BY <2>5, <2>10, <2>11, <4>1
        <4>2. CASE s \in given /\ s[1] = g
          <5>1. g <= lastTab
            BY <2>9, <4>2
          <5>2. g \in DOMAIN reserved /\ n = reserved[g]
            BY <2>3, <2>5, <2>9, <4>2, <5>1
          <5>3. s[2] < n /\ s[2] \in Nat
            BY <2>9, <4>2, <5>2 DEF Place
          <5>4. QED BY <2>9, <2>10, <2>11, <4>2, <5>2, <5>3
        <4>3. CASE s \in given /\ s[1] # g
          <5>1. s[1] \in Nat
            BY <2>9, <4>3 DEF Place
          <5>2. QED BY <2>9, <2>10, <2>11, <4>3, <5>1
        <4>4. QED BY <2>2, <4>1, <4>2, <4>3
      <3>3. QED BY <3>1, <3>2 DEF PlacesAreCounted
    <2>14. RowsAreGiven'
      <3>1. rows'[a].slot \in given' /\ TabOf(rows'[a]) \in DOMAIN reserved'
        BY <1>4, <2>2, <2>5, <2>6, <2>7, <2>10 DEF TabOf
      <3>2. \A b \in Executor : HasRow(b) =>
              rows[b].slot \in given' /\ TabOf(rows[b]) \in DOMAIN reserved'
        BY <2>2, <2>10 DEF ShownInv, RowsAreGiven
      <3>3. \A b \in Executor \ {a} : rows'[b] = rows[b]
        BY <2>7
      <3>4. QED BY <2>8, <3>1, <3>2, <3>3 DEF RowsAreGiven, TabOf
    <2>15. GenerationsAreArchived'
      BY <1>4, <1>5, <2>8 DEF ShownInv, GenerationsAreArchived
    <2>16. ShownTypeOK'
      BY <1>5, <1>8, <2>7 DEF ShownInv, ShownTypeOK
    <2>17. PanesAreNotReused
      <3>1. ASSUME NEW b \in Executor, ~HasRow(b), HasRow(b)'
            PROVE  rows'[b].slot = slot
        BY <2>6, <2>7, <2>8, <3>1
      <3>2. QED BY <2>3, <3>1 DEF PanesAreNotReused, TabOf, PaneOf
    <2>18. QED BY <1>8, <2>12, <2>13, <2>14, <2>15, <2>16, <2>17 DEF ShownInv
  <1>11. QED BY <1>9, <1>10


-----------------------------------------------------------------------------
(* Mutations: the rows of stopped actors go to the archive.                *)

\* Rows leave, the reservations of groups that are empty too, and what is archived is of a
\* generation that is over.
LEMMA ArchiveKeeps ==
  ASSUME ShownInv, executors' \in [Executor -> [epoch : Nat, healthy : BOOLEAN,
                                   session : {"none", "launching", "present", "stopped"}]],
         ArchivePresentations(executors'), UNCHANGED <<lastTab, given>>,
         \A a \in Executor :
           /\ executors[a].epoch <= executors'[a].epoch
           /\ Alive(executors'[a]) => archive[a].epoch < executors'[a].epoch
  PROVE  /\ rows' \in [Executor -> ShownRow \cup {NoRow}]
         /\ archive' \in [Executor -> [epoch : Nat, row : ShownRow \cup {NoRow}]]
         /\ TabsTyped' /\ PlacesAreCounted' /\ RowsAreGiven' /\ GenerationsAreArchived'
         /\ PanesAreNotReused
  <1>1. PICK L : L = Departed(executors')
    OBVIOUS
  <1>2. /\ archive' = [a \in Executor |-> IF a \in L
                         THEN [epoch |-> executors'[a].epoch, row |-> rows[a]] ELSE archive[a]]
        /\ rows' = [a \in Executor |-> IF a \in L THEN NoRow ELSE rows[a]]
        /\ reserved' = [g \in DOMAIN reserved \ Emptied(L) |-> reserved[g]]
    BY <1>1 DEF ArchivePresentations
  <1>3. \A a \in L : a \in Executor /\ ~Alive(executors'[a])
    BY <1>1 DEF Departed, Alive
  <1>4. rows \in [Executor -> ShownRow \cup {NoRow}]
        /\ archive \in [Executor -> [epoch : Nat, row : ShownRow \cup {NoRow}]]
    BY DEF ShownInv, ShownTypeOK
  <1>5. rows' \in [Executor -> ShownRow \cup {NoRow}]
    BY <1>2, <1>4
  <1>6. archive' \in [Executor -> [epoch : Nat, row : ShownRow \cup {NoRow}]]
    BY <1>2, <1>4
  <1>7. \A a \in Executor : /\ HasRow(a)' => HasRow(a) /\ a \notin L /\ rows'[a] = rows[a]
                            /\ a \notin L => rows'[a] = rows[a]
    BY <1>2 DEF HasRow
  <1>8. TabsTyped'
    BY <1>2 DEF ShownInv, TabsTyped
  <1>9. PlacesAreCounted'
    <2>1. DOMAIN reserved' \subseteq DOMAIN reserved
          /\ \A g \in DOMAIN reserved' : reserved'[g] = reserved[g]
      BY <1>2
    <2>2. 0 \in DOMAIN reserved => 0 \in DOMAIN reserved'
      BY <1>2 DEF Emptied
    <2>3. QED BY <2>1, <2>2 DEF ShownInv, PlacesAreCounted
  <1>10. RowsAreGiven'
    <2> SUFFICES ASSUME NEW a \in Executor, HasRow(a)'
                 PROVE  rows'[a].slot \in given' /\ TabOf(rows'[a]) \in DOMAIN reserved'
      BY DEF RowsAreGiven, TabOf
    <2>1. HasRow(a) /\ a \notin L /\ rows'[a] = rows[a]
      BY <1>7
    <2>2. TabOf(rows[a]) \notin Emptied(L)
      BY <2>1 DEF Emptied
    <2>3. rows[a].slot \in given /\ TabOf(rows[a]) \in DOMAIN reserved
      BY <2>1 DEF ShownInv, RowsAreGiven
    <2>4. QED BY <1>2, <2>1, <2>2, <2>3
  <1>11. GenerationsAreArchived'
    <2> SUFFICES ASSUME NEW a \in Executor
                 PROVE  /\ archive'[a].epoch <= executors'[a].epoch
                        /\ HasRow(a)' \/ Alive(executors'[a]) =>
                             archive'[a].epoch < executors'[a].epoch
      BY DEF GenerationsAreArchived, Alive
    <2>1. /\ archive[a].epoch <= executors[a].epoch
          /\ HasRow(a) => archive[a].epoch < executors[a].epoch
          /\ archive[a].epoch \in Nat /\ executors[a].epoch \in Nat /\ executors'[a].epoch \in Nat
      BY DEF ShownInv, GenerationsAreArchived, ShownTypeOK
    <2>2. CASE a \in L
      <3>1. archive'[a].epoch = executors'[a].epoch /\ ~HasRow(a)' /\ ~Alive(executors'[a])
        BY <1>2, <1>3, <1>7, <2>2
      <3>2. QED BY <2>1, <3>1
    <2>3. CASE a \notin L
      <3>1. archive'[a] = archive[a] /\ (HasRow(a)' => HasRow(a))
        BY <1>2, <1>7, <2>3
      <3>2. QED BY <2>1, <3>1
    <2>4. QED BY <2>2, <2>3
  <1>12. PanesAreNotReused
    BY <1>7 DEF PanesAreNotReused
  <1>13. QED BY <1>5, <1>6, <1>8, <1>9, <1>10, <1>11, <1>12

\* What the steps of the Primary's command do to the actor they are about.
LEMMA PrimaryGoesOn ==
  ASSUME ShownInv, ~Overtaken', NEW j \in Job, job' = [job EXCEPT !["primary"] = j],
         j.step # "idle" => j.actor \in Executor,
         j.step \in {"prepare", "allocate"} => Alive(executors'[j.actor]),
         j.step # "launch"
  PROVE  /\ job' \in [Commands -> Job]
         /\ \A d \in Commands : job'[d].step # "idle" => job'[d].actor \in Executor
         /\ JobsAreOfTheLiving'
  <1>1. /\ job' \in [Commands -> Job]
        /\ \A d \in Commands : job'[d] = IF d = "primary" THEN j ELSE job[d]
        /\ "primary" \in Commands
    BY DEF ShownInv, ShownTypeOK, Commands
  <1>2. \A d \in Commands : job'[d].step # "idle" => job'[d].actor \in Executor
    BY <1>1 DEF ShownInv, ShownTypeOK
  <1>3. \A d \in Caller : job'[d].step \in {"prepare", "allocate"} =>
          executors'[job'[d].actor].healthy
    BY DEF Overtaken
  <1>4. \A d \in Caller \ {"primary"} : job'[d].step \notin {"launch", "stop"}
    BY <1>1 DEF ShownInv, JobsAreOfTheLiving, Commands
  <1>5. QED BY <1>1, <1>2, <1>3, <1>4 DEF JobsAreOfTheLiving

LEMMA PrimaryIsCommand == "primary" \in Commands
  BY DEF Commands

LEMMA BeginLaunchKeeps ==
  ASSUME ShownInv, ~Overtaken', NEW a \in Executor, BeginLaunch(a)
  PROVE  ShownInv' /\ PanesAreNotReused
  <1>1. PICK e : e = executors[a].epoch
    OBVIOUS
  <1>2. e \in Nat
    BY <1>1 DEF ShownInv, ShownTypeOK
  <1>3. /\ executors' = [executors EXCEPT ![a] =
                           [epoch |-> e + 1, healthy |-> FALSE, session |-> "launching"]]
        /\ ArchivePresentations(executors') /\ UNCHANGED <<title, lastTab, given>>
    BY <1>1 DEF BeginLaunch
  <1>4. PICK j : j = [step |-> "prepare", actor |-> a, epoch |-> e + 1, label |-> 0, free |-> {}]
    OBVIOUS
  <1>5. job' = [job EXCEPT !["primary"] = j]
    BY <1>1, <1>4 DEF BeginLaunch, ShownInv, ShownTypeOK
  <1>6. /\ executors' \in [Executor -> [epoch : Nat, healthy : BOOLEAN,
                           session : {"none", "launching", "present", "stopped"}]]
        /\ \A b \in Executor \ {a} : executors'[b] = executors[b]
        /\ executors'[a].epoch = e + 1 /\ executors'[a].session = "launching"
    BY <1>2, <1>3 DEF ShownInv, ShownTypeOK
  <1>7. \A b \in Executor :
          /\ executors[b].epoch <= executors'[b].epoch
          /\ Alive(executors'[b]) => archive[b].epoch < executors'[b].epoch
    <2>1. archive[a].epoch <= e /\ archive[a].epoch \in Nat
      BY <1>1 DEF ShownInv, GenerationsAreArchived, ShownTypeOK
    <2>2. ASSUME NEW b \in Executor \ {a}
          PROVE  /\ executors[b].epoch <= executors'[b].epoch
                 /\ Alive(executors'[b]) => archive[b].epoch < executors'[b].epoch
      <3>1. executors'[b] = executors[b] /\ executors[b].epoch \in Nat
        BY <1>6 DEF ShownInv, ShownTypeOK
      <3>2. QED BY <3>1 DEF ShownInv, GenerationsAreArchived
    <2>3. QED BY <1>1, <1>2, <1>6, <2>1, <2>2
  <1>8. /\ rows' \in [Executor -> ShownRow \cup {NoRow}]
        /\ archive' \in [Executor -> [epoch : Nat, row : ShownRow \cup {NoRow}]]
        /\ TabsTyped' /\ PlacesAreCounted' /\ RowsAreGiven' /\ GenerationsAreArchived'
        /\ PanesAreNotReused
    BY <1>3, <1>6, <1>7, ArchiveKeeps
  <1>9. j \in Job /\ j.step = "prepare" /\ j.actor = a /\ Alive(executors'[a])
    BY <1>2, <1>4, <1>6 DEF Job, PresentationStep, Alive
  <1>10. /\ job' \in [Commands -> Job]
         /\ \A d \in Commands : job'[d].step # "idle" => job'[d].actor \in Executor
         /\ JobsAreOfTheLiving'
    BY <1>5, <1>9, PrimaryGoesOn
  <1>11. ShownTypeOK'
    BY <1>3, <1>6, <1>8, <1>10 DEF ShownInv, ShownTypeOK
  <1>12. QED BY <1>8, <1>10, <1>11 DEF ShownInv

LEMMA StartSessionKeeps ==
  ASSUME ShownInv, ~Overtaken', StartSession
  PROVE  ShownInv' /\ PanesAreNotReused
  <1>1. PICK a : a = job["primary"].actor
    OBVIOUS
  <1>2. a \in Executor /\ executors[a].session = "launching"
    BY <1>1, PrimaryIsCommand DEF StartSession, ShownInv, ShownTypeOK, JobsAreOfTheLiving
  <1>3. PICK x : x = [executors[a] EXCEPT !.healthy = TRUE, !.session = "present"]
    OBVIOUS
  <1>4. /\ executors' = [executors EXCEPT ![a] = x]
        /\ ArchivePresentations(executors') /\ UNCHANGED <<title, lastTab, given>>
        /\ job' = [job EXCEPT !["primary"] = NoJob]
    BY <1>1, <1>2, <1>3 DEF StartSession, ShownInv, ShownTypeOK
  <1>5. x \in [epoch : Nat, healthy : BOOLEAN,
               session : {"none", "launching", "present", "stopped"}]
        /\ x.epoch = executors[a].epoch
    BY <1>2, <1>3 DEF ShownInv, ShownTypeOK
  <1>6. executors' \in [Executor -> [epoch : Nat, healthy : BOOLEAN,
                        session : {"none", "launching", "present", "stopped"}]]
        /\ \A b \in Executor : executors'[b] = IF b = a THEN x ELSE executors[b]
    BY <1>4, <1>5 DEF ShownInv, ShownTypeOK
  <1>7. \A b \in Executor :
          /\ executors[b].epoch <= executors'[b].epoch
          /\ Alive(executors'[b]) => archive[b].epoch < executors'[b].epoch
    <2>1. \A b \in Executor : executors'[b].epoch = executors[b].epoch
                              /\ executors[b].epoch \in Nat
      BY <1>5, <1>6 DEF ShownInv, ShownTypeOK
    <2>2. \A b \in Executor : Alive(executors'[b]) => Alive(executors[b])
      BY <1>2, <1>6 DEF Alive
    <2>3. QED BY <2>1, <2>2 DEF ShownInv, GenerationsAreArchived
  <1>8. /\ rows' \in [Executor -> ShownRow \cup {NoRow}]
        /\ archive' \in [Executor -> [epoch : Nat, row : ShownRow \cup {NoRow}]]
        /\ TabsTyped' /\ PlacesAreCounted' /\ RowsAreGiven' /\ GenerationsAreArchived'
        /\ PanesAreNotReused
    BY <1>4, <1>6, <1>7, ArchiveKeeps
  <1>9. /\ job' \in [Commands -> Job]
        /\ \A d \in Commands : job'[d].step # "idle" => job'[d].actor \in Executor
        /\ JobsAreOfTheLiving'
    BY <1>4, NoJobIsIdle, PrimaryGoesOn
  <1>10. ShownTypeOK'
    BY <1>4, <1>6, <1>8, <1>9 DEF ShownInv, ShownTypeOK
  <1>11. QED BY <1>8, <1>9, <1>10 DEF ShownInv

LEMMA StopSessionKeeps ==
  ASSUME ShownInv, ~Overtaken', NEW a \in Executor, StopSession(a)
  PROVE  ShownInv' /\ PanesAreNotReused
  <1>1. PICK x : x = [executors[a] EXCEPT !.session = "stopped"]
    OBVIOUS
  <1>2. /\ executors' = [executors EXCEPT ![a] = x] /\ executors[a].session = "present"
        /\ UNCHANGED <<title, rows, reserved, lastTab, archive, given>>
    BY <1>1 DEF StopSession, ShownInv, ShownTypeOK
  <1>3. PICK j : j = [job["primary"] EXCEPT !.step = "stop", !.actor = a]
    OBVIOUS
  <1>4. j \in Job /\ j.step = "stop" /\ j.actor = a
    BY <1>3, PrimaryIsCommand DEF ShownInv, ShownTypeOK, Job, PresentationStep
  <1>5. job' = [job EXCEPT !["primary"] = j]
    BY <1>3, PrimaryIsCommand DEF StopSession, ShownInv, ShownTypeOK
  <1>6. /\ x \in [epoch : Nat, healthy : BOOLEAN,
                  session : {"none", "launching", "present", "stopped"}]
        /\ x.epoch = executors[a].epoch
    BY <1>1 DEF ShownInv, ShownTypeOK
  <1>7. executors' \in [Executor -> [epoch : Nat, healthy : BOOLEAN,
                        session : {"none", "launching", "present", "stopped"}]]
        /\ \A b \in Executor : executors'[b] = IF b = a THEN x ELSE executors[b]
    BY <1>2, <1>6 DEF ShownInv, ShownTypeOK
  <1>8. GenerationsAreArchived'
    <2>1. \A b \in Executor : executors'[b].epoch = executors[b].epoch
      BY <1>6, <1>7
    <2>2. \A b \in Executor : Alive(executors'[b]) => Alive(executors[b])
      BY <1>2, <1>7 DEF Alive
    <2>3. \A b \in Executor : HasRow(b)' <=> HasRow(b)
      BY <1>2 DEF HasRow
    <2>4. QED BY <1>2, <2>1, <2>2, <2>3 DEF ShownInv, GenerationsAreArchived
  <1>9. /\ job' \in [Commands -> Job]
        /\ \A d \in Commands : job'[d].step # "idle" => job'[d].actor \in Executor
        /\ JobsAreOfTheLiving'
    BY <1>4, <1>5, PrimaryGoesOn
  <1>10. ShownTypeOK'
    BY <1>2, <1>7, <1>9 DEF ShownInv, ShownTypeOK
  <1>11. TabsTyped' /\ PlacesAreCounted' /\ RowsAreGiven'
    BY <1>2 DEF ShownInv, TabsTyped, PlacesAreCounted, RowsAreGiven, HasRow
  <1>12. PanesAreNotReused
    BY <1>2 DEF PanesAreNotReused, HasRow
  <1>13. QED BY <1>8, <1>9, <1>10, <1>11, <1>12 DEF ShownInv

LEMMA StopActorShown ==
  ASSUME ShownInv, ~Overtaken', StopActor
  PROVE  ShownInv' /\ PanesAreNotReused
  <1>1. PICK a : a = job["primary"].actor
    OBVIOUS
  <1>2. a \in Executor
    BY <1>1, PrimaryIsCommand DEF StopActor, ShownInv, ShownTypeOK
  <1>3. PICK x : x = [executors[a] EXCEPT !.healthy = FALSE]
    OBVIOUS
  <1>4. /\ executors' = [executors EXCEPT ![a] = x]
        /\ ArchivePresentations(executors') /\ UNCHANGED <<title, lastTab, given>>
        /\ job' = [job EXCEPT !["primary"] = NoJob]
    BY <1>1, <1>2, <1>3 DEF StopActor, ShownInv, ShownTypeOK
  <1>5. /\ x \in [epoch : Nat, healthy : BOOLEAN,
                  session : {"none", "launching", "present", "stopped"}]
        /\ x.epoch = executors[a].epoch /\ (Alive(x) => Alive(executors[a]))
    <2>1. executors[a] \in [epoch : Nat, healthy : BOOLEAN,
                            session : {"none", "launching", "present", "stopped"}]
      BY <1>2 DEF ShownInv, ShownTypeOK
    <2>2. x.epoch = executors[a].epoch /\ x.healthy = FALSE
          /\ x.session = executors[a].session
      BY <1>3, <2>1
    <2>3. x \in [epoch : Nat, healthy : BOOLEAN,
                 session : {"none", "launching", "present", "stopped"}]
      BY <1>3, <2>1
    <2>4. Alive(x) => Alive(executors[a])
      BY <2>2 DEF Alive
    <2>5. QED BY <2>2, <2>3, <2>4
  <1>6. executors' \in [Executor -> [epoch : Nat, healthy : BOOLEAN,
                        session : {"none", "launching", "present", "stopped"}]]
        /\ \A b \in Executor : executors'[b] = IF b = a THEN x ELSE executors[b]
    BY <1>4, <1>5 DEF ShownInv, ShownTypeOK
  <1>7. \A b \in Executor :
          /\ executors[b].epoch <= executors'[b].epoch
          /\ Alive(executors'[b]) => archive[b].epoch < executors'[b].epoch
    <2>1. \A b \in Executor : executors'[b].epoch = executors[b].epoch
                              /\ executors[b].epoch \in Nat
      BY <1>5, <1>6 DEF ShownInv, ShownTypeOK
    <2>2. \A b \in Executor : Alive(executors'[b]) => Alive(executors[b])
      BY <1>5, <1>6
    <2>3. QED BY <2>1, <2>2 DEF ShownInv, GenerationsAreArchived
  <1>8. /\ rows' \in [Executor -> ShownRow \cup {NoRow}]
        /\ archive' \in [Executor -> [epoch : Nat, row : ShownRow \cup {NoRow}]]
        /\ TabsTyped' /\ PlacesAreCounted' /\ RowsAreGiven' /\ GenerationsAreArchived'
        /\ PanesAreNotReused
    BY <1>4, <1>6, <1>7, ArchiveKeeps
  <1>9. /\ job' \in [Commands -> Job]
        /\ \A d \in Commands : job'[d].step # "idle" => job'[d].actor \in Executor
        /\ JobsAreOfTheLiving'
    BY <1>4, NoJobIsIdle, PrimaryGoesOn
  <1>10. ShownTypeOK'
    BY <1>4, <1>6, <1>8, <1>9 DEF ShownInv, ShownTypeOK
  <1>11. QED BY <1>8, <1>9, <1>10 DEF ShownInv

LEMMA ChangeTitleKeeps ==
  ASSUME ShownInv, NEW a \in Executor, ChangeTitle(a)
  PROVE  ShownInv' /\ PanesAreNotReused
  <1>1. /\ UNCHANGED <<executors, lastTab, job, given>> /\ ArchivePresentations(executors)
        /\ title' = [title EXCEPT ![a] = @ + 1]
    BY DEF ChangeTitle
  <1>2. title' \in [Executor -> Nat]
    BY <1>1 DEF ShownInv, ShownTypeOK
  <1>3. ArchivePresentations(executors')
    BY <1>1 DEF ArchivePresentations
  <1>4. executors' \in [Executor -> [epoch : Nat, healthy : BOOLEAN,
                        session : {"none", "launching", "present", "stopped"}]]
    BY <1>1 DEF ShownInv, ShownTypeOK
  <1>5. \A b \in Executor :
          /\ executors[b].epoch <= executors'[b].epoch
          /\ Alive(executors'[b]) => archive[b].epoch < executors'[b].epoch
    BY <1>1, <1>4 DEF ShownInv, GenerationsAreArchived
  <1>6. /\ rows' \in [Executor -> ShownRow \cup {NoRow}]
        /\ archive' \in [Executor -> [epoch : Nat, row : ShownRow \cup {NoRow}]]
        /\ TabsTyped' /\ PlacesAreCounted' /\ RowsAreGiven' /\ GenerationsAreArchived'
        /\ PanesAreNotReused
    BY <1>1, <1>3, <1>4, <1>5, ArchiveKeeps
  <1>7. ShownTypeOK' /\ JobsAreOfTheLiving'
    BY <1>1, <1>2, <1>4, <1>6 DEF ShownInv, ShownTypeOK, JobsAreOfTheLiving
  <1>8. QED BY <1>6, <1>7 DEF ShownInv

LEMMA ShownStep ==
  ASSUME ShownInv, [PromptNext]_presentationVars
  PROVE  ShownInv' /\ [PanesAreNotReused]_presentationVars
  <1>1. CASE PromptNext
    <2>1. PresentationNext /\ ~Overtaken'
      BY <1>1 DEF PromptNext
    <2>2. ASSUME NEW c \in Commands,
                 Prepare(c) \/ Allocate(c) \/ Label(c) \/ Relabel(c) \/ MarkApplied(c)
          PROVE  ShownInv' /\ PanesAreNotReused
      BY <2>1, <2>2, PrepareKeeps, AllocateKeeps, LabelKeeps, RelabelKeeps, MarkKeeps
    <2>3. ASSUME NEW c \in Commands, NEW a \in Executor, BeginRefresh(c, a)
          PROVE  ShownInv' /\ PanesAreNotReused
      BY <2>1, <2>3, BeginRefreshKeeps
    <2>4. CASE StartSession \/ StopActor
      BY <2>1, <2>4, StartSessionKeeps, StopActorShown
    <2>5. ASSUME NEW a \in Executor, BeginLaunch(a) \/ StopSession(a) \/ ChangeTitle(a)
          PROVE  ShownInv' /\ PanesAreNotReused
      BY <2>1, <2>5, BeginLaunchKeeps, StopSessionKeeps, ChangeTitleKeeps
    <2>6. QED BY <2>1, <2>2, <2>3, <2>4, <2>5 DEF PresentationNext, Commands
  <1>2. CASE UNCHANGED presentationVars
    <2> USE <1>2 DEF presentationVars
    <2>1. ShownTypeOK' /\ TabsTyped'
      BY DEF ShownInv, ShownTypeOK, TabsTyped
    <2>2. PlacesAreCounted' /\ RowsAreGiven'
      BY DEF ShownInv, PlacesAreCounted, RowsAreGiven, HasRow
    <2>3. GenerationsAreArchived' /\ JobsAreOfTheLiving'
      BY DEF ShownInv, GenerationsAreArchived, JobsAreOfTheLiving, HasRow
    <2>4. QED BY <2>1, <2>2, <2>3 DEF ShownInv
  <1>3. QED BY <1>1, <1>2

LEMMA ShownInitially == PresentationInit => ShownInv
  <1> SUFFICES ASSUME PresentationInit PROVE ShownInv
    OBVIOUS
  <1>1. ShownTypeOK
    BY NoJobIsIdle DEF PresentationInit, ShownTypeOK, Commands
  <1>2. DOMAIN reserved = {} /\ lastTab = 0 /\ given = {}
    BY DEF PresentationInit
  <1>3. TabsTyped /\ PlacesAreCounted
    BY <1>2 DEF TabsTyped, PlacesAreCounted, PresentationInit
  <1>4. \A a \in Executor : ~HasRow(a) /\ ~Alive(executors[a])
                            /\ archive[a].epoch = 0 /\ executors[a].epoch = 0
    BY DEF PresentationInit, HasRow, Alive
  <1>5. RowsAreGiven /\ GenerationsAreArchived
    BY <1>4 DEF RowsAreGiven, GenerationsAreArchived
  <1>6. JobsAreOfTheLiving
    BY NoJobIsIdle DEF PresentationInit, JobsAreOfTheLiving
  <1>7. QED BY <1>1, <1>3, <1>5, <1>6 DEF ShownInv

\* Of any number of actors, other commands, panes to a tab and tabs of a person's: no pane
\* is given twice, not even after its row or its whole group is gone, nor in a tab that is
\* not AGSV's; the group of a row keeps its reservation; and the row of a stopped actor can
\* be archived, so it keeps no mutation from its commit (allocate_session_presentation,
\* archive_terminal_presentation_metadata, retain_latest_session_presentation).
THEOREM PresentationStays == PresentationSpec => PresentationIsKept
  <1>1. PresentationSpec => []ShownInv
    BY ShownInitially, ShownStep, PTL DEF PresentationSpec
  <1>2. ShownInv => RowsAreReserved /\ MutationsStayPossible
    <2>1. ASSUME ShownInv PROVE RowsAreReserved
      <3>1. SUFFICES ASSUME NEW a \in Executor, HasRow(a)
                     PROVE  /\ TabOf(rows[a]) \in DOMAIN reserved
                            /\ PaneOf(rows[a]) < reserved[TabOf(rows[a])]
                            /\ TabOf(rows[a]) <= lastTab
        BY DEF RowsAreReserved
      <3>2. QED BY <2>1, <3>1 DEF ShownInv, RowsAreGiven, PlacesAreCounted, TabOf, PaneOf
    <2>2. ASSUME ShownInv PROVE MutationsStayPossible
      BY <2>2 DEF ShownInv, GenerationsAreArchived, MutationsStayPossible, Departed, Retainable
    <2>3. QED BY <2>1, <2>2
  <1>3. ShownInv /\ [PromptNext]_presentationVars => [PanesAreNotReused]_presentationVars
    BY ShownStep
  <1>4. QED BY <1>1, <1>2, <1>3, PTL DEF PresentationSpec, PresentationIsKept

=============================================================================
