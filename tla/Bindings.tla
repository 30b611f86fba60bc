------------------------------ MODULE Bindings ------------------------------
(***************************************************************************)
(* Who a caller is: the binding of a terminal or an agent's pane to an      *)
(* actor generation, the lease of the Primary, and the session row through  *)
(* which that generation is reached (agsv-control: engine.rs, store.rs).    *)
(*                                                                         *)
(* Three tables must agree: the domain (`actor`, `active`), `actor_bindings`*)
(* and `sessions`.  A command takes the file locks of its kind, then reads  *)
(* and writes them in transactions of its own; it may die after any of them.*)
(* The Primary of a terminal is named after it, so a caller also stands for *)
(* the actor that it becomes unless it asks for another.                    *)
(***************************************************************************)
EXTENDS Naturals, FiniteSets

CONSTANTS
  Invoker,        \* slots for concurrent invocations
  Human, Agent,   \* terminals of people, panes of launched executors
  Nothing,
  MaxEpoch,       \* generations of an actor
  MaxLapses,      \* times a heartbeat runs out
  MaxInvoked,     \* invocations
  MaxDeaths       \* of them, those that die half way

ASSUME BindingAssumption ==
  /\ Human \cap Agent = {} /\ Nothing \notin Human \cup Agent \cup [id : Human \cup Agent, epoch : Nat]
  /\ MaxEpoch \in Nat \ {0} /\ MaxLapses \in Nat /\ MaxInvoked \in Nat /\ MaxDeaths \in Nat

Callers == Human \cup Agent
Actors == Callers

VARIABLES
  actor,      \* the generation, status and heartbeat of each actor
  active,     \* the Primary that holds the lease
  binding,    \* actor_bindings
  row,        \* the session row of each actor
  invoked,    \* running invocations
  lapses, issued, deaths

tables == <<actor, active, binding, row>>
bindingVars == <<tables, invoked, lapses, issued, deaths>>

-----------------------------------------------------------------------------
(* Values.                                                                 *)

Operation == {"bootstrap", "work", "stop", "shutdown"}
BindingStage == {"workspace", "primary", "caller", "actors", "fence", "expire", "recover",
          "authenticate", "beat", "session", "write", "bootstrap", "activate",
          "adopt", "bind", "run", "row", "actor", "dispatched"}
Mode == {"none", "Shared", "Exclusive"}
Ref == [id : Actors, epoch : 1..MaxEpoch]
ActorState == [epoch : 1..MaxEpoch, beating : BOOLEAN,
          status : {"Absent", "Healthy", "Stale", "Revoked", "Stopped"}]
Row == [status : {"none", "idle", "stopped"}, epoch : 1..MaxEpoch]
FileLock == [kind : {"caller", "actor"}, of : Callers]
Invocation ==
  [stage : BindingStage, caller : Callers, op : Operation, of : Actors \cup {Nothing},
   workspace : Mode, primary : Mode, wants : Mode, expires : BOOLEAN,
   locks : SUBSET FileLock, ref : Ref \cup {Nothing}, fresh : BOOLEAN]

ASSUME InvocationAssumption == Nothing \notin Invocation

RefOf(a) == [id |-> a, epoch |-> actor[a].epoch]
IsCurrent(ref) == actor[ref.id].status # "Absent" /\ ref.epoch = actor[ref.id].epoch
HoldsLease(ref) == active = ref.id /\ IsCurrent(ref)
LeaseExpired(a) == actor[a].status = "Healthy" /\ ~actor[a].beating

BindingInit ==
  /\ actor = [a \in Actors |->
       IF a \in Agent THEN [epoch |-> 1, status |-> "Healthy", beating |-> TRUE]
                      ELSE [epoch |-> 1, status |-> "Absent", beating |-> FALSE]]
  /\ active = Nothing
  /\ binding = [c \in Callers |-> Nothing]
  /\ row = [a \in Actors |-> IF a \in Agent THEN [status |-> "idle", epoch |-> 1]
                                           ELSE [status |-> "none", epoch |-> 1]]
  /\ invoked = [p \in Invoker |-> Nothing]
  /\ lapses = 0 /\ issued = 0 /\ deaths = 0

-----------------------------------------------------------------------------
(* Admission: the workspace gate, the Primary's lock, the caller's and the  *)
(* actors'.  The mode of the second is decided before it is waited for.     *)

InStage(p, stage) == invoked[p] # Nothing /\ invoked[p].stage = stage
Becomes(p, i) == invoked' = [invoked EXCEPT ![p] = i]
Goto(p, stage) == Becomes(p, [invoked[p] EXCEPT !.stage = stage])
Leave(p) == Becomes(p, Nothing)

Enter(p, c, op, of) ==
  /\ invoked[p] = Nothing /\ issued < MaxInvoked
  /\ of # Nothing => \/ op = "bootstrap" /\ c \in Human /\ of \in Human \ {c}
                     \/ op = "stop" /\ c \in Human
  /\ op = "stop" => of # Nothing
  /\ Becomes(p, [stage |-> "workspace", caller |-> c, op |-> op, of |-> of,
                 workspace |-> "none", primary |-> "none", wants |-> "none",
                 expires |-> FALSE, locks |-> {}, ref |-> Nothing, fresh |-> TRUE])
  /\ issued' = issued + 1
  /\ UNCHANGED <<tables, lapses, deaths>>

Compatible(wanted, held) ==
  CASE wanted = "none" -> TRUE
    [] wanted = "Shared" -> held # "Exclusive"
    [] wanted = "Exclusive" -> held = "none"

WorkspaceMode(op) == IF op = "shutdown" THEN "Exclusive" ELSE "Shared"

\* A caller is its binding's word; the store says whether that is the present
\* generation of a Primary.
CallerIsPrimary(c) ==
  binding[c] # Nothing /\ binding[c].id \in Human /\ IsCurrent(binding[c])
NeedsAuthentication(op) == op # "bootstrap"

PrimaryMode_Shared(c, op) ==
  [mode |-> IF CallerIsPrimary(c) \/ binding[c] = Nothing THEN "Shared" ELSE "none",
   expires |-> CallerIsPrimary(c) \/ binding[c] = Nothing]
PrimaryMode(c, op) ==
  LET whole == [mode |-> "Exclusive", expires |-> TRUE]
      none == [mode |-> "none", expires |-> FALSE]
  IN IF op = "bootstrap"
     THEN IF CallerIsPrimary(c) \/ binding[c] = Nothing THEN whole ELSE none
     ELSE IF CallerIsPrimary(c) THEN whole
          ELSE IF op = "stop" \/ (op = "work" /\ c \in Human)
               THEN [mode |-> "Shared", expires |-> FALSE] ELSE none

Others(p) == {q \in Invoker \ {p} : invoked[q] # Nothing}

\* Whom an invocation waits for, at the stage where it takes a lock.
CallerLock(c) == [kind |-> "caller", of |-> c]
ActorLock(a) == [kind |-> "actor", of |-> a]
LocksWanted(p) ==
  LET i == invoked[p] IN
  CASE i.stage = "caller" -> {CallerLock(i.caller)}
    [] i.stage = "actors" ->
         {ActorLock(a) : a \in (IF binding[i.caller] # Nothing
                                THEN {binding[i.caller].id} ELSE {})
                               \cup (IF i.op = "stop" THEN {i.of} ELSE {})}
    [] i.stage = "adopt" -> {ActorLock(i.ref.id)}
    [] OTHER -> {}

WaitsFor(p) ==
  IF invoked[p] = Nothing THEN {}
  ELSE {q \in Others(p) :
         \/ invoked[p].stage = "workspace" /\
            ~Compatible(WorkspaceMode(invoked[p].op), invoked[q].workspace)
         \/ invoked[p].stage = "primary" /\
            ~Compatible(invoked[p].wants, invoked[q].primary)
         \/ LocksWanted(p) \cap invoked[q].locks # {}}

\* Everybody enters the workspace gate; the mode of the Primary's lock is read then.
LockWorkspace(p) ==
  /\ InStage(p, "workspace") /\ WaitsFor(p) = {}
  /\ LET i == invoked[p]
         mode == PrimaryMode(i.caller, i.op)
     IN Becomes(p, [i EXCEPT !.workspace = WorkspaceMode(i.op), !.wants = mode.mode,
                             !.expires = mode.expires, !.stage = "primary"])
  /\ UNCHANGED <<tables, lapses, issued, deaths>>

LockPrimary_Upgrade(p) ==
  /\ InStage(p, "primary")
  /\ \/ /\ invoked[p].primary = "none" /\ invoked[p].wants = "Exclusive"
        /\ \A q \in Others(p) : invoked[q].primary # "Exclusive"
        /\ Becomes(p, [invoked[p] EXCEPT !.primary = "Shared"])
     \/ /\ WaitsFor(p) = {}
        /\ Becomes(p, [invoked[p] EXCEPT !.primary = invoked[p].wants, !.stage = "caller"])
  /\ UNCHANGED <<tables, lapses, issued, deaths>>
LockPrimary(p) ==
  /\ InStage(p, "primary") /\ WaitsFor(p) = {}
  /\ Becomes(p, [invoked[p] EXCEPT !.primary = invoked[p].wants, !.stage = "caller"])
  /\ UNCHANGED <<tables, lapses, issued, deaths>>

TakeLocks(p, next) ==
  Becomes(p, [invoked[p] EXCEPT !.locks = @ \cup LocksWanted(p), !.stage = next])

LockCaller(p) ==
  /\ InStage(p, "caller") /\ WaitsFor(p) = {} /\ TakeLocks(p, "actors")
  /\ UNCHANGED <<tables, lapses, issued, deaths>>

LockActors(p) ==
  /\ InStage(p, "actors") /\ WaitsFor(p) = {} /\ TakeLocks(p, "fence")
  /\ UNCHANGED <<tables, lapses, issued, deaths>>

-----------------------------------------------------------------------------
(* What the store does in one transaction.                                 *)

Beat(ref) ==
  actor' = [actor EXCEPT ![ref.id] = [@ EXCEPT !.status = "Healthy", !.beating = TRUE]]

\* A generation begins: Healthy, with a heartbeat, one epoch on.
Begun(a) ==
  [epoch |-> IF actor[a].status = "Absent" THEN 1 ELSE actor[a].epoch + 1,
   status |-> "Healthy", beating |-> TRUE]
MayBegin(a) == actor[a].status = "Absent" \/ actor[a].epoch < MaxEpoch

\* An invocation goes on as i and writes the row of a: a row that was written under
\* the feet of another fails its compare-and-swap.
Writes(p, a, i) ==
  LET reads(q) == invoked[q] # Nothing /\ invoked[q].ref # Nothing /\ invoked[q].ref.id = a
  IN invoked' = [q \in Invoker |->
       IF q = p THEN i
       ELSE IF reads(q) THEN [invoked[q] EXCEPT !.fresh = FALSE] ELSE invoked[q]]

\* The generation, the binding and the row move in one transaction, or none does.
AdvanceGeneration_Unbound(p, c, next) ==
  LET a == binding[c].id IN
  /\ MayBegin(a)
  /\ actor' = [actor EXCEPT ![a] = Begun(a)]
  /\ UNCHANGED binding
  /\ row' = [row EXCEPT ![a] = [status |-> "idle", epoch |-> Begun(a).epoch]]
  /\ Writes(p, a, [invoked[p] EXCEPT !.stage = next, !.ref = binding[c]])
AdvanceGeneration(p, c, next) ==
  LET a == binding[c].id IN
  /\ MayBegin(a)
  /\ actor' = [actor EXCEPT ![a] = Begun(a)]
  /\ binding' = [binding EXCEPT ![c].epoch = Begun(a).epoch]
  /\ row' = [row EXCEPT ![a] = [status |-> "idle", epoch |-> Begun(a).epoch]]
  /\ Writes(p, a, [invoked[p] EXCEPT !.stage = next, !.ref = [id |-> a, epoch |-> Begun(a).epoch]])

\* What the row must say before a Primary's generation is advanced over it.
RowAllows(a, status) ==
  IF status = "Stopped" THEN row[a].status = "stopped"
                        ELSE row[a].status \notin {"none", "stopped"}

AdvancePrimary(p, c, status, next) ==
  LET a == binding[c].id IN
  /\ actor[a].status = status /\ active = Nothing /\ RowAllows(a, status)
  /\ active' = a
  /\ AdvanceGeneration(p, c, next)

\* A stopped executor is one generation on, in its team, under its own binding.
AdvanceImplementation(p, c) ==
  /\ row[binding[c].id].status = "stopped"
  /\ AdvanceGeneration(p, c, "session")
  /\ UNCHANGED active

-----------------------------------------------------------------------------
(* The caller's fence, the leases that ran out, and the recovery of the     *)
(* caller's own.                                                            *)

FenceOf(c) ==
  IF binding[c] = Nothing THEN "open"
  ELSE LET ref == binding[c] IN
       IF /\ ref.id \in Human
          /\ \/ ~IsCurrent(ref) \/ actor[ref.id].status = "Revoked"
             \/ active # Nothing /\ ~HoldsLease(ref)
       THEN "superseded"
       ELSE IF ~IsCurrent(ref) THEN "superseded"
       ELSE IF actor[ref.id].status = "Stopped" THEN "stopped" ELSE "open"

Fence(p) ==
  /\ InStage(p, "fence")
  /\ LET i == invoked[p]
         fence == FenceOf(i.caller)
     IN CASE fence = "superseded" -> Leave(p)
          [] fence = "stopped" ->
               IF i.op = "bootstrap" THEN Goto(p, "bootstrap") ELSE Leave(p)
          [] OTHER ->
               IF NeedsAuthentication(i.op) /\ binding[i.caller] = Nothing
               THEN Leave(p) ELSE Goto(p, "expire")
  /\ UNCHANGED <<tables, lapses, issued, deaths>>

\* Every actor whose heartbeat ran out is stale; a Primary only for a caller that
\* holds the Primary's lock alone.
Expire(p) ==
  /\ InStage(p, "expire")
  /\ LET i == invoked[p]
         gone == {a \in Actors : LeaseExpired(a) /\ (a \in Agent \/ i.expires)}
     IN /\ actor' = [a \in Actors |->
                       IF a \in gone THEN [actor[a] EXCEPT !.status = "Stale"] ELSE actor[a]]
        /\ active' = IF active \in gone THEN Nothing ELSE active
        /\ Goto(p, IF NeedsAuthentication(i.op) THEN "recover" ELSE "bootstrap")
  /\ UNCHANGED <<binding, row, lapses, issued, deaths>>

Recover(p) ==
  /\ InStage(p, "recover")
  /\ LET i == invoked[p]
         c == i.caller
         ref == binding[c]
         stays == \/ ref.id \in Agent
                  \/ IsCurrent(ref) /\ (active = ref.id \/ actor[ref.id].status = "Stopped")
     IN \/ /\ stays /\ Goto(p, "authenticate")
           /\ UNCHANGED tables
        \/ /\ ~stays /\ IsCurrent(ref) /\ i.primary = "Exclusive"
           /\ AdvancePrimary(p, c, "Stale", "authenticate")
        \/ /\ ~stays
           /\ \/ ~IsCurrent(ref) \/ active # Nothing \/ actor[ref.id].status # "Stale"
              \/ i.primary # "Exclusive" \/ ~RowAllows(ref.id, "Stale")
           /\ Leave(p) /\ UNCHANGED tables
  /\ UNCHANGED <<lapses, issued, deaths>>

\* The binding is read, must name a live generation, and is heard from.
Authenticate(p) ==
  /\ InStage(p, "authenticate")
  /\ LET ref == binding[invoked[p].caller]
         mutable == /\ IsCurrent(ref) /\ actor[ref.id].status # "Stopped"
                    /\ ref.id \in Human =>
                         actor[ref.id].status # "Revoked" /\ active \in {Nothing, ref.id}
     IN IF mutable
        THEN Becomes(p, [invoked[p] EXCEPT !.stage = "beat", !.ref = ref])
        ELSE Leave(p)
  /\ UNCHANGED <<tables, lapses, issued, deaths>>

AfterBeat(op) == IF op = "shutdown" THEN "run" ELSE "session"

\* A lease that ran out is not renewed: its holder recovers it, or loses it.
Heartbeat(p) ==
  /\ InStage(p, "beat")
  /\ LET ref == invoked[p].ref
         heard == /\ IsCurrent(ref) /\ actor[ref.id].status \in {"Healthy", "Stale"}
                  /\ ref.id \in Human => HoldsLease(ref) /\ ~LeaseExpired(ref.id)
     IN IF heard THEN Beat(ref) /\ Goto(p, AfterBeat(invoked[p].op))
                 ELSE Leave(p) /\ UNCHANGED actor
  /\ UNCHANGED <<active, binding, row, lapses, issued, deaths>>

-----------------------------------------------------------------------------
(* The Primary's notification row: read in one transaction, written in      *)
(* another if it does not say what it should.                               *)

AfterSession(op) == IF op \in {"work", "stop"} THEN "run" ELSE "dispatched"

ReadSession(p) ==
  /\ InStage(p, "session")
  /\ LET ref == invoked[p].ref
         told == row[ref.id] = [status |-> "idle", epoch |-> ref.epoch]
     IN IF ~IsCurrent(ref) THEN Leave(p)
        ELSE IF active # ref.id \/ told THEN Goto(p, AfterSession(invoked[p].op))
        ELSE Becomes(p, [invoked[p] EXCEPT !.stage = "write", !.fresh = TRUE])
  /\ UNCHANGED <<tables, lapses, issued, deaths>>

WriteSession(p) ==
  /\ InStage(p, "write")
  /\ LET ref == invoked[p].ref IN
     IF invoked[p].fresh
     THEN /\ row' = [row EXCEPT ![ref.id] = [status |-> "idle", epoch |-> ref.epoch]]
          /\ Writes(p, ref.id, [invoked[p] EXCEPT !.stage = AfterSession(invoked[p].op)])
     ELSE Leave(p) /\ UNCHANGED row
  /\ UNCHANGED <<actor, active, binding, lapses, issued, deaths>>

-----------------------------------------------------------------------------
(* `context --bootstrap`: the only command that makes a caller an actor.    *)

\* A bound caller speaks for the generation that its binding names.
BootstrapBound(p) ==
  LET i == invoked[p]
      ref == binding[i.caller]
      status == actor[ref.id].status
  IN IF ~IsCurrent(ref) \/ (i.of # Nothing /\ i.of # ref.id)
     THEN Leave(p) /\ UNCHANGED tables
     ELSE IF ref.id \in Agent /\ status = "Stopped"
     THEN \/ AdvanceImplementation(p, i.caller)
          \/ row[ref.id].status # "stopped" /\ Leave(p) /\ UNCHANGED tables
     ELSE IF ref.id \in Agent \/ active = ref.id
     THEN /\ Becomes(p, [invoked[p] EXCEPT !.stage = "beat", !.ref = ref])
          /\ UNCHANGED tables
     ELSE IF active = Nothing /\ status = "Stopped"
     THEN \/ AdvancePrimary(p, i.caller, "Stopped", "session")
          \/ ~RowAllows(ref.id, "Stopped") /\ Leave(p) /\ UNCHANGED tables
     ELSE /\ IF active = Nothing
             THEN Becomes(p, [invoked[p] EXCEPT !.stage = "activate", !.of = ref.id])
             ELSE Leave(p)
          /\ UNCHANGED tables

\* A pane whose token a session row remembers is that row's actor; anybody else asks
\* for the lease, under its own name or the one it gives.
BootstrapUnbound(p) ==
  LET i == invoked[p] IN
  /\ IF i.caller \in Agent
     THEN Becomes(p, [invoked[p] EXCEPT !.stage = "adopt", !.ref = RefOf(i.caller)])
     ELSE IF active # Nothing THEN Leave(p)
     ELSE Becomes(p, [invoked[p] EXCEPT !.stage = "activate",
                                        !.of = IF i.of = Nothing THEN i.caller ELSE i.of])
  /\ UNCHANGED tables

Bootstrap(p) ==
  /\ InStage(p, "bootstrap")
  /\ IF binding[invoked[p].caller] = Nothing THEN BootstrapUnbound(p) ELSE BootstrapBound(p)
  /\ UNCHANGED <<lapses, issued, deaths>>

Adopt(p) ==
  /\ InStage(p, "adopt") /\ WaitsFor(p) = {} /\ TakeLocks(p, "bind")
  /\ UNCHANGED <<tables, lapses, issued, deaths>>

\* The lease is checked again in the transaction that takes it; its healthy holder
\* keeps its generation.
Activate(p) ==
  /\ InStage(p, "activate")
  /\ LET a == invoked[p].of IN
     \/ /\ active \in {Nothing, a}
        /\ active = Nothing => MayBegin(a)
        /\ active' = a
        /\ LET begun == IF active = a THEN [actor[a] EXCEPT !.beating = TRUE] ELSE Begun(a) IN
             /\ actor' = [actor EXCEPT ![a] = begun]
             /\ Becomes(p, [invoked[p] EXCEPT !.stage = "bind",
                                              !.ref = [id |-> a, epoch |-> begun.epoch]])
     \/ active \notin {Nothing, a} /\ Leave(p) /\ UNCHANGED <<actor, active>>
  /\ UNCHANGED <<binding, row, lapses, issued, deaths>>

\* A binding never moves to another actor nor back.
Bind(p) ==
  /\ InStage(p, "bind")
  /\ LET i == invoked[p]
         old == binding[i.caller]
     IN IF old = Nothing \/ (old.id = i.ref.id /\ old.epoch <= i.ref.epoch)
        THEN /\ binding' = [binding EXCEPT ![i.caller] = i.ref]
             /\ Goto(p, IF i.ref.id \in Agent THEN "beat" ELSE "session")
        ELSE Leave(p) /\ UNCHANGED binding
  /\ UNCHANGED <<actor, active, row, lapses, issued, deaths>>

-----------------------------------------------------------------------------
(* The commands themselves.                                                *)

\* A command of the Primary is one only while its caller holds the lease.
Speaks(p) == LET ref == invoked[p].ref IN ref.id \in Human => HoldsLease(ref)

Work(p) ==
  /\ InStage(p, "run") /\ invoked[p].op = "work"
  /\ Leave(p)
  /\ UNCHANGED <<tables, lapses, issued, deaths>>

\* `actor.stop` ends the session in its row first and the generation afterwards.
BeginStop(p) ==
  /\ InStage(p, "run") /\ invoked[p].op = "stop"
  /\ LET a == invoked[p].of IN
     IF Speaks(p) /\ actor[a].status # "Absent" /\ invoked[p].ref.id \in Human
     THEN Becomes(p, [invoked[p] EXCEPT !.ref = RefOf(a), !.fresh = TRUE,
                        !.stage = IF row[a].status = "none" THEN "actor" ELSE "row"])
     ELSE Leave(p)
  /\ UNCHANGED <<tables, lapses, issued, deaths>>

StopRow(p) ==
  /\ InStage(p, "row")
  /\ LET a == invoked[p].ref.id IN
     IF invoked[p].fresh
     THEN /\ row' = [row EXCEPT ![a].status = "stopped"]
          /\ Writes(p, a, [invoked[p] EXCEPT !.stage = "actor"])
     ELSE Leave(p) /\ UNCHANGED row
  /\ UNCHANGED <<actor, active, binding, lapses, issued, deaths>>

StopActor(p) ==
  /\ InStage(p, "actor")
  /\ LET ref == invoked[p].ref IN
     IF IsCurrent(ref)
     THEN /\ actor' = [actor EXCEPT ![ref.id].status = "Stopped"]
          /\ active' = IF active = ref.id THEN Nothing ELSE active
     ELSE UNCHANGED <<actor, active>>
  /\ Leave(p)
  /\ UNCHANGED <<binding, row, lapses, issued, deaths>>

\* A shutdown is one transaction over the actor and its row, and lets the workspace go
\* before it ends the session that runs it.
Shutdown(p) ==
  /\ InStage(p, "run") /\ invoked[p].op = "shutdown"
  /\ LET ref == invoked[p].ref IN
     IF IsCurrent(ref) /\ row[ref.id].status # "none"
     THEN /\ actor' = [actor EXCEPT ![ref.id].status = "Stopped"]
          /\ active' = IF active = ref.id THEN Nothing ELSE active
          /\ row' = [row EXCEPT ![ref.id].status = "stopped"]
          /\ Writes(p, ref.id, [invoked[p] EXCEPT !.stage = "dispatched", !.workspace = "none"])
     ELSE Leave(p) /\ UNCHANGED <<actor, active, row>>
  /\ UNCHANGED <<binding, lapses, issued, deaths>>

Finish(p) ==
  /\ InStage(p, "dispatched") /\ Leave(p)
  /\ UNCHANGED <<tables, lapses, issued, deaths>>

-----------------------------------------------------------------------------
\* Nobody hears from an actor for as long as its lease lasts.
Lapse(a) ==
  /\ actor[a].beating /\ lapses < MaxLapses
  /\ actor' = [actor EXCEPT ![a].beating = FALSE]
  /\ lapses' = lapses + 1
  /\ UNCHANGED <<active, binding, row, invoked, issued, deaths>>

DieHalfway(p) ==
  /\ invoked[p] # Nothing /\ deaths < MaxDeaths
  /\ Leave(p) /\ deaths' = deaths + 1
  /\ UNCHANGED <<tables, lapses, issued>>

BindingStep(p) ==
  \/ LockWorkspace(p) \/ LockPrimary(p) \/ LockCaller(p) \/ LockActors(p)
  \/ Fence(p) \/ Expire(p) \/ Recover(p) \/ Authenticate(p) \/ Heartbeat(p)
  \/ ReadSession(p) \/ WriteSession(p)
  \/ Bootstrap(p) \/ Adopt(p) \/ Activate(p) \/ Bind(p)
  \/ Work(p) \/ BeginStop(p) \/ StopRow(p) \/ StopActor(p) \/ Shutdown(p) \/ Finish(p)

\* The two deaths that lock a bound caller out: a new generation that nobody is bound
\* to, and a bound one that has no session row yet.
LocksOut(p) ==
  /\ invoked[p] # Nothing /\ invoked[p].ref # Nothing
  /\ LET a == invoked[p].ref.id IN
     \/ InStage(p, "bind") /\ \E c \in Callers : binding[c] # Nothing /\ binding[c].id = a
     \/ invoked[p].stage \in {"session", "write"} /\ row[a].status = "none"

\* The read that lets two callers be bound to one generation: a bootstrap decides on
\* the Primary's lock between the two transactions of an earlier bootstrap of its
\* caller, when the binding lags behind the actor, and so goes on without that lock.
Overtakes(p) ==
  /\ InStage(p, "workspace") /\ invoked[p].op = "bootstrap"
  /\ \E q \in Others(p) : InStage(q, "bind") /\ invoked[q].caller = invoked[p].caller

Calls(p) == \E c \in Callers, op \in Operation, of \in Actors \cup {Nothing} : Enter(p, c, op, of)

BindingNext ==
  \/ \E p \in Invoker : \/ Calls(p)
                        \/ BindingStep(p) /\ ~Overtakes(p)
                        \/ DieHalfway(p) /\ ~LocksOut(p)
  \/ \E a \in Actors : Lapse(a)

\* With the two deaths and the read that findings are about.
FullNext ==
  \/ \E p \in Invoker : Calls(p) \/ BindingStep(p) \/ DieHalfway(p)
  \/ \E a \in Actors : Lapse(a)

BindingSpec == BindingInit /\ [][BindingNext]_bindingVars
FullSpec == BindingInit /\ [][FullNext]_bindingVars

-----------------------------------------------------------------------------
BindingTypeOK ==
  /\ actor \in [Actors -> ActorState]
  /\ active \in Human \cup {Nothing}
  /\ binding \in [Callers -> Ref \cup {Nothing}]
  /\ row \in [Actors -> Row]
  /\ invoked \in [Invoker -> Invocation \cup {Nothing}]
  /\ lapses \in 0..MaxLapses /\ issued \in 0..MaxInvoked /\ deaths \in 0..MaxDeaths

\* While a command of the Primary runs, the binding it came by, the lease and the
\* session row it is notified through all name one generation, which no other caller is
\* bound to (authenticate_primary, ensure_primary_notification_session, bind_actor, the
\* Primary authority lock).
AuthenticatedIsWhole ==
  \A p \in Invoker :
    InStage(p, "run") /\ invoked[p].op \in {"work", "stop"} /\ invoked[p].ref.id \in Human =>
      /\ binding[invoked[p].caller] = invoked[p].ref
      /\ HoldsLease(invoked[p].ref)
      /\ row[active] = [status |-> "idle", epoch |-> actor[active].epoch]
      /\ \A c \in Callers \ {invoked[p].caller} : binding[c] # invoked[p].ref

\* Nobody waits for a lock in a circle (acquire_operation_guards, the late actor lock
\* of bootstrap_bound_actor).
NobodyWaitsInACircle ==
  \A S \in SUBSET Invoker : S # {} => \E p \in S : WaitsFor(p) \cap S = {}

\* A bound caller can always come back: its binding names its actor's present
\* generation unless another caller took a later one or is about to, and if that
\* generation is stopped then so is its row, as its bootstrap demands
\* (advance_bound_primary, bootstrap_stopped_implementation, bind_actor).
BoundCallersCanReturn ==
  \A c \in Callers : binding[c] # Nothing =>
    LET ref == binding[c] IN
    IF IsCurrent(ref)
    THEN actor[ref.id].status = "Stopped" => row[ref.id].status = "stopped"
    ELSE \/ \E d \in Callers : /\ binding[d] # Nothing /\ binding[d].id = ref.id
                              /\ binding[d].epoch > ref.epoch
         \/ \E p \in Invoker : InStage(p, "bind") /\ invoked[p].ref.id = ref.id
=============================================================================
