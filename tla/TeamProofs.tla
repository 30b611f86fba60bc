----------------------------- MODULE TeamProofs -----------------------------
(***************************************************************************)
(* Closing a team is orderly, and of an actor one generation runs, for any *)
(* number of actors, directories, faults and re-creations.                 *)
(***************************************************************************)
EXTENDS Teams, FiniteSetTheorems, TLAPS

-----------------------------------------------------------------------------
(* The inductive invariant.                                                *)

Keys == {<<"none">>, <<"seed">>} \cup {<<"replacement", e>> : e \in Nat}
          \cup {"launch"} \X Nat \X Nat
Row == [st : {"none", "missing", "replacement_pending", "launching", "launch_failed", "idle",
              "stopped"},
        ext : Nat, token : Nat, dir : Dirs \cup {NoDir}, key : Keys]
TeamRec  == [status : {"Absent", "Active", "Paused", "Closing", "Closed"}, epoch : Nat,
             members : SUBSET Actors]
ActorRec == [epoch : Nat, status : {"None", "Healthy", "Stale", "Stopped"}]
AgentRec == [actor : Actors, epoch : Nat \ {0}, dir : Dirs]
TreeRec  == [own : {"none", "Created", "Adopted", "Attached"},
             st : {"none", "Creating", "Active", "Removed", "RetainedWithReason",
                   "AttachedNotOwned"},
             dir : Dirs \cup {NoDir}]

Creating    == {"prepare", "directory", "add", "activate", "register", "reset"}
Reconciling == {"actors", "launch", "recover", "start", "handle", "claim", "clear", "advance",
                "relaunch"}
Stopping    == {"stop", "stop_session"}
Leaving     == {"cleanup", "removed", "closed"}
Launching   == {"launch", "recover", "start", "handle", "relaunch"}

Pcs == {"idle", "close", "closing", "halt", "halted", "reconcile"}
         \cup Creating \cup Reconciling \cup Stopping \cup Leaving
Ops == {"none", "create", "reconcile", "close", "replace", "stop", "resume"}

Command == [op : Ops, pc : Pcs, dir : Dirs \cup {NoDir}, prev : BOOLEAN,
            todo : SUBSET Actors, fresh : SUBSET Actors, at : Actors \cup {"none"},
            failed : BOOLEAN]

TeamTyped ==
  /\ team \in TeamRec /\ actor \in [Actors -> ActorRec] /\ session \in [Actors -> Row]
  /\ tree \in TreeRec /\ agents \subseteq AgentRec /\ cmd \in Command
  /\ disk \in [Dirs -> {"absent", "clean", "dirty"}]

\* A team that exists has all its actors in a generation.
TeamExists ==
  IF team.status = "Absent"
  THEN team.members = {} /\ \A a \in Actors : actor[a].epoch = 0 /\ session[a].st = "none"
  ELSE team.members = Actors /\ \A a \in Actors : actor[a].epoch >= 1

\* What a row says of the agents.
RowsSay ==
  \A a \in Actors : LET row == session[a] IN
    /\ row.st \in {"none", "missing", "launching", "launch_failed"} => row.ext = 0
    /\ row.st = "stopped" => AgentOf(a, row.ext) = {}
    /\ row.st # "none" => row.dir \in Dirs

\* No agent is of a later generation, and those of the present one are where the row says.
AgentsFollow ==
  \A x \in agents :
    /\ x.epoch <= actor[x.actor].epoch
    /\ x.epoch = actor[x.actor].epoch =>
         session[x.actor].st # "none" /\ x.dir = session[x.actor].dir

\* Nobody of a team that is leaving can act or be launched again.
Quiet(a) ==
  /\ actor[a].status = "Stopped" /\ AgentOf(a, session[a].ext) = {}
  /\ Replacing(session[a]) => session[a].key = ReplacementKey(actor[a].epoch)
LeavingIsQuiet ==
  team.status = "Closed" \/ cmd.pc \in Leaving => \A a \in Actors : Quiet(a)

\* What the running command knows at each of its steps.
Knows ==
  /\ cmd.pc \in Creating => cmd.dir \in Dirs
  /\ cmd.pc \in {"directory", "add", "activate", "register"} =>
       /\ cmd.prev <=> team.status = "Closed"
       /\ cmd.prev => frozen # {}
  /\ cmd.pc \notin {"idle"} \cup Creating => team.status # "Absent"
  /\ cmd.pc = "reset" => team.status # "Absent"
  /\ cmd.pc = "reset" => \A a \in cmd.todo :
       /\ session[a].st # "none"
       /\ \A x \in agents : x.actor = a => x.epoch # actor[a].epoch
  /\ cmd.pc \in {"reset", "reconcile"} \cup Reconciling /\ frozen = {} =>
       \A a \in cmd.fresh :
         \/ session[a].st = "none"
         \/ cmd.pc \in Reconciling /\ (a \notin cmd.todo \/ (cmd.pc # "actors" /\ a = cmd.at))
  /\ cmd.pc \in Stopping => \A a \in Actors \ cmd.todo :
       cmd.failed \/ session[a].st \in {"none", "stopped"}
  /\ cmd.pc = "stop_session" => cmd.at \in cmd.todo
  /\ cmd.pc \in {"closing"} \cup Stopping \cup Leaving => team.status \in {"Closing", "Closed"}
  /\ cmd.pc \in {"halt", "halted"} => cmd.at \in Actors

\* What it knows of the row of the actor it is at.
KnowsRow ==
  LET row == session[cmd.at] IN
  /\ cmd.at \in Actors /\ (row.st # "none" => row.dir = cmd.dir)
  /\ cmd.pc \in {"launch", "recover"} => cmd.at \in cmd.todo
  /\ cmd.pc = "launch" /\ frozen = {} => row.st \in {"none", "launching", "launch_failed"}
  /\ cmd.pc = "recover" => row.st \in {"launching", "launch_failed"} /\ ~Replacing(row)
  /\ cmd.pc \in {"clear", "advance", "relaunch"} => Replacing(row)
  /\ cmd.pc \in {"advance", "relaunch", "start", "handle"} =>
       row.st \in {"launching", "launch_failed"}
  /\ cmd.pc \in {"relaunch", "start", "handle"} =>
       team.status # "Closed" /\ row.key # ReplacementKey(actor[cmd.at].epoch)
  /\ cmd.pc \in {"start", "handle"} => disk[cmd.dir] # "absent"

KnowsReconciling ==
  cmd.pc \in Reconciling =>
    /\ cmd.dir \in Dirs
    /\ \A a \in cmd.todo : session[a].st # "none" => session[a].dir = cmd.dir
    /\ cmd.todo # {} => team.status = "Active" /\ disk[cmd.dir] # "absent"
    /\ cmd.pc # "actors" => KnowsRow

\* Of a team that was not closed yet, every agent is of its actor's present generation
\* and in reach of whoever replaces it.
Living == team.status \in {"Absent", "Active", "Paused"} /\ frozen = {}
LivingInReach ==
  Living =>
    /\ \A x \in agents : /\ x.epoch = actor[x.actor].epoch
                         /\ x.epoch \in {session[x.actor].token, session[x.actor].ext}
    /\ \A a \in Actors :
         session[a].st \in {"launching", "launch_failed"}
           /\ session[a].key = ReplacementKey(actor[a].epoch)
         => \A x \in agents : x.actor # a

World == /\ TeamExists /\ RowsSay /\ AgentsFollow /\ LivingInReach
         /\ KnownAgentKeepsItsDirectory

TeamInv == TeamTyped /\ World /\ LeavingIsQuiet /\ Knows /\ KnowsReconciling

-----------------------------------------------------------------------------
(* The records of the command and of a session row.                        *)

LEMMA CommandGoes ==
  ASSUME cmd \in Command, NEW p \in Pcs, cmd' = [cmd EXCEPT !.pc = p]
  PROVE  /\ cmd' \in Command /\ cmd'.pc = p /\ cmd'.dir = cmd.dir /\ cmd'.prev = cmd.prev
         /\ cmd'.todo = cmd.todo /\ cmd'.fresh = cmd.fresh /\ cmd'.at = cmd.at
         /\ cmd'.failed = cmd.failed
  BY DEF Command

LEMMA CommandManages ==
  ASSUME cmd \in Command, NEW a \in Actors, NEW p \in Pcs, cmd' = [cmd EXCEPT !.at = a, !.pc = p]
  PROVE  /\ cmd' \in Command /\ cmd'.pc = p /\ cmd'.dir = cmd.dir /\ cmd'.prev = cmd.prev
         /\ cmd'.todo = cmd.todo /\ cmd'.fresh = cmd.fresh /\ cmd'.at = a
         /\ cmd'.failed = cmd.failed
  BY DEF Command

LEMMA CommandDone ==
  ASSUME cmd \in Command, NEW a, NEW ok \in BOOLEAN, NEW p \in Pcs,
         cmd' = [cmd EXCEPT !.todo = @ \ {a}, !.pc = p, !.failed = cmd.failed \/ ~ok]
  PROVE  /\ cmd' \in Command /\ cmd'.pc = p /\ cmd'.dir = cmd.dir /\ cmd'.prev = cmd.prev
         /\ cmd'.todo = cmd.todo \ {a} /\ cmd'.fresh = cmd.fresh /\ cmd'.at = cmd.at
         /\ (cmd.failed => cmd'.failed) /\ (~ok => cmd'.failed)
  <1>1. PICK f, S : f = (cmd.failed \/ ~ok) /\ S = cmd.todo \ {a}
    OBVIOUS
  <1>2. f \in BOOLEAN /\ S \in SUBSET Actors
    BY <1>1 DEF Command
  <1>3. cmd' = [cmd EXCEPT !.todo = S, !.pc = p, !.failed = f]
    BY <1>1
  <1>4. /\ cmd' \in Command /\ cmd'.pc = p /\ cmd'.dir = cmd.dir /\ cmd'.prev = cmd.prev
        /\ cmd'.todo = S /\ cmd'.fresh = cmd.fresh /\ cmd'.at = cmd.at /\ cmd'.failed = f
    BY <1>2, <1>3 DEF Command
  <1>5. QED BY <1>1, <1>4

LEMMA CommandIdles == Idle \in Command /\ Idle.pc = "idle"
  <1>1. "idle" \in Pcs /\ "none" \in Ops
    BY DEF Pcs, Ops
  <1>2. QED BY <1>1 DEF Idle, Command, NoDir

\* A command is admitted.
LEMMA CommandBegins ==
  ASSUME NEW op \in Ops, NEW p \in Pcs, NEW d \in Dirs \cup {NoDir}, NEW a \in Actors \cup {"none"},
         cmd' = [op |-> op, pc |-> p, dir |-> d, prev |-> FALSE, todo |-> {}, fresh |-> {},
                 at |-> a, failed |-> FALSE]
  PROVE  /\ cmd' \in Command /\ cmd'.pc = p /\ cmd'.dir = d /\ cmd'.prev = FALSE
         /\ cmd'.todo = {} /\ cmd'.fresh = {} /\ cmd'.at = a /\ cmd'.failed = FALSE
  BY DEF Command

LEMMA KeysAre ==
  /\ <<"none">> \in Keys /\ <<"seed">> \in Keys
  /\ \A e \in Nat : ReplacementKey(e) \in Keys /\ ReplacementKey(e)[1] = "replacement"
  /\ \A e, f \in Nat : ReplacementKey(e) = ReplacementKey(f) => e = f
  /\ \A t, e \in Nat : <<"launch", t, e>> \in Keys /\ <<"launch", t, e>>[1] = "launch"
  /\ <<"seed">>[1] = "seed" /\ <<"none">>[1] = "none"
  <1>1. <<"none">> \in Keys /\ <<"seed">> \in Keys
    BY DEF Keys
  <1>2. \A e \in Nat : ReplacementKey(e) \in Keys
    BY DEF Keys, ReplacementKey
  <1>3. \A e : ReplacementKey(e)[1] = "replacement"
    BY DEF ReplacementKey
  <1>4. \A e, f \in Nat : ReplacementKey(e) = ReplacementKey(f) => e = f
    BY DEF ReplacementKey
  <1>5. \A t, e \in Nat : <<"launch", t, e>> \in Keys
    BY DEF Keys
  <1>6. \A t, e : <<"launch", t, e>>[1] = "launch"
    OBVIOUS
  <1>7. QED BY <1>1, <1>2, <1>3, <1>4, <1>5, <1>6

States == {"none", "missing", "replacement_pending", "launching", "launch_failed", "idle", "stopped"}

LEMMA RowIs ==
  ASSUME NEW st \in States, NEW ext \in Nat, NEW token \in Nat, NEW dir \in Dirs \cup {NoDir},
         NEW key \in Keys, NEW r, r = [st |-> st, ext |-> ext, token |-> token, dir |-> dir, key |-> key]
  PROVE  r \in Row /\ r.st = st /\ r.ext = ext /\ r.token = token /\ r.dir = dir /\ r.key = key
  BY DEF Row, States

\* The ways in which the steps rewrite a row.
LEMMA RowMarked ==
  ASSUME NEW q \in Row, NEW st \in States,
         NEW r, r = [q EXCEPT !.st = st]
  PROVE  r \in Row /\ r.st = st /\ r.ext = q.ext /\ r.token = q.token /\ r.dir = q.dir /\ r.key = q.key
  BY DEF Row, States

LEMMA RowCheckpointed ==
  ASSUME NEW q \in Row, NEW token \in Nat,
         NEW r, r = [q EXCEPT !.token = token]
  PROVE  r \in Row /\ r.st = q.st /\ r.ext = q.ext /\ r.token = token /\ r.dir = q.dir /\ r.key = q.key
  BY DEF Row, States

LEMMA RowBecomes ==
  ASSUME session \in [Actors -> Row], NEW a \in Actors, NEW r \in Row,
         session' = [session EXCEPT ![a] = r]
  PROVE  /\ session' \in [Actors -> Row] /\ session'[a] = r
         /\ \A b \in Actors \ {a} : session'[b] = session[b]
  OBVIOUS

LEMMA RowTyped ==
  ASSUME TeamTyped, NEW a \in Actors
  PROVE  /\ session[a] \in Row /\ session[a].st \in States /\ session[a].ext \in Nat
         /\ session[a].token \in Nat /\ session[a].dir \in Dirs \cup {NoDir}
         /\ session[a].key \in Keys
         /\ actor[a] \in ActorRec /\ actor[a].epoch \in Nat
         /\ session[a] = [st |-> session[a].st, ext |-> session[a].ext, token |-> session[a].token,
                          dir |-> session[a].dir, key |-> session[a].key]
  BY DEF TeamTyped, Row, ActorRec, States

LEMMA AgentTyped ==
  ASSUME TeamTyped, NEW x \in agents
  PROVE  x \in AgentRec /\ x.actor \in Actors /\ x.epoch \in Nat /\ x.epoch >= 1 /\ x.dir \in Dirs
  BY DEF TeamTyped, AgentRec

-----------------------------------------------------------------------------
(* What steps have in common that start no agent and move no row.          *)

EpochsStay == \A a \in Actors : actor'[a].epoch = actor[a].epoch
DisksStay  == \A d \in Dirs : disk[d] # "absent" => disk'[d] # "absent"
StaysStopped == \A a \in Actors : actor[a].status = "Stopped" => actor'[a].status = "Stopped"

LEMMA WorldStays ==
  ASSUME TeamTyped, World, EpochsStay, DisksStay, session' = session, agents' \subseteq agents,
         team'.members = team.members, team'.status = "Absent" <=> team.status = "Absent",
         Living' => Living
  PROVE  World'
  <1>1. \A x \in agents : x.actor \in Actors /\ x.dir \in Dirs
    BY AgentTyped
  <1>2. TeamExists'
    BY DEF World, TeamExists, EpochsStay
  <1>3. RowsSay'
    BY DEF World, RowsSay, AgentOf
  <1>4. AgentsFollow'
    BY <1>1 DEF World, AgentsFollow, EpochsStay
  <1>5. LivingInReach'
    BY <1>1 DEF World, LivingInReach, EpochsStay, ReplacementKey
  <1>6. KnownAgentKeepsItsDirectory'
    BY <1>1 DEF World, KnownAgentKeepsItsDirectory, AgentOf, DisksStay
  <1>7. QED BY <1>2, <1>3, <1>4, <1>5, <1>6 DEF World

LEMMA QuietStays ==
  ASSUME LeavingIsQuiet, EpochsStay, StaysStopped, session' = session, agents' \subseteq agents,
         team'.status = "Closed" \/ cmd'.pc \in Leaving => team.status = "Closed" \/ cmd.pc \in Leaving
  PROVE  LeavingIsQuiet'
  BY DEF LeavingIsQuiet, Quiet, AgentOf, Replacing, EpochsStay, StaysStopped, ReplacementKey

LEMMA KnowsStays ==
  ASSUME TeamTyped, Knows, KnowsReconciling, EpochsStay, DisksStay,
         UNCHANGED <<session, team, frozen, cmd>>, agents' \subseteq agents
  PROVE  Knows' /\ KnowsReconciling'
  <1>1. Knows'
    <2>1. \A a \in cmd.todo : a \in Actors
      BY DEF TeamTyped, Command
    <2>2. QED BY <2>1 DEF Knows, EpochsStay, Leaving
  <1>2. KnowsReconciling'
    BY DEF KnowsReconciling, KnowsRow, EpochsStay, DisksStay, Replacing, ReplacementKey
  <1>3. QED BY <1>1, <1>2

LEMMA IdleKnows ==
  ASSUME cmd' = Idle
  PROVE  Knows' /\ KnowsReconciling'
  BY CommandIdles DEF Knows, KnowsReconciling, KnowsRow, Creating, Reconciling, Stopping, Leaving

\* What happens beside the commands.
LEMMA EnvironmentKeeps ==
  ASSUME TeamInv, Environment
  PROVE  TeamInv'
  <1>1. CASE Crash
    <2>1. /\ cmd' = Idle /\ UNCHANGED <<team, actor, session, tree, disk, agents, frozen>>
      BY <1>1 DEF Crash, Return
    <2>2. TeamTyped'
      BY <2>1, CommandIdles DEF TeamInv, TeamTyped
    <2>3. EpochsStay /\ DisksStay /\ StaysStopped /\ (Living' => Living)
      BY <2>1 DEF EpochsStay, DisksStay, StaysStopped, Living
    <2>4. World'
      BY <2>1, <2>3, WorldStays DEF TeamInv
    <2>5. LeavingIsQuiet'
      BY <2>1, <2>3, CommandIdles, QuietStays DEF TeamInv, Leaving
    <2>6. QED BY <2>1, <2>2, <2>4, <2>5, IdleKnows DEF TeamInv
  <1>2. ASSUME UNCHANGED <<team, session, tree, frozen, cmd>>, EpochsStay, DisksStay, StaysStopped,
               agents' \subseteq agents, actor' \in [Actors -> ActorRec],
               disk' \in [Dirs -> {"absent", "clean", "dirty"}]
        PROVE  TeamInv'
    <2>1. TeamTyped'
      BY <1>2 DEF TeamInv, TeamTyped
    <2>2. Living' => Living
      BY <1>2 DEF Living
    <2>3. World'
      BY <1>2, <2>2, WorldStays DEF TeamInv
    <2>4. LeavingIsQuiet'
      BY <1>2, QuietStays DEF TeamInv
    <2>5. Knows' /\ KnowsReconciling'
      BY <1>2, KnowsStays DEF TeamInv
    <2>6. QED BY <2>1, <2>3, <2>4, <2>5 DEF TeamInv
  <1>3. CASE Assign \/ Finish
    BY <1>2, <1>3 DEF Assign, Finish, EpochsStay, DisksStay, StaysStopped, TeamInv, TeamTyped
  <1>4. ASSUME NEW x \in agents, AgentDies(x)
        PROVE  TeamInv'
    BY <1>2, <1>4 DEF AgentDies, EpochsStay, DisksStay, StaysStopped, TeamInv, TeamTyped
  <1>5. ASSUME NEW x \in agents, Edit(x)
        PROVE  TeamInv'
    <2>1. /\ UNCHANGED <<team, actor, session, tree, agents, frozen, cmd>>
          /\ disk[x.dir] # "absent"
          /\ \E v \in {"clean", "dirty"} : disk' = [disk EXCEPT ![x.dir] = v]
      BY <1>5 DEF Edit
    <2>2. x.dir \in Dirs
      BY AgentTyped DEF TeamInv
    <2>3. disk' \in [Dirs -> {"absent", "clean", "dirty"}] /\ DisksStay
      BY <2>1, <2>2 DEF TeamInv, TeamTyped, DisksStay
    <2>4. QED BY <1>2, <2>1, <2>3 DEF EpochsStay, StaysStopped, TeamInv, TeamTyped
  <1>6. ASSUME NEW a \in Actors, LeaseExpires(a) \/ Heartbeat(a)
        PROVE  TeamInv'
    <2>1. /\ UNCHANGED <<team, session, tree, disk, agents, frozen, cmd>>
          /\ actor[a].status # "Stopped"
          /\ \E v \in {"Stale", "Healthy"} : actor' = [actor EXCEPT ![a].status = v]
      BY <1>6 DEF LeaseExpires, Heartbeat
    <2>2. actor' \in [Actors -> ActorRec] /\ EpochsStay /\ StaysStopped
      BY <2>1 DEF TeamInv, TeamTyped, ActorRec, EpochsStay, StaysStopped
    <2>3. QED BY <1>2, <2>1, <2>2 DEF DisksStay, TeamInv, TeamTyped
  <1>7. QED BY <1>1, <1>3, <1>4, <1>5, <1>6 DEF Environment

-----------------------------------------------------------------------------
(* Steps that start no agent and move no row.                              *)

LEMMA StillSteps ==
  ASSUME TeamInv, EpochsStay, DisksStay, StaysStopped, session' = session, agents' = agents,
         team' \in TeamRec, team'.members = team.members,
         team'.status = "Absent" <=> team.status = "Absent",
         actor' \in [Actors -> ActorRec], tree' \in TreeRec, cmd' \in Command,
         disk' \in [Dirs -> {"absent", "clean", "dirty"}], Living' => Living,
         team'.status = "Closed" \/ cmd'.pc \in Leaving => team.status = "Closed" \/ cmd.pc \in Leaving
  PROVE  TeamTyped' /\ World' /\ LeavingIsQuiet'
  <1>1. TeamTyped'
    BY DEF TeamInv, TeamTyped
  <1>2. World'
    BY WorldStays DEF TeamInv
  <1>3. LeavingIsQuiet'
    BY QuietStays DEF TeamInv
  <1>4. QED BY <1>1, <1>2, <1>3

LEMMA NothingMoves ==
  ASSUME TeamInv, UNCHANGED <<team, actor, session, disk, agents>>, tree' \in TreeRec,
         cmd' \in Command, frozen' = {} => frozen = {},
         cmd'.pc \in Leaving => team.status = "Closed" \/ cmd.pc \in Leaving
  PROVE  TeamTyped' /\ World' /\ LeavingIsQuiet'
  <1>1. EpochsStay /\ DisksStay /\ StaysStopped /\ (Living' => Living)
    BY DEF EpochsStay, DisksStay, StaysStopped, Living
  <1>2. team' \in TeamRec /\ actor' \in [Actors -> ActorRec]
        /\ disk' \in [Dirs -> {"absent", "clean", "dirty"}]
    BY DEF TeamInv, TeamTyped
  <1>3. QED BY <1>1, <1>2, StillSteps

LEMMA TreeOutcome ==
  ASSUME TeamTyped, NEW st \in {"Creating", "Active", "Removed", "RetainedWithReason"}, Outcome(st)
  PROVE  tree' \in TreeRec
  BY DEF TeamTyped, TreeRec, Outcome

\* A command that ended knows nothing.
LEMMA ReturnKeeps ==
  ASSUME TeamInv, Return, UNCHANGED <<team, actor, session, disk, agents, frozen>>, tree' \in TreeRec
  PROVE  TeamInv'
  <1>1. cmd' = Idle
    BY DEF Return
  <1>2. cmd' \in Command /\ cmd'.pc \notin Leaving
    BY <1>1, CommandIdles DEF Leaving
  <1>3. TeamTyped' /\ World' /\ LeavingIsQuiet'
    BY <1>2, NothingMoves
  <1>4. QED BY <1>1, <1>3, IdleKnows DEF TeamInv

LEMMA PrimaryKeeps ==
  ASSUME TeamInv, Primary
  PROVE  TeamInv'
  <1>t. tree \in TreeRec /\ cmd \in Command /\ team \in TeamRec
    BY DEF TeamInv, TeamTyped
  <1>0. /\ "prepare" \in Pcs \ Leaving /\ "reconcile" \in Pcs \ Leaving /\ "close" \in Pcs \ Leaving
        /\ "claim" \in Pcs \ Leaving /\ "halt" \in Pcs \ Leaving
        /\ {"create", "reconcile", "close", "replace", "stop", "resume"} \subseteq Ops
    BY DEF Pcs, Ops, Creating, Reconciling, Leaving
  <1>a. ASSUME UNCHANGED <<team, actor, session, tree, disk, agents, frozen>>, cmd' \in Command,
               cmd'.pc \notin Leaving, Knows', KnowsReconciling'
        PROVE  TeamInv'
    BY <1>a, <1>t, NothingMoves DEF TeamInv
  <1>1. ASSUME NEW d \in Dirs, BeginCreate(d)
        PROVE  TeamInv'
    <2>1. /\ cmd' = [op |-> "create", pc |-> "prepare", dir |-> d, prev |-> FALSE, todo |-> {},
                     fresh |-> {}, at |-> "none", failed |-> FALSE]
          /\ UNCHANGED <<team, actor, session, tree, disk, agents, frozen>>
      BY <1>1 DEF BeginCreate, Begin, Idle, NoDir
    <2>2. cmd' \in Command /\ cmd'.pc = "prepare" /\ cmd'.dir = d
      BY <2>1, <1>0, CommandBegins
    <2>3. Knows' /\ KnowsReconciling'
      BY <2>2 DEF Knows, KnowsReconciling, KnowsRow, Creating, Reconciling, Stopping, Leaving
    <2>4. QED BY <1>a, <1>0, <2>1, <2>2, <2>3
  <1>2. ASSUME BeginReconcile \/ BeginClose
        PROVE  TeamInv'
    <2>1. PICK op \in {"reconcile", "close"} :
            /\ cmd' = [op |-> op, pc |-> op, dir |-> NoDir, prev |-> FALSE, todo |-> {},
                       fresh |-> {}, at |-> "none", failed |-> FALSE]
            /\ UNCHANGED <<team, actor, session, tree, disk, agents, frozen>>
            /\ team.status # "Absent"
      BY <1>2 DEF BeginReconcile, BeginClose, Begin, Idle, NoDir
    <2>2. cmd' \in Command /\ cmd'.pc = op /\ cmd'.fresh = {}
      BY <2>1, <1>0, CommandBegins
    <2>3. Knows' /\ KnowsReconciling'
      BY <2>1, <2>2 DEF Knows, KnowsReconciling, KnowsRow, Creating, Reconciling, Stopping, Leaving
    <2>4. QED BY <1>a, <1>0, <2>1, <2>2, <2>3
  <1>3. ASSUME NEW a \in Actors, BeginReplace(a)
        PROVE  TeamInv'
    <2>1. /\ cmd' = [op |-> "replace", pc |-> "claim", dir |-> session[a].dir, prev |-> FALSE, todo |-> {},
                     fresh |-> {}, at |-> a, failed |-> FALSE]
          /\ UNCHANGED <<team, actor, session, tree, disk, agents, frozen>>
          /\ a \in team.members /\ session[a].st # "none"
      BY <1>3 DEF BeginReplace, Idle, NoDir
    <2>2. session[a].dir \in Dirs /\ team.status # "Absent"
      BY <2>1 DEF TeamInv, World, RowsSay, TeamExists
    <2>3. /\ cmd' \in Command /\ cmd'.pc = "claim" /\ cmd'.dir = session[a].dir /\ cmd'.todo = {}
          /\ cmd'.fresh = {} /\ cmd'.at = a
      BY <2>1, <2>2, <1>0, CommandBegins
    <2>4. Knows' /\ KnowsReconciling'
      BY <2>1, <2>2, <2>3 DEF Knows, KnowsReconciling, KnowsRow, Creating, Reconciling, Stopping, Leaving
    <2>5. QED BY <1>a, <1>0, <2>1, <2>3, <2>4
  <1>4. ASSUME NEW a \in Actors, BeginStop(a)
        PROVE  TeamInv'
    <2>1. /\ cmd' = [op |-> "stop", pc |-> "halt", dir |-> NoDir, prev |-> FALSE, todo |-> {},
                     fresh |-> {}, at |-> a, failed |-> FALSE]
          /\ UNCHANGED <<team, actor, session, tree, disk, agents, frozen>>
          /\ a \in team.members
      BY <1>4 DEF BeginStop, Idle, NoDir
    <2>2. team.status # "Absent"
      BY <2>1 DEF TeamInv, World, TeamExists
    <2>3. cmd' \in Command /\ cmd'.pc = "halt" /\ cmd'.at = a
      BY <2>1, <1>0, CommandBegins
    <2>4. Knows' /\ KnowsReconciling'
      BY <2>1, <2>2, <2>3 DEF Knows, KnowsReconciling, KnowsRow, Creating, Reconciling, Stopping, Leaving
    <2>5. QED BY <1>a, <1>0, <2>1, <2>3, <2>4
  <1>5. ASSUME Pause \/ Resume
        PROVE  TeamInv'
    <2>1. PICK st \in {"Active", "Paused"} :
            /\ team' = [team EXCEPT !.status = st] /\ team.status \in {"Active", "Paused"}
            /\ UNCHANGED <<actor, session, tree, disk, agents, frozen>>
      BY <1>5 DEF Pause, Resume
    <2>2. team' \in TeamRec /\ team'.members = team.members /\ team'.status = st
      BY <2>1, <1>t DEF TeamRec
    <2>3. EpochsStay /\ DisksStay /\ StaysStopped /\ (Living' => Living)
      BY <2>1, <2>2 DEF EpochsStay, DisksStay, StaysStopped, Living
    <2>4. /\ cmd' \in Command /\ cmd'.pc \in {"idle", "reconcile"} /\ cmd'.fresh = {}
      <3>1. CASE Pause
        <4>1. cmd' = Idle
          BY <3>1 DEF Pause
        <4>2. cmd'.fresh = {} /\ cmd' \in Command /\ cmd'.pc = "idle"
          BY <4>1, CommandIdles DEF Idle
        <4>3. QED BY <4>2
      <3>2. CASE Resume
        <4>1. cmd' = [op |-> "resume", pc |-> "reconcile", dir |-> NoDir, prev |-> FALSE, todo |-> {},
                      fresh |-> {}, at |-> "none", failed |-> FALSE]
          BY <3>2 DEF Resume, Idle, NoDir
        <4>2. QED BY <4>1, <1>0, CommandBegins
      <3>3. QED BY <1>5, <3>1, <3>2
    <2>5. Knows' /\ KnowsReconciling'
      BY <2>2, <2>4 DEF Knows, KnowsReconciling, KnowsRow, Creating, Reconciling, Stopping, Leaving
    <2>6. disk' \in [Dirs -> {"absent", "clean", "dirty"}] /\ actor' \in [Actors -> ActorRec]
          /\ tree' \in TreeRec
      BY <2>1 DEF TeamInv, TeamTyped
    <2>7. cmd'.pc \notin Leaving /\ team'.status # "Closed" /\ team'.status # "Absent"
          /\ team.status # "Absent"
      BY <2>1, <2>2, <2>4 DEF Leaving
    <2>8. TeamTyped' /\ World' /\ LeavingIsQuiet'
      BY <2>1, <2>2, <2>3, <2>4, <2>6, <2>7, StillSteps
    <2>9. QED BY <2>5, <2>8 DEF TeamInv
  <1>6. QED BY <1>1, <1>2, <1>3, <1>4, <1>5 DEF Primary

\* team.create up to the mutation that creates the team, and the end of its resets.
LEMMA CreationKeeps ==
  ASSUME TeamInv,
         \/ Prepare \/ KnownDirectory \/ NewDirectory \/ AddWorktree \/ ActivateWorktree
         \/ RefuseRegister \/ ResetDone
  PROVE  TeamInv'
  <1>t. tree \in TreeRec /\ cmd \in Command /\ TeamTyped /\ disk \in [Dirs -> {"absent", "clean", "dirty"}]
        /\ team \in TeamRec /\ actor \in [Actors -> ActorRec]
    BY DEF TeamInv, TeamTyped
  <1>p. /\ "directory" \in Pcs \ Leaving /\ "add" \in Pcs \ Leaving /\ "activate" \in Pcs \ Leaving
        /\ "register" \in Pcs \ Leaving /\ "reconcile" \in Pcs \ Leaving
    BY DEF Pcs, Creating, Leaving
  <1>c. cmd.pc \in {"prepare", "directory", "add", "activate", "register"} => cmd.dir \in Dirs
    BY DEF TeamInv, Knows, Creating, Leaving
  <1>1. CASE Prepare
    <2>1. PICK b \in BOOLEAN : b = (team.status = "Closed")
      OBVIOUS
    <2>2. /\ cmd.pc = "prepare" /\ cmd' = [cmd EXCEPT !.prev = b, !.pc = "directory"]
          /\ UNCHANGED <<team, actor, session, disk, agents>>
      BY <1>1, <2>1 DEF Prepare
    <2>3. cmd' \in Command /\ cmd'.pc = "directory" /\ cmd'.dir = cmd.dir /\ cmd'.prev = b
      BY <2>2, <1>t, <1>p DEF Command
    <2>4. NoTree \in TreeRec
      BY DEF NoTree, TreeRec
    <2>5. tree' \in TreeRec /\ (frozen' = {} => frozen = {})
          /\ (team.status = "Closed" => frozen' # {})
      <3>1. CASE team.status = "Closed"
        <4>1. tree' = NoTree /\ frozen' = Freeze
          BY <1>1, <3>1 DEF Prepare
        <4>2. Freeze # {} /\ (Freeze = {} => frozen = {})
          BY DEF Freeze
        <4>3. QED BY <4>1, <4>2, <2>4
      <3>2. CASE team.status # "Closed"
        BY <1>1, <3>2, <1>t DEF Prepare
      <3>3. QED BY <3>1, <3>2
    <2>6. Knows' /\ KnowsReconciling'
      BY <2>1, <2>2, <2>3, <2>5, <1>c DEF Knows, KnowsReconciling, KnowsRow, Creating, Reconciling, Stopping, Leaving
    <2>7. TeamTyped' /\ World' /\ LeavingIsQuiet'
      BY <2>2, <2>3, <2>5, <1>p, NothingMoves
    <2>8. QED BY <2>6, <2>7 DEF TeamInv
  <1>2. ASSUME NEW p \in {"add", "activate", "register"}, Go(p), tree' \in TreeRec,
               cmd.pc \in {"directory", "add", "activate"}, DisksStay,
               disk' \in [Dirs -> {"absent", "clean", "dirty"}],
               UNCHANGED <<team, actor, session, agents, frozen>>
        PROVE  TeamInv'
    <2>1. /\ cmd' \in Command /\ cmd'.pc = p /\ cmd'.dir = cmd.dir /\ cmd'.prev = cmd.prev
      BY <1>2, <1>t, <1>p, CommandGoes DEF Go
    <2>2. EpochsStay /\ StaysStopped /\ (Living' => Living) /\ cmd'.pc \notin Leaving
      BY <1>2, <1>p, <2>1 DEF EpochsStay, StaysStopped, Living
    <2>3. TeamTyped' /\ World' /\ LeavingIsQuiet'
      BY <1>2, <1>t, <2>1, <2>2, StillSteps
    <2>4. Knows' /\ KnowsReconciling'
      BY <1>2, <1>c, <2>1 DEF TeamInv, Knows, KnowsReconciling, KnowsRow, Creating, Reconciling, Stopping, Leaving
    <2>5. QED BY <2>3, <2>4 DEF TeamInv
  <1>d. disk' = disk => DisksStay
    BY DEF DisksStay
  <1>3. CASE KnownDirectory
    <2>1. \/ tree' = tree \/ Outcome("Active") \/ Outcome("Creating")
      BY <1>3 DEF KnownDirectory
    <2>2. tree' \in TreeRec
      BY <2>1, <1>t, TreeOutcome
    <2>3. Go("register") \/ Go("add") \/ Return
      BY <1>3 DEF KnownDirectory
    <2>4. cmd.pc = "directory" /\ UNCHANGED <<team, actor, session, disk, agents, frozen>>
      BY <1>3 DEF KnownDirectory
    <2>5. CASE Return
      BY <2>2, <2>4, <2>5, ReturnKeeps
    <2>6. CASE Go("register") \/ Go("add")
      BY <1>2, <1>d, <1>t, <2>2, <2>4, <2>6
    <2>7. QED BY <2>3, <2>5, <2>6
  <1>4. CASE NewDirectory
    <2>1. cmd.pc = "directory" /\ UNCHANGED <<team, actor, session, disk, agents, frozen>>
          /\ (Go("register") \/ Go("add"))
      BY <1>4 DEF NewDirectory
    <2>2. tree' \in TreeRec
      BY <1>4, <1>c DEF NewDirectory, TreeRec
    <2>3. QED BY <1>2, <1>d, <1>t, <2>1, <2>2
  <1>5. CASE AddWorktree
    <2>1. CASE Go("activate") /\ tree' = tree /\ disk' = [disk EXCEPT ![cmd.dir] = "clean"]
      <3>1. DisksStay /\ disk' \in [Dirs -> {"absent", "clean", "dirty"}]
        BY <2>1, <1>t DEF DisksStay
      <3>2. QED BY <1>2, <1>5, <1>t, <2>1, <3>1 DEF AddWorktree
    <2>2. CASE Outcome("RetainedWithReason") /\ Return /\ disk' = disk
      BY <1>5, <1>t, <2>2, TreeOutcome, ReturnKeeps DEF AddWorktree
    <2>3. QED BY <1>5, <2>1, <2>2 DEF AddWorktree
  <1>6. CASE ActivateWorktree
    BY <1>2, <1>6, <1>d, <1>t, TreeOutcome DEF ActivateWorktree
  <1>7. CASE RefuseRegister
    BY <1>7, <1>t, ReturnKeeps DEF RefuseRegister
  <1>8. CASE ResetDone
    <2>1. cmd.pc = "reset" /\ UNCHANGED <<team, actor, session, tree, disk, agents, frozen>>
          /\ Go("reconcile")
      BY <1>8 DEF ResetDone
    <2>2. cmd' \in Command /\ cmd'.pc = "reconcile" /\ cmd'.fresh = cmd.fresh
      BY <2>1, <1>t, <1>p, CommandGoes DEF Go
    <2>3. Knows' /\ KnowsReconciling'
      BY <2>1, <2>2 DEF TeamInv, Knows, KnowsReconciling, KnowsRow, Creating, Reconciling, Stopping, Leaving
    <2>4. TeamTyped' /\ World' /\ LeavingIsQuiet'
      BY <2>1, <2>2, <1>t, <1>p, NothingMoves
    <2>5. QED BY <2>3, <2>4 DEF TeamInv
  <1>9. QED BY <1>1, <1>3, <1>4, <1>5, <1>6, <1>7, <1>8

\* "team.created", and a row that is emptied after it.
LEMMA RegisterKeeps ==
  ASSUME TeamInv, Register
  PROVE  TeamInv'
  <1>t. TeamTyped /\ cmd \in Command /\ team \in TeamRec /\ actor \in [Actors -> ActorRec]
    BY DEF TeamInv, TeamTyped
  <1>1. PICK F, T : /\ F = (IF team.status \in {"Absent", "Closed"} THEN Actors ELSE {})
                    /\ T = IF cmd.prev THEN {a \in Actors : session[a].st # "none"} ELSE {}
    OBVIOUS
  <1>2. /\ cmd.pc = "register" /\ cmd' = [cmd EXCEPT !.fresh = F, !.todo = T, !.pc = "reset"]
        /\ UNCHANGED <<session, tree, disk, agents, frozen>>
    BY <1>1 DEF Register
  <1>3. /\ cmd' \in Command /\ cmd'.pc = "reset" /\ cmd'.dir = cmd.dir /\ cmd'.fresh = F
        /\ cmd'.todo = T
    <2>1. F \subseteq Actors /\ T \subseteq Actors /\ "reset" \in Pcs
      BY <1>1 DEF Pcs, Creating
    <2>2. QED BY <2>1, <1>2, <1>t DEF Command
  <1>4. /\ cmd.dir \in Dirs /\ (cmd.prev <=> team.status = "Closed") /\ (cmd.prev => frozen # {})
    BY <1>2 DEF TeamInv, Knows, Creating, Leaving
  <1>5. CASE team.status \in {"Absent", "Closed"}
    <2>1. /\ team' = [status |-> "Active", epoch |-> team.epoch + 1, members |-> Actors]
          /\ actor' = [a \in Actors |-> [epoch |-> actor[a].epoch + 1, status |-> "Healthy"]]
      BY <1>5 DEF Register
    <2>2. \A a \in Actors : actor[a].epoch \in Nat
      BY <1>t DEF ActorRec
    <2>3. /\ team' \in TeamRec /\ team'.status = "Active" /\ team'.members = Actors
      BY <2>1, <1>t DEF TeamRec
    <2>4. /\ actor' \in [Actors -> ActorRec]
          /\ \A a \in Actors : actor'[a].epoch = actor[a].epoch + 1
      BY <2>1, <2>2 DEF ActorRec
    <2>5. TeamTyped'
      BY <1>2, <1>3, <1>t, <2>3, <2>4 DEF TeamTyped
    <2>6. TeamExists'
      BY <2>2, <2>3, <2>4 DEF TeamExists
    <2>7. RowsSay'
      BY <1>2 DEF TeamInv, World, RowsSay, AgentOf
    <2>8. \A x \in agents : x.actor \in Actors /\ x.epoch \in Nat /\ x.epoch >= 1
                            /\ x.epoch <= actor[x.actor].epoch
      BY <1>t, AgentTyped DEF TeamInv, World, AgentsFollow
    <2>9. \A x \in agents : x.epoch < actor'[x.actor].epoch
      BY <2>2, <2>4, <2>8
    <2>10. \A x \in agents : x.epoch <= actor'[x.actor].epoch /\ x.epoch # actor'[x.actor].epoch
      BY <2>2, <2>4, <2>8, <2>9
    <2>11. AgentsFollow'
      BY <1>2, <2>10 DEF AgentsFollow
    <2>12. team.status = "Closed" => frozen' # {}
      BY <1>2, <1>4
    <2>13. team.status = "Absent" => agents = {} /\ \A a \in Actors : session[a].st = "none"
      <3>1. team.status = "Absent" =>
              \A a \in Actors : actor[a].epoch = 0 /\ session[a].st = "none"
        BY DEF TeamInv, World, TeamExists
      <3>2. QED BY <3>1, <2>8
    <2>14. LivingInReach'
      BY <1>2, <1>5, <2>12, <2>13 DEF LivingInReach, Living
    <2>15. KnownAgentKeepsItsDirectory'
      BY <1>2 DEF TeamInv, World, KnownAgentKeepsItsDirectory, AgentOf
    <2>16. LeavingIsQuiet'
      BY <1>3, <2>3 DEF LeavingIsQuiet, Leaving
    <2>17. \A a \in T : session[a].st # "none" /\ a \in Actors
      BY <1>1
    <2>18. \A x \in agents : x.actor \in Actors => x.epoch # actor'[x.actor].epoch
      BY <2>10
    <2>19. frozen' = {} => \A a \in F : session'[a].st = "none"
      BY <1>1, <1>2, <1>5, <2>12, <2>13
    <2>20. Knows'
      BY <1>2, <1>3, <1>4, <2>3, <2>17, <2>18, <2>19 DEF Knows, Creating, Reconciling, Stopping, Leaving
    <2>21. KnowsReconciling'
      BY <1>3 DEF KnowsReconciling, KnowsRow, Reconciling
    <2>22. World'
      BY <2>6, <2>7, <2>11, <2>14, <2>15 DEF World
    <2>23. QED BY <2>5, <2>16, <2>20, <2>21, <2>22 DEF TeamInv
  <1>6. CASE team.status \notin {"Absent", "Closed"}
    <2>1. UNCHANGED <<team, actor>> /\ F = {} /\ T = {}
      BY <1>1, <1>4, <1>6 DEF Register
    <2>2. Knows' /\ KnowsReconciling'
      BY <1>2, <1>3, <1>4, <1>6, <2>1 DEF Knows, KnowsReconciling, KnowsRow, Creating, Reconciling, Stopping, Leaving
    <2>3. cmd'.pc \notin Leaving /\ tree' \in TreeRec
      BY <1>2, <1>3, <1>t DEF Leaving, TeamTyped
    <2>4. TeamTyped' /\ World' /\ LeavingIsQuiet'
      BY <1>2, <1>3, <2>1, <2>3, NothingMoves
    <2>5. QED BY <2>2, <2>4 DEF TeamInv
  <1>7. QED BY <1>5, <1>6

-----------------------------------------------------------------------------
(* Steps that write the row of one actor.                                  *)

\* The row r and the agents A agree on actor a.
RowFits(a, r, A) ==
  LET mine == {x \in A : x.actor = a} IN
  /\ r.st \in {"none", "missing", "launching", "launch_failed"} => r.ext = 0
  /\ r.st = "stopped" => \A x \in mine : x.epoch # r.ext
  /\ r.st # "none" => r.dir \in Dirs
  /\ \A x \in mine : /\ x.epoch <= actor[a].epoch
                     /\ x.epoch = actor[a].epoch => r.st # "none" /\ x.dir = r.dir
                     /\ x.epoch = r.ext => disk[x.dir] # "absent"
  /\ Living => \A x \in mine : x.epoch = actor[a].epoch /\ x.epoch \in {r.token, r.ext}
  /\ Living /\ r.st \in {"launching", "launch_failed"} /\ r.key = ReplacementKey(actor[a].epoch)
       => mine = {}

LEMMA WorldMoves ==
  ASSUME TeamTyped, World, NEW a \in Actors, NEW r \in Row, NEW A, RowFits(a, r, A),
         session' = [session EXCEPT ![a] = r], agents' = A, EpochsStay,
         \A x \in A : x.actor # a => x \in agents, A \subseteq AgentRec,
         UNCHANGED <<team, disk, frozen>>, team.status # "Absent"
  PROVE  World'
  <1>1. /\ session'[a] = r /\ \A b \in Actors \ {a} : session'[b] = session[b]
    BY RowBecomes DEF TeamTyped
  <1>2. \A x \in A : x.actor \in Actors
    BY DEF AgentRec
  <1>3. TeamExists'
    BY DEF World, TeamExists, EpochsStay
  <1>4. RowsSay'
    <2>1. ASSUME NEW b \in Actors
          PROVE  /\ session'[b].st \in {"none", "missing", "launching", "launch_failed"}
                      => session'[b].ext = 0
                 /\ session'[b].st = "stopped" => \A x \in A : ~(x.actor = b /\ x.epoch = session'[b].ext)
                 /\ session'[b].st # "none" => session'[b].dir \in Dirs
      <3>1. CASE b = a
        BY <1>1, <3>1 DEF RowFits
      <3>2. CASE b # a
        BY <1>1, <3>2 DEF World, RowsSay, AgentOf
      <3>3. QED BY <3>1, <3>2
    <2>2. QED BY <2>1 DEF RowsSay, AgentOf
  <1>5. AgentsFollow'
    <2>1. ASSUME NEW x \in A
          PROVE  /\ x.epoch <= actor'[x.actor].epoch
                 /\ x.epoch = actor'[x.actor].epoch =>
                      session'[x.actor].st # "none" /\ x.dir = session'[x.actor].dir
      <3>1. CASE x.actor = a
        BY <1>1, <3>1 DEF RowFits, EpochsStay
      <3>2. CASE x.actor # a
        BY <1>1, <1>2, <3>2 DEF World, AgentsFollow, EpochsStay
      <3>3. QED BY <3>1, <3>2
    <2>2. QED BY <2>1 DEF AgentsFollow
  <1>6. LivingInReach'
    <2>1. Living' <=> Living
      BY DEF Living
    <2>2. ASSUME Living, NEW x \in A
          PROVE  /\ x.epoch = actor'[x.actor].epoch
                 /\ x.epoch \in {session'[x.actor].token, session'[x.actor].ext}
      <3>1. CASE x.actor = a
        BY <1>1, <2>2, <3>1 DEF RowFits, EpochsStay
      <3>2. CASE x.actor # a
        BY <1>1, <1>2, <2>2, <3>2 DEF World, LivingInReach, EpochsStay
      <3>3. QED BY <3>1, <3>2
    <2>3. ASSUME Living, NEW b \in Actors, session'[b].st \in {"launching", "launch_failed"},
                 session'[b].key = ReplacementKey(actor'[b].epoch)
          PROVE  \A x \in A : x.actor # b
      <3>0. session'[b].key = ReplacementKey(actor[b].epoch)
        BY <2>3 DEF EpochsStay, ReplacementKey
      <3>1. CASE b = a
        BY <1>1, <2>3, <3>0, <3>1 DEF RowFits
      <3>2. CASE b # a
        BY <1>1, <2>3, <3>0, <3>2 DEF World, LivingInReach
      <3>3. QED BY <3>1, <3>2
    <2>4. QED BY <2>1, <2>2, <2>3 DEF LivingInReach, ReplacementKey
  <1>7. KnownAgentKeepsItsDirectory'
    <2>1. ASSUME NEW b \in Actors, NEW x \in A, x.actor = b, x.epoch = session'[b].ext
          PROVE  disk[x.dir] # "absent"
      <3>1. CASE b = a
        BY <1>1, <2>1, <3>1 DEF RowFits
      <3>2. CASE b # a
        BY <1>1, <2>1, <3>2 DEF World, KnownAgentKeepsItsDirectory, AgentOf
      <3>3. QED BY <3>1, <3>2
    <2>2. QED BY <2>1 DEF KnownAgentKeepsItsDirectory, AgentOf
  <1>8. QED BY <1>3, <1>4, <1>5, <1>6, <1>7 DEF World

\* What is known of actor a: its row agrees with the agents.
LEMMA RowFitted ==
  ASSUME TeamTyped, World, NEW a \in Actors
  PROVE  RowFits(a, session[a], agents)
  <1>1. /\ session[a].st \in {"none", "missing", "launching", "launch_failed"} => session[a].ext = 0
        /\ session[a].st = "stopped" => \A x \in agents : ~(x.actor = a /\ x.epoch = session[a].ext)
        /\ session[a].st # "none" => session[a].dir \in Dirs
    BY DEF World, RowsSay, AgentOf
  <1>2. \A x \in agents : x.actor = a =>
          /\ x.epoch <= actor[a].epoch
          /\ x.epoch = actor[a].epoch => session[a].st # "none" /\ x.dir = session[a].dir
          /\ x.epoch = session[a].ext => disk[x.dir] # "absent"
    BY DEF World, AgentsFollow, KnownAgentKeepsItsDirectory, AgentOf
  <1>3. Living => \A x \in agents : x.actor = a =>
          x.epoch = actor[a].epoch /\ x.epoch \in {session[a].token, session[a].ext}
    BY DEF World, LivingInReach
  <1>4. Living /\ session[a].st \in {"launching", "launch_failed"}
          /\ session[a].key = ReplacementKey(actor[a].epoch) => \A x \in agents : x.actor # a
    BY DEF World, LivingInReach
  <1>5. QED BY <1>1, <1>2, <1>3, <1>4 DEF RowFits

\* Of a quiet actor the row moves and stays quiet.
LEMMA QuietMoves ==
  ASSUME TeamTyped, LeavingIsQuiet, NEW a \in Actors, NEW r \in Row, NEW A,
         session' = [session EXCEPT ![a] = r], agents' = A, EpochsStay, StaysStopped,
         \A x \in A : x.actor # a => x \in agents,
         team'.status = "Closed" \/ cmd'.pc \in Leaving => team.status = "Closed" \/ cmd.pc \in Leaving,
         Quiet(a) => /\ \A x \in A : x.actor = a => x.epoch # r.ext
                     /\ Replacing(r) => r.key = ReplacementKey(actor[a].epoch)
  PROVE  LeavingIsQuiet'
  <1>1. /\ session'[a] = r /\ \A b \in Actors \ {a} : session'[b] = session[b]
    BY RowBecomes DEF TeamTyped
  <1>2. SUFFICES ASSUME team'.status = "Closed" \/ cmd'.pc \in Leaving, NEW b \in Actors
                 PROVE  Quiet(b)'
    BY DEF LeavingIsQuiet
  <1>3. Quiet(b) /\ Quiet(a)
    BY <1>2 DEF LeavingIsQuiet
  <1>4. actor'[b].status = "Stopped" /\ actor'[b].epoch = actor[b].epoch
    BY <1>3 DEF Quiet, StaysStopped, EpochsStay
  <1>5. CASE b = a
    <2>1. /\ \A x \in A : x.actor = a => x.epoch # r.ext
          /\ Replacing(r) => r.key = ReplacementKey(actor[a].epoch)
      BY <1>3
    <2>2. AgentOf(b, session[b].ext)' = {}
      BY <1>1, <1>5, <2>1 DEF AgentOf
    <2>3. Replacing(session[b])' => (session[b].key = ReplacementKey(actor[b].epoch))'
      BY <1>1, <1>4, <1>5, <2>1 DEF Replacing, ReplacementKey
    <2>4. QED BY <1>4, <2>2, <2>3 DEF Quiet
  <1>6. CASE b # a
    BY <1>1, <1>3, <1>4, <1>6 DEF Quiet, AgentOf, Replacing, ReplacementKey
  <1>7. QED BY <1>5, <1>6

\* All but the knowledge of the command.
LEMMA RowSteps ==
  ASSUME TeamInv, NEW a \in Actors, NEW r \in Row, NEW A, RowFits(a, r, A),
         session' = [session EXCEPT ![a] = r], agents' = A, A \subseteq AgentRec,
         \A x \in A : x.actor # a => x \in agents, EpochsStay,
         UNCHANGED <<team, tree, disk, frozen>>, team.status # "Absent",
         actor' \in [Actors -> ActorRec], cmd' \in Command, cmd'.pc \notin Leaving,
         team.status = "Closed" =>
           /\ StaysStopped
           /\ Quiet(a) => /\ \A x \in A : x.actor = a => x.epoch # r.ext
                          /\ Replacing(r) => r.key = ReplacementKey(actor[a].epoch)
  PROVE  TeamTyped' /\ World' /\ LeavingIsQuiet'
  <1>1. TeamTyped'
    BY RowBecomes DEF TeamInv, TeamTyped
  <1>2. World'
    BY WorldMoves DEF TeamInv
  <1>3. LeavingIsQuiet'
    <2>1. CASE team.status = "Closed"
      BY <2>1, QuietMoves DEF TeamInv
    <2>2. CASE team.status # "Closed"
      BY <2>2 DEF LeavingIsQuiet
    <2>3. QED BY <2>1, <2>2
  <1>4. QED BY <1>1, <1>2, <1>3

\* The knowledge, while the command reconciles actor a.
LEMMA StillReconciling ==
  ASSUME TeamInv, NEW a \in Actors, cmd.pc \in Reconciling, cmd'.pc \in Reconciling,
         cmd.pc = "actors" \/ cmd.at = a, cmd'.dir = cmd.dir, cmd'.fresh = cmd.fresh,
         \/ cmd'.pc = "actors" /\ cmd'.todo = cmd.todo \ {a}
         \/ cmd'.pc # "actors" /\ cmd'.todo = cmd.todo /\ cmd'.at = a /\ KnowsRow',
         frozen' = frozen, disk' = disk, team'.status = team.status,
         \A b \in Actors \ {a} : session'[b] = session[b]
  PROVE  Knows' /\ KnowsReconciling'
  <1>1. team.status # "Absent"
    BY DEF TeamInv, Knows, Reconciling, Creating, Leaving
  <1>2. cmd.fresh \subseteq Actors /\ cmd.todo \subseteq Actors
    BY DEF TeamInv, TeamTyped, Command
  <1>3. ASSUME frozen' = {}, NEW b \in cmd'.fresh
        PROVE  \/ session'[b].st = "none"
               \/ cmd'.pc \in Reconciling /\ (b \notin cmd'.todo \/ (cmd'.pc # "actors" /\ b = cmd'.at))
    <2>1. CASE b = a
      BY <2>1
    <2>2. CASE b # a
      <3>1. \/ session[b].st = "none"
            \/ b \notin cmd.todo \/ (cmd.pc # "actors" /\ b = cmd.at)
        BY <1>3 DEF TeamInv, Knows, Leaving
      <3>2. QED BY <1>2, <1>3, <2>2, <3>1
    <2>3. QED BY <2>1, <2>2
  <1>4. /\ cmd'.pc \notin Creating /\ cmd'.pc \notin {"directory", "add", "activate", "register"}
        /\ cmd'.pc # "reset" /\ cmd'.pc \notin Stopping /\ cmd'.pc # "stop_session"
        /\ cmd'.pc \notin {"halt", "halted"} /\ cmd'.pc \notin {"closing"} \cup Stopping \cup Leaving
    BY DEF Reconciling, Creating, Stopping, Leaving
  <1>5. Knows'
    BY <1>1, <1>3, <1>4 DEF Knows
  <1>6. /\ cmd.dir \in Dirs
        /\ \A b \in cmd.todo : session[b].st # "none" => session[b].dir = cmd.dir
        /\ cmd.todo # {} => team.status = "Active" /\ disk[cmd.dir] # "absent"
    BY DEF TeamInv, KnowsReconciling
  <1>7. cmd'.pc # "actors" => (session'[a].st # "none" => session'[a].dir = cmd'.dir)
    BY DEF KnowsRow
  <1>8. KnowsReconciling'
    BY <1>2, <1>6, <1>7 DEF KnowsReconciling
  <1>9. QED BY <1>5, <1>8

LEMMA ReconcilingPcs ==
  /\ Reconciling \subseteq Pcs /\ Reconciling \cap Leaving = {}
  /\ {"actors", "launch", "recover", "start", "handle", "claim", "clear", "advance", "relaunch"}
       = Reconciling
  BY DEF Reconciling, Pcs, Leaving

\* The work on an actor ends, or goes to its next step, and nothing else changes.
LEMMA ActorEnds ==
  ASSUME TeamInv, NEW a, NEW ok \in BOOLEAN, ActorDone(a, ok, "actors")
  PROVE  /\ cmd' \in Command /\ cmd'.pc = "actors" /\ cmd'.dir = cmd.dir /\ cmd'.fresh = cmd.fresh
         /\ cmd'.todo = cmd.todo \ {a}
  <1>1. cmd \in Command /\ "actors" \in Pcs
    BY DEF TeamInv, TeamTyped, Pcs, Reconciling
  <1>2. QED BY <1>1, CommandDone DEF ActorDone

LEMMA ActorSkipped ==
  ASSUME TeamInv, NEW a \in Actors, NEW ok \in BOOLEAN, ActorDone(a, ok, "actors"),
         cmd.pc \in Reconciling, cmd.pc = "actors" \/ cmd.at = a,
         UNCHANGED <<team, actor, session, tree, disk, agents, frozen>>
  PROVE  TeamInv'
  <1>1. /\ cmd' \in Command /\ cmd'.pc = "actors" /\ cmd'.dir = cmd.dir /\ cmd'.fresh = cmd.fresh
        /\ cmd'.todo = cmd.todo \ {a}
    BY ActorEnds
  <1>2. cmd'.pc \in Reconciling /\ cmd'.pc \notin Leaving /\ tree' \in TreeRec
    BY <1>1, ReconcilingPcs DEF TeamInv, TeamTyped
  <1>3. Knows' /\ KnowsReconciling'
    BY <1>1, <1>2, StillReconciling
  <1>4. TeamTyped' /\ World' /\ LeavingIsQuiet'
    BY <1>1, <1>2, NothingMoves
  <1>5. QED BY <1>3, <1>4 DEF TeamInv

LEMMA ActorGoesOn ==
  ASSUME TeamInv, NEW a \in Actors, NEW p \in Reconciling \ {"actors"}, cmd'.at = a,
         Go(p) \/ Managing(a, p), cmd.pc \in Reconciling, cmd.pc = "actors" \/ cmd.at = a,
         UNCHANGED <<team, actor, session, tree, disk, agents, frozen>>, KnowsRow'
  PROVE  TeamInv'
  <1>0. cmd \in Command /\ p \in Pcs /\ tree' \in TreeRec
    BY ReconcilingPcs DEF TeamInv, TeamTyped
  <1>1. /\ cmd' \in Command /\ cmd'.pc = p /\ cmd'.dir = cmd.dir /\ cmd'.fresh = cmd.fresh
        /\ cmd'.todo = cmd.todo
    BY <1>0, CommandGoes, CommandManages DEF Go, Managing
  <1>2. cmd'.pc \in Reconciling /\ cmd'.pc \notin Leaving
    BY <1>1, ReconcilingPcs
  <1>3. Knows' /\ KnowsReconciling'
    BY <1>1, <1>2, StillReconciling
  <1>4. TeamTyped' /\ World' /\ LeavingIsQuiet'
    BY <1>0, <1>1, <1>2, NothingMoves
  <1>5. QED BY <1>3, <1>4 DEF TeamInv

LEMMA ResetSessionKeeps ==
  ASSUME TeamInv, NEW a \in Actors, ResetSession(a)
  PROVE  TeamInv'
  <1>t. TeamTyped /\ cmd \in Command /\ World /\ actor \in [Actors -> ActorRec] /\ agents \subseteq AgentRec
    BY DEF TeamInv, TeamTyped
  <1>1. PICK r, T : /\ r = [st |-> "missing", ext |-> 0, token |-> 0, dir |-> cmd.dir, key |-> <<"seed">>]
                    /\ T = cmd.todo \ {a}
    OBVIOUS
  <1>2. /\ cmd.pc = "reset" /\ a \in cmd.todo /\ session' = [session EXCEPT ![a] = r]
        /\ cmd' = [cmd EXCEPT !.todo = T] /\ UNCHANGED <<team, actor, tree, disk, agents, frozen>>
    BY <1>1 DEF ResetSession
  <1>3. /\ cmd.dir \in Dirs /\ team.status # "Absent" /\ session[a].st # "none"
        /\ \A x \in agents : x.actor = a => x.epoch # actor[a].epoch
        /\ frozen = {} => \A b \in cmd.fresh : session[b].st = "none"
    BY <1>2 DEF TeamInv, Knows, Creating, Reconciling, Leaving
  <1>4. r \in Row /\ r.st = "missing" /\ r.ext = 0 /\ r.dir = cmd.dir
    <2>1. "missing" \in States /\ 0 \in Nat /\ cmd.dir \in Dirs \cup {NoDir} /\ <<"seed">> \in Keys
      BY <1>3, KeysAre DEF States
    <2>2. QED BY <1>1, <2>1, RowIs
  <1>5. /\ cmd' \in Command /\ cmd'.pc = "reset" /\ cmd'.dir = cmd.dir /\ cmd'.fresh = cmd.fresh
        /\ cmd'.todo = T
    <2>1. T \subseteq Actors
      BY <1>1, <1>t DEF Command
    <2>2. QED BY <2>1, <1>2, <1>t DEF Command
  <1>6. RowFits(a, r, agents)
    <2>1. \A x \in agents : x.actor = a => x.epoch <= actor[a].epoch /\ x.epoch # actor[a].epoch /\ x.epoch # 0
      BY <1>3, <1>t, AgentTyped DEF World, AgentsFollow
    <2>2. Living => \A x \in agents : x.actor # a
      BY <1>3, <1>t DEF World, LivingInReach
    <2>3. QED BY <1>3, <1>4, <2>1, <2>2 DEF RowFits
  <1>7. \A x \in agents : x.actor = a => x.epoch # r.ext
    BY <1>t, <1>4, AgentTyped
  <1>8. ~Replacing(r) /\ EpochsStay /\ StaysStopped
    BY <1>2, <1>4 DEF Replacing, EpochsStay, StaysStopped
  <1>9. cmd'.pc \notin Leaving /\ actor' \in [Actors -> ActorRec]
    BY <1>2, <1>5, <1>t DEF Leaving
  <1>10. TeamTyped' /\ World' /\ LeavingIsQuiet'
    BY <1>2, <1>3, <1>4, <1>5, <1>6, <1>7, <1>8, <1>9, <1>t, RowSteps
  <1>11. \A b \in Actors \ {a} : session'[b] = session[b]
    BY <1>2, <1>4, <1>t, RowBecomes DEF TeamTyped
  <1>12. \A b \in T : b \in cmd.todo /\ b \in Actors \ {a}
    BY <1>1, <1>t DEF Command
  <1>13. \A b \in T : /\ session'[b].st # "none"
                      /\ \A x \in agents' : x.actor = b => x.epoch # actor'[b].epoch
    BY <1>2, <1>11, <1>12 DEF TeamInv, Knows, Leaving
  <1>14. frozen' = {} => \A b \in cmd'.fresh : session'[b].st = "none"
    <2>1. cmd.fresh \subseteq Actors
      BY <1>t DEF Command
    <2>2. frozen = {} => a \notin cmd.fresh
      BY <1>3
    <2>3. QED BY <1>2, <1>3, <1>5, <1>11, <2>1, <2>2
  <1>15. Knows'
    BY <1>2, <1>3, <1>5, <1>13, <1>14 DEF Knows, Creating, Reconciling, Stopping, Leaving
  <1>16. KnowsReconciling'
    BY <1>5 DEF KnowsReconciling, Reconciling
  <1>17. QED BY <1>10, <1>15, <1>16 DEF TeamInv

LEMMA EnterReconcileKeeps ==
  ASSUME TeamInv, EnterReconcile
  PROVE  TeamInv'
  <1>t. cmd \in Command /\ tree \in TreeRec /\ team \in TeamRec
    BY DEF TeamInv, TeamTyped
  <1>0. /\ cmd.pc = "reconcile" /\ UNCHANGED <<team, actor, session, tree, disk, agents, frozen>>
        /\ team.status # "Absent"
    BY DEF EnterReconcile, TeamInv, Knows, Creating, Leaving
  <1>a. ASSUME cmd' \in Command, cmd'.pc \notin Leaving, Knows', KnowsReconciling'
        PROVE  TeamInv'
    BY <1>0, <1>a, <1>t, NothingMoves DEF TeamInv
  <1>1. CASE Go("closing") /\ team.status \in {"Closing", "Closed"}
    <2>1. "closing" \in Pcs \ Leaving
      BY DEF Pcs, Leaving
    <2>2. cmd' \in Command /\ cmd'.pc = "closing"
      BY <1>1, <1>t, <2>1, CommandGoes DEF Go
    <2>3. Knows' /\ KnowsReconciling'
      BY <1>0, <1>1, <2>2 DEF Knows, KnowsReconciling, Creating, Reconciling, Stopping, Leaving
    <2>4. QED BY <1>a, <2>1, <2>2, <2>3
  <1>2. CASE Return
    BY <1>0, <1>2, <1>t, ReturnKeeps
  <1>3. ASSUME NEW d, d # NoDir, d = tree.dir, OneDirectory(d), team.status = "Active",
               cmd' = [cmd EXCEPT !.dir = d, !.todo = Actors, !.pc = "actors"]
        PROVE  TeamInv'
    <2>1. d \in Dirs /\ "actors" \in Pcs \ Leaving
      BY <1>3, <1>t DEF TreeRec, Pcs, Reconciling, Leaving
    <2>2. /\ cmd' \in Command /\ cmd'.pc = "actors" /\ cmd'.dir = d /\ cmd'.todo = Actors
          /\ cmd'.fresh = cmd.fresh
      BY <1>3, <1>t, <2>1 DEF Command
    <2>3. frozen = {} => \A b \in cmd.fresh : session[b].st = "none"
      BY <1>0 DEF TeamInv, Knows, Reconciling, Leaving
    <2>4. Knows'
      BY <1>0, <1>3, <2>2, <2>3 DEF Knows, Creating, Reconciling, Stopping, Leaving
    <2>5. KnowsReconciling'
      BY <1>0, <1>3, <2>1, <2>2 DEF KnowsReconciling, OneDirectory
    <2>6. QED BY <1>a, <2>1, <2>2, <2>4, <2>5
  <1>4. QED
    <2>1. PICK d : d = IF cmd.dir # NoDir THEN cmd.dir ELSE tree.dir
      OBVIOUS
    <2>2. CASE team.status \in {"Closing", "Closed"}
      BY <1>1, <2>2 DEF EnterReconcile
    <2>3. CASE team.status = "Paused"
      BY <1>2, <2>3 DEF EnterReconcile
    <2>4. CASE team.status = "Active"
      <3>1. \/ /\ d # NoDir /\ d = tree.dir /\ OneDirectory(d)
               /\ cmd' = [cmd EXCEPT !.dir = d, !.todo = Actors, !.pc = "actors"]
            \/ Return
        BY <2>1, <2>4 DEF EnterReconcile
      <3>2. QED BY <1>2, <1>3, <2>4, <3>1
    <2>5. team.status \in {"Absent", "Active", "Paused", "Closing", "Closed"}
      BY <1>t DEF TeamRec
    <2>6. QED BY <1>0, <2>2, <2>3, <2>4, <2>5

LEMMA DecideKeeps ==
  ASSUME TeamInv, NEW a \in Actors, Decide(a)
  PROVE  TeamInv'
  <1>t. TeamTyped /\ World /\ cmd \in Command /\ tree \in TreeRec /\ team \in TeamRec
        /\ actor \in [Actors -> ActorRec] /\ agents \subseteq AgentRec
    BY DEF TeamInv, TeamTyped
  <1>0. /\ cmd.pc = "actors" /\ a \in cmd.todo /\ UNCHANGED <<team, tree, disk, agents, frozen>>
        /\ cmd.pc \in Reconciling /\ cmd.pc \notin {"launch", "recover"}
    BY DEF Decide, Reconciling
  <1>1. /\ cmd.dir \in Dirs /\ (session[a].st # "none" => session[a].dir = cmd.dir)
        /\ team.status = "Active" /\ disk[cmd.dir] # "absent"
        /\ frozen = {} /\ a \in cmd.fresh => session[a].st = "none"
    BY <1>0 DEF TeamInv, Knows, KnowsReconciling, Leaving
  <1>2. ASSUME NEW p \in {"launch", "recover", "claim"}, Managing(a, p), UNCHANGED <<actor, session>>,
               p = "launch" => (frozen = {} => session[a].st \in {"none", "launching", "launch_failed"}),
               p = "recover" => session[a].st \in {"launching", "launch_failed"} /\ ~Replacing(session[a])
        PROVE  TeamInv'
    <2>1. p \in Reconciling \ {"actors"} /\ p \in Pcs
      BY ReconcilingPcs DEF Reconciling
    <2>2. cmd'.at = a /\ cmd'.pc = p /\ cmd'.dir = cmd.dir /\ cmd'.todo = cmd.todo
      BY <1>2, <1>t, <2>1, CommandManages DEF Managing
    <2>3. KnowsRow'
      BY <1>0, <1>1, <1>2, <2>2 DEF KnowsRow, Replacing
    <2>4. QED BY <1>0, <1>2, <2>1, <2>2, <2>3, ActorGoesOn
  <1>3. CASE Replacing(session[a])
    BY <1>2, <1>3 DEF Decide
  <1>4. CASE ~Replacing(session[a]) /\ actor[a].status # "Stopped" /\ (a \in cmd.fresh \/ OwnLaunch(a))
    <2>1. frozen = {} => session[a].st \in {"none", "launching", "launch_failed"}
      BY <1>1, <1>4 DEF OwnLaunch, Incomplete
    <2>2. Managing(a, "launch") /\ UNCHANGED <<actor, session>>
      BY <1>4 DEF Decide
    <2>3. QED BY <1>2, <2>1, <2>2
  <1>5. CASE Managing(a, "recover") /\ UNCHANGED <<actor, session>> /\ ~Replacing(session[a])
             /\ Incomplete(session[a])
    BY <1>2, <1>5 DEF Incomplete
  <1>6. CASE ActorDone(a, FALSE, "actors") /\ UNCHANGED <<actor, session>>
    BY <1>0, <1>6, ActorSkipped
  <1>7. CASE /\ Present(a) /\ session' = [session EXCEPT ![a].st = "idle"]
             /\ actor' = [actor EXCEPT ![a].status = "Healthy"] /\ ActorDone(a, TRUE, "actors")
    <2>1. PICK r : r = [session[a] EXCEPT !.st = "idle"]
      OBVIOUS
    <2>2. /\ r \in Row /\ r.st = "idle" /\ r.ext = session[a].ext /\ r.token = session[a].token
          /\ r.dir = session[a].dir /\ r.key = session[a].key
      <3>1. "idle" \in States
        BY DEF States
      <3>2. session[a] \in Row
        BY <1>t, RowTyped
      <3>3. QED BY <2>1, <3>1, <3>2, RowMarked
    <2>3. session' = [session EXCEPT ![a] = r]
      BY <1>7, <1>t, <2>1 DEF TeamTyped
    <2>4. session[a].st # "none"
      BY <1>7, <1>t DEF Present, World, RowsSay
    <2>5. RowFits(a, r, agents)
      <3>1. RowFits(a, session[a], agents)
        BY <1>t, RowFitted
      <3>2. QED BY <2>2, <2>4, <3>1 DEF RowFits
    <2>6. /\ cmd' \in Command /\ cmd'.pc = "actors" /\ cmd'.dir = cmd.dir /\ cmd'.fresh = cmd.fresh
          /\ cmd'.todo = cmd.todo \ {a}
      BY <1>7, ActorEnds
    <2>7. actor' \in [Actors -> ActorRec] /\ EpochsStay
      BY <1>7, <1>t DEF ActorRec, EpochsStay
    <2>8. cmd'.pc \in Reconciling /\ cmd'.pc \notin Leaving
      BY <2>6, ReconcilingPcs
    <2>9. TeamTyped' /\ World' /\ LeavingIsQuiet'
      BY <1>0, <1>1, <1>t, <2>2, <2>3, <2>5, <2>6, <2>7, <2>8, RowSteps
    <2>10. \A b \in Actors \ {a} : session'[b] = session[b]
      BY <1>t, <2>2, <2>3, RowBecomes DEF TeamTyped
    <2>11. Knows' /\ KnowsReconciling'
      BY <1>0, <2>6, <2>8, <2>10, StillReconciling
    <2>12. QED BY <2>9, <2>11 DEF TeamInv
  <1>8. CASE /\ actor' = [actor EXCEPT ![a].status = IF @ = "Healthy" THEN "Stale" ELSE @]
             /\ Managing(a, "claim") /\ UNCHANGED session
    <2>1. actor' \in [Actors -> ActorRec] /\ EpochsStay /\ StaysStopped
      BY <1>8, <1>t DEF ActorRec, EpochsStay, StaysStopped
    <2>2. "claim" \in Reconciling /\ "claim" \in Pcs \ Leaving
      BY DEF Reconciling, Pcs, Leaving
    <2>3. /\ cmd' \in Command /\ cmd'.pc = "claim" /\ cmd'.dir = cmd.dir /\ cmd'.fresh = cmd.fresh
          /\ cmd'.todo = cmd.todo /\ cmd'.at = a
      BY <1>8, <1>t, <2>2, CommandManages DEF Managing
    <2>4. KnowsRow'
      BY <1>0, <1>1, <1>8, <2>3 DEF KnowsRow
    <2>5. Knows' /\ KnowsReconciling'
      BY <1>0, <1>8, <2>2, <2>3, <2>4, StillReconciling
    <2>6. DisksStay /\ (Living' => Living) /\ disk' \in [Dirs -> {"absent", "clean", "dirty"}]
      BY <1>0, <1>t DEF DisksStay, Living, TeamTyped
    <2>7. TeamTyped' /\ World' /\ LeavingIsQuiet'
      BY <1>0, <1>1, <1>8, <1>t, <2>1, <2>2, <2>3, <2>6, StillSteps
    <2>8. QED BY <2>5, <2>7 DEF TeamInv
  <1>9. QED
    <2>1. CASE ~Replacing(session[a])
                 /\ ~(actor[a].status # "Stopped" /\ (a \in cmd.fresh \/ OwnLaunch(a)))
      BY <2>1, <1>5, <1>6, <1>7, <1>8 DEF Decide
    <2>2. QED BY <1>3, <1>4, <2>1

LEMMA WriteLaunchKeeps ==
  ASSUME TeamInv, WriteLaunch
  PROVE  TeamInv'
  <1>t. TeamTyped /\ World /\ cmd \in Command /\ actor \in [Actors -> ActorRec]
        /\ agents \subseteq AgentRec /\ team \in TeamRec
    BY DEF TeamInv, TeamTyped
  <1>0. cmd.pc = "launch" /\ UNCHANGED <<team, actor, tree, disk, agents, frozen>>
        /\ cmd.pc \in Reconciling
    BY DEF WriteLaunch, Reconciling
  <1>1. PICK a : a = cmd.at
    OBVIOUS
  <1>2. /\ a \in Actors /\ a \in cmd.todo /\ cmd.dir \in Dirs
        /\ session[a].st # "none" => session[a].dir = cmd.dir
        /\ frozen = {} => session[a].st \in {"none", "launching", "launch_failed"}
        /\ team.status = "Active" /\ disk[cmd.dir] # "absent"
    BY <1>0, <1>1 DEF TeamInv, KnowsReconciling, KnowsRow
  <1>3. CASE ActorDone(a, FALSE, "actors") /\ session' = session
    BY <1>0, <1>1, <1>2, <1>3, <1>t, ActorSkipped
  <1>4. CASE /\ session' = [session EXCEPT ![a] =
                    [BeforeLaunch(a, LaunchKey(a)) EXCEPT
                       !.token = IF session[a].st = "stopped" THEN 0 ELSE @]]
             /\ Go("start")
    <2>1. PICK q, v, z, d, tk, k, r :
            /\ q = session[a] /\ v = "launching" /\ z = 0 /\ d = cmd.dir
            /\ tk = (IF session[a].st = "stopped" THEN 0 ELSE session[a].token)
            /\ k = <<"launch", team.epoch, actor[a].epoch>>
            /\ r = [[q EXCEPT !.st = v, !.ext = z, !.key = k, !.dir = d] EXCEPT !.token = tk]
      OBVIOUS
    <2>2. z \in Nat /\ tk \in Nat /\ k \in Keys /\ k[1] = "launch" /\ "launching" \in States
      <3>1. team.epoch \in Nat /\ actor[a].epoch \in Nat /\ session[a].token \in Nat
        BY <1>2, <1>t, RowTyped DEF TeamRec
      <3>2. "launching" \in States
        BY DEF States
      <3>3. QED BY <2>1, <3>1, <3>2, KeysAre
    <2>3. /\ r \in Row /\ r.st = "launching" /\ r.ext = 0 /\ r.token = tk /\ r.dir = cmd.dir /\ r.key = k
      <3>1. q \in Row /\ v \in States /\ d \in Dirs \cup {NoDir}
        BY <1>2, <1>t, <2>1, <2>2, RowTyped
      <3>2. r = [[q EXCEPT !.st = v, !.ext = z, !.key = k, !.dir = d] EXCEPT !.token = tk]
        BY <2>1
      <3>3. r \in Row /\ r.st = v /\ r.ext = z /\ r.token = tk /\ r.dir = d /\ r.key = k
        <4>1. z \in Nat /\ tk \in Nat /\ k \in Keys
          BY <2>2
        <4>2. QED BY <3>1, <3>2, <4>1 DEF Row, States
      <3>4. QED BY <2>1, <3>3
    <2>4. session' = [session EXCEPT ![a] = r]
      <3>1. [BeforeLaunch(a, LaunchKey(a)) EXCEPT !.token = tk] = r
        BY <2>1 DEF BeforeLaunch, LaunchKey
      <3>2. session' = [session EXCEPT ![a] = [BeforeLaunch(a, LaunchKey(a)) EXCEPT !.token = tk]]
        BY <1>4, <1>t, <2>1 DEF BeforeLaunch, TeamTyped, Row
      <3>3. QED BY <3>1, <3>2
    <2>5. k # ReplacementKey(actor[a].epoch)
      BY <1>2, <1>t, <2>2, KeysAre, RowTyped
    <2>6. RowFits(a, r, agents)
      <3>1. RowFits(a, session[a], agents)
        BY <1>2, <1>t, RowFitted
      <3>2. \A x \in agents : x.epoch # 0
        BY <1>t, AgentTyped
      <3>3. Living => frozen = {}
        BY DEF Living
      <3>4. Living => \A x \in agents : x.actor = a => x.epoch = actor[a].epoch /\ x.epoch = tk
        BY <1>2, <2>1, <3>1, <3>2, <3>3 DEF RowFits
      <3>5. \A x \in agents : x.actor = a =>
              /\ x.epoch <= actor[a].epoch
              /\ x.epoch = actor[a].epoch => x.dir = cmd.dir
        BY <1>2, <3>1 DEF RowFits
      <3>6. QED BY <1>2, <2>3, <2>5, <3>2, <3>4, <3>5 DEF RowFits
    <2>7. "start" \in Pcs /\ "start" \in Reconciling /\ "start" \notin Leaving
      BY DEF Pcs, Reconciling, Leaving
    <2>8. /\ cmd' \in Command /\ cmd'.pc = "start" /\ cmd'.dir = cmd.dir /\ cmd'.fresh = cmd.fresh
          /\ cmd'.todo = cmd.todo /\ cmd'.at = a
      BY <1>1, <1>4, <1>t, <2>7, CommandGoes DEF Go
    <2>9. EpochsStay
      BY <1>0 DEF EpochsStay
    <2>10. actor' \in [Actors -> ActorRec]
      BY <1>0, <1>t
    <2>11. TeamTyped' /\ World' /\ LeavingIsQuiet'
      BY <1>0, <1>2, <1>t, <2>3, <2>4, <2>6, <2>7, <2>8, <2>9, <2>10, RowSteps
    <2>12. session'[a] = r /\ \A b \in Actors \ {a} : session'[b] = session[b]
      BY <1>2, <1>t, <2>3, <2>4, RowBecomes DEF TeamTyped
    <2>13. (ReplacementKey(actor[a].epoch))' = ReplacementKey(actor[a].epoch)
      BY <1>0 DEF ReplacementKey
    <2>14. KnowsRow'
      BY <1>0, <1>2, <2>3, <2>5, <2>8, <2>12, <2>13 DEF KnowsRow
    <2>15. Knows' /\ KnowsReconciling'
      BY <1>0, <1>1, <1>2, <2>7, <2>8, <2>12, <2>14, StillReconciling
    <2>16. QED BY <2>11, <2>15 DEF TeamInv
  <1>5. QED BY <1>1, <1>3, <1>4 DEF WriteLaunch

LEMMA ReuseLaunchKeeps ==
  ASSUME TeamInv, ReuseLaunch
  PROVE  TeamInv'
  <1>0. /\ cmd.pc = "recover" /\ UNCHANGED <<team, actor, session, tree, disk, agents, frozen>>
        /\ cmd.pc \in Reconciling /\ cmd \in Command
    BY DEF ReuseLaunch, Reconciling, TeamInv, TeamTyped
  <1>1. PICK a : a = cmd.at
    OBVIOUS
  <1>2. /\ a \in Actors /\ a \in cmd.todo /\ (session[a].st # "none" => session[a].dir = cmd.dir)
        /\ session[a].st \in {"launching", "launch_failed"} /\ ~Replacing(session[a])
        /\ team.status = "Active" /\ disk[cmd.dir] # "absent"
    BY <1>0, <1>1 DEF TeamInv, KnowsReconciling, KnowsRow
  <1>3. CASE ActorDone(a, FALSE, "actors")
    BY <1>0, <1>1, <1>2, <1>3, ActorSkipped
  <1>4. CASE Go("start")
    <2>1. "start" \in Reconciling \ {"actors"} /\ "start" \in Pcs
      BY DEF Reconciling, Pcs
    <2>2. cmd'.pc = "start" /\ cmd'.dir = cmd.dir /\ cmd'.todo = cmd.todo /\ cmd'.at = a
      BY <1>0, <1>1, <1>4, <2>1, CommandGoes DEF Go
    <2>3. session[a].key # ReplacementKey(actor[a].epoch)
      BY <1>2 DEF Replacing, ReplacementKey
    <2>4. (ReplacementKey(actor[a].epoch))' = ReplacementKey(actor[a].epoch)
      BY <1>0 DEF ReplacementKey
    <2>5. KnowsRow'
      BY <1>0, <1>2, <2>2, <2>3, <2>4 DEF KnowsRow
    <2>6. QED BY <1>0, <1>1, <1>2, <1>4, <2>1, <2>2, <2>5, ActorGoesOn
  <1>5. QED BY <1>1, <1>3, <1>4 DEF ReuseLaunch

\* What is known when an agent is started and its handle recorded.
LEMMA LaunchIsKnown ==
  ASSUME TeamInv, cmd.pc \in {"start", "handle"}
  PROVE  /\ cmd.at \in Actors /\ cmd.pc \in Reconciling
         /\ team.status # "Closed" /\ team.status # "Absent" /\ actor[cmd.at].epoch >= 1
         /\ session[cmd.at].st \in {"launching", "launch_failed"} /\ session[cmd.at].ext = 0
         /\ session[cmd.at].dir = cmd.dir /\ cmd.dir \in Dirs /\ disk[cmd.dir] # "absent"
         /\ session[cmd.at].key # ReplacementKey(actor[cmd.at].epoch)
  <1>1. cmd.pc \in Reconciling /\ cmd.pc # "actors" /\ cmd.pc \notin {"idle"} \cup Creating
    BY DEF Reconciling, Creating
  <1>2. /\ KnowsRow /\ cmd.dir \in Dirs /\ team.status # "Absent"
    BY <1>1 DEF TeamInv, KnowsReconciling, Knows, Leaving
  <1>3. /\ cmd.at \in Actors /\ team.status # "Closed"
        /\ session[cmd.at].st \in {"launching", "launch_failed"}
        /\ session[cmd.at].dir = cmd.dir /\ disk[cmd.dir] # "absent"
        /\ session[cmd.at].key # ReplacementKey(actor[cmd.at].epoch)
    BY <1>2 DEF KnowsRow
  <1>4. actor[cmd.at].epoch >= 1 /\ session[cmd.at].ext = 0
    BY <1>2, <1>3 DEF TeamInv, World, TeamExists, RowsSay
  <1>5. QED BY <1>1, <1>2, <1>3, <1>4

LEMMA StartAgentKeeps ==
  ASSUME TeamInv, StartAgent
  PROVE  TeamInv'
  <1>t. TeamTyped /\ World /\ cmd \in Command /\ actor \in [Actors -> ActorRec]
        /\ agents \subseteq AgentRec /\ tree \in TreeRec /\ "start" \in {"start", "handle"}
    BY DEF TeamInv, TeamTyped
  <1>0. cmd.pc = "start" /\ UNCHANGED <<team, tree, disk, frozen>>
    BY DEF StartAgent
  <1>1. PICK a, e, q : a = cmd.at /\ e = actor[a].epoch /\ q = session[a]
    OBVIOUS
  <1>2. /\ a \in Actors /\ cmd.pc \in Reconciling /\ team.status # "Closed" /\ team.status # "Absent"
        /\ e >= 1 /\ q.st \in {"launching", "launch_failed"} /\ q.ext = 0 /\ q.dir = cmd.dir
        /\ cmd.dir \in Dirs /\ disk[cmd.dir] # "absent" /\ q.key # ReplacementKey(e)
    BY <1>0, <1>1, LaunchIsKnown
  <1>3. e \in Nat /\ q \in Row /\ q.token \in Nat
    BY <1>1, <1>2, <1>t, RowTyped
  <1>4. /\ \A x \in agents : x.actor = a => /\ x.epoch <= e /\ x.epoch # 0
                                            /\ x.epoch = e => x.dir = cmd.dir
        /\ Living => \A x \in agents : x.actor = a => x.epoch = e
        /\ Living => \A x \in agents : x.actor = a => x.epoch = q.token
    <2>1. RowFits(a, q, agents)
      BY <1>1, <1>2, <1>t, RowFitted
    <2>2. \A x \in agents : x.epoch # 0
      BY <1>t, AgentTyped
    <2>3. QED BY <1>1, <1>2, <2>1, <2>2 DEF RowFits
  <1>5. CASE /\ session' = [session EXCEPT ![a].token = e]
             /\ agents' = agents \cup {[actor |-> a, epoch |-> e, dir |-> session[a].dir]}
             /\ Go("handle") /\ UNCHANGED actor
    <2>1. PICK r, y, A : /\ r = [q EXCEPT !.token = e] /\ y = [actor |-> a, epoch |-> e, dir |-> q.dir]
                         /\ A = agents \cup {y}
      OBVIOUS
    <2>2. r \in Row /\ r.st = q.st /\ r.ext = q.ext /\ r.token = e /\ r.dir = q.dir /\ r.key = q.key
      BY <1>3, <2>1, RowCheckpointed
    <2>3. session' = [session EXCEPT ![a] = r] /\ agents' = A
      BY <1>1, <1>5, <1>t, <2>1 DEF TeamTyped
    <2>4. y \in AgentRec /\ y.actor = a /\ y.epoch = e /\ y.dir = cmd.dir
      BY <1>2, <1>3, <2>1 DEF AgentRec
    <2>5. A \subseteq AgentRec /\ \A x \in A : x \in agents \/ x = y
      BY <1>t, <2>1, <2>4
    <2>6. \A x \in A : x.actor = a => /\ x.epoch <= e /\ x.epoch # 0 /\ (x.epoch = e => x.dir = cmd.dir)
                                      /\ Living => x.epoch = e
      BY <1>2, <1>3, <1>4, <2>4, <2>5
    <2>7. RowFits(a, r, A)
      BY <1>1, <1>2, <2>2, <2>6 DEF RowFits
    <2>8. "handle" \in Pcs /\ "handle" \in Reconciling /\ "handle" \notin Leaving
      BY DEF Pcs, Reconciling, Leaving
    <2>9. /\ cmd' \in Command /\ cmd'.pc = "handle" /\ cmd'.dir = cmd.dir /\ cmd'.fresh = cmd.fresh
          /\ cmd'.todo = cmd.todo /\ cmd'.at = a
      BY <1>1, <1>5, <1>t, <2>8, CommandGoes DEF Go
    <2>10. EpochsStay /\ actor' \in [Actors -> ActorRec]
      BY <1>5, <1>t DEF EpochsStay
    <2>11. \A x \in A : x.actor # a => x \in agents
      BY <2>4, <2>5
    <2>12. TeamTyped' /\ World' /\ LeavingIsQuiet'
      BY <1>0, <1>2, <1>t, <2>2, <2>3, <2>5, <2>7, <2>8, <2>9, <2>10, <2>11, RowSteps
    <2>13. session'[a] = r /\ \A b \in Actors \ {a} : session'[b] = session[b]
      BY <1>2, <1>t, <2>2, <2>3, RowBecomes DEF TeamTyped
    <2>14. (ReplacementKey(actor[a].epoch))' = ReplacementKey(e)
      BY <1>1, <1>5 DEF ReplacementKey
    <2>15. KnowsRow'
      BY <1>0, <1>2, <2>2, <2>9, <2>13, <2>14 DEF KnowsRow
    <2>16. Knows' /\ KnowsReconciling'
      BY <1>0, <1>1, <1>2, <2>8, <2>9, <2>13, <2>15, StillReconciling
    <2>17. QED BY <2>12, <2>16 DEF TeamInv
  <1>6. ASSUME NEW k \in BOOLEAN, agents' = agents, ActorDone(a, FALSE, "actors"),
               actor' = [actor EXCEPT ![a].status = "Stale"],
               session' = [session EXCEPT ![a].token = IF k THEN e ELSE @, ![a].st = "launch_failed"]
        PROVE  TeamInv'
    <2>1. PICK tk, v, r : /\ tk = (IF k THEN e ELSE q.token) /\ v = "launch_failed"
                          /\ r = [q EXCEPT !.token = tk, !.st = v]
      OBVIOUS
    <2>2. r \in Row /\ r.st = "launch_failed" /\ r.ext = q.ext /\ r.token = tk /\ r.dir = q.dir
          /\ r.key = q.key
      <3>1. tk \in Nat /\ v \in States
        BY <1>3, <2>1 DEF States
      <3>2. QED BY <1>3, <2>1, <3>1 DEF Row, States
    <2>3. session' = [session EXCEPT ![a] = r]
      <3>1. session[a] = q
        BY <1>1
      <3>2. session' = [session EXCEPT ![a] = [q EXCEPT !.token = tk, !.st = v]]
        BY <1>2, <1>6, <1>t, <2>1, <3>1 DEF TeamTyped, Row
      <3>3. QED BY <2>1, <3>2
    <2>4. RowFits(a, r, agents)
      BY <1>1, <1>2, <1>4, <2>1, <2>2 DEF RowFits
    <2>5. /\ cmd' \in Command /\ cmd'.pc = "actors" /\ cmd'.dir = cmd.dir /\ cmd'.fresh = cmd.fresh
          /\ cmd'.todo = cmd.todo \ {a}
      BY <1>6, ActorEnds
    <2>6. cmd'.pc \in Reconciling /\ cmd'.pc \notin Leaving
      BY <2>5, ReconcilingPcs
    <2>7. EpochsStay /\ actor' \in [Actors -> ActorRec]
      BY <1>6, <1>t DEF EpochsStay, ActorRec
    <2>8. TeamTyped' /\ World' /\ LeavingIsQuiet'
      BY <1>0, <1>2, <1>6, <1>t, <2>2, <2>3, <2>4, <2>5, <2>6, <2>7, RowSteps
    <2>9. \A b \in Actors \ {a} : session'[b] = session[b]
      BY <1>2, <1>t, <2>2, <2>3, RowBecomes DEF TeamTyped
    <2>10. Knows' /\ KnowsReconciling'
      BY <1>0, <1>1, <1>2, <2>5, <2>6, <2>9, StillReconciling
    <2>11. QED BY <2>8, <2>10 DEF TeamInv
  <1>7. QED
    <2>1. \/ /\ session' = [session EXCEPT ![a].token = e]
             /\ agents' = agents \cup {[actor |-> a, epoch |-> e, dir |-> session[a].dir]}
             /\ Go("handle") /\ UNCHANGED actor
          \/ \E k \in BOOLEAN :
               /\ agents' = agents /\ ActorDone(a, FALSE, "actors")
               /\ actor' = [actor EXCEPT ![a].status = "Stale"]
               /\ session' = [session EXCEPT ![a].token = IF k THEN e ELSE @, ![a].st = "launch_failed"]
      BY <1>1 DEF StartAgent
    <2>2. QED BY <1>5, <1>6, <2>1

LEMMA RecordHandleKeeps ==
  ASSUME TeamInv, RecordHandle
  PROVE  TeamInv'
  <1>t. TeamTyped /\ World /\ cmd \in Command /\ actor \in [Actors -> ActorRec]
        /\ agents \subseteq AgentRec /\ tree \in TreeRec
    BY DEF TeamInv, TeamTyped
  <1>0. cmd.pc = "handle" /\ UNCHANGED <<team, tree, disk, agents, frozen>>
    BY DEF RecordHandle
  <1>1. PICK a, e, q : a = cmd.at /\ e = actor[a].epoch /\ q = session[a]
    OBVIOUS
  <1>2. /\ a \in Actors /\ cmd.pc \in Reconciling /\ team.status # "Closed" /\ team.status # "Absent"
        /\ q.dir = cmd.dir /\ cmd.dir \in Dirs /\ disk[cmd.dir] # "absent"
    BY <1>0, <1>1, LaunchIsKnown
  <1>3. e \in Nat /\ q \in Row
    BY <1>1, <1>2, <1>t, RowTyped
  <1>4. PICK v, r : v = "idle" /\ r = [q EXCEPT !.ext = e, !.st = v]
    OBVIOUS
  <1>5. r \in Row /\ r.st = "idle" /\ r.ext = e /\ r.token = q.token /\ r.dir = q.dir /\ r.key = q.key
    <2>1. v \in States
      BY <1>4 DEF States
    <2>2. QED BY <1>3, <1>4, <2>1 DEF Row, States
  <1>6. session' = [session EXCEPT ![a] = r]
    BY <1>1, <1>4, <1>t DEF RecordHandle, TeamTyped
  <1>7. RowFits(a, r, agents)
    <2>1. RowFits(a, q, agents)
      BY <1>1, <1>2, <1>t, RowFitted
    <2>2. QED BY <1>1, <1>2, <1>5, <2>1 DEF RowFits
  <1>8. /\ cmd' \in Command /\ cmd'.pc = "actors" /\ cmd'.dir = cmd.dir /\ cmd'.fresh = cmd.fresh
        /\ cmd'.todo = cmd.todo \ {a}
    BY <1>1, ActorEnds DEF RecordHandle
  <1>9. cmd'.pc \in Reconciling /\ cmd'.pc \notin Leaving
    BY <1>8, ReconcilingPcs
  <1>10. EpochsStay /\ actor' \in [Actors -> ActorRec]
    BY <1>1, <1>2, <1>t DEF RecordHandle, EpochsStay, ActorRec
  <1>11. TeamTyped' /\ World' /\ LeavingIsQuiet'
    BY <1>0, <1>2, <1>t, <1>5, <1>6, <1>7, <1>8, <1>9, <1>10, RowSteps
  <1>12. \A b \in Actors \ {a} : session'[b] = session[b]
    BY <1>2, <1>t, <1>5, <1>6, RowBecomes DEF TeamTyped
  <1>13. Knows' /\ KnowsReconciling'
    BY <1>0, <1>1, <1>2, <1>8, <1>9, <1>12, StillReconciling
  <1>14. QED BY <1>11, <1>13 DEF TeamInv

-----------------------------------------------------------------------------
(* The replacement of an actor.                                            *)

LEMMA ReplacementIsKnown ==
  ASSUME TeamInv, cmd.pc \in {"claim", "clear", "advance", "relaunch"}
  PROVE  /\ cmd.at \in Actors /\ cmd.pc \in Reconciling /\ team.status # "Absent"
         /\ actor[cmd.at].epoch >= 1 /\ cmd.dir \in Dirs
         /\ (session[cmd.at].st # "none" => session[cmd.at].dir = cmd.dir)
         /\ (cmd.pc # "claim" => Replacing(session[cmd.at]))
  <1>1. cmd.pc \in Reconciling /\ cmd.pc # "actors" /\ cmd.pc \notin {"idle"} \cup Creating
    BY DEF Reconciling, Creating
  <1>2. /\ KnowsRow /\ cmd.dir \in Dirs /\ team.status # "Absent"
    BY <1>1 DEF TeamInv, KnowsReconciling, Knows, Leaving
  <1>3. /\ cmd.at \in Actors /\ (session[cmd.at].st # "none" => session[cmd.at].dir = cmd.dir)
        /\ (cmd.pc # "claim" => Replacing(session[cmd.at]))
    BY <1>2 DEF KnowsRow
  <1>4. actor[cmd.at].epoch >= 1
    BY <1>2, <1>3 DEF TeamInv, World, TeamExists
  <1>5. QED BY <1>1, <1>2, <1>3, <1>4

LEMMA ClaimReplacementKeeps ==
  ASSUME TeamInv, ClaimReplacement
  PROVE  TeamInv'
  <1>t. TeamTyped /\ World /\ cmd \in Command /\ actor \in [Actors -> ActorRec]
        /\ agents \subseteq AgentRec /\ tree \in TreeRec
    BY DEF TeamInv, TeamTyped
  <1>0. cmd.pc = "claim" /\ UNCHANGED <<team, actor, tree, disk, agents, frozen>>
    BY DEF ClaimReplacement
  <1>1. PICK a, e, q : a = cmd.at /\ e = actor[a].epoch /\ q = session[a]
    OBVIOUS
  <1>2. /\ a \in Actors /\ cmd.pc \in Reconciling /\ team.status # "Absent" /\ cmd.dir \in Dirs
        /\ q.st # "none" => q.dir = cmd.dir
    BY <1>0, <1>1, ReplacementIsKnown
  <1>3. e \in Nat /\ q \in Row
    BY <1>1, <1>2, <1>t, RowTyped
  <1>4. "clear" \in Pcs /\ "clear" \in Reconciling \ {"actors"} /\ "clear" \notin Leaving
    BY DEF Pcs, Reconciling, Leaving
  <1>5. ASSUME Go("clear")
        PROVE  /\ cmd' \in Command /\ cmd'.pc = "clear" /\ cmd'.dir = cmd.dir /\ cmd'.fresh = cmd.fresh
               /\ cmd'.todo = cmd.todo /\ cmd'.at = a
    BY <1>1, <1>4, <1>5, <1>t, CommandGoes DEF Go
  <1>6. CASE Replacing(q) /\ Go("clear") /\ session' = session
    <2>1. /\ cmd'.pc = "clear" /\ cmd'.dir = cmd.dir /\ cmd'.todo = cmd.todo /\ cmd'.at = a
      BY <1>5, <1>6
    <2>2. KnowsRow'
      BY <1>1, <1>2, <1>6, <2>1 DEF KnowsRow, Replacing
    <2>3. QED BY <1>0, <1>1, <1>2, <1>4, <1>6, <2>1, <2>2, ActorGoesOn
  <1>7. CASE ActorDone(a, FALSE, "actors") /\ session' = session
    BY <1>0, <1>1, <1>2, <1>7, ActorSkipped
  <1>8. CASE /\ ~Replacing(q) /\ Go("clear")
             /\ session' = [session EXCEPT ![a] =
                  [q EXCEPT !.st = "replacement_pending", !.dir = cmd.dir, !.key = ReplacementKey(e)]]
    <2>1. PICK v, d, k, r : /\ v = "replacement_pending" /\ d = cmd.dir /\ k = ReplacementKey(e)
                            /\ r = [q EXCEPT !.st = v, !.dir = d, !.key = k]
      OBVIOUS
    <2>2. /\ r \in Row /\ r.st = "replacement_pending" /\ r.ext = q.ext /\ r.token = q.token
          /\ r.dir = cmd.dir /\ r.key = k
      <3>1. v \in States /\ d \in Dirs \cup {NoDir} /\ k \in Keys
        BY <1>2, <1>3, <2>1, KeysAre DEF States
      <3>2. QED BY <1>3, <2>1, <3>1 DEF Row, States
    <2>3. session' = [session EXCEPT ![a] = r]
      BY <1>8, <2>1
    <2>4. Replacing(r)
      BY <1>3, <2>1, <2>2, KeysAre DEF Replacing
    <2>5. RowFits(a, r, agents)
      <3>1. RowFits(a, q, agents)
        BY <1>1, <1>2, <1>t, RowFitted
      <3>2. QED BY <1>1, <1>2, <2>2, <3>1 DEF RowFits
    <2>6. Quiet(a) => \A x \in agents : x.actor = a => x.epoch # r.ext
      BY <1>1, <2>2 DEF Quiet, AgentOf
    <2>7. EpochsStay /\ StaysStopped /\ actor' \in [Actors -> ActorRec]
      BY <1>0, <1>t DEF EpochsStay, StaysStopped
    <2>8. /\ cmd' \in Command /\ cmd'.pc = "clear" /\ cmd'.dir = cmd.dir /\ cmd'.fresh = cmd.fresh
          /\ cmd'.todo = cmd.todo /\ cmd'.at = a
      BY <1>5, <1>8
    <2>9. r.key = ReplacementKey(actor[a].epoch)
      BY <1>1, <2>1, <2>2
    <2>10. TeamTyped' /\ World' /\ LeavingIsQuiet'
      BY <1>0, <1>2, <1>4, <1>t, <2>2, <2>3, <2>5, <2>6, <2>7, <2>8, <2>9, RowSteps
    <2>11. session'[a] = r /\ \A b \in Actors \ {a} : session'[b] = session[b]
      BY <1>2, <1>t, <2>2, <2>3, RowBecomes DEF TeamTyped
    <2>12. KnowsRow'
      BY <1>2, <2>2, <2>4, <2>8, <2>11 DEF KnowsRow, Replacing
    <2>13. Knows' /\ KnowsReconciling'
      BY <1>0, <1>1, <1>2, <1>4, <2>8, <2>11, <2>12, StillReconciling
    <2>14. QED BY <2>10, <2>13 DEF TeamInv
  <1>9. QED BY <1>1, <1>6, <1>7, <1>8 DEF ClaimReplacement

LEMMA ClearReplacedKeeps ==
  ASSUME TeamInv, ClearReplaced
  PROVE  TeamInv'
  <1>t. TeamTyped /\ World /\ cmd \in Command /\ actor \in [Actors -> ActorRec]
        /\ agents \subseteq AgentRec /\ tree \in TreeRec
    BY DEF TeamInv, TeamTyped
  <1>0. cmd.pc = "clear" /\ UNCHANGED <<team, actor, tree, disk, frozen>>
    BY DEF ClearReplaced
  <1>1. PICK a, q : a = cmd.at /\ q = session[a]
    OBVIOUS
  <1>2. /\ a \in Actors /\ cmd.pc \in Reconciling /\ team.status # "Absent" /\ cmd.dir \in Dirs
        /\ (q.st # "none" => q.dir = cmd.dir) /\ Replacing(q)
    BY <1>0, <1>1, ReplacementIsKnown
  <1>3. q \in Row
    BY <1>1, <1>2, <1>t, RowTyped
  <1>4. "advance" \in Pcs /\ "advance" \in Reconciling \ {"actors"} /\ "advance" \notin Leaving
    BY DEF Pcs, Reconciling, Leaving
  <1>5. ASSUME Go("advance")
        PROVE  /\ cmd' \in Command /\ cmd'.pc = "advance" /\ cmd'.dir = cmd.dir
               /\ cmd'.fresh = cmd.fresh /\ cmd'.todo = cmd.todo /\ cmd'.at = a
    BY <1>1, <1>4, <1>5, <1>t, CommandGoes DEF Go
  <1>6. CASE q.st # "replacement_pending" /\ Go("advance") /\ UNCHANGED <<session, agents>>
    <2>1. /\ cmd'.pc = "advance" /\ cmd'.dir = cmd.dir /\ cmd'.todo = cmd.todo /\ cmd'.at = a
      BY <1>5, <1>6
    <2>2. KnowsRow'
      BY <1>1, <1>2, <1>6, <2>1 DEF KnowsRow, Replacing
    <2>3. QED BY <1>0, <1>1, <1>2, <1>4, <1>6, <2>1, <2>2, ActorGoesOn
  <1>7. CASE ActorDone(a, FALSE, "actors") /\ UNCHANGED <<session, agents>>
    BY <1>0, <1>1, <1>2, <1>7, ActorSkipped
  <1>8. CASE /\ q.st = "replacement_pending" /\ Go("advance")
             /\ agents' = agents \ (AgentOf(a, session[a].ext) \cup AgentOf(a, session[a].token))
             /\ session' = [session EXCEPT ![a].st = "launching", ![a].ext = 0, ![a].token = 0]
    <2>1. PICK v, z, r, A : /\ v = "launching" /\ z = 0
                            /\ r = [q EXCEPT !.st = v, !.ext = z, !.token = z] /\ A = agents'
      OBVIOUS
    <2>2. /\ r \in Row /\ r.st = "launching" /\ r.ext = 0 /\ r.token = 0 /\ r.dir = q.dir
          /\ r.key = q.key
      <3>1. v \in States /\ z \in Nat
        BY <2>1 DEF States
      <3>2. r \in Row /\ r.st = v /\ r.ext = z /\ r.token = z /\ r.dir = q.dir /\ r.key = q.key
        BY <1>3, <2>1, <3>1 DEF Row, States
      <3>3. QED BY <2>1, <3>2
    <2>3. session' = [session EXCEPT ![a] = r]
      <3>1. session' = [session EXCEPT ![a] = [q EXCEPT !.st = v, !.ext = z, !.token = z]]
        BY <1>1, <1>2, <1>8, <1>t, <2>1 DEF TeamTyped, Row
      <3>2. QED BY <2>1, <3>1
    <2>4. /\ A \subseteq agents /\ A \subseteq AgentRec
          /\ \A x \in A : x.actor = a => x.epoch \notin {q.ext, q.token}
      BY <1>1, <1>8, <1>t, <2>1 DEF AgentOf
    <2>5. RowFits(a, r, A)
      <3>1. RowFits(a, q, agents)
        BY <1>1, <1>2, <1>t, RowFitted
      <3>2. Living => \A x \in A : x.actor # a
        BY <2>4, <3>1 DEF RowFits
      <3>3. \A x \in A : x.epoch # 0
        BY <1>t, <2>4, AgentTyped
      <3>4. \A x \in A : x.actor = a => /\ x.epoch <= actor[a].epoch
                                        /\ (x.epoch = actor[a].epoch => x.dir = q.dir)
        BY <2>4, <3>1 DEF RowFits
      <3>5. q.dir \in Dirs
        BY <1>2, <1>8
      <3>6. QED BY <2>2, <3>2, <3>3, <3>4, <3>5 DEF RowFits
    <2>6. Quiet(a) => /\ \A x \in A : x.actor = a => x.epoch # r.ext
                      /\ r.key = ReplacementKey(actor[a].epoch)
      <3>1. \A x \in A : x.epoch # 0
        BY <1>t, <2>4, AgentTyped
      <3>2. QED BY <1>1, <1>2, <2>2, <3>1 DEF Quiet
    <2>7. EpochsStay /\ StaysStopped /\ actor' \in [Actors -> ActorRec]
      BY <1>0, <1>t DEF EpochsStay, StaysStopped
    <2>8. /\ cmd' \in Command /\ cmd'.pc = "advance" /\ cmd'.dir = cmd.dir
          /\ cmd'.fresh = cmd.fresh /\ cmd'.todo = cmd.todo /\ cmd'.at = a
      BY <1>5, <1>8
    <2>9. TeamTyped' /\ World' /\ LeavingIsQuiet'
      BY <1>0, <1>2, <1>4, <1>t, <2>1, <2>2, <2>3, <2>4, <2>5, <2>6, <2>7, <2>8, RowSteps
    <2>10. session'[a] = r /\ \A b \in Actors \ {a} : session'[b] = session[b]
      BY <1>2, <1>t, <2>2, <2>3, RowBecomes DEF TeamTyped
    <2>11. KnowsRow'
      BY <1>2, <1>8, <2>2, <2>8, <2>10 DEF KnowsRow, Replacing
    <2>12. Knows' /\ KnowsReconciling'
      BY <1>0, <1>1, <1>2, <1>4, <2>8, <2>10, <2>11, StillReconciling
    <2>13. QED BY <2>9, <2>12 DEF TeamInv
  <1>9. QED BY <1>1, <1>6, <1>7, <1>8 DEF ClearReplaced

LEMMA RelaunchKeeps ==
  ASSUME TeamInv, Relaunch
  PROVE  TeamInv'
  <1>t. TeamTyped /\ World /\ cmd \in Command /\ actor \in [Actors -> ActorRec]
        /\ agents \subseteq AgentRec /\ tree \in TreeRec
    BY DEF TeamInv, TeamTyped
  <1>0. cmd.pc = "relaunch" /\ UNCHANGED <<team, actor, tree, disk, agents, frozen>>
    BY DEF Relaunch
  <1>1. PICK a, q : a = cmd.at /\ q = session[a]
    OBVIOUS
  <1>2. /\ a \in Actors /\ cmd.pc \in Reconciling /\ team.status # "Absent" /\ cmd.dir \in Dirs
        /\ (q.st # "none" => q.dir = cmd.dir) /\ Replacing(q)
    BY <1>0, <1>1, ReplacementIsKnown
  <1>3. /\ q.st \in {"launching", "launch_failed"} /\ team.status # "Closed"
        /\ q.key # ReplacementKey(actor[a].epoch)
    BY <1>0, <1>1, <1>2 DEF TeamInv, KnowsReconciling, KnowsRow
  <1>4. CASE ActorDone(a, FALSE, "actors") /\ session' = session
    BY <1>0, <1>1, <1>2, <1>4, ActorSkipped
  <1>5. CASE /\ session' = [session EXCEPT ![a].st = "launching"] /\ Go("start")
             /\ disk[cmd.dir] # "absent"
    <2>1. PICK r : r = [q EXCEPT !.st = "launching"]
      OBVIOUS
    <2>2. /\ r \in Row /\ r.st = "launching" /\ r.ext = q.ext /\ r.token = q.token /\ r.dir = q.dir
          /\ r.key = q.key
      <3>1. "launching" \in States
        BY DEF States
      <3>2. q \in Row
        BY <1>1, <1>2, <1>t, RowTyped
      <3>3. QED BY <2>1, <3>1, <3>2, RowMarked
    <2>3. session' = [session EXCEPT ![a] = r]
      BY <1>1, <1>5, <1>t, <2>1 DEF TeamTyped
    <2>4. RowFits(a, r, agents)
      <3>1. RowFits(a, q, agents)
        BY <1>1, <1>2, <1>t, RowFitted
      <3>2. QED BY <1>3, <2>2, <3>1 DEF RowFits
    <2>5. "start" \in Pcs /\ "start" \in Reconciling /\ "start" \notin Leaving
      BY DEF Pcs, Reconciling, Leaving
    <2>6. /\ cmd' \in Command /\ cmd'.pc = "start" /\ cmd'.dir = cmd.dir /\ cmd'.fresh = cmd.fresh
          /\ cmd'.todo = cmd.todo /\ cmd'.at = a
      BY <1>1, <1>5, <1>t, <2>5, CommandGoes DEF Go
    <2>7. EpochsStay /\ actor' \in [Actors -> ActorRec]
      BY <1>0, <1>t DEF EpochsStay
    <2>8. TeamTyped' /\ World' /\ LeavingIsQuiet'
      BY <1>0, <1>2, <1>3, <1>t, <2>2, <2>3, <2>4, <2>5, <2>6, <2>7, RowSteps
    <2>9. session'[a] = r /\ \A b \in Actors \ {a} : session'[b] = session[b]
      BY <1>2, <1>t, <2>2, <2>3, RowBecomes DEF TeamTyped
    <2>10. (ReplacementKey(actor[a].epoch))' = ReplacementKey(actor[a].epoch)
      BY <1>0 DEF ReplacementKey
    <2>11. KnowsRow'
      BY <1>0, <1>2, <1>3, <1>5, <2>2, <2>6, <2>9, <2>10 DEF KnowsRow
    <2>12. Knows' /\ KnowsReconciling'
      BY <1>0, <1>1, <1>2, <2>5, <2>6, <2>9, <2>11, StillReconciling
    <2>13. QED BY <2>8, <2>12 DEF TeamInv
  <1>6. QED BY <1>1, <1>4, <1>5 DEF Relaunch

LEMMA AdvanceGenerationKeeps ==
  ASSUME TeamInv, AdvanceGeneration
  PROVE  TeamInv'
  <1>t. TeamTyped /\ World /\ cmd \in Command /\ actor \in [Actors -> ActorRec]
        /\ agents \subseteq AgentRec /\ tree \in TreeRec /\ team \in TeamRec
    BY DEF TeamInv, TeamTyped
  <1>0. cmd.pc = "advance" /\ UNCHANGED <<session, tree, disk, agents, frozen>>
    BY DEF AdvanceGeneration
  <1>1. PICK a, e, q : a = cmd.at /\ e = actor[a].epoch /\ q = session[a]
    OBVIOUS
  <1>2. /\ a \in Actors /\ cmd.pc \in Reconciling /\ team.status # "Absent" /\ cmd.dir \in Dirs
        /\ (q.st # "none" => q.dir = cmd.dir) /\ Replacing(q) /\ e >= 1
    BY <1>0, <1>1, ReplacementIsKnown
  <1>3. q.st \in {"launching", "launch_failed"}
    BY <1>0, <1>1, <1>2 DEF TeamInv, KnowsReconciling, KnowsRow
  <1>4. e \in Nat
    BY <1>1, <1>2, <1>t, RowTyped
  <1>5. "relaunch" \in Pcs /\ "relaunch" \in Reconciling \ {"actors"} /\ "relaunch" \notin Leaving
    BY DEF Pcs, Reconciling, Leaving
  <1>6. ASSUME Go("relaunch")
        PROVE  /\ cmd' \in Command /\ cmd'.pc = "relaunch" /\ cmd'.dir = cmd.dir
               /\ cmd'.fresh = cmd.fresh /\ cmd'.todo = cmd.todo /\ cmd'.at = a
    BY <1>1, <1>5, <1>6, <1>t, CommandGoes DEF Go
  <1>7. CASE ActorDone(a, FALSE, "actors") /\ UNCHANGED <<team, actor>>
    BY <1>0, <1>1, <1>2, <1>7, ActorSkipped
  <1>8. CASE Go("relaunch") /\ UNCHANGED <<team, actor>> /\ q.key = ReplacementKey(e - 1)
    <2>1. e - 1 \in Nat /\ e - 1 # e
      BY <1>2, <1>4
    <2>2. q.key # ReplacementKey(e)
      <3>1. PICK f \in Nat : f = e - 1
        BY <2>1
      <3>2. q.key = ReplacementKey(f) /\ f # e
        BY <1>8, <2>1, <3>1
      <3>3. QED BY <1>4, <3>2, KeysAre
    <2>3. team.status # "Closed"
      BY <1>1, <1>2, <2>2 DEF TeamInv, LeavingIsQuiet, Quiet
    <2>4. (ReplacementKey(actor[a].epoch))' = ReplacementKey(e)
      BY <1>1, <1>8 DEF ReplacementKey
    <2>5. /\ cmd'.pc = "relaunch" /\ cmd'.dir = cmd.dir /\ cmd'.todo = cmd.todo /\ cmd'.at = a
      BY <1>6, <1>8
    <2>6. KnowsRow'
      BY <1>0, <1>1, <1>2, <1>3, <1>8, <2>2, <2>3, <2>4, <2>5 DEF KnowsRow, Replacing
    <2>7. QED BY <1>0, <1>1, <1>2, <1>5, <1>8, <2>5, <2>6, ActorGoesOn
  <1>9. CASE /\ q.key = ReplacementKey(e) /\ team.status = "Active" /\ Go("relaunch")
             /\ actor' = [actor EXCEPT ![a] = [epoch |-> @.epoch + 1, status |-> "Healthy"]]
             /\ team' = [team EXCEPT !.epoch = @ + 1]
    <2>1. /\ actor' \in [Actors -> ActorRec] /\ actor'[a].epoch = e + 1
          /\ \A b \in Actors \ {a} : actor'[b] = actor[b]
      BY <1>1, <1>2, <1>4, <1>9, <1>t DEF ActorRec
    <2>2. /\ team' \in TeamRec /\ team'.members = team.members /\ team'.status = "Active"
      BY <1>9, <1>t DEF TeamRec
    <2>3. /\ cmd' \in Command /\ cmd'.pc = "relaunch" /\ cmd'.dir = cmd.dir
          /\ cmd'.fresh = cmd.fresh /\ cmd'.todo = cmd.todo /\ cmd'.at = a
      BY <1>6, <1>9
    <2>4. TeamTyped'
      BY <1>0, <1>t, <2>1, <2>2, <2>3 DEF TeamTyped
    <2>5. \A b \in Actors : actor[b].epoch \in Nat
      BY <1>t DEF ActorRec
    <2>6. TeamExists'
      BY <1>2, <1>4, <1>9, <1>t, <2>1, <2>2, <2>5 DEF TeamExists, World
    <2>7. RowsSay'
      BY <1>0, <1>t DEF World, RowsSay, AgentOf
    <2>8. \A x \in agents : x.actor = a => x.epoch <= e /\ x.epoch \in Nat
      BY <1>1, <1>t, AgentTyped DEF World, AgentsFollow
    <2>9. AgentsFollow'
      <3>1. ASSUME NEW x \in agents
            PROVE  /\ x.epoch <= actor'[x.actor].epoch
                   /\ x.epoch = actor'[x.actor].epoch =>
                        session[x.actor].st # "none" /\ x.dir = session[x.actor].dir
        <4>1. CASE x.actor = a
          BY <1>4, <2>1, <2>8, <4>1
        <4>2. CASE x.actor # a
          BY <1>t, <2>1, <4>2, AgentTyped DEF World, AgentsFollow
        <4>3. QED BY <4>1, <4>2
      <3>2. QED BY <1>0, <3>1 DEF AgentsFollow
    <2>10. LivingInReach'
      <3>1. Living' => Living
        BY <1>0, <1>9 DEF Living
      <3>2. Living => \A x \in agents : x.actor # a
        BY <1>1, <1>2, <1>3, <1>9, <1>t DEF World, LivingInReach
      <3>3. q.key # ReplacementKey(e + 1)
        <4>1. PICK f \in Nat : f = e + 1
          BY <1>4
        <4>2. f # e
          BY <1>4, <4>1
        <4>3. QED BY <1>4, <1>9, <4>1, <4>2, KeysAre
      <3>4. Living => \A x \in agents : /\ x.epoch = actor'[x.actor].epoch
                                        /\ x.epoch \in {session[x.actor].token, session[x.actor].ext}
        BY <1>t, <2>1, <3>2, AgentTyped DEF World, LivingInReach
      <3>5. ASSUME Living, NEW b \in Actors, session[b].st \in {"launching", "launch_failed"},
                   session[b].key = ReplacementKey(actor'[b].epoch)
            PROVE  \A x \in agents : x.actor # b
        <4>1. b # a
          <5>1. CASE b = a
            BY <1>1, <2>1, <3>3, <3>5, <5>1
          <5>2. QED BY <5>1
        <4>2. QED BY <1>t, <2>1, <3>5, <4>1 DEF World, LivingInReach
      <3>6. QED BY <1>0, <3>1, <3>4, <3>5 DEF LivingInReach, ReplacementKey
    <2>11. KnownAgentKeepsItsDirectory'
      BY <1>0, <1>t DEF World, KnownAgentKeepsItsDirectory, AgentOf
    <2>12. LeavingIsQuiet'
      BY <1>5, <2>2, <2>3 DEF LeavingIsQuiet
    <2>13. q.key # (ReplacementKey(actor[a].epoch))'
      <3>1. PICK f \in Nat : f = e + 1
        BY <1>4
      <3>2. (ReplacementKey(actor[a].epoch))' = ReplacementKey(f)
        BY <2>1, <3>1 DEF ReplacementKey
      <3>3. f # e
        BY <1>4, <3>1
      <3>4. QED BY <1>4, <1>9, <3>2, <3>3, KeysAre
    <2>14. KnowsRow'
      BY <1>0, <1>1, <1>2, <1>3, <2>2, <2>3, <2>13 DEF KnowsRow, Replacing
    <2>15. team'.status = team.status /\ \A b \in Actors \ {a} : session'[b] = session[b]
      BY <1>0, <1>9, <2>2
    <2>16. Knows' /\ KnowsReconciling'
      BY <1>0, <1>1, <1>2, <1>5, <2>3, <2>14, <2>15, StillReconciling
    <2>17. World'
      BY <2>6, <2>7, <2>9, <2>10, <2>11 DEF World
    <2>18. QED BY <2>4, <2>12, <2>16, <2>17 DEF TeamInv
  <1>10. QED BY <1>1, <1>7, <1>8, <1>9 DEF AdvanceGeneration

-----------------------------------------------------------------------------
(* The stop of one actor, and the closing of the team.                     *)

\* The row of an actor whose session was stopped, or that never had one.
LEMMA RowStopped ==
  ASSUME TeamInv, NEW a \in Actors, NEW A, A \subseteq agents, team.status # "Absent",
         session' = [session EXCEPT ![a].st = IF @ = "none" THEN @ ELSE "stopped"],
         \A x \in A : x.actor = a => x.epoch # session[a].ext,
         agents' = A, cmd' \in Command, cmd'.pc \notin Leaving,
         UNCHANGED <<team, actor, tree, disk, frozen>>
  PROVE  /\ TeamTyped' /\ World' /\ LeavingIsQuiet' /\ session'[a].st \in {"none", "stopped"}
         /\ \A b \in Actors \ {a} : session'[b] = session[b]
  <1>t. TeamTyped /\ World /\ actor \in [Actors -> ActorRec] /\ agents \subseteq AgentRec
    BY DEF TeamInv, TeamTyped
  <1>1. PICK q, v, r : /\ q = session[a] /\ v = (IF q.st = "none" THEN q.st ELSE "stopped")
                       /\ r = [q EXCEPT !.st = v]
    OBVIOUS
  <1>2. q \in Row /\ v \in States
    BY <1>1, <1>t, RowTyped DEF States
  <1>3. r \in Row /\ r.st = v /\ r.ext = q.ext /\ r.token = q.token /\ r.dir = q.dir /\ r.key = q.key
    BY <1>1, <1>2, RowMarked
  <1>4. session' = [session EXCEPT ![a] = r]
    BY <1>1, <1>t DEF TeamTyped
  <1>5. RowFits(a, r, A)
    <2>1. RowFits(a, q, agents)
      BY <1>1, <1>t, RowFitted
    <2>2. QED BY <1>1, <1>3, <2>1 DEF RowFits
  <1>6. ~Replacing(r) /\ EpochsStay /\ StaysStopped
    BY <1>1, <1>3 DEF Replacing, EpochsStay, StaysStopped
  <1>7. \A x \in A : x.actor = a => x.epoch # r.ext
    BY <1>1, <1>3
  <1>8. TeamTyped' /\ World' /\ LeavingIsQuiet'
    BY <1>t, <1>3, <1>4, <1>5, <1>6, <1>7, RowSteps
  <1>9. session'[a] = r /\ \A b \in Actors \ {a} : session'[b] = session[b]
    BY <1>t, <1>3, <1>4, RowBecomes DEF TeamTyped
  <1>10. QED BY <1>1, <1>3, <1>8, <1>9

LEMMA HaltKeeps ==
  ASSUME TeamInv, Halt \/ Halted \/ ReconcileDone
  PROVE  TeamInv'
  <1>t. TeamTyped /\ cmd \in Command /\ tree \in TreeRec /\ actor \in [Actors -> ActorRec]
    BY DEF TeamInv, TeamTyped
  <1>1. CASE Halt
    <2>1. PICK a : a = cmd.at
      OBVIOUS
    <2>2. /\ cmd.pc = "halt" /\ a \in Actors /\ team.status # "Absent"
          /\ UNCHANGED <<team, actor, tree, disk, frozen>>
      BY <1>1, <2>1 DEF Halt, TeamInv, Knows, Creating, Leaving
    <2>3. CASE Return /\ UNCHANGED <<session, agents>>
      BY <1>t, <2>2, <2>3, ReturnKeeps
    <2>4. CASE /\ agents' = agents \ (AgentOf(a, session[a].ext) \cup AgentOf(a, session[a].token))
               /\ session' = [session EXCEPT ![a].st = IF @ = "none" THEN @ ELSE "stopped"]
               /\ Go("halted")
      <3>1. "halted" \in Pcs /\ "halted" \notin Leaving
        BY DEF Pcs, Leaving
      <3>2. cmd' \in Command /\ cmd'.pc = "halted" /\ cmd'.at = a
        BY <1>t, <2>1, <2>4, <3>1, CommandGoes DEF Go
      <3>3. PICK A : A = agents'
        OBVIOUS
      <3>4. A \subseteq agents /\ \A x \in A : x.actor = a => x.epoch # session[a].ext
        BY <2>4, <3>3 DEF AgentOf
      <3>5. TeamTyped' /\ World' /\ LeavingIsQuiet'
        BY <2>2, <2>4, <3>1, <3>2, <3>3, <3>4, RowStopped
      <3>6. Knows' /\ KnowsReconciling'
        BY <2>2, <3>2 DEF Knows, KnowsReconciling, Creating, Reconciling, Stopping, Leaving
      <3>7. QED BY <3>5, <3>6 DEF TeamInv
    <2>5. QED BY <1>1, <2>1, <2>3, <2>4 DEF Halt
  <1>2. CASE Halted
    <2>1. /\ actor' = [actor EXCEPT ![cmd.at].status = "Stopped"] /\ cmd' = Idle
          /\ UNCHANGED <<team, session, tree, disk, agents, frozen>>
      BY <1>2 DEF Halted, Return
    <2>2. /\ EpochsStay /\ StaysStopped /\ DisksStay /\ (Living' => Living)
          /\ actor' \in [Actors -> ActorRec]
      BY <1>t, <2>1 DEF EpochsStay, StaysStopped, DisksStay, Living, ActorRec
    <2>3. /\ cmd' \in Command /\ cmd'.pc \notin Leaving /\ team' \in TeamRec /\ tree' \in TreeRec
          /\ disk' \in [Dirs -> {"absent", "clean", "dirty"}]
      BY <1>t, <2>1, CommandIdles DEF TeamTyped, Leaving
    <2>4. TeamTyped' /\ World' /\ LeavingIsQuiet'
      BY <2>1, <2>2, <2>3, StillSteps
    <2>5. QED BY <2>1, <2>4, IdleKnows DEF TeamInv
  <1>3. CASE ReconcileDone
    BY <1>3, <1>t, ReturnKeeps DEF ReconcileDone
  <1>4. QED BY <1>1, <1>2, <1>3

\* A command that goes on with closing and changes nothing but the team's status or its row
\* of the worktree.
LEMMA ClosingGoesOn ==
  ASSUME TeamInv, NEW p \in {"closing", "cleanup", "removed", "closed"}, cmd' \in Command, cmd'.pc = p,
         UNCHANGED <<actor, session, agents, frozen, disk>>, tree' \in TreeRec, team' \in TeamRec,
         team'.members = team.members, team.status # "Absent",
         Living' => Living,
         team'.status \in {"Closing", "Closed"},
         team'.status = "Closed" \/ p # "closing" => \A a \in Actors : Quiet(a)
  PROVE  TeamInv'
  <1>1. EpochsStay /\ DisksStay /\ TeamTyped
    BY DEF EpochsStay, DisksStay, TeamInv
  <1>2. TeamTyped'
    BY DEF TeamInv, TeamTyped
  <1>3. World'
    BY <1>1, WorldStays DEF TeamInv
  <1>4. LeavingIsQuiet'
    <2>1. cmd'.pc \in Leaving => p # "closing"
      BY DEF Leaving
    <2>2. \A a \in Actors : Quiet(a) => Quiet(a)'
      BY DEF Quiet, AgentOf, Replacing, ReplacementKey
    <2>3. QED BY <2>1, <2>2 DEF LeavingIsQuiet
  <1>5. Knows' /\ KnowsReconciling'
    BY DEF Knows, KnowsReconciling, Creating, Reconciling, Stopping, Leaving
  <1>6. QED BY <1>2, <1>3, <1>4, <1>5 DEF TeamInv

LEMMA EnterClosingKeeps ==
  ASSUME TeamInv, RequestClose \/ EnterClosing
  PROVE  TeamInv'
  <1>t. /\ TeamTyped /\ cmd \in Command /\ tree \in TreeRec /\ team \in TeamRec
        /\ "closing" \in Pcs /\ "cleanup" \in Pcs /\ "stop" \in Pcs
    BY DEF TeamInv, TeamTyped, Pcs, Stopping, Leaving
  <1>0. /\ cmd.pc \in {"close", "closing"} /\ UNCHANGED <<actor, session, tree, disk, agents, frozen>>
        /\ team.status # "Absent" /\ (cmd.pc = "closing" => team.status \in {"Closing", "Closed"})
    BY DEF RequestClose, EnterClosing, TeamInv, Knows, Creating
  <1>m. team.members = Actors
    BY <1>0 DEF TeamInv, World, TeamExists
  <1>1. ASSUME Return, team' = team
        PROVE  TeamInv'
    BY <1>0, <1>1, <1>t, ReturnKeeps
  <1>2. CASE team' = [team EXCEPT !.status = "Closing"] /\ Go("closing")
    <2>1. team' \in TeamRec /\ team'.members = team.members /\ team'.status = "Closing"
      BY <1>2, <1>t DEF TeamRec
    <2>2. cmd' \in Command /\ cmd'.pc = "closing"
      BY <1>2, <1>t, CommandGoes DEF Go
    <2>3. ~Living'
      BY <2>1 DEF Living
    <2>4. "closing" \in {"closing", "cleanup", "removed", "closed"}
      OBVIOUS
    <2>5. QED BY <1>0, <1>t, <2>1, <2>2, <2>3, <2>4, ClosingGoesOn
  <1>3. CASE team' = team /\ Go("closing") /\ team.status \in {"Closing", "Closed"}
    <2>1. cmd' \in Command /\ cmd'.pc = "closing"
      BY <1>3, <1>t, CommandGoes DEF Go
    <2>2. Living' => Living
      BY <1>0, <1>3 DEF Living
    <2>3. team.status = "Closed" => \A a \in Actors : Quiet(a)
      BY DEF TeamInv, LeavingIsQuiet
    <2>4. QED BY <1>0, <1>3, <1>t, <2>1, <2>2, <2>3, ClosingGoesOn
  <1>4. CASE team' = team /\ Go("cleanup") /\ team.status = "Closed"
    <2>1. cmd' \in Command /\ cmd'.pc = "cleanup"
      BY <1>4, <1>t, CommandGoes DEF Go
    <2>2. Living' => Living
      BY <1>0, <1>4 DEF Living
    <2>3. \A a \in Actors : Quiet(a)
      BY <1>4 DEF TeamInv, LeavingIsQuiet
    <2>4. QED BY <1>0, <1>4, <1>t, <2>1, <2>2, <2>3, ClosingGoesOn
  <1>5. CASE /\ team' = team /\ team.status \in {"Closing", "Closed"}
             /\ cmd' = [cmd EXCEPT !.todo = team.members, !.failed = FALSE, !.pc = "stop"]
    <2>1. cmd' \in Command /\ cmd'.pc = "stop" /\ cmd'.todo = Actors
      <3>1. PICK T, f : T = team.members /\ f = FALSE
        OBVIOUS
      <3>2. T \in SUBSET Actors /\ f \in BOOLEAN /\ cmd' = [cmd EXCEPT !.todo = T, !.failed = f, !.pc = "stop"]
        BY <1>5, <1>m, <3>1
      <3>3. cmd' \in Command /\ cmd'.pc = "stop" /\ cmd'.todo = T
        BY <1>t, <3>2 DEF Command
      <3>4. QED BY <1>m, <3>1, <3>3
    <2>2. cmd'.pc \notin Leaving
      BY <2>1 DEF Leaving
    <2>3. TeamTyped' /\ World' /\ LeavingIsQuiet'
      BY <1>0, <1>5, <1>t, <2>1, <2>2, NothingMoves
    <2>4. Knows' /\ KnowsReconciling'
      BY <1>0, <1>5, <2>1 DEF Knows, KnowsReconciling, Creating, Reconciling, Stopping, Leaving
    <2>5. QED BY <2>3, <2>4 DEF TeamInv
  <1>6. CASE RequestClose
    BY <1>1, <1>2, <1>3, <1>6 DEF RequestClose
  <1>7. CASE EnterClosing
    BY <1>0, <1>1, <1>4, <1>5, <1>7 DEF EnterClosing
  <1>8. QED BY <1>6, <1>7

LEMMA StopActorKeeps ==
  ASSUME TeamInv, NEW a \in Actors, StopActor(a)
  PROVE  TeamInv'
  <1>t. /\ TeamTyped /\ cmd \in Command /\ tree \in TreeRec /\ actor \in [Actors -> ActorRec]
        /\ team \in TeamRec /\ disk \in [Dirs -> {"absent", "clean", "dirty"}]
        /\ "stop_session" \in Pcs /\ "stop_session" \notin Leaving
    BY DEF TeamInv, TeamTyped, Pcs, Stopping, Leaving
  <1>1. /\ cmd.pc = "stop" /\ a \in cmd.todo /\ actor' = [actor EXCEPT ![a].status = "Stopped"]
        /\ UNCHANGED <<team, session, tree, disk, agents, frozen>>
    BY DEF StopActor
  <1>2. /\ cmd' \in Command /\ cmd'.pc = "stop_session" /\ cmd'.at = a /\ cmd'.todo = cmd.todo
        /\ cmd'.failed = cmd.failed
    BY <1>t, CommandManages DEF StopActor, Managing
  <1>3. /\ EpochsStay /\ StaysStopped /\ DisksStay /\ (Living' => Living)
        /\ actor' \in [Actors -> ActorRec]
    BY <1>t, <1>1 DEF EpochsStay, StaysStopped, DisksStay, Living, ActorRec
  <1>4. TeamTyped' /\ World' /\ LeavingIsQuiet'
    BY <1>t, <1>1, <1>2, <1>3, StillSteps
  <1>5. /\ team.status \in {"Closing", "Closed"}
        /\ \A b \in Actors \ cmd.todo : cmd.failed \/ session[b].st \in {"none", "stopped"}
    BY <1>1 DEF TeamInv, Knows, Creating, Stopping, Leaving
  <1>6. Knows' /\ KnowsReconciling'
    BY <1>1, <1>2, <1>5 DEF Knows, KnowsReconciling, Creating, Reconciling, Stopping, Leaving
  <1>7. QED BY <1>4, <1>6 DEF TeamInv

LEMMA StopSessionKeeps ==
  ASSUME TeamInv, StopSession
  PROVE  TeamInv'
  <1>t. /\ TeamTyped /\ cmd \in Command /\ tree \in TreeRec /\ "stop" \in Pcs /\ "stop" \notin Leaving
        /\ World
    BY DEF TeamInv, TeamTyped, Pcs, Stopping, Leaving
  <1>1. PICK a : a = cmd.at
    OBVIOUS
  <1>2. /\ cmd.pc = "stop_session" /\ a \in Actors /\ a \in cmd.todo /\ team.status \in {"Closing", "Closed"}
        /\ UNCHANGED <<team, actor, tree, disk, frozen>>
        /\ \A b \in Actors \ cmd.todo : cmd.failed \/ session[b].st \in {"none", "stopped"}
    <2>1. cmd.pc = "stop_session" /\ UNCHANGED <<team, actor, tree, disk, frozen>>
      BY DEF StopSession
    <2>2. /\ a \in cmd.todo /\ team.status \in {"Closing", "Closed"}
          /\ \A b \in Actors \ cmd.todo : cmd.failed \/ session[b].st \in {"none", "stopped"}
      BY <1>1, <2>1 DEF TeamInv, Knows, Creating, Stopping, Leaving
    <2>3. QED BY <1>t, <2>1, <2>2 DEF Command
  <1>3. ASSUME NEW ok \in BOOLEAN, ActorDone(a, ok, "stop")
        PROVE  /\ cmd' \in Command /\ cmd'.pc = "stop" /\ cmd'.todo = cmd.todo \ {a}
               /\ (cmd.failed => cmd'.failed) /\ (~ok => cmd'.failed)
    BY <1>3, <1>t, CommandDone DEF ActorDone
  <1>4. CASE /\ agents' = IF RowNeedsStop(a) THEN agents \ AgentOf(a, session[a].ext) ELSE agents
             /\ session' = [session EXCEPT ![a].st = IF @ = "none" THEN @ ELSE "stopped"]
             /\ ActorDone(a, TRUE, "stop")
    <2>1. PICK A : A = agents'
      OBVIOUS
    <2>2. A \subseteq agents
      BY <1>4, <2>1
    <2>3. \A x \in A : x.actor = a => x.epoch # session[a].ext
      <3>1. CASE RowNeedsStop(a)
        BY <1>4, <2>1, <3>1 DEF AgentOf
      <3>2. CASE session[a].ext = 0
        <4>1. \A x \in A : x.epoch # 0
          BY <1>t, <2>2, AgentTyped
        <4>2. QED BY <3>2, <4>1
      <3>3. CASE session[a].st \in {"missing", "stopped"} /\ session[a].ext # 0
        <4>1. session[a].st = "stopped" /\ AgentOf(a, session[a].ext) = {}
          BY <1>2, <1>t, <3>3 DEF World, RowsSay
        <4>2. QED BY <2>2, <4>1 DEF AgentOf
      <3>4. QED BY <3>1, <3>2, <3>3 DEF RowNeedsStop
    <2>4. cmd' \in Command /\ cmd'.pc = "stop" /\ cmd'.todo = cmd.todo \ {a} /\ (cmd.failed => cmd'.failed)
      BY <1>3, <1>4
    <2>5. /\ TeamTyped' /\ World' /\ LeavingIsQuiet' /\ session'[a].st \in {"none", "stopped"}
          /\ \A b \in Actors \ {a} : session'[b] = session[b]
      BY <1>2, <1>4, <1>t, <2>1, <2>2, <2>3, <2>4, RowStopped
    <2>6. \A b \in Actors \ cmd'.todo : cmd'.failed \/ session'[b].st \in {"none", "stopped"}
      BY <1>2, <2>4, <2>5
    <2>7. Knows' /\ KnowsReconciling'
      BY <1>2, <2>4, <2>6 DEF Knows, KnowsReconciling, Creating, Reconciling, Stopping, Leaving
    <2>8. QED BY <2>5, <2>7 DEF TeamInv
  <1>5. CASE ActorDone(a, FALSE, "stop") /\ UNCHANGED <<session, agents>>
    <2>1. cmd' \in Command /\ cmd'.pc = "stop" /\ cmd'.todo = cmd.todo \ {a} /\ cmd'.failed
      BY <1>3, <1>5
    <2>2. TeamTyped' /\ World' /\ LeavingIsQuiet'
      BY <1>2, <1>5, <1>t, <2>1, NothingMoves
    <2>3. Knows' /\ KnowsReconciling'
      BY <1>2, <2>1 DEF Knows, KnowsReconciling, Creating, Reconciling, Stopping, Leaving
    <2>4. QED BY <2>2, <2>3 DEF TeamInv
  <1>6. QED BY <1>1, <1>4, <1>5 DEF StopSession

LEMMA CleanupKeeps ==
  ASSUME TeamInv, StopsDone \/ KeepWorktree \/ RecordRemoval \/ CloseTeam
  PROVE  TeamInv'
  <1>t. /\ TeamTyped /\ cmd \in Command /\ tree \in TreeRec /\ team \in TeamRec /\ World
        /\ "cleanup" \in Pcs /\ "closed" \in Pcs
    BY DEF TeamInv, TeamTyped, Pcs, Leaving
  <1>0. /\ UNCHANGED <<actor, session, disk, agents, frozen>> /\ team.status \in {"Closing", "Closed"}
        /\ cmd.pc \in {"stop", "cleanup", "removed", "closed"}
    <2>1. /\ UNCHANGED <<actor, session, disk, agents, frozen>>
          /\ cmd.pc \in {"stop", "cleanup", "removed", "closed"}
      BY DEF StopsDone, KeepWorktree, RecordRemoval, CloseTeam
    <2>2. QED BY <2>1 DEF TeamInv, Knows, Stopping, Leaving
  <1>q. cmd.pc \in {"cleanup", "removed", "closed"} => \A a \in Actors : Quiet(a)
    BY DEF TeamInv, LeavingIsQuiet, Leaving
  <1>m. team.members = Actors
    BY <1>0, <1>t DEF World, TeamExists
  <1>1. CASE StopsDone
    <2>1. UNCHANGED <<team, tree>> /\ cmd.pc = "stop" /\ cmd.todo = {}
      BY <1>1 DEF StopsDone
    <2>2. CASE Return
      BY <1>0, <1>t, <2>1, <2>2, ReturnKeeps
    <2>3. CASE /\ ~cmd.failed /\ Go("cleanup")
               /\ \A a \in team.members : actor[a].status = "Stopped" /\ ~RowNeedsStop(a)
      <3>1. cmd' \in Command /\ cmd'.pc = "cleanup"
        BY <1>t, <2>3, CommandGoes DEF Go
      <3>2. \A a \in Actors : session[a].st \in {"none", "stopped"}
        BY <2>1, <2>3 DEF TeamInv, Knows, Stopping, Leaving
      <3>3. ASSUME NEW a \in Actors
            PROVE  Quiet(a)
        <4>1. actor[a].status = "Stopped" /\ ~Replacing(session[a])
          BY <1>m, <2>3, <3>2 DEF Replacing
        <4>2. AgentOf(a, session[a].ext) = {}
          <5>1. CASE session[a].st = "stopped"
            BY <1>t, <5>1 DEF World, RowsSay
          <5>2. CASE session[a].st = "none"
            <6>1. session[a].ext = 0 /\ \A x \in agents : x.epoch # 0
              BY <1>t, <5>2, AgentTyped DEF World, RowsSay
            <6>2. QED BY <6>1 DEF AgentOf
          <5>3. QED BY <3>2, <5>1, <5>2
        <4>3. QED BY <4>1, <4>2 DEF Quiet
      <3>4. Living' => Living
        BY <1>0, <2>1 DEF Living
      <3>5. "cleanup" \in {"closing", "cleanup", "removed", "closed"}
        OBVIOUS
      <3>6. QED BY <1>0, <1>t, <2>1, <3>1, <3>3, <3>4, <3>5, ClosingGoesOn
    <2>4. QED BY <1>1, <2>2, <2>3 DEF StopsDone
  <1>2. CASE KeepWorktree \/ RecordRemoval
    <2>1. team' = team /\ cmd.pc \in {"cleanup", "removed"} /\ tree' \in TreeRec /\ (Return \/ Go("closed"))
      <3>1. /\ team' = team /\ cmd.pc \in {"cleanup", "removed"} /\ (Return \/ Go("closed"))
            /\ \/ tree' = tree \/ Outcome("RetainedWithReason") \/ Outcome("Removed")
        BY <1>2 DEF KeepWorktree, RecordRemoval, AfterCleanup
      <3>2. QED BY <1>t, <3>1, TreeOutcome
    <2>2. CASE Return
      BY <1>0, <2>1, <2>2, ReturnKeeps
    <2>3. CASE Go("closed")
      <3>1. cmd' \in Command /\ cmd'.pc = "closed"
        BY <1>t, <2>3, CommandGoes DEF Go
      <3>2. Living' => Living
        BY <1>0, <2>1 DEF Living
      <3>3. "closed" \in {"closing", "cleanup", "removed", "closed"}
        OBVIOUS
      <3>4. QED BY <1>0, <1>q, <1>t, <2>1, <3>1, <3>2, <3>3, ClosingGoesOn
    <2>4. QED BY <2>1, <2>2, <2>3
  <1>3. CASE CloseTeam
    <2>1. cmd.pc = "closed" /\ tree' = tree /\ cmd' = Idle
          /\ (team' = team \/ team' = [team EXCEPT !.status = "Closed"])
      BY <1>3 DEF CloseTeam, Return
    <2>2. CASE team' = team
      BY <1>0, <1>t, <2>1, <2>2, ReturnKeeps DEF Return
    <2>3. CASE team' = [team EXCEPT !.status = "Closed"]
      <3>1. team' \in TeamRec /\ team'.members = team.members /\ team'.status = "Closed"
        BY <1>t, <2>3 DEF TeamRec
      <3>2. cmd.pc \in Leaving /\ cmd' \in Command
        BY <2>1, CommandIdles DEF Leaving
      <3>3. /\ EpochsStay /\ StaysStopped /\ DisksStay /\ ~Living'
            /\ actor' \in [Actors -> ActorRec] /\ disk' \in [Dirs -> {"absent", "clean", "dirty"}]
        BY <1>0, <1>t, <3>1 DEF EpochsStay, StaysStopped, DisksStay, Living, TeamTyped
      <3>4. TeamTyped' /\ World' /\ LeavingIsQuiet'
        BY <1>0, <1>t, <2>1, <3>1, <3>2, <3>3, StillSteps
      <3>5. QED BY <2>1, <3>4, IdleKnows DEF TeamInv
    <2>4. QED BY <2>1, <2>2, <2>3
  <1>4. QED BY <1>1, <1>2, <1>3

LEMMA RemoveWorktreeKeeps ==
  ASSUME TeamInv, RemoveWorktree
  PROVE  TeamInv'
  <1>t. TeamTyped /\ cmd \in Command /\ World /\ "removed" \in Pcs
        /\ disk \in [Dirs -> {"absent", "clean", "dirty"}]
    BY DEF TeamInv, TeamTyped, Pcs, Leaving
  <1>1. /\ cmd.pc = "cleanup" /\ disk' = [disk EXCEPT ![tree.dir] = "absent"] /\ Go("removed")
        /\ UNCHANGED <<team, actor, session, tree, agents, frozen>>
    BY DEF RemoveWorktree
  <1>2. cmd' \in Command /\ cmd'.pc = "removed"
    BY <1>t, <1>1, CommandGoes DEF Go
  <1>3. disk' \in [Dirs -> {"absent", "clean", "dirty"}]
    BY <1>t, <1>1
  <1>4. TeamTyped'
    BY <1>t, <1>1, <1>2, <1>3 DEF TeamTyped
  <1>5. \A a \in Actors : Quiet(a)
    BY <1>1 DEF TeamInv, LeavingIsQuiet, Leaving
  <1>6. TeamExists' /\ RowsSay' /\ AgentsFollow'
    BY <1>t, <1>1 DEF World, TeamExists, RowsSay, AgentsFollow, AgentOf
  <1>7. LivingInReach'
    BY <1>t, <1>1 DEF World, LivingInReach, Living, ReplacementKey
  <1>8. KnownAgentKeepsItsDirectory'
    BY <1>1, <1>5 DEF KnownAgentKeepsItsDirectory, Quiet, AgentOf
  <1>9. LeavingIsQuiet'
    BY <1>1, <1>5 DEF LeavingIsQuiet, Quiet, AgentOf, Replacing, ReplacementKey
  <1>10. team.status \in {"Closing", "Closed"}
    BY <1>1 DEF TeamInv, Knows, Leaving
  <1>11. Knows' /\ KnowsReconciling'
    BY <1>1, <1>2, <1>10 DEF Knows, KnowsReconciling, Creating, Reconciling, Stopping, Leaving
  <1>12. World'
    BY <1>6, <1>7, <1>8 DEF World
  <1>13. QED BY <1>4, <1>9, <1>11, <1>12 DEF TeamInv

-----------------------------------------------------------------------------
(* The theorems.                                                           *)

LEMMA TeamBegins == Init => TeamInv
  <1>1. SUFFICES ASSUME Init PROVE TeamInv
    OBVIOUS
  <1>2. /\ team = [status |-> "Absent", epoch |-> 0, members |-> {}]
        /\ actor = [a \in Actors |-> [epoch |-> 0, status |-> "None"]]
        /\ session = [a \in Actors |-> NoRow] /\ tree = NoTree /\ agents = {} /\ frozen = {}
        /\ disk = [d \in Dirs |-> IF d \in Managed THEN "absent" ELSE "clean"] /\ cmd = Idle
    BY <1>1 DEF Init
  <1>3. NoRow \in Row /\ NoRow.st = "none" /\ NoRow.ext = 0
    <2>1. <<"none">> \in Keys /\ 0 \in Nat /\ "none" \in States /\ NoDir \in Dirs \cup {NoDir}
      BY KeysAre DEF States
    <2>2. QED BY <2>1, RowIs DEF NoRow
  <1>4. TeamTyped
    <2>1. team \in TeamRec
      BY <1>2 DEF TeamRec
    <2>2. actor \in [Actors -> ActorRec]
      BY <1>2 DEF ActorRec
    <2>3. session \in [Actors -> Row]
      BY <1>2, <1>3
    <2>4. tree \in TreeRec
      BY <1>2 DEF NoTree, TreeRec
    <2>5. cmd \in Command
      BY <1>2, CommandIdles
    <2>6. disk \in [Dirs -> {"absent", "clean", "dirty"}] /\ agents \subseteq AgentRec
      BY <1>2
    <2>7. QED BY <2>1, <2>2, <2>3, <2>4, <2>5, <2>6 DEF TeamTyped
  <1>5. cmd.pc = "idle" /\ team.status = "Absent" /\ team.members = {}
    BY <1>2, CommandIdles
  <1>6. \A a \in Actors : actor[a].epoch = 0 /\ session[a].st = "none" /\ session[a].ext = 0
    BY <1>2, <1>3
  <1>7. World
    BY <1>2, <1>5, <1>6 DEF World, TeamExists, RowsSay, AgentsFollow, LivingInReach,
                            KnownAgentKeepsItsDirectory, AgentOf
  <1>8. LeavingIsQuiet
    BY <1>5 DEF LeavingIsQuiet, Leaving
  <1>9. Knows /\ KnowsReconciling
    BY <1>5 DEF Knows, KnowsReconciling, Creating, Reconciling, Stopping, Leaving
  <1>10. QED BY <1>4, <1>7, <1>8, <1>9 DEF TeamInv

LEMMA TeamStutters == TeamInv /\ UNCHANGED vars => TeamInv'
  <1>1. SUFFICES ASSUME TeamInv, UNCHANGED vars PROVE TeamInv'
    OBVIOUS
  <1>2. UNCHANGED <<team, actor, session, tree, disk, agents, frozen, cmd>>
    BY <1>1 DEF vars
  <1>3. TeamTyped' /\ World'
    BY <1>1, <1>2 DEF TeamInv, TeamTyped, World, TeamExists, RowsSay, AgentsFollow, LivingInReach,
                      Living, KnownAgentKeepsItsDirectory, AgentOf, ReplacementKey
  <1>4. LeavingIsQuiet'
    BY <1>1, <1>2 DEF TeamInv, LeavingIsQuiet, Quiet, AgentOf, Replacing, ReplacementKey
  <1>5. Knows' /\ KnowsReconciling'
    BY <1>1, <1>2 DEF TeamInv, Knows, KnowsReconciling, KnowsRow, Replacing, ReplacementKey, Leaving
  <1>6. QED BY <1>3, <1>4, <1>5 DEF TeamInv

LEMMA TeamSteps == TeamInv /\ [Next]_vars => TeamInv'
  <1>1. SUFFICES ASSUME TeamInv, [Next]_vars PROVE TeamInv'
    OBVIOUS
  <1>2. CASE UNCHANGED vars
    BY <1>1, <1>2, TeamStutters
  <1>3. CASE Primary
    BY <1>1, <1>3, PrimaryKeeps
  <1>4. CASE Environment
    BY <1>1, <1>4, EnvironmentKeeps
  <1>5. CASE CommandStep
    <2>1. CASE \/ Prepare \/ KnownDirectory \/ NewDirectory \/ AddWorktree \/ ActivateWorktree
               \/ RefuseRegister \/ ResetDone
      BY <1>1, <2>1, CreationKeeps
    <2>2. CASE Register
      BY <1>1, <2>2, RegisterKeeps
    <2>3. ASSUME NEW a \in Actors, ResetSession(a)
          PROVE  TeamInv'
      BY <1>1, <2>3, ResetSessionKeeps
    <2>4. CASE EnterReconcile
      BY <1>1, <2>4, EnterReconcileKeeps
    <2>5. ASSUME NEW a \in Actors, Decide(a)
          PROVE  TeamInv'
      BY <1>1, <2>5, DecideKeeps
    <2>6. CASE WriteLaunch \/ ReuseLaunch \/ StartAgent \/ RecordHandle
      BY <1>1, <2>6, WriteLaunchKeeps, ReuseLaunchKeeps, StartAgentKeeps, RecordHandleKeeps
    <2>7. CASE ClaimReplacement \/ ClearReplaced \/ AdvanceGeneration \/ Relaunch
      BY <1>1, <2>7, ClaimReplacementKeeps, ClearReplacedKeeps, AdvanceGenerationKeeps, RelaunchKeeps
    <2>8. CASE Halt \/ Halted \/ ReconcileDone
      BY <1>1, <2>8, HaltKeeps
    <2>9. CASE RequestClose \/ EnterClosing
      BY <1>1, <2>9, EnterClosingKeeps
    <2>10. ASSUME NEW a \in Actors, StopActor(a)
           PROVE  TeamInv'
      BY <1>1, <2>10, StopActorKeeps
    <2>11. CASE StopSession
      BY <1>1, <2>11, StopSessionKeeps
    <2>12. CASE StopsDone \/ KeepWorktree \/ RecordRemoval \/ CloseTeam
      BY <1>1, <2>12, CleanupKeeps
    <2>13. CASE RemoveWorktree
      BY <1>1, <2>13, RemoveWorktreeKeeps
    <2>14. QED BY <1>5, <2>1, <2>2, <2>3, <2>4, <2>5, <2>6, <2>7, <2>8, <2>9, <2>10, <2>11, <2>12,
                  <2>13 DEF CommandStep
  <1>6. QED BY <1>1, <1>2, <1>3, <1>4, <1>5 DEF Next

LEMMA TeamIsOrderly == Spec => []TeamInv
  BY TeamBegins, TeamSteps, PTL DEF Spec

\* The state of a team keeps its type, whatever number of times it is reconciled and created
\* again (team_create, reconcile_team_instances_in).
THEOREM TeamTypes == Spec => []TeamTyped
  <1>1. TeamInv => TeamTyped
    BY DEF TeamInv
  <1>2. QED BY <1>1, TeamIsOrderly, PTL

\* Closing a team stops its agents, then removes what they worked in, and leaves nobody behind
\* that the store knows of (reconcile_closing_team, cleanup_team_worktree).
THEOREM TeamsCloseOrderly == Spec => []ClosingIsOrderly
  <1>1. TeamInv => ClosingIsOrderly
    <2>1. SUFFICES ASSUME TeamInv PROVE ClosingIsOrderly
      OBVIOUS
    <2>2. KnownAgentKeepsItsDirectory
      BY <2>1 DEF TeamInv, World
    <2>3. ClosedIsQuiet
      <3>1. team.status = "Closed" => \A a \in Actors : Quiet(a)
        BY <2>1 DEF TeamInv, LeavingIsQuiet
      <3>2. team.members \subseteq Actors
        BY <2>1 DEF TeamInv, TeamTyped, TeamRec
      <3>3. QED BY <3>1, <3>2 DEF ClosedIsQuiet, Quiet
    <2>4. QED BY <2>2, <2>3 DEF ClosingIsOrderly
  <1>2. QED BY <1>1, TeamIsOrderly, PTL

\* An agent is what its actor, its generation and its directory say.
LEMMA AgentsDiffer ==
  ASSUME NEW x \in AgentRec, NEW y \in AgentRec, x.actor = y.actor, x.epoch = y.epoch, x.dir = y.dir
  PROVE  x = y
  BY DEF AgentRec

\* Of an actor whose replacements and launches were interrupted anywhere at most one
\* generation runs, until its team is created again (ensure_actor_session, actor_replace).
THEOREM GenerationsFollow == Spec => []OneGenerationRuns
  <1>1. TeamInv => OneGenerationRuns
    <2>1. SUFFICES ASSUME TeamInv, team.status = "Active", frozen = {}, NEW a \in Actors
                   PROVE  Cardinality({x \in agents : x.actor = a}) <= 1
      BY DEF OneGenerationRuns
    <2>2. ASSUME NEW x \in agents, NEW y \in agents, x.actor = a, y.actor = a
          PROVE  x = y
      <3>1. Living
        BY <2>1 DEF Living
      <3>2. x.epoch = actor[a].epoch /\ y.epoch = actor[a].epoch
        BY <2>1, <2>2, <3>1 DEF TeamInv, World, LivingInReach
      <3>3. x.dir = session[a].dir /\ y.dir = session[a].dir
        BY <2>1, <2>2, <3>2 DEF TeamInv, World, AgentsFollow
      <3>4. x \in AgentRec /\ y \in AgentRec
        BY <2>1, <2>2 DEF TeamInv, TeamTyped
      <3>5. QED BY <2>2, <3>2, <3>3, <3>4, AgentsDiffer
    <2>3. CASE {x \in agents : x.actor = a} = {}
      BY <2>3, FS_EmptySet
    <2>4. CASE {x \in agents : x.actor = a} # {}
      <3>1. PICK y \in agents : y.actor = a
        BY <2>4
      <3>2. {x \in agents : x.actor = a} = {y}
        BY <2>2, <3>1
      <3>3. Cardinality({y}) = 1
        BY FS_Singleton
      <3>4. QED BY <3>2, <3>3
    <2>5. QED BY <2>3, <2>4
  <1>2. QED BY <1>1, TeamIsOrderly, PTL

\* Git removes only a worktree the team owns, without changes, of a team that is closing or
\* closed: wherever a close is cut short, no living team loses its directory
\* (cleanup_team_worktree, git worktree remove).
THEOREM OnlyOwnedWorktreesGo == Spec => OnlyOwnedIsRemoved
  <1> DEFINE Owned == \A d \in Dirs : disk[d] # "absent" /\ disk'[d] = "absent" =>
                        /\ disk[d] = "clean" /\ tree.dir = d /\ tree.own # "Attached"
                        /\ team.status \in {"Closing", "Closed"}
  <1>1. TeamInv /\ [Next]_vars => [Owned]_vars
    <2>1. SUFFICES ASSUME TeamInv, Next, NEW d \in Dirs, disk[d] # "absent", disk'[d] = "absent"
                   PROVE  /\ disk[d] = "clean" /\ tree.dir = d /\ tree.own # "Attached"
                          /\ team.status \in {"Closing", "Closed"}
      OBVIOUS
    <2>2. disk \in [Dirs -> {"absent", "clean", "dirty"}] /\ cmd \in Command /\ agents \subseteq AgentRec
      BY <2>1 DEF TeamInv, TeamTyped
    <2>3. disk' # disk
      BY <2>1
    <2>4. ~Primary
      BY <2>3 DEF Primary, BeginCreate, BeginReconcile, BeginClose, Begin, BeginReplace, BeginStop,
                  Pause, Resume
    <2>5. ~Environment
      <3>1. ~Crash /\ ~Assign /\ ~Finish /\ (\A x \in agents : ~AgentDies(x))
            /\ (\A a \in Actors : ~LeaseExpires(a) /\ ~Heartbeat(a))
        BY <2>3 DEF Crash, Assign, Finish, AgentDies, LeaseExpires, Heartbeat
      <3>2. ASSUME NEW x \in agents, Edit(x)
            PROVE  FALSE
        <4>1. PICK v \in {"clean", "dirty"} : disk' = [disk EXCEPT ![x.dir] = v]
          BY <3>2 DEF Edit
        <4>2. disk'[d] \in {v, disk[d]}
          BY <2>2, <4>1
        <4>3. QED BY <2>1, <4>2
      <3>3. QED BY <3>1, <3>2 DEF Environment
    <2>6. CommandStep
      BY <2>1, <2>4, <2>5 DEF Next
    <2>7. ~AddWorktree
      <3>1. SUFFICES ASSUME AddWorktree PROVE FALSE
        OBVIOUS
      <3>2. disk' = [disk EXCEPT ![cmd.dir] = "clean"]
        BY <2>3, <3>1 DEF AddWorktree
      <3>3. QED BY <2>1, <2>2, <3>2
    <2>8. RemoveWorktree
      <3>1. /\ ~Prepare /\ ~KnownDirectory /\ ~NewDirectory /\ ~ActivateWorktree /\ ~RefuseRegister
            /\ ~Register /\ ~ResetDone /\ \A a \in Actors : ~ResetSession(a)
        BY <2>3 DEF Prepare, KnownDirectory, NewDirectory, ActivateWorktree, RefuseRegister, Register,
                    ResetDone, ResetSession
      <3>2. /\ ~EnterReconcile /\ ~WriteLaunch /\ ~ReuseLaunch /\ ~StartAgent /\ ~RecordHandle
            /\ \A a \in Actors : ~Decide(a)
        BY <2>3 DEF EnterReconcile, WriteLaunch, ReuseLaunch, StartAgent, RecordHandle, Decide
      <3>3. /\ ~ClaimReplacement /\ ~ClearReplaced /\ ~AdvanceGeneration /\ ~Relaunch /\ ~Halt
            /\ ~Halted /\ ~ReconcileDone
        BY <2>3 DEF ClaimReplacement, ClearReplaced, AdvanceGeneration, Relaunch, Halt, Halted,
                    ReconcileDone
      <3>4. /\ ~RequestClose /\ ~EnterClosing /\ ~StopSession /\ ~StopsDone /\ ~KeepWorktree
            /\ ~RecordRemoval /\ ~CloseTeam /\ \A a \in Actors : ~StopActor(a)
        BY <2>3 DEF RequestClose, EnterClosing, StopSession, StopsDone, KeepWorktree, RecordRemoval,
                    CloseTeam, StopActor
      <3>5. QED BY <2>6, <2>7, <3>1, <3>2, <3>3, <3>4 DEF CommandStep
    <2>9. /\ cmd.pc = "cleanup" /\ tree.own \in {"Created", "Adopted"} /\ disk[tree.dir] # "dirty"
          /\ disk' = [disk EXCEPT ![tree.dir] = "absent"]
      BY <2>8 DEF RemoveWorktree
    <2>10. tree.dir = d
      BY <2>1, <2>2, <2>9
    <2>11. disk[d] = "clean"
      BY <2>1, <2>2, <2>9, <2>10
    <2>12. team.status \in {"Closing", "Closed"}
      BY <2>1, <2>9 DEF TeamInv, Knows, Leaving
    <2>13. QED BY <2>9, <2>10, <2>11, <2>12
  <1>2. TeamInv /\ [Next]_vars => TeamInv'
    BY TeamSteps
  <1>3. Init => TeamInv
    BY TeamBegins
  <1>4. QED BY <1>1, <1>2, <1>3, PTL DEF Spec, OnlyOwnedIsRemoved
=============================================================================
