------------------------------- MODULE Teams -------------------------------
(***************************************************************************)
(* The life of one implementation team: creation, reconciliation of its    *)
(* desired actors with their backend sessions, pause and resume, closing,  *)
(* and the re-creation of a closed team under the same name (team_create,  *)
(* reconcile_team_instances_in, actor_replace, reconcile_closing_team,     *)
(* cleanup_team_worktree of agsv-control/src/engine.rs).                   *)
(*                                                                         *)
(* All these commands hold the exclusive Primary lock until their process  *)
(* ends, so at most one runs (cmd); what happens beside it is the work of  *)
(* the agents, the expiry of leases, and the death of the process between  *)
(* two of its durable steps.  A command that died or was refused is simply *)
(* issued again.                                                           *)
(***************************************************************************)
EXTENDS Naturals, FiniteSets

CONSTANTS Actors,      \* the desired actors of the team's profile
          Dirs,        \* the directories a team may be given
          Managed,     \* those that do not exist until Git creates them
          MaxFaults,   \* bound: crashes, failed calls, lost agents, explicit stops
          MaxRecreated \* bound: how often the closed team is created again

ASSUME TeamAssumption ==
  /\ Managed \subseteq Dirs
  /\ MaxFaults \in Nat /\ MaxRecreated \in Nat

VARIABLES team,     \* its status, epoch and members in the domain snapshot
          actor,    \* the generation and status of every logical actor
          session,  \* the session row of every actor
          tree,     \* the team_worktrees row
          disk,     \* what is found at every directory
          agents,   \* the agents the session backend runs
          frozen,   \* team_generation_history: the archived generations
          busy,     \* a request or a delivery still needs the team
          cmd,      \* the command the Primary is running
          faults    \* how many of the bounded faults have happened

vars == <<team, actor, session, tree, disk, agents, frozen, busy, cmd, faults>>

NoDir    == "none"
NoTree   == [own |-> "none", st |-> "none", dir |-> NoDir]
NoRow    == [st |-> "none", ext |-> 0, token |-> 0, dir |-> NoDir, key |-> <<"none">>]
Idle     == [op |-> "none", pc |-> "idle", dir |-> NoDir, prev |-> FALSE,
             todo |-> {}, fresh |-> {}, at |-> "none", failed |-> FALSE]

LaunchKey(a)      == <<"launch", team.epoch, actor[a].epoch>>
ReplacementKey(e) == <<"replacement", e>>

\* replacement_intent_in_progress: the row is owned by a replacement.
Replacing(row) == row.key[1] = "replacement"
                  /\ row.st \in {"replacement_pending", "launching", "launch_failed"}

\* A launch began and no handle was recorded.
Incomplete(row) == row.ext = 0 /\ row.st \in {"launching", "launch_failed"}

\* The agent a row's handle names; an agent is named after its generation.
AgentOf(a, e) == {x \in agents : x.actor = a /\ x.epoch = e}
Present(a)    == session[a].ext # 0 /\ AgentOf(a, session[a].ext) # {}

\* validate_session_record: the row is in the team's directory and its handle,
\* if it has one, is named after the actor's current generation.
RowIsValid(a, dir) ==
  /\ session[a].dir = dir /\ disk[dir] # "absent"
  /\ session[a].ext \in {0, actor[a].epoch}

\* assignment_instance_summary: no desired instance is missing.
Converged == \A a \in Actors : /\ actor[a].status = "Healthy"
                               /\ session[a].ext # 0 /\ session[a].st = "idle"

Fault == faults < MaxFaults /\ faults' = faults + 1
Go(pc) == cmd' = [cmd EXCEPT !.pc = pc]

\* update_team_worktree_status: a removed worktree stays removed.
Outcome(st) == tree.st # "Removed" /\ tree' = [tree EXCEPT !.st = st]

\* archive_team_generation: a generation already archived is left as it is.
Freeze == IF \E h \in frozen : h.epoch = team.epoch THEN frozen
          ELSE frozen \cup {[epoch |-> team.epoch, tree |-> tree]}

\* The command returns, with a result or with an error.
Return == cmd' = Idle

\* The work on one actor ended; failures are collected, never fatal.
ActorDone(a, ok, pc) == cmd' = [cmd EXCEPT !.todo = @ \ {a}, !.pc = pc,
                                       !.failed = cmd.failed \/ ~ok]

-----------------------------------------------------------------------------
Init ==
  /\ team = [status |-> "Absent", epoch |-> 0, members |-> {}]
  /\ actor = [a \in Actors |-> [epoch |-> 0, status |-> "None"]]
  /\ session = [a \in Actors |-> NoRow]
  /\ tree = NoTree
  /\ disk = [d \in Dirs |-> IF d \in Managed THEN "absent" ELSE "clean"]
  /\ agents = {} /\ frozen = {} /\ busy = FALSE
  /\ cmd = Idle /\ faults = 0

\* A command is admitted: it takes the Primary lock and reads the state.
Begin(op, pc, dir) ==
  /\ cmd = Idle
  /\ cmd' = [Idle EXCEPT !.op = op, !.pc = pc, !.dir = dir]
  /\ UNCHANGED <<team, actor, session, tree, disk, agents, frozen, busy, faults>>

BeginCreate(dir) ==
  /\ team.status \notin {"Paused", "Closing"}
  /\ team.status = "Closed" =>
       Cardinality({h \in frozen : h.epoch # team.epoch}) < MaxRecreated
  /\ Begin("create", "prepare", dir)
BeginReconcile == team.status # "Absent" /\ Begin("reconcile", "reconcile", NoDir)
BeginClose     == team.status # "Absent" /\ Begin("close", "close", NoDir)

\* actor.replace of one actor that is not healthy, and actor.stop.
BeginReplace(a) ==
  /\ cmd = Idle /\ a \in team.members
  /\ session[a].st # "none" /\ (actor[a].status # "Healthy" \/ Replacing(session[a]))
  /\ cmd' = [Idle EXCEPT !.op = "replace", !.pc = "claim", !.at = a,
                         !.dir = session[a].dir]
  /\ UNCHANGED <<team, actor, session, tree, disk, agents, frozen, busy, faults>>

BeginStop(a) ==
  /\ cmd = Idle /\ a \in team.members /\ actor[a].status # "Stopped" /\ Fault
  /\ cmd' = [Idle EXCEPT !.op = "stop", !.pc = "halt", !.at = a]
  /\ UNCHANGED <<team, actor, session, tree, disk, agents, frozen, busy>>

\* team.pause, and the first mutation of team.resume, which then reconciles.
Pause ==
  /\ cmd = Idle /\ team.status = "Active"
  /\ team' = [team EXCEPT !.status = "Paused"]
  /\ UNCHANGED <<actor, session, tree, disk, agents, frozen, busy, cmd, faults>>

Resume ==
  /\ cmd = Idle /\ team.status = "Paused"
  /\ team' = [team EXCEPT !.status = "Active"]
  /\ cmd' = [Idle EXCEPT !.op = "resume", !.pc = "reconcile"]
  /\ UNCHANGED <<actor, session, tree, disk, agents, frozen, busy, faults>>

-----------------------------------------------------------------------------
(* team_create. *)

\* prepare_team_recreation: in one transaction the terminal generation is
\* frozen with its worktree row, unless it already is, and the row released.
Prepare ==
  /\ cmd.pc = "prepare"
  /\ IF team.status = "Closed"
     THEN frozen' = Freeze /\ tree' = NoTree
     ELSE UNCHANGED <<frozen, tree>>
  /\ cmd' = [cmd EXCEPT !.prev = (team.status = "Closed"), !.pc = "directory"]
  /\ UNCHANGED <<team, actor, session, disk, agents, busy, faults>>

\* ensure_team_directory_with_ownership, with a row: its path is fixed.
Usable == cmd.dir = tree.dir /\ tree.st # "Removed"

KnownDirectory ==
  /\ cmd.pc = "directory" /\ tree # NoTree
  /\ IF Usable /\ disk[tree.dir] # "absent"
     THEN /\ IF tree.own = "Created" THEN Outcome("Active") ELSE UNCHANGED tree
          /\ Go("register")
     ELSE IF Usable /\ tree.own = "Created"
     THEN Outcome("Creating") /\ Go("add")
     ELSE Return /\ UNCHANGED tree
  /\ UNCHANGED <<team, actor, session, disk, agents, frozen, busy, faults>>

\* Without one, a directory that exists is attached or adopted, and one that
\* does not is recorded as the controller's own before Git creates it.
NewDirectory ==
  /\ cmd.pc = "directory" /\ tree = NoTree
  /\ IF disk[cmd.dir] = "absent"
     THEN /\ tree' = [own |-> "Created", st |-> "Creating", dir |-> cmd.dir]
          /\ Go("add")
     ELSE /\ \E adopt \in BOOLEAN :
               tree' = [own |-> IF adopt THEN "Adopted" ELSE "Attached",
                        st  |-> IF adopt THEN "Active" ELSE "AttachedNotOwned",
                        dir |-> cmd.dir]
          /\ Go("register")
  /\ UNCHANGED <<team, actor, session, disk, agents, frozen, busy, faults>>

\* create_recorded_team_worktree: git worktree add, then the row is Active.
AddWorktree ==
  /\ cmd.pc = "add"
  /\ \/ /\ disk' = [disk EXCEPT ![cmd.dir] = "clean"]
        /\ Go("activate") /\ UNCHANGED <<tree, faults>>
     \/ /\ Fault
        /\ Outcome("RetainedWithReason")
        /\ Return /\ UNCHANGED disk
  /\ UNCHANGED <<team, actor, session, agents, frozen, busy>>

ActivateWorktree ==
  /\ cmd.pc = "activate"
  /\ Outcome("Active")
  /\ Go("register")
  /\ UNCHANGED <<team, actor, session, disk, agents, frozen, busy, faults>>

\* A living team keeps its sessions' directory.
DirectoryConflict ==
  ~cmd.prev /\ \E a \in Actors : session[a].st # "none" /\ session[a].dir # cmd.dir

RefuseRegister ==
  /\ cmd.pc = "register" /\ DirectoryConflict /\ Return
  /\ UNCHANGED <<team, actor, session, tree, disk, agents, frozen, busy, faults>>

\* "team.created": a new or a closed team becomes Active with a new epoch and
\* every actor a new generation; a living one is left as it is.
Register ==
  /\ cmd.pc = "register" /\ ~DirectoryConflict
  /\ IF team.status \in {"Absent", "Closed"}
     THEN /\ team' = [status |-> "Active", epoch |-> team.epoch + 1, members |-> Actors]
          /\ actor' = [a \in Actors |-> [epoch |-> actor[a].epoch + 1, status |-> "Healthy"]]
     ELSE UNCHANGED <<team, actor>>
  /\ cmd' = [cmd EXCEPT !.fresh = IF team.status \in {"Absent", "Closed"} THEN Actors ELSE {},
                        !.todo = IF cmd.prev THEN {a \in Actors : session[a].st # "none"} ELSE {},
                        !.pc = "reset"]
  /\ UNCHANGED <<session, tree, disk, agents, frozen, busy, faults>>

\* A re-created team's session rows are emptied, one after the other.
ResetSession(a) ==
  /\ cmd.pc = "reset" /\ a \in cmd.todo
  /\ session' = [session EXCEPT ![a] = [st |-> "missing", ext |-> 0, token |-> 0,
                                        dir |-> cmd.dir, key |-> <<"seed">>]]
  /\ cmd' = [cmd EXCEPT !.todo = @ \ {a}]
  /\ UNCHANGED <<team, actor, tree, disk, agents, frozen, busy, faults>>

ResetDone ==
  /\ cmd.pc = "reset" /\ cmd.todo = {}
  /\ Go("reconcile")
  /\ UNCHANGED <<team, actor, session, tree, disk, agents, frozen, busy, faults>>

-----------------------------------------------------------------------------
(* reconcile_team_instances_in. *)

\* existing_team_working_directory: the row and the sessions agree and exist.
OneDirectory(d) == /\ disk[d] # "absent"
                   /\ \A a \in Actors : session[a].st # "none" => session[a].dir = d

EnterReconcile ==
  /\ cmd.pc = "reconcile"
  /\ LET d == IF cmd.dir # NoDir THEN cmd.dir ELSE tree.dir IN
     CASE team.status \in {"Closing", "Closed"} -> Go("closing")
       [] team.status = "Paused" -> Return
       [] OTHER -> IF d # NoDir /\ d = tree.dir /\ OneDirectory(d)
                   THEN cmd' = [cmd EXCEPT !.dir = d, !.todo = Actors, !.pc = "actors"]
                   ELSE Return
  /\ UNCHANGED <<team, actor, session, tree, disk, agents, frozen, busy, faults>>

Managing(a, pc) == cmd' = [cmd EXCEPT !.at = a, !.pc = pc]

\* The launch the controller itself began for this very generation.
OwnLaunch(a) == Incomplete(session[a]) /\ session[a].key = LaunchKey(a)

\* What one actor needs, in the order the loop asks.

Decide(a) ==
  /\ cmd.pc = "actors" /\ a \in cmd.todo
  /\ LET row == session[a] IN
     IF Replacing(row) THEN Managing(a, "claim") /\ UNCHANGED <<actor, session>>
     ELSE IF actor[a].status # "Stopped" /\ (a \in cmd.fresh \/ OwnLaunch(a))
     THEN Managing(a, "launch") /\ UNCHANGED <<actor, session>>
     ELSE IF actor[a].status # "Stopped" /\ Incomplete(row)
     THEN Managing(a, "recover") /\ UNCHANGED <<actor, session>>
     ELSE IF actor[a].status # "Stopped" /\ row.st # "none" /\ ~RowIsValid(a, cmd.dir)
     THEN ActorDone(a, FALSE, "actors") /\ UNCHANGED <<actor, session>>
     ELSE IF actor[a].status # "Stopped" /\ Present(a)
     THEN /\ session' = [session EXCEPT ![a].st = "idle"]
          /\ actor' = [actor EXCEPT ![a].status = "Healthy"]
          /\ ActorDone(a, TRUE, "actors")
     ELSE /\ actor' = [actor EXCEPT ![a].status = IF @ = "Healthy" THEN "Stale" ELSE @]
          /\ Managing(a, "claim") /\ UNCHANGED session
  /\ UNCHANGED <<team, tree, disk, agents, frozen, busy, faults>>

\* The row before a launch: the handle is forgotten, a checkpoint is kept.
BeforeLaunch(a, key) ==
  [session[a] EXCEPT !.st = "launching", !.ext = 0, !.key = key, !.dir = cmd.dir]

\* register_and_launch_desired_actor up to the row of ensure_actor_session: an
\* old "stopped" row of a newly registered actor is emptied first.
WriteLaunch ==
  /\ cmd.pc = "launch"
  /\ LET a   == cmd.at
         row == session[a] IN
     IF /\ row.st # "none"
        /\ \/ row.dir # cmd.dir
           \/ row.st # "stopped" /\ row.ext \notin {0, actor[a].epoch}
     THEN ActorDone(a, FALSE, "actors") /\ UNCHANGED session
     ELSE /\ session' = [session EXCEPT ![a] =
               [BeforeLaunch(a, LaunchKey(a)) EXCEPT
                  !.token = IF row.st = "stopped" THEN 0 ELSE @]]
          /\ Go("start")
  /\ UNCHANGED <<team, actor, tree, disk, agents, frozen, busy, faults>>

\* recover_incomplete_session reuses the row as it is.
ReuseLaunch ==
  /\ cmd.pc = "recover"
  /\ IF RowIsValid(cmd.at, cmd.dir) THEN Go("start")
                                    ELSE ActorDone(cmd.at, FALSE, "actors")
  /\ UNCHANGED <<team, actor, session, tree, disk, agents, frozen, busy, faults>>

\* The backend checkpoints a token and starts the agent, or reports a failure.
StartAgent ==
  /\ cmd.pc = "start"
  /\ LET a == cmd.at
         e == actor[a].epoch IN
     \/ /\ session' = [session EXCEPT ![a].token = e]
        /\ agents' = agents \cup {[actor |-> a, epoch |-> e, dir |-> session[a].dir]}
        /\ Go("handle") /\ UNCHANGED <<actor, faults>>
     \/ /\ Fault
        /\ \E checkpointed \in BOOLEAN :
             session' = [session EXCEPT ![a].token = IF checkpointed THEN e ELSE @,
                                        ![a].st = "launch_failed"]
        /\ actor' = [actor EXCEPT ![a].status = "Stale"]
        /\ ActorDone(a, FALSE, "actors") /\ UNCHANGED agents
  /\ UNCHANGED <<team, tree, disk, frozen, busy>>

\* The handle is recorded, the caller bound and the actor heard of.
RecordHandle ==
  /\ cmd.pc = "handle"
  /\ session' = [session EXCEPT ![cmd.at].ext = actor[cmd.at].epoch, ![cmd.at].st = "idle"]
  /\ actor' = [actor EXCEPT ![cmd.at].status = "Healthy"]
  /\ ActorDone(cmd.at, TRUE, "actors")
  /\ UNCHANGED <<team, tree, disk, agents, frozen, busy, faults>>

\* ensure_replacement_session and the first half of actor_replace: the row is
\* claimed for the replacement of this generation, unless it already is.
ClaimReplacement_Refuses ==
  /\ cmd.pc = "claim"
  /\ LET a   == cmd.at
         row == session[a] IN
     IF Replacing(row) THEN ActorDone(a, FALSE, "actors") /\ UNCHANGED session
     ELSE IF \/ actor[a].status = "Healthy"
             \/ row.st # "none" /\ ~RowIsValid(a, row.dir)
     THEN ActorDone(a, FALSE, "actors") /\ UNCHANGED session
     ELSE /\ session' = [session EXCEPT ![a] =
               [row EXCEPT !.st = "replacement_pending", !.dir = cmd.dir,
                           !.key = ReplacementKey(actor[a].epoch)]]
          /\ Go("clear")
  /\ UNCHANGED <<team, actor, tree, disk, agents, frozen, busy, faults>>

ClaimReplacement ==
  /\ cmd.pc = "claim"
  /\ LET a   == cmd.at
         row == session[a] IN
     IF Replacing(row) THEN Go("clear") /\ UNCHANGED session
     ELSE IF \/ actor[a].status = "Healthy"
             \/ row.st # "none" /\ ~RowIsValid(a, row.dir)
     THEN ActorDone(a, FALSE, "actors") /\ UNCHANGED session
     ELSE /\ session' = [session EXCEPT ![a] =
               [row EXCEPT !.st = "replacement_pending", !.dir = cmd.dir,
                           !.key = ReplacementKey(actor[a].epoch)]]
          /\ Go("clear")
  /\ UNCHANGED <<team, actor, tree, disk, agents, frozen, busy, faults>>

\* What the backend may still run for the row is stopped before the row's
\* handle and checkpoint are given up.
ClearReplaced_NoStop ==
  /\ cmd.pc = "clear"
  /\ LET a == cmd.at IN
     IF session[a].st # "replacement_pending"
     THEN Go("advance") /\ UNCHANGED <<session, agents, faults>>
     ELSE \/ /\ agents' = agents
             /\ session' = [session EXCEPT ![a].st = "launching",
                                           ![a].ext = 0, ![a].token = 0]
             /\ Go("advance") /\ UNCHANGED faults
          \/ /\ Fault /\ ActorDone(a, FALSE, "actors") /\ UNCHANGED <<session, agents>>
  /\ UNCHANGED <<team, actor, tree, disk, frozen, busy>>

ClearReplaced ==
  /\ cmd.pc = "clear"
  /\ LET a == cmd.at IN
     IF session[a].st # "replacement_pending"
     THEN Go("advance") /\ UNCHANGED <<session, agents, faults>>
     ELSE \/ /\ agents' = agents \ (AgentOf(a, session[a].ext) \cup AgentOf(a, session[a].token))
             /\ session' = [session EXCEPT ![a].st = "launching",
                                           ![a].ext = 0, ![a].token = 0]
             /\ Go("advance") /\ UNCHANGED faults
          \/ /\ Fault /\ ActorDone(a, FALSE, "actors") /\ UNCHANGED <<session, agents>>
  /\ UNCHANGED <<team, actor, tree, disk, frozen, busy>>

\* "actor.replaced" advances the actor and the team, once per intent; it is
\* refused while the team is not Active.
AdvanceGeneration ==
  /\ cmd.pc = "advance"
  /\ LET a == cmd.at IN
     IF session[a].key = ReplacementKey(actor[a].epoch) /\ team.status = "Active"
     THEN /\ actor' = [actor EXCEPT ![a] = [epoch |-> @.epoch + 1, status |-> "Healthy"]]
          /\ team' = [team EXCEPT !.epoch = @ + 1]
          /\ Go("relaunch")
     ELSE /\ UNCHANGED <<actor, team>>
          /\ IF session[a].key = ReplacementKey(actor[a].epoch - 1)
             THEN Go("relaunch") ELSE ActorDone(a, FALSE, "actors")
  /\ UNCHANGED <<session, tree, disk, agents, frozen, busy, faults>>

Relaunch ==
  /\ cmd.pc = "relaunch"
  /\ IF session[cmd.at].dir = cmd.dir /\ disk[cmd.dir] # "absent"
     THEN /\ session' = [session EXCEPT ![cmd.at].st = "launching"]
          /\ Go("start")
     ELSE ActorDone(cmd.at, FALSE, "actors") /\ UNCHANGED session
  /\ UNCHANGED <<team, actor, tree, disk, agents, frozen, busy, faults>>

\* actor.stop: first the session, then the actor.
Halt ==
  /\ cmd.pc = "halt"
  /\ LET a == cmd.at IN
     \/ /\ agents' = agents \ (AgentOf(a, session[a].ext) \cup AgentOf(a, session[a].token))
        /\ session' = [session EXCEPT ![a].st = IF @ = "none" THEN @ ELSE "stopped"]
        /\ Go("halted") /\ UNCHANGED faults
     \/ Fault /\ Return /\ UNCHANGED <<session, agents>>
  /\ UNCHANGED <<team, actor, tree, disk, frozen, busy>>

Halted ==
  /\ cmd.pc = "halted"
  /\ actor' = [actor EXCEPT ![cmd.at].status = "Stopped"]
  /\ Return
  /\ UNCHANGED <<team, session, tree, disk, agents, frozen, busy, faults>>

\* The result says whether the team converged; create and resume fail if not,
\* and the command is to be retried.
ReconcileDone ==
  /\ cmd.pc = "actors" /\ cmd.todo = {} /\ Return
  /\ UNCHANGED <<team, actor, session, tree, disk, agents, frozen, busy, faults>>

-----------------------------------------------------------------------------
(* team_close and reconcile_closing_team. *)

\* Without --when-idle a close is refused while work needs the team.
RequestClose ==
  /\ cmd.pc = "close"
  /\ \/ /\ team.status \in {"Active", "Paused"}
        /\ team' = [team EXCEPT !.status = "Closing"]
        /\ Go("closing")
     \/ /\ team.status \in {"Closing", "Closed"}
        /\ Go("closing") /\ UNCHANGED team
     \/ busy /\ Return /\ UNCHANGED team
  /\ UNCHANGED <<actor, session, tree, disk, agents, frozen, busy, faults>>

\* A closed team only has its worktree looked at again; a closing one waits
\* until nothing needs it.
EnterClosing ==
  /\ cmd.pc = "closing"
  /\ IF team.status = "Closed" THEN Go("cleanup")
     ELSE IF busy THEN Return
     ELSE cmd' = [cmd EXCEPT !.todo = team.members, !.failed = FALSE, !.pc = "stop"]
  /\ UNCHANGED <<team, actor, session, tree, disk, agents, frozen, busy, faults>>

\* stop_actor_for_reconciliation: first the actor, then its session.
StopActor(a) ==
  /\ cmd.pc = "stop" /\ a \in cmd.todo
  /\ actor' = [actor EXCEPT ![a].status = "Stopped"]
  /\ Managing(a, "stop_session")
  /\ UNCHANGED <<team, session, tree, disk, agents, frozen, busy, faults>>

RowNeedsStop(a) == session[a].ext # 0 /\ session[a].st \notin {"missing", "stopped"}

StopSession_Unchecked ==
  /\ cmd.pc = "stop_session"
  /\ LET a == cmd.at IN
     \/ /\ agents' = IF RowNeedsStop(a) THEN agents \ AgentOf(a, session[a].ext) ELSE agents
        /\ session' = [session EXCEPT ![a].st = IF @ = "none" THEN @ ELSE "stopped"]
        /\ ActorDone(a, TRUE, "stop") /\ UNCHANGED faults
     \/ /\ RowNeedsStop(a) /\ Fault
        /\ session' = [session EXCEPT ![a].st = "stopped"]
        /\ ActorDone(a, TRUE, "stop") /\ UNCHANGED agents
  /\ UNCHANGED <<team, actor, tree, disk, frozen, busy>>

StopSession ==
  /\ cmd.pc = "stop_session"
  /\ LET a == cmd.at IN
     \/ /\ agents' = IF RowNeedsStop(a) THEN agents \ AgentOf(a, session[a].ext) ELSE agents
        /\ session' = [session EXCEPT ![a].st = IF @ = "none" THEN @ ELSE "stopped"]
        /\ ActorDone(a, TRUE, "stop") /\ UNCHANGED faults
     \/ /\ RowNeedsStop(a) /\ Fault
        /\ ActorDone(a, FALSE, "stop") /\ UNCHANGED <<session, agents>>
  /\ UNCHANGED <<team, actor, tree, disk, frozen, busy>>

\* Every actor stopped and no session left to stop, or the close stays open.
StopsDone_Ignores ==
  /\ cmd.pc = "stop" /\ cmd.todo = {}
  /\ IF \A a \in team.members : actor[a].status = "Stopped" THEN Go("cleanup") ELSE Return
  /\ UNCHANGED <<team, actor, session, tree, disk, agents, frozen, busy, faults>>

StopsDone ==
  /\ cmd.pc = "stop" /\ cmd.todo = {}
  /\ IF /\ ~cmd.failed
        /\ \A a \in team.members : actor[a].status = "Stopped" /\ ~RowNeedsStop(a)
     THEN Go("cleanup") ELSE Return
  /\ UNCHANGED <<team, actor, session, tree, disk, agents, frozen, busy, faults>>

AfterCleanup == IF team.status = "Closed" THEN Return ELSE Go("closed")

\* cleanup_team_worktree: what the team does not own, or what holds changes,
\* or what Git will not remove, stays.

KeepWorktree ==
  /\ cmd.pc = "cleanup"
  /\ \/ /\ \/ tree.own \in {"none", "Attached"}
           \/ tree.st = "Removed"
        /\ UNCHANGED <<tree, faults>>
     \/ /\ tree.own \in {"Created", "Adopted"} /\ tree.st # "Removed"
        /\ IF disk[tree.dir] = "dirty" THEN UNCHANGED faults ELSE Fault
        /\ Outcome("RetainedWithReason")
  /\ AfterCleanup
  /\ UNCHANGED <<team, actor, session, disk, agents, frozen, busy>>

\* git worktree remove, which itself refuses a directory with changes.

RemoveWorktree ==
  /\ cmd.pc = "cleanup"
  /\ tree.own \in {"Created", "Adopted"} /\ tree.st # "Removed"
  /\ disk[tree.dir] # "dirty"
  /\ disk' = [disk EXCEPT ![tree.dir] = "absent"]
  /\ Go("removed")
  /\ UNCHANGED <<team, actor, session, tree, agents, frozen, busy, faults>>

RecordRemoval ==
  /\ cmd.pc = "removed"
  /\ Outcome("Removed")
  /\ AfterCleanup
  /\ UNCHANGED <<team, actor, session, disk, agents, frozen, busy, faults>>

\* "team.closed" checks everything once more on the state it commits to.
CloseTeam ==
  /\ cmd.pc = "closed"
  /\ IF ~busy /\ \A a \in team.members : actor[a].status = "Stopped"
     THEN team' = [team EXCEPT !.status = "Closed"]
     ELSE UNCHANGED team
  /\ Return
  /\ UNCHANGED <<actor, session, tree, disk, agents, frozen, busy, faults>>

-----------------------------------------------------------------------------
(* What happens beside the commands. *)

\* The process of the command dies; the lock is released with it.
Crash ==
  /\ cmd # Idle /\ Fault /\ Return
  /\ UNCHANGED <<team, actor, session, tree, disk, agents, frozen, busy>>

AgentDies(x) ==
  /\ Fault /\ agents' = agents \ {x}
  /\ UNCHANGED <<team, actor, session, tree, disk, frozen, busy, cmd>>

\* expire_stale_actors, and the heartbeat of a bound agent that speaks again.
LeaseExpires(a) ==
  /\ actor[a].status = "Healthy" /\ Fault
  /\ actor' = [actor EXCEPT ![a].status = "Stale"]
  /\ UNCHANGED <<team, session, tree, disk, agents, frozen, busy, cmd>>

Heartbeat(a) ==
  /\ actor[a].status = "Stale" /\ AgentOf(a, actor[a].epoch) # {}
  /\ actor' = [actor EXCEPT ![a].status = "Healthy"]
  /\ UNCHANGED <<team, session, tree, disk, agents, frozen, busy, cmd, faults>>

\* An agent leaves changes in its directory, or commits them.
Edit(x) ==
  /\ disk[x.dir] # "absent"
  /\ disk' = [disk EXCEPT ![x.dir] = IF @ = "clean" THEN "dirty" ELSE "clean"]
  /\ UNCHANGED <<team, actor, session, tree, agents, frozen, busy, cmd, faults>>

\* The Primary assigns work to a converged team; agents finish it.
Assign ==
  /\ cmd = Idle /\ team.status = "Active" /\ Converged /\ ~busy /\ busy' = TRUE
  /\ UNCHANGED <<team, actor, session, tree, disk, agents, frozen, cmd, faults>>
Finish ==
  /\ busy /\ busy' = FALSE
  /\ UNCHANGED <<team, actor, session, tree, disk, agents, frozen, cmd, faults>>

-----------------------------------------------------------------------------
CommandStep ==
  \/ Prepare \/ KnownDirectory \/ NewDirectory \/ AddWorktree \/ ActivateWorktree
  \/ RefuseRegister \/ Register \/ (\E a \in Actors : ResetSession(a)) \/ ResetDone
  \/ EnterReconcile \/ (\E a \in Actors : Decide(a))
  \/ WriteLaunch \/ ReuseLaunch \/ StartAgent \/ RecordHandle
  \/ ClaimReplacement \/ ClearReplaced \/ AdvanceGeneration \/ Relaunch
  \/ Halt \/ Halted \/ ReconcileDone
  \/ RequestClose \/ EnterClosing \/ (\E a \in Actors : StopActor(a))
  \/ StopSession \/ StopsDone \/ KeepWorktree \/ RemoveWorktree \/ RecordRemoval
  \/ CloseTeam

Primary == \/ \E d \in Dirs : BeginCreate(d)
           \/ BeginReconcile \/ BeginClose \/ Pause \/ Resume
           \/ \E a \in Actors : BeginReplace(a) \/ BeginStop(a)

Environment ==
  \/ Crash \/ Assign \/ Finish
  \/ \E x \in agents : AgentDies(x) \/ Edit(x)
  \/ \E a \in Actors : LeaseExpires(a) \/ Heartbeat(a)

Next == CommandStep \/ Primary \/ Environment

Spec == Init /\ [][Next]_vars

\* A command that is not killed ends; the operator keeps reconciling and keeps
\* repeating the creation; and agents finish what they were given.
FairSpec ==
  /\ Spec /\ WF_vars(CommandStep) /\ WF_vars(Finish)
  /\ SF_vars(BeginReconcile) /\ \A d \in Dirs : SF_vars(BeginCreate(d))
-----------------------------------------------------------------------------
MaxEpoch == 1 + MaxRecreated + MaxFaults * Cardinality(Actors)

TypeOK ==
  /\ team \in [status : {"Absent", "Active", "Paused", "Closing", "Closed"},
               epoch : 0 .. MaxEpoch, members : SUBSET Actors]
  /\ actor \in [Actors -> [epoch : 0 .. MaxEpoch,
                           status : {"None", "Healthy", "Stale", "Stopped"}]]
  /\ tree \in [own : {"none", "Created", "Adopted", "Attached"},
               st : {"none", "Creating", "Active", "Removed", "RetainedWithReason",
                     "AttachedNotOwned"},
               dir : Dirs \cup {NoDir}]
  /\ session \in [Actors -> [st : {"none", "missing", "replacement_pending", "launching",
                                  "launch_failed", "idle", "stopped"},
                             ext : 0 .. MaxEpoch, token : 0 .. MaxEpoch,
                             dir : Dirs \cup {NoDir},
                             key : {session[a].key : a \in Actors}]]
  /\ disk \in [Dirs -> {"absent", "clean", "dirty"}]
  /\ \A x \in agents : x.actor \in Actors /\ x.dir \in Dirs
  /\ busy \in BOOLEAN /\ faults \in 0 .. MaxFaults

\* An agent the store knows a handle of never loses its directory: closing
\* stops it first and cleans up after, whatever fails or dies in between.
KnownAgentKeepsItsDirectory ==
  \A a \in Actors : \A x \in AgentOf(a, session[a].ext) :
    disk[x.dir] # "absent"

\* A closed team has no member that may act and no agent the store knows a
\* handle of, also when its close was cut short and issued again.
ClosedIsQuiet ==
  team.status = "Closed" =>
    \A a \in team.members :
      actor[a].status = "Stopped" /\ AgentOf(a, session[a].ext) = {}

\* Closing a team stops its agents, then removes what they worked in, and leaves
\* nobody behind (reconcile_closing_team).
ClosingIsOrderly == KnownAgentKeepsItsDirectory /\ ClosedIsQuiet

\* Of an actor whose replacements and launches were interrupted anywhere at
\* most one generation runs: the earlier one is stopped before the next starts.
OneGenerationRuns ==
  team.status = "Active" /\ frozen = {} =>
    \A a \in Actors : Cardinality({x \in agents : x.actor = a}) <= 1

\* Git removes only a worktree the team owns, without changes, of a team that
\* is closing or closed: no living team loses its directory.
OnlyOwnedIsRemoved ==
  [][\A d \in Dirs : disk[d] # "absent" /\ disk'[d] = "absent" =>
        /\ disk[d] = "clean" /\ tree.dir = d /\ tree.own # "Attached"
        /\ team.status \in {"Closing", "Closed"}]_vars

\* Reconciliation that is run again after what failed ends what was begun: a close
\* completes once nothing needs the team, and of a new team every desired actor is
\* healthy with a session, unless the team is paused or closed before.
ReconciliationEnds ==
  /\ team.status = "Closing" ~> team.status = "Closed"
  /\ team.status = "Active" /\ frozen = {} ~> Converged \/ team.status # "Active"

\* The same of a team created again under its name.
RecreatedConverges ==
  team.status = "Active" /\ frozen # {} ~> Converged \/ team.status # "Active"

\* A launch checkpoint is given up only after the backend stopped what it names.
CheckpointIsCleanedUp ==
  [][\A a \in Actors : session[a].token # 0 /\ session'[a].token = 0
        => ~\E x \in agents' : x.actor = a /\ x.epoch = session[a].token]_vars
=============================================================================
