# A verification development for agent-supervisor

agent-supervisor (`agsv`) keeps the durable record of software work that several
agent processes do in one repository: who leads (the Primary), which teams and
executors exist, which request is whose, which commit was reviewed, accepted and
authorized, and which messages were delivered. The processes are unreliable and
concurrent. They are replaced, they lose presence, they send messages that were
written under an earlier state. The program's answer is *fencing*: every actor,
team, assignment and Primary lease has an epoch, and an envelope is accepted only
when all its epochs are current.

These TLA+ modules model that protocol and what is built around it: the store,
the commands and their retries, the sessions of the agents, the review of
candidates, the runtime's queue, the archive, the upgrade of an older store and
the configuration. TLC checks them on small instances. TLAPS proves the central
invariants, one refinement and several action properties for every instance.

## 1. Inventory

Paths are relative to `src/crates/`; `core` is `agsv-core/src`, `control` is
`agsv-control/src`.

| Part | State | Operations | What makes it correct |
| --- | --- | --- | --- |
| State machines, `core/transitions.rs` | none | four transition tables | an event is legal exactly where the tables say |
| Workspace aggregate, `core/supervisor.rs` | lease, actors, teams, requests, runs, handoffs | activate, status, heartbeat, register, replace, team create and status, `apply` of 18 message kinds | one Primary per lease epoch, one executor per assignment epoch, unfinished work always at current fences, settled work stays settled, run and request agree |
| Mailbox, same file | deliveries with required, acknowledged, waived recipients | `apply`, `acknowledge`, retirement, supersession | every delivery passes the validation of a restart; an accepted id is never applied again; a closing team owes nobody an answer |
| Restore and causal replay, same file | the audit log | `from_snapshot` | every state reached by accepted calls is accepted back |
| Archive, same file and `control/store.rs` | rows of deliveries, events and requests, commits, bodies, evidence, decisions | archive, classify a late retry or acknowledgement, write and read texts | a retry means the same before and after its message was archived; whatever was accepted is read back |
| Observability, same files | fact chains, summaries, counters | projections of accepted messages | counters follow the snapshot, a completion is credited once |
| State store, `control/store.rs` | snapshot and revision in SQLite | `load`, `mutate` | concurrent mutations form one serial history |
| Idempotent operations, `store.rs`, `engine.rs` | results, claims | look up, claim, run, record, release | one effect and one answer per operation id |
| Actor shutdown, same files | actor, session row, result | one declaring transaction | all three change together |
| Sessions and bindings, same files | session rows, replacement intents, bindings of terminals | launch, checkpoint, bind, replace | one generation of an actor runs; a bound caller is one generation or is told so |
| Control engine, `control/engine.rs` | none of its own | authentication, locks, team lifecycle, requests, messages, decisions, wake-up, reconciliation | a command is admitted under the fences of its caller, waits in no circle, and can be retried |
| Review execution, `control/review.rs`, `engine.rs`, `store.rs` | review sessions, attempts, evidence | begin, verify, interrupt, recover; capture of a check's output | a verdict is earned by a complete run on the exact candidate; a report is true |
| Durable runtime, `agsv-runtime` | daemon lease, actors, launches, messages | lease, register, prepare, checkpoint, claim, acknowledge, retry, reconcile | one service per fence; a delivery is ended by its holder; every message is acknowledged |
| Session presentation, `control/presentation.rs`, `store.rs` | panes, reservations, archive of rows | allocate, refresh, archive | a pane is given once; the rows of stopped actors never stop a mutation |
| Schema admission, `control/store.rs` | files, marker, receipt | inspect, refuse, preserve, confirm, initialise | no byte of the older store is lost; a command run again opens the store |
| Configuration, `agsv-cli/src/config.rs` | layers, sources | merge, queue profiles, validate | the value in force is the one of the highest layer that gives it, and its source is named |
| Session backends, runtime adapters, base staleness report, wire types, identity, the rest of the command line | panes, processes | launch, stop, observe; derivation, parsing, I/O | environment of the models, or not behaviour of several actors |

**How they interact.** A command line call builds a `ControlEngine`, takes its
admission locks and authenticates its caller. It changes the domain only through
`StateStore::mutate`, which loads a snapshot, applies a closure to the aggregate,
restores the result to validate it, and commits it if the revision has not moved.
Session rows, claims and results live beside the snapshot in other transactions.
Wake-ups of other agents happen after the commit. There is no server: every
command is its own process, so any two commands interleave between transactions
and any of them may die there. The durable runtime is a service of its own that
the engine of this version uses only for its adapters.

**What is hard.** Takeover of the lease against messages under way; a member's
replacement under the work of the others; a handoff whose terms change between
its two phases; closing and recreating a team; rework after rejection; replay of a
long history; the compare-and-swap loop and the several transactions of one
operation; claims that expire while their owner still works; crashes between
launch, commit and binding; flocks taken in a mode that an unlocked read decided.
`PROJECT.json` lists each of these at its line, with the properties that cover it.

## 2. Modules

| Module | What it is | Main variables and what they are in the code |
| --- | --- | --- |
| `Transitions` | the four tables of `transitions.rs`, as functions from events to statuses | none |
| `Supervisor` | the aggregate without its mailbox | `primaryEpoch`, `activePrimary`, `actor`, `team`, `request`, `run`, `handoffs` are the fields of those names; `decided` the decision ids of the mailbox; `leaseUses`, `assignmentUses` history: who was heard under which epoch |
| `Replay` | the aggregate with the log of what it accepted, and the replay of a restart as a fold over it | `past` the state of `CausalReplay`; `consulted` the consultations |
| `Mailbox` | deliveries to one team and its members | `team`, `member`, `primary`, `request` (as far as a close asks), `mailbox` |
| `Sending` | one operation id of `message.send` with every choice of flags | `envelope`, `first` the committed envelope and its input; `claim`, `result` |
| `Archive` | what each mutation of `Mailbox` moves out of the hot history | `archive` rows by key, `audit` hot events, `commits`, `checkpoint` the snapshot's `history_checkpoint`, `lease` and `sent` the fences of the Primary and of accepted messages, `client` a late retry |
| `Content` | what messages say, in immutable rows beside `Archive` | `body`, `specification`, `evidence`, `decisions` the tables of bodies, request specifications, evidence records and decision rationales; `decision` the decision a request refers to |
| `Projections` | summaries, counters and fact chain beside the snapshot | one variable per table: `activity`, `anchor`, `credit`, `frozen`, `manifest`; `loaded` what each process has read |
| `CommandService` | abstract: a serial history, at most one effect and one answer per id | `history`, `answer` |
| `Commands` | the protocol of claims, results and compare-and-swap | `effects` accepted transitions, `results`, `claims` tables of those names, `proc` running commands |
| `Bindings` | how an invocation takes its flocks, authenticates and binds its terminal | `binding` is `actor_bindings`, `row` the session rows, `invoked` the running processes, their stage and locks |
| `Teams` | team lifecycle and reconciliation in the commits the engine makes | `team`, `actor`, `session` rows, `tree` the `team_worktrees` row, `disk`, `agents` what the backend runs, `frozen` archived generations, `cmd` the running command |
| `ReviewExecution` | a review session, its verification attempts and their recovery | `session`, `checkout`, `attempt`, `evidence`, `answer`, `process` |
| `ReviewCapture` | the threads that run and capture one check | `child`, `pipe`, `budget`, `capture` per stream, `main`, `report` |
| `ReviewRecords` | the rows of a review session and the readers that verify them | one variable per table |
| `RuntimeLaunch` | daemon lease, launch intent, Herdr launch, reconciliation | `lease`, `intent`, `actor` rows; `held` the fence in memory; `call` what each thread does; `panes`, `agent` the backend |
| `RuntimeQueue` | registration, Primary lease, claims, deadlines, retries | `actors`, `primary`, `message` rows; `client` what an actor's process holds |
| `ConfigLayers` | the merge of the configuration layers | `declared`, `settings`, `profiles`, `pending`, `sources` |
| `Presentation` | panes, labels, the archive of rows | tables of those names; `job` the refresh each command is at |
| `SchemaAdmission` | preservation of an older store and fresh initialisation | `path`, `kept` the directories of the file system; `marker`, `receipt`; `pc`, `work` the invocations |
| `MCSupervisor`, `MCReplay`, `MCAdmission`, `MCRuntime`, `MCReview`, `MCLifecycle`, `MCMailbox`, `MCProgress`, `MCHistory` | instances for TLC | |
| `SupervisorProofs`, `CommandProofs`, `AuthorityProofs`, `TeamProofs`, `ReviewProofs`, `RuntimeProofs`, `MailboxProofs`, `UpgradeProofs` | theorems | |

Several MC modules join two or three modules that share no state. A variable
`part` (or `half`) is drawn once at the start and says which of them a behaviour
exercises; the others keep an empty or initial state. So one TLC run asks the
questions of all of them, and no state of one multiplies those of another. `Next`
of each module is taken as it is, fairness is that module's restricted to its part.
A strong fairness condition that joins a step of either part by a disjunction is
the one on the step of the part that is exercised.

Beside some definitions stands a variant named with a suffix, such as
`NextAssignment_Reused`: the same definition with a plausible bug. They show that
the properties notice it, and nothing else uses them.

### How actions correspond to calls

*Aggregate.* A call of `Supervisor` is one action: `ActivatePrimary`,
`SetActorStatus` (`set_actor_status` and `heartbeat`), `CreateTeam`,
`SetTeamStatus`, `CloseTeam` (the last mutation of `reconcile_closing_team`),
`RegisterImplementation`, `ReplaceImplementation`, and `Accept(e)`, which is
`Supervisor::apply` of an envelope `e`. `Accept` conjoins the fences
(`Authorized`, from `authorize_envelope`; `Context`, from `request_context`;
`FromPrimary`, from `require_primary`; `FromAssignee`, from
`ensure_current_assignment`) with the handler of the message. `Next` offers it
every envelope of the type, with stale and foreign epochs. A refused call and a
repeated message leave the aggregate as it is and are no step. Quotas, the policy
revision, profiles and roles, timestamps and `fix_cycle_depth` (the length of the
history less one) are left out; `Open`, `Pending`, `Starting` and `Retired` are
passed through or never reached. An executor id has one home team for ever, as
`register_implementation_inner` and `ensure_team_actor` require.

*Replay.* `ReplayInit` and `ReplayStep` conjoin each accepted call with the step of
`CausalReplay` it will cause at a restart; `Restores` says that the restart accepts.
The combinations it is known to refuse are named, each with its reason:
`SettledMoved`, `EndsUnheard`, `OfferStands`, `AnsweredBefore`, `RejectedBefore`
and a handoff acceptance addressed to the Primary. `StateStore::mutate` restores
before it commits, so what the replay refuses, a command refuses. Targets of
Primary messages, directives, notices and profiles are not replayed.

*Commands.* `Lookup`, `ClaimOp`, `Prepare`, `Load`, `Retry`, `Commit`, `Wake`,
`Record`, `Release` are the separate transactions of `idempotent` and `mutate`;
`DeclareShutdown` is the single transaction of a shutdown. `Die` may fall between
any two. Commands of one caller are serialized by the caller's flock, which is
held to the end of the process.

*Bindings.* A stage of an invocation is a lock it waits for or a transaction it is
about to commit, in the order of `execute()` (`engine.rs:515-622`): workspace,
Primary, caller, actors. The mode of the Primary's lock depends on a read made
before it is taken, as in the code. The debug identity, `context` without
bootstrap and `message.inbox` are left out; the binding a launcher makes and
`actor.replace` are in `Teams`.

*Teams.* All these commands hold the exclusive Primary lock until they end, so one
runs at a time (`cmd`); agents, leases and deaths act beside it. `team.created` is
one mutation, a launch is a checkpoint, a start and a recorded handle. Surplus
actors, legacy profiles and the per-session sweep of reconcile are left out.

*Mailbox.* Requests are as far along as closing asks (none, blocking, settled,
terminal). `apply`, `acknowledge`, replacement, pause, close and re-creation are
actions with the retirement and supersession they carry out. The repair of closed
deliveries at a restart is not an action; requests and teams of others are not
modelled. In `Sending` two teams and two requests are enough to tell flags apart;
texts are told apart by name.

*Archive, Content, Projections.* The archiving a mutation of `Mailbox` does is part of
its step, as `mutate` does both in one transaction, and so is the writing of what the
message says. A lease is lost and taken with the Primary; the fences of senders of
other teams are not compared. Sending and acknowledging again are two steps, the load
and the look-up in the archive, and a mutation may fall between. The text of a message
is its id, of evidence a version. Digests and pending handoffs are left out;
consultations are between the Primary and this team. `Projections` leaves out times of
day and Primary generations.

*Review.* `ReviewExecution` takes one command at a time (the exclusive Primary
lock) through its transactions; what a check does to its checkout is the
environment's choice. In `ReviewRecords` one session stays ready with an exact
checkout and a plan is a number of executions; digests are left out.

*Runtime.* `RuntimeLaunch` covers the one adapter with several steps, Herdr;
the environment may close panes. In `RuntimeQueue` a message has one target: an
actor, a team or everyone.

*Configuration.* A value carries the layer it was written in, so that "whose value
is this" is a question about states. A load's files are about one subject.
`reasoning_effort` goes the way of `model`, the role that of `role_file`. Parsing
errors, textual validation and plain field merges are left out.

*Presentation.* The Primary's own row, hints for placement, the rendering of labels
and `updated_at` are left out.

*Schema admission.* The `-shm` file goes the way of the log; a death is the death of
a process, not of the machine. `StateStore::open` runs before any lock
(`engine.rs:476`), so openers overlap. `UpgradeNext` keeps them `Apart` where a finding
says that they get in each other's way: one invocation at a time moves a store, and
nobody makes or removes a database file meanwhile.

## 3. Runs

`tlc -workers 2 -config X.cfg M.tla` for every row. Every run takes less than five
minutes on two cores.

| Run | Module, cfg | Properties | Instance |
| --- | --- | --- | --- |
| review | `MCSupervisor`, `Review.cfg` | `TypeOK`, `PrimaryLease`, `LeaseEpochNamesOneGeneration`, `SettledWorkStays`; `RowsVerify`, `RetriesAreAnswered` | 2 Primaries, 1 executor, 1 request, 2 commits, 2 decisions, lease epochs to 3, others to 2; rows: 2 operations of one execution, a clock set back once, 2 deaths, a window of 2 results |
| commands | `MCAdmission`, `Commands.cfg` | `ShutdownIsAtomic`, `ImplementsService`; `AuthenticatedIsWhole`, `NobodyWaitsInACircle`, `BoundCallersCanReturn` | 2 processes, 3 operations of 2 callers, 1 fault, 1 retry of the compare-and-swap; bindings: 2 people, 1 agent, 2 processes, 2 generations, 1 lapse, 4 invocations, 1 death |
| command_retry | `MCAdmission`, `CommandRetry.cfg` | `RetryCompletes` | creation and sending, with a fault and a replaced caller |
| runtime | `MCRuntime`, `Runtime.cfg` | `LaunchIsFenced`, `LaterGenerationStaysOnline`; `DeliveriesAreExclusive`; `ConfigurationIsTrue`; `PresentationIsKept` | 2 services with 3 threads, 3 epochs, 1 closed pane; 2 Primaries and a broadcast; 5 subjects of a configuration in 3 layers; 2 actors, tabs of 2 panes, 5 launches or titles |
| execution | `MCReview`, `Execution.cfg` | `VerdictIsEarned`, `SessionRecovers`; `ReportIsTrue`, `CommandEnds` | 2 begins, 2 verifications of 2 checks, 2 faults; 2 streams of 1 byte, a budget of 1 or 2 |
| teams | `MCLifecycle`, `Teams.cfg` | `ClosingIsOrderly`, `OneGenerationRuns`, `ReconciliationEnds`; `PreservationIsSafe`, `OpenedAtLast` | 2 actors, 2 directories, 1 fault, 1 re-creation; 1 opener and 1 operator, 1 death, 1 write of an older process |
| mailbox | `MCMailbox`, `Mailbox.cfg` | `MailboxRestores`, `ClosingOwesNoAction`, `AcceptedOnce`; `SentAsAsked` | 2 members, 1 request, 3 messages of any kind, 3 team generations; 1 operation id with every choice of flags |
| progress | `MCProgress`, `Progress.cfg` | `SentIsAcknowledged`; `EveryMessageIsResolved` | 2 actors, 1 message; 1 member, 2 messages, 3 team generations |
| replay | `MCReplay`, `Replay.cfg` | `AssignmentEpochNamesOneExecutor`, `ActiveWorkIsFenced`, `RunMirrorsRequest`, `Restores` | 2 teams of 1 executor, 1 request, 1 commit, 2 decisions, 1 handoff id, 1 consultation, assignment epochs to 3 |
| history | `MCHistory`, `History.cfg` | `HotHistoryIsWhole`, `HistoryIsFaithful`; `SummariesFollow`, `CompletionsAreCreditedOnce` | 1 member, 1 request, 3 messages, 2 generations; 2 requests, 5 messages, 2 leases, 2 versions of 1 piece of evidence; 2 clients, 5 mutations, 1 describing transaction |
| settled_replay | `MCReplay`, `SettledReplay.cfg` | `SettledWorkCanEnd`, violated | as replay |
| archived_dependency | `MCHistory`, `ArchivedDependency.cfg` | `ArchivedDependencyLoads`, violated | 2 requests, 5 messages |

What they show, in the order of the rows.

- **review.** One healthy Primary at a time, and never two generations heard under
  one lease epoch; completed and cancelled work stays so. The rows of a review
  session pass the checks their readers make although the clock is set back, and a
  retry finds its results while at most two verifications fit the window.
- **commands.** The transactions of claims, results and compare-and-swap implement
  `CommandService`: one serial history, one effect and one answer per id. A shutdown
  changes actor, row and result together. Invocations that die half way leave nobody
  waiting in a circle; who runs as an authenticated Primary has the lease, the
  binding and an idle row of this generation to itself; a bound caller can return.
- **command_retry.** After a crash or a failed wake-up a retry settles creation and
  sending, and the target is woken.
- **runtime.** No two services under one fence, an online actor bound to what its
  launch recorded, a late reconciliation harmless; deliveries are ended by their
  holders; a configuration means what its layers say; panes are given once.
- **execution.** A verdict is earned; sessions and attempts recover from any death;
  a capture reports what happened and ends though a descendant keeps a pipe open.
- **teams.** Agents the rows know stop before their directory goes; one generation
  runs; close and creation converge when repeated. No byte of an older store is
  lost, and a command that is run again opens the store.
- **mailbox, progress.** The mailbox can be restored in every state; answers,
  waivers and retirement are never taken back; every recipient is resolved in the
  end, whether by an answer, a replacement or the close of the team. A retry of
  `message.send` is recognised whatever became of its request.
- **replay.** Ownership is exclusive and current through handoffs, and every state
  reached restores, the refusals named in section 2 apart.
- **history.** Archiving leaves a hot history that loads, rows that verify, along which
  no lease or generation goes back, and retries that are recognised; every accepted
  message is read back as it was sent, and decisions in the order they were made;
  summaries and counters follow.

*Bounds.* Two commits and two decision ids are what a rework needs, a second
rejection of either and a decision on the wrong one. Two epochs make one change of
generation, one stale and one current value, which is what a fence distinguishes;
three lease epochs let the lease go and come back; three assignment epochs let a
request be handed over and back, or handed over and then replaced; three team
generations let a delivery be two generations old. Two processes are enough for
every race of two transactions, one death for the loss of what is between any two;
execution allows two faults because a death during the recovery from a death is a
case of its own. In *history* three messages are a request, one beside it and its
end; with five, two requests and one message between them that a second decision or a
dependency needs; the team is not paused and its member never stale, which *mailbox*
has; and in the projections two clients overlap in the first two mutations, whoever
loads later finds the others done. A third Primary, team, process or executor repeats the part of the
second; the proofs, which have no bounds, confirm it where there are any.
`Symmetric`, `ReviewSymmetry`, `TeamSymmetry`, `LaunchSymmetry` and
`AdmissionSymmetry` exchange names nothing in the modules distinguishes; no run with
a liveness property uses one. `CHECK_DEADLOCK FALSE` stands where the system may
stop: epochs and mutations are bounded, terminal work takes no step, an answered
command is over. In *replay* the constraint `Apart` keeps consultations and requests
out of one behaviour: they share no field of the replay.

*What a passing run leaves out*, because a finding of section 4 says it fails there:
`commands` the two deaths that lock a caller out (`LocksOut`) and the bootstrap
that looks at its caller's binding in the middle of another one's advance
(`Overtakes`); `mailbox` `--team` on an
executor's consultation; `teams` the convergence of a team created again, the clean-up
of a checkpoint whose handle was never recorded, and of the opening: overlapping
openers at the marker, an older process's write after the capture, a death that
leaves an empty database file, an older release's marker whose promotion is cut
short; `runtime` a second refresher and a refresh overtaken by a stop; `history` the
adoption of accepted work by a replacement, teams of several members in
`Projections`, notices to the team; `replay` the known refusals. `mailbox` keeps the
Primary active and `progress` has it come and go.

*Fairness.* Safety needs none. For liveness:

- a process that is not killed takes its next step (weak fairness of the steps of a
  command, a capture thread, a clock): it is what an operating system gives;
- a caller without an answer repeats its command with the same id, and an operator
  repeats `reconcile` and `create` (strong fairness of the calls): every error hint
  of the engine asks for it, and the documented loop is to do so. Strong, because
  the caller's flock goes to each waiting process in turn, but not at once;
- a compare-and-swap that is tried again and again succeeds (strong fairness of
  `Commit`): 64 attempts with growing pauses, `store.rs:2192`;
- the runtime's clock and reconciliation run; an actor that can again and again be
  attached or claim takes it up, and one that holds a delivery over and over
  acknowledges once in time;
- in the mailbox, a live recipient reads and answers, a member without presence
  beats again or is replaced, a pending close is resumed, and work ends.

Neither a check's child, nor a descendant that holds its pipes, nor an agent need
ever do anything.

## 4. Findings

Each is in `PROJECT.json` with its lines. Two are runs; the others are reproduced
by a configuration or by changing one, as said. A temporal counterexample is always
one under fairness.

| What | How to see it |
| --- | --- |
| Accepted work of a replaced team can neither be authorized, completed nor cancelled: the replay refuses the new generation's messages (`supervisor.rs:5832`) | run settled_replay |
| A dependency notice outlives the archived request it names, and no command loads the workspace any more (`supervisor.rs:6293`) | run archived_dependency |
| A rejected commit can come back, though it "stays forbidden" (`supervisor.rs:2791`) | `MCSupervisor`, `RejectedSha.cfg` |
| A second rejection of one candidate makes a state that does not restore (`supervisor.rs:2892`) | `RejectedSha.cfg` with the invariant `RejectionCountMatchesHistory` |
| A deferred wake-up is recorded as the result and never redelivered (`engine.rs:7414`) | `MCAdmission`, `DeferredWake.cfg` |
| A committed `run.pause` whose lease was recovered before its record is never settled (`engine.rs:7391`) | `MCAdmission`, `LeaseRetry.cfg` |
| A verification that dies after its last passing result gets no verdict (`engine.rs:8991`) | `ReviewExecution`, `ReviewRetry.cfg` |
| The retry of a verdict looks at a window of results only (`engine.rs:8942`) | `MCSupervisor`, `RetryWindow.cfg` |
| A team created again does not converge after a death (`engine.rs:4649`) | `MCLifecycle`, `TeamRecreation.cfg` |
| A launch checkpoint is given up while its agent runs (`engine.rs:4653`) | `TeamRecreation.cfg` with the property `CheckpointIsCleanedUp` |
| A retry of a consultation with `--team` is refused as other input (`engine.rs:9328`) | `MCMailbox`, `IgnoredTeam.cfg` |
| Two deaths lock a bound caller out (`engine.rs:3698`, `store.rs:15529`) | `MCAdmission`, `LockedOut.cfg` |
| A bootstrap that overtakes another one's advance goes on without the Primary's lock, and two callers are bound to one generation (`engine.rs:3904`) | `LockedOut.cfg` with `Agent = {}`, `MaxEpoch = 3`, `MaxLapses = 2`, `MaxInvoked = 5`, `MaxDeaths = 0` and the invariant `AuthenticatedIsWhole` |
| A new profile's default launch mode has no source (`config.rs:1218`) | `MCRuntime`, `Runtime.cfg` with the invariant `EveryValueHasASource` |
| A refresh overtaken by a stop leaves a row that stops every later mutation (`engine.rs:2301`) | `MCRuntime`, `StaleRow.cfg` |
| The older of two labels is shown and counts as the newer (`engine.rs:2590`) | `Runtime.cfg` with `Caller = {p, q}` and the invariant `AppliedIsShown` |
| Archived waivers keep a reason that a re-creation makes untrue (`supervisor.rs:4622`) | `MCHistory`, `History.cfg` with `SPECIFICATION ArchiveOnly`, without symmetry, and `ArchivedWaiversAreTrue` |
| A replacement leaves the other members' generations unanchored (`store.rs:7537`) | `History.cfg` with `ProjectionsOnly`, `Staff = {a1, a2, b1}` and `GenerationsAreAnchored` |
| Accepted work adopted by a replacement is not counted again (`supervisor.rs:1060`) | `History.cfg` with `ProjectionsOnly` and `SummariesFollow` |
| Overlapping openers and older writers leave a marker that cannot be resumed (`store.rs:13814`); an empty database file is never opened (`store.rs:13024`); an older release's marker can end in a receipt collision (`store.rs:13744`) | `SchemaAdmission`, `OpenNext` in place of `UpgradeNext` |

## 5. Proofs

TLAPS proves these for any values of the constants that satisfy the modules'
assumptions. Nothing is assumed finite unless it is said below. Every theorem is
about the specification the runs check (`Spec`, `CaptureSpec`, `LaunchSpec`,
`QueueSpec`, `PresentationSpec`, `RecordsSpec`, `BindingSpec`, `UpgradeSpec`,
`SendingSpec`), with these exceptions: `BindingTypes` and `NobodyDeadlocks` are about `FullSpec`, which allows more, deaths at every step and
every read that decides on a lock; and the archive's are about `ArchiveSpec`, every
mutation of `Mailbox`, of which the run *history* takes parts.

| Module | Theorem | States |
| --- | --- | --- |
| `SupervisorProofs` | `TypeCorrect` | `TypeOK` |
| | `RunsFollowRequests` | `RunMirrorsRequest` |
| | `LeaseIsExclusive`, `PrimaryIsAlone` | `LeaseEpochNamesOneGeneration`, `PrimaryLease` |
| | `AssignmentIsExclusive` | `AssignmentEpochNamesOneExecutor` |
| | `OwnershipIsCurrent` | `ActiveWorkIsFenced` |
| | `SettledWorkIsFinal` | `SettledWorkStays`, an action property |
| | `RecordsAlwaysVerify` | `RowsVerify` |
| | `RetriesGetAnswers` | `RetriesAreAnswered`, while the window holds the session's results |
| | `AnswersAreVerdicts` | types of `ReviewRecords`, and that an answer is a recorded verdict |
| `CommandProofs` | `CommandTypes`, `ShutdownAtomicity` | `TypeOK`, `ShutdownIsAtomic` |
| | `OneAnswer` | all answers under one id agree |
| | `CommandsImplementService` | `ImplementsService`, the refinement |
| `AuthorityProofs` | `BindingTypes`, `NobodyDeadlocks` | `BindingTypeOK`, `NobodyWaitsInACircle` |
| | `AuthorityIsKept` | `AuthorityInv`, the invariant of the next two |
| | `TheAuthenticatedAreWhole` | `AuthenticatedIsWhole` |
| | `BoundCallersReturn` | `BoundCallersCanReturn` |
| `TeamProofs` | `TeamTypes`, `TeamsCloseOrderly` | types, `ClosingIsOrderly` |
| | `GenerationsFollow` | `OneGenerationRuns` |
| | `OnlyOwnedWorktreesGo` | `OnlyOwnedIsRemoved`, an action property |
| `ReviewProofs` | `ReviewTypes`, `VerdictsAreEarned` | `TypeOK`, `VerdictIsEarned` |
| | `ReportsAreTrue` | `ReportIsTrue` |
| `RuntimeProofs` | `LaunchTypes`, `LaunchFencing` | `LaunchTypeOK`, `LaunchIsFenced` |
| | `ReconciliationIsFenced` | `LaterGenerationStaysOnline`, an action property |
| | `QueueTypes`, `LastDelivery` | types, one holder of the last delivery |
| | `ClaimsAreExclusive` | `DeliveriesAreExclusive`, action properties |
| | `PresentationStays` | `PresentationIsKept` |
| `MailboxProofs` | `MailTypes`, `MailboxAlwaysRestores` | `TypeOK`, `MailboxRestores` |
| | `ClosingIsFree` | `ClosingOwesNoAction` |
| | `MessagesAreAcceptedOnce` | `AcceptedOnce`, an action property |
| | `HotHistoryStaysWhole` | `HotHistoryIsWhole` |
| | `RetriesAreRecognised` | `RetryIsRecognised`, a part of `HistoryIsFaithful` |
| | `RowsAreCounted` | `CommitsVerify`, `CheckpointVerifies`, `AuditVerifies`, parts of `ArchiveVerifies` |
| | `MessagesAreSentAsAsked` | `SentAsAsked` |
| `UpgradeProofs` | `UpgradeIsSound` | `UpgradeInv`, the invariant of the next |
| | `OldStoresAreSafe` | `PreservationIsSafe` |

*Assumptions.* They are the named ASSUMEs of the modules, which every run that
extends the module evaluates. Identifiers of different kinds are different, absent
values are no values (of invocations: `InvocationAssumption`), epochs start at one,
bounds are naturals. Beyond that: at least one output stream and one read after the
command ended (`CaptureAssumption`; the code has two and 16), people and agents are
disjoint (`BindingAssumption`), the
members of a team are finitely many (`MailboxAssumption`; a team's profile is a
finite list). `ArchiveAssumption` says that messages, requests, sequence numbers and
the marks that stand beside them are different things; `SendingAssumption` that an
input names requests that exist, the inputs being otherwise any. `PresentationAssumption`
has at least one pane to a tab and finitely many foreign tabs. `TeamProofs` uses no
assumption about the constants, `UpgradeProofs` that the clock's bound is a natural.

*Arguments.* Type correctness comes first everywhere.

- *Aggregate.* Exclusiveness is about the past, so its invariant bounds the past:
  no recorded use has an epoch beyond the current one, and a use at the current
  epoch, while a Primary holds the lease, was made by its present generation
  (`LeaseUsesBounded`); the same per request for assignments, with one lemma,
  `AssignmentAdvances`, about what every step does to them. Ownership needs that
  members have the team as their home (`MembersAtHome`) and that live executors are
  members of open teams. A request mirrors its run because each handler changes both
  with the same event. Settled work could be revived by the acceptance of a handoff
  only, and a pending handoff is always of work that still blocks its team
  (`HandoffsAreOpen`): whatever settles a request drops its offers.
- *Commands.* `CommandInv`: an id has at most one effect, results and answers name
  it, and a running command's stage has been reached with its caller's generation
  and, where its copy counts as fresh, with the very history it read. Commits of
  others unset `fresh`, which is what the conditional update tests. For the
  refinement, each action maps to `Execute`, `Settle`, `ExecuteAndSettle` or to a
  stutter.
- *Bindings.* An invocation waits only for those that are past its own stage
  (`WaitsForLater`): locks are taken in the order workspace, Primary, caller, actors,
  all of the actors' at once, and who takes one late, for the actor its bootstrap
  adopts, holds none of an actor then (`HoldsInOrder`). So of any set of invocations
  the ones that are furthest wait for none of the set.
- *Authority.* `AuthorityInv` adds two parts to `BindingInv`. `LockInv`: what an
  invocation holds at each stage, that an exclusive lock is held alone, and that the
  mode it chose is enough for what it does under it; so a work or a stop of the
  Primary keeps every activation away, and an actor's lock keeps its stop away. The
  tables: no generation is bound twice, the lease's holder is healthy (`TablesAgree`);
  what an invocation found at its stage still holds (`StagesHold`); and a bound actor
  without a row has the bootstrap on its way that writes it (`RowsAreComing`). The
  proof goes through the ways a step changes the tables, and shows of every other
  invocation that it is kept from there or that what it found survives. `Apart` is
  why `Overtakes` is left out: no bootstrap of a caller may have chosen its lock
  while another is about to bind that caller. Without the exclusion this part is not
  inductive, TLC reaches a state that breaks `AuthenticatedIsWhole`, and section 4
  has it as a finding.
- *Teams.* `TeamInv` says who is beyond the reach of a command that closes. Of a team
  that leaves nobody can act or be launched again (`LeavingIsQuiet`); of a team never
  closed the row's handle or checkpoint reaches every agent (`RowsSay`,
  `AgentsFollow`, `LivingInReach`), and a replacement gives both up before the
  generation advances, after the backend has stopped what they name; clean-up starts
  only when every row is stopped or never was (`Knows`). `frozen = {}` in
  `OneGenerationRuns` marks a team that was never created again: the finding about
  discarded checkpoints is why the statement ends there.
- *Review.* Nothing but a preparation makes an altered checkout exact again, and none
  runs beside a verification; so a run that is exact at its end was exact
  throughout, the results of an attempt support its verdict, and its environments
  are in step with its results (`ReviewInv`). For the capture: a thread loses bytes
  only when it ended, the allowance of a stream is bounded by what was granted, and
  what the report says was decided after all threads ended (`CaptureInv`).
- *Review rows.* `RecordsInv` (in `SupervisorProofs`, as *review* runs the rows beside
  the aggregate) joins the command to the tables: while it works on an attempt there
  is a running fact and no verdict, and the files its next rows will name stand
  (`CommandIsBacked`). So no row comes after the verdict that was checked against all
  of them (`VerdictsAreExplained`), and each finds what it refers to (`RowsAreBacked`).
  Times are compared where a row is written, hence the clock may do as it likes. That
  results are numbered by their executions (`ResultsAreNumbered`) makes a complete
  attempt one with as many results as the plan has executions, which
  `RetriesGetAnswers` needs; its condition on the window is the finding of section 4.
- *Runtime.* The row knows every epoch a service holds (`EpochsAreGranted`), no epoch
  is held twice, and a recorded session is never replaced (`RecordsAreKept`). In the
  queue, a delivery that still counts has one holder; a late answer is for a claim
  that no longer is.
- *Presentation.* `ShownInv` counts: every place given lies below its group's
  reservation while the group is reserved, reservations only grow until their last row
  leaves, and what was given never reaches beyond `lastTab`, so the tab a new group
  gets is fresh (`PlacesAreCounted`), and the root tab is never given up; that a
  tab exists, and a least one, follows from
  the finiteness of the foreign tabs. Of an actor that lives, what was archived is of
  an earlier generation (`GenerationsAreArchived`), so its row can always be archived
  when it stops. That a refresh allocates only for the living is `PromptNext`; without
  it section 4 has a finding.
- *Mailbox.* A delivery that is pending is read by present generations or by those a
  team at rest may still revive; replacement, pause, close and re-creation rewrite
  exactly the recipients they make unreachable. The invariant joins the restored
  form of every delivery to the generations of members and the epoch of unfinished
  work (`MailInv`). The proof shows, as the comment in
  `retire_obsolete_team_recipients` has it, that its branch for superseded
  recipients is defence in depth: no reachable state enters it.
- *Archive.* A mutation accepts one message, takes one answer or does neither, so it
  appends at most one event, at the end (`Mails`, `LogIs`). What leaves is closed: a
  request that is over takes all its messages along (`OverLeaves`), a consultation has
  at most one hot answer and leaves with it (`AboutIsSound`, `PairsLeave`). So the
  events of a log are those of its messages on both sides of a cut (`LinksPart`,
  `LinksJoin`), and the counts of the checkpoint follow from the disjointness of the
  keys (`CommitsKeep`). The invariant `ArchiveInv` adds to the parts of the theorems
  that a row is the delivery as it stays (`RowsAreKept`), which rests on `AcceptedOnce`:
  what was retired takes no answer any more; and that a client whose load missed a
  message asks for one that has a row (`ClientIsAnswered`).
- *Sending.* `SendingInv`: the input a message was committed with is recognised in it,
  and so is the one whose answer is recorded. What a retry compares is in the message
  alone, so nothing that becomes of the request in between matters; the message has
  all of it because `--to` was confirmed when it was built and an executor gives no
  `--team` (`BuiltAsAsked`; those who do are a finding of section 4).
- *Schema admission.* `UpgradeInv` says of the disk that what a receipt, a fresh store or a
  marker names is in its directory or still in place, and of every invocation what
  it may still believe at its stage: that a fresh store does not go away (`Watches`),
  that the receipt it read stands (`Remembers`), that what it captured is what was
  confirmed (`Prepares`), and that it has the marker's own plan while it moves files
  (`Moves`). `Apart` lets one invocation at a time move, so what the others believe is
  disturbed by an older process's write only, which `Quiet` keeps out of a move.

*Only model-checked.* Liveness (`RetryCompletes`, `SessionRecovers`, `CommandEnds`,
`ReconciliationEnds`, `OpenedAtLast`, `SentIsAcknowledged`, `EveryMessageIsResolved`),
since TLAPS has no ENABLED and so no fairness. `Restores`, `SummariesFollow` and
`CompletionsAreCreditedOnce` compare a state with a fold or a count over a history:
what such a definition computes for every history needs induction over data, which the
installed provers cannot instantiate. Of `HistoryIsFaithful` what is not proved: that
archived groups are complete, that leases and generations never go back, and that
what messages say is kept.
`ConfigurationIsTrue` is about finite tables that TLC enumerates whole.

## 6. Plan

- Proofs next: the groups and fences of `ArchiveVerifies`; the part of `Restores` that is an invariant between the aggregate and the fold.
- Modelling next: the extension of the fact chain, the base staleness report, the directories of several teams.

## 7. Not modelled

Runtime adapters (arguments of a launch) and the base staleness report (a read-only
view of Git's output); wire formats, JSON schemas and field syntax; the derivation
of identities from the environment; the command line's parsing, initialisation and
output; file permissions and secure file access; quotas on collections; digests,
which are injective here; the power failure of a machine. Git, SQLite, Herdr and the
file system are environment: a transaction is atomic, a call of the backend may fail
or succeed without telling.
