-------------------------- MODULE SchemaAdmission --------------------------
(***************************************************************************)
(* Opening the state directory (agsv-control/src/store.rs).  A database     *)
(* below the supported schema is never converted: it is inspected, and a    *)
(* quiescent one is copied file by file into a preservation directory and   *)
(* removed, under a marker that every later invocation resumes; a receipt   *)
(* takes the marker's place until the fresh store has recorded where the    *)
(* old one went.  No lock is held: invocations interleave at every file     *)
(* operation and may die at any.  A file's bytes are what it holds: those   *)
(* of an older release with the number of its last write, or the stages of  *)
(* a fresh SQLite database (an empty file, a header with its log, tables    *)
(* committed to the log, tables checkpointed).  The shared-memory file goes *)
(* the way of the log.                                                      *)
(***************************************************************************)
EXTENDS Naturals, FiniteSets

CONSTANTS
  Opener, Operator,  \* invocations of normal commands, and of state preserve-subfloor
  MaxClock,          \* milliseconds that are told apart
  MaxWrites,         \* writes of older processes
  MaxCrashes

Process == Opener \cup Operator
Files   == {"wal", "main"}

ASSUME SchemaAssumption == MaxClock \in Nat

VARIABLES
  path,       \* the database files in the state directory
  kept,       \* the preservation directories, by the millisecond that names them
  marker,     \* SCHEMA_PRESERVATION_MARKER
  receipt,    \* SCHEMA_ADMISSION_RECEIPT
  events,     \* the plans of the state.schema_admitted events in the fresh store
  pc, work,   \* the invocations: the next step, and what each remembers
  attached,   \* the files at the path an invocation's connection has open
  shown,      \* the blocker digests refusals have shown
  expired,    \* the horizon has passed since the last activity on record
  present,    \* the backend still has the recorded session
  clock, writes, crashes,
  opened      \* a normal command has opened the store

openVars == <<path, kept, marker, receipt, events, pc, work, attached, shown, expired,
          present, clock, writes, crashes, opened>>

stored == <<path, kept, marker, receipt, events>>
world == <<expired, present, writes>>

Nothing == [is |-> "nothing"]
Old(n, s) == [is |-> "old", write |-> n, status |-> s]
New(s)  == [is |-> s]
NoFiles == [f \in Files |-> Nothing]
NoPlan  == [dir |-> "none"]
NoAdmission == [mode |-> "none"]
NoDirectory == [exists |-> FALSE, files |-> NoFiles]

AtRest == [now |-> 0, plan |-> NoPlan, recovered |-> NoPlan, existed |-> FALSE,
         admission |-> NoAdmission, left |-> {}, confirmed |-> NoFiles]

Existing(files) == {f \in Files : files[f] # Nothing}

\* Files a fresh store consists of.
IsCurrent(files) == \/ files["main"] = New("current")
                    \/ files["main"] = New("header") /\ files["wal"] = New("tables")

\* inspect_existing_schema_version: a file without a header cannot be read, and
\* the version of a header without tables is zero.
SchemaVersion(files) ==
  IF IsCurrent(files) THEN "supported"
  ELSE IF files["main"] = Nothing THEN "absent"
  ELSE IF files["main"] = New("empty") THEN "unreadable" ELSE "older"

\* What the recorded sessions and the controller's marker say, the log's last.
Status(files) == IF files["wal"].is = "old" THEN files["wal"].status
                 ELSE IF files["main"].is = "old" THEN files["main"].status ELSE "quiet"

Blocked(files)  == Status(files) = "controller" \/ (Status(files) = "sessions" /\ ~expired)
Confirmable(files) == Status(files) = "sessions" /\ expired

\* The blocker digest is over the source bytes: it is the files.
Admission(mode, files, now) == [mode |-> mode, digest |-> files, at |-> now]

MakePlan(dir, files, admission) ==
  [dir |-> dir, files |-> Existing(files), source |-> files, admission |-> admission]

\* hydrate_recovered_schema_plan: a marker of an older release has no digests and
\* no admission; both are made up from what is there, with the time of this attempt.
Hydrated(plan, now) ==
  LET found == [f \in Files |-> IF f \notin plan.files THEN Nothing
                                ELSE IF path[f] # Nothing THEN path[f]
                                ELSE kept[plan.dir].files[f]]
  IN IF plan.admission # NoAdmission THEN plan
     ELSE [plan EXCEPT !.source = found, !.admission = Admission("recovered", found, now)]

\* validate_completed_schema_preservation.
Completed(plan) ==
  /\ kept[plan.dir].exists
  /\ IF path["main"] # Nothing THEN SchemaVersion(path) = "supported"
                               ELSE Existing(path) = {}
  /\ \A f \in plan.files : kept[plan.dir].files[f] = plan.source[f]

\* SQLite keeps a file that is unlinked while it is open: what is written to it
\* then is not at the path.
Unlinked(files) == [q \in Process |-> attached[q] \ files]

-----------------------------------------------------------------------------
\* A quiescent, busy or absent older store; or a preservation an older release
\* has begun, which moved the log.
UpgradeInit ==
  /\ \/ /\ path \in {NoFiles} \cup
             {[f \in Files |-> IF f \in fs THEN Old(0, s) ELSE Nothing] :
                fs \in {{"main"}, Files}, s \in {"quiet", "sessions", "controller"}}
        /\ kept = [d \in 0..MaxClock |-> NoDirectory]
        /\ marker = NoPlan
     \/ /\ path = [NoFiles EXCEPT !["main"] = Old(0, "quiet")]
        /\ kept = [d \in 0..MaxClock |-> IF d > 0 THEN NoDirectory ELSE
                     [exists |-> TRUE, files |-> [NoFiles EXCEPT !["wal"] = Old(0, "quiet")]]]
        /\ marker = [dir |-> 0, files |-> Files, source |-> NoFiles, admission |-> NoAdmission]
  /\ receipt = NoPlan /\ events = {}
  /\ pc = [p \in Process |-> "idle"]
  /\ work = [p \in Process |-> AtRest]
  /\ attached = [p \in Process |-> {}]
  /\ shown = {}
  /\ expired = FALSE /\ present = TRUE
  /\ clock = 1 /\ writes = 0 /\ crashes = 0 /\ opened = FALSE

At(p, label)  == pc[p] = label
Goto(p, label) == pc' = [pc EXCEPT ![p] = label]

\* The invocation ends and its connections close: the last one that sees tables in
\* the log checkpoints them into the database and deletes the log.
Checkpoints(p) == /\ attached[p] = Files /\ path["wal"] = New("tables")
                  /\ \A q \in Process \ {p} : "wal" \notin attached[q]
End(p) ==
  /\ Goto(p, "idle")
  /\ work' = [work EXCEPT ![p] = AtRest]
  /\ attached' = [attached EXCEPT ![p] = {}]
  /\ path' = IF Checkpoints(p) THEN [main |-> New("current"), wal |-> Nothing] ELSE path

\* It ends before it has opened the database.
Refuse(p) == End(p) /\ UNCHANGED <<kept, marker, receipt, events>>

Start(p) ==
  /\ At(p, "idle")
  /\ \E t \in {clock, clock + 1} :
       /\ t <= MaxClock /\ clock' = t
       /\ work' = [work EXCEPT ![p].now = t]
  /\ Goto(p, "recover")
  /\ UNCHANGED <<stored, world, attached, shown, crashes, opened>>

\* The operator passes a digest some refusal has shown.
StartOperator(p) ==
  /\ At(p, "idle")
  /\ \E digest \in shown, t \in {clock, clock + 1} :
       /\ t <= MaxClock /\ clock' = t
       /\ work' = [work EXCEPT ![p].now = t, ![p].confirmed = digest]
  /\ Goto(p, "recover")
  /\ UNCHANGED <<stored, world, attached, shown, crashes, opened>>

Die(p) ==
  /\ ~At(p, "idle") /\ crashes < MaxCrashes
  /\ crashes' = crashes + 1
  /\ Goto(p, "idle")
  /\ work' = [work EXCEPT ![p] = AtRest]
  /\ attached' = [attached EXCEPT ![p] = {}]
  /\ UNCHANGED <<stored, world, shown, clock, opened>>

rest == <<shown, clock, crashes, opened>>

\* recover_schema_preservation.
Recover(p) ==
  /\ At(p, "recover")
  /\ IF marker = NoPlan
     THEN Goto(p, "receipt") /\ UNCHANGED work
     ELSE /\ work' = [work EXCEPT ![p].plan = Hydrated(marker, work[p].now)]
          /\ Goto(p, "mkdir")
  /\ UNCHANGED <<stored, world, rest, attached>>

-----------------------------------------------------------------------------
\* A fresh database nothing was created in: recover_empty_fresh_store removes it.
EmptyFresh_File == path["main"].is = "empty"
EmptyFresh == /\ path["main"].is \in {"empty", "header"} /\ ~IsCurrent(path)

ReadReceipt(p) ==
  /\ At(p, "receipt") /\ p \in Opener
  /\ work' = [work EXCEPT ![p].recovered = receipt]
  /\ Goto(p, IF receipt = NoPlan THEN "exists" ELSE "clean")
  /\ UNCHANGED <<stored, world, rest, attached>>

RecoverEmptyFreshStore(p) ==
  /\ At(p, "clean")
  /\ IF EmptyFresh /\ kept[work[p].recovered.dir].files["main"] # Nothing
     THEN path' = NoFiles /\ attached' = Unlinked(Files)
     ELSE UNCHANGED <<path, attached>>
  /\ Goto(p, "validate")
  /\ UNCHANGED <<kept, marker, receipt, events, work, world, rest>>

ValidateReceipt(p) ==
  /\ At(p, "validate")
  /\ IF Completed(work[p].recovered)
     THEN Goto(p, "exists") /\ UNCHANGED <<work, attached, path, kept, marker, receipt, events>>
     ELSE Refuse(p)
  /\ UNCHANGED <<world, rest>>

\* open_with_snapshot_validation: a store of the supported schema is opened, an
\* older one inspected; a schema that cannot be read is refused.
InspectVersion(p) ==
  /\ At(p, "exists")
  /\ IF SchemaVersion(path) = "unreadable"
     THEN Refuse(p)
     ELSE /\ work' = [work EXCEPT ![p].existed = path["main"] # Nothing]
          /\ Goto(p, IF SchemaVersion(path) = "older" THEN "inspect" ELSE "connect")
          /\ UNCHANGED <<path, kept, marker, receipt, events, attached>>
  /\ UNCHANGED <<world, rest>>

\* inspect_legacy_store_admission without a confirmation, on a coherent copy.
InspectStrict(p) ==
  /\ At(p, "inspect")
  /\ IF SchemaVersion(path) # "older" \/ Blocked(path) \/ Confirmable(path)
     THEN Refuse(p) /\ shown' = IF Status(path) = "quiet" THEN shown ELSE shown \cup {path}
     ELSE /\ work' = [work EXCEPT ![p].admission = Admission("strict", path, work[p].now)]
          /\ Goto(p, "capture")
          /\ UNCHANGED <<path, kept, marker, receipt, events, attached, shown>>
  /\ UNCHANGED <<world, clock, crashes, opened>>

-----------------------------------------------------------------------------
\* preserve_subfloor: a receipt answers the operation it is of and refuses others;
\* no database, or one of the supported schema, is refused.
OperatorReceipt(p) ==
  /\ At(p, "receipt") /\ p \in Operator
  /\ IF receipt # NoPlan \/ SchemaVersion(path) # "older"
     THEN Refuse(p)
     ELSE Goto(p, "confirm") /\ UNCHANGED <<path, kept, marker, receipt, events, work, attached>>
  /\ UNCHANGED <<world, rest>>

\* inspect_confirmed_legacy_store_admission, twice: the digest the operator gave is
\* that of the store, and the backend has lost every recorded session.
Confirms(p) == Confirmable(path) /\ work[p].confirmed = path /\ ~present
Shows == IF Confirmable(path) THEN shown \cup {path} ELSE shown

Confirm(p) ==
  /\ At(p, "confirm")
  /\ IF Confirms(p)
     THEN Goto(p, "recheck") /\ UNCHANGED <<path, kept, marker, receipt, events, work, attached>>
     ELSE Refuse(p)
  /\ shown' = Shows
  /\ UNCHANGED <<world, clock, crashes, opened>>

Recheck(p) ==
  /\ At(p, "recheck")
  /\ IF Confirms(p)
     THEN /\ work' = [work EXCEPT ![p].admission = Admission("confirmed", path, work[p].now)]
          /\ Goto(p, "capture")
          /\ UNCHANGED <<path, kept, marker, receipt, events, attached>>
     ELSE Refuse(p)
  /\ shown' = Shows
  /\ UNCHANGED <<world, clock, crashes, opened>>

-----------------------------------------------------------------------------
\* preserve_legacy_store: the bytes are still those that were inspected, and no
\* directory has the name.
Capture_Unchecked(p) ==
  /\ At(p, "capture")
  /\ IF kept[work[p].now].exists
     THEN Refuse(p)
     ELSE /\ work' = [work EXCEPT ![p].plan = MakePlan(work[p].now, path, work[p].admission)]
          /\ Goto(p, "mark")
          /\ UNCHANGED <<path, kept, marker, receipt, events, attached>>
  /\ UNCHANGED <<world, rest>>

Capture(p) ==
  /\ At(p, "capture")
  /\ IF kept[work[p].now].exists \/ path # work[p].admission.digest
     THEN Refuse(p)
     ELSE /\ work' = [work EXCEPT ![p].plan = MakePlan(work[p].now, path, work[p].admission)]
          /\ Goto(p, "mark")
          /\ UNCHANGED <<path, kept, marker, receipt, events, attached>>
  /\ UNCHANGED <<world, rest>>

\* write_schema_preservation_marker: published whole and never over another.
PublishMarker(p) ==
  /\ At(p, "mark")
  /\ IF marker \in {NoPlan, work[p].plan}
     THEN /\ marker' = work[p].plan
          /\ Goto(p, "mkdir")
          /\ UNCHANGED <<path, kept, receipt, events, work, attached>>
     ELSE Refuse(p)
  /\ UNCHANGED <<world, rest>>

\* complete_schema_preservation, up to the copies.

MakeDirectory(p) ==
  /\ At(p, "mkdir")
  /\ kept' = [kept EXCEPT ![work[p].plan.dir].exists = TRUE]
  /\ work' = [work EXCEPT ![p].left = work[p].plan.files]
  /\ Goto(p, "copy")
  /\ UNCHANGED <<path, marker, receipt, events, world, rest, attached>>

\* The order of the files: the log before the database.
First(fs) == IF "wal" \in fs THEN "wal" ELSE "main"

\* One file is copied; what is there already, on either side, is as the plan says.
CopyFile(p) ==
  /\ At(p, "copy")
  /\ LET plan == work[p].plan
         f    == First(work[p].left)
         copy == kept[plan.dir].files[f]
     IN IF \/ path[f] = Nothing /\ copy = Nothing
           \/ \E bytes \in {path[f], copy} : bytes \notin {Nothing, plan.source[f]}
        THEN Refuse(p)
        ELSE /\ kept' = [kept EXCEPT ![plan.dir].files[f] = plan.source[f]]
             /\ IF work[p].left = {f}
                THEN work' = [work EXCEPT ![p].left = plan.files] /\ Goto(p, "verify")
                ELSE work' = [work EXCEPT ![p].left = @ \ {f}] /\ UNCHANGED pc
             /\ UNCHANGED <<path, marker, receipt, events, attached>>
  /\ UNCHANGED <<world, rest>>

\* A source still there is read once more, and then removed.
VerifySource(p) ==
  /\ At(p, "verify")
  /\ LET f == First(work[p].left)
     IN IF path[f] \in {Nothing, work[p].plan.source[f]}
        THEN Goto(p, "unlink") /\ UNCHANGED <<path, kept, marker, receipt, events, work, attached>>
        ELSE Refuse(p)
  /\ UNCHANGED <<world, rest>>

RemoveSource(p) ==
  /\ At(p, "unlink")
  /\ LET f == First(work[p].left)
     IN /\ path' = [path EXCEPT ![f] = Nothing]
        /\ attached' = Unlinked({f})
        /\ events' = IF IsCurrent(path) THEN {} ELSE events
        /\ work' = [work EXCEPT ![p].left = @ \ {f}]
        /\ Goto(p, IF work[p].left = {f} THEN "check" ELSE "verify")
  /\ UNCHANGED <<kept, marker, receipt, world, rest>>

CheckRemoved(p) ==
  /\ At(p, "check")
  /\ IF Existing(path) = {} /\ Completed(work[p].plan)
     THEN Goto(p, "promote") /\ UNCHANGED <<path, kept, marker, receipt, events, work, attached>>
     ELSE Refuse(p)
  /\ UNCHANGED <<world, rest>>

\* promote_schema_preservation_marker: the receipt takes the marker's place, unless
\* either is of another plan.
Compatible(plan) ==
  IF marker = NoPlan THEN receipt # NoPlan
  ELSE marker.dir = plan.dir /\ marker.files = plan.files
       /\ (marker.admission = NoAdmission \/ marker = plan)

Promote(p) ==
  /\ At(p, "promote")
  /\ IF Compatible(work[p].plan) /\ receipt \in {NoPlan, work[p].plan}
     THEN /\ receipt' = work[p].plan
          /\ Goto(p, "unmark")
          /\ UNCHANGED <<path, kept, marker, events, work, attached>>
     ELSE Refuse(p)
  /\ UNCHANGED <<world, rest>>

\* The command that preserved the store ends; a normal one asks to be run again.
RemoveMarker(p) ==
  /\ At(p, "unmark")
  /\ marker' = NoPlan
  /\ End(p)
  /\ UNCHANGED <<kept, receipt, events, world, rest>>

-----------------------------------------------------------------------------
\* connect: the file is created, and switched to a write-ahead log.
Connect(p) ==
  /\ At(p, "connect")
  /\ path' = IF path["main"] = Nothing THEN [path EXCEPT !["main"] = New("empty")] ELSE path
  /\ attached' = [attached EXCEPT ![p] = {"main"}]
  /\ Goto(p, "pragma")
  /\ UNCHANGED <<kept, marker, receipt, events, work, world, rest>>

SwitchToLog(p) ==
  /\ At(p, "pragma")
  /\ LET main == IF "main" \in attached[p] /\ path["main"] = New("empty")
                 THEN New("header") ELSE path["main"]
         wal  == IF path["wal"] = Nothing THEN New("log") ELSE path["wal"]
     IN IF "main" \in attached[p]
        THEN path' = [main |-> main, wal |-> wal] /\ attached' = [attached EXCEPT ![p] = Files]
        ELSE UNCHANGED <<path, attached>>
  /\ Goto(p, IF work[p].existed THEN "load" ELSE "initialize")
  /\ UNCHANGED <<kept, marker, receipt, events, work, world, rest>>

\* initialize_fresh_store: one transaction, which fails if another has done it.
Initialize(p) ==
  /\ At(p, "initialize")
  /\ IF attached[p] = Files /\ IsCurrent(path)
     THEN Refuse(p)
     ELSE /\ path' = IF "wal" \in attached[p] THEN [path EXCEPT !["wal"] = New("tables")] ELSE path
          /\ Goto(p, "load")
          /\ UNCHANGED <<kept, marker, receipt, events, work, attached>>
  /\ UNCHANGED <<world, rest>>

\* load connects anew, by the path, and creates what it does not find there.
Reached == IF path["main"] = Nothing THEN [main |-> New("header"), wal |-> New("log")]
           ELSE IF path["main"] = New("empty") THEN [path EXCEPT !["main"] = New("header")]
           ELSE path

LoadStore(p) ==
  /\ At(p, "load")
  /\ IF IsCurrent(path)
     THEN /\ Goto(p, IF work[p].recovered = NoPlan THEN "done" ELSE "record")
          /\ UNCHANGED <<path, work, attached>>
     ELSE /\ path' = Reached
          /\ Goto(p, "idle")
          /\ work' = [work EXCEPT ![p] = AtRest]
          /\ attached' = [attached EXCEPT ![p] = {}]
  /\ UNCHANGED <<kept, marker, receipt, events, world, rest>>

\* record_schema_admission: the event once, and then the receipt is consumed.
RecordAdmission_Existed(p) ==
  /\ At(p, "record")
  /\ events' = IF work[p].existed THEN events ELSE events \cup {work[p].recovered}
  /\ Goto(p, "clear")
  /\ UNCHANGED <<path, kept, marker, receipt, work, attached, world, rest>>

RecordAdmission(p) ==
  /\ At(p, "record")
  /\ IF IsCurrent(path)
     THEN /\ events' = events \cup {work[p].recovered}
          /\ Goto(p, "clear")
          /\ UNCHANGED <<path, work, attached>>
     ELSE /\ path' = Reached
          /\ Goto(p, "idle")
          /\ work' = [work EXCEPT ![p] = AtRest]
          /\ attached' = [attached EXCEPT ![p] = {}]
          /\ UNCHANGED events
  /\ UNCHANGED <<kept, marker, receipt, world, rest>>

ClearReceipt(p) ==
  /\ At(p, "clear")
  /\ receipt' = NoPlan
  /\ Goto(p, "done")
  /\ UNCHANGED <<path, kept, marker, events, work, attached, world, rest>>

Opened(p) ==
  /\ At(p, "done")
  /\ opened' = TRUE
  /\ End(p)
  /\ UNCHANGED <<kept, marker, receipt, events, world, shown, clock, crashes>>

-----------------------------------------------------------------------------
\* An older process writes to the files it has open and records what it is doing.
OlderWrites ==
  /\ writes < MaxWrites /\ path["main"].is = "old"
  /\ writes' = writes + 1
  /\ \E s \in {"quiet", "sessions", "controller"} :
       path' = [path EXCEPT ![First(Existing(path))] = Old(writes + 1, s)]
  /\ expired' = FALSE
  /\ UNCHANGED <<kept, marker, receipt, events, pc, work, attached, present, rest>>

HorizonPasses == /\ ~expired /\ expired' = TRUE
                 /\ UNCHANGED <<stored, pc, work, attached, present, writes, rest>>
SessionEnds   == /\ present /\ present' = FALSE
                 /\ UNCHANGED <<stored, pc, work, attached, expired, writes, rest>>

Step(p) ==
  \/ Recover(p) \/ ReadReceipt(p) \/ RecoverEmptyFreshStore(p) \/ ValidateReceipt(p)
  \/ InspectVersion(p) \/ InspectStrict(p) \/ OperatorReceipt(p) \/ Confirm(p) \/ Recheck(p)
  \/ Capture(p) \/ PublishMarker(p) \/ MakeDirectory(p) \/ CopyFile(p) \/ VerifySource(p)
  \/ RemoveSource(p) \/ CheckRemoved(p) \/ Promote(p) \/ RemoveMarker(p)
  \/ Connect(p) \/ SwitchToLog(p) \/ Initialize(p) \/ LoadStore(p) \/ RecordAdmission(p)
  \/ ClearReceipt(p) \/ Opened(p)

OpenNext ==
  \/ \E p \in Opener : Start(p)
  \/ \E p \in Operator : StartOperator(p)
  \/ \E p \in Process : Step(p) \/ Die(p)
  \/ OlderWrites \/ HorizonPasses \/ SessionEnds

OpenSpec == UpgradeInit /\ [][OpenNext]_openVars
-----------------------------------------------------------------------------
(***************************************************************************)
(* An upgrade as README.md:93-100 asks for it: one invocation at a time      *)
(* while an older store is being moved, which may die at any step, and no    *)
(* older process that writes once its bytes were captured.  (A resumed       *)
(* preservation of an older release has its receipt published and its marker *)
(* removed by one invocation.)                                              *)
(***************************************************************************)
Busy(ps) == \E p \in ps : pc[p] # "idle"
Serial(p) == (marker # NoPlan \/ path["main"].is = "old") => ~Busy(Process \ {p})

\* Nobody inspects a fresh database another invocation is about to make or remove, or
\* one another is moving, and what a marker names is moved before anything is made.
Preserving == {"inspect", "confirm", "recheck", "capture", "mark", "mkdir", "copy",
               "verify", "unlink", "check", "promote", "unmark"}
Making == {"clean", "connect", "pragma", "initialize", "load", "record"}
Apart ==
  /\ \A p, q \in Process : p # q /\ pc[p] \in Preserving => pc[q] \notin Preserving \cup Making
  /\ marker # NoPlan => \A p \in Process : pc[p] \notin Making

Unmarked == marker = NoPlan /\ \A p \in Process : pc[p] # "mark"
Recovered(p) == pc[p] = "unmark" /\ work[p].plan.admission.mode = "recovered"
Stillborn(p) == pc[p] = "pragma" /\ path["main"] = New("empty")

UpgradeNext ==
  \/ \E p \in Opener : Serial(p) /\ Start(p)
  \/ \E p \in Operator : Serial(p) /\ StartOperator(p)
  \/ \E p \in Process : (Step(p) /\ Apart') \/ (~Recovered(p) /\ ~Stillborn(p) /\ Die(p))
  \/ (Unmarked /\ OlderWrites) \/ HorizonPasses \/ SessionEnds

UpgradeSpec == UpgradeInit /\ [][UpgradeNext]_openVars

\* Commands run again until they succeed, the operator confirms what was shown, and
\* sessions and their leases end.
Fairness ==
  /\ \A p \in Process : WF_openVars(Step(p) /\ Apart')
  /\ \A p \in Opener : SF_openVars(Serial(p) /\ Start(p))
  /\ \A p \in Operator : SF_openVars(Serial(p) /\ StartOperator(p) /\ work'[p].confirmed = path)
  /\ WF_openVars(HorizonPasses) /\ WF_openVars(SessionEnds)

UpgradeFairSpec == UpgradeSpec /\ Fairness

-----------------------------------------------------------------------------
Plans == ({receipt} \cup events) \ {NoPlan}

\* What a receipt or the history of the fresh store says was preserved is there,
\* byte for byte, and a preserved database is on record: in the marker, the receipt
\* or the fresh store (complete_schema_preservation, record_schema_admission).
OldStoreIsKept ==
  /\ \A plan \in Plans : \A f \in plan.files : kept[plan.dir].files[f] = plan.source[f]
  /\ \A d \in DOMAIN kept : kept[d].files["main"] # Nothing =>
       \E plan \in Plans \cup ({marker} \ {NoPlan}) : plan.dir = d

\* Nothing is moved aside while its controller is active, and with sessions on
\* record only the bytes an operator was shown and confirmed: whatever older processes
\* write between the refusal, the two inspections and the copy
\* (preserve_subfloor, preserve_legacy_store).
OnlyConfirmedMoves ==
  \A plan \in Plans \cup ({marker} \ {NoPlan}) : plan.admission # NoAdmission =>
    \/ Status(plan.source) = "quiet"
    \/ /\ Status(plan.source) = "sessions" /\ plan.admission.mode = "confirmed"
       /\ plan.source \in shown /\ ~present

\* A published marker can be resumed (docs/architecture.md:221 "drives resumable
\* preservation"): every file of its plan is at its source or in the directory, and
\* neither has other bytes.
MarkerIsResumable ==
  marker # NoPlan => \A f \in marker.files :
    LET bytes == {path[f], kept[marker.dir].files[f]} \ {Nothing}
    IN bytes # {} /\ (marker.admission # NoAdmission => bytes = {marker.source[f]})

\* Whatever is moved aside is there, byte for byte, as the history of the fresh store
\* says, a published marker can be resumed, and while sessions are on record only bytes
\* an operator was shown and confirmed are moved.
PreservationIsSafe == OldStoreIsKept /\ MarkerIsResumable /\ OnlyConfirmedMoves

\* A command that has opened the store leaves it there for the next.
StoreStays == opened => IsCurrent(path)

\* A command that is run again opens the store in the end, unless an older
\* controller stays active.
OpensAtLast == <>[](Status(path) # "controller") => <>opened
=============================================================================
