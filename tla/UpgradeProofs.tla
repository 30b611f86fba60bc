---------------------------- MODULE UpgradeProofs ----------------------------
(***************************************************************************)
(* No byte of an older store is lost, a published marker can be resumed and *)
(* nothing is moved without its confirmation, for any number of             *)
(* invocations, deaths, writes of older processes and milliseconds          *)
(* (SchemaAdmission).                                                      *)
(***************************************************************************)
EXTENDS SchemaAdmission, TLAPS

-----------------------------------------------------------------------------
(* Types.                                                                  *)

Byte == {Nothing} \cup {New(s) : s \in {"empty", "header", "current", "log", "tables"}}
        \cup {Old(n, s) : n \in Nat, s \in {"quiet", "sessions", "controller"}}
Bytes == [Files -> Byte]
Instant == 0 .. MaxClock
Permission == [mode : {"strict", "confirmed", "recovered"}, digest : Bytes, at : Instant]
Plan == [dir : Instant, files : SUBSET Files, source : Bytes,
         admission : Permission \cup {NoAdmission}]
Memory == [now : Instant, plan : Plan \cup {NoPlan}, recovered : Plan \cup {NoPlan},
           existed : BOOLEAN, admission : Permission \cup {NoAdmission},
           left : SUBSET Files, confirmed : Bytes]
Label == {"idle", "recover", "receipt", "validate", "exists", "clear", "done"}
         \cup Preserving \cup Making

DiskTyped ==
  /\ path \in Bytes
  /\ kept \in [Instant -> [exists : BOOLEAN, files : Bytes]]
  /\ marker \in Plan \cup {NoPlan} /\ receipt \in Plan \cup {NoPlan}
  /\ events \subseteq Plan
WorkTyped ==
  /\ pc \in [Process -> Label] /\ work \in [Process -> Memory]
  /\ attached \in [Process -> SUBSET Files]
WorldTyped ==
  /\ shown \subseteq Bytes /\ expired \in BOOLEAN /\ present \in BOOLEAN
  /\ clock \in Nat /\ writes \in Nat /\ MaxClock \in Nat
Typed == DiskTyped /\ WorkTyped /\ WorldTyped

-----------------------------------------------------------------------------
(* The inductive invariant.                                                *)

\* The stages after the marker, and those after the copies.
Moving == {"mkdir", "copy", "verify", "unlink", "check", "promote", "unmark"}
Copied == Moving \ {"mkdir", "copy"}
\* The stages with a connection.
Connected == {"pragma", "initialize", "load", "record", "clear", "done"}

IsKept(plan, f) == plan.source[f] # Nothing /\ kept[plan.dir].files[f] = plan.source[f]
Kept(plan) == \A f \in plan.files : IsKept(plan, f)

\* Who allowed these bytes to be moved.
Admitted(mode, files) ==
  \/ Status(files) = "quiet"
  \/ Status(files) = "sessions" /\ mode = "confirmed" /\ files \in shown /\ ~present
Justified(plan) ==
  plan.admission # NoAdmission => Admitted(plan.admission.mode, plan.source)

\* An older release asked nobody: it moved what was quiet.
QuietFiles(files) == \A f \in Files : files[f] \in {Nothing, Old(0, "quiet")}

DirectoriesAgree ==
  /\ \A d \in Instant : ~kept[d].exists => kept[d].files = NoFiles
  /\ \A d \in Instant : kept[d].files["main"] # Nothing =>
       \E plan \in Plans \cup ({marker} \ {NoPlan}) : plan.dir = d

RecordsAreSound == \A plan \in Plans : Kept(plan) /\ Justified(plan)

MarkerIsSound ==
  marker # NoPlan =>
    /\ ~IsCurrent(path) /\ "main" \in marker.files /\ Justified(marker)
    /\ marker.admission = NoAdmission =>
         QuietFiles(path) /\ QuietFiles(kept[marker.dir].files)

\* A fresh store stays once it is made.
Watches(q) ==
  /\ pc[q] \in Preserving => ~IsCurrent(path)
  /\ pc[q] \in {"clear", "done"} => IsCurrent(path)
  /\ attached[q] # {} => pc[q] \in Connected

\* The receipt an invocation has read stays, until the fresh store has it on record.
Remembers(q) ==
  LET r == work[q].recovered IN
  /\ r # NoPlan => /\ Kept(r) /\ Justified(r)
                   /\ receipt = r \/ (receipt = NoPlan /\ IsCurrent(path))
  /\ pc[q] \in {"record", "clear"} => r # NoPlan
  /\ pc[q] = "clear" => r \in events

Prepares(q) ==
  /\ pc[q] \in {"inspect", "confirm", "recheck", "capture", "mark"} => path["main"] # Nothing
  /\ pc[q] = "capture" =>
       LET a == work[q].admission IN a # NoAdmission /\ Admitted(a.mode, a.digest)
  /\ pc[q] = "mark" =>
       LET plan == work[q].plan IN
       /\ plan # NoPlan /\ plan.admission # NoAdmission /\ Justified(plan)
       /\ plan.source = path /\ plan.files = Existing(path) /\ "main" \in plan.files
       /\ ~kept[plan.dir].exists

\* An invocation that moves a store has what the marker says.
Moves(q) ==
  pc[q] \in Moving =>
    LET plan == work[q].plan IN
    /\ marker # NoPlan /\ plan # NoPlan
    /\ plan.dir = marker.dir /\ plan.files = marker.files
    /\ plan.admission # NoAdmission /\ Justified(plan)
    /\ IF marker.admission = NoAdmission THEN QuietFiles(plan.source) ELSE plan = marker
    /\ \A f \in plan.files : plan.source[f] # Nothing
    /\ pc[q] # "mkdir" => kept[plan.dir].exists
    /\ pc[q] \in {"copy", "verify", "unlink"} =>
         work[q].left # {} /\ work[q].left \subseteq plan.files
    /\ pc[q] = "copy" => \A f \in plan.files \ work[q].left : IsKept(plan, f)
    /\ pc[q] \in Copied => Kept(plan)
    /\ pc[q] = "unmark" => receipt = plan

Stage(q) == Watches(q) /\ Remembers(q) /\ Prepares(q) /\ Moves(q)

DiskInv == DirectoriesAgree /\ RecordsAreSound /\ MarkerIsSound /\ MarkerIsResumable

UpgradeInv == Typed /\ Apart /\ DiskInv /\ \A q \in Process : Stage(q)

-----------------------------------------------------------------------------
(* Values.                                                                 *)

LEMMA SomePlan == NoPlan \notin Plan
  BY DEF NoPlan, Plan

LEMMA SomePermission == NoAdmission \notin Permission
  BY DEF NoAdmission, Permission

LEMMA NothingIsAByte == Nothing \in Byte /\ NoFiles \in Bytes
  BY DEF Byte, Bytes, NoFiles

LEMMA NewIsAByte ==
  ASSUME NEW s \in {"empty", "header", "current", "log", "tables"}
  PROVE  New(s) \in Byte /\ New(s) # Nothing /\ New(s).is = s
  BY DEF Byte, New, Nothing

LEMMA OldIsAByte ==
  ASSUME NEW n \in Nat, NEW s \in {"quiet", "sessions", "controller"}
  PROVE  Old(n, s) \in Byte /\ Old(n, s) # Nothing /\ Old(n, s).is = "old"
  BY DEF Byte, Old, Nothing

LEMMA ByteIs ==
  ASSUME NEW b \in Byte
  PROVE  /\ b = Nothing <=> b.is = "nothing"
         /\ b.is = "old" => b.status \in {"quiet", "sessions", "controller"}
  BY DEF Byte, Nothing, New, Old

LEMMA TwoFiles ==
  ASSUME NEW a \in Byte, NEW b \in Byte
  PROVE  LET files == [main |-> a, wal |-> b] IN
         files \in Bytes /\ files["main"] = a /\ files["wal"] = b
  BY DEF Bytes, Files

LEMMA StatusIs ==
  ASSUME NEW files \in Bytes
  PROVE  Status(files) \in {"quiet", "sessions", "controller"}
  BY ByteIs DEF Status, Bytes, Files

LEMMA FirstIs ==
  ASSUME NEW fs \in SUBSET Files, fs # {}
  PROVE  First(fs) \in fs
  BY DEF First, Files

LEMMA HydratedIs ==
  ASSUME DiskTyped, NEW plan \in Plan, NEW now \in Instant
  PROVE  LET whole == Hydrated(plan, now) IN
         /\ whole \in Plan /\ whole.dir = plan.dir /\ whole.files = plan.files
         /\ whole.admission # NoAdmission
         /\ plan.admission # NoAdmission => whole = plan
         /\ plan.admission = NoAdmission =>
              /\ whole.admission.mode = "recovered"
              /\ \A f \in Files : whole.source[f] =
                   IF f \notin plan.files THEN Nothing
                   ELSE IF path[f] # Nothing THEN path[f] ELSE kept[plan.dir].files[f]
  <1> DEFINE found == [f \in Files |-> IF f \notin plan.files THEN Nothing
                                ELSE IF path[f] # Nothing THEN path[f]
                                ELSE kept[plan.dir].files[f]]
             a == Admission("recovered", found, now)
  <1>1. found \in Bytes
    BY NothingIsAByte DEF DiskTyped, Plan, Bytes
  <1>2. a \in Permission /\ a.mode = "recovered"
    BY <1>1 DEF Permission, Admission
  <1>3. Hydrated(plan, now) = IF plan.admission # NoAdmission THEN plan
                              ELSE [plan EXCEPT !.source = found, !.admission = a]
    BY DEF Hydrated
  <1> HIDE DEF a
  <1>4. CASE plan.admission # NoAdmission
    BY <1>3, <1>4
  <1>5. CASE plan.admission = NoAdmission
    <2> DEFINE whole == [plan EXCEPT !.source = found, !.admission = a]
    <2>1. /\ whole \in Plan /\ whole.dir = plan.dir /\ whole.files = plan.files
          /\ whole.admission = a /\ whole.source = found
      <3> HIDE DEF found
      <3>1. QED BY <1>1, <1>2 DEF Plan
    <2>2. QED BY <1>2, <1>3, <1>5, <2>1, SomePermission
  <1>6. QED BY <1>4, <1>5

-----------------------------------------------------------------------------
(* What a step of one invocation leaves to the others.                     *)

\* p is at the stage l next, the others are where they were.
LEMMA GoesTo ==
  ASSUME WorkTyped, NEW p \in Process, NEW l \in Label, Goto(p, l)
  PROVE  /\ pc' \in [Process -> Label] /\ pc'[p] = l
         /\ \A q \in Process \ {p} : pc'[q] = pc[q]
  BY DEF WorkTyped, Goto

Alone(p) ==
  /\ pc' \in [Process -> Label] /\ work' \in [Process -> Memory]
  /\ attached' \in [Process -> SUBSET Files]
  /\ \A q \in Process \ {p} : /\ pc'[q] = pc[q] /\ work'[q] = work[q]
                              /\ attached'[q] \subseteq attached[q]

LEMMA IdleIsTyped == Typed => AtRest \in Memory
  <1> SUFFICES ASSUME Typed PROVE AtRest \in Memory
    OBVIOUS
  <1> QED BY NothingIsAByte DEF AtRest, Memory, Instant, Typed, WorldTyped

LEMMA EndLeaves ==
  ASSUME Typed, NEW p \in Process, End(p)
  PROVE  /\ Alone(p) /\ pc'[p] = "idle" /\ work'[p] = AtRest /\ attached'[p] = {}
         /\ path' \in Bytes /\ (attached[p] = {} => path' = path)
         /\ IsCurrent(path) => IsCurrent(path')
  <1>1. pc' \in [Process -> Label] /\ pc'[p] = "idle" /\ \A q \in Process \ {p} : pc'[q] = pc[q]
    BY GoesTo DEF End, Typed, Label
  <1>2. /\ work' \in [Process -> Memory] /\ work'[p] = AtRest
        /\ \A q \in Process \ {p} : work'[q] = work[q]
    BY IdleIsTyped DEF End, Typed, WorkTyped
  <1>3. /\ attached' \in [Process -> SUBSET Files] /\ attached'[p] = {}
        /\ \A q \in Process \ {p} : attached'[q] = attached[q]
    BY DEF End, Typed, WorkTyped
  <1>4. attached[p] = {} => path' = path
    BY DEF End, Checkpoints, Files
  <1>5. CASE Checkpoints(p)
    <2> DEFINE fresh == [main |-> New("current"), wal |-> Nothing]
    <2>1. path' = fresh
      BY <1>5 DEF End
    <2>2. fresh \in Bytes /\ fresh["main"] = New("current")
      BY TwoFiles, NewIsAByte, NothingIsAByte
    <2>3. IsCurrent(path')
      BY <2>1, <2>2 DEF IsCurrent
    <2>4. QED BY <1>1, <1>2, <1>3, <1>4, <2>1, <2>2, <2>3 DEF Alone
  <1>6. CASE ~Checkpoints(p)
    <2>1. path' = path
      BY <1>6 DEF End
    <2>2. QED BY <1>1, <1>2, <1>3, <2>1 DEF Alone, Typed, DiskTyped
  <1>7. QED BY <1>5, <1>6

\* An invocation that only goes on and notes something.
LEMMA NotesIt ==
  ASSUME Typed, NEW p \in Process, NEW l \in Label, Goto(p, l),
         NEW w \in Memory, work' = [work EXCEPT ![p] = w], UNCHANGED attached
  PROVE  Alone(p) /\ pc'[p] = l /\ work'[p] = w
  BY GoesTo DEF Typed, WorkTyped, Alone

LEMMA GoesOn ==
  ASSUME Typed, NEW p \in Process, NEW l \in Label, Goto(p, l), UNCHANGED work,
         attached' \in [Process -> SUBSET Files],
         \A q \in Process : attached'[q] \subseteq attached[q]
  PROVE  Alone(p) /\ pc'[p] = l /\ work'[p] = work[p]
  BY GoesTo DEF Typed, WorkTyped, Alone

LEMMA UnlinkedIs ==
  ASSUME Typed, NEW fs
  PROVE  /\ Unlinked(fs) \in [Process -> SUBSET Files]
         /\ \A q \in Process : Unlinked(fs)[q] \subseteq attached[q]
  BY DEF Unlinked, Typed, WorkTyped

\* Every step of p keeps the types and is p's alone.
StepIsTyped(p) == Alone(p) /\ DiskTyped' /\ WorldTyped'

LEMMA RefuseIsTyped ==
  ASSUME Typed, NEW p \in Process, Refuse(p)
  PROVE  Alone(p) /\ DiskTyped'
  BY EndLeaves DEF Refuse, Typed, DiskTyped

LEMMA RecoverTyped ==
  ASSUME Typed, NEW p \in Process, Recover(p)
  PROVE  StepIsTyped(p)
  <1> USE DEF Recover, stored, world, rest, StepIsTyped
  <1>1. DiskTyped' /\ WorldTyped'
    BY DEF Typed, DiskTyped, WorldTyped
  <1>2. CASE marker = NoPlan
    BY <1>1, <1>2, GoesOn DEF Typed, WorkTyped, Label
  <1>3. CASE marker # NoPlan
    <2> DEFINE whole == Hydrated(marker, work[p].now)
               w == [work[p] EXCEPT !.plan = whole]
    <2>1. whole \in Plan
      BY <1>3, HydratedIs DEF Typed, DiskTyped, WorkTyped, Memory
    <2>2. w \in Memory
      BY <2>1 DEF Typed, WorkTyped, Memory
    <2>3. work' = [work EXCEPT ![p] = w]
      BY <1>3 DEF Typed, WorkTyped
    <2> HIDE DEF w
    <2>4. QED BY <1>1, <1>3, <2>2, <2>3, NotesIt DEF Label, Making, Preserving
  <1>4. QED BY <1>2, <1>3

LEMMA ReadReceiptTyped ==
  ASSUME Typed, NEW p \in Process, ReadReceipt(p)
  PROVE  StepIsTyped(p)
  <1> DEFINE w == [work[p] EXCEPT !.recovered = receipt]
             l == IF receipt = NoPlan THEN "exists" ELSE "clean"
  <1>1. w \in Memory
    BY DEF Typed, DiskTyped, WorkTyped, Memory
  <1>2. work' = [work EXCEPT ![p] = w] /\ Goto(p, l) /\ UNCHANGED <<stored, world, rest, attached>>
    BY DEF ReadReceipt, Typed, WorkTyped
  <1>3. l \in Label
    BY DEF Label, Making
  <1> HIDE DEF w, l
  <1>4. Alone(p)
    BY <1>1, <1>2, <1>3, NotesIt
  <1>5. QED
    BY <1>2, <1>4 DEF StepIsTyped, Typed, DiskTyped, WorldTyped, stored, world, rest

LEMMA RecoverEmptyTyped ==
  ASSUME Typed, NEW p \in Process, RecoverEmptyFreshStore(p)
  PROVE  StepIsTyped(p)
  <1>1. path' \in Bytes /\ attached' \in [Process -> SUBSET Files]
        /\ \A q \in Process : attached'[q] \subseteq attached[q]
    BY UnlinkedIs, NothingIsAByte
    DEF RecoverEmptyFreshStore, Typed, DiskTyped, WorkTyped
  <1>2. Goto(p, "validate") /\ UNCHANGED <<kept, marker, receipt, events, work, world, rest>>
    BY DEF RecoverEmptyFreshStore
  <1>3. Alone(p)
    BY <1>1, <1>2, GoesOn DEF Label
  <1>4. QED
    BY <1>1, <1>2, <1>3 DEF StepIsTyped, Typed, DiskTyped, WorldTyped, world, rest

LEMMA ValidateTyped ==
  ASSUME Typed, NEW p \in Process, ValidateReceipt(p)
  PROVE  StepIsTyped(p)
  <1>1. WorldTyped'
    BY DEF ValidateReceipt, Typed, WorldTyped, world, rest
  <1>2. CASE Completed(work[p].recovered)
    <2>1. Goto(p, "exists") /\ UNCHANGED <<work, attached, path, kept, marker, receipt, events>>
      BY <1>2 DEF ValidateReceipt
    <2>2. Alone(p)
      BY <2>1, GoesOn DEF Label, Typed, WorkTyped
    <2>3. QED BY <1>1, <2>1, <2>2 DEF StepIsTyped, Typed, DiskTyped
  <1>3. CASE ~Completed(work[p].recovered)
    BY <1>1, <1>3, RefuseIsTyped DEF ValidateReceipt, StepIsTyped
  <1>4. QED BY <1>2, <1>3

LEMMA InspectVersionTyped ==
  ASSUME Typed, NEW p \in Process, InspectVersion(p)
  PROVE  StepIsTyped(p)
  <1>1. WorldTyped'
    BY DEF InspectVersion, Typed, WorldTyped, world, rest
  <1>2. CASE SchemaVersion(path) = "unreadable"
    BY <1>1, <1>2, RefuseIsTyped DEF InspectVersion, StepIsTyped
  <1>3. CASE SchemaVersion(path) # "unreadable"
    <2> DEFINE w == [work[p] EXCEPT !.existed = path["main"] # Nothing]
               l == IF SchemaVersion(path) = "older" THEN "inspect" ELSE "connect"
    <2>1. w \in Memory /\ l \in Label
      BY DEF Typed, WorkTyped, Memory, Label, Making, Preserving
    <2>2. /\ work' = [work EXCEPT ![p] = w] /\ Goto(p, l)
          /\ UNCHANGED <<path, kept, marker, receipt, events, attached>>
      BY <1>3 DEF InspectVersion, Typed, WorkTyped
    <2> HIDE DEF w, l
    <2>3. Alone(p)
      BY <2>1, <2>2, NotesIt
    <2>4. QED BY <1>1, <2>2, <2>3 DEF StepIsTyped, Typed, DiskTyped
  <1>4. QED BY <1>2, <1>3

LEMMA InspectStrictTyped ==
  ASSUME Typed, NEW p \in Process, InspectStrict(p)
  PROVE  StepIsTyped(p)
  <1>1. WorldTyped'
    BY DEF InspectStrict, Typed, WorldTyped, DiskTyped, world, rest
  <1>2. CASE SchemaVersion(path) # "older" \/ Blocked(path) \/ Confirmable(path)
    BY <1>1, <1>2, RefuseIsTyped DEF InspectStrict, StepIsTyped
  <1>3. CASE ~(SchemaVersion(path) # "older" \/ Blocked(path) \/ Confirmable(path))
    <2> DEFINE a == Admission("strict", path, work[p].now)
               w == [work[p] EXCEPT !.admission = a]
    <2>1. a \in Permission
      BY DEF Typed, DiskTyped, WorkTyped, Memory, Permission, Admission
    <2>2. w \in Memory
      BY <2>1 DEF Typed, WorkTyped, Memory
    <2>3. /\ work' = [work EXCEPT ![p] = w] /\ Goto(p, "capture")
          /\ UNCHANGED <<path, kept, marker, receipt, events, attached>>
      BY <1>3 DEF InspectStrict, Typed, WorkTyped
    <2> HIDE DEF w
    <2>4. Alone(p)
      BY <2>2, <2>3, NotesIt DEF Label, Preserving
    <2>5. QED BY <1>1, <2>3, <2>4 DEF StepIsTyped, Typed, DiskTyped
  <1>4. QED BY <1>2, <1>3

LEMMA OperatorReceiptTyped ==
  ASSUME Typed, NEW p \in Process, OperatorReceipt(p)
  PROVE  StepIsTyped(p)
  <1>1. WorldTyped'
    BY DEF OperatorReceipt, Typed, WorldTyped, world, rest
  <1>2. CASE receipt # NoPlan \/ SchemaVersion(path) # "older"
    BY <1>1, <1>2, RefuseIsTyped DEF OperatorReceipt, StepIsTyped
  <1>3. CASE ~(receipt # NoPlan \/ SchemaVersion(path) # "older")
    <2>1. Goto(p, "confirm") /\ UNCHANGED <<path, kept, marker, receipt, events, work, attached>>
      BY <1>3 DEF OperatorReceipt
    <2>2. Alone(p)
      BY <2>1, GoesOn DEF Label, Preserving, Typed, WorkTyped
    <2>3. QED BY <1>1, <2>1, <2>2 DEF StepIsTyped, Typed, DiskTyped
  <1>4. QED BY <1>2, <1>3

LEMMA ConfirmTyped ==
  ASSUME Typed, NEW p \in Process, Confirm(p)
  PROVE  StepIsTyped(p)
  <1>1. WorldTyped'
    BY DEF Confirm, Shows, Typed, WorldTyped, DiskTyped, world
  <1>2. CASE Confirms(p)
    <2>1. Goto(p, "recheck") /\ UNCHANGED <<path, kept, marker, receipt, events, work, attached>>
      BY <1>2 DEF Confirm
    <2>2. Alone(p)
      BY <2>1, GoesOn DEF Label, Preserving, Typed, WorkTyped
    <2>3. QED BY <1>1, <2>1, <2>2 DEF StepIsTyped, Typed, DiskTyped
  <1>3. CASE ~Confirms(p)
    BY <1>1, <1>3, RefuseIsTyped DEF Confirm, StepIsTyped
  <1>4. QED BY <1>2, <1>3

LEMMA RecheckTyped ==
  ASSUME Typed, NEW p \in Process, Recheck(p)
  PROVE  StepIsTyped(p)
  <1>1. WorldTyped'
    BY DEF Recheck, Shows, Typed, WorldTyped, DiskTyped, world
  <1>2. CASE Confirms(p)
    <2> DEFINE a == Admission("confirmed", path, work[p].now)
               w == [work[p] EXCEPT !.admission = a]
    <2>1. a \in Permission
      BY DEF Typed, DiskTyped, WorkTyped, Memory, Permission, Admission
    <2>2. w \in Memory
      BY <2>1 DEF Typed, WorkTyped, Memory
    <2>3. /\ work' = [work EXCEPT ![p] = w] /\ Goto(p, "capture")
          /\ UNCHANGED <<path, kept, marker, receipt, events, attached>>
      BY <1>2 DEF Recheck, Typed, WorkTyped
    <2> HIDE DEF w
    <2>4. Alone(p)
      BY <2>2, <2>3, NotesIt DEF Label, Preserving
    <2>5. QED BY <1>1, <2>3, <2>4 DEF StepIsTyped, Typed, DiskTyped
  <1>3. CASE ~Confirms(p)
    BY <1>1, <1>3, RefuseIsTyped DEF Recheck, StepIsTyped
  <1>4. QED BY <1>2, <1>3

LEMMA CaptureTyped ==
  ASSUME Typed, NEW p \in Process, Capture(p)
  PROVE  StepIsTyped(p)
  <1>1. WorldTyped'
    BY DEF Capture, Typed, WorldTyped, world, rest
  <1>2. CASE kept[work[p].now].exists \/ path # work[p].admission.digest
    BY <1>1, <1>2, RefuseIsTyped DEF Capture, StepIsTyped
  <1>3. CASE ~(kept[work[p].now].exists \/ path # work[p].admission.digest)
    <2> DEFINE plan == MakePlan(work[p].now, path, work[p].admission)
               w == [work[p] EXCEPT !.plan = plan]
    <2>1. plan \in Plan
      BY DEF Typed, DiskTyped, WorkTyped, Memory, Plan, MakePlan, Existing
    <2>2. w \in Memory
      BY <2>1 DEF Typed, WorkTyped, Memory
    <2>3. /\ work' = [work EXCEPT ![p] = w] /\ Goto(p, "mark")
          /\ UNCHANGED <<path, kept, marker, receipt, events, attached>>
      BY <1>3 DEF Capture, Typed, WorkTyped
    <2> HIDE DEF w
    <2>4. Alone(p)
      BY <2>2, <2>3, NotesIt DEF Label, Preserving
    <2>5. QED BY <1>1, <2>3, <2>4 DEF StepIsTyped, Typed, DiskTyped
  <1>4. QED BY <1>2, <1>3

LEMMA PublishTyped ==
  ASSUME Typed, NEW p \in Process, PublishMarker(p)
  PROVE  StepIsTyped(p)
  <1>1. WorldTyped'
    BY DEF PublishMarker, Typed, WorldTyped, world, rest
  <1>2. CASE marker \in {NoPlan, work[p].plan}
    <2>1. /\ Goto(p, "mkdir") /\ marker' = work[p].plan
          /\ UNCHANGED <<path, kept, receipt, events, work, attached>>
      BY <1>2 DEF PublishMarker
    <2>2. Alone(p)
      BY <2>1, GoesOn DEF Label, Preserving, Typed, WorkTyped
    <2>3. work[p].plan \in Plan \cup {NoPlan}
      BY DEF Typed, WorkTyped, Memory
    <2>4. QED BY <1>1, <2>1, <2>2, <2>3 DEF StepIsTyped, Typed, DiskTyped
  <1>3. CASE marker \notin {NoPlan, work[p].plan}
    BY <1>1, <1>3, RefuseIsTyped DEF PublishMarker, StepIsTyped
  <1>4. QED BY <1>2, <1>3

LEMMA MakeDirectoryTyped ==
  ASSUME Typed, NEW p \in Process, MakeDirectory(p), work[p].plan \in Plan
  PROVE  StepIsTyped(p)
  <1> DEFINE w == [work[p] EXCEPT !.left = work[p].plan.files]
  <1>1. w \in Memory
    BY DEF Typed, WorkTyped, Memory, Plan
  <1>2. /\ work' = [work EXCEPT ![p] = w] /\ Goto(p, "copy")
        /\ UNCHANGED <<path, marker, receipt, events, world, rest, attached>>
    BY DEF MakeDirectory, Typed, WorkTyped
  <1> HIDE DEF w
  <1>3. Alone(p)
    BY <1>1, <1>2, NotesIt DEF Label, Preserving
  <1>4. kept' \in [Instant -> [exists : BOOLEAN, files : Bytes]]
    BY DEF MakeDirectory, Typed, DiskTyped
  <1>5. QED
    BY <1>2, <1>3, <1>4 DEF StepIsTyped, Typed, DiskTyped, WorldTyped, world, rest

LEMMA CopyTyped ==
  ASSUME Typed, NEW p \in Process, CopyFile(p), work[p].plan \in Plan
  PROVE  StepIsTyped(p)
  <1> DEFINE plan == work[p].plan
             f == First(work[p].left)
             copy == kept[plan.dir].files[f]
             bad == \/ path[f] = Nothing /\ copy = Nothing
                    \/ \E bytes \in {path[f], copy} : bytes \notin {Nothing, plan.source[f]}
  <1>1. WorldTyped'
    BY DEF CopyFile, Typed, WorldTyped, world, rest
  <1>2. CASE bad
    BY <1>1, <1>2, RefuseIsTyped DEF CopyFile, StepIsTyped
  <1>3. CASE ~bad
    <2>1. /\ kept' = [kept EXCEPT ![plan.dir].files[f] = plan.source[f]]
          /\ IF work[p].left = {f}
             THEN work' = [work EXCEPT ![p].left = plan.files] /\ Goto(p, "verify")
             ELSE work' = [work EXCEPT ![p].left = @ \ {f}] /\ UNCHANGED pc
          /\ UNCHANGED <<path, marker, receipt, events, attached>>
      BY <1>3 DEF CopyFile
    <2> DEFINE left == IF work[p].left = {f} THEN plan.files ELSE work[p].left \ {f}
               l == IF work[p].left = {f} THEN "verify" ELSE pc[p]
               w == [work[p] EXCEPT !.left = left]
    <2>2. left \in SUBSET Files /\ l \in Label
      BY DEF Typed, WorkTyped, Memory, Plan, Label, Preserving
    <2>3. w \in Memory
      BY <2>2 DEF Typed, WorkTyped, Memory
    <2>4. work' = [work EXCEPT ![p] = w] /\ Goto(p, l)
      BY <2>1 DEF Typed, WorkTyped, Goto
    <2>5. kept' \in [Instant -> [exists : BOOLEAN, files : Bytes]]
      BY <2>1 DEF Typed, DiskTyped, Plan, Bytes, First, Files
    <2> HIDE DEF w, l
    <2>6. Alone(p)
      BY <2>1, <2>2, <2>3, <2>4, NotesIt
    <2>7. QED BY <1>1, <2>1, <2>5, <2>6 DEF StepIsTyped, Typed, DiskTyped
  <1>4. QED BY <1>2, <1>3

LEMMA VerifyTyped ==
  ASSUME Typed, NEW p \in Process, VerifySource(p)
  PROVE  StepIsTyped(p)
  <1> DEFINE same == path[First(work[p].left)] \in {Nothing, work[p].plan.source[First(work[p].left)]}
  <1>1. WorldTyped'
    BY DEF VerifySource, Typed, WorldTyped, world, rest
  <1>2. CASE same
    <2>1. Goto(p, "unlink") /\ UNCHANGED <<path, kept, marker, receipt, events, work, attached>>
      BY <1>2 DEF VerifySource
    <2>2. Alone(p)
      BY <2>1, GoesOn DEF Label, Preserving, Typed, WorkTyped
    <2>3. QED BY <1>1, <2>1, <2>2 DEF StepIsTyped, Typed, DiskTyped
  <1>3. CASE ~same
    BY <1>1, <1>3, RefuseIsTyped DEF VerifySource, StepIsTyped
  <1>4. QED BY <1>2, <1>3

LEMMA RemoveSourceTyped ==
  ASSUME Typed, NEW p \in Process, RemoveSource(p)
  PROVE  StepIsTyped(p)
  <1> DEFINE f == First(work[p].left)
             l == IF work[p].left = {f} THEN "check" ELSE "verify"
             w == [work[p] EXCEPT !.left = @ \ {f}]
  <1>1. w \in Memory /\ l \in Label
    BY DEF Typed, WorkTyped, Memory, Label, Preserving
  <1>2. /\ work' = [work EXCEPT ![p] = w] /\ Goto(p, l) /\ attached' = Unlinked({f})
        /\ UNCHANGED <<kept, marker, receipt, world, rest>>
    BY DEF RemoveSource, Typed, WorkTyped
  <1>3. path' \in Bytes /\ events' \subseteq Plan
    BY NothingIsAByte DEF RemoveSource, Typed, DiskTyped, Bytes
  <1> HIDE DEF w, l, f
  <1>4. Alone(p)
    BY <1>1, <1>2, GoesTo, UnlinkedIs DEF Typed, WorkTyped, Alone
  <1>5. QED
    BY <1>2, <1>3, <1>4 DEF StepIsTyped, Typed, DiskTyped, WorldTyped, world, rest

LEMMA CheckTyped ==
  ASSUME Typed, NEW p \in Process, CheckRemoved(p)
  PROVE  StepIsTyped(p)
  <1> DEFINE done == Existing(path) = {} /\ Completed(work[p].plan)
  <1>1. WorldTyped'
    BY DEF CheckRemoved, Typed, WorldTyped, world, rest
  <1>2. CASE done
    <2>1. Goto(p, "promote") /\ UNCHANGED <<path, kept, marker, receipt, events, work, attached>>
      BY <1>2 DEF CheckRemoved
    <2>2. Alone(p)
      BY <2>1, GoesOn DEF Label, Preserving, Typed, WorkTyped
    <2>3. QED BY <1>1, <2>1, <2>2 DEF StepIsTyped, Typed, DiskTyped
  <1>3. CASE ~done
    BY <1>1, <1>3, RefuseIsTyped DEF CheckRemoved, StepIsTyped
  <1>4. QED BY <1>2, <1>3

LEMMA PromoteTyped ==
  ASSUME Typed, NEW p \in Process, Promote(p)
  PROVE  StepIsTyped(p)
  <1> DEFINE agrees == Compatible(work[p].plan) /\ receipt \in {NoPlan, work[p].plan}
  <1>1. WorldTyped'
    BY DEF Promote, Typed, WorldTyped, world, rest
  <1>2. CASE agrees
    <2>1. /\ Goto(p, "unmark") /\ receipt' = work[p].plan
          /\ UNCHANGED <<path, kept, marker, events, work, attached>>
      BY <1>2 DEF Promote
    <2>2. Alone(p)
      BY <2>1, GoesOn DEF Label, Preserving, Typed, WorkTyped
    <2>3. work[p].plan \in Plan \cup {NoPlan}
      BY DEF Typed, WorkTyped, Memory
    <2>4. QED BY <1>1, <2>1, <2>2, <2>3 DEF StepIsTyped, Typed, DiskTyped
  <1>3. CASE ~agrees
    BY <1>1, <1>3, RefuseIsTyped DEF Promote, StepIsTyped
  <1>4. QED BY <1>2, <1>3

LEMMA RemoveMarkerTyped ==
  ASSUME Typed, NEW p \in Process, RemoveMarker(p)
  PROVE  StepIsTyped(p)
  BY EndLeaves DEF RemoveMarker, Typed, DiskTyped, WorldTyped, world, rest, StepIsTyped

\* An invocation that ends without closing its connections in order.
LEMMA EndsHere ==
  ASSUME Typed, NEW p \in Process, Goto(p, "idle"), work' = [work EXCEPT ![p] = AtRest],
         attached' = [attached EXCEPT ![p] = {}]
  PROVE  Alone(p) /\ pc'[p] = "idle" /\ work'[p] = AtRest /\ attached'[p] = {}
  <1>1. pc' \in [Process -> Label] /\ pc'[p] = "idle" /\ \A q \in Process \ {p} : pc'[q] = pc[q]
    BY GoesTo DEF Typed, Label
  <1>2. /\ work' \in [Process -> Memory] /\ work'[p] = AtRest
        /\ \A q \in Process \ {p} : work'[q] = work[q]
    BY IdleIsTyped DEF Typed, WorkTyped
  <1>3. /\ attached' \in [Process -> SUBSET Files] /\ attached'[p] = {}
        /\ \A q \in Process \ {p} : attached'[q] = attached[q]
    BY DEF Typed, WorkTyped
  <1>4. QED BY <1>1, <1>2, <1>3 DEF Alone

LEMMA ReachedIs == Typed => Reached \in Bytes
  <1> SUFFICES ASSUME Typed PROVE Reached \in Bytes
    OBVIOUS
  <1>1. [main |-> New("header"), wal |-> New("log")] \in Bytes
    BY TwoFiles, NewIsAByte
  <1>2. [path EXCEPT !["main"] = New("header")] \in Bytes
    BY NewIsAByte DEF Typed, DiskTyped, Bytes
  <1>3. QED BY <1>1, <1>2 DEF Reached, Typed, DiskTyped

\* An invocation that goes on with a connection to other files.
LEMMA Attaches ==
  ASSUME Typed, NEW p \in Process, NEW l \in Label, Goto(p, l), UNCHANGED work,
         NEW fs \in SUBSET Files, attached' = [attached EXCEPT ![p] = fs]
  PROVE  Alone(p) /\ pc'[p] = l /\ work'[p] = work[p]
  <1>1. /\ attached' \in [Process -> SUBSET Files]
        /\ \A q \in Process \ {p} : attached'[q] = attached[q]
    BY DEF Typed, WorkTyped
  <1>2. QED BY <1>1, GoesTo DEF Typed, WorkTyped, Alone

LEMMA ConnectTyped ==
  ASSUME Typed, NEW p \in Process, Connect(p)
  PROVE  StepIsTyped(p)
  <1>1. WorldTyped' /\ UNCHANGED <<kept, marker, receipt, events>>
    BY DEF Connect, Typed, WorldTyped, world, rest
  <1>2. path' \in Bytes
    BY NewIsAByte DEF Connect, Typed, DiskTyped, Bytes
  <1>3. Alone(p)
    BY Attaches DEF Connect, Label, Making, Files
  <1>4. QED BY <1>1, <1>2, <1>3 DEF StepIsTyped, Typed, DiskTyped

LEMMA SwitchToLogTyped ==
  ASSUME Typed, NEW p \in Process, SwitchToLog(p)
  PROVE  StepIsTyped(p)
  <1> DEFINE l == IF work[p].existed THEN "load" ELSE "initialize"
             main == IF "main" \in attached[p] /\ path["main"] = New("empty")
                     THEN New("header") ELSE path["main"]
             wal  == IF path["wal"] = Nothing THEN New("log") ELSE path["wal"]
  <1>1. /\ WorldTyped' /\ UNCHANGED <<kept, marker, receipt, events, work>>
        /\ Goto(p, l) /\ l \in Label
    BY DEF SwitchToLog, Typed, WorldTyped, world, rest, Label, Making
  <1>2. IF "main" \in attached[p]
        THEN path' = [main |-> main, wal |-> wal] /\ attached' = [attached EXCEPT ![p] = Files]
        ELSE UNCHANGED <<path, attached>>
    BY DEF SwitchToLog
  <1>3. main \in Byte /\ wal \in Byte
    BY NewIsAByte DEF Typed, DiskTyped, Bytes, Files
  <1> HIDE DEF main, wal, l
  <1>4. path' \in Bytes
    BY <1>2, <1>3, TwoFiles DEF Typed, DiskTyped
  <1>5. CASE "main" \in attached[p]
    <2>1. Alone(p)
      BY <1>1, <1>2, <1>5, Attaches
    <2>2. QED BY <1>1, <1>4, <2>1 DEF StepIsTyped, Typed, DiskTyped
  <1>6. CASE "main" \notin attached[p]
    <2>1. Alone(p)
      BY <1>1, <1>2, <1>6, GoesOn DEF Typed, WorkTyped
    <2>2. QED BY <1>1, <1>4, <2>1 DEF StepIsTyped, Typed, DiskTyped
  <1>7. QED BY <1>5, <1>6

LEMMA InitializeTyped ==
  ASSUME Typed, NEW p \in Process, Initialize(p)
  PROVE  StepIsTyped(p)
  <1>1. WorldTyped'
    BY DEF Initialize, Typed, WorldTyped, world, rest
  <1>2. CASE attached[p] = Files /\ IsCurrent(path)
    BY <1>1, <1>2, RefuseIsTyped DEF Initialize, StepIsTyped
  <1>3. CASE ~(attached[p] = Files /\ IsCurrent(path))
    <2>1. /\ path' = IF "wal" \in attached[p] THEN [path EXCEPT !["wal"] = New("tables")] ELSE path
          /\ Goto(p, "load") /\ UNCHANGED <<kept, marker, receipt, events, work, attached>>
      BY <1>3 DEF Initialize
    <2>2. path' \in Bytes
      BY <2>1, NewIsAByte DEF Typed, DiskTyped, Bytes
    <2>3. Alone(p)
      BY <2>1, GoesOn DEF Label, Making, Typed, WorkTyped
    <2>4. QED BY <1>1, <2>1, <2>2, <2>3 DEF StepIsTyped, Typed, DiskTyped
  <1>4. QED BY <1>2, <1>3

LEMMA LoadTyped ==
  ASSUME Typed, NEW p \in Process, LoadStore(p)
  PROVE  StepIsTyped(p)
  <1>1. WorldTyped' /\ UNCHANGED <<kept, marker, receipt, events>>
    BY DEF LoadStore, Typed, WorldTyped, world, rest
  <1>2. CASE IsCurrent(path)
    <2> DEFINE l == IF work[p].recovered = NoPlan THEN "done" ELSE "record"
    <2>1. Goto(p, l) /\ l \in Label /\ UNCHANGED <<path, work, attached>>
      BY <1>2 DEF LoadStore, Label, Making
    <2> HIDE DEF l
    <2>2. Alone(p)
      BY <2>1, GoesOn DEF Typed, WorkTyped
    <2>3. QED BY <1>1, <2>1, <2>2 DEF StepIsTyped, Typed, DiskTyped
  <1>3. CASE ~IsCurrent(path)
    BY <1>1, <1>3, EndsHere, ReachedIs DEF LoadStore, StepIsTyped, Typed, DiskTyped
  <1>4. QED BY <1>2, <1>3

LEMMA RecordTyped ==
  ASSUME Typed, NEW p \in Process, RecordAdmission(p), work[p].recovered # NoPlan
  PROVE  StepIsTyped(p)
  <1>1. WorldTyped' /\ UNCHANGED <<kept, marker, receipt>>
    BY DEF RecordAdmission, Typed, WorldTyped, world, rest
  <1>2. CASE IsCurrent(path)
    <2>1. /\ Goto(p, "clear") /\ UNCHANGED <<path, work, attached>>
          /\ events' = events \cup {work[p].recovered}
      BY <1>2 DEF RecordAdmission
    <2>2. Alone(p)
      BY <2>1, GoesOn DEF Typed, WorkTyped, Label
    <2>3. work[p].recovered \in Plan
      BY DEF Typed, WorkTyped, Memory
    <2>4. QED BY <1>1, <2>1, <2>2, <2>3 DEF StepIsTyped, Typed, DiskTyped
  <1>3. CASE ~IsCurrent(path)
    BY <1>1, <1>3, EndsHere, ReachedIs DEF RecordAdmission, StepIsTyped, Typed, DiskTyped
  <1>4. QED BY <1>2, <1>3

LEMMA ClearTyped ==
  ASSUME Typed, NEW p \in Process, ClearReceipt(p)
  PROVE  StepIsTyped(p)
  <1>1. Alone(p)
    BY GoesOn DEF ClearReceipt, Label, Typed, WorkTyped
  <1>2. QED
    BY <1>1 DEF ClearReceipt, StepIsTyped, Typed, DiskTyped, WorldTyped, world, rest

LEMMA OpenedTyped ==
  ASSUME Typed, NEW p \in Process, Opened(p)
  PROVE  StepIsTyped(p)
  BY EndLeaves DEF Opened, Typed, DiskTyped, WorldTyped, world, StepIsTyped

LEMMA StartTyped ==
  ASSUME Typed, NEW p \in Process, Start(p)
  PROVE  StepIsTyped(p) /\ pc'[p] = "recover" /\ work'[p].recovered = work[p].recovered
  <1>1. PICK t \in {clock, clock + 1} :
          t <= MaxClock /\ clock' = t /\ work' = [work EXCEPT ![p].now = t]
    BY DEF Start
  <1> DEFINE w == [work[p] EXCEPT !.now = t]
  <1>2. w \in Memory /\ w.recovered = work[p].recovered /\ clock' \in Nat
    BY <1>1 DEF Typed, WorkTyped, WorldTyped, Memory, Instant
  <1>3. work' = [work EXCEPT ![p] = w] /\ Goto(p, "recover") /\ UNCHANGED <<stored, world, attached, shown>>
    BY <1>1 DEF Start, Typed, WorkTyped
  <1> HIDE DEF w
  <1>4. Alone(p) /\ pc'[p] = "recover" /\ work'[p] = w
    BY <1>2, <1>3, NotesIt DEF Label
  <1>5. QED
    BY <1>2, <1>3, <1>4 DEF StepIsTyped, Typed, DiskTyped, WorldTyped, world, stored

LEMMA StartOperatorTyped ==
  ASSUME Typed, NEW p \in Process, StartOperator(p)
  PROVE  StepIsTyped(p) /\ pc'[p] = "recover" /\ work'[p].recovered = work[p].recovered
  <1>1. PICK digest \in shown, t \in {clock, clock + 1} :
          /\ t <= MaxClock /\ clock' = t
          /\ work' = [work EXCEPT ![p].now = t, ![p].confirmed = digest]
    BY DEF StartOperator
  <1> DEFINE v == [work[p] EXCEPT !.now = t]
             w == [v EXCEPT !.confirmed = digest]
  <1>2. v \in Memory /\ v.recovered = work[p].recovered /\ clock' \in Nat
    BY <1>1 DEF Typed, WorkTyped, WorldTyped, Memory, Instant
  <1>3. w \in Memory /\ w.recovered = work[p].recovered
    <2> HIDE DEF v
    <2>1. digest \in Bytes
      BY DEF Typed, WorldTyped
    <2>2. QED BY <1>2, <2>1 DEF Memory
  <1>4. work' = [work EXCEPT ![p] = w]
    <2> DEFINE now == [work EXCEPT ![p].now = t]
    <2>1. work' = [now EXCEPT ![p].confirmed = digest]
      BY <1>1
    <2>2. now = [work EXCEPT ![p] = v] /\ now[p] = v
      BY DEF Typed, WorkTyped
    <2> HIDE DEF now, v
    <2>3. [now EXCEPT ![p].confirmed = digest] = [now EXCEPT ![p] = [now[p] EXCEPT !.confirmed = digest]]
      OBVIOUS
    <2>4. QED BY <2>1, <2>2, <2>3 DEF Typed, WorkTyped
  <1>5. Goto(p, "recover") /\ UNCHANGED <<stored, world, attached, shown>>
    BY DEF StartOperator
  <1> HIDE DEF w
  <1>6. Alone(p) /\ pc'[p] = "recover" /\ work'[p] = w
    BY <1>3, <1>4, <1>5, NotesIt DEF Label
  <1>7. QED
    BY <1>2, <1>3, <1>5, <1>6 DEF StepIsTyped, Typed, DiskTyped, WorldTyped, world, stored

-----------------------------------------------------------------------------
(* What every step keeps.                                                  *)

\* A copy stays, what was shown was shown, a current store stays one, a receipt is
\* only published over no receipt and only consumed by a current store; and while
\* another invocation moves the store nothing on the disk changes.
Onward(p) ==
  /\ Alone(p) /\ DiskTyped' /\ WorldTyped'
  /\ \A d \in Instant : kept[d].exists => kept'[d].exists
  /\ \A d \in Instant, f \in Files :
       kept[d].files[f] # Nothing => kept'[d].files[f] = kept[d].files[f]
  /\ shown \subseteq shown' /\ (present' => present)
  /\ events \subseteq events'
  /\ IsCurrent(path) => IsCurrent(path')
  /\ \/ receipt' = receipt
     \/ receipt' = NoPlan /\ IsCurrent(path')
     \/ receipt = NoPlan /\ ~IsCurrent(path)
  /\ (\E q \in Process \ {p} : pc[q] \in Preserving) => UNCHANGED stored

LEMMA StageLabels ==
  /\ Moving \subseteq Preserving /\ "mark" \in Preserving /\ Copied \subseteq Moving
  /\ Connected \cap Preserving = {} /\ Preserving \cap Making = {}
  /\ "clear" \notin Preserving /\ "done" \notin Preserving
  BY DEF Moving, Preserving, Copied, Connected, Making

\* What is kept and justified stays so.
LEMMA KeptStays ==
  ASSUME Typed, NEW p \in Process, Onward(p), NEW plan \in Plan
  PROVE  /\ Kept(plan) => Kept(plan)'
         /\ \A f \in plan.files : IsKept(plan, f) => IsKept(plan, f)'
         /\ Justified(plan) => Justified(plan)'
  <1>1. plan.dir \in Instant /\ plan.files \subseteq Files
    BY DEF Plan
  <1>2. \A f \in plan.files : IsKept(plan, f) => IsKept(plan, f)'
    BY <1>1 DEF IsKept, Onward
  <1>3. Kept(plan) => Kept(plan)'
    BY <1>2 DEF Kept
  <1>4. Justified(plan) => Justified(plan)'
    BY DEF Justified, Admitted, Onward
  <1>5. QED BY <1>2, <1>3, <1>4

\* Where the others are stays true of them.
LEMMA OthersKeep ==
  ASSUME UpgradeInv, NEW p \in Process, Onward(p), NEW q \in Process \ {p}
  PROVE  Stage(q)'
  <1> USE DEF UpgradeInv
  <1>1. pc'[q] = pc[q] /\ work'[q] = work[q] /\ attached'[q] \subseteq attached[q] /\ Stage(q)
    BY DEF Onward, Alone
  <1>2. pc[q] \in Preserving => UNCHANGED <<path, kept, marker, receipt, events>>
    BY DEF Onward, stored
  <1>3. Watches(q)'
    BY <1>1, <1>2 DEF Stage, Watches, Onward
  <1>4. Remembers(q)'
    <2> DEFINE r == work[q].recovered
    <2>1. Remembers(q)
      BY <1>1 DEF Stage
    <2>2. CASE r # NoPlan
      <3>1. r \in Plan
        BY <2>2 DEF Typed, WorkTyped, Memory
      <3>2. Kept(r)' /\ Justified(r)'
        BY <1>1, <2>1, <2>2, <3>1, KeptStays DEF Remembers
      <3>3. receipt' = r \/ (receipt' = NoPlan /\ IsCurrent(path'))
        BY <2>1, <2>2 DEF Remembers, Onward
      <3>4. r' = r
        BY <1>1
      <3>5. pc[q] = "clear" => r \in events'
        BY <2>1 DEF Remembers, Onward
      <3> HIDE DEF r
      <3>6. QED BY <1>1, <2>2, <3>2, <3>3, <3>4, <3>5 DEF Remembers, r
    <2>3. CASE r = NoPlan
      BY <1>1, <2>1, <2>3 DEF Remembers
    <2>4. QED BY <2>2, <2>3
  <1>5. Prepares(q)'
    <2>1. CASE pc[q] \in {"inspect", "confirm", "recheck", "capture", "mark"}
      <3>1. UNCHANGED <<path, kept>>
        BY <1>2, <2>1 DEF Preserving
      <3>2. Prepares(q)
        BY <1>1 DEF Stage
      <3>3. CASE pc[q] = "mark"
        <4>1. work[q].plan \in Plan
          BY <3>2, <3>3 DEF Prepares, Typed, WorkTyped, Memory
        <4>2. QED BY <1>1, <3>1, <3>2, <3>3, <4>1, KeptStays DEF Prepares
      <3>4. CASE pc[q] # "mark"
        BY <1>1, <3>1, <3>2, <3>4 DEF Prepares, Admitted, Onward
      <3>5. QED BY <3>3, <3>4
    <2>2. CASE pc[q] \notin {"inspect", "confirm", "recheck", "capture", "mark"}
      BY <1>1, <2>2 DEF Prepares
    <2>3. QED BY <2>1, <2>2
  <1>6. Moves(q)'
    <2>1. SUFFICES ASSUME pc[q] \in Moving PROVE Moves(q)'
      BY <1>1 DEF Moves
    <2>2. UNCHANGED <<path, kept, marker, receipt>>
      BY <1>2, <2>1, StageLabels
    <2>3. Moves(q) /\ work[q].plan \in Plan
      BY <1>1, <2>1 DEF Stage, Moves, Typed, WorkTyped, Memory
    <2>4. Justified(work[q].plan)'
      BY <1>1, <2>1, <2>3, KeptStays DEF Moves
    <2>5. QED BY <1>1, <2>1, <2>2, <2>3, <2>4 DEF Moves, Kept, IsKept
  <1>7. QED BY <1>3, <1>4, <1>5, <1>6 DEF Stage

\* The disk as it was.
LEMMA DiskStays ==
  ASSUME UpgradeInv, UNCHANGED stored, shown \subseteq shown', present' => present
  PROVE  DiskInv'
  <1>1. UNCHANGED <<path, kept, marker, receipt, events>> /\ Plans' = Plans
    BY DEF stored, Plans
  <1>2. \A plan : Justified(plan) => Justified(plan)'
    BY DEF Justified, Admitted
  <1>3. DirectoriesAgree' /\ MarkerIsResumable'
    BY <1>1 DEF UpgradeInv, DiskInv, DirectoriesAgree, MarkerIsResumable
  <1>4. RecordsAreSound'
    BY <1>1, <1>2 DEF UpgradeInv, DiskInv, RecordsAreSound, Kept, IsKept
  <1>5. MarkerIsSound'
    BY <1>1, <1>2 DEF UpgradeInv, DiskInv, MarkerIsSound
  <1>6. QED BY <1>3, <1>4, <1>5 DEF DiskInv

LEMMA Steady ==
  ASSUME UpgradeInv, NEW p \in Process, StepIsTyped(p), UNCHANGED stored,
         shown \subseteq shown', present' => present
  PROVE  Onward(p) /\ DiskInv'
  BY DiskStays DEF StepIsTyped, Onward, stored

\* Only the database changes, and nobody has begun to move it.
LEMMA FreshFiles ==
  ASSUME UpgradeInv, NEW p \in Process, StepIsTyped(p), marker = NoPlan,
         \A q \in Process \ {p} : pc[q] \notin Preserving,
         UNCHANGED <<kept, marker, receipt, events, shown, present>>,
         IsCurrent(path) => IsCurrent(path')
  PROVE  Onward(p) /\ DiskInv'
  <1>1. Onward(p)
    BY DEF StepIsTyped, Onward
  <1>2. Plans' = Plans
    BY DEF Plans
  <1>3. DirectoriesAgree' /\ RecordsAreSound'
    BY <1>2 DEF UpgradeInv, DiskInv, DirectoriesAgree, RecordsAreSound, Kept, IsKept,
                Justified, Admitted
  <1>4. MarkerIsSound' /\ MarkerIsResumable'
    BY DEF MarkerIsSound, MarkerIsResumable
  <1>5. QED BY <1>1, <1>3, <1>4 DEF DiskInv

\* One that is no longer under way promises nothing.
LEMMA IdleStage ==
  ASSUME NEW p \in Process, pc'[p] = "idle", work'[p] = AtRest, attached'[p] = {}
  PROVE  Stage(p)'
  <1>1. Watches(p)'
    BY DEF Watches, Preserving
  <1>2. Remembers(p)'
    BY DEF Remembers, AtRest
  <1>3. Prepares(p)' /\ Moves(p)'
    BY DEF Prepares, Moves, Moving
  <1>4. QED BY <1>1, <1>2, <1>3 DEF Stage

\* What an invocation remembers outlives a step of its own that keeps the receipt.
LEMMA RemembersOn ==
  ASSUME UpgradeInv, NEW p \in Process, Onward(p), UNCHANGED receipt,
         work'[p].recovered = work[p].recovered, pc'[p] \notin {"record", "clear"}
  PROVE  Remembers(p)'
  <1> DEFINE r == work[p].recovered
  <1>1. Remembers(p)
    BY DEF UpgradeInv, Stage
  <1>2. CASE r # NoPlan
    <2>1. r \in Plan
      BY <1>2 DEF UpgradeInv, Typed, WorkTyped, Memory
    <2>2. Kept(r)' /\ Justified(r)'
      BY <1>1, <1>2, <2>1, KeptStays DEF Remembers, UpgradeInv
    <2>3. QED BY <1>1, <1>2, <2>2 DEF Remembers, Onward
  <1>3. CASE r = NoPlan
    BY <1>3 DEF Remembers
  <1>4. QED BY <1>2, <1>3

\* A refusal before anything is connected leaves the disk as it is.
LEMMA Refuses ==
  ASSUME UpgradeInv, NEW p \in Process, StepIsTyped(p), Refuse(p), pc[p] \notin Connected,
         shown \subseteq shown', UNCHANGED present
  PROVE  Onward(p) /\ DiskInv' /\ Stage(p)'
  <1>1. attached[p] = {}
    BY DEF UpgradeInv, Stage, Watches
  <1>2. UNCHANGED stored /\ pc'[p] = "idle" /\ work'[p] = AtRest /\ attached'[p] = {}
    BY <1>1, EndLeaves DEF Refuse, UpgradeInv, stored
  <1>3. QED BY <1>2, Steady, IdleStage

\* Where nobody moves a store, and none is marked to be.
LEMMA NobodyMoves ==
  ASSUME UpgradeInv, NEW p \in Process, pc[p] \in Making \/ IsCurrent(path)
  PROVE  /\ \A q \in Process \ {p} : pc[q] \notin Preserving
         /\ marker = NoPlan
  BY StageLabels DEF UpgradeInv, Apart, Stage, Watches, DiskInv, MarkerIsSound

-----------------------------------------------------------------------------
(* The steps.                                                              *)

Good(p) == Onward(p) /\ DiskInv' /\ Stage(p)'

\* One that only goes on to a stage that promises nothing new.
LEMMA PlainStage ==
  ASSUME UpgradeInv, NEW p \in Process, Onward(p), DiskInv', UNCHANGED receipt,
         work'[p].recovered = work[p].recovered, attached'[p] = {} \/ pc'[p] \in Connected,
         pc'[p] \notin Preserving \cup {"record", "clear", "done"}
  PROVE  Good(p)
  <1>1. Watches(p)' /\ Prepares(p)' /\ Moves(p)'
    BY StageLabels DEF Watches, Prepares, Moves, Preserving
  <1>2. QED BY <1>1, RemembersOn DEF Stage, Good

\* One that goes on with the preservation.
LEMMA PreservingStage ==
  ASSUME UpgradeInv, NEW p \in Process, Onward(p), DiskInv', UNCHANGED receipt,
         work'[p].recovered = work[p].recovered, attached'[p] = {},
         pc'[p] \in Preserving, ~IsCurrent(path'), Prepares(p)', Moves(p)'
  PROVE  Good(p)
  <1>1. Watches(p)'
    BY StageLabels DEF Watches
  <1>2. Remembers(p)'
    BY RemembersOn, StageLabels DEF Preserving
  <1>3. QED BY <1>1, <1>2 DEF Stage, Good

LEMMA NotConnected ==
  ASSUME UpgradeInv, NEW p \in Process, pc[p] \notin Connected
  PROVE  attached[p] = {}
  BY DEF UpgradeInv, Stage, Watches

LEMMA StartGood ==
  ASSUME UpgradeInv, NEW p \in Process, Start(p) \/ StartOperator(p)
  PROVE  Good(p)
  <1>1. StepIsTyped(p) /\ pc'[p] = "recover" /\ work'[p].recovered = work[p].recovered
    BY StartTyped, StartOperatorTyped DEF UpgradeInv
  <1>2. UNCHANGED <<stored, shown, present, attached>> /\ pc[p] = "idle"
    BY DEF Start, StartOperator, world, At
  <1>3. Onward(p) /\ DiskInv'
    BY <1>1, <1>2, Steady
  <1>4. attached[p] = {}
    BY <1>2, NotConnected DEF Connected
  <1>5. QED
    BY <1>1, <1>2, <1>3, <1>4, PlainStage DEF Preserving, stored

LEMMA CrashGood ==
  ASSUME UpgradeInv, NEW p \in Process, Die(p)
  PROVE  Good(p)
  <1>1. /\ Alone(p) /\ pc'[p] = "idle" /\ work'[p] = AtRest /\ attached'[p] = {}
        /\ UNCHANGED <<stored, world, shown, clock>>
    BY EndsHere DEF Die, UpgradeInv
  <1>2. StepIsTyped(p)
    BY <1>1 DEF StepIsTyped, UpgradeInv, Typed, DiskTyped, WorldTyped, stored, world
  <1>3. QED BY <1>1, <1>2, Steady, IdleStage DEF Good, world

LEMMA RecoverGood ==
  ASSUME UpgradeInv, NEW p \in Process, Recover(p)
  PROVE  Good(p)
  <1>1. /\ StepIsTyped(p) /\ UNCHANGED <<stored, attached, receipt, path, kept, marker>>
        /\ shown' = shown /\ present' = present /\ pc[p] = "recover"
    BY RecoverTyped DEF Recover, UpgradeInv, stored, world, rest, At
  <1>2. Onward(p) /\ DiskInv'
    BY <1>1, Steady
  <1>3. attached'[p] = {}
    BY <1>1, NotConnected DEF Connected
  <1>4. CASE marker = NoPlan
    <2>1. pc'[p] = "receipt" /\ work' = work
      BY <1>4 DEF Recover, Goto, UpgradeInv, Typed, WorkTyped
    <2>2. QED BY <1>1, <1>2, <1>3, <2>1, PlainStage DEF Preserving
  <1>5. CASE marker # NoPlan
    <2> PICK plan : plan = Hydrated(marker, work[p].now)
      OBVIOUS
    <2>1. pc'[p] = "mkdir" /\ work'[p] = [work[p] EXCEPT !.plan = plan]
      BY <1>5 DEF Recover, Goto, UpgradeInv, Typed, WorkTyped
    <2>2. work'[p].plan = plan /\ work'[p].recovered = work[p].recovered
      BY <2>1 DEF UpgradeInv, Typed, WorkTyped, Memory
    <2>3. /\ marker \in Plan /\ MarkerIsSound /\ MarkerIsResumable
      BY <1>5 DEF UpgradeInv, DiskInv, Typed, DiskTyped
    <2>4. /\ plan \in Plan /\ plan.dir = marker.dir /\ plan.files = marker.files
          /\ plan.admission # NoAdmission
          /\ marker.admission # NoAdmission => plan = marker
          /\ marker.admission = NoAdmission =>
               \A f \in Files : plan.source[f] =
                   IF f \notin plan.files THEN Nothing
                   ELSE IF path[f] # Nothing THEN path[f] ELSE kept[plan.dir].files[f]
      BY <2>3, HydratedIs DEF UpgradeInv, Typed, WorkTyped, Memory
    <2>5. marker.admission = NoAdmission => QuietFiles(plan.source)
      BY <1>5, <2>3, <2>4 DEF MarkerIsSound, QuietFiles
    <2>6. Justified(plan)
      <3>1. CASE marker.admission = NoAdmission
        <4>1. Status(plan.source) = "quiet"
          BY <2>5, <3>1 DEF QuietFiles, Status, Nothing, Old, Files
        <4>2. QED BY <4>1 DEF Justified, Admitted
      <3>2. CASE marker.admission # NoAdmission
        BY <1>5, <2>3, <2>4, <3>2 DEF MarkerIsSound
      <3>3. QED BY <3>1, <3>2
    <2>7. \A f \in plan.files : plan.source[f] # Nothing
      <3>1. marker.files \subseteq Files
        BY <2>3 DEF Plan
      <3>2. QED BY <1>5, <2>3, <2>4, <3>1 DEF MarkerIsResumable
    <2>8. Justified(plan)'
      BY <1>2, <2>4, <2>6, KeptStays DEF UpgradeInv
    <2>9. Moves(p)'
      <3>1. work'[p].plan = plan /\ pc'[p] = "mkdir" /\ marker' = marker
        BY <1>1, <2>1, <2>2
      <3>2. "mkdir" \notin Copied /\ plan # NoPlan
        BY <2>4, SomePlan DEF Copied
      <3>3. IF marker.admission = NoAdmission THEN QuietFiles(plan.source) ELSE plan = marker
        BY <2>4, <2>5
      <3>4. QED BY <1>5, <2>4, <2>7, <2>8, <3>1, <3>2, <3>3 DEF Moves, QuietFiles
    <2>10. Prepares(p)'
      BY <2>1 DEF Prepares
    <2>11. ~IsCurrent(path')
      BY <1>1, <1>5, <2>3 DEF MarkerIsSound
    <2>12. QED
      BY <1>1, <1>2, <1>3, <2>1, <2>2, <2>9, <2>10, <2>11, PreservingStage DEF Preserving
  <1>6. QED BY <1>4, <1>5

LEMMA ReadReceiptGood ==
  ASSUME UpgradeInv, NEW p \in Process, ReadReceipt(p)
  PROVE  Good(p)
  <1>1. /\ StepIsTyped(p) /\ UNCHANGED <<stored, attached, receipt, shown, present>>
        /\ pc[p] = "receipt"
    BY ReadReceiptTyped DEF ReadReceipt, UpgradeInv, stored, world, rest, At
  <1>2. Onward(p) /\ DiskInv'
    BY <1>1, Steady
  <1>3. attached'[p] = {}
    BY <1>1, NotConnected DEF Connected
  <1>4. pc'[p] \in {"exists", "clean"} /\ work'[p].recovered = receipt
    BY DEF ReadReceipt, Goto, UpgradeInv, Typed, WorkTyped, Memory
  <1>5. Remembers(p)'
    <2>1. CASE receipt # NoPlan
      <3>1. receipt \in Plan /\ Kept(receipt) /\ Justified(receipt)
        BY <2>1 DEF UpgradeInv, DiskInv, RecordsAreSound, Plans, Typed, DiskTyped
      <3>2. Kept(receipt)' /\ Justified(receipt)'
        BY <1>1, <1>2, <3>1, KeptStays DEF UpgradeInv
      <3>3. QED BY <1>1, <1>4, <3>2 DEF Remembers
    <2>2. CASE receipt = NoPlan
      BY <1>4, <2>2 DEF Remembers
    <2>3. QED BY <2>1, <2>2
  <1>6. Watches(p)' /\ Prepares(p)' /\ Moves(p)'
    BY <1>3, <1>4 DEF Watches, Prepares, Moves, Preserving, Moving
  <1>7. QED BY <1>2, <1>5, <1>6 DEF Good, Stage

LEMMA RecoverEmptyGood ==
  ASSUME UpgradeInv, NEW p \in Process, RecoverEmptyFreshStore(p)
  PROVE  Good(p)
  <1>1. /\ StepIsTyped(p) /\ UNCHANGED <<kept, marker, receipt, events, work, shown, present>>
        /\ pc[p] = "clean" /\ pc'[p] = "validate"
    BY RecoverEmptyTyped DEF RecoverEmptyFreshStore, Goto, UpgradeInv, Typed, WorkTyped,
                             world, rest, At
  <1>2. attached[p] = {}
    BY <1>1, NotConnected DEF Connected
  <1>3. attached'[p] = {}
    BY <1>2 DEF RecoverEmptyFreshStore, Unlinked
  <1>4. IsCurrent(path) => IsCurrent(path')
    BY DEF RecoverEmptyFreshStore, EmptyFresh
  <1>5. Onward(p) /\ DiskInv'
    BY <1>1, <1>4, FreshFiles, NobodyMoves DEF Making
  <1>6. QED BY <1>1, <1>3, <1>5, PlainStage DEF Preserving

LEMMA ValidateGood ==
  ASSUME UpgradeInv, NEW p \in Process, ValidateReceipt(p)
  PROVE  Good(p)
  <1>1. StepIsTyped(p) /\ UNCHANGED <<shown, present>> /\ pc[p] = "validate"
    BY ValidateTyped DEF ValidateReceipt, UpgradeInv, world, rest, At
  <1>2. CASE Completed(work[p].recovered)
    <2>1. pc'[p] = "exists" /\ UNCHANGED <<work, attached, stored, receipt>>
      BY <1>2 DEF ValidateReceipt, Goto, stored, UpgradeInv, Typed, WorkTyped
    <2>2. attached'[p] = {}
      BY <1>1, <2>1, NotConnected DEF Connected
    <2>3. QED BY <1>1, <2>1, <2>2, Steady, PlainStage DEF Preserving
  <1>3. CASE ~Completed(work[p].recovered)
    BY <1>1, <1>3, Refuses DEF ValidateReceipt, Connected, Good
  <1>4. QED BY <1>2, <1>3

LEMMA InspectVersionGood ==
  ASSUME UpgradeInv, NEW p \in Process, InspectVersion(p)
  PROVE  Good(p)
  <1>1. StepIsTyped(p) /\ UNCHANGED <<shown, present>> /\ pc[p] = "exists"
    BY InspectVersionTyped DEF InspectVersion, UpgradeInv, world, rest, At
  <1>2. attached[p] = {}
    BY <1>1, NotConnected DEF Connected
  <1>3. CASE SchemaVersion(path) = "unreadable"
    BY <1>1, <1>3, Refuses DEF InspectVersion, Connected, Good
  <1>4. CASE SchemaVersion(path) # "unreadable"
    <2>1. /\ pc'[p] = IF SchemaVersion(path) = "older" THEN "inspect" ELSE "connect"
          /\ UNCHANGED <<stored, receipt, attached, path>>
          /\ work'[p].recovered = work[p].recovered
      BY <1>4 DEF InspectVersion, Goto, stored, UpgradeInv, Typed, WorkTyped, Memory
    <2>2. Onward(p) /\ DiskInv'
      BY <1>1, <2>1, Steady
    <2>3. CASE SchemaVersion(path) = "older"
      <3>1. ~IsCurrent(path) /\ path["main"] # Nothing
        BY <2>3 DEF SchemaVersion
      <3>2. pc'[p] = "inspect"
        BY <2>1, <2>3
      <3>3. Prepares(p)' /\ Moves(p)'
        BY <2>1, <3>1, <3>2 DEF Prepares, Moves, Moving
      <3>4. QED
        BY <1>2, <2>1, <2>2, <3>1, <3>2, <3>3, PreservingStage DEF Preserving
    <2>4. CASE SchemaVersion(path) # "older"
      BY <1>2, <2>1, <2>2, <2>4, PlainStage DEF Preserving
    <2>5. QED BY <2>3, <2>4
  <1>5. QED BY <1>3, <1>4

\* What is captured was inspected: its status allows it.
LEMMA CapturesWhat ==
  ASSUME UpgradeInv, NEW p \in Process, StepIsTyped(p), UNCHANGED <<stored, attached, present>>,
         shown \subseteq shown', NEW mode \in {"strict", "confirmed"},
         pc[p] \in {"inspect", "recheck"}, pc'[p] = "capture",
         work'[p] = [work[p] EXCEPT !.admission = Admission(mode, path, work[p].now)],
         Admitted(mode, path)'
  PROVE  Good(p)
  <1>1. Onward(p) /\ DiskInv' /\ UNCHANGED <<receipt, path>>
    BY Steady DEF stored
  <1>2. attached'[p] = {}
    BY NotConnected DEF Connected
  <1>3. /\ work'[p].recovered = work[p].recovered
        /\ work'[p].admission = Admission(mode, path, work[p].now)
    BY DEF UpgradeInv, Typed, WorkTyped, Memory
  <1>4. path["main"] # Nothing /\ ~IsCurrent(path)
    BY DEF UpgradeInv, Stage, Watches, Prepares, Preserving
  <1>5. Prepares(p)'
    BY <1>1, <1>3, <1>4 DEF Prepares, Admission, NoAdmission
  <1>6. Moves(p)'
    BY DEF Moves, Moving
  <1>7. QED
    BY <1>1, <1>2, <1>3, <1>4, <1>5, <1>6, PreservingStage DEF Preserving

LEMMA InspectStrictGood ==
  ASSUME UpgradeInv, NEW p \in Process, InspectStrict(p)
  PROVE  Good(p)
  <1> DEFINE stays == SchemaVersion(path) # "older" \/ Blocked(path) \/ Confirmable(path)
  <1>1. StepIsTyped(p) /\ UNCHANGED present /\ pc[p] = "inspect"
    BY InspectStrictTyped DEF InspectStrict, UpgradeInv, world, At
  <1>2. CASE stays
    BY <1>1, <1>2, Refuses DEF InspectStrict, Connected, Good
  <1>3. CASE ~stays
    <2>1. /\ pc'[p] = "capture" /\ UNCHANGED <<stored, attached, shown, path>>
          /\ work'[p] = [work[p] EXCEPT !.admission = Admission("strict", path, work[p].now)]
      BY <1>3 DEF InspectStrict, Goto, stored, UpgradeInv, Typed, WorkTyped
    <2>2. Status(path) = "quiet"
      BY <1>3, StatusIs DEF Blocked, Confirmable, UpgradeInv, Typed, DiskTyped
    <2>3. Admitted("strict", path)'
      BY <2>1, <2>2 DEF Admitted
    <2>4. QED BY <1>1, <2>1, <2>3, CapturesWhat
  <1>4. QED BY <1>2, <1>3

LEMMA OperatorReceiptGood ==
  ASSUME UpgradeInv, NEW p \in Process, OperatorReceipt(p)
  PROVE  Good(p)
  <1> DEFINE stays == receipt # NoPlan \/ SchemaVersion(path) # "older"
  <1>1. StepIsTyped(p) /\ UNCHANGED <<shown, present>> /\ pc[p] = "receipt"
    BY OperatorReceiptTyped DEF OperatorReceipt, UpgradeInv, world, rest, At
  <1>2. CASE stays
    BY <1>1, <1>2, Refuses DEF OperatorReceipt, Connected, Good
  <1>3. CASE ~stays
    <2>1. pc'[p] = "confirm" /\ UNCHANGED <<stored, attached, path, receipt, work>>
      BY <1>3 DEF OperatorReceipt, Goto, stored, UpgradeInv, Typed, WorkTyped
    <2>2. Onward(p) /\ DiskInv'
      BY <1>1, <2>1, Steady
    <2>3. ~IsCurrent(path) /\ path["main"] # Nothing
      BY <1>3 DEF SchemaVersion
    <2>4. Prepares(p)' /\ Moves(p)'
      BY <2>1, <2>3 DEF Prepares, Moves, Moving
    <2>5. attached'[p] = {}
      BY <1>1, <2>1, NotConnected DEF Connected
    <2>6. QED BY <2>1, <2>2, <2>3, <2>4, <2>5, PreservingStage DEF Preserving
  <1>4. QED BY <1>2, <1>3

LEMMA ConfirmGood ==
  ASSUME UpgradeInv, NEW p \in Process, Confirm(p)
  PROVE  Good(p)
  <1>1. /\ StepIsTyped(p) /\ UNCHANGED present /\ shown \subseteq shown' /\ pc[p] = "confirm"
    BY ConfirmTyped DEF Confirm, Shows, UpgradeInv, world, At
  <1>2. CASE ~Confirms(p)
    BY <1>1, <1>2, Refuses DEF Confirm, Connected, Good
  <1>3. CASE Confirms(p)
    <2>1. pc'[p] = "recheck" /\ UNCHANGED <<stored, attached, path, receipt, work>>
      BY <1>3 DEF Confirm, Goto, stored, UpgradeInv, Typed, WorkTyped
    <2>2. Onward(p) /\ DiskInv'
      BY <1>1, <2>1, Steady
    <2>3. ~IsCurrent(path) /\ path["main"] # Nothing
      BY <1>1 DEF UpgradeInv, Stage, Watches, Prepares, Preserving
    <2>4. Prepares(p)' /\ Moves(p)'
      BY <2>1, <2>3 DEF Prepares, Moves, Moving
    <2>5. attached'[p] = {}
      BY <1>1, <2>1, NotConnected DEF Connected
    <2>6. QED BY <2>1, <2>2, <2>3, <2>4, <2>5, PreservingStage DEF Preserving
  <1>4. QED BY <1>2, <1>3

LEMMA RecheckGood ==
  ASSUME UpgradeInv, NEW p \in Process, Recheck(p)
  PROVE  Good(p)
  <1>1. /\ StepIsTyped(p) /\ UNCHANGED present /\ shown \subseteq shown' /\ pc[p] = "recheck"
    BY RecheckTyped DEF Recheck, Shows, UpgradeInv, world, At
  <1>2. CASE ~Confirms(p)
    BY <1>1, <1>2, Refuses DEF Recheck, Connected, Good
  <1>3. CASE Confirms(p)
    <2>1. /\ pc'[p] = "capture" /\ UNCHANGED <<stored, attached, path>>
          /\ work'[p] = [work[p] EXCEPT !.admission = Admission("confirmed", path, work[p].now)]
      BY <1>3 DEF Recheck, Goto, stored, UpgradeInv, Typed, WorkTyped
    <2>2. Admitted("confirmed", path)'
      BY <1>1, <1>3, <2>1 DEF Admitted, Confirms, Confirmable, Recheck, Shows
    <2>3. QED BY <1>1, <2>1, <2>2, CapturesWhat
  <1>4. QED BY <1>2, <1>3

LEMMA CaptureGood ==
  ASSUME UpgradeInv, NEW p \in Process, Capture(p)
  PROVE  Good(p)
  <1> DEFINE a == work[p].admission
             stays == kept[work[p].now].exists \/ path # a.digest
  <1>1. StepIsTyped(p) /\ UNCHANGED <<shown, present>> /\ pc[p] = "capture"
    BY CaptureTyped DEF Capture, UpgradeInv, world, rest, At
  <1>2. CASE stays
    BY <1>1, <1>2, Refuses DEF Capture, Connected, Good
  <1>3. CASE ~stays
    <2> PICK plan : plan = MakePlan(work[p].now, path, work[p].admission)
      OBVIOUS
    <2>1. /\ pc'[p] = "mark" /\ UNCHANGED <<stored, attached, path, receipt, kept>>
          /\ work'[p] = [work[p] EXCEPT !.plan = plan]
      BY <1>3 DEF Capture, Goto, stored, UpgradeInv, Typed, WorkTyped
    <2>2. Onward(p) /\ DiskInv'
      BY <1>1, <2>1, Steady
    <2>3. work'[p].recovered = work[p].recovered /\ work'[p].plan = plan
      BY <2>1 DEF UpgradeInv, Typed, WorkTyped, Memory
    <2>4. /\ ~IsCurrent(path) /\ path["main"] # Nothing
          /\ a # NoAdmission /\ Admitted(a.mode, a.digest)
      BY <1>1 DEF UpgradeInv, Stage, Watches, Prepares, Preserving
    <2>5. /\ plan.source = path /\ plan.files = Existing(path) /\ plan.admission = a
          /\ plan.dir = work[p].now
      BY DEF MakePlan
    <2>6. plan \in Plan /\ plan # NoPlan
      BY <2>4, SomePlan DEF UpgradeInv, Typed, DiskTyped, WorkTyped, Memory, Plan, MakePlan, Existing
    <2>7. Justified(plan)'
      BY <1>3, <2>1, <2>4, <2>5, <1>1 DEF Justified, Admitted
    <2>8. "main" \in plan.files
      BY <2>4, <2>5 DEF Existing, Files
    <2>9. Prepares(p)'
      BY <1>3, <2>1, <2>3, <2>4, <2>5, <2>6, <2>7, <2>8 DEF Prepares, Existing
    <2>10. Moves(p)'
      BY <2>1 DEF Moves, Moving
    <2>11. attached'[p] = {}
      BY <1>1, <2>1, NotConnected DEF Connected
    <2>12. QED
      BY <2>1, <2>2, <2>3, <2>4, <2>9, <2>10, <2>11, PreservingStage DEF Preserving
  <1>4. QED BY <1>2, <1>3

\* A step of one that moves the store: nobody else does.
LEMMA MovesAlone ==
  ASSUME UpgradeInv, NEW p \in Process, pc[p] \in Preserving
  PROVE  /\ \A q \in Process \ {p} : pc[q] \notin Preserving
         /\ ~IsCurrent(path) /\ attached[p] = {}
  BY StageLabels DEF UpgradeInv, Apart, Stage, Watches

LEMMA PublishGood ==
  ASSUME UpgradeInv, NEW p \in Process, PublishMarker(p)
  PROVE  Good(p)
  <1>1. StepIsTyped(p) /\ UNCHANGED <<shown, present>> /\ pc[p] = "mark"
    BY PublishTyped DEF PublishMarker, UpgradeInv, world, rest, At
  <1>2. CASE marker \notin {NoPlan, work[p].plan}
    BY <1>1, <1>2, Refuses DEF PublishMarker, Connected, Good
  <1>3. CASE marker \in {NoPlan, work[p].plan}
    <2> PICK plan : plan = work[p].plan
      OBVIOUS
    <2>1. /\ pc'[p] = "mkdir" /\ marker' = plan
          /\ UNCHANGED <<path, kept, receipt, events, work, attached>>
      BY <1>3 DEF PublishMarker, Goto, UpgradeInv, Typed, WorkTyped
    <2>2. /\ plan \in Plan /\ plan # NoPlan /\ plan.admission # NoAdmission /\ Justified(plan)
          /\ plan.source = path /\ plan.files = Existing(path) /\ "main" \in plan.files
          /\ ~kept[plan.dir].exists
      BY <1>1 DEF UpgradeInv, Stage, Prepares, Typed, WorkTyped, Memory
    <2>3. (\A q \in Process \ {p} : pc[q] \notin Preserving) /\ ~IsCurrent(path) /\ attached[p] = {}
      BY <1>1, MovesAlone DEF Preserving
    <2>4. Onward(p)
      BY <1>1, <2>1, <2>3 DEF Onward, StepIsTyped
    <2>5. Justified(plan)'
      BY <2>2, <2>4, KeptStays DEF UpgradeInv
    <2>6. Plans' = Plans
      BY <2>1 DEF Plans
    <2>7. DirectoriesAgree'
      BY <1>3, <2>1, <2>6 DEF UpgradeInv, DiskInv, DirectoriesAgree
    <2>8. RecordsAreSound'
      BY <2>1, <2>6, <1>1 DEF UpgradeInv, DiskInv, RecordsAreSound, Kept, IsKept, Justified, Admitted
    <2>9. MarkerIsSound'
      BY <2>1, <2>2, <2>3, <2>5 DEF MarkerIsSound
    <2>10. \A f \in plan.files : plan.source[f] # Nothing
      BY <2>2 DEF Existing
    <2>11. MarkerIsResumable'
      <3>1. kept[plan.dir].files = NoFiles
        BY <2>2 DEF UpgradeInv, DiskInv, DirectoriesAgree, Plan
      <3>2. \A f \in plan.files : kept[plan.dir].files[f] = Nothing
        BY <2>2, <3>1 DEF NoFiles, Plan
      <3>3. QED BY <2>1, <2>2, <2>10, <3>2 DEF MarkerIsResumable
    <2>12. Moves(p)'
      <3>1. "mkdir" \notin Copied
        BY DEF Copied
      <3>2. QED BY <2>1, <2>2, <2>5, <2>10, <3>1 DEF Moves
    <2>13. Prepares(p)'
      BY <2>1 DEF Prepares
    <2>14. QED
      BY <2>1, <2>3, <2>4, <2>7, <2>8, <2>9, <2>11, <2>12, <2>13, PreservingStage
      DEF DiskInv, Preserving
  <1>4. QED BY <1>2, <1>3

\* What one that moves the store knows.
LEMMA MovesWhat ==
  ASSUME UpgradeInv, NEW p \in Process, pc[p] \in Moving
  PROVE  LET plan == work[p].plan IN
         /\ plan \in Plan /\ plan.dir \in Instant /\ plan.files \subseteq Files
         /\ marker \in Plan /\ marker # NoPlan /\ "main" \in plan.files
         /\ Moves(p) /\ MarkerIsSound /\ MarkerIsResumable
         /\ (\A q \in Process \ {p} : pc[q] \notin Preserving)
         /\ ~IsCurrent(path) /\ attached[p] = {}
         /\ work[p].left \subseteq Files
  <1>1. Moves(p) /\ MarkerIsSound /\ MarkerIsResumable
    BY DEF UpgradeInv, Stage, DiskInv
  <1>2. marker # NoPlan /\ work[p].plan # NoPlan /\ work[p].plan.files = marker.files
    BY <1>1 DEF Moves
  <1>3. "main" \in marker.files
    BY <1>1, <1>2 DEF MarkerIsSound
  <1>4. work[p].plan \in Plan /\ marker \in Plan /\ work[p].left \subseteq Files
    BY <1>2 DEF UpgradeInv, Typed, DiskTyped, WorkTyped, Memory
  <1>5. work[p].plan.dir \in Instant /\ work[p].plan.files \subseteq Files
    BY <1>4 DEF Plan
  <1>6. (\A q \in Process \ {p} : pc[q] \notin Preserving) /\ ~IsCurrent(path) /\ attached[p] = {}
    BY MovesAlone, StageLabels
  <1>7. QED BY <1>1, <1>2, <1>3, <1>4, <1>5, <1>6

LEMMA MakeDirectoryGood ==
  ASSUME UpgradeInv, NEW p \in Process, MakeDirectory(p)
  PROVE  Good(p)
  <1>1. pc[p] = "mkdir" /\ UNCHANGED <<shown, present, path, marker, receipt, events, attached>>
    BY DEF MakeDirectory, world, rest, At
  <1> PICK plan : plan = work[p].plan
    OBVIOUS
  <1>2. /\ plan \in Plan /\ plan.dir \in Instant /\ plan.files \subseteq Files
        /\ marker \in Plan /\ marker # NoPlan /\ "main" \in plan.files
        /\ Moves(p) /\ MarkerIsSound /\ MarkerIsResumable
        /\ (\A q \in Process \ {p} : pc[q] \notin Preserving)
        /\ ~IsCurrent(path) /\ attached[p] = {}
    BY <1>1, MovesWhat DEF Moving
  <1>3. StepIsTyped(p)
    BY <1>2, MakeDirectoryTyped DEF UpgradeInv
  <1>4. /\ pc'[p] = "copy" /\ kept' = [kept EXCEPT ![plan.dir].exists = TRUE]
        /\ work'[p] = [work[p] EXCEPT !.left = plan.files]
    BY DEF MakeDirectory, Goto, UpgradeInv, Typed, WorkTyped
  <1>5. /\ \A d \in Instant : kept'[d].files = kept[d].files /\ (kept[d].exists => kept'[d].exists)
        /\ kept'[plan.dir].exists
    BY <1>2, <1>4 DEF UpgradeInv, Typed, DiskTyped
  <1>6. Onward(p)
    BY <1>1, <1>2, <1>3, <1>5 DEF Onward, StepIsTyped
  <1>7. Plans' = Plans /\ Plans \subseteq Plan
    BY <1>1 DEF Plans, UpgradeInv, Typed, DiskTyped
  <1>8. DirectoriesAgree'
    BY <1>1, <1>5, <1>7 DEF UpgradeInv, DiskInv, DirectoriesAgree
  <1>9. RecordsAreSound'
    BY <1>6, <1>7, KeptStays DEF UpgradeInv, DiskInv, RecordsAreSound
  <1>10. marker.dir \in Instant /\ kept'[marker.dir].files = kept[marker.dir].files
    BY <1>2, <1>5 DEF Plan
  <1>11. MarkerIsSound' /\ MarkerIsResumable'
    <2>1. Justified(marker) => Justified(marker)'
      BY <1>1 DEF Justified, Admitted
    <2>2. MarkerIsSound'
      BY <1>1, <1>2, <1>10, <2>1 DEF MarkerIsSound
    <2>3. QED BY <1>1, <1>2, <1>10, <2>2 DEF MarkerIsResumable
  <1>12. /\ work'[p].plan = plan /\ work'[p].left = plan.files
         /\ work'[p].recovered = work[p].recovered
    BY <1>4 DEF UpgradeInv, Typed, WorkTyped, Memory
  <1>13. Moves(p)'
    <2>1. Justified(plan)'
      BY <1>1, <1>2, <1>6, KeptStays DEF Moves, Moving, UpgradeInv
    <2>2. "copy" \notin Copied /\ pc[p] \in Moving
      BY <1>1 DEF Copied, Moving
    <2>3. QED BY <1>1, <1>2, <1>4, <1>5, <1>12, <2>1, <2>2 DEF Moves
  <1>14. Prepares(p)'
    BY <1>4 DEF Prepares
  <1>15. QED
    BY <1>1, <1>2, <1>4, <1>6, <1>8, <1>9, <1>11, <1>12, <1>13, <1>14, PreservingStage
    DEF DiskInv, Preserving

\* A step that moves the store and leaves the disk as it is.
LEMMA MovesOn ==
  ASSUME UpgradeInv, NEW p \in Process, StepIsTyped(p), pc[p] \in Moving,
         UNCHANGED <<stored, shown, present, attached, work>>, pc'[p] \in Moving, Moves(p)'
  PROVE  Good(p)
  <1>1. Onward(p) /\ DiskInv' /\ UNCHANGED <<receipt, path>>
    BY Steady DEF stored
  <1>2. ~IsCurrent(path) /\ attached[p] = {}
    BY MovesWhat
  <1>3. Prepares(p)'
    BY DEF Prepares, Moving
  <1>4. QED BY <1>1, <1>2, <1>3, PreservingStage, StageLabels

LEMMA CopyGood ==
  ASSUME UpgradeInv, NEW p \in Process, CopyFile(p)
  PROVE  Good(p)
  <1>1. pc[p] = "copy" /\ UNCHANGED <<shown, present>>
    BY DEF CopyFile, world, rest, At
  <1> PICK plan : plan = work[p].plan
    OBVIOUS
  <1> PICK f : f = First(work[p].left)
    OBVIOUS
  <1> PICK left : left = work[p].left
    OBVIOUS
  <1>2. /\ plan \in Plan /\ plan.dir \in Instant /\ plan.files \subseteq Files
        /\ marker \in Plan /\ marker # NoPlan /\ "main" \in plan.files
        /\ Moves(p) /\ MarkerIsSound /\ MarkerIsResumable
        /\ (\A q \in Process \ {p} : pc[q] \notin Preserving)
        /\ ~IsCurrent(path) /\ attached[p] = {}
    BY <1>1, MovesWhat DEF Moving
  <1>3. StepIsTyped(p)
    BY <1>2, CopyTyped DEF UpgradeInv
  <1>4. /\ plan.dir = marker.dir /\ plan.files = marker.files
        /\ plan.admission # NoAdmission /\ Justified(plan)
        /\ IF marker.admission = NoAdmission THEN QuietFiles(plan.source) ELSE plan = marker
        /\ \A g \in plan.files : plan.source[g] # Nothing
        /\ kept[plan.dir].exists
        /\ left # {} /\ left \subseteq plan.files
        /\ \A g \in plan.files \ left : IsKept(plan, g)
    BY <1>1, <1>2 DEF Moves, Moving
  <1>5. f \in left /\ f \in Files /\ f \in plan.files
    BY <1>2, <1>4, FirstIs
  <1> DEFINE copy == kept[plan.dir].files[f]
             bad == \/ path[f] = Nothing /\ copy = Nothing
                    \/ \E bytes \in {path[f], copy} : bytes \notin {Nothing, plan.source[f]}
  <1>6. CASE bad
    <2>1. Refuse(p)
      BY <1>6 DEF CopyFile
    <2>2. QED BY <1>1, <1>3, <2>1, Refuses DEF Connected, Good
  <1>7. CASE ~bad
    <2>1. /\ kept' = [kept EXCEPT ![plan.dir].files[f] = plan.source[f]]
          /\ IF left = {f}
             THEN work' = [work EXCEPT ![p].left = plan.files] /\ Goto(p, "verify")
             ELSE work' = [work EXCEPT ![p].left = @ \ {f}] /\ UNCHANGED pc
          /\ UNCHANGED <<path, marker, receipt, events, attached>>
      BY <1>7 DEF CopyFile
    <2>2. /\ path[f] \in {Nothing, plan.source[f]} /\ copy \in {Nothing, plan.source[f]}
          /\ plan.source[f] # Nothing
      BY <1>4, <1>5, <1>7
    <2>3. /\ \A d \in Instant, g \in Files : kept'[d].files[g] =
               IF d = plan.dir /\ g = f THEN plan.source[f] ELSE kept[d].files[g]
          /\ \A d \in Instant : kept'[d].exists = kept[d].exists
          /\ \A d \in Instant : d # plan.dir => kept'[d] = kept[d]
      <3>1. kept \in [Instant -> [exists : BOOLEAN, files : [Files -> Byte]]]
        BY DEF UpgradeInv, Typed, DiskTyped, Bytes
      <3>2. PICK r : r = [kept[plan.dir] EXCEPT !.files = [@ EXCEPT ![f] = plan.source[f]]]
        OBVIOUS
      <3>3. kept' = [kept EXCEPT ![plan.dir] = r]
        BY <2>1, <3>2
      <3>4. /\ r.exists = kept[plan.dir].exists
            /\ \A g \in Files : r.files[g] =
                 IF g = f THEN plan.source[f] ELSE kept[plan.dir].files[g]
        BY <1>2, <1>5, <3>1, <3>2
      <3>5. \A d \in Instant : kept'[d] = IF d = plan.dir THEN r ELSE kept[d]
        BY <1>2, <3>1, <3>3
      <3>6. QED BY <3>4, <3>5
    <2>4. Onward(p)
      <3>1. \A d \in Instant, g \in Files :
              kept[d].files[g] # Nothing => kept'[d].files[g] = kept[d].files[g]
        BY <2>2, <2>3
      <3>2. \A d \in Instant : kept[d].exists => kept'[d].exists
        BY <2>3
      <3>3. Alone(p) /\ DiskTyped' /\ WorldTyped'
        BY <1>3 DEF StepIsTyped
      <3>4. QED BY <1>1, <1>2, <2>1, <3>1, <3>2, <3>3 DEF Onward
    <2>5. Plans' = Plans /\ Plans \subseteq Plan
      BY <2>1 DEF Plans, UpgradeInv, Typed, DiskTyped
    <2>6. DirectoriesAgree'
      <3>1. \A d \in Instant : ~kept'[d].exists => kept'[d].files = NoFiles
        BY <1>4, <2>3 DEF UpgradeInv, DiskInv, DirectoriesAgree
      <3>2. ASSUME NEW d \in Instant, kept'[d].files["main"] # Nothing
            PROVE  \E other \in Plans \cup ({marker} \ {NoPlan}) : other.dir = d
        <4>1. CASE d = plan.dir
          BY <1>2, <1>4, <4>1
        <4>2. CASE d # plan.dir
          BY <2>3, <3>2, <4>2 DEF UpgradeInv, DiskInv, DirectoriesAgree
        <4>3. QED BY <4>1, <4>2
      <3>3. QED BY <2>1, <2>5, <3>1, <3>2 DEF DirectoriesAgree
    <2>7. RecordsAreSound'
      BY <2>4, <2>5, KeptStays DEF UpgradeInv, DiskInv, RecordsAreSound
    <2>8. Justified(plan)' /\ (Justified(marker) => Justified(marker)')
      BY <1>1, <1>2, <1>4, <2>1, <2>4, KeptStays DEF UpgradeInv, Justified, Admitted
    <2>9. MarkerIsSound'
      <3>1. marker.admission = NoAdmission => QuietFiles(kept'[marker.dir].files)
        BY <1>2, <1>4, <2>3 DEF MarkerIsSound, QuietFiles
      <3>2. QED BY <1>2, <2>1, <2>8, <3>1 DEF MarkerIsSound
    <2>10. MarkerIsResumable'
      <3>1. ASSUME NEW g \in marker.files
            PROVE  LET bytes == {path[g], kept'[marker.dir].files[g]} \ {Nothing}
                   IN bytes # {} /\ (marker.admission # NoAdmission => bytes = {marker.source[g]})
        <4>1. CASE g = f
          <5>1. kept'[marker.dir].files[g] = plan.source[f]
            BY <1>2, <1>4, <1>5, <2>3, <4>1
          <5>2. QED BY <1>4, <2>2, <4>1, <5>1
        <4>2. CASE g # f
          <5>1. g \in Files
            BY <1>2, <1>4
          <5>2. kept'[marker.dir].files[g] = kept[marker.dir].files[g]
            BY <1>2, <1>4, <2>3, <4>2, <5>1
          <5>3. QED BY <1>2, <5>2 DEF MarkerIsResumable
        <4>3. QED BY <4>1, <4>2
      <3>2. QED BY <2>1, <3>1 DEF MarkerIsResumable
    <2>11. \A g \in plan.files \ (left \ {f}) : IsKept(plan, g)'
      <3>1. IsKept(plan, f)'
        BY <1>2, <1>5, <2>2, <2>3 DEF IsKept
      <3>2. QED BY <1>2, <1>4, <2>4, <3>1, KeptStays DEF UpgradeInv
    <2>12. /\ work'[p].plan = plan /\ work'[p].recovered = work[p].recovered
           /\ IF left = {f} THEN work'[p].left = plan.files /\ pc'[p] = "verify"
              ELSE work'[p].left = left \ {f} /\ pc'[p] = "copy"
      <3>1. CASE left = {f}
        <4>1. work' = [work EXCEPT ![p].left = plan.files] /\ Goto(p, "verify")
          BY <2>1, <3>1
        <4>2. QED BY <3>1, <4>1 DEF Goto, UpgradeInv, Typed, WorkTyped, Memory
      <3>2. CASE left # {f}
        <4>1. work' = [work EXCEPT ![p].left = @ \ {f}] /\ UNCHANGED pc
          BY <2>1, <3>2
        <4>2. QED BY <1>1, <3>2, <4>1 DEF UpgradeInv, Typed, WorkTyped, Memory
      <3>3. QED BY <3>1, <3>2
    <2>13. Moves(p)'
      <3>1. marker' = marker /\ kept'[plan.dir].exists
        BY <1>2, <1>4, <2>1, <2>3
      <3>2. QuietFiles(plan.source)' <=> QuietFiles(plan.source)
        BY DEF QuietFiles
      <3>3. CASE left = {f}
        <4>1. Kept(plan)'
          BY <2>11, <3>3 DEF Kept
        <4>2. QED
          BY <1>2, <1>4, <2>8, <2>12, <3>1, <3>2, <3>3, <4>1, SomePlan DEF Moves, Copied, Moving
      <3>4. CASE left # {f}
        <4>1. left \ {f} # {} /\ left \ {f} \subseteq plan.files /\ "copy" \notin Copied
          BY <1>4, <1>5, <3>4 DEF Copied, Moving
        <4>2. QED
          BY <1>2, <1>4, <2>8, <2>11, <2>12, <3>1, <3>2, <3>4, <4>1, SomePlan DEF Moves
      <3>5. QED BY <3>3, <3>4
    <2>14. Prepares(p)' /\ pc'[p] \in Preserving
      BY <2>12 DEF Prepares, Preserving
    <2>15. QED
      BY <1>2, <2>1, <2>4, <2>6, <2>7, <2>9, <2>10, <2>12, <2>13, <2>14, PreservingStage
      DEF DiskInv
  <1>8. QED BY <1>6, <1>7

LEMMA VerifyGood ==
  ASSUME UpgradeInv, NEW p \in Process, VerifySource(p)
  PROVE  Good(p)
  <1> DEFINE same == path[First(work[p].left)] \in {Nothing, work[p].plan.source[First(work[p].left)]}
  <1>1. StepIsTyped(p) /\ UNCHANGED <<shown, present>> /\ pc[p] = "verify"
    BY VerifyTyped DEF VerifySource, UpgradeInv, world, rest, At
  <1>2. CASE ~same
    BY <1>1, <1>2, Refuses DEF VerifySource, Connected, Good
  <1>3. CASE same
    <2>1. pc'[p] = "unlink" /\ UNCHANGED <<stored, path, kept, marker, receipt, attached, work>>
      BY <1>3 DEF VerifySource, Goto, stored, UpgradeInv, Typed, WorkTyped
    <2>2. Moves(p)
      BY DEF UpgradeInv, Stage
    <2>3. Moves(p)'
      BY <1>1, <2>1, <2>2 DEF Moves, Moving, Copied, Kept, IsKept, Justified, Admitted
    <2>4. QED BY <1>1, <2>1, <2>3, MovesOn DEF Moving, Preserving
  <1>4. QED BY <1>2, <1>3

LEMMA CheckGood ==
  ASSUME UpgradeInv, NEW p \in Process, CheckRemoved(p)
  PROVE  Good(p)
  <1> DEFINE done == Existing(path) = {} /\ Completed(work[p].plan)
  <1>1. StepIsTyped(p) /\ UNCHANGED <<shown, present>> /\ pc[p] = "check"
    BY CheckTyped DEF CheckRemoved, UpgradeInv, world, rest, At
  <1>2. CASE ~done
    BY <1>1, <1>2, Refuses DEF CheckRemoved, Connected, Good
  <1>3. CASE done
    <2>1. pc'[p] = "promote" /\ UNCHANGED <<stored, path, kept, marker, receipt, attached, work>>
      BY <1>3 DEF CheckRemoved, Goto, stored, UpgradeInv, Typed, WorkTyped
    <2>2. Moves(p)
      BY DEF UpgradeInv, Stage
    <2>3. Moves(p)'
      BY <1>1, <2>1, <2>2 DEF Moves, Moving, Copied, Kept, IsKept, Justified, Admitted
    <2>4. QED BY <1>1, <2>1, <2>3, MovesOn DEF Moving, Preserving
  <1>4. QED BY <1>2, <1>3

LEMMA RemoveSourceGood ==
  ASSUME UpgradeInv, NEW p \in Process, RemoveSource(p)
  PROVE  Good(p)
  <1>1. pc[p] = "unlink" /\ UNCHANGED <<shown, present, kept, marker, receipt>>
    BY DEF RemoveSource, world, rest, At
  <1> PICK plan : plan = work[p].plan
    OBVIOUS
  <1> PICK f : f = First(work[p].left)
    OBVIOUS
  <1>2. /\ plan \in Plan /\ plan.dir \in Instant /\ plan.files \subseteq Files
        /\ marker \in Plan /\ marker # NoPlan /\ "main" \in plan.files
        /\ Moves(p) /\ MarkerIsSound /\ MarkerIsResumable
        /\ (\A q \in Process \ {p} : pc[q] \notin Preserving)
        /\ ~IsCurrent(path) /\ attached[p] = {}
    BY <1>1, MovesWhat DEF Moving
  <1>3. StepIsTyped(p)
    BY RemoveSourceTyped DEF UpgradeInv
  <1>4. /\ plan.dir = marker.dir /\ plan.files = marker.files
        /\ IF marker.admission = NoAdmission THEN QuietFiles(plan.source) ELSE plan = marker
        /\ \A g \in plan.files : plan.source[g] # Nothing
        /\ work[p].left # {} /\ work[p].left \subseteq plan.files
        /\ Kept(plan)
    BY <1>1, <1>2 DEF Moves, Moving, Copied
  <1>5. f \in work[p].left /\ f \in Files /\ f \in plan.files
    BY <1>2, <1>4, FirstIs
  <1>6. path' = [path EXCEPT ![f] = Nothing] /\ events' = events
    BY <1>2 DEF RemoveSource
  <1>7. /\ \A g \in Files : path'[g] = IF g = f THEN Nothing ELSE path[g]
        /\ path'[f] = Nothing
    BY <1>5, <1>6 DEF UpgradeInv, Typed, DiskTyped, Bytes
  <1>8. ~IsCurrent(path')
    BY <1>2, <1>7 DEF IsCurrent, New, Nothing, Files
  <1>9. Onward(p)
    BY <1>1, <1>2, <1>3, <1>6 DEF Onward, StepIsTyped
  <1>10. Plans' = Plans /\ Plans \subseteq Plan
    BY <1>1, <1>6 DEF Plans, UpgradeInv, Typed, DiskTyped
  <1>11. DirectoriesAgree'
    BY <1>1, <1>10 DEF UpgradeInv, DiskInv, DirectoriesAgree
  <1>12. RecordsAreSound'
    BY <1>9, <1>10, KeptStays DEF UpgradeInv, DiskInv, RecordsAreSound
  <1>13. MarkerIsSound'
    <2>1. Justified(marker) => Justified(marker)'
      BY <1>1 DEF Justified, Admitted
    <2>2. QuietFiles(path) => QuietFiles(path')
      BY <1>7 DEF QuietFiles
    <2>3. QED BY <1>1, <1>2, <1>8, <2>1, <2>2 DEF MarkerIsSound
  <1>14. MarkerIsResumable'
    <2>1. ASSUME NEW g \in marker.files
          PROVE  LET bytes == {path'[g], kept[marker.dir].files[g]} \ {Nothing}
                 IN bytes # {} /\ (marker.admission # NoAdmission => bytes = {marker.source[g]})
      <3>1. IsKept(plan, g) /\ g \in Files
        BY <1>2, <1>4 DEF Kept
      <3>2. kept[marker.dir].files[g] = plan.source[g] /\ plan.source[g] # Nothing
        BY <1>4, <3>1 DEF IsKept
      <3>3. path'[g] \in {Nothing, path[g]}
        BY <1>7, <3>1
      <3>4. QED BY SMTT(40), <1>2, <1>4, <3>2, <3>3 DEF MarkerIsResumable
    <2>2. QED BY <1>1, <2>1 DEF MarkerIsResumable
  <1>15. /\ work'[p].plan = plan /\ work'[p].left = work[p].left \ {f}
         /\ work'[p].recovered = work[p].recovered
         /\ pc'[p] = IF work[p].left = {f} THEN "check" ELSE "verify"
    BY DEF RemoveSource, Goto, UpgradeInv, Typed, WorkTyped, Memory
  <1>16. Moves(p)'
    <2>1. Justified(plan)' /\ Kept(plan)' /\ pc[p] \in Moving
      BY <1>1, <1>2, <1>4, <1>9, KeptStays DEF Moves, Moving, UpgradeInv
    <2>2. kept'[plan.dir].exists /\ plan # NoPlan /\ plan.admission # NoAdmission
      BY <1>1, <1>2, <2>1 DEF Moves
    <2>3. QuietFiles(plan.source)' <=> QuietFiles(plan.source)
      BY DEF QuietFiles
    <2>4. work[p].left # {f} => work[p].left \ {f} # {} /\ work[p].left \ {f} \subseteq plan.files
      BY <1>4, <1>5
    <2>5. pc'[p] \in {"check", "verify"}
      BY <1>15
    <2>6. QED BY <1>1, <1>2, <1>4, <1>15, <2>1, <2>2, <2>3, <2>4, <2>5 DEF Moves
  <1>17. Prepares(p)' /\ pc'[p] \in Preserving
    BY <1>15 DEF Prepares, Preserving
  <1>18. attached'[p] = {}
    BY <1>2 DEF RemoveSource, Unlinked
  <1>19. QED
    BY <1>1, <1>8, <1>9, <1>11, <1>12, <1>13, <1>14, <1>15, <1>16, <1>17, <1>18, PreservingStage
    DEF DiskInv

LEMMA PromoteGood ==
  ASSUME UpgradeInv, NEW p \in Process, Promote(p)
  PROVE  Good(p)
  <1> DEFINE agrees == Compatible(work[p].plan) /\ receipt \in {NoPlan, work[p].plan}
  <1>1. StepIsTyped(p) /\ UNCHANGED <<shown, present>> /\ pc[p] = "promote"
    BY PromoteTyped DEF Promote, UpgradeInv, world, rest, At
  <1>2. CASE ~agrees
    BY <1>1, <1>2, Refuses DEF Promote, Connected, Good
  <1>3. CASE agrees
    <2> PICK plan : plan = work[p].plan
      OBVIOUS
    <2>1. /\ pc'[p] = "unmark" /\ receipt' = plan /\ receipt \in {NoPlan, plan}
          /\ UNCHANGED <<path, kept, marker, events, attached, work>>
      BY <1>3 DEF Promote, Goto, UpgradeInv, Typed, WorkTyped
    <2>2. /\ plan \in Plan /\ marker # NoPlan /\ Moves(p)
          /\ (\A q \in Process \ {p} : pc[q] \notin Preserving)
          /\ ~IsCurrent(path) /\ attached[p] = {}
      BY <1>1, MovesWhat DEF Moving
    <2>3. Kept(plan) /\ Justified(plan) /\ plan # NoPlan
      BY <1>1, <2>2 DEF Moves, Moving, Copied
    <2>4. Onward(p)
      BY <1>1, <2>1, <2>2 DEF Onward, StepIsTyped
    <2>5. Plans' = Plans \cup {plan} /\ Plans' \subseteq Plan
      BY <2>1, <2>2, <2>3 DEF Plans, UpgradeInv, Typed, DiskTyped
    <2>6. DirectoriesAgree'
      BY <2>1, <2>5 DEF UpgradeInv, DiskInv, DirectoriesAgree
    <2>7. RecordsAreSound'
      BY <2>2, <2>3, <2>4, <2>5, KeptStays DEF UpgradeInv, DiskInv, RecordsAreSound
    <2>8. MarkerIsSound' /\ MarkerIsResumable'
      BY <1>1, <2>1 DEF UpgradeInv, DiskInv, MarkerIsSound, MarkerIsResumable, Justified, Admitted
    <2>9. Moves(p)'
      BY <1>1, <2>1, <2>2 DEF Moves, Moving, Copied, Kept, IsKept, Justified, Admitted
    <2>10. Watches(p)' /\ Prepares(p)'
      BY <2>1, <2>2 DEF Watches, Prepares
    <2>11. Remembers(p)'
      <3> PICK r : r = work[p].recovered
        OBVIOUS
      <3>1. Remembers(p)
        BY DEF UpgradeInv, Stage
      <3>2. CASE r # NoPlan
        <4>1. r \in Plan /\ Kept(r) /\ Justified(r) /\ receipt = r
          BY <2>2, <3>1, <3>2 DEF Remembers, UpgradeInv, Typed, WorkTyped, Memory
        <4>2. Kept(r)' /\ Justified(r)'
          BY <2>4, <4>1, KeptStays DEF UpgradeInv
        <4>3. receipt' = r
          BY <2>1, <3>2, <4>1
        <4>4. QED BY <2>1, <4>2, <4>3 DEF Remembers
      <3>3. CASE r = NoPlan
        BY <2>1, <3>3 DEF Remembers
      <3>4. QED BY <3>2, <3>3
    <2>12. QED BY <2>4, <2>6, <2>7, <2>8, <2>9, <2>10, <2>11 DEF DiskInv, Stage, Good
  <1>4. QED BY <1>2, <1>3

LEMMA RemoveMarkerGood ==
  ASSUME UpgradeInv, NEW p \in Process, RemoveMarker(p)
  PROVE  Good(p)
  <1>1. /\ StepIsTyped(p) /\ pc[p] = "unmark" /\ marker' = NoPlan
        /\ UNCHANGED <<shown, present, kept, receipt, events>>
    BY RemoveMarkerTyped DEF RemoveMarker, UpgradeInv, world, rest, At
  <1>2. /\ Moves(p) /\ (\A q \in Process \ {p} : pc[q] \notin Preserving)
        /\ attached[p] = {} /\ ~IsCurrent(path)
    BY <1>1, MovesWhat DEF Moving
  <1>3. path' = path /\ pc'[p] = "idle" /\ work'[p] = AtRest /\ attached'[p] = {}
    BY <1>2, EndLeaves DEF RemoveMarker, UpgradeInv
  <1>4. receipt # NoPlan /\ receipt.dir = marker.dir
    BY <1>1, <1>2 DEF Moves, Moving
  <1>5. Onward(p)
    BY <1>1, <1>2, <1>3 DEF Onward, StepIsTyped
  <1>6. Plans' = Plans /\ receipt \in Plans
    BY <1>1, <1>4 DEF Plans
  <1>7. DirectoriesAgree'
    BY <1>1, <1>4, <1>6 DEF UpgradeInv, DiskInv, DirectoriesAgree
  <1>8. RecordsAreSound'
    BY <1>1, <1>6 DEF UpgradeInv, DiskInv, RecordsAreSound, Kept, IsKept, Justified, Admitted
  <1>9. MarkerIsSound' /\ MarkerIsResumable'
    BY <1>1 DEF MarkerIsSound, MarkerIsResumable
  <1>10. QED BY <1>3, <1>5, <1>7, <1>8, <1>9, IdleStage DEF DiskInv, Good

LEMMA ConnectGood ==
  ASSUME UpgradeInv, NEW p \in Process, Connect(p)
  PROVE  Good(p)
  <1>1. /\ StepIsTyped(p) /\ UNCHANGED <<kept, marker, receipt, events, work, shown, present>>
        /\ pc[p] = "connect" /\ pc'[p] = "pragma"
    BY ConnectTyped DEF Connect, Goto, UpgradeInv, Typed, WorkTyped, world, rest, At
  <1>2. IsCurrent(path) => IsCurrent(path')
    BY DEF Connect, IsCurrent, New, Nothing
  <1>3. Onward(p) /\ DiskInv'
    BY <1>1, <1>2, FreshFiles, NobodyMoves DEF Making
  <1>4. QED BY <1>1, <1>3, PlainStage DEF Preserving, Connected

LEMMA SwitchToLogGood ==
  ASSUME UpgradeInv, NEW p \in Process, SwitchToLog(p)
  PROVE  Good(p)
  <1>1. /\ StepIsTyped(p) /\ UNCHANGED <<kept, marker, receipt, events, work, shown, present>>
        /\ pc[p] = "pragma" /\ pc'[p] \in {"load", "initialize"}
    BY SwitchToLogTyped DEF SwitchToLog, Goto, UpgradeInv, Typed, WorkTyped, world, rest, At
  <1>2. IsCurrent(path) => IsCurrent(path')
    BY DEF SwitchToLog, IsCurrent, New, Nothing
  <1>3. Onward(p) /\ DiskInv'
    BY <1>1, <1>2, FreshFiles, NobodyMoves DEF Making
  <1>4. QED BY <1>1, <1>3, PlainStage DEF Preserving, Connected

\* The last connection may check the fresh tables in.
LEMMA EndsFresh ==
  ASSUME UpgradeInv, NEW p \in Process, StepIsTyped(p), End(p),
         UNCHANGED <<kept, marker, receipt, events, shown, present>>,
         pc[p] \in Making \/ IsCurrent(path)
  PROVE  Good(p)
  <1>1. /\ pc'[p] = "idle" /\ work'[p] = AtRest /\ attached'[p] = {}
        /\ IsCurrent(path) => IsCurrent(path')
    BY EndLeaves DEF UpgradeInv
  <1>2. QED BY <1>1, FreshFiles, NobodyMoves, IdleStage DEF Good

LEMMA InitializeGood ==
  ASSUME UpgradeInv, NEW p \in Process, Initialize(p)
  PROVE  Good(p)
  <1>1. StepIsTyped(p) /\ UNCHANGED <<shown, present>> /\ pc[p] = "initialize"
    BY InitializeTyped DEF Initialize, UpgradeInv, world, rest, At
  <1>2. CASE attached[p] = Files /\ IsCurrent(path)
    BY <1>1, <1>2, EndsFresh DEF Initialize, Refuse
  <1>3. CASE ~(attached[p] = Files /\ IsCurrent(path))
    <2>1. /\ path' = IF "wal" \in attached[p] THEN [path EXCEPT !["wal"] = New("tables")] ELSE path
          /\ pc'[p] = "load" /\ UNCHANGED <<kept, marker, receipt, events, work, attached>>
      BY <1>3 DEF Initialize, Goto, UpgradeInv, Typed, WorkTyped
    <2>2. IsCurrent(path) => IsCurrent(path')
      BY <2>1 DEF IsCurrent, UpgradeInv, Typed, DiskTyped, Bytes, Files
    <2>3. Onward(p) /\ DiskInv'
      BY <1>1, <2>1, <2>2, FreshFiles, NobodyMoves DEF Making
    <2>4. QED BY <2>1, <2>3, PlainStage DEF Preserving, Connected
  <1>4. QED BY <1>2, <1>3

LEMMA LoadGood ==
  ASSUME UpgradeInv, NEW p \in Process, LoadStore(p)
  PROVE  Good(p)
  <1>1. /\ StepIsTyped(p) /\ UNCHANGED <<kept, marker, receipt, events, shown, present>>
        /\ pc[p] = "load"
    BY LoadTyped DEF LoadStore, UpgradeInv, world, rest, At
  <1>2. CASE IsCurrent(path)
    <2>1. /\ pc'[p] = IF work[p].recovered = NoPlan THEN "done" ELSE "record"
          /\ UNCHANGED <<path, work, attached>>
      BY <1>2 DEF LoadStore, Goto, UpgradeInv, Typed, WorkTyped
    <2>2. Onward(p) /\ DiskInv'
      BY <1>1, <2>1, FreshFiles, NobodyMoves DEF Making
    <2>3. Watches(p)'
      BY <1>2, <2>1 DEF Watches, Preserving, Connected
    <2>4. Remembers(p)'
      <3>1. CASE work[p].recovered = NoPlan
        BY <2>1, <3>1 DEF Remembers
      <3>2. CASE work[p].recovered # NoPlan
        <4> PICK r : r = work[p].recovered
          OBVIOUS
        <4>1. Remembers(p) /\ r \in Plan
          BY <3>2 DEF UpgradeInv, Stage, Typed, WorkTyped, Memory
        <4>2. Kept(r)' /\ Justified(r)'
          BY <2>2, <3>2, <4>1, KeptStays DEF Remembers, UpgradeInv
        <4>3. QED BY <1>1, <2>1, <3>2, <4>1, <4>2 DEF Remembers
      <3>3. QED BY <3>1, <3>2
    <2>5. Prepares(p)' /\ Moves(p)'
      BY <2>1 DEF Prepares, Moves, Moving
    <2>6. QED BY <2>2, <2>3, <2>4, <2>5 DEF Good, Stage
  <1>3. CASE ~IsCurrent(path)
    <2>1. pc'[p] = "idle" /\ work'[p] = AtRest /\ attached'[p] = {}
      BY <1>3, EndsHere DEF LoadStore, UpgradeInv
    <2>2. QED BY <1>1, <1>3, <2>1, FreshFiles, NobodyMoves, IdleStage DEF Making, Good
  <1>4. QED BY <1>2, <1>3

LEMMA RecordGood ==
  ASSUME UpgradeInv, NEW p \in Process, RecordAdmission(p)
  PROVE  Good(p)
  <1> PICK r : r = work[p].recovered
    OBVIOUS
  <1>1. UNCHANGED <<kept, marker, receipt, shown, present>> /\ pc[p] = "record"
    BY DEF RecordAdmission, world, rest, At
  <1>2. r # NoPlan /\ r \in Plan /\ Remembers(p)
    BY <1>1 DEF UpgradeInv, Stage, Remembers, Typed, WorkTyped, Memory
  <1>3. StepIsTyped(p)
    BY <1>2, RecordTyped DEF UpgradeInv
  <1>4. marker = NoPlan /\ \A q \in Process \ {p} : pc[q] \notin Preserving
    BY <1>1, NobodyMoves DEF Making
  <1>5. CASE IsCurrent(path)
    <2>1. /\ pc'[p] = "clear" /\ UNCHANGED <<path, work, attached>> /\ events' = events \cup {r}
      BY <1>5 DEF RecordAdmission, Goto, UpgradeInv, Typed, WorkTyped
    <2>2. Onward(p)
      BY <1>1, <1>3, <1>4, <2>1 DEF Onward, StepIsTyped
    <2>3. Kept(r) /\ Justified(r) /\ Kept(r)' /\ Justified(r)'
      BY <1>2, <2>2, KeptStays DEF Remembers, UpgradeInv
    <2>4. Plans' = Plans \cup {r} /\ Plans' \subseteq Plan
      BY <1>1, <1>2, <2>1 DEF Plans, UpgradeInv, Typed, DiskTyped
    <2>5. DirectoriesAgree'
      BY <1>1, <2>4 DEF UpgradeInv, DiskInv, DirectoriesAgree
    <2>6. RecordsAreSound'
      BY <2>2, <2>3, <2>4, KeptStays DEF UpgradeInv, DiskInv, RecordsAreSound
    <2>7. MarkerIsSound' /\ MarkerIsResumable'
      BY <1>1, <1>4 DEF MarkerIsSound, MarkerIsResumable
    <2>8. Remembers(p)'
      BY <1>1, <1>2, <2>1, <2>3 DEF Remembers
    <2>9. Watches(p)' /\ Prepares(p)' /\ Moves(p)'
      BY <1>5, <2>1 DEF Watches, Prepares, Moves, Moving, Preserving, Connected
    <2>10. QED BY <2>2, <2>5, <2>6, <2>7, <2>8, <2>9 DEF DiskInv, Stage, Good
  <1>6. CASE ~IsCurrent(path)
    <2>1. pc'[p] = "idle" /\ work'[p] = AtRest /\ attached'[p] = {} /\ UNCHANGED events
      BY <1>6, EndsHere DEF RecordAdmission, UpgradeInv
    <2>2. QED BY <1>1, <1>3, <1>4, <1>6, <2>1, FreshFiles, IdleStage DEF Good
  <1>7. QED BY <1>5, <1>6

LEMMA ClearGood ==
  ASSUME UpgradeInv, NEW p \in Process, ClearReceipt(p)
  PROVE  Good(p)
  <1> PICK r : r = work[p].recovered
    OBVIOUS
  <1>1. /\ StepIsTyped(p) /\ pc[p] = "clear" /\ pc'[p] = "done" /\ receipt' = NoPlan
        /\ UNCHANGED <<path, kept, marker, events, work, attached, shown, present>>
    BY ClearTyped DEF ClearReceipt, Goto, UpgradeInv, Typed, WorkTyped, world, rest, At
  <1>2. /\ r # NoPlan /\ r \in Plan /\ r \in events /\ Remembers(p) /\ IsCurrent(path)
        /\ receipt \in {r, NoPlan}
    BY <1>1 DEF UpgradeInv, Stage, Watches, Remembers, Typed, WorkTyped, Memory
  <1>3. marker = NoPlan /\ \A q \in Process \ {p} : pc[q] \notin Preserving
    BY <1>2, NobodyMoves
  <1>4. Onward(p)
    BY <1>1, <1>2, <1>3 DEF Onward, StepIsTyped
  <1>5. Plans' = Plans /\ Plans \subseteq Plan
    BY <1>1, <1>2 DEF Plans, UpgradeInv, Typed, DiskTyped
  <1>6. DirectoriesAgree'
    BY <1>1, <1>5 DEF UpgradeInv, DiskInv, DirectoriesAgree
  <1>7. RecordsAreSound'
    BY <1>4, <1>5, KeptStays DEF UpgradeInv, DiskInv, RecordsAreSound
  <1>8. MarkerIsSound' /\ MarkerIsResumable'
    BY <1>1, <1>3 DEF MarkerIsSound, MarkerIsResumable
  <1>9. Remembers(p)'
    <2>1. Kept(r)' /\ Justified(r)'
      BY <1>2, <1>4, KeptStays DEF Remembers, UpgradeInv
    <2>2. QED BY <1>1, <1>2, <2>1 DEF Remembers
  <1>10. Watches(p)' /\ Prepares(p)' /\ Moves(p)'
    BY <1>1, <1>2 DEF Watches, Prepares, Moves, Moving, Preserving, Connected
  <1>11. QED BY <1>4, <1>6, <1>7, <1>8, <1>9, <1>10 DEF DiskInv, Stage, Good

LEMMA OpenedGood ==
  ASSUME UpgradeInv, NEW p \in Process, Opened(p)
  PROVE  Good(p)
  <1>1. /\ StepIsTyped(p) /\ UNCHANGED <<kept, marker, receipt, events, shown, present>>
        /\ End(p) /\ pc[p] = "done"
    BY OpenedTyped DEF Opened, UpgradeInv, world, At
  <1>2. IsCurrent(path)
    BY <1>1 DEF UpgradeInv, Stage, Watches
  <1>3. QED BY <1>1, <1>2, EndsFresh

LEMMA StepGood ==
  ASSUME UpgradeInv, NEW p \in Process, Step(p)
  PROVE  Good(p)
  BY RecoverGood, ReadReceiptGood, RecoverEmptyGood, ValidateGood, InspectVersionGood,
     InspectStrictGood, OperatorReceiptGood, ConfirmGood, RecheckGood, CaptureGood,
     PublishGood, MakeDirectoryGood, CopyGood, VerifyGood, RemoveSourceGood, CheckGood,
     PromoteGood, RemoveMarkerGood, ConnectGood, SwitchToLogGood, InitializeGood, LoadGood,
     RecordGood, ClearGood, OpenedGood
  DEF Step

\* A good step that keeps invocations apart keeps the invariant.
LEMMA GoodKeeps ==
  ASSUME UpgradeInv, NEW p \in Process, Good(p), Apart'
  PROVE  UpgradeInv'
  <1>1. Typed'
    BY DEF Good, Onward, Alone, Typed, WorkTyped
  <1>2. \A q \in Process : Stage(q)'
    BY OthersKeep DEF Good
  <1>3. QED BY <1>1, <1>2 DEF Good, UpgradeInv

\* Where invocations start, and where they die, they stay apart.
LEMMA StaysApart ==
  ASSUME UpgradeInv, NEW p \in Process, Start(p) \/ StartOperator(p) \/ Die(p)
  PROVE  Apart'
  <1>1. /\ pc' = [pc EXCEPT ![p] = "recover"] \/ pc' = [pc EXCEPT ![p] = "idle"]
        /\ marker' = marker
    BY DEF Start, StartOperator, Die, Goto, stored
  <1>2. \A q \in Process : pc'[q] = pc[q] \/ pc'[q] \in {"recover", "idle"}
    BY <1>1 DEF UpgradeInv, Typed, WorkTyped
  <1>3. QED BY <1>1, <1>2 DEF UpgradeInv, Apart, Preserving, Making

-----------------------------------------------------------------------------
(* The world around the invocations.                                       *)

\* Time passes and sessions end.
LEMMA WorldKeeps ==
  ASSUME UpgradeInv, HorizonPasses \/ SessionEnds
  PROVE  UpgradeInv'
  <1>1. /\ UNCHANGED <<stored, path, kept, marker, receipt, events, pc, work, attached, shown>>
        /\ UNCHANGED <<clock, writes>>
    BY DEF HorizonPasses, SessionEnds, stored, rest
  <1>2. expired' \in BOOLEAN /\ present' \in BOOLEAN /\ (present' => present)
    <2>1. expired \in BOOLEAN /\ present \in BOOLEAN
      BY DEF UpgradeInv, Typed, WorldTyped
    <2>2. CASE HorizonPasses
      BY <2>1, <2>2 DEF HorizonPasses
    <2>3. CASE SessionEnds
      BY <2>1, <2>3 DEF SessionEnds
    <2>4. QED BY <2>2, <2>3
  <1>3. Typed'
    BY <1>1, <1>2 DEF UpgradeInv, Typed, DiskTyped, WorkTyped, WorldTyped
  <1>4. Apart' /\ DiskInv'
    BY <1>1, <1>2, DiskStays DEF UpgradeInv, Apart
  <1>5. ASSUME NEW q \in Process PROVE Stage(q)'
    <2>1. Stage(q)
      BY DEF UpgradeInv
    <2>2. Watches(q)' /\ Remembers(q)'
      BY <1>1, <1>2, <2>1 DEF Stage, Watches, Remembers, Kept, IsKept, Justified, Admitted
    <2>3. Prepares(q)'
      BY <1>1, <1>2, <2>1 DEF Stage, Prepares, Justified, Admitted
    <2>4. Moves(q)'
      BY <1>1, <1>2, <2>1 DEF Stage, Moves, Kept, IsKept, Justified, Admitted
    <2>5. QED BY <2>2, <2>3, <2>4 DEF Stage
  <1>6. QED BY <1>3, <1>4, <1>5 DEF UpgradeInv

\* An older process writes to a store nobody has begun to move.
LEMMA OlderWritesKeeps ==
  ASSUME UpgradeInv, Unmarked, OlderWrites
  PROVE  UpgradeInv'
  <1> PICK f : f = First(Existing(path))
    OBVIOUS
  <1>1. PICK s \in {"quiet", "sessions", "controller"} : path' = [path EXCEPT ![f] = Old(writes + 1, s)]
    BY DEF OlderWrites
  <1>2. /\ UNCHANGED <<kept, marker, receipt, events, pc, work, attached, present, shown, clock>>
        /\ writes' = writes + 1 /\ expired' = FALSE /\ path["main"].is = "old"
        /\ marker = NoPlan /\ \A q \in Process : pc[q] # "mark"
    BY DEF OlderWrites, rest, Unmarked
  <1>3. path \in Bytes /\ writes + 1 \in Nat
    BY DEF UpgradeInv, Typed, DiskTyped, WorldTyped
  <1>4. Old(writes + 1, s) \in Byte /\ Old(writes + 1, s).is = "old"
    BY <1>3, OldIsAByte
  <1> HIDE DEF Old
  <1>5. path' \in Bytes /\ path'["main"].is = "old"
    BY <1>1, <1>2, <1>3, <1>4 DEF Bytes, Files
  <1>6. Typed'
    BY <1>2, <1>3, <1>5 DEF UpgradeInv, Typed, DiskTyped, WorkTyped, WorldTyped
  <1>7. ~IsCurrent(path) /\ ~IsCurrent(path') /\ path'["main"] # Nothing
    BY <1>2, <1>5 DEF IsCurrent, New, Nothing
  <1>8. Plans' = Plans
    BY <1>2 DEF Plans
  <1>9. DiskInv'
    BY <1>2, <1>8 DEF UpgradeInv, DiskInv, DirectoriesAgree, RecordsAreSound, MarkerIsSound,
       MarkerIsResumable, Kept, IsKept, Justified, Admitted
  <1>10. Apart'
    BY <1>2 DEF UpgradeInv, Apart
  <1>11. ASSUME NEW q \in Process PROVE Stage(q)'
    <2>1. Stage(q)
      BY DEF UpgradeInv
    <2>2. Watches(q)' /\ Remembers(q)'
      BY <1>2, <1>7, <2>1 DEF Stage, Watches, Remembers, Kept, IsKept, Justified, Admitted
    <2>3. Prepares(q)'
      BY <1>2, <1>7, <2>1 DEF Stage, Prepares, Admitted
    <2>4. Moves(q)'
      BY <1>2, <2>1 DEF Stage, Moves
    <2>5. QED BY <2>2, <2>3, <2>4 DEF Stage
  <1>12. QED BY <1>6, <1>9, <1>10, <1>11 DEF UpgradeInv

-----------------------------------------------------------------------------
(* The theorems.                                                           *)

LEMMA InitIsSound == UpgradeInit => UpgradeInv
  <1> SUFFICES ASSUME UpgradeInit PROVE UpgradeInv
    OBVIOUS
  <1> USE SchemaAssumption
  <1>1. /\ pc = [p \in Process |-> "idle"] /\ work = [p \in Process |-> AtRest]
        /\ attached = [p \in Process |-> {}] /\ receipt = NoPlan /\ events = {}
        /\ shown = {} /\ expired = FALSE /\ present = TRUE /\ clock = 1 /\ writes = 0
    BY DEF UpgradeInit
  <1>2. WorldTyped
    BY <1>1 DEF WorldTyped
  <1>3. AtRest \in Memory
    BY NothingIsAByte DEF AtRest, Memory, Instant
  <1>4. WorkTyped
    BY <1>1, <1>3 DEF WorkTyped, Label
  <1>5. \A q \in Process : Stage(q)
    <2> TAKE q \in Process
    <2>1. pc[q] = "idle" /\ work[q] = AtRest /\ attached[q] = {}
      BY <1>1
    <2>2. Watches(q) /\ Remembers(q)
      BY <2>1 DEF Watches, Remembers, AtRest, Preserving
    <2>3. Prepares(q) /\ Moves(q)
      BY <2>1 DEF Prepares, Moves, Moving
    <2>4. QED BY <2>2, <2>3 DEF Stage
  <1>6. Apart
    BY <1>1 DEF Apart, Preserving, Making
  <1>7. Plans = {}
    BY <1>1 DEF Plans
  <1>8. Old(0, "quiet") \in Byte /\ Old(0, "quiet") # Nothing /\ NoFiles \in Bytes
    BY OldIsAByte, NothingIsAByte
  <1>9. NoDirectory \in [exists : BOOLEAN, files : Bytes]
    BY <1>8 DEF NoDirectory
  <1>10. CASE /\ path \in {NoFiles} \cup
                   {[f \in Files |-> IF f \in fs THEN Old(0, s) ELSE Nothing] :
                      fs \in {{"main"}, Files}, s \in {"quiet", "sessions", "controller"}}
              /\ kept = [d \in 0..MaxClock |-> NoDirectory]
              /\ marker = NoPlan
    <2>1. path \in Bytes
      <3>1. CASE path = NoFiles
        BY <1>8, <3>1
      <3>2. CASE path # NoFiles
        <4>1. PICK fs \in {{"main"}, Files}, s \in {"quiet", "sessions", "controller"} :
                path = [f \in Files |-> IF f \in fs THEN Old(0, s) ELSE Nothing]
          BY <1>10, <3>2
        <4>2. Old(0, s) \in Byte
          BY OldIsAByte
        <4>3. QED BY <4>1, <4>2, NothingIsAByte DEF Bytes
      <3>3. QED BY <3>1, <3>2
    <2>2. DiskTyped
      BY <1>1, <1>9, <1>10, <2>1 DEF DiskTyped, Instant
    <2>3. \A d \in Instant : kept[d].files = NoFiles
      BY <1>10 DEF Instant, NoDirectory
    <2>4. DirectoriesAgree
      BY <2>3 DEF DirectoriesAgree, NoFiles, Files
    <2>5. RecordsAreSound /\ MarkerIsSound /\ MarkerIsResumable
      BY <1>7, <1>10 DEF RecordsAreSound, MarkerIsSound, MarkerIsResumable
    <2>6. QED
      BY <1>2, <1>4, <1>5, <1>6, <2>2, <2>4, <2>5 DEF UpgradeInv, DiskInv, Typed
  <1>11. CASE /\ path = [NoFiles EXCEPT !["main"] = Old(0, "quiet")]
              /\ kept = [d \in 0..MaxClock |-> IF d > 0 THEN NoDirectory ELSE
                           [exists |-> TRUE, files |-> [NoFiles EXCEPT !["wal"] = Old(0, "quiet")]]]
              /\ marker = [dir |-> 0, files |-> Files, source |-> NoFiles, admission |-> NoAdmission]
    <2> DEFINE moved == [NoFiles EXCEPT !["wal"] = Old(0, "quiet")]
    <2>1. /\ path \in Bytes /\ path["main"] = Old(0, "quiet") /\ path["wal"] = Nothing
          /\ moved \in Bytes /\ moved["main"] = Nothing /\ moved["wal"] = Old(0, "quiet")
      BY <1>8, <1>11, NothingIsAByte DEF Bytes, Files, NoFiles
    <2>2. /\ marker \in Plan /\ marker.dir = 0 /\ marker.files = Files
          /\ marker.admission = NoAdmission /\ 0 \in Instant
      BY <1>8, <1>11 DEF Plan, Instant
    <2>3. /\ kept[0] = [exists |-> TRUE, files |-> moved]
          /\ \A d \in Instant : d # 0 => kept[d] = NoDirectory
          /\ kept \in [Instant -> [exists : BOOLEAN, files : Bytes]]
      <3> HIDE DEF moved
      <3>1. kept = [d \in 0..MaxClock |-> IF d > 0 THEN NoDirectory ELSE
                           [exists |-> TRUE, files |-> moved]]
        BY <1>11 DEF moved
      <3>2. QED BY <1>9, <2>1, <3>1 DEF Instant
    <2>4. DiskTyped
      BY <1>1, <2>1, <2>2, <2>3 DEF DiskTyped
    <2> HIDE DEF moved
    <2>5. DirectoriesAgree
      <3>1. \A d \in Instant : kept[d].files["main"] = Nothing
        BY <2>1, <2>3 DEF NoDirectory, NoFiles, Files
      <3>2. \A d \in Instant : ~kept[d].exists => kept[d].files = NoFiles
        BY <2>3 DEF NoDirectory
      <3>3. QED BY <3>1, <3>2 DEF DirectoriesAgree
    <2>6. MarkerIsSound
      <3>1. ~IsCurrent(path)
        BY <2>1 DEF IsCurrent, New, Old
      <3>2. QuietFiles(path) /\ QuietFiles(kept[marker.dir].files)
        BY <2>1, <2>2, <2>3 DEF QuietFiles, Files
      <3>3. QED BY <2>2, <3>1, <3>2 DEF MarkerIsSound, Justified, Files
    <2>7. MarkerIsResumable
      BY <1>8, <2>1, <2>2, <2>3 DEF MarkerIsResumable, Files
    <2>8. RecordsAreSound
      BY <1>7 DEF RecordsAreSound
    <2>9. QED
      BY <1>2, <1>4, <1>5, <1>6, <2>4, <2>5, <2>6, <2>7, <2>8 DEF UpgradeInv, DiskInv, Typed
  <1>12. QED BY <1>10, <1>11 DEF UpgradeInit

LEMMA NextKeeps ==
  ASSUME UpgradeInv, [UpgradeNext]_openVars
  PROVE  UpgradeInv'
  <1>1. CASE \E p \in Opener : Serial(p) /\ Start(p)
    BY <1>1, StartGood, StaysApart, GoodKeeps DEF Process
  <1>2. CASE \E p \in Operator : Serial(p) /\ StartOperator(p)
    BY <1>2, StartGood, StaysApart, GoodKeeps DEF Process
  <1>3. CASE \E p \in Process : Step(p) /\ Apart'
    BY <1>3, StepGood, GoodKeeps
  <1>4. CASE \E p \in Process : ~Recovered(p) /\ ~Stillborn(p) /\ Die(p)
    BY <1>4, CrashGood, StaysApart, GoodKeeps
  <1>5. CASE Unmarked /\ OlderWrites
    BY <1>5, OlderWritesKeeps
  <1>6. CASE HorizonPasses \/ SessionEnds
    BY <1>6, WorldKeeps
  <1>7. CASE UNCHANGED openVars
    <2>1. UNCHANGED <<path, kept, marker, receipt, events, pc, work, attached, shown, expired,
                      present, clock, writes>>
      BY <1>7 DEF openVars
    <2>2. Typed' /\ Apart' /\ DiskInv'
      BY <2>1, DiskStays DEF UpgradeInv, Apart, Typed, DiskTyped, WorkTyped, WorldTyped, stored
    <2>3. ASSUME NEW q \in Process PROVE Stage(q)'
      <3>1. Stage(q)
        BY DEF UpgradeInv
      <3>2. Watches(q)' /\ Remembers(q)'
        BY <2>1, <3>1 DEF Stage, Watches, Remembers, Kept, IsKept, Justified, Admitted
      <3>3. Prepares(q)'
        BY <2>1, <3>1 DEF Stage, Prepares, Justified, Admitted
      <3>4. Moves(q)'
        BY <2>1, <3>1 DEF Stage, Moves, Kept, IsKept, Justified, Admitted
      <3>5. QED BY <3>2, <3>3, <3>4 DEF Stage
    <2>4. QED BY <2>2, <2>3 DEF UpgradeInv
  <1>8. QED BY <1>1, <1>2, <1>3, <1>4, <1>5, <1>6, <1>7 DEF UpgradeNext

LEMMA InvIsSafe == UpgradeInv => PreservationIsSafe
  <1> SUFFICES ASSUME UpgradeInv PROVE PreservationIsSafe
    OBVIOUS
  <1>1. \A plan \in Plans : Kept(plan) /\ Justified(plan)
    BY DEF UpgradeInv, DiskInv, RecordsAreSound
  <1>2. marker # NoPlan => Justified(marker)
    BY DEF UpgradeInv, DiskInv, MarkerIsSound
  <1>3. DOMAIN kept = Instant
    BY DEF UpgradeInv, Typed, DiskTyped
  <1>4. OldStoreIsKept
    BY <1>1, <1>3 DEF OldStoreIsKept, Kept, IsKept, UpgradeInv, DiskInv, DirectoriesAgree
  <1>5. MarkerIsResumable
    BY DEF UpgradeInv, DiskInv
  <1>6. OnlyConfirmedMoves
    BY <1>1, <1>2 DEF OnlyConfirmedMoves, Justified, Admitted
  <1>7. QED BY <1>4, <1>5, <1>6 DEF PreservationIsSafe

\* The database files, the directories, the marker, the receipt and what every
\* invocation remembers are what the steps of open_with_snapshot_validation and
\* preserve_subfloor take them for, and only one invocation at a time moves a store.
THEOREM UpgradeIsSound == UpgradeSpec => []UpgradeInv
  <1>1. UpgradeInit => UpgradeInv
    BY InitIsSound
  <1>2. UpgradeInv /\ [UpgradeNext]_openVars => UpgradeInv'
    BY NextKeeps
  <1>3. QED BY <1>1, <1>2, PTL DEF UpgradeSpec

\* An older store is never lost on its way: what is on record as preserved is in its
\* directory byte for byte, a published marker can be resumed, and while sessions are
\* on record only bytes an operator was shown and confirmed are moved, whenever
\* invocations die or older processes write (complete_schema_preservation,
\* preserve_subfloor, record_schema_admission).
THEOREM OldStoresAreSafe == UpgradeSpec => []PreservationIsSafe
  <1>1. UpgradeInv => PreservationIsSafe
    BY InvIsSafe
  <1>2. QED BY <1>1, UpgradeIsSound, PTL
=============================================================================
