---------------------------- MODULE ReviewProofs ----------------------------
(***************************************************************************)
(* Theorems about the review of a candidate: the verdicts of any number of  *)
(* operations over plans of any length (ReviewExecution), and the reports   *)
(* of commands with any number of output streams and any limits             *)
(* (ReviewCapture).                                                        *)
(***************************************************************************)
EXTENDS ReviewExecution, ReviewCapture, SequenceTheorems, TLAPS

-----------------------------------------------------------------------------
(* The inductive invariant of a verification.                              *)

\* Every result recorded is of a run in which the checkout stayed exact.
ResultsAreExact ==
  \A v \in Verify : \A i \in DOMAIN evidence[v].results : evidence[v].results[i].exact

\* A run whose checkout is exact now had it exact all along: nothing but a preparation,
\* which cannot run beside it, makes an altered checkout exact again.
RunIsExact ==
  /\ process.at = "run" /\ checkout = "exact" => process.exact
  /\ process.at \in {"environment", "result"} => process.exact

\* The results of an attempt support its verdict.
VerdictsAreExplained ==
  \A v \in Verify : attempt[v] \in Verdict => Explained(v, attempt[v])

\* An attempt has one environment for each result, but while it is between the two.
EvidenceIsInStep ==
  /\ \A v \in Verify : attempt[v] = "none" =>
       evidence[v].environments = 0 /\ evidence[v].results = <<>>
  /\ process.at = "start" => attempt[process.op] = "none"
  /\ process.at \in {"recover", "settled", "answer"} => attempt[process.op] \in Verdict
  /\ process.at \in {"mark", "check", "run", "environment"} =>
       evidence[process.op].environments = Len(evidence[process.op].results)
  /\ process.at \in {"run", "environment"} => ~Complete(process.op)
  /\ process.at = "result" =>
       evidence[process.op].environments = Len(evidence[process.op].results) + 1

ReviewInv ==
  TypeOK /\ ResultsAreExact /\ RunIsExact /\ VerdictsAreExplained /\ EvidenceIsInStep

-----------------------------------------------------------------------------
(* Types: the session, the process, the evidence.                          *)

SessionOK ==
  /\ session \in [status : {"none", "preparing", "ready", "invalid"},
                  recovery : {"not_required", "resume", "recreate"}, noted : BOOLEAN]
  /\ session.recovery = "recreate" <=> session.status = "invalid"
  /\ session.recovery = "resume" => session.status = "ready"

ProcessOK ==
  /\ process \in [at : {"idle"} \cup BeginPoint \cup VerifyPoint,
                  op : Operation \cup {Nobody}, fresh : BOOLEAN, run : Outcome,
                  exact : BOOLEAN]
  /\ process.op \in IF process.at = "idle" THEN {Nobody}
                    ELSE IF process.at \in BeginPoint THEN Begin ELSE Verify

EvidenceOK ==
  /\ evidence \in [Verify -> [environments : 0..Checks, results : Seq(Result)]]
  /\ \A v \in Verify : Len(evidence[v].results) \in
                        {evidence[v].environments, evidence[v].environments - 1}

LEMMA TypesInParts ==
  TypeOK <=> /\ candidate \in BOOLEAN /\ SessionOK
             /\ checkout \in {"absent", "exact", "altered"} /\ remnants \in 0..MaxRemnants
             /\ attempt \in [Verify -> {"none", "running"} \cup Verdict] /\ EvidenceOK
             /\ answer \in [Operation -> {"none", "ready"} \cup Verdict]
             /\ ProcessOK /\ faults \in 0..MaxFaults
  BY Zenon DEF TypeOK, SessionOK, EvidenceOK, ProcessOK

\* A transition leads from one row to another.
LEMMA TransitionTyped ==
  ASSUME NEW status, NEW recovery, NEW noted \in BOOLEAN,
         <<status, recovery>> \in {<<"preparing", "not_required">>, <<"ready", "not_required">>,
                                   <<"invalid", "recreate">>, <<"ready", "resume">>},
         TransitionSession(status, recovery, noted)
  PROVE  SessionOK'
  BY DEF TransitionSession, SessionOK

LEMMA ProcessEnds == process' = Idle => ProcessOK'
  BY DEF ProcessOK, Idle, BeginPoint, VerifyPoint, Outcome

\* A command moves among its own points.
LEMMA ProcessMoves ==
  ASSUME ProcessOK, NEW points \in {BeginPoint, VerifyPoint}, process.at \in points,
         NEW point \in points, NEW outcome \in Outcome, NEW exact \in BOOLEAN,
         \/ Goto(point)
         \/ process' = [process EXCEPT !.at = point, !.run = outcome]
         \/ process' = [process EXCEPT !.at = point, !.exact = exact]
  PROVE  ProcessOK' /\ process'.at = point /\ process'.op = process.op
  <1>1. /\ process \in [at : {"idle"} \cup BeginPoint \cup VerifyPoint,
                       op : Operation \cup {Nobody}, fresh : BOOLEAN, run : Outcome,
                       exact : BOOLEAN]
        /\ process.op \in IF process.at = "idle" THEN {Nobody}
                          ELSE IF process.at \in BeginPoint THEN Begin ELSE Verify
    BY DEF ProcessOK
  <1>2. process'.at = point /\ process'.op = process.op
    BY <1>1 DEF Goto
  <1>3. process' \in [at : {"idle"} \cup BeginPoint \cup VerifyPoint,
                     op : Operation \cup {Nobody}, fresh : BOOLEAN, run : Outcome,
                     exact : BOOLEAN]
    BY <1>1 DEF Goto
  <1>4. "idle" \notin points /\ (process.at \in BeginPoint <=> point \in BeginPoint)
    BY DEF BeginPoint, VerifyPoint
  <1>5. process'.op \in IF process'.at = "idle" THEN {Nobody}
                        ELSE IF process'.at \in BeginPoint THEN Begin ELSE Verify
    BY <1>1, <1>2, <1>4
  <1>6. QED BY <1>2, <1>3, <1>5 DEF ProcessOK

\* Where a command that goes on or ends is afterwards.
LEMMA AtAfter ==
  ASSUME TypeOK
  PROVE  /\ \A point : Goto(point) => process'.at = point /\ process'.op = process.op
                                     /\ process'.exact = process.exact
         /\ process' = Idle => process'.at = "idle"
  BY DEF TypeOK, Goto, Idle

LEMMA RunningOp ==
  ASSUME ProcessOK
  PROVE  /\ process.at \in BeginPoint => process.op \in Begin
         /\ process.at \in VerifyPoint => process.op \in Verify
  BY DEF ProcessOK, BeginPoint, VerifyPoint

LEMMA ReviewInitTyped == Init => TypeOK
  <1>1. ASSUME Init PROVE SessionOK /\ ProcessOK
    BY <1>1, ProcessEnds DEF Init, SessionOK, ProcessOK, Idle, BeginPoint, VerifyPoint, Outcome
  <1>2. ASSUME Init PROVE EvidenceOK
    <2>1. <<>> \in Seq(Result) /\ Len(<<>>) = 0 /\ 0 \in 0..Checks
      BY ReviewAssumption
    <2>2. evidence = [v \in Verify |-> [environments |-> 0, results |-> <<>>]]
      BY <1>2 DEF Init
    <2>3. QED BY <2>1, <2>2 DEF EvidenceOK
  <1>3. QED BY <1>1, <1>2, TypesInParts, ReviewAssumption DEF Init

LEMMA BeginTyped ==
  ASSUME TypeOK, BeginStep \/ FailPreparation
  PROVE  TypeOK'
  <1> USE TypesInParts
  <1>1. process.at \in BeginPoint /\ UNCHANGED records /\ UNCHANGED candidate
    BY DEF BeginStep, FailPreparation, InsertSession, Settle, PrepareCheckout, Materialize,
       FinishCheckout, Publish, ConfirmBegin, At, BeginPoint
  <1>2. UNCHANGED <<attempt, evidence>>
    BY <1>1 DEF records
  <1>3. EvidenceOK'
    BY <1>2 DEF EvidenceOK
  <1>4. SessionOK'
    <2>1. CASE InsertSession
      <3>1. CASE UNCHANGED session
        BY <3>1 DEF SessionOK
      <3>2. CASE session' = [status |-> "preparing", recovery |-> "not_required", noted |-> FALSE]
        BY <3>2 DEF SessionOK
      <3>3. QED BY <2>1, <3>1, <3>2 DEF InsertSession
    <2>2. CASE Settle
      <3>1. CASE UNCHANGED session
        BY <3>1 DEF SessionOK
      <3>2. CASE ~UNCHANGED session
        <4>1. \/ TransitionSession("invalid", "recreate", TRUE)
              \/ TransitionSession("preparing", "not_required", FALSE)
          BY <2>2, <3>2 DEF Settle
        <4>2. QED BY <4>1, TransitionTyped
      <3>3. QED BY <3>1, <3>2
    <2>3. CASE UNCHANGED session
      BY <2>3 DEF SessionOK
    <2>4. CASE Publish \/ FailPreparation
      BY <2>4, TransitionTyped DEF Publish, FailPreparation
    <2>5. QED
      BY <2>1, <2>2, <2>3, <2>4 DEF BeginStep, PrepareCheckout, Materialize, FinishCheckout,
         ConfirmBegin
  <1>5. ProcessOK'
    <2>1. CASE process' = Idle
      BY <2>1, ProcessEnds
    <2>2. CASE UNCHANGED process
      BY <2>2 DEF ProcessOK
    <2>3. ASSUME NEW point \in BeginPoint, Goto(point)
          PROVE  ProcessOK'
      BY <1>1, <2>3, ProcessMoves DEF Outcome
    <2>4. /\ "settle" \in BeginPoint /\ "prepare" \in BeginPoint /\ "materialize" \in BeginPoint
          /\ "finish" \in BeginPoint /\ "publish" \in BeginPoint /\ "confirm" \in BeginPoint
      BY DEF BeginPoint
    <2>6. CASE BeginStep
      BY <2>1, <2>2, <2>3, <2>4, <2>6
      DEF BeginStep, InsertSession, Settle, PrepareCheckout, Materialize, FinishCheckout,
          Publish, ConfirmBegin
    <2>7. CASE FailPreparation
      BY <2>1, <2>7 DEF FailPreparation
    <2>8. QED BY <2>6, <2>7
  <1>6. answer' \in [Operation -> {"none", "ready"} \cup Verdict]
    <2>1. UNCHANGED answer \/ answer' = [answer EXCEPT ![process.op] = "ready"]
      BY DEF BeginStep, FailPreparation, InsertSession, Settle, PrepareCheckout, Materialize,
         FinishCheckout, Publish, ConfirmBegin
    <2>2. QED BY <2>1
  <1>7. /\ checkout' \in {"absent", "exact", "altered"} /\ remnants' \in 0..MaxRemnants
        /\ faults' \in 0..MaxFaults
    <2>1. CASE BeginStep
      <3>1. UNCHANGED faults /\ checkout' \in {checkout, "absent", "altered", "exact"}
        BY <2>1
        DEF BeginStep, InsertSession, Settle, PrepareCheckout, Materialize, FinishCheckout,
            Publish, ConfirmBegin, At, disk
      <3>2. remnants' = remnants \/ (remnants < MaxRemnants /\ remnants' = remnants + 1)
        BY <2>1
        DEF BeginStep, InsertSession, Settle, PrepareCheckout, Materialize, FinishCheckout,
            Publish, ConfirmBegin, disk
      <3>3. remnants' \in 0..MaxRemnants
        BY <3>2, ReviewAssumption
      <3>4. QED BY <3>1, <3>3
    <2>2. CASE FailPreparation
      BY <2>2, ReviewAssumption DEF FailPreparation, disk
    <2>3. QED BY <2>1, <2>2
  <1>8. QED
    BY <1>1, <1>2, <1>3, <1>4, <1>5, <1>6, <1>7, Zenon
    DEF TypeOK, SessionOK, EvidenceOK, ProcessOK

\* What the two steps between which a result is written do to the evidence.
EnvironmentRecorded ==
  evidence' = [evidence EXCEPT ![process.op].environments = @ + 1]
ResultRecorded ==
  evidence' = [evidence EXCEPT ![process.op].results =
                 Append(@, [outcome |-> process.run, exact |-> process.exact])]

LEMMA EnvironmentTyped ==
  ASSUME EvidenceOK, process.op \in Verify, EnvironmentRecorded,
         evidence[process.op].environments = Len(evidence[process.op].results),
         ~Complete(process.op)
  PROVE  EvidenceOK'
  <1> DEFINE e == evidence[process.op]
  <1>1. e \in [environments : 0..Checks, results : Seq(Result)] /\ Len(e.results) \in Nat
    BY LenProperties DEF EvidenceOK
  <1>2. e.environments + 1 \in 0..Checks /\ Len(e.results) = (e.environments + 1) - 1
    BY <1>1, ReviewAssumption DEF Complete
  <1>3. [e EXCEPT !.environments = @ + 1]
          = [environments |-> e.environments + 1, results |-> e.results]
    BY <1>1
  <1>4. QED BY <1>1, <1>2, <1>3 DEF EvidenceOK, EnvironmentRecorded

LEMMA ResultTyped ==
  ASSUME EvidenceOK, ProcessOK, process.op \in Verify, ResultRecorded,
         evidence[process.op].environments = Len(evidence[process.op].results) + 1
  PROVE  EvidenceOK'
  <1> DEFINE e == evidence[process.op]
             r == [outcome |-> process.run, exact |-> process.exact]
  <1>1. e \in [environments : 0..Checks, results : Seq(Result)]
    BY DEF EvidenceOK
  <1>2. r \in Result
    BY DEF ProcessOK, Result
  <1>3. Append(e.results, r) \in Seq(Result) /\ Len(Append(e.results, r)) = Len(e.results) + 1
    BY <1>1, <1>2, AppendProperties
  <1>4. [e EXCEPT !.results = Append(@, r)]
          = [environments |-> e.environments, results |-> Append(e.results, r)]
    <2>1. ASSUME NEW x
          PROVE  [e EXCEPT !.results = x] = [environments |-> e.environments, results |-> x]
      BY <1>1
    <2>2. QED BY <2>1
  <1>5. evidence' = [evidence EXCEPT ![process.op] =
                       [environments |-> e.environments, results |-> Append(e.results, r)]]
    <2>1. evidence' = [evidence EXCEPT ![process.op] = [e EXCEPT !.results = Append(@, r)]]
      BY DEF ResultRecorded
    <2>2. QED BY <1>4, <2>1
  <1>6. QED BY <1>1, <1>3, <1>5 DEF EvidenceOK

LEMMA VerifyTyped ==
  ASSUME TypeOK, EvidenceIsInStep, VerifyStep
  PROVE  TypeOK'
  <1> USE TypesInParts
  <1>1. /\ process.at \in VerifyPoint /\ process.op \in Verify
        /\ UNCHANGED <<candidate, faults, checkout, remnants>>
    <2>1. process.at \in VerifyPoint /\ UNCHANGED <<candidate, faults, disk>>
      BY DEF VerifyStep, AppendRunning, MarkRunning, StartCheck, EndCheck, RecordEnvironment,
         RecordResult, Conclude, Interrupt, Recover, SettleVerdict, AnswerVerify, At, VerifyPoint
    <2>2. QED BY <2>1, RunningOp DEF disk
  <1>2. SessionOK'
    <2>1. CASE UNCHANGED session
      BY <2>1 DEF SessionOK
    <2>2. CASE MarkRunning
      BY <2>2, TransitionTyped DEF MarkRunning
    <2>3. CASE Recover
      <3>1. PICK noted \in BOOLEAN : TransitionSession("ready", "not_required", noted)
        BY <2>3 DEF Recover
      <3>2. QED BY <3>1, TransitionTyped
    <2>4. CASE SettleVerdict
      <3>1. session.noted \in BOOLEAN
        BY DEF SessionOK
      <3>2. CASE TransitionSession("ready", "not_required", session.noted)
        BY <3>1, <3>2, TransitionTyped
      <3>3. QED BY <2>1, <2>4, <3>2 DEF SettleVerdict
    <2>5. QED
      BY <2>1, <2>2, <2>3, <2>4
      DEF VerifyStep, AppendRunning, StartCheck, EndCheck, RecordEnvironment, RecordResult,
          Conclude, Interrupt, AnswerVerify
  <1>3. ProcessOK'
    <2>1. CASE process' = Idle
      BY <2>1, ProcessEnds
    <2>2. ASSUME NEW point \in VerifyPoint, NEW outcome \in Outcome, NEW exact \in BOOLEAN,
                 \/ Goto(point)
                 \/ process' = [process EXCEPT !.at = point, !.run = outcome]
                 \/ process' = [process EXCEPT !.at = point, !.exact = exact]
          PROVE  ProcessOK'
      BY <1>1, <2>2, ProcessMoves
    <2>3. /\ {"mark", "check", "run", "environment", "result"} \subseteq VerifyPoint
          /\ {"conclude", "interrupt", "recover", "answer"} \subseteq VerifyPoint
          /\ "passed" \in Outcome /\ TRUE \in BOOLEAN
      BY DEF VerifyPoint, Outcome
    <2>4. ASSUME NEW point \in VerifyPoint, Goto(point) PROVE ProcessOK'
      BY <2>2, <2>3, <2>4
    <2>5. CASE StartCheck
      <3>1. \/ Goto("conclude") \/ Goto("interrupt")
            \/ process' = [process EXCEPT !.at = "run", !.exact = TRUE]
        BY <2>5 DEF StartCheck, Goto
      <3>2. QED BY <2>2, <2>3, <2>4, <3>1
    <2>6. ASSUME NEW outcome \in Outcome, EndCheck(outcome) PROVE ProcessOK'
      <3>1. \/ Goto("interrupt")
            \/ process' = [process EXCEPT !.at = "environment", !.run = outcome]
        BY <2>6 DEF EndCheck, Goto
      <3>2. QED BY <2>2, <2>3, <2>4, <3>1
    <2>7. CASE AppendRunning \/ MarkRunning \/ RecordEnvironment \/ RecordResult \/ Conclude
               \/ Interrupt \/ Recover \/ SettleVerdict \/ AnswerVerify
      BY <2>1, <2>3, <2>4, <2>7
      DEF AppendRunning, MarkRunning, RecordEnvironment, RecordResult, Conclude, Interrupt,
          Recover, SettleVerdict, AnswerVerify
    <2>8. QED BY <2>5, <2>6, <2>7 DEF VerifyStep
  <1>4. attempt' \in [Verify -> {"none", "running"} \cup Verdict]
    <2>1. \/ UNCHANGED attempt
          \/ \E verdict \in {"running"} \cup Verdict :
               attempt' = [attempt EXCEPT ![process.op] = verdict]
      BY DEF VerifyStep, AppendRunning, MarkRunning, StartCheck, EndCheck, RecordEnvironment,
         RecordResult, Conclude, Interrupt, Recover, SettleVerdict, AnswerVerify, records,
         Verdict
    <2>2. QED BY <2>1
  <1>5. answer' \in [Operation -> {"none", "ready"} \cup Verdict]
    <2>1. CASE UNCHANGED answer
      BY <2>1
    <2>2. CASE AnswerVerify
      <3>1. attempt[process.op] \in Verdict
        BY <1>1, <2>2 DEF AnswerVerify, At, EvidenceIsInStep
      <3>2. QED BY <2>2, <3>1 DEF AnswerVerify
    <2>3. QED
      BY <2>1, <2>2
      DEF VerifyStep, AppendRunning, MarkRunning, StartCheck, EndCheck, RecordEnvironment,
          RecordResult, Conclude, Interrupt, Recover, SettleVerdict
  <1>6. EvidenceOK'
    <2>1. CASE UNCHANGED evidence
      BY <2>1 DEF EvidenceOK
    <2>2. CASE RecordEnvironment
      <3>1. EnvironmentRecorded
        BY <1>1, <2>2 DEF RecordEnvironment, EnvironmentRecorded
      <3>2. evidence[process.op].environments = Len(evidence[process.op].results)
            /\ ~Complete(process.op)
        BY <2>2 DEF RecordEnvironment, At, EvidenceIsInStep
      <3>3. QED BY <1>1, <3>1, <3>2, EnvironmentTyped
    <2>3. CASE RecordResult
      <3>1. ResultRecorded
        BY <1>1, <2>3 DEF RecordResult, ResultRecorded
      <3>2. evidence[process.op].environments = Len(evidence[process.op].results) + 1
        BY <2>3 DEF RecordResult, At, EvidenceIsInStep
      <3>3. QED BY <1>1, <3>1, <3>2, ResultTyped
    <2>4. QED
      BY <2>1, <2>2, <2>3
      DEF VerifyStep, AppendRunning, MarkRunning, StartCheck, EndCheck, Conclude, Interrupt,
          Recover, SettleVerdict, AnswerVerify, records
  <1>8. QED
    BY <1>1, <1>2, <1>3, <1>4, <1>5, <1>6, Zenon
    DEF TypeOK, SessionOK, EvidenceOK, ProcessOK

\* The rest: the calls, and what happens around the command.
LEMMA CallsTyped ==
  ASSUME TypeOK,
         \/ \E o \in Begin : CallBegin(o)
         \/ \E v \in Verify : CallVerify(v)
  PROVE  TypeOK'
  <1> USE TypesInParts
  <1>1. /\ UNCHANGED <<candidate, session, checkout, remnants, attempt, evidence, answer, faults>>
    BY DEF CallBegin, CallVerify, disk, records
  <1>2. ProcessOK'
    <2>1. ASSUME NEW o \in Begin, CallBegin(o) PROVE ProcessOK'
      BY <2>1 DEF CallBegin, ProcessOK, Idle, BeginPoint, VerifyPoint, Outcome, Operation
    <2>2. ASSUME NEW v \in Verify, CallVerify(v) PROVE ProcessOK'
      <3>1. Resumption(v) \in VerifyPoint
        BY DEF Resumption, VerifyPoint
      <3>2. QED
        BY <2>2, <3>1 DEF CallVerify, ProcessOK, Idle, BeginPoint, VerifyPoint, Outcome, Operation
    <2>3. QED BY <2>1, <2>2
  <1>3. QED
    BY <1>1, <1>2, Zenon DEF TypeOK, SessionOK, EvidenceOK, ProcessOK

LEMMA AroundTyped ==
  ASSUME TypeOK,
         \/ \E awaited \in BOOLEAN : Elsewhere(awaited)
         \/ Alter \/ FailCheck \/ Crash \/ UNCHANGED vars
  PROVE  TypeOK'
  <1> USE TypesInParts
  <1>1. /\ UNCHANGED <<session, remnants, attempt, evidence, answer>> /\ candidate' \in BOOLEAN
        /\ checkout' \in {checkout, "altered"}
    BY DEF Elsewhere, Alter, FailCheck, Crash, vars, disk, records
  <1>2. faults' \in 0..MaxFaults
    <2>1. faults' = faults \/ (faults < MaxFaults /\ faults' = faults + 1)
      BY DEF Elsewhere, Alter, FailCheck, Crash, vars
    <2>2. QED BY <2>1, ReviewAssumption
  <1>3. ProcessOK'
    <2>1. CASE UNCHANGED process
      BY <2>1 DEF ProcessOK
    <2>2. CASE Crash
      BY <2>2, ProcessEnds DEF Crash
    <2>3. CASE FailCheck
      BY <2>3, ProcessMoves DEF FailCheck, VerifyPoint, Outcome
    <2>4. ASSUME NEW b \in BOOLEAN, \/ process' = [process EXCEPT !.fresh = b]
                                   \/ process' = [process EXCEPT !.exact = b]
          PROVE  ProcessOK'
      BY <2>4 DEF ProcessOK
    <2>5. CASE Alter
      <3>1. (process.exact /\ process.at # "run") \in BOOLEAN
        OBVIOUS
      <3>2. process' = [process EXCEPT !.exact = process.exact /\ process.at # "run"]
        BY <2>5 DEF Alter
      <3>3. QED BY <2>4, <3>1, <3>2
    <2>6. ASSUME NEW awaited \in BOOLEAN, Elsewhere(awaited) PROVE ProcessOK'
      BY <2>4, <2>6 DEF Elsewhere
    <2>7. QED BY <2>1, <2>2, <2>3, <2>5, <2>6 DEF vars
  <1>4. QED
    BY <1>1, <1>2, <1>3, Zenon DEF TypeOK, SessionOK, EvidenceOK, ProcessOK

LEMMA ReviewStepTyped ==
  ASSUME TypeOK, EvidenceIsInStep, [Next]_vars
  PROVE  TypeOK'
  BY BeginTyped, VerifyTyped, CallsTyped, AroundTyped DEF Next

-----------------------------------------------------------------------------
(* What a step does to the evidence and to the verdicts.                   *)

LEMMA EvidenceChanges ==
  ASSUME TypeOK, [Next]_vars
  PROVE  \/ UNCHANGED evidence
         \/ RecordEnvironment /\ EnvironmentRecorded
         \/ RecordResult /\ ResultRecorded
  <1>1. CASE RecordEnvironment
    BY <1>1 DEF RecordEnvironment, EnvironmentRecorded
  <1>2. CASE RecordResult
    BY <1>2 DEF RecordResult, ResultRecorded
  <1>3. QED
    BY <1>1, <1>2
    DEF Next, vars, CallBegin, CallVerify, BeginStep, FailPreparation, VerifyStep, InsertSession,
        Settle, PrepareCheckout, Materialize, FinishCheckout, Publish, ConfirmBegin,
        AppendRunning, MarkRunning, StartCheck, EndCheck, Conclude, Interrupt, Recover,
        SettleVerdict, AnswerVerify, Elsewhere, Alter, FailCheck, Crash, records

\* The evidence of an attempt after each of the two steps.
LEMMA EnvironmentLeaves ==
  ASSUME EvidenceOK, process.op \in Verify, EnvironmentRecorded
  PROVE  \A v \in Verify :
           /\ evidence'[v].results = evidence[v].results
           /\ evidence'[v].environments =
                IF v = process.op THEN evidence[v].environments + 1 ELSE evidence[v].environments
  BY DEF EvidenceOK, EnvironmentRecorded

LEMMA ResultLeaves ==
  ASSUME EvidenceOK, process.op \in Verify, ResultRecorded
  PROVE  \A v \in Verify :
           /\ evidence'[v].environments = evidence[v].environments
           /\ evidence'[v].results =
                IF v = process.op
                THEN Append(evidence[v].results,
                            [outcome |-> process.run, exact |-> process.exact])
                ELSE evidence[v].results
  <1> DEFINE r == [outcome |-> process.run, exact |-> process.exact]
  <1>1. evidence' = [evidence EXCEPT ![process.op] =
                       [evidence[process.op] EXCEPT !.results = Append(@, r)]]
    BY DEF ResultRecorded
  <1>2. \A v \in Verify : evidence[v] \in [environments : 0..Checks, results : Seq(Result)]
    BY DEF EvidenceOK
  <1>3. ASSUME NEW e \in [environments : 0..Checks, results : Seq(Result)], NEW x
        PROVE  /\ [e EXCEPT !.results = x].environments = e.environments
               /\ [e EXCEPT !.results = x].results = x
    OBVIOUS
  <1>4. evidence \in [Verify -> [environments : 0..Checks, results : Seq(Result)]]
    BY DEF EvidenceOK
  <1> HIDE DEF r
  <1>5. QED BY <1>1, <1>2, <1>3, <1>4 DEF r

LEMMA AttemptChanges ==
  ASSUME TypeOK, [Next]_vars
  PROVE  \/ UNCHANGED attempt
         \/ AppendRunning /\ attempt' = [attempt EXCEPT ![process.op] = "running"]
         \/ /\ Conclude \/ Interrupt
            /\ \E verdict \in Verdict : /\ Explained(process.op, verdict)
                                       /\ attempt' = [attempt EXCEPT ![process.op] = verdict]
  <1>1. CASE Conclude
    <2>1. \E verdict \in {"passed", "failed"} :
            Explained(process.op, verdict)
            /\ attempt' = [attempt EXCEPT ![process.op] = verdict]
      BY <1>1 DEF Conclude
    <2>2. QED BY <1>1, <2>1 DEF Verdict
  <1>2. CASE Interrupt
    BY <1>2 DEF Interrupt, Verdict
  <1>3. CASE AppendRunning
    BY <1>3 DEF AppendRunning
  <1>4. QED
    BY <1>1, <1>2, <1>3
    DEF Next, vars, CallBegin, CallVerify, BeginStep, FailPreparation, VerifyStep, InsertSession,
        Settle, PrepareCheckout, Materialize, FinishCheckout, Publish, ConfirmBegin,
        MarkRunning, StartCheck, EndCheck, RecordEnvironment, RecordResult, Recover,
        SettleVerdict, AnswerVerify, Elsewhere, Alter, FailCheck, Crash, records

LEMMA ResultsAreExactKept ==
  ASSUME TypeOK, ResultsAreExact, RunIsExact, [Next]_vars
  PROVE  ResultsAreExact'
  <1> USE TypesInParts
  <1>1. CASE UNCHANGED evidence
    BY <1>1 DEF ResultsAreExact
  <1>2. CASE RecordEnvironment /\ EnvironmentRecorded
    <2>1. process.op \in Verify
      BY <1>2, RunningOp DEF RecordEnvironment, At, VerifyPoint
    <2>2. QED BY <2>1, <1>2, EnvironmentLeaves DEF ResultsAreExact
  <1>3. CASE RecordResult /\ ResultRecorded
    <2>1. process.op \in Verify /\ process.exact
      BY <1>3, RunningOp DEF RecordResult, At, VerifyPoint, RunIsExact
    <2>2. ASSUME NEW v \in Verify, NEW i \in DOMAIN evidence'[v].results
          PROVE  evidence'[v].results[i].exact
      <3> DEFINE r == [outcome |-> process.run, exact |-> process.exact]
      <3>1. evidence[v].results \in Seq(Result) /\ r \in Result
        BY DEF EvidenceOK, ProcessOK, Result
      <3>2. CASE v # process.op
        BY <1>3, <2>1, <2>2, <3>2, ResultLeaves DEF ResultsAreExact
      <3>3. CASE v = process.op
        <4>1. evidence'[v].results = Append(evidence[v].results, r)
          BY <1>3, <2>1, <3>3, ResultLeaves
        <4> HIDE DEF r
        <4>2. i \in 1..Len(evidence[v].results) + 1
          BY <2>2, <3>1, <4>1, AppendProperties
        <4>3. CASE i \in 1..Len(evidence[v].results)
          <5>1. evidence'[v].results[i] = evidence[v].results[i]
            BY <3>1, <4>1, <4>3, AppendProperties
          <5>2. i \in DOMAIN evidence[v].results
            BY <3>1, <4>3
          <5>3. QED BY <5>1, <5>2 DEF ResultsAreExact
        <4>4. CASE i = Len(evidence[v].results) + 1
          <5>1. evidence'[v].results[i] = r
            BY <3>1, <4>1, <4>4, AppendProperties
          <5>2. QED BY <2>1, <5>1 DEF r
        <4>5. Len(evidence[v].results) \in Nat
          BY <3>1, LenProperties
        <4>6. QED BY <4>2, <4>3, <4>4, <4>5
      <3>4. QED BY <3>2, <3>3
    <2>3. QED BY <2>2 DEF ResultsAreExact
  <1>4. QED BY <1>1, <1>2, <1>3, EvidenceChanges

LEMMA RunIsExactKept ==
  ASSUME TypeOK, RunIsExact, [Next]_vars
  PROVE  RunIsExact'
  <1> USE TypesInParts
  <1>0. process \in [at : {"idle"} \cup BeginPoint \cup VerifyPoint,
                    op : Operation \cup {Nobody}, fresh : BOOLEAN, run : Outcome,
                    exact : BOOLEAN]
    BY DEF ProcessOK
  <1>1. ASSUME process'.at \notin {"run", "environment", "result"}
        PROVE  RunIsExact'
    BY <1>1 DEF RunIsExact
  <1>2. CASE BeginStep \/ FailPreparation \/ \E o \in Begin : CallBegin(o)
    <2>1. CASE InsertSession \/ PrepareCheckout \/ Materialize \/ FinishCheckout \/ Publish
               \/ ConfirmBegin \/ FailPreparation
      <3>1. process'.at \in {"idle", "settle", "publish", "materialize", "finish", "confirm"}
        BY <2>1, AtAfter
        DEF InsertSession, PrepareCheckout, Materialize, FinishCheckout, Publish, ConfirmBegin,
            FailPreparation
      <3>2. QED BY <1>1, <3>1
    <2>2. CASE Settle
      <3>1. process'.at \in {process.at, "prepare", "confirm"} /\ process.at = "settle"
        BY <2>2, AtAfter DEF Settle, At
      <3>2. QED BY <1>1, <3>1
    <2>3. ASSUME NEW o \in Begin, CallBegin(o) PROVE RunIsExact'
      <3>1. process'.at \in {"insert", "settle"}
        BY <2>3 DEF CallBegin, Idle
      <3>2. QED BY <1>1, <3>1
    <2>4. QED BY <1>2, <2>1, <2>2, <2>3 DEF BeginStep
  <1>3. CASE \E v \in Verify : CallVerify(v)
    <2>1. process'.at \in {"start", "interrupt", "settled"}
      BY <1>3 DEF CallVerify, Resumption, Idle
    <2>2. QED BY <1>1, <2>1
  <1>4. CASE AppendRunning \/ MarkRunning \/ RecordResult \/ Conclude \/ Interrupt \/ Recover
             \/ SettleVerdict \/ AnswerVerify \/ Crash \/ FailCheck
    <2>1. process'.at \in {"idle", "mark", "check", "recover", "answer", "interrupt"}
      BY <1>4, AtAfter
      DEF AppendRunning, MarkRunning, RecordResult, Conclude, Interrupt, Recover,
          SettleVerdict, AnswerVerify, Crash, FailCheck
    <2>2. QED BY <1>1, <2>1
  <1>5. CASE StartCheck
    BY <1>0, <1>5 DEF StartCheck, RunIsExact
  <1>6. ASSUME NEW outcome \in Outcome, EndCheck(outcome)
        PROVE  RunIsExact'
    BY <1>0, <1>6 DEF EndCheck, StillExact, At, RunIsExact
  <1>7. CASE RecordEnvironment
    BY <1>0, <1>7 DEF RecordEnvironment, At, Goto, RunIsExact
  <1>8. CASE Alter
    <2>1. checkout' = "altered" /\ process'.at = process.at
          /\ process'.exact = (process.exact /\ process.at # "run")
      BY <1>0, <1>8 DEF Alter
    <2>2. QED BY <2>1 DEF RunIsExact
  <1>9. ASSUME NEW awaited \in BOOLEAN, Elsewhere(awaited)
        PROVE  RunIsExact'
    BY <1>0, <1>9 DEF Elsewhere, RunIsExact, disk
  <1>10. CASE UNCHANGED vars
    BY <1>10 DEF vars, RunIsExact
  <1>11. QED
    BY <1>2, <1>3, <1>4, <1>5, <1>6, <1>7, <1>8, <1>9, <1>10 DEF Next, VerifyStep

LEMMA VerdictsAreExplainedKept ==
  ASSUME TypeOK, VerdictsAreExplained, [Next]_vars
  PROVE  VerdictsAreExplained'
  <1> USE TypesInParts
  <1>1. ASSUME NEW v \in Verify, NEW verdict \in Verdict,
               evidence'[v].results = evidence[v].results, Explained(v, verdict)
        PROVE  Explained(v, verdict)'
    BY <1>1 DEF Explained, Complete, AllPassed
  <1>0. ASSUME \A v \in Verify, verdict \in Verdict :
                 attempt'[v] = verdict => Explained(v, verdict)'
        PROVE  VerdictsAreExplained'
    BY <1>0 DEF VerdictsAreExplained, Explained, Complete, AllPassed
  <1>2. CASE UNCHANGED evidence
    <2>1. CASE UNCHANGED attempt
      <3>1. ASSUME NEW v \in Verify, NEW verdict \in Verdict, attempt'[v] = verdict
            PROVE  Explained(v, verdict)'
        <4>1. Explained(v, verdict)
          BY <2>1, <3>1 DEF VerdictsAreExplained
        <4>2. QED BY <1>1, <1>2, <4>1
      <3>2. QED BY <1>0, <3>1
    <2>2. CASE AppendRunning /\ attempt' = [attempt EXCEPT ![process.op] = "running"]
      <3>1. "running" \notin Verdict
        BY DEF Verdict
      <3>2. \A v \in Verify : attempt'[v] \in Verdict => attempt'[v] = attempt[v]
        BY <2>2, <3>1
      <3>3. ASSUME NEW v \in Verify, NEW verdict \in Verdict, attempt'[v] = verdict
            PROVE  Explained(v, verdict)'
        <4>1. Explained(v, verdict)
          BY <3>2, <3>3 DEF VerdictsAreExplained
        <4>2. QED BY <1>1, <1>2, <4>1
      <3>4. QED BY <1>0, <3>3
    <2>3. ASSUME NEW verdict \in Verdict, Explained(process.op, verdict), process.op \in Verify,
                 attempt' = [attempt EXCEPT ![process.op] = verdict]
          PROVE  VerdictsAreExplained'
      <3>1. ASSUME NEW v \in Verify, NEW w \in Verdict, attempt'[v] = w
            PROVE  Explained(v, w)'
        <4>1. Explained(v, w)
          BY <2>3, <3>1 DEF VerdictsAreExplained
        <4>2. QED BY <1>1, <1>2, <4>1
      <3>2. QED BY <1>0, <3>1
    <2>4. Conclude \/ Interrupt => process.op \in Verify
      BY RunningOp DEF Conclude, Interrupt, At, VerifyPoint
    <2>5. QED BY <2>1, <2>2, <2>3, <2>4, AttemptChanges
  <1>3. ASSUME process.op \in Verify, attempt[process.op] = "running", UNCHANGED attempt,
               \A v \in Verify \ {process.op} : evidence'[v].results = evidence[v].results
        PROVE  VerdictsAreExplained'
    <2>1. "running" \notin Verdict
      BY DEF Verdict
    <2>2. ASSUME NEW v \in Verify, NEW verdict \in Verdict, attempt'[v] = verdict
          PROVE  Explained(v, verdict)'
      <3>1. v # process.op /\ Explained(v, verdict)
        BY <1>3, <2>1, <2>2 DEF VerdictsAreExplained
      <3>2. QED BY <1>1, <1>3, <3>1
    <2>3. QED BY <1>0, <2>2
  <1>4. CASE RecordEnvironment /\ EnvironmentRecorded
    <2>1. process.op \in Verify
      BY <1>4, RunningOp DEF RecordEnvironment, At, VerifyPoint
    <2>2. QED BY <1>3, <1>4, <2>1, EnvironmentLeaves DEF RecordEnvironment
  <1>5. CASE RecordResult /\ ResultRecorded
    <2>1. process.op \in Verify
      BY <1>5, RunningOp DEF RecordResult, At, VerifyPoint
    <2>2. QED BY <1>3, <1>5, <2>1, ResultLeaves DEF RecordResult
  <1>6. QED BY <1>2, <1>4, <1>5, EvidenceChanges

LEMMA EvidenceIsInStepKept ==
  ASSUME TypeOK, EvidenceIsInStep, [Next]_vars
  PROVE  EvidenceIsInStep'
  <1> USE TypesInParts
  <1>0. process \in [at : {"idle"} \cup BeginPoint \cup VerifyPoint,
                    op : Operation \cup {Nobody}, fresh : BOOLEAN, run : Outcome,
                    exact : BOOLEAN]
        /\ (process.at \in VerifyPoint => process.op \in Verify)
    BY RunningOp DEF ProcessOK
  <1>1. ASSUME UNCHANGED <<attempt, evidence>>,
               process'.at \notin {"start", "recover", "settled", "answer", "mark", "check",
                                  "run", "environment", "result"}
        PROVE  EvidenceIsInStep'
    BY <1>1 DEF EvidenceIsInStep
  <1>2. ASSUME UNCHANGED <<attempt, evidence>>, process'.at = process.at, process'.op = process.op
        PROVE  EvidenceIsInStep'
    BY <1>2 DEF EvidenceIsInStep, Complete
  <1>3. CASE InsertSession \/ PrepareCheckout \/ Materialize \/ FinishCheckout \/ Publish
             \/ ConfirmBegin \/ FailPreparation \/ AnswerVerify \/ Crash \/ FailCheck
    <2>1. process'.at \in {"idle", "settle", "publish", "materialize", "finish", "confirm",
                          "interrupt"} /\ UNCHANGED <<attempt, evidence>>
      BY <1>3, AtAfter
      DEF InsertSession, PrepareCheckout, Materialize, FinishCheckout, Publish, ConfirmBegin,
          FailPreparation, AnswerVerify, Crash, FailCheck, records
    <2>2. QED BY <1>1, <2>1
  <1>4. CASE Settle
    <2>1. process'.at \in {process.at, "prepare", "confirm"} /\ process.at = "settle"
          /\ UNCHANGED <<attempt, evidence>>
      BY <1>4, AtAfter DEF Settle, At, records
    <2>2. QED BY <1>1, <2>1
  <1>5. ASSUME NEW o \in Begin, CallBegin(o) PROVE EvidenceIsInStep'
    <2>1. process'.at \in {"insert", "settle"} /\ UNCHANGED <<attempt, evidence>>
      BY <1>5 DEF CallBegin, Idle, records
    <2>2. QED BY <1>1, <2>1
  <1>6. ASSUME NEW v \in Verify, CallVerify(v) PROVE EvidenceIsInStep'
    <2>1. process'.op = v /\ process'.at = Resumption(v) /\ UNCHANGED <<attempt, evidence>>
      BY <1>6 DEF CallVerify, Idle, records
    <2>2. /\ Resumption(v) \in {"start", "interrupt", "settled"}
          /\ Resumption(v) = "start" => attempt[v] = "none"
          /\ Resumption(v) = "settled" => attempt[v] \in Verdict
      BY DEF Resumption
    <2>3. QED BY <2>1, <2>2 DEF EvidenceIsInStep
  <1>7. CASE AppendRunning
    <2>1. CASE process' = Idle /\ UNCHANGED attempt
      <3>1. process'.at = "idle" /\ UNCHANGED evidence
        BY <1>7, <2>1, AtAfter DEF AppendRunning
      <3>2. QED BY <1>1, <2>1, <3>1
    <2>2. CASE attempt' = [attempt EXCEPT ![process.op] = "running"] /\ Goto("mark")
      <3>1. process'.at = "mark" /\ process'.op = process.op /\ UNCHANGED evidence
            /\ process.op \in Verify /\ attempt[process.op] = "none"
        BY <1>0, <1>7, <2>2, AtAfter DEF AppendRunning, At, EvidenceIsInStep, VerifyPoint
      <3>2. \A v \in Verify : attempt'[v] = "none" => attempt[v] = "none"
        BY <2>2
      <3>3. evidence[process.op].environments = 0 /\ Len(evidence[process.op].results) = 0
        BY <3>1 DEF EvidenceIsInStep
      <3>4. QED BY <3>1, <3>2, <3>3 DEF EvidenceIsInStep
    <2>3. QED BY <1>7, <2>1, <2>2 DEF AppendRunning
  <1>8. CASE MarkRunning
    <2>1. process.at = "mark" /\ process'.at = "check" /\ process'.op = process.op
          /\ UNCHANGED <<attempt, evidence>>
      BY <1>8, AtAfter DEF MarkRunning, At, records
    <2>2. QED BY <2>1 DEF EvidenceIsInStep
  <1>9. CASE StartCheck
    <2>1. process.at = "check" /\ process'.op = process.op /\ UNCHANGED <<attempt, evidence>>
      BY <1>0, <1>9 DEF StartCheck, At, records
    <2>2. process'.at \in {"conclude", "interrupt"}
          \/ (process'.at = "run" /\ ~Complete(process.op))
      BY <1>0, <1>9 DEF StartCheck
    <2>3. QED BY <2>1, <2>2 DEF EvidenceIsInStep, Complete
  <1>10. ASSUME NEW outcome \in Outcome, EndCheck(outcome) PROVE EvidenceIsInStep'
    <2>1. process.at = "run" /\ process'.op = process.op /\ UNCHANGED <<attempt, evidence>>
          /\ process'.at \in {"environment", "interrupt"}
      BY <1>0, <1>10 DEF EndCheck, At, records
    <2>2. QED BY <2>1 DEF EvidenceIsInStep, Complete
  <1>11. CASE RecordEnvironment /\ EnvironmentRecorded
    <2>1. process.at = "environment" /\ process'.at = "result" /\ process'.op = process.op
          /\ process.op \in Verify /\ UNCHANGED attempt /\ attempt[process.op] = "running"
      BY <1>0, <1>11, AtAfter DEF RecordEnvironment, At, VerifyPoint
    <2>2. QED BY ZenonT(40), <1>11, <2>1, EnvironmentLeaves DEF EvidenceIsInStep
  <1>12. CASE RecordResult /\ ResultRecorded
    <2>1. process.at = "result" /\ process'.at = "check" /\ process'.op = process.op
          /\ process.op \in Verify /\ UNCHANGED attempt /\ attempt[process.op] = "running"
      BY <1>0, <1>12, AtAfter DEF RecordResult, At, VerifyPoint
    <2>2. \A v \in Verify \ {process.op} : evidence'[v] = evidence[v]
      BY <1>12, <2>1 DEF ResultRecorded, EvidenceOK
    <2>3. evidence'[process.op].environments = evidence[process.op].environments
          /\ Len(evidence'[process.op].results) = Len(evidence[process.op].results) + 1
      <3> DEFINE r == [outcome |-> process.run, exact |-> process.exact]
      <3>1. evidence[process.op].results \in Seq(Result) /\ r \in Result
        BY <1>0, <2>1 DEF EvidenceOK, ProcessOK, Result
      <3>2. evidence'[process.op].environments = evidence[process.op].environments
            /\ evidence'[process.op].results = Append(evidence[process.op].results, r)
        BY <1>0, <1>12, <2>1, ResultLeaves
      <3> HIDE DEF r
      <3>3. QED BY <3>1, <3>2, AppendProperties
    <2>4. QED BY <2>1, <2>2, <2>3 DEF EvidenceIsInStep
  <1>13. ASSUME process.op \in Verify, UNCHANGED evidence,
                NEW verdict \in Verdict, attempt' = [attempt EXCEPT ![process.op] = verdict],
                process'.op = process.op, process'.at = "recover"
         PROVE  EvidenceIsInStep'
    <2>1. verdict # "none"
      BY DEF Verdict
    <2>2. QED BY <1>13, <2>1 DEF EvidenceIsInStep
  <1>14. CASE Conclude
    <2>1. process.op \in Verify /\ UNCHANGED evidence /\ process'.op = process.op
          /\ process'.at = "recover"
      BY <1>0, <1>14, AtAfter DEF Conclude, At, VerifyPoint
    <2>2. \E verdict \in Verdict : attempt' = [attempt EXCEPT ![process.op] = verdict]
      BY <1>14 DEF Conclude, Verdict
    <2>3. QED BY <1>13, <2>1, <2>2
  <1>15. CASE Interrupt
    <2>1. CASE process' = Idle /\ UNCHANGED attempt
      <3>1. process'.at = "idle" /\ UNCHANGED evidence
        BY <1>15, <2>1, AtAfter DEF Interrupt
      <3>2. QED BY <1>1, <2>1, <3>1
    <2>2. CASE attempt' = [attempt EXCEPT ![process.op] = "interrupted"] /\ Goto("recover")
      <3>1. process.op \in Verify /\ UNCHANGED evidence /\ process'.op = process.op
            /\ process'.at = "recover" /\ "interrupted" \in Verdict
        BY <1>0, <1>15, <2>2, AtAfter DEF Interrupt, At, VerifyPoint, Verdict
      <3>2. QED BY <1>13, <2>2, <3>1
    <2>3. QED BY <1>15, <2>1, <2>2 DEF Interrupt
  <1>16. CASE Recover \/ SettleVerdict
    <2>1. process.at \in {"recover", "settled"} /\ process'.at = "answer"
          /\ process'.op = process.op /\ UNCHANGED <<attempt, evidence>>
      BY <1>16, AtAfter DEF Recover, SettleVerdict, At, records
    <2>2. QED BY <2>1 DEF EvidenceIsInStep
  <1>17. CASE Alter \/ (\E awaited \in BOOLEAN : Elsewhere(awaited)) \/ UNCHANGED vars
    <2>1. UNCHANGED <<attempt, evidence>> /\ process'.at = process.at /\ process'.op = process.op
      BY <1>0, <1>17 DEF Alter, Elsewhere, vars, records
    <2>2. QED BY <1>2, <2>1
  <1>18. QED
    BY <1>3, <1>4, <1>5, <1>6, <1>7, <1>8, <1>9, <1>10, <1>11, <1>12, <1>14, <1>15, <1>16, <1>17
    DEF Next, BeginStep, VerifyStep, RecordEnvironment, EnvironmentRecorded, RecordResult,
        ResultRecorded

-----------------------------------------------------------------------------
LEMMA ReviewInvHolds == Init => ReviewInv
  <1> SUFFICES ASSUME Init PROVE ReviewInv
    OBVIOUS
  <1>1. \A v \in Verify : /\ attempt[v] = "none" /\ evidence[v].environments = 0
                          /\ evidence[v].results = <<>>
    BY DEF Init
  <1>2. process.at = "idle"
    BY DEF Init, Idle
  <1>3. ResultsAreExact
    <2>1. DOMAIN <<>> = {}
      OBVIOUS
    <2>2. QED BY <1>1, <2>1 DEF ResultsAreExact
  <1>4. VerdictsAreExplained /\ RunIsExact /\ EvidenceIsInStep
    BY <1>1, <1>2 DEF VerdictsAreExplained, RunIsExact, EvidenceIsInStep, Verdict
  <1>5. QED BY <1>3, <1>4, ReviewInitTyped DEF ReviewInv

\* Every state of a review satisfies the invariant: the crash of a command, an altered
\* checkout or a failed preparation between any two of its steps leave the records it
\* resumes from as a whole (review_begin and review_verify, engine.rs).
THEOREM ReviewKeepsInv == Spec => []ReviewInv
  <1>1. ReviewInv /\ [Next]_vars => ReviewInv'
    BY ReviewStepTyped, ResultsAreExactKept, RunIsExactKept, VerdictsAreExplainedKept,
       EvidenceIsInStepKept DEF ReviewInv
  <1>2. QED BY ReviewInvHolds, <1>1, PTL DEF Spec

\* Type correctness of the review: among others, that a resumed attempt has recorded one
\* result for each environment, but for the last, and no more than the plan has executions.
THEOREM ReviewTypes == Spec => []TypeOK
  <1>1. ReviewInv => TypeOK
    BY DEF ReviewInv
  <1>2. QED BY ReviewKeepsInv, <1>1, PTL

LEMMA EarnedByInvariant == ReviewInv => VerdictIsEarned
  <1> SUFFICES ASSUME ReviewInv, NEW v \in Verify, attempt[v] \in Verdict
      PROVE  attempt[v] = "passed" <=>
               /\ Complete(v)
               /\ \A i \in 1..Checks :
                    evidence[v].results[i] = [outcome |-> "passed", exact |-> TRUE]
    BY DEF VerdictIsEarned
  <1>1. evidence[v].results \in Seq(Result) /\ Checks \in Nat
    BY ReviewAssumption, TypesInParts DEF ReviewInv, EvidenceOK
  <1>2. Explained(v, attempt[v])
    BY DEF ReviewInv, VerdictsAreExplained
  <1>3. ASSUME Complete(v)
        PROVE  /\ DOMAIN evidence[v].results = 1..Checks
               /\ AllPassed(evidence[v].results) <=>
                    \A i \in 1..Checks :
                      evidence[v].results[i] = [outcome |-> "passed", exact |-> TRUE]
    <2>1. DOMAIN evidence[v].results = 1..Checks
      BY <1>1, <1>3 DEF Complete
    <2>2. ASSUME NEW i \in 1..Checks
          PROVE  evidence[v].results[i].outcome = "passed" <=>
                 evidence[v].results[i] = [outcome |-> "passed", exact |-> TRUE]
      <3>1. evidence[v].results[i] \in Result
        BY <1>1, <2>1
      <3>2. evidence[v].results[i].exact = TRUE
        <4>1. evidence[v].results[i].exact
          BY <2>1 DEF ReviewInv, ResultsAreExact
        <4>2. evidence[v].results[i].exact \in BOOLEAN
          BY <3>1 DEF Result
        <4>3. QED BY <4>1, <4>2
      <3>3. ASSUME NEW r \in Result, r.exact = TRUE
            PROVE  r.outcome = "passed" <=> r = [outcome |-> "passed", exact |-> TRUE]
        <4>1. r = [outcome |-> r.outcome, exact |-> r.exact]
          BY <3>3 DEF Result
        <4>2. QED BY <3>3, <4>1
      <3>4. QED BY <3>1, <3>2, <3>3
    <2>3. QED BY <2>1, <2>2 DEF AllPassed
  <1>4. CASE attempt[v] = "passed"
    BY <1>2, <1>3, <1>4 DEF Explained
  <1>5. CASE attempt[v] = "failed"
    BY <1>2, <1>3, <1>5 DEF Explained
  <1>6. CASE attempt[v] = "interrupted"
    BY <1>2, <1>3, <1>6 DEF Explained
  <1>7. QED BY <1>4, <1>5, <1>6 DEF Verdict

\* A passed attempt ran every execution of the plan, each passed, and each on the exact
\* candidate from its first to its last instruction; a failed or interrupted one is not a
\* full set of passing results (review_verify and validate_attempt_results).
THEOREM VerdictsAreEarned == Spec => []VerdictIsEarned
  BY ReviewKeepsInv, EarnedByInvariant, PTL
-----------------------------------------------------------------------------
(* The inductive invariant of a command.                                   *)

\* The main thread waits exactly as long as no end of the command is decided, and goes on
\* only when its child has ended; the sandbox then ends every descendant with the child.
CommandIsOver ==
  /\ done <=> main[1] # "wait"
  /\ main[1] # "wait" => child # "running"
  /\ contained /\ child # "running" => ~holder

\* What a thread is allowed to keep is within what it read and what its stream has room for.
AllowanceIsBounded ==
  \A s \in Stream : capture[s].at \in {"swap", "write"} =>
    capture[s].allowed <= capture[s].got /\ capture[s].allowed <= Room(s)

\* Only a thread that ended can have cut or missed output, and only where a descendant may
\* outlive the command does a thread give up.
OnlyEndedThreadsLose ==
  \A s \in Stream :
    /\ capture[s].at # "ended" => ~capture[s].truncated /\ ~capture[s].incomplete
    /\ capture[s].at \in {"read", "blocked", "probe"} => capture[s].got = 0
    /\ capture[s].incomplete \/ capture[s].late > 0 \/ capture[s].at = "probe" => ~contained
    /\ capture[s].at \notin {"probe", "ended"} => capture[s].late < Patience

\* Until output is lost, what was written is kept, at hand, or still in the pipe; a thread
\* that ended without a loss has seen the end of its pipe.
NothingIsLost ==
  \A s \in Stream : ~capture[s].truncated /\ ~capture[s].incomplete =>
    /\ written[s] = pipe[s] + capture[s].got + capture[s].kept
    /\ capture[s].at = "ended" => pipe[s] = 0 /\ capture[s].got = 0 /\ ~Alive

\* The report is what the child and the threads say, all of which have ended.
ReportIsFinal ==
  IF main[1] = "ended"
  THEN report = Report /\ \A s \in Stream : ThreadAt(s, "ended")
  ELSE report = NoReport

CaptureInv ==
  /\ CaptureTypeOK /\ CommandIsOver /\ AllowanceIsBounded
  /\ OnlyEndedThreadsLose /\ NothingIsLost /\ ReportIsFinal

-----------------------------------------------------------------------------
(* What the steps of a thread do.                                          *)

LEMMA LeastIs ==
  ASSUME NEW a \in Nat, NEW b \in Nat
  PROVE  Least(a, b) \in {a, b} /\ Least(a, b) <= a /\ Least(a, b) <= b
  <1>1. \E x \in {a, b} : \A y \in {a, b} : x <= y
    <2>1. CASE a <= b
      BY <2>1
    <2>2. CASE b <= a
      BY <2>2
    <2>3. QED BY <2>1, <2>2
  <1>2. Least(a, b) = CHOOSE x \in {a, b} : \A y \in {a, b} : x <= y
    BY DEF Least, Min
  <1>3. QED BY <1>1, <1>2

\* What the invariant says of a thread in state c, of its stream w bytes of which are written
\* and p in the pipe.
RecordOK(c, w, p) ==
  /\ c.at \in {"swap", "write"} => c.allowed <= c.got /\ c.allowed <= StreamLimit - c.kept
  /\ c.at # "ended" => ~c.truncated /\ ~c.incomplete
  /\ c.at \in {"read", "blocked", "probe"} => c.got = 0
  /\ c.incomplete \/ c.late > 0 \/ c.at = "probe" => ~contained
  /\ c.at \notin {"probe", "ended"} => c.late < Patience
  /\ ~c.truncated /\ ~c.incomplete =>
       /\ w = p + c.got + c.kept
       /\ c.at = "ended" => p = 0 /\ c.got = 0 /\ ~Alive

ThreadOK(s) == RecordOK(capture[s], written[s], pipe[s])

LEMMA ThreadsInParts ==
  (\A s \in Stream : ThreadOK(s)) <=> AllowanceIsBounded /\ OnlyEndedThreadsLose /\ NothingIsLost
  BY DEF ThreadOK, RecordOK, Room, AllowanceIsBounded, OnlyEndedThreadsLose, NothingIsLost

\* What a step of a thread leaves alone, and what it keeps.
ThreadStays(s) ==
  /\ \A o \in Stream \ {s} : capture'[o] = capture[o] /\ pipe'[o] = pipe[o]
  /\ UNCHANGED <<child, contained, holder, written, granted, done, main, report>>

ThreadTyped ==
  /\ capture' \in [Stream -> Capture] /\ pipe' \in [Stream -> 0..MaxWritten]
  /\ \A o \in Stream : pipe'[o] <= pipe[o]
  /\ budget' \in 0..granted /\ limited' \in BOOLEAN

LEMMA CaptureTypes ==
  ASSUME CaptureTypeOK
  PROVE  /\ child \in {"running", "signal"} \cup Code /\ contained \in BOOLEAN
         /\ holder \in BOOLEAN
         /\ written \in [Stream -> 0..MaxWritten] /\ pipe \in [Stream -> 0..MaxWritten]
         /\ \A s \in Stream : pipe[s] <= written[s]
         /\ budget \in 0..granted /\ granted \in Nat
         /\ capture \in [Stream -> Capture] /\ limited \in BOOLEAN
         /\ MaxWritten \in Nat /\ StreamLimit \in Nat /\ Patience \in Nat \ {0}
  BY CaptureAssumption DEF CaptureTypeOK

\* A thread's own record is all a step of it changes of the threads.
LEMMA ThreadBecomes ==
  ASSUME CaptureTypeOK, NEW s \in Stream, NEW c \in Capture, Becomes(s, c)
  PROVE  /\ capture' \in [Stream -> Capture] /\ capture'[s] = c
         /\ \A o \in Stream \ {s} : capture'[o] = capture[o]
  BY CaptureTypes DEF Becomes

LEMMA ThreadLeaves ==
  ASSUME CaptureTypeOK, NEW s \in Stream, NEW c \in Capture, Becomes(s, c),
         UNCHANGED <<pipe, child, contained, holder, written, granted, done, main, report>>,
         budget' \in 0..granted, limited' \in BOOLEAN, RecordOK(c, written[s], pipe[s])
  PROVE  ThreadStays(s) /\ ThreadTyped /\ ThreadOK(s)'
  BY ThreadBecomes, CaptureTypes DEF ThreadStays, ThreadTyped, ThreadOK, RecordOK, Alive

LEMMA ReadKeeps ==
  ASSUME CaptureTypeOK, NEW s \in Stream, ThreadOK(s), NEW n \in 1..MaxWritten, Read(s, n)
  PROVE  ThreadStays(s) /\ ThreadTyped /\ ThreadOK(s)'
  <1> USE CaptureTypes
  <1> DEFINE c == [capture[s] EXCEPT !.at = "reserve", !.got = n]
  <1>1. capture[s] \in Capture /\ n \in 0..MaxWritten
    OBVIOUS
  <1>2. /\ c \in Capture /\ c.at = "reserve" /\ c.got = n /\ c.kept = capture[s].kept
        /\ c.truncated = capture[s].truncated /\ c.incomplete = capture[s].incomplete
        /\ c.late = capture[s].late
    BY <1>1 DEF Capture
  <1>3. Becomes(s, c)
    BY DEF Read
  <1>4. /\ UNCHANGED <<child, contained, holder, written, budget, granted, limited, done, main,
                       report>>
        /\ capture[s].at = "read" /\ n \in 1..pipe[s] /\ pipe' = [pipe EXCEPT ![s] = @ - n]
    BY DEF Read, shared, ThreadAt
  <1> HIDE DEF c
  <1>5. capture' \in [Stream -> Capture] /\ capture'[s] = c
        /\ \A o \in Stream \ {s} : capture'[o] = capture[o]
    BY <1>2, <1>3, ThreadBecomes
  <1>6. pipe' \in [Stream -> 0..MaxWritten] /\ pipe'[s] = pipe[s] - n
        /\ \A o \in Stream \ {s} : pipe'[o] = pipe[o]
    BY <1>4
  <1>7. ThreadTyped
    BY <1>4, <1>5, <1>6 DEF ThreadTyped
  <1>8. ThreadOK(s)'
    BY <1>1, <1>2, <1>4, <1>5, <1>6 DEF ThreadOK, RecordOK, Alive, Capture
  <1>9. QED BY <1>4, <1>5, <1>6, <1>7, <1>8 DEF ThreadStays

LEMMA EndOfFileKeeps ==
  ASSUME CaptureTypeOK, NEW s \in Stream, ThreadOK(s), EndOfFile(s)
  PROVE  ThreadStays(s) /\ ThreadTyped /\ ThreadOK(s)'
  <1> USE CaptureTypes
  <1> DEFINE c == [capture[s] EXCEPT !.at = "ended"]
  <1>1. capture[s] \in Capture
    OBVIOUS
  <1>2. /\ c \in Capture /\ c.at = "ended" /\ c.got = capture[s].got /\ c.kept = capture[s].kept
        /\ c.truncated = capture[s].truncated /\ c.incomplete = capture[s].incomplete
        /\ c.late = capture[s].late
    BY <1>1 DEF Capture
  <1>3. /\ Becomes(s, c) /\ capture[s].at = "read" /\ pipe[s] = 0 /\ ~Alive
        /\ UNCHANGED <<pipe, child, contained, holder, written, budget, granted, limited, done,
                       main, report>>
    BY DEF EndOfFile, world, shared, ThreadAt
  <1> HIDE DEF c
  <1>4. RecordOK(c, written[s], pipe[s])
    BY <1>1, <1>2, <1>3 DEF ThreadOK, RecordOK, Capture
  <1>5. QED BY <1>2, <1>3, <1>4, ThreadLeaves

LEMMA WouldBlockKeeps ==
  ASSUME CaptureTypeOK, NEW s \in Stream, ThreadOK(s), WouldBlock(s)
  PROVE  ThreadStays(s) /\ ThreadTyped /\ ThreadOK(s)'
  <1> USE CaptureTypes
  <1> DEFINE c == [capture[s] EXCEPT !.at = "blocked"]
  <1>1. capture[s] \in Capture
    OBVIOUS
  <1>2. /\ c \in Capture /\ c.at = "blocked" /\ c.got = capture[s].got
        /\ c.kept = capture[s].kept /\ c.truncated = capture[s].truncated
        /\ c.incomplete = capture[s].incomplete /\ c.late = capture[s].late
    BY <1>1 DEF Capture
  <1>3. /\ Becomes(s, c) /\ capture[s].at = "read"
        /\ UNCHANGED <<pipe, child, contained, holder, written, budget, granted, limited, done,
                       main, report>>
    BY DEF WouldBlock, world, shared, ThreadAt
  <1> HIDE DEF c
  <1>4. RecordOK(c, written[s], pipe[s])
    BY <1>1, <1>2, <1>3 DEF ThreadOK, RecordOK, Capture
  <1>5. QED BY <1>2, <1>3, <1>4, ThreadLeaves

LEMMA UnblockKeeps ==
  ASSUME CaptureTypeOK, NEW s \in Stream, ThreadOK(s), Unblock(s)
  PROVE  ThreadStays(s) /\ ThreadTyped /\ ThreadOK(s)'
  <1> USE CaptureTypes
  <1> DEFINE c == [capture[s] EXCEPT !.at = IF GivesUp THEN "ended" ELSE "read",
                                     !.incomplete = GivesUp]
  <1>1. capture[s] \in Capture /\ GivesUp \in BOOLEAN
    BY DEF GivesUp
  <1>2. /\ c \in Capture /\ c.at = (IF GivesUp THEN "ended" ELSE "read")
        /\ c.got = capture[s].got /\ c.kept = capture[s].kept
        /\ c.truncated = capture[s].truncated /\ c.incomplete = GivesUp
        /\ c.late = capture[s].late
    BY <1>1 DEF Capture
  <1>3. /\ Becomes(s, c) /\ capture[s].at = "blocked"
        /\ UNCHANGED <<pipe, child, contained, holder, written, budget, granted, limited, done,
                       main, report>>
    BY DEF Unblock, world, shared, ThreadAt
  <1> HIDE DEF c
  <1>4. GivesUp => ~contained
    BY DEF GivesUp
  <1>5. RecordOK(c, written[s], pipe[s])
    <2>1. CASE GivesUp
      BY <1>1, <1>2, <1>3, <1>4, <2>1 DEF ThreadOK, RecordOK, Capture
    <2>2. CASE ~GivesUp
      BY <1>1, <1>2, <1>3, <2>2 DEF ThreadOK, RecordOK, Capture
    <2>3. QED BY <2>1, <2>2
  <1>6. QED BY <1>2, <1>3, <1>5, ThreadLeaves

LEMMA LoadBudgetKeeps ==
  ASSUME CaptureTypeOK, NEW s \in Stream, ThreadOK(s), LoadBudget(s)
  PROVE  ThreadStays(s) /\ ThreadTyped /\ ThreadOK(s)'
  <1> USE CaptureTypes
  <1> DEFINE a == Least(capture[s].got, Room(s))
             c == [capture[s] EXCEPT !.at = "swap", !.seen = budget, !.allowed = a]
  <1>1. capture[s] \in Capture /\ budget \in Nat
    OBVIOUS
  <1>2. /\ a \in 0..MaxWritten /\ a <= capture[s].got /\ a <= StreamLimit - capture[s].kept
    <2>1. capture[s].got \in 0..MaxWritten /\ Room(s) \in Nat
      BY <1>1 DEF Capture, Room
    <2>2. QED BY <2>1, LeastIs DEF Room
  <1>3. /\ Becomes(s, c) /\ capture[s].at = "reserve"
        /\ UNCHANGED <<pipe, child, contained, holder, written, budget, granted, limited, done,
                       main, report>>
    BY DEF LoadBudget, world, shared, ThreadAt
  <1> HIDE DEF a
  <1>4. /\ c \in Capture /\ c.at = "swap" /\ c.got = capture[s].got
        /\ c.kept = capture[s].kept /\ c.truncated = capture[s].truncated
        /\ c.incomplete = capture[s].incomplete /\ c.late = capture[s].late /\ c.allowed = a
    BY <1>1, <1>2 DEF Capture
  <1> HIDE DEF c
  <1>5. RecordOK(c, written[s], pipe[s])
    BY <1>1, <1>2, <1>3, <1>4 DEF ThreadOK, RecordOK, Capture
  <1>6. QED BY <1>3, <1>4, <1>5, ThreadLeaves

LEMMA SwapBudgetKeeps ==
  ASSUME CaptureTypeOK, NEW s \in Stream, ThreadOK(s), SwapBudget(s)
  PROVE  ThreadStays(s) /\ ThreadTyped /\ ThreadOK(s)'
  <1> USE CaptureTypes
  <1>1. capture[s] \in Capture /\ budget \in Nat
    OBVIOUS
  <1>2. /\ capture[s].at = "swap"
        /\ UNCHANGED <<pipe, child, contained, holder, written, granted, limited, done, main,
                       report>>
    BY DEF SwapBudget, world, ThreadAt
  <1>3. CASE Overtaken(s)
    <2> DEFINE c == [capture[s] EXCEPT !.seen = budget]
    <2>1. /\ c \in Capture /\ c.at = "swap" /\ c.got = capture[s].got
          /\ c.kept = capture[s].kept /\ c.truncated = capture[s].truncated
          /\ c.incomplete = capture[s].incomplete /\ c.late = capture[s].late
          /\ c.allowed = capture[s].allowed
      BY <1>1, <1>2 DEF Capture
    <2>2. Becomes(s, c) /\ UNCHANGED budget
      BY <1>3 DEF SwapBudget
    <2> HIDE DEF c
    <2>3. RecordOK(c, written[s], pipe[s])
      BY <1>1, <1>2, <2>1 DEF ThreadOK, RecordOK, Capture
    <2>4. QED BY <1>2, <2>1, <2>2, <2>3, ThreadLeaves
  <1>4. CASE ~Overtaken(s)
    <2> DEFINE r == Least(capture[s].seen, capture[s].allowed)
               c == [capture[s] EXCEPT !.at = "write", !.allowed = r]
    <2>1. capture[s].seen = budget /\ capture[s].allowed \in 0..MaxWritten
      BY <1>1, <1>4 DEF Overtaken, Capture
    <2>2. r \in Nat /\ r <= budget /\ r <= capture[s].allowed
      BY <1>1, <2>1, LeastIs
    <2>3. Becomes(s, c) /\ budget' = capture[s].seen - r
      BY <1>4 DEF SwapBudget
    <2> HIDE DEF r
    <2>4. budget' \in 0..granted /\ r \in 0..MaxWritten
      BY <1>1, <2>1, <2>2, <2>3
    <2>5. /\ c \in Capture /\ c.at = "write" /\ c.got = capture[s].got
          /\ c.kept = capture[s].kept /\ c.truncated = capture[s].truncated
          /\ c.incomplete = capture[s].incomplete /\ c.late = capture[s].late /\ c.allowed = r
      BY <1>1, <2>4 DEF Capture
    <2> HIDE DEF c
    <2>6. RecordOK(c, written[s], pipe[s])
      BY <1>1, <1>2, <2>2, <2>5 DEF ThreadOK, RecordOK, Capture
    <2>7. limited' \in BOOLEAN
      BY <1>2
    <2>8. QED BY <1>2, <2>3, <2>4, <2>5, <2>6, <2>7, ThreadLeaves
  <1>5. QED BY <1>3, <1>4

LEMMA KeepKeeps ==
  ASSUME CaptureTypeOK, NEW s \in Stream, ThreadOK(s), Keep(s)
  PROVE  ThreadStays(s) /\ ThreadTyped /\ ThreadOK(s)'
  <1> USE CaptureTypes
  <1> DEFINE cut  == IsCut(s)
             late == IF ~cut /\ GivesUp THEN capture[s].late + 1 ELSE capture[s].late
             at   == IF cut THEN "ended" ELSE IF late >= Patience THEN "probe" ELSE "read"
             kept == capture[s].kept + capture[s].allowed
             c    == [at |-> at, got |-> 0, seen |-> 0, allowed |-> 0, kept |-> kept,
                      truncated |-> cut, incomplete |-> capture[s].incomplete, late |-> late]
  <1>1. /\ capture[s] \in Capture /\ cut \in BOOLEAN /\ GivesUp \in BOOLEAN
        /\ cut = (capture[s].allowed < capture[s].got)
    BY DEF IsCut, GivesUp
  <1>2. /\ capture[s].at = "write" /\ Becomes(s, c) /\ limited' = (limited \/ cut)
        /\ UNCHANGED <<pipe, child, contained, holder, written, budget, granted, done, main,
                       report>>
    BY DEF Keep, world, ThreadAt
  <1>3. GivesUp => ~contained
    BY DEF GivesUp
  <1>4. /\ capture[s].allowed <= capture[s].got /\ kept \in 0..StreamLimit
        /\ ~capture[s].truncated /\ ~capture[s].incomplete
    BY <1>1, <1>2 DEF ThreadOK, RecordOK, Capture
  <1>5. ~cut => written[s] = pipe[s] + kept
    <2>1. capture[s].allowed \in Nat /\ capture[s].got \in Nat
      BY <1>1 DEF Capture
    <2>2. ~cut => capture[s].allowed = capture[s].got
      BY <1>4, <2>1 DEF IsCut
    <2>3. written[s] = pipe[s] + capture[s].got + capture[s].kept
      BY <1>4 DEF ThreadOK, RecordOK
    <2>4. QED BY <2>1, <2>2, <2>3, <1>1 DEF Capture
  <1>6. late \in Nat /\ (late > 0 => ~contained)
    BY <1>1, <1>3 DEF ThreadOK, RecordOK, Capture
  <1>7. late \in 0..Patience
    BY <1>1, <1>2 DEF ThreadOK, RecordOK, Capture
  <1>8. /\ at \in {"ended", "probe", "read"} /\ (at = "ended" <=> cut)
        /\ (at = "probe" => ~contained) /\ (at = "read" => late < Patience)
    BY <1>6
  <1> HIDE DEF at, kept, late, cut
  <1>9. /\ c \in Capture /\ c.at = at /\ c.got = 0 /\ c.kept = kept /\ c.truncated = cut
        /\ c.incomplete = capture[s].incomplete /\ c.late = late
    BY <1>1, <1>4, <1>7, <1>8 DEF Capture
  <1> HIDE DEF c
  <1>10. RecordOK(c, written[s], pipe[s])
    BY <1>4, <1>5, <1>6, <1>8, <1>9 DEF RecordOK
  <1>11. limited' \in BOOLEAN
    BY <1>2
  <1>12. QED BY <1>2, <1>9, <1>10, <1>11, ThreadLeaves

LEMMA ProbeKeeps ==
  ASSUME CaptureTypeOK, NEW s \in Stream, ThreadOK(s), Probe(s)
  PROVE  ThreadStays(s) /\ ThreadTyped /\ ThreadOK(s)'
  <1> USE CaptureTypes
  <1> DEFINE more == pipe[s] > 0 \/ Alive
             c == [capture[s] EXCEPT !.at = "ended", !.incomplete = more]
  <1>1. capture[s] \in Capture /\ more \in BOOLEAN
    BY DEF Alive
  <1>2. /\ capture[s].at = "probe" /\ Becomes(s, c)
        /\ pipe' = [pipe EXCEPT ![s] = IF @ > 0 THEN @ - 1 ELSE @]
        /\ UNCHANGED <<child, contained, holder, written, budget, granted, limited, done, main,
                       report>>
    BY DEF Probe, shared, ThreadAt
  <1>3. ~more => pipe[s] = 0 /\ ~Alive
    OBVIOUS
  <1>4. pipe' \in [Stream -> 0..MaxWritten] /\ pipe'[s] <= pipe[s]
        /\ (pipe[s] = 0 => pipe'[s] = 0) /\ \A o \in Stream \ {s} : pipe'[o] = pipe[o]
    BY <1>2
  <1> HIDE DEF more
  <1>5. /\ c \in Capture /\ c.at = "ended" /\ c.got = capture[s].got
        /\ c.kept = capture[s].kept /\ c.truncated = capture[s].truncated
        /\ c.incomplete = more /\ c.late = capture[s].late
    BY <1>1 DEF Capture
  <1> HIDE DEF c
  <1>6. capture' \in [Stream -> Capture] /\ capture'[s] = c
        /\ \A o \in Stream \ {s} : capture'[o] = capture[o]
    BY <1>2, <1>5, ThreadBecomes
  <1>7. ThreadTyped
    BY <1>2, <1>4, <1>6 DEF ThreadTyped
  <1>8. ThreadOK(s)'
    <2>1. CASE more
      BY <1>1, <1>2, <1>4, <1>5, <1>6, <2>1 DEF ThreadOK, RecordOK, Alive, Capture
    <2>2. CASE ~more
      BY <1>1, <1>2, <1>3, <1>4, <1>5, <1>6, <2>2 DEF ThreadOK, RecordOK, Alive, Capture
    <2>3. QED BY <2>1, <2>2
  <1>9. QED BY <1>2, <1>4, <1>6, <1>7, <1>8 DEF ThreadStays

LEMMA ThreadKeeps ==
  ASSUME CaptureInv, NEW s \in Stream, Thread(s)
  PROVE  CaptureInv'
  <1>1. CaptureTypeOK /\ \A o \in Stream : ThreadOK(o)
    BY ThreadsInParts DEF CaptureInv
  <1>2. ThreadStays(s) /\ ThreadTyped /\ ThreadOK(s)'
    BY <1>1, ReadKeeps, EndOfFileKeeps, WouldBlockKeeps, UnblockKeeps, LoadBudgetKeeps,
       SwapBudgetKeeps, KeepKeeps, ProbeKeeps DEF Thread
  <1>3. CaptureTypeOK'
    <2>1. \A o \in Stream : pipe'[o] <= written'[o]
      BY <1>1, <1>2, CaptureTypes DEF ThreadStays, ThreadTyped
    <2>2. QED BY <1>1, <1>2, <2>1 DEF CaptureTypeOK, ThreadStays, ThreadTyped
  <1>4. \A o \in Stream : ThreadOK(o)'
    <2>1. ASSUME NEW o \in Stream, o # s PROVE ThreadOK(o)'
      BY <1>1, <1>2, <2>1 DEF ThreadStays, ThreadOK, RecordOK, Alive
    <2>2. QED BY <1>2, <2>1
  <1>5. AllowanceIsBounded' /\ OnlyEndedThreadsLose' /\ NothingIsLost'
    BY <1>4 DEF ThreadOK, RecordOK, Room, AllowanceIsBounded, OnlyEndedThreadsLose,
                NothingIsLost
  <1>6. CommandIsOver'
    BY <1>2 DEF CaptureInv, CommandIsOver, ThreadStays
  <1>7. ReportIsFinal'
    <2>1. ~ThreadAt(s, "ended")
      BY DEF Thread, Read, EndOfFile, WouldBlock, Unblock, LoadBudget, SwapBudget, Keep, Probe,
             ThreadAt
    <2>2. main[1] # "ended"
      BY <2>1 DEF CaptureInv, ReportIsFinal
    <2>3. QED BY <1>2, <2>2 DEF CaptureInv, ReportIsFinal, ThreadStays
  <1>8. QED BY <1>3, <1>5, <1>6, <1>7 DEF CaptureInv

-----------------------------------------------------------------------------
(* The child, its descendants, and the main thread.                        *)

\* What these leave of the threads: all of them, if nobody who was gone is back, and nothing
\* is written but to open pipes.
LEMMA ThreadsFollow ==
  ASSUME \A s \in Stream : ThreadOK(s), UNCHANGED <<capture, contained, written, pipe>>,
         Alive' => Alive
  PROVE  \A s \in Stream : ThreadOK(s)'
  BY DEF ThreadOK, RecordOK

LEMMA EmitKeeps ==
  ASSUME CaptureInv, NEW s \in Stream, Emit(s)
  PROVE  CaptureInv'
  <1>1. CaptureTypeOK /\ \A o \in Stream : ThreadOK(o)
    BY ThreadsInParts DEF CaptureInv
  <1>2. /\ Alive /\ written[s] < MaxWritten
        /\ written' = [written EXCEPT ![s] = @ + 1] /\ pipe' = [pipe EXCEPT ![s] = @ + 1]
        /\ UNCHANGED <<child, contained, holder, budget, granted, limited, done, capture, main,
                       report>>
    BY DEF Emit, shared
  <1>3. CaptureTypeOK'
    <2>1. /\ written' \in [Stream -> 0..MaxWritten] /\ pipe' \in [Stream -> 0..MaxWritten]
          /\ \A o \in Stream : pipe'[o] <= written'[o]
      BY <1>1, <1>2, CaptureTypes
    <2>2. QED BY <1>1, <1>2, <2>1 DEF CaptureTypeOK
  <1>4. \A o \in Stream : ThreadOK(o)'
    <2>1. ASSUME NEW o \in Stream, o # s PROVE ThreadOK(o)'
      <3>1. written'[o] = written[o] /\ pipe'[o] = pipe[o]
        BY <1>1, <1>2, <2>1, CaptureTypes
      <3>2. QED BY <1>1, <1>2, <3>1 DEF ThreadOK, RecordOK, Alive
    <2>2. ThreadOK(s)'
      <3>1. written'[s] = written[s] + 1 /\ pipe'[s] = pipe[s] + 1
        BY <1>1, <1>2, CaptureTypes
      <3>2. capture[s] \in Capture /\ pipe[s] \in Nat /\ written[s] \in Nat
        BY <1>1, CaptureTypes
      <3>3. QED BY <1>1, <1>2, <3>1, <3>2 DEF ThreadOK, RecordOK, Alive, Capture
    <2>3. QED BY <2>1, <2>2
  <1>5. AllowanceIsBounded' /\ OnlyEndedThreadsLose' /\ NothingIsLost'
    BY <1>4 DEF ThreadOK, RecordOK, Room, AllowanceIsBounded, OnlyEndedThreadsLose,
                NothingIsLost
  <1>6. CommandIsOver'
    BY <1>2 DEF CaptureInv, CommandIsOver
  <1>7. ReportIsFinal'
    BY <1>2 DEF CaptureInv, ReportIsFinal, Report, Truncated, Incomplete, Classify, Ended,
                MayOutlive, ThreadAt
  <1>8. QED BY <1>3, <1>5, <1>6, <1>7 DEF CaptureInv

LEMMA ChildKeeps ==
  ASSUME CaptureInv,
         (\E code \in Code \cup {"signal"} : Exit(code)) \/ Leave
  PROVE  CaptureInv'
  <1>1. CaptureTypeOK /\ \A o \in Stream : ThreadOK(o)
    BY ThreadsInParts DEF CaptureInv
  <1>2. /\ UNCHANGED <<contained, written, pipe, budget, granted, limited, done, capture, main,
                       report>>
        /\ child' = child \/ (child = "running" /\ child' \in Code \cup {"signal"})
        /\ holder' \in {holder, FALSE} /\ (contained /\ child' # "running" => ~holder')
    BY <1>1 DEF Exit, Leave, shared, CaptureInv, CommandIsOver, CaptureTypeOK
  <1>3. CaptureTypeOK'
    BY <1>1, <1>2 DEF CaptureTypeOK
  <1>4. Alive' => Alive
    BY <1>2 DEF Alive
  <1>5. AllowanceIsBounded' /\ OnlyEndedThreadsLose' /\ NothingIsLost'
    BY <1>1, <1>2, <1>4, ThreadsFollow
    DEF ThreadOK, RecordOK, Room, AllowanceIsBounded, OnlyEndedThreadsLose, NothingIsLost
  <1>6. CommandIsOver'
    BY <1>2 DEF CaptureInv, CommandIsOver, Code
  <1>7. ReportIsFinal'
    <2>1. main[1] = "ended" => UNCHANGED child
      BY <1>2 DEF CaptureInv, CommandIsOver
    <2>2. QED
      BY <1>2, <2>1 DEF CaptureInv, ReportIsFinal, Report, Truncated, Incomplete, Classify,
                        Ended, MayOutlive, ThreadAt
  <1>8. QED BY <1>3, <1>5, <1>6, <1>7 DEF CaptureInv

LEMMA MainKeeps ==
  ASSUME CaptureInv, Main
  PROVE  CaptureInv'
  <1>1. CaptureTypeOK /\ \A o \in Stream : ThreadOK(o)
    BY ThreadsInParts DEF CaptureInv
  <1>2. main \in {"wait", "join", "ended"} \X BOOLEAN /\ main[2] \in BOOLEAN
    BY <1>1 DEF CaptureTypeOK
  <1>3. CASE SeeExit \/ SeeLimit \/ SeeTimeout
    <2>1. /\ main[1] = "wait" /\ done' = TRUE /\ \E b \in BOOLEAN : main' = <<"join", b>>
          /\ UNCHANGED <<contained, written, pipe, budget, granted, limited, capture, report>>
          /\ child' \in {child, "signal"} /\ child' # "running"
          /\ holder' \in {holder, FALSE} /\ (contained => ~holder')
      <3>1. contained \in BOOLEAN /\ holder \in BOOLEAN
        BY <1>1, CaptureTypes
      <3>2. CASE SeeExit
        BY <3>1, <3>2 DEF SeeExit, world, CaptureInv, CommandIsOver
      <3>3. CASE SeeLimit \/ SeeTimeout
        BY <3>1, <3>3 DEF SeeLimit, SeeTimeout, Kill
      <3>4. QED BY <1>3, <3>2, <3>3
    <2>2. CaptureTypeOK'
      <3>1. main' \in {"wait", "join", "ended"} \X BOOLEAN
        BY <2>1
      <3>2. holder' \in BOOLEAN /\ child' \in {"running", "signal"} \cup Code
        BY <1>1, <2>1, CaptureTypes
      <3>3. QED BY <1>1, <2>1, <3>1, <3>2 DEF CaptureTypeOK
    <2>3. (Alive' => Alive) \/ child = "running"
      BY <2>1 DEF Alive
    <2>4. Alive' => Alive
      BY <2>3 DEF Alive
    <2>5. AllowanceIsBounded' /\ OnlyEndedThreadsLose' /\ NothingIsLost'
      BY <1>1, <2>1, <2>4, ThreadsFollow
      DEF ThreadOK, RecordOK, Room, AllowanceIsBounded, OnlyEndedThreadsLose, NothingIsLost
    <2>6. CommandIsOver' /\ ReportIsFinal'
      BY <2>1 DEF CaptureInv, CommandIsOver, ReportIsFinal
    <2>7. QED BY <2>2, <2>5, <2>6 DEF CaptureInv
  <1>4. CASE Join
    <2>1. /\ main[1] = "join" /\ main' = <<"ended", main[2]>> /\ report' = Report
          /\ \A s \in Stream : ThreadAt(s, "ended")
          /\ UNCHANGED <<child, contained, holder, written, pipe, budget, granted, limited, done,
                         capture>>
      BY <1>4 DEF Join, world, shared
    <2>2. main'[1] = "ended" /\ main'[2] = main[2]
      BY <2>1
    <2>3. Report \in [termination : Termination, code : Code \cup {"none"}, outlive : BOOLEAN]
      <3>1. /\ Classify(main[2], Truncated, Incomplete) \in Termination
            /\ MayOutlive(main[2], Truncated, Incomplete) \in BOOLEAN
        BY DEF Classify, Ended, Termination, MayOutlive
      <3>2. QED BY <3>1 DEF Report
    <2>4. CaptureTypeOK'
      BY <1>1, <1>2, <2>1, <2>3 DEF CaptureTypeOK
    <2>5. AllowanceIsBounded' /\ OnlyEndedThreadsLose' /\ NothingIsLost'
      BY <1>1, <2>1, ThreadsFollow
      DEF ThreadOK, RecordOK, Room, Alive, AllowanceIsBounded, OnlyEndedThreadsLose,
          NothingIsLost
    <2>6. CommandIsOver'
      BY <2>1, <2>2 DEF CaptureInv, CommandIsOver
    <2>7. ReportIsFinal'
      BY <2>1, <2>2
      DEF ReportIsFinal, Report, Truncated, Incomplete, Classify, Ended, MayOutlive, ThreadAt
    <2>8. QED BY <2>4, <2>5, <2>6, <2>7 DEF CaptureInv
  <1>5. QED BY <1>3, <1>4 DEF Main

LEMMA CaptureInvHolds == CaptureInit => CaptureInv
  <1> SUFFICES ASSUME CaptureInit PROVE CaptureInv
    OBVIOUS
  <1> DEFINE first == [at |-> "read", got |-> 0, seen |-> 0, allowed |-> 0, kept |-> 0,
                       truncated |-> FALSE, incomplete |-> FALSE, late |-> 0]
  <1>1. first \in Capture
    BY CaptureAssumption DEF Capture
  <1>2. /\ \A s \in Stream : capture[s] = first /\ written[s] = 0 /\ pipe[s] = 0
        /\ capture \in [Stream -> Capture] /\ granted \in Nat
    BY <1>1, CaptureAssumption DEF CaptureInit
  <1>3. CaptureTypeOK
    <2>1. {written, pipe} \subseteq [Stream -> 0..MaxWritten]
      BY CaptureAssumption DEF CaptureInit
    <2>2. main \in {"wait", "join", "ended"} \X BOOLEAN
      BY DEF CaptureInit
    <2>3. /\ granted \in Budgets /\ budget \in 0..granted
          /\ child \in {"running", "signal"} \cup Code /\ report = NoReport
      BY <1>2 DEF CaptureInit
    <2>4. contained \in BOOLEAN /\ holder \in BOOLEAN /\ limited \in BOOLEAN /\ done \in BOOLEAN
      BY Zenon DEF CaptureInit
    <2>5. \A s \in Stream : pipe[s] <= written[s]
      BY <1>2
    <2>6. QED BY <1>2, <2>1, <2>2, <2>3, <2>4, <2>5, Zenon DEF CaptureTypeOK
  <1>4. \A s \in Stream : ThreadOK(s)
    BY <1>2, CaptureAssumption DEF ThreadOK, RecordOK
  <1>5. CommandIsOver /\ ReportIsFinal
    BY DEF CaptureInit, CommandIsOver, ReportIsFinal
  <1>6. QED BY <1>3, <1>4, <1>5, ThreadsInParts DEF CaptureInv

\* Every state of a command satisfies the invariant: whatever the order in which the child
\* writes and exits, the threads read and reserve, and the main thread waits and kills
\* (run_controlled, review.rs).
THEOREM CapturesKeepInv == CaptureSpec => []CaptureInv
  <1>1. ASSUME CaptureInv, [CaptureNext]_captureVars PROVE CaptureInv'
    <2>1. CASE UNCHANGED captureVars
      BY <1>1, <2>1
      DEF captureVars, CaptureInv, CaptureTypeOK, CommandIsOver, AllowanceIsBounded,
          OnlyEndedThreadsLose, NothingIsLost, ReportIsFinal, Room, Alive, ThreadAt, Report,
          Truncated, Incomplete, Classify, Ended, MayOutlive
    <2>2. QED BY <1>1, <2>1, ThreadKeeps, EmitKeeps, ChildKeeps, MainKeeps DEF CaptureNext
  <1>2. QED BY CaptureInvHolds, <1>1, PTL DEF CaptureSpec

LEMMA TrueByInvariant == CaptureInv => ReportIsTrue
  <1> SUFFICES ASSUME CaptureInv PROVE ReportIsTrue
    OBVIOUS
  <1>1. CaptureTypeOK /\ CommandIsOver /\ OnlyEndedThreadsLose /\ NothingIsLost /\ ReportIsFinal
    BY DEF CaptureInv
  <1>2. CASE main[1] # "ended"
    <2>1. report = NoReport
      BY <1>1, <1>2 DEF ReportIsFinal
    <2>2. NoReport.termination = "none"
      BY DEF NoReport
    <2>3. QED BY <2>1, <2>2 DEF ReportIsTrue
  <1>3. CASE main[1] = "ended"
    <2>1. /\ report = Report /\ \A s \in Stream : capture[s].at = "ended"
          /\ child \in Code \cup {"signal"} /\ (contained => ~holder)
      BY <1>1, <1>3, CaptureTypes DEF ReportIsFinal, CommandIsOver, ThreadAt
    <2> DEFINE kind == Classify(main[2], Truncated, Incomplete)
               code == IF kind \in {"exited", "incomplete"} /\ child \in Code
                       THEN child ELSE "none"
               outlive == MayOutlive(main[2], Truncated, Incomplete)
    <2>2. report.termination = kind /\ report.code = code /\ report.outlive = outlive
      BY <2>1 DEF Report
    <2>3. main[2] \in BOOLEAN /\ Truncated \in BOOLEAN /\ Incomplete \in BOOLEAN
      BY <1>1 DEF CaptureTypeOK, Truncated, Incomplete
    <2>4. Incomplete => ~contained
      BY <1>1 DEF OnlyEndedThreadsLose, Incomplete
    <2>5. ~Truncated /\ ~Incomplete => ~Alive /\ \A s \in Stream : capture[s].kept = written[s]
      <3>1. ASSUME NEW s \in Stream, ~Truncated, ~Incomplete
            PROVE  ~Alive /\ capture[s].kept = written[s]
        <4>1. /\ ~capture[s].truncated /\ ~capture[s].incomplete /\ capture[s].at = "ended"
          BY <2>1, <3>1 DEF Truncated, Incomplete
        <4>2. capture[s] \in Capture
          BY <1>1, CaptureTypes
        <4>3. QED BY <1>1, <4>1, <4>2 DEF NothingIsLost, Capture
      <3>2. QED BY <3>1, CaptureAssumption
    <2>6. /\ kind = "exited" => ~main[2] /\ ~Truncated /\ ~Incomplete /\ child \in Code
          /\ kind = "signaled" => ~main[2] /\ ~Truncated /\ ~Incomplete
          /\ kind = "incomplete" => ~Truncated /\ Incomplete
          /\ kind = "limit_exceeded" => Truncated
          /\ kind = "timed_out" => main[2]
          /\ kind \in {"exited", "signaled", "incomplete", "limit_exceeded", "timed_out"}
      BY <2>1, <2>3 DEF Classify, Ended
    <2>7. "none" \notin Code
      BY DEF Code
    <2>8. outlive <=> (main[2] \/ Truncated \/ Incomplete) /\ ~contained
      BY DEF MayOutlive
    <2> HIDE DEF kind, outlive
    <2>9. Recordable
      BY <2>2, <2>4, <2>6, <2>7, <2>8 DEF Recordable
    <2>10. QED BY <2>2, <2>5, <2>6, <2>9 DEF ReportIsTrue
  <1>4. QED BY <1>2, <1>3

\* Every report can be recorded as a result.  A command reported as exited, the only way to
\* pass a check, has its whole output kept, and nobody is left who could write more
\* (run_controlled and ReviewCheckResult::validate).
THEOREM ReportsAreTrue == CaptureSpec => []ReportIsTrue
  BY CapturesKeepInv, TrueByInvariant, PTL
=============================================================================
