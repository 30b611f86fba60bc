--------------------------- MODULE ReviewRecords ---------------------------
(***************************************************************************)
(* The rows a review session leaves (agsv-control: the review tables of     *)
(* store.rs, written by review_verify of engine.rs).  A verification inserts *)
(* a running fact, an environment and a result for each execution of the    *)
(* plan, and a terminal fact; no row is ever changed.  Each carries times of *)
(* the system clock, which may be set back.  Whoever writes checks the row   *)
(* against those it refers to; whoever reads, `doctor` above all, checks all *)
(* of them again.                                                           *)
(*                                                                         *)
(* The session stays ready with an exact checkout (ReviewExecution has the  *)
(* other cases), and one command runs at a time.                            *)
(***************************************************************************)
EXTENDS Integers, FiniteSets, FiniteSetsExt

CONSTANTS
  Operation,    \* ids of review.verify operations
  Nobody,
  Executions,   \* executions the plan asks for: checks and their variants
  Window,       \* results read back to answer: 2 * checks + 8 in the code
  Latest,       \* bound on the clock
  MaxTurns,     \* bound on how often it is set back
  MaxDeaths     \* bound on the deaths of the command

ASSUME RecordsAssumption == {Executions, Window, Latest, MaxTurns, MaxDeaths} \subseteq Nat

VARIABLES
  clock, turns, deaths,
  facts,         \* review_verification_attempts
  environments,  \* review_environment_records
  results,       \* review_check_results
  outputs,       \* files published below evidence/attempt-N
  session,       \* of the session row: resume required, updated_at
  answers,       \* results recorded for the operation ids
  command        \* the one running command

recordVars == <<clock, turns, deaths, facts, environments, results,
                outputs, session, answers, command>>
world  == <<clock, turns, deaths>>
tables == <<facts, environments, results, outputs>>

AttemptVerdict == {"passed", "failed", "interrupted"}
Time == 0..Latest

Fact == [sequence : Nat, operation : Operation,
         status : AttemptVerdict \cup {"running"}, started : Time, recorded : Time]
Environment == [sequence : Nat, execution : Nat, recorded : Time]
Result == [sequence : Nat, execution : Nat, started : Time, finished : Time,
           passed : BOOLEAN]
Output == [sequence : Nat, execution : Nat, of : {"tools", "check"}, whole : BOOLEAN]

\* What a command remembers: its attempt, and the times of the execution at
\* hand.
Attempting == {"mark", "capture", "spawn", "wait", "environment", "result",
               "conclude", "interrupt"}
Point == Attempting \cup {"idle", "recover", "answer"}
Command == [at : Point, operation : Operation \cup {Nobody}, sequence : Nat,
            started : Time, captured : Time, spawned : Time, ended : Time,
            passed : BOOLEAN]
NoCommand == [at |-> "idle", operation |-> Nobody, sequence |-> 0, started |-> 0,
              captured |-> 0, spawned |-> 0, ended |-> 0, passed |-> FALSE]

RecordsTypeOK ==
  /\ clock \in Time /\ turns \in 0..MaxTurns /\ deaths \in 0..MaxDeaths
  /\ facts \subseteq Fact
  /\ environments \subseteq Environment /\ results \subseteq Result
  /\ outputs \subseteq Output
  /\ session \in [resume : BOOLEAN, updated : Time]
  /\ answers \in [Operation -> AttemptVerdict \cup {"none"}]
  /\ command \in Command

RecordsInit ==
  /\ clock = 0 /\ turns = 0 /\ deaths = 0
  /\ facts = {} /\ environments = {} /\ results = {} /\ outputs = {}
  /\ session = [resume |-> FALSE, updated |-> 0]
  /\ answers = [o \in Operation |-> "none"]
  /\ command = NoCommand

-----------------------------------------------------------------------------
(***************************************************************************)
(* What the rows must satisfy.                                             *)
(***************************************************************************)
\* ReviewVerificationAttempt::validate.
FactIsValid(f) == f.sequence > 0 /\ f.recorded >= f.started

\* Both name an execution of the frozen plan.
EnvironmentIsValid(e) == e.execution \in 1..Executions
ResultIsValid(r) == r.execution \in 1..Executions /\ r.finished >= r.started

\* validate_execution_pair: the environment is captured before the run starts.
IsPair(r, e) ==
  /\ ResultIsValid(r) /\ EnvironmentIsValid(e)
  /\ e.sequence = r.sequence /\ e.execution = r.execution
  /\ e.recorded <= r.started

FactsOf(sequence)   == {f \in facts : f.sequence = sequence}
FactsFor(operation) == {f \in facts : f.operation = operation}
ResultsOf(sequence) == {r \in results : r.sequence = sequence}

\* Whoever reads a result looks for the environment it names.
IsReadable(r) == \E e \in environments : IsPair(r, e)

\* validate_attempt_results, over the results `rs` somebody read.
Supports_Incomplete(verdict, complete, passed) ==
  CASE verdict = "passed"      -> complete /\ passed
    [] verdict = "failed"      -> ~passed
    [] verdict = "interrupted" -> ~complete
Supports(verdict, complete, passed) ==
  CASE verdict = "passed"      -> complete /\ passed
    [] verdict = "failed"      -> ~passed
    [] verdict = "interrupted" -> ~complete \/ ~passed

ExplainedBy(f, rs) ==
  /\ FactIsValid(f)
  /\ \A r \in rs : f.started <= r.started /\ r.finished <= f.recorded
  /\ Supports(f.status, {r.execution : r \in rs} = 1..Executions,
              \A r \in rs : r.passed)

IsRunning(f) == f.status = "running"

\* A terminal fact needs one running fact of the same attempt and operation.
MayEnd(f) ==
  /\ \E running \in facts :
       /\ FactsOf(f.sequence) = {running} /\ FactsFor(f.operation) = {running}
       /\ IsRunning(running) /\ running.started = f.started
  /\ ExplainedBy(f, ResultsOf(f.sequence))

RunningFact(sequence) == CHOOSE f \in FactsOf(sequence) : IsRunning(f)

MayRecordEnvironment_Undated(e) == \E f \in FactsOf(e.sequence) : IsRunning(f)
MayRecordEnvironment(e) ==
  /\ \E f \in FactsOf(e.sequence) : IsRunning(f)
  /\ e.recorded >= RunningFact(e.sequence).started

MayRecordResult(r) ==
  /\ \E f \in FactsOf(r.sequence) : IsRunning(f)
  /\ r.started >= RunningFact(r.sequence).started
  /\ IsReadable(r)

-----------------------------------------------------------------------------
(***************************************************************************)
(* The command.                                                            *)
(***************************************************************************)
At(point) == command.at = point /\ UNCHANGED world
Goto(point) == command' = [command EXCEPT !.at = point]
\* An error ends the command and leaves the rows as they are.
Fail == command' = NoCommand

NextSequence == Max({f.sequence : f \in facts} \cup {0}) + 1

\* An operation takes up where its rows stand: at its verdict, at the remains
\* of a command that died, or anew.
Call(o) ==
  /\ command = NoCommand /\ answers[o] = "none" /\ UNCHANGED world
  /\ LET mine == FactsFor(o)
         take(point, f) == command' = [NoCommand EXCEPT !.at = point,
           !.operation = o, !.sequence = f.sequence, !.started = f.started]
     IN  \/ /\ \E f \in mine : ~IsRunning(f) /\ take("recover", f)
            /\ UNCHANGED facts
         \/ /\ \A f \in mine : IsRunning(f)
            /\ \E f \in mine : take("interrupt", f)
            /\ UNCHANGED facts
         \/ /\ mine = {} /\ FactsOf(NextSequence) = {} /\ ~session.resume
            /\ LET running == [sequence |-> NextSequence, operation |-> o,
                               status |-> "running", started |-> clock,
                               recorded |-> clock]
               IN  facts' = facts \cup {running} /\ take("mark", running)
  /\ UNCHANGED <<environments, results, outputs, session, answers>>

\* transition_review_session refuses a time before that of the row.
Transition(resume, point) ==
  IF clock >= session.updated
  THEN session' = [resume |-> resume, updated |-> clock] /\ Goto(point)
  ELSE Fail /\ UNCHANGED session

Mark ==
  /\ At("mark") /\ Transition(TRUE, "capture")
  /\ UNCHANGED <<tables, answers>>

\* How many executions of the attempt have been recorded.
Done == Cardinality(ResultsOf(command.sequence))

\* create_output_file and persist_output_artifact never write over a file.
Conflicts(of) ==
  \E f \in outputs : f.sequence = command.sequence /\ f.execution = Done + 1
                     /\ f.of = of
Published(of, whole) == [sequence |-> command.sequence, execution |-> Done + 1,
                         of |-> of, whole |-> whole]

\* Before a check the tools are probed and their output is kept.
Capture ==
  /\ At("capture")
  /\ IF Done = Executions THEN Goto("conclude") /\ UNCHANGED outputs
     ELSE IF Conflicts("tools") THEN Goto("interrupt") /\ UNCHANGED outputs
     ELSE /\ outputs' = outputs \cup {Published("tools", TRUE)}
          /\ command' = [command EXCEPT !.at = "spawn", !.captured = clock]
  /\ UNCHANGED <<facts, environments, results, session, answers>>

Spawn ==
  /\ At("spawn")
  /\ command' = [command EXCEPT !.at = "wait", !.spawned = clock]
  /\ UNCHANGED <<tables, session, answers>>

TheEnvironment == [sequence |-> command.sequence, execution |-> Done + 1,
                   recorded |-> command.captured]
TheResult == [sequence |-> command.sequence, execution |-> Done + 1,
              started |-> command.spawned, finished |-> command.ended,
              passed |-> command.passed]

\* Evidence whose times do not fit interrupts the attempt.
Wait(passed) ==
  /\ At("wait")
  /\ LET r == [TheResult EXCEPT !.finished = clock, !.passed = passed]
     IN  IF Conflicts("check") THEN Goto("interrupt") /\ UNCHANGED outputs
         ELSE /\ outputs' = outputs \cup {Published("check", TRUE)}
              /\ command' = [command EXCEPT !.ended = clock, !.passed = passed,
                   !.at = IF IsPair(r, TheEnvironment) THEN "environment"
                          ELSE "interrupt"]
  /\ UNCHANGED <<facts, environments, results, session, answers>>

AppendEnvironment ==
  /\ At("environment")
  /\ IF MayRecordEnvironment(TheEnvironment)
     THEN environments' = environments \cup {TheEnvironment} /\ Goto("result")
     ELSE Fail /\ UNCHANGED environments
  /\ UNCHANGED <<facts, results, outputs, session, answers>>

AppendResult ==
  /\ At("result")
  /\ IF MayRecordResult(TheResult)
     THEN /\ results' = results \cup {TheResult}
          /\ command' = [command EXCEPT !.at = "capture", !.captured = 0,
                           !.spawned = 0, !.ended = 0, !.passed = FALSE]
     ELSE Fail /\ UNCHANGED results
  /\ UNCHANGED <<facts, environments, outputs, session, answers>>

Terminate(verdict) ==
  LET f == [sequence |-> command.sequence, operation |-> command.operation,
            status |-> verdict, started |-> command.started, recorded |-> clock]
  IN  IF MayEnd(f)
      THEN /\ facts' = facts \cup {f}
           /\ command' = [NoCommand EXCEPT !.at = "recover",
                !.operation = f.operation, !.sequence = f.sequence]
      ELSE Fail /\ UNCHANGED facts

Conclude ==
  /\ At("conclude")
  /\ Terminate(IF \A r \in ResultsOf(command.sequence) : r.passed
               THEN "passed" ELSE "failed")
  /\ UNCHANGED <<environments, results, outputs, session, answers>>

Interrupt ==
  /\ At("interrupt") /\ Terminate("interrupted")
  /\ UNCHANGED <<environments, results, outputs, session, answers>>

Recover ==
  /\ At("recover")
  /\ IF session.resume THEN Transition(FALSE, "answer")
     ELSE Goto("answer") /\ UNCHANGED session
  /\ UNCHANGED <<tables, answers>>

\* Those of an attempt among the latest results of the session, as many as the
\* window holds.
ReadBack(sequence) ==
  {r \in ResultsOf(sequence) : Cardinality({n \in results :
     \/ n.sequence > r.sequence
     \/ n.sequence = r.sequence /\ n.execution <= r.execution}) <= Window}

TerminalFact(o) == CHOOSE f \in FactsFor(o) : ~IsRunning(f)

Answer ==
  /\ At("answer")
  /\ LET f == TerminalFact(command.operation)
     IN  answers' =
           IF ExplainedBy(f, ReadBack(f.sequence))
           THEN [answers EXCEPT ![f.operation] = f.status] ELSE answers
  /\ Fail
  /\ UNCHANGED <<tables, session>>

Step ==
  \/ Mark \/ Capture \/ Spawn \/ (\E passed \in BOOLEAN : Wait(passed))
  \/ AppendEnvironment \/ AppendResult \/ Conclude \/ Interrupt
  \/ Recover \/ Answer

(***************************************************************************)
(* The clock, and the death of the command.                                *)
(***************************************************************************)
Tick ==
  /\ clock < Latest /\ clock' = clock + 1
  /\ UNCHANGED <<turns, deaths, tables, session, answers, command>>

TurnBack ==
  /\ clock > 0 /\ turns < MaxTurns
  /\ clock' = clock - 1 /\ turns' = turns + 1
  /\ UNCHANGED <<deaths, tables, session, answers, command>>

\* A command that dies while it publishes an output leaves part of a file.
Die ==
  /\ command # NoCommand /\ deaths < MaxDeaths
  /\ command' = NoCommand /\ deaths' = deaths + 1
  /\ \/ UNCHANGED outputs
     \/ /\ command.at = "capture" /\ Done < Executions /\ ~Conflicts("tools")
        /\ outputs' = outputs \cup {Published("tools", FALSE)}
     \/ /\ command.at = "wait" /\ ~Conflicts("check")
        /\ outputs' = outputs \cup {Published("check", FALSE)}
  /\ UNCHANGED <<clock, turns, facts, environments, results, session, answers>>

RecordsNext ==
  \/ \E o \in Operation : Call(o)
  \/ Step \/ Tick \/ TurnBack \/ Die

RecordsSpec == RecordsInit /\ [][RecordsNext]_recordVars

-----------------------------------------------------------------------------
(***************************************************************************)
(* Correctness.                                                            *)
(***************************************************************************)
Ends(sequence) == {f \in FactsOf(sequence) : ~IsRunning(f)}

\* verify_review_attempt_group: a running fact, and at most one terminal fact
\* of the same operation, sorted after it.
GroupIsValid(sequence) ==
  \E running \in FactsOf(sequence) :
    /\ IsRunning(running)
    /\ Cardinality(FactsOf(sequence)) <= 2
    /\ \A f \in FactsOf(sequence) \ {running} :
         /\ ~IsRunning(f) /\ f.operation = running.operation
         /\ f.started = running.started /\ f.recorded >= running.recorded

\* verify_artifact: the file a row refers to stands, with its bytes.
OutputStands(row, of) ==
  [sequence |-> row.sequence, execution |-> row.execution, of |-> of,
   whole |-> TRUE] \in outputs

ExecutionsAreValid(sequence) ==
  LET started == RunningFact(sequence).started
  IN  /\ \A e \in environments : e.sequence = sequence =>
           e.recorded >= started /\ OutputStands(e, "tools")
      /\ \A r \in ResultsOf(sequence) :
           /\ r.started >= started /\ OutputStands(r, "check")
           /\ IsReadable(r)
      /\ \A f \in Ends(sequence) : ExplainedBy(f, ResultsOf(sequence))

\* verify_review_row_counts: no row was passed over.
RowsAreOwned(sequences) ==
  {r.sequence : r \in environments \cup results} \subseteq sequences

\* review_session_records: what `review.show` answers with is checked as well.
IsShown ==
  /\ \A f \in facts : FactIsValid(f)
  /\ \A r \in results : IsReadable(r)
  /\ \A f \in facts : IsRunning(f) \/ ExplainedBy(f, ResultsOf(f.sequence))

VerifyReviewRows ==
  LET sequences == {f.sequence : f \in facts}
  IN  /\ sequences = 1..Cardinality(sequences)
      /\ \A s \in sequences : GroupIsValid(s) /\ ExecutionsAreValid(s)
      /\ RowsAreOwned(sequences)

\* `doctor` and `review.show` accept at every moment the rows the verifications have
\* left (verify_review_rows, review_session_records): attempts are numbered without a gap, each execution
\* belongs to one of them, fits its environment, its output and its times, whatever
\* the clock did, and every verdict is explained by the results beside it.
RowsVerify == VerifyReviewRows /\ IsShown

\* All checks of the attempt have passed and only its verdict is missing.
Unconcluded(o) ==
  \E f \in FactsFor(o) :
    /\ Ends(f.sequence) = {}
    /\ Cardinality(ResultsOf(f.sequence)) = Executions
    /\ \A r \in ResultsOf(f.sequence) : r.passed

\* An operation that is repeated gets the verdict of its attempt: one whose command
\* died, or was refused for a clock that was set back, can be ended as soon as the
\* clock has passed its rows, and one that has ended is explained by the results read
\* back for the answer (review_verify, interrupt_review_attempt,
\* review_verification_result).  All checks passed and the verdict lost is the
\* exception, for which no retry of the operation helps.
RetriesAreAnswered ==
  \A f \in facts :
    IF ~IsRunning(f) THEN ExplainedBy(f, ReadBack(f.sequence))
    ELSE Ends(f.sequence) = {} /\ ~Unconcluded(f.operation) =>
           ExplainedBy([f EXCEPT !.status = "interrupted", !.recorded = Latest],
                       ResultsOf(f.sequence))
=============================================================================
