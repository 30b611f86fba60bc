-------------------------- MODULE ReviewExecution --------------------------
(***************************************************************************)
(* The review of one candidate (agsv-control: engine.rs, review.rs and the  *)
(* review tables of store.rs).  `review.begin` stores a session, checks the *)
(* exact candidate out and declares the session ready; `review.verify` runs *)
(* the frozen plan in that checkout and appends evidence: a running fact,   *)
(* an environment and a result for each check, a terminal fact.             *)
(*                                                                         *)
(* Both are operations of the Primary, which the caller and authority locks *)
(* let run one at a time.  Each transaction and each step on the file       *)
(* system is an action, between any two of which the process may die, the   *)
(* candidate be superseded or the checkout be altered by someone else.      *)
(***************************************************************************)
EXTENDS Naturals, Sequences

CONSTANTS
  Begin, Verify,   \* ids of review.begin and review.verify operations
  Nobody,
  Checks,          \* executions the plan asks for: checks and their variants
  MaxRemnants,     \* invalid checkouts kept aside (32 in the code)
  MaxFaults        \* bound on crashes, alterations and failing steps

ASSUME ReviewAssumption ==
  /\ Begin \cap Verify = {} /\ Nobody \notin Begin \cup Verify
  /\ {Checks, MaxRemnants} \subseteq Nat \ {0}
  /\ MaxFaults \in Nat

VARIABLES
  candidate,  \* the request awaits review of this very candidate
  session,    \* review_sessions: status, recovery, whether an error is noted
  checkout,   \* what stands at the path of the session
  remnants,   \* source.invalid-N beside it
  attempt,    \* review_verification_attempts: the last fact of an operation
  evidence,   \* environments and results recorded for its attempt
  answer,     \* results recorded for the operation ids
  process,    \* the one running command
  faults

vars == <<candidate, session, checkout, remnants, attempt, evidence, answer,
          process, faults>>
disk == <<checkout, remnants>>
records == <<attempt, evidence>>

Operation == Begin \cup Verify
Verdict == {"passed", "failed", "interrupted"}
Outcome == {"passed", "failed"}     \* an execution error counts as failed

\* A result keeps, beside its outcome, whether the checkout was exact all
\* through the run; no code reads it.
Result == [outcome : Outcome, exact : BOOLEAN]

Idle == [at |-> "idle", op |-> Nobody, fresh |-> FALSE, run |-> "passed",
         exact |-> FALSE]

BeginPoint == {"insert", "settle", "prepare", "materialize", "finish",
               "publish", "confirm"}
VerifyPoint == {"start", "mark", "check", "run", "environment", "result",
                "conclude", "interrupt", "recover", "settled", "answer"}

TypeOK ==
  /\ candidate \in BOOLEAN
  /\ session \in [status : {"none", "preparing", "ready", "invalid"},
                  recovery : {"not_required", "resume", "recreate"},
                  noted : BOOLEAN]
  /\ session.recovery = "recreate" <=> session.status = "invalid"
  /\ session.recovery = "resume" => session.status = "ready"
  /\ checkout \in {"absent", "exact", "altered"}
  /\ remnants \in 0..MaxRemnants
  /\ attempt \in [Verify -> {"none", "running"} \cup Verdict]
  /\ evidence \in [Verify -> [environments : 0..Checks, results : Seq(Result)]]
  /\ \A v \in Verify : Len(evidence[v].results) \in
                        {evidence[v].environments, evidence[v].environments - 1}
  /\ answer \in [Operation -> {"none", "ready"} \cup Verdict]
  /\ process \in [at : {"idle"} \cup BeginPoint \cup VerifyPoint,
                  op : Operation \cup {Nobody}, fresh : BOOLEAN, run : Outcome,
                  exact : BOOLEAN]
  /\ process.op \in IF process.at = "idle" THEN {Nobody}
                    ELSE IF process.at \in BeginPoint THEN Begin ELSE Verify
  /\ faults \in 0..MaxFaults

Init ==
  /\ candidate = TRUE
  /\ session = [status |-> "none", recovery |-> "not_required", noted |-> FALSE]
  /\ checkout = "absent" /\ remnants = 0
  /\ attempt = [v \in Verify |-> "none"]
  /\ evidence = [v \in Verify |-> [environments |-> 0, results |-> <<>>]]
  /\ answer = [o \in Operation |-> "none"]
  /\ process = Idle
  /\ faults = 0

-----------------------------------------------------------------------------
(***************************************************************************)
(* The session row.  A transition names the state its caller believes in,   *)
(* which no other process can have changed.                                 *)
(***************************************************************************)
Allowed == {
  <<<<"preparing", "not_required">>, <<"ready", "not_required">>>>,
  <<<<"preparing", "not_required">>, <<"invalid", "recreate">>>>,
  <<<<"ready", "not_required">>, <<"ready", "resume">>>>,
  <<<<"ready", "resume">>, <<"ready", "not_required">>>>,
  <<<<"ready", "not_required">>, <<"invalid", "recreate">>>>,
  <<<<"ready", "resume">>, <<"invalid", "recreate">>>>,
  <<<<"invalid", "recreate">>, <<"preparing", "not_required">>>>}

TransitionSession(status, recovery, noted) ==
  LET now  == <<session.status, session.recovery>>
      next == <<status, recovery>>
  IN  /\ now = next \/ <<now, next>> \in Allowed
      /\ session' = [status |-> status, recovery |-> recovery, noted |-> noted]

At(point) == process.at = point /\ UNCHANGED <<candidate, faults>>
Goto(point) == process' = [process EXCEPT !.at = point]

(***************************************************************************)
(* review.begin.                                                           *)
(***************************************************************************)
\* The request is read, with the revision of the domain, before the tree is
\* resolved and the plan is frozen.
CallBegin(o) ==
  /\ process = Idle /\ answer[o] = "none" /\ candidate
  /\ process' = [Idle EXCEPT !.op = o, !.fresh = TRUE,
       !.at = IF session.status = "none" THEN "insert" ELSE "settle"]
  /\ UNCHANGED <<candidate, session, disk, records, answer, faults>>

BeginRevisionHolds == process.fresh

InsertSession ==
  /\ At("insert")
  /\ IF BeginRevisionHolds
     THEN /\ session' = [status |-> "preparing", recovery |-> "not_required",
                         noted |-> FALSE]
          /\ Goto("settle")
     ELSE process' = Idle /\ UNCHANGED session
  /\ UNCHANGED <<disk, records, answer>>

Settle ==
  /\ At("settle")
  /\ \/ /\ session.status = "ready" /\ checkout # "exact"
        /\ TransitionSession("invalid", "recreate", TRUE)
        /\ UNCHANGED process
     \/ /\ session.status = "invalid"
        /\ TransitionSession("preparing", "not_required", FALSE)
        /\ UNCHANGED process
     \/ /\ session.status = "preparing"
        /\ Goto("prepare") /\ UNCHANGED session
     \/ /\ session.status = "ready" /\ checkout = "exact"
        /\ Goto("confirm") /\ UNCHANGED session
  /\ UNCHANGED <<disk, records, answer>>

\* What stands at the path is kept if it is exact, and moved aside if not.
PrepareCheckout ==
  /\ At("prepare")
  /\ \/ /\ checkout = "exact"
        /\ Goto("publish") /\ UNCHANGED disk
     \/ /\ checkout = "altered" /\ remnants < MaxRemnants
        /\ checkout' = "absent" /\ remnants' = remnants + 1
        /\ Goto("materialize")
     \/ /\ checkout = "absent"
        /\ Goto("materialize") /\ UNCHANGED disk
  /\ UNCHANGED <<session, records, answer>>

Materialize ==
  /\ At("materialize")
  /\ checkout' = "altered"          \* a repository, not yet the candidate
  /\ Goto("finish")
  /\ UNCHANGED <<session, remnants, records, answer>>

FinishCheckout ==
  /\ At("finish")
  /\ checkout' = "exact"
  /\ Goto("publish")
  /\ UNCHANGED <<session, remnants, records, answer>>

\* Preparation fails: Git does, or too many remnants stand beside the path.
Exhausted == checkout = "altered" /\ remnants = MaxRemnants

FailPreparation ==
  /\ process.at \in {"prepare", "materialize", "finish"}
  /\ IF process.at = "prepare" /\ Exhausted THEN UNCHANGED faults
     ELSE faults < MaxFaults /\ faults' = faults + 1
  /\ TransitionSession("invalid", "recreate", TRUE)
  /\ process' = Idle
  /\ UNCHANGED <<candidate, disk, records, answer>>

Publish ==
  /\ At("publish")
  /\ TransitionSession("ready", "not_required", FALSE)
  /\ Goto("confirm")
  /\ UNCHANGED <<disk, records, answer>>

ConfirmBegin ==
  /\ At("confirm")
  /\ answer' = IF checkout = "exact"
               THEN [answer EXCEPT ![process.op] = "ready"] ELSE answer
  /\ process' = Idle
  /\ UNCHANGED <<session, disk, records>>

-----------------------------------------------------------------------------
(***************************************************************************)
(* review.verify.                                                          *)
(***************************************************************************)
AllPassed(results) == \A i \in DOMAIN results : results[i].outcome = "passed"
Complete(v) == Len(evidence[v].results) = Checks

\* validate_attempt_results: which verdict the results of an attempt support.
Explained_Incomplete(v, verdict) ==
  CASE verdict = "passed"      -> Complete(v) /\ AllPassed(evidence[v].results)
    [] verdict = "failed"      -> ~AllPassed(evidence[v].results)
    [] verdict = "interrupted" -> ~Complete(v)
Explained(v, verdict) ==
  CASE verdict = "passed"      -> Complete(v) /\ AllPassed(evidence[v].results)
    [] verdict = "failed"      -> ~AllPassed(evidence[v].results)
    [] verdict = "interrupted" -> ~Complete(v) \/ ~AllPassed(evidence[v].results)

\* Where an operation takes up: anew, at its verdict, or at its remains.
Resumption(v) ==
  CASE attempt[v] = "none" -> "start"
    [] attempt[v] = "running" -> "interrupt"
    [] OTHER -> "settled"

CallVerify(v) ==
  /\ process = Idle /\ answer[v] = "none"
  /\ session.status = "ready" /\ checkout = "exact"
  /\ process' = [Idle EXCEPT !.op = v, !.at = Resumption(v)]
  /\ UNCHANGED <<candidate, session, disk, records, answer, faults>>

MayStart(v) == session.status = "ready" /\ session.recovery = "not_required"

AppendRunning ==
  /\ At("start")
  /\ IF MayStart(process.op)
     THEN attempt' = [attempt EXCEPT ![process.op] = "running"] /\ Goto("mark")
     ELSE process' = Idle /\ UNCHANGED attempt
  /\ UNCHANGED <<session, disk, evidence, answer>>

MarkRunning ==
  /\ At("mark")
  /\ TransitionSession("ready", "resume", FALSE)
  /\ Goto("check")
  /\ UNCHANGED <<disk, records, answer>>

\* Each check verifies the checkout, runs, and verifies it again.
StartCheck ==
  /\ At("check")
  /\ process' = IF Complete(process.op) THEN [process EXCEPT !.at = "conclude"]
                ELSE IF checkout = "exact"
                THEN [process EXCEPT !.at = "run", !.exact = TRUE]
                ELSE [process EXCEPT !.at = "interrupt"]
  /\ UNCHANGED <<session, disk, records, answer>>

StillExact_Unchecked == TRUE
StillExact == checkout = "exact"

EndCheck(outcome) ==
  /\ At("run")
  /\ process' = IF StillExact
                THEN [process EXCEPT !.at = "environment", !.run = outcome]
                ELSE [process EXCEPT !.at = "interrupt"]
  /\ UNCHANGED <<session, disk, records, answer>>

RecordEnvironment ==
  /\ At("environment") /\ attempt[process.op] = "running"
  /\ evidence' = [evidence EXCEPT ![process.op].environments = @ + 1]
  /\ Goto("result")
  /\ UNCHANGED <<session, disk, attempt, answer>>

RecordResult ==
  /\ At("result") /\ attempt[process.op] = "running"
  /\ evidence' = [evidence EXCEPT ![process.op].results =
       Append(@, [outcome |-> process.run, exact |-> process.exact])]
  /\ Goto("check")
  /\ UNCHANGED <<session, disk, attempt, answer>>

Conclude ==
  /\ At("conclude")
  /\ LET verdict == IF AllPassed(evidence[process.op].results)
                    THEN "passed" ELSE "failed"
     IN  /\ Explained(process.op, verdict)
         /\ attempt' = [attempt EXCEPT ![process.op] = verdict]
  /\ Goto("recover")
  /\ UNCHANGED <<session, disk, evidence, answer>>

\* The verdict must be one the recorded results support; if they do not, the
\* command ends with an error and leaves everything as it was.
Interrupt ==
  /\ At("interrupt")
  /\ IF Explained(process.op, "interrupted")
     THEN /\ attempt' = [attempt EXCEPT ![process.op] = "interrupted"]
          /\ Goto("recover")
     ELSE process' = Idle /\ UNCHANGED attempt
  /\ UNCHANGED <<session, disk, evidence, answer>>

Recover ==
  /\ At("recover")
  /\ TransitionSession("ready", "not_required",
                       attempt[process.op] = "interrupted")
  /\ Goto("answer")
  /\ UNCHANGED <<disk, records, answer>>

\* A retry that finds the verdict of its attempt.
SettleVerdict ==
  /\ At("settled")
  /\ IF session.recovery = "resume"
     THEN TransitionSession("ready", "not_required", session.noted)
     ELSE UNCHANGED session
  /\ Goto("answer")
  /\ UNCHANGED <<disk, records, answer>>

AnswerVerify ==
  /\ At("answer")
  /\ Explained(process.op, attempt[process.op])
  /\ answer' = [answer EXCEPT ![process.op] = attempt[process.op]]
  /\ process' = Idle
  /\ UNCHANGED <<session, disk, records>>

-----------------------------------------------------------------------------
(***************************************************************************)
(* What happens around the command.                                         *)
(***************************************************************************)
\* Another command is committed: the candidate is decided on, replaced, or
\* submitted again.
Elsewhere(awaited) ==
  /\ candidate' = awaited
  /\ process' = [process EXCEPT !.fresh = FALSE]
  /\ UNCHANGED <<session, disk, records, answer, faults>>

Alter ==
  /\ checkout = "exact" /\ faults < MaxFaults
  /\ checkout' = "altered" /\ faults' = faults + 1
  /\ process' = [process EXCEPT !.exact = @ /\ process.at # "run"]
  /\ UNCHANGED <<candidate, session, remnants, records, answer>>

\* A check cannot be run: its program changed, a tool probe failed, its
\* output cannot be kept.
FailCheck ==
  /\ process.at = "run" /\ faults < MaxFaults
  /\ Goto("interrupt") /\ faults' = faults + 1
  /\ UNCHANGED <<candidate, session, disk, records, answer>>

Crash ==
  /\ process # Idle /\ faults < MaxFaults
  /\ process' = Idle /\ faults' = faults + 1
  /\ UNCHANGED <<candidate, session, disk, records, answer>>

BeginStep ==
  \/ InsertSession \/ Settle \/ PrepareCheckout \/ Materialize
  \/ FinishCheckout \/ Publish \/ ConfirmBegin

VerifyStep ==
  \/ AppendRunning \/ MarkRunning \/ StartCheck
  \/ (\E outcome \in Outcome : EndCheck(outcome))
  \/ RecordEnvironment \/ RecordResult \/ Conclude \/ Interrupt \/ Recover
  \/ SettleVerdict \/ AnswerVerify

Next ==
  \/ \E o \in Begin : CallBegin(o)
  \/ \E v \in Verify : CallVerify(v)
  \/ BeginStep \/ FailPreparation \/ VerifyStep
  \/ \E awaited \in BOOLEAN : Elsewhere(awaited)
  \/ Alter \/ FailCheck \/ Crash

Spec == Init /\ [][Next]_vars

\* A command that runs takes its steps, a check ends within its timeout, and
\* callers repeat, with the same id, an operation they have no answer to.
Fairness ==
  /\ WF_vars(BeginStep \/ FailPreparation)
  /\ WF_vars(VerifyStep)
  /\ \A o \in Begin : SF_vars(CallBegin(o))
  /\ \A v \in Verify : SF_vars(CallVerify(v))

FairSpec == Spec /\ Fairness

-----------------------------------------------------------------------------
(***************************************************************************)
(* Correctness.                                                            *)
(***************************************************************************)
\* A passed attempt ran every execution of the plan, each passed, and each on
\* the exact candidate from its first to its last instruction; a failed or
\* interrupted one is not a full set of passing results.
VerdictIsEarned ==
  \A v \in Verify : attempt[v] \in Verdict =>
    (attempt[v] = "passed" <=>
       /\ Complete(v)
       /\ \A i \in 1..Checks :
            evidence[v].results[i] = [outcome |-> "passed", exact |-> TRUE])

AllPassedUnconcluded(v) ==
  /\ attempt[v] = "running" /\ Complete(v) /\ AllPassed(evidence[v].results)

\* A session whose checkout is lost or unfinished becomes ready again, unless
\* its candidate is withdrawn or the remnants beside the path are too many.  The mark
\* that blocks new verifications is lifted when the callers retry, unless the checkout
\* is altered or a crash lost the verdict of an attempt all of whose checks had passed
\* (review_begin, review_verify).
SessionRecovers ==
  /\ session.status \in {"preparing", "invalid"} ~>
       session.status = "ready" \/ ~candidate \/ Exhausted
  /\ session.recovery = "resume" ~>
       \/ session.recovery # "resume"
       \/ checkout # "exact"
       \/ \E v \in Verify : AllPassedUnconcluded(v) /\ process = Idle

\* engine.rs tells the caller of an attempt cut short by a crash to "retry
\* with a new operation id": a second operation gets its verdict.
RetryGetsAVerdict ==
  \A v \in Verify :
    session.status = "ready" /\ attempt[v] = "none" ~>
      attempt[v] # "none" \/ checkout # "exact"
=============================================================================
