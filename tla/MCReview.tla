------------------------------ MODULE MCReview ------------------------------
(***************************************************************************)
(* An instance of the review for TLC.  The commands of a verification and   *)
(* the operations around them share no state: a behaviour exercises one,    *)
(* and `part` says which.                                                   *)
(***************************************************************************)
EXTENDS ReviewExecution, ReviewCapture

VARIABLE part
bothVars == <<part, vars, captureVars>>

\* What earlier commands may have left of the budget of the attempt.
Left == {1, 2}

BothInit ==
  /\ part \in {"operations", "command"} /\ Init /\ CaptureInit
  /\ part = "operations" => contained /\ holder /\ granted = 1

Operations(A) == part = "operations" /\ A /\ UNCHANGED <<part, captureVars>>
Command(A)    == part = "command" /\ A /\ UNCHANGED <<part, vars>>

BothSpec ==
  /\ BothInit /\ [][Operations(Next) \/ Command(CaptureNext)]_bothVars
  /\ WF_bothVars(Operations(BeginStep \/ FailPreparation))
  /\ WF_bothVars(Operations(VerifyStep))
  /\ \A o \in Begin : SF_bothVars(Operations(CallBegin(o)))
  /\ \A v \in Verify : SF_bothVars(Operations(CallVerify(v)))
  /\ WF_bothVars(Command(Main))
  /\ \A s \in Stream : WF_bothVars(Command(Thread(s)))
=============================================================================
