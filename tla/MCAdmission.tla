----------------------------- MODULE MCAdmission ----------------------------
(***************************************************************************)
(* The two halves of a command: how its caller becomes a fenced actor and   *)
(* is admitted (Bindings), and what the command then does under its         *)
(* operation id (Commands).  They share no state but the clock of the real  *)
(* world: a behaviour exercises one and `part` says which.                  *)
(***************************************************************************)
EXTENDS Commands, Bindings, TLC

CONSTANTS create, send, block, pause, shutdown, p1, p2, primary, executor, h1, h2, x1

MixedKind == [op \in {create, block, shutdown} |->
  CASE op = create -> "request.create" [] op = block -> "request.block"
    [] op = shutdown -> "actor.shutdown"]
MixedCaller == [op \in {create, block, shutdown} |->
  IF op = create THEN primary ELSE executor]

RetryKind == (create :> "request.create") @@ (send :> "message.send")
RetryCaller == (create :> primary) @@ (send :> executor)

PauseKind == pause :> "run.pause"
PauseCaller == pause :> primary

ProcessSymmetry == Permutations({p1, p2})

VARIABLE part

admissionVars == <<part, bindingVars, vars>>

AdmissionInit == part \in {"caller", "command"} /\ BindingInit /\ Init
AdmissionNext == \/ part = "caller" /\ BindingNext /\ UNCHANGED <<part, vars>>
                 \/ part = "command" /\ Next /\ UNCHANGED <<part, bindingVars>>
AdmissionSpec == AdmissionInit /\ [][AdmissionNext]_admissionVars

\* The retries of a command, under the fairness of Commands.
RetryInit == AdmissionInit /\ part = "command"
RetrySpec == RetryInit /\ [][AdmissionNext]_admissionVars /\ Fairness

\* A death at any step: the bound caller that is locked out.
LockedOutSpec == AdmissionInit /\ part = "caller" /\
  [][part = "caller" /\ FullNext /\ UNCHANGED <<part, vars>>]_admissionVars

AdmissionSymmetry == Permutations({p1, p2}) \cup Permutations({h1, h2})
=============================================================================
