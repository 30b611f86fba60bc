------------------------------ MODULE Commands ------------------------------
(***************************************************************************)
(* The commands of the control engine as processes over one SQLite store    *)
(* (agsv-control: engine.rs, store.rs).  Every invocation of the command    *)
(* line is a process: admission under file locks, look up the operation id, *)
(* claim it, run the compare-and-swap loop, wake the target, record the     *)
(* result, release the claim.  Each of these is a transaction of its own    *)
(* and the process may die between any two.                                 *)
(*                                                                         *)
(* The domain is its sequence of effects; a revision is compared only with  *)
(* the one a process loaded, so `fresh` says whether anything was committed *)
(* since.                                                                   *)
(***************************************************************************)
EXTENDS Naturals, Sequences, FiniteSets

CONSTANTS
  Process,         \* slots for concurrent command line invocations
  Op,              \* operation ids
  Kind, Caller,    \* the command and the actor that uses an operation id
  Input,           \* what a caller may pass under one operation id
  None,
  MaxTries,        \* attempts of the compare-and-swap loop (64 in the code)
  Ttl,             \* ticks until a claim may be taken over
  MaxGeneration, MaxContext, MaxFaults

(***************************************************************************)
(* What a handler does with its envelope on a retry: resend the stored one, *)
(* resend it for the generation that sent it, or rebuild it from the        *)
(* present state; and with a wake-up that fails: fail with it, answer that  *)
(* it is deferred, or that and try again on every retry.                    *)
(***************************************************************************)
RequestCreate_Deferred == [envelope |-> "stored", wake |-> "deferred"]
RequestCreate == [envelope |-> "stored", wake |-> "must"]
RequestBlock == [envelope |-> "rebuilt", wake |-> "must"]
RequestComplete == [envelope |-> "rebuilt", wake |-> "must"]
RunTransition == [envelope |-> "rebuilt", wake |-> "deferred"]
CancelRequest == [envelope |-> "rebuilt", wake |-> "deferred"]
DecisionSubmit == [envelope |-> "rebuilt", wake |-> "deferred"]
MessageSend == [envelope |-> "resent", wake |-> "again"]
ActorShutdown == [envelope |-> "rebuilt", wake |-> "none"]

Kinds == {"request.create", "request.block", "request.complete", "run.pause",
          "request.cancel", "decision.submit", "message.send",
          "actor.shutdown"}
Handler(kind) ==
  CASE kind = "request.create" -> RequestCreate
    [] kind = "request.block" -> RequestBlock
    [] kind = "request.complete" -> RequestComplete
    [] kind = "run.pause" -> RunTransition
    [] kind = "request.cancel" -> CancelRequest
    [] kind = "decision.submit" -> DecisionSubmit
    [] kind = "message.send" -> MessageSend
    [] kind = "actor.shutdown" -> ActorShutdown

Actor == {Caller[op] : op \in Op}

ASSUME CommandAssumption ==
  /\ Kind \in [Op -> Kinds]
  /\ {MaxTries, Ttl, MaxGeneration, MaxContext} \subseteq Nat \ {0}
  /\ MaxFaults \in Nat

VARIABLES
  effects,      \* accepted domain transitions in commit order
  generation,   \* the epoch of each caller
  stopped,      \* whether that generation declared itself stopped
  session,      \* the status of the caller's session row
  context,      \* team, assignment and policy epochs an envelope is built under
  results,      \* operation_results
  claims,       \* operation_claims
  proc,         \* running commands
  reachable,    \* whether the wake-up of a target can succeed
  woken,        \* operation ids whose target was woken after their commit
  answers,      \* successful answers given to callers
  faults

domain == <<effects, generation, stopped, session, context>>
vars == <<domain, results, claims, proc, reachable, woken, answers, faults>>

-----------------------------------------------------------------------------
Envelope == [sender : 1..MaxGeneration, context : 1..MaxContext]
Effect == [op : Op, saw : Nat, envelope : Envelope]
Result == [input : Input, position : Nat \ {0}, sender : 1..MaxGeneration]
Claim == [by : Process, input : Input, age : 0..Ttl]
Stage == {"lookup", "rewake", "claim", "prepare", "load", "commit", "wake",
          "record", "release", "stop"}
Command ==
  [op : Op, input : Input, stage : Stage, sender : 1..MaxGeneration,
   envelope : Envelope, saw : Nat, fresh : BOOLEAN, tries : 0..MaxTries,
   reply : Nat]

ASSUME NoneAssumption == None \notin Process \cup Result \cup Claim \cup Command

TypeOK ==
  /\ effects \in Seq(Effect)
  /\ generation \in [Actor -> 1..MaxGeneration]
  /\ stopped \in [Actor -> BOOLEAN]
  /\ session \in [Actor -> {"running", "stopped"}]
  /\ context \in 1..MaxContext
  /\ results \in [Op -> Result \cup {None}]
  /\ claims \in [Op -> Claim \cup {None}]
  /\ proc \in [Process -> Command \cup {None}]
  /\ reachable \in BOOLEAN
  /\ woken \subseteq Op
  /\ answers \subseteq [op : Op, input : Input, position : Nat \ {0}]
  /\ faults \in 0..MaxFaults

Init ==
  /\ effects = <<>>
  /\ generation = [a \in Actor |-> 1]
  /\ stopped = [a \in Actor |-> FALSE]
  /\ session = [a \in Actor |-> "running"]
  /\ context = 1
  /\ results = [op \in Op |-> None]
  /\ claims = [op \in Op |-> None]
  /\ proc = [p \in Process |-> None]
  /\ reachable = TRUE
  /\ woken = {}
  /\ answers = {}
  /\ faults = 0

-----------------------------------------------------------------------------
Running(p) == proc[p] # None
At(p, stage) == Running(p) /\ proc[p].stage = stage
Executed(op) == \E i \in DOMAIN effects : effects[i].op = op
Position(op) == CHOOSE i \in DOMAIN effects : effects[i].op = op

\* Every commit of the domain moves its revision under the other processes.
Disturbed(procs) ==
  [p \in Process |->
     IF procs[p] = None THEN None ELSE [procs[p] EXCEPT !.fresh = FALSE]]

\* `p` moves on to `stage`; nothing else about it changes.
GoTo(p, stage) == proc' = [proc EXCEPT ![p].stage = stage]

\* The process ends, with an answer or an error.
End(p) == proc' = [proc EXCEPT ![p] = None]
AnswerWith(p, position) ==
  answers' = answers \cup
    {[op |-> proc[p].op, input |-> proc[p].input, position |-> position]}

(***************************************************************************)
(* Admission.  A command holds the lock of its caller until it ends or      *)
(* dies.  Shutdown is exclusive in the workspace until it has committed.    *)
(***************************************************************************)
CallerIsFree(a) == \A q \in Process : Running(q) => Caller[proc[q].op] # a

WorkspaceAdmits(op) ==
  \A q \in Process : Running(q) =>
    /\ Kind[op] # "actor.shutdown"
    /\ Kind[proc[q].op] = "actor.shutdown" => proc[q].stage = "stop"

\* An authenticated command renews its caller's presence, which commits.
Admit(p, op, input) ==
  /\ ~Running(p)
  /\ CallerIsFree(Caller[op])
  /\ WorkspaceAdmits(op)
  /\ stopped[Caller[op]] => Kind[op] = "actor.shutdown"
  /\ LET sender == generation[Caller[op]] IN
     proc' = [Disturbed(proc) EXCEPT ![p] =
       [op |-> op, input |-> input, stage |-> "lookup", sender |-> sender,
        envelope |-> [sender |-> sender, context |-> context],
        saw |-> 0, fresh |-> FALSE, tries |-> 0, reply |-> 0]]
  /\ UNCHANGED <<domain, results, claims, reachable, woken, answers, faults>>

-----------------------------------------------------------------------------
\* operation_results answers only the operation and input it was written for.
SameInput(old, p) == old.input = proc[p].input

\* A recorded result answers at once.  message.send wakes its target again
\* first; a shutdown answers only the generation it stopped.
Lookup(p) ==
  /\ At(p, "lookup")
  /\ LET op == proc[p].op
         old == results[op] IN
     \/ /\ old # None /\ SameInput(old, p) /\ Handler(Kind[op]).wake = "again"
        /\ GoTo(p, "rewake")
        /\ UNCHANGED answers
     \/ /\ old # None /\ SameInput(old, p) /\ Handler(Kind[op]).wake # "again"
        /\ Kind[op] = "actor.shutdown" => old.sender = proc[p].sender
        /\ AnswerWith(p, old.position)
        /\ End(p)
     \/ /\ old # None
        /\ ~SameInput(old, p) \/
           (Kind[op] = "actor.shutdown" /\ old.sender # proc[p].sender)
        /\ End(p)
        /\ UNCHANGED answers
     \/ /\ old = None
        /\ IF stopped[Caller[op]] THEN End(p) ELSE GoTo(p, "claim")
        /\ UNCHANGED answers
  /\ UNCHANGED <<domain, results, claims, reachable, woken, faults>>

Expired(claim) == claim.age = Ttl

ClaimOp(p) ==
  /\ At(p, "claim")
  /\ LET op == proc[p].op
         old == claims[op] IN
     IF old = None \/ (SameInput(old, p) /\ Expired(old))
     THEN /\ claims' = [claims EXCEPT ![op] =
               [by |-> p, input |-> proc[p].input, age |-> 0]]
          /\ GoTo(p, IF Kind[op] = "actor.shutdown" THEN "load" ELSE "prepare")
     ELSE End(p) /\ UNCHANGED claims
  /\ UNCHANGED <<domain, results, reachable, woken, answers, faults>>

-----------------------------------------------------------------------------
(***************************************************************************)
(* The body.  `prepare` builds the envelope from a first load, and looks    *)
(* for the delivery its operation id already made where the handler does.   *)
(***************************************************************************)
Stored(op) == effects[Position(op)].envelope
Rebuilt(p) == [sender |-> proc[p].sender, context |-> context]

Prepared(p, op) ==
  IF Handler(Kind[op]).envelope \in {"stored", "resent"} /\ Executed(op)
  THEN Stored(op) ELSE Rebuilt(p)

\* Only the generation that sent a message may send it again.
SenderMayRetry(p, op) ==
  Handler(Kind[op]).envelope = "resent" /\ Executed(op) =>
    Stored(op).sender = proc[p].sender

Prepare(p) ==
  /\ At(p, "prepare")
  /\ LET op == proc[p].op IN
     IF SenderMayRetry(p, op)
     THEN proc' = [proc EXCEPT ![p].stage = "load", ![p].envelope = Prepared(p, op)]
     ELSE GoTo(p, "release")
  /\ UNCHANGED <<domain, results, claims, reachable, woken, answers, faults>>

\* An envelope under a known message id must repeat the accepted one; a new
\* one must carry the current epochs.  Creation builds it inside the closure.
Applicable(p, op) ==
  IF Executed(op)
  THEN proc[p].envelope = Stored(op)
  ELSE Handler(Kind[op]).envelope = "stored" \/ proc[p].envelope.context = context

\* One turn of the compare-and-swap loop reads the state and applies the
\* command to a private copy of it.
Load(p) ==
  /\ At(p, "load")
  /\ LET op == proc[p].op IN
     IF Kind[op] # "actor.shutdown" /\ ~Applicable(p, op)
     THEN GoTo(p, "release")
     ELSE proc' = [proc EXCEPT
            ![p].stage = "commit", ![p].fresh = TRUE, ![p].saw = Len(effects),
            ![p].envelope =
               IF Handler(Kind[op]).envelope = "stored" /\ ~Executed(op)
               THEN Rebuilt(p) ELSE @]
  /\ UNCHANGED <<domain, results, claims, reachable, woken, answers, faults>>

MayCommit_Always(p) == TRUE
MayCommit(p) == proc[p].fresh

MayTry(p) == proc[p].tries < MaxTries

Retry(p) ==
  /\ At(p, "commit") /\ ~MayCommit(p)
  /\ IF MayTry(p)
     THEN proc' = [proc EXCEPT ![p].stage = "load", ![p].tries = @ + 1]
     ELSE GoTo(p, "release")
  /\ UNCHANGED <<domain, results, claims, reachable, woken, answers, faults>>

\* What the copy has become: a repeated message changes nothing.
Committed(p) ==
  IF Executed(proc[p].op) THEN effects
  ELSE Append(effects, [op |-> proc[p].op, saw |-> proc[p].saw,
                        envelope |-> proc[p].envelope])

Commit(p) ==
  /\ At(p, "commit") /\ MayCommit(p) /\ Kind[proc[p].op] # "actor.shutdown"
  /\ effects' = Committed(p)
  /\ proc' = [Disturbed(proc) EXCEPT ![p].stage = "wake"]
  /\ UNCHANGED <<generation, stopped, session, context, results, claims,
                 reachable, woken, answers, faults>>

(***************************************************************************)
(* actor.shutdown commits the stopped actor, its session row, the result    *)
(* and the release of the claim in one transaction.                         *)
(***************************************************************************)
ShutdownRows_NoSession(p) ==
  /\ results' = [results EXCEPT ![proc[p].op] =
       [input |-> proc[p].input, position |-> Len(effects'),
        sender |-> proc[p].sender]]
  /\ UNCHANGED session
ShutdownRows(p) ==
  /\ session' = [session EXCEPT ![Caller[proc[p].op]] = "stopped"]
  /\ results' = [results EXCEPT ![proc[p].op] =
       [input |-> proc[p].input, position |-> Len(effects'),
        sender |-> proc[p].sender]]

DeclareShutdown(p) ==
  /\ At(p, "commit") /\ MayCommit(p) /\ Kind[proc[p].op] = "actor.shutdown"
  /\ results[proc[p].op] = None
  /\ ~stopped[Caller[proc[p].op]]
  /\ effects' = Committed(p)
  /\ stopped' = [stopped EXCEPT ![Caller[proc[p].op]] = TRUE]
  /\ ShutdownRows(p)
  /\ claims[proc[p].op] # None /\ claims[proc[p].op].by = p
  /\ claims' = [claims EXCEPT ![proc[p].op] = None]
  /\ proc' = [Disturbed(proc) EXCEPT
       ![p].stage = "stop", ![p].reply = Len(effects')]
  /\ UNCHANGED <<generation, context, reachable, woken, answers, faults>>

\* The backend stops the pane after the commit; its failure is ignored.
StopBackend(p) ==
  /\ At(p, "stop")
  /\ AnswerWith(p, proc[p].reply)
  /\ End(p)
  /\ UNCHANGED <<domain, results, claims, reachable, woken, faults>>

-----------------------------------------------------------------------------
\* A command that must reach its target fails when it cannot, and is not
\* recorded.
Wake(p) ==
  /\ At(p, "wake")
  /\ woken' = IF reachable THEN woken \cup {proc[p].op} ELSE woken
  /\ GoTo(p, IF ~reachable /\ Handler(Kind[proc[p].op]).wake = "must"
             THEN "release" ELSE "record")
  /\ UNCHANGED <<domain, results, claims, reachable, answers, faults>>

WakesAgain(p) == reachable

WakeAgain(p) ==
  /\ At(p, "rewake")
  /\ woken' = IF WakesAgain(p) THEN woken \cup {proc[p].op} ELSE woken
  /\ AnswerWith(p, results[proc[p].op].position)
  /\ End(p)
  /\ UNCHANGED <<domain, results, claims, reachable, faults>>

\* INSERT OR IGNORE: the first result stays.
Record(p) ==
  /\ At(p, "record")
  /\ LET op == proc[p].op IN
     /\ results' = IF results[op] # None THEN results ELSE
          [results EXCEPT ![op] =
             [input |-> proc[p].input, position |-> Position(op),
              sender |-> proc[p].sender]]
     /\ proc' = [proc EXCEPT ![p].stage = "release",
                             ![p].reply = results'[op].position]
  /\ UNCHANGED <<domain, claims, reachable, woken, answers, faults>>

\* The claim is deleted by its token, after success and after an error.
Release(p) ==
  /\ At(p, "release")
  /\ claims' = [op \in Op |->
       IF op = proc[p].op /\ claims[op] # None /\ claims[op].by = p
       THEN None ELSE claims[op]]
  /\ IF proc[p].reply = 0 THEN UNCHANGED answers ELSE AnswerWith(p, proc[p].reply)
  /\ End(p)
  /\ UNCHANGED <<domain, results, reachable, woken, faults>>

-----------------------------------------------------------------------------
(***************************************************************************)
(* The environment: processes die and leave their claims, targets cannot be *)
(* reached for a while, callers are replaced or recover an expired lease    *)
(* under their own lock, the epochs of the context move, time passes.       *)
(***************************************************************************)
Fault == faults < MaxFaults /\ faults' = faults + 1

Die(p) ==
  /\ Running(p) /\ Fault
  /\ End(p)
  /\ UNCHANGED <<domain, results, claims, reachable, woken, answers>>

Lose ==
  /\ reachable /\ Fault
  /\ reachable' = FALSE
  /\ UNCHANGED <<domain, results, claims, proc, woken, answers>>

Regain ==
  /\ ~reachable
  /\ reachable' = TRUE
  /\ UNCHANGED <<domain, results, claims, proc, woken, answers, faults>>

Advance(a) ==
  /\ CallerIsFree(a)
  /\ generation[a] < MaxGeneration
  /\ generation' = [generation EXCEPT ![a] = @ + 1]
  /\ stopped' = [stopped EXCEPT ![a] = FALSE]
  /\ session' = [session EXCEPT ![a] = "running"]
  /\ proc' = Disturbed(proc)
  /\ UNCHANGED <<effects, context, results, claims, reachable, woken, answers,
                 faults>>

MoveContext ==
  /\ context < MaxContext
  /\ context' = context + 1
  /\ proc' = Disturbed(proc)
  /\ UNCHANGED <<effects, generation, stopped, session, results, claims,
                 reachable, woken, answers, faults>>

Tick ==
  /\ \E op \in Op : claims[op] # None /\ ~Expired(claims[op])
  /\ claims' = [op \in Op |->
       IF claims[op] = None \/ claims[op].age = Ttl THEN claims[op]
       ELSE [claims[op] EXCEPT !.age = @ + 1]]
  /\ UNCHANGED <<domain, results, proc, reachable, woken, answers, faults>>

Step(p) ==
  \/ Lookup(p) \/ ClaimOp(p) \/ Prepare(p) \/ Load(p) \/ Retry(p) \/ Commit(p)
  \/ DeclareShutdown(p) \/ StopBackend(p)
  \/ Wake(p) \/ WakeAgain(p) \/ Record(p) \/ Release(p)

Invoke(op) == \E p \in Process, input \in Input : Admit(p, op, input)

Next ==
  \/ \E op \in Op : Invoke(op)
  \/ \E p \in Process : Step(p) \/ Die(p)
  \/ Lose \/ Regain \/ MoveContext \/ Tick
  \/ \E a \in Actor : Advance(a)

Spec == Init /\ [][Next]_vars

(***************************************************************************)
(* The operating system runs every live process, time passes, reconcile     *)
(* makes targets reachable again, and a caller repeats its command with the *)
(* same operation id, as every error hint of the engine asks.  Strong       *)
(* fairness of the call: the lock of the caller goes to each in turn; of    *)
(* the commit: the 64 attempts back off longer each time (store.rs:2192),   *)
(* so a process that loads again and again wins its compare-and-swap once.  *)
(***************************************************************************)
Fairness ==
  /\ \A p \in Process : WF_vars(Step(p)) /\ SF_vars(Commit(p))
  /\ WF_vars(Tick) /\ WF_vars(Regain)
  /\ \A op \in Op : SF_vars(Invoke(op))

FairSpec == Spec /\ Fairness

-----------------------------------------------------------------------------
\* Commands form one serial history with one effect and one answer per
\* operation id (architecture.md:71 "idempotent commands and duplicate
\* suppression"), through the compare-and-swap loop, claims and crashes.
Service == INSTANCE CommandService WITH
  history <- [i \in DOMAIN effects |->
                [op |-> effects[i].op, saw |-> effects[i].saw]],
  answer <- [op \in Op |-> IF results[op] = None THEN None ELSE results[op].position]

ImplementsService == Service!Spec

\* A shutdown has an effect exactly when it has a result, and the generation
\* it names is over or stopped together with its session
\* (store.rs:2274 "Atomically terminalizes one actor generation and its
\* persisted session").
ShutdownIsAtomic ==
  \A op \in Op : Kind[op] = "actor.shutdown" =>
    /\ Executed(op) <=> results[op] # None
    /\ results[op] # None =>
         LET a == Caller[op] IN
         \/ generation[a] > results[op].sender
         \/ /\ generation[a] = results[op].sender
            /\ stopped[a] /\ session[a] = "stopped"

\* An effect whose sender is still the current generation.
Current(op) ==
  Executed(op) /\ effects[Position(op)].envelope.sender = generation[Caller[op]]

\* A crash or a failed wake-up between the commit and the record of a result
\* is repaired by retries with the same operation id (README.md:16-18): the
\* result is recorded and the target woken, after creation always, after
\* sending as long as the generation that sent lives.
RetryCompletes ==
  \A op \in Op : Handler(Kind[op]).envelope \in {"stored", "resent"} =>
    (Executed(op) ~>
       \/ results[op] # None /\ op \in woken
       \/ Handler(Kind[op]).envelope = "resent" /\ ~Current(op))

\* The same promise for run control, decisions and cancellation, which record
\* a deferred wake-up as their result.
DeferredWakeIsRedelivered ==
  \A op \in Op : Handler(Kind[op]).wake = "deferred" => (Executed(op) ~> op \in woken)

\* engine.rs:4168 "retry the command; if it carries --operation-id, reuse the
\* same operation ID": a committed command is settled by its retry also after
\* the lease was recovered under a new epoch.
RetrySettlesAfterRecovery ==
  \A op \in Op : Handler(Kind[op]).wake = "deferred" => (Executed(op) ~> results[op] # None)
=============================================================================
