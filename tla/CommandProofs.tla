---------------------------- MODULE CommandProofs ----------------------------
(***************************************************************************)
(* Theorems about Commands, for any number of processes, operation ids and  *)
(* callers, any inputs and any bounds: its types, what an operation id      *)
(* promises its callers, and that it implements CommandService.             *)
(***************************************************************************)
EXTENDS Commands, SequenceTheorems, TLAPS

-----------------------------------------------------------------------------
(* The inductive invariant.                                                *)

\* `i` is the position of the effect of `op`.
Names(i, op) == i \in DOMAIN effects /\ effects[i].op = op

\* An operation id has at most one effect (find_exact_effective_transition,
\* the message id of a retried envelope).
EffectsAreUnique ==
  \A i, j \in DOMAIN effects : effects[i].op = effects[j].op => i = j

\* A recorded result is that of the operation's effect.
ResultsNameEffects == \A op \in Op : results[op] # None => Names(results[op].position, op)

\* Every answer ever given under an operation id is that of its effect.
AnswersNameEffects == \A a \in answers : Names(a.position, a.op)

\* What a running command relies on between its transactions: its caller's
\* generation is the one it was admitted under, its compare-and-swap is over
\* the history it read, and its stage has been reached.
CommandIsSound(c) ==
  /\ c.sender = generation[Caller[c.op]]
  /\ c.fresh => c.saw = Len(effects)
  /\ c.stage \in {"wake", "record"} => Executed(c.op)
  /\ c.stage = "rewake" => results[c.op] # None
  /\ c.stage = "stop" => c.reply # 0
  /\ c.reply # 0 => Names(c.reply, c.op)
  /\ Kind[c.op] = "actor.shutdown" =>
       c.stage \notin {"prepare", "wake", "record", "rewake"}

CommandsAreSound == \A p \in Process : Running(p) => CommandIsSound(proc[p])

CommandInv ==
  /\ TypeOK /\ EffectsAreUnique /\ ResultsNameEffects /\ AnswersNameEffects
  /\ CommandsAreSound /\ ShutdownIsAtomic

-----------------------------------------------------------------------------
(* The operators the actions are built from.                               *)

\* Losing a race forgets only that what was read is fresh.
LEMMA DisturbedKeeps ==
  ASSUME TypeOK
  PROVE  /\ Disturbed(proc) \in [Process -> Command \cup {None}]
         /\ \A p \in Process :
              /\ proc[p] = None => Disturbed(proc)[p] = None
              /\ proc[p] # None =>
                   /\ proc[p] \in Command
                   /\ Disturbed(proc)[p] = [proc[p] EXCEPT !.fresh = FALSE]
                   /\ Disturbed(proc)[p] \in Command
  BY ZenonT(40), NoneAssumption DEF TypeOK, Disturbed, Command

\* The history a command leaves: the same, or one effect longer.
LEMMA CommittedGrows ==
  ASSUME TypeOK, NEW p \in Process, Running(p)
  PROVE  /\ Committed(p) \in Seq(Effect)
         /\ Len(Committed(p)) \in Nat
         /\ Len(Committed(p)) >= Len(effects)
         /\ \A i \in DOMAIN effects : i \in DOMAIN Committed(p) /\ Committed(p)[i] = effects[i]
         /\ ~Executed(proc[p].op) =>
              /\ Committed(p) = Append(effects, [op |-> proc[p].op, saw |-> proc[p].saw,
                                                 envelope |-> proc[p].envelope])
              /\ Len(Committed(p)) = Len(effects) + 1
              /\ DOMAIN Committed(p) = 1..Len(effects) + 1
              /\ Committed(p)[Len(effects) + 1].op = proc[p].op
         /\ Executed(proc[p].op) => Committed(p) = effects
  <1> DEFINE e == [op |-> proc[p].op, saw |-> proc[p].saw, envelope |-> proc[p].envelope]
  <1>1. proc[p] \in Command
    BY DEF TypeOK, Running
  <1>2. e \in Effect
    BY <1>1 DEF Command, Effect
  <1>3. effects \in Seq(Effect) /\ Len(effects) \in Nat /\ DOMAIN effects = 1..Len(effects)
    BY DEF TypeOK
  <1>4. CASE Executed(proc[p].op)
    BY <1>3, <1>4 DEF Committed
  <1>5. CASE ~Executed(proc[p].op)
    <2>1. Committed(p) = Append(effects, e)
      BY <1>5 DEF Committed
    <2>2. /\ Append(effects, e) \in Seq(Effect)
          /\ Len(Append(effects, e)) = Len(effects) + 1
          /\ DOMAIN Append(effects, e) = 1..Len(effects) + 1
          /\ \A i \in 1..Len(effects) : Append(effects, e)[i] = effects[i]
          /\ Append(effects, e)[Len(effects) + 1] = e
      BY <1>2, <1>3
    <2>3. e.op = proc[p].op /\ DOMAIN effects \subseteq 1..Len(effects) + 1
      BY <1>3
    <2>4. /\ Committed(p) \in Seq(Effect)
          /\ Len(Committed(p)) \in Nat
          /\ Len(Committed(p)) >= Len(effects)
      BY <1>3, <2>1, <2>2
    <2>5. QED BY <1>3, <1>5, <2>1, <2>2, <2>3, <2>4
  <1>6. QED BY <1>4, <1>5

\* CHOOSE finds the effect of an operation that has one.
LEMMA PositionNames ==
  ASSUME NEW op, Executed(op)
  PROVE  Names(Position(op), op)
  BY DEF Executed, Position, Names

LEMMA ShutdownIsNotWoken ==
  ASSUME NEW op \in Op, Kind[op] = "actor.shutdown"
  PROVE  Handler(Kind[op]).wake # "again"
  BY DEF Handler, ActorShutdown

\* A running command, and the record an action makes of it.
LEMMA RunningTyped ==
  ASSUME TypeOK, NEW p \in Process, Running(p)
  PROVE  /\ proc[p] \in Command /\ proc[p].op \in Op
         /\ Caller[proc[p].op] \in Actor
         /\ proc[p].envelope \in Envelope
         /\ \A stage \in Stage : [proc[p] EXCEPT !.stage = stage] \in Command
  BY DEF TypeOK, Running, Command, Actor

LEMMA StoredTyped ==
  ASSUME TypeOK, NEW op, Executed(op)
  PROVE  Stored(op) \in Envelope /\ Position(op) \in Nat \ {0}
  <1>1. Position(op) \in DOMAIN effects
    BY PositionNames DEF Names
  <1>2. effects[Position(op)] \in Effect /\ Position(op) \in Nat \ {0}
    BY <1>1 DEF TypeOK
  <1>3. QED BY <1>2 DEF Stored, Effect

-----------------------------------------------------------------------------
(* Types.                                                                  *)

LEMMA InitTyped == Init => TypeOK
  BY CommandAssumption DEF Init, TypeOK

LEMMA AdmitTyped ==
  ASSUME TypeOK, NEW p \in Process, NEW op \in Op, NEW input \in Input,
         Admit(p, op, input)
  PROVE  TypeOK'
  <1> DEFINE c == [op |-> op, input |-> input, stage |-> "lookup",
                   sender |-> generation[Caller[op]],
                   envelope |-> [sender |-> generation[Caller[op]], context |-> context],
                   saw |-> 0, fresh |-> FALSE, tries |-> 0, reply |-> 0]
  <1>1. generation[Caller[op]] \in 1..MaxGeneration
    BY DEF TypeOK, Actor
  <1>2. c \in Command
    BY <1>1, CommandAssumption DEF TypeOK, Command, Stage, Envelope
  <1>3. proc' = [Disturbed(proc) EXCEPT ![p] = c]
    BY DEF Admit
  <1>4. proc' \in [Process -> Command \cup {None}]
    BY <1>2, <1>3, DisturbedKeeps
  <1>5. QED BY <1>4 DEF TypeOK, Admit, domain

LEMMA LookupTyped ==
  ASSUME CommandInv, NEW p \in Process, Lookup(p)
  PROVE  TypeOK'
  <1>1. TypeOK /\ Running(p) /\ proc[p].op \in Op /\ proc[p] \in Command
    BY RunningTyped DEF CommandInv, Lookup, At
  <1>2. \A stage \in Stage : [proc EXCEPT ![p].stage = stage] \in [Process -> Command \cup {None}]
    BY <1>1, RunningTyped DEF TypeOK
  <1>3. [proc EXCEPT ![p] = None] \in [Process -> Command \cup {None}]
    BY <1>1 DEF TypeOK
  <1>4. proc' \in [Process -> Command \cup {None}]
    BY <1>2, <1>3 DEF Lookup, GoTo, End, Stage
  <1>5. answers' \subseteq [op : Op, input : Input, position : Nat \ {0}]
    BY <1>1 DEF TypeOK, Lookup, AnswerWith, Command, Result
  <1>6. QED BY <1>1, <1>4, <1>5 DEF TypeOK, Lookup, domain

LEMMA ClaimTyped ==
  ASSUME CommandInv, NEW p \in Process, ClaimOp(p)
  PROVE  TypeOK'
  <1>1. TypeOK /\ Running(p) /\ proc[p].op \in Op /\ proc[p] \in Command
    BY RunningTyped DEF CommandInv, ClaimOp, At
  <1>2. \A stage \in Stage : [proc EXCEPT ![p].stage = stage] \in [Process -> Command \cup {None}]
    BY <1>1, RunningTyped DEF TypeOK
  <1>3. proc' \in [Process -> Command \cup {None}]
    BY ZenonT(40), <1>1, <1>2 DEF ClaimOp, GoTo, End, Stage, TypeOK
  <1>4. [by |-> p, input |-> proc[p].input, age |-> 0] \in Claim
    BY <1>1, CommandAssumption DEF Command, Claim
  <1>5. claims' \in [Op -> Claim \cup {None}]
    BY <1>1, <1>4 DEF TypeOK, ClaimOp
  <1>6. QED BY <1>1, <1>3, <1>5 DEF TypeOK, ClaimOp, domain

LEMMA PrepareTyped ==
  ASSUME CommandInv, NEW p \in Process, Prepare(p)
  PROVE  TypeOK'
  <1>1. TypeOK /\ Running(p) /\ proc[p].op \in Op /\ proc[p] \in Command
    BY RunningTyped DEF CommandInv, Prepare, At
  <1>2. Prepared(p, proc[p].op) \in Envelope
    BY <1>1, StoredTyped DEF Prepared, Rebuilt, TypeOK, Command, Envelope
  <1>3. /\ [proc[p] EXCEPT !.stage = "load", !.envelope = Prepared(p, proc[p].op)] \in Command
        /\ [proc[p] EXCEPT !.stage = "release"] \in Command
    BY <1>1, <1>2 DEF Command, Stage
  <1>4. proc' \in [Process -> Command \cup {None}]
    BY <1>1, <1>3 DEF Prepare, GoTo, TypeOK
  <1>5. QED BY <1>1, <1>4 DEF TypeOK, Prepare, domain

LEMMA LoadTyped ==
  ASSUME CommandInv, NEW p \in Process, Load(p)
  PROVE  TypeOK'
  <1>1. TypeOK /\ Running(p) /\ proc[p].op \in Op /\ proc[p] \in Command
    BY RunningTyped DEF CommandInv, Load, At
  <1>2. Rebuilt(p) \in Envelope /\ proc[p].envelope \in Envelope /\ Len(effects) \in Nat
    BY <1>1 DEF Rebuilt, TypeOK, Command, Envelope
  <1>3. /\ \A e \in Envelope :
              [proc[p] EXCEPT !.stage = "commit", !.fresh = TRUE, !.saw = Len(effects),
                              !.envelope = e] \in Command
        /\ [proc[p] EXCEPT !.stage = "release"] \in Command
    BY <1>1, <1>2 DEF Command, Stage
  <1>4. proc' \in [Process -> Command \cup {None}]
    BY ZenonT(40), <1>1, <1>2, <1>3 DEF Load, GoTo, TypeOK
  <1>5. QED BY <1>1, <1>4 DEF TypeOK, Load, domain

LEMMA RetryTyped ==
  ASSUME CommandInv, NEW p \in Process, Retry(p)
  PROVE  TypeOK'
  <1>1. TypeOK /\ Running(p) /\ proc[p].op \in Op /\ proc[p] \in Command
    BY RunningTyped DEF CommandInv, Retry, At
  <1>2. MayTry(p) => proc[p].tries + 1 \in 0..MaxTries
    BY <1>1, CommandAssumption DEF Command, MayTry
  <1>3. /\ MayTry(p) => [proc[p] EXCEPT !.stage = "load", !.tries = @ + 1] \in Command
        /\ [proc[p] EXCEPT !.stage = "release"] \in Command
    BY <1>1, <1>2 DEF Command, Stage
  <1>4. proc' \in [Process -> Command \cup {None}]
    BY <1>1, <1>3 DEF Retry, GoTo, TypeOK
  <1>5. QED BY <1>1, <1>4 DEF TypeOK, Retry, domain

LEMMA CommitTyped ==
  ASSUME CommandInv, NEW p \in Process, Commit(p)
  PROVE  TypeOK'
  <1>1. TypeOK /\ Running(p)
    BY DEF CommandInv, Commit, At
  <1>2. [Disturbed(proc)[p] EXCEPT !.stage = "wake"] \in Command
    BY <1>1, DisturbedKeeps DEF Running, Command, Stage
  <1>3. proc' \in [Process -> Command \cup {None}]
    BY <1>1, <1>2, DisturbedKeeps DEF Commit
  <1>4. QED BY <1>1, <1>3, CommittedGrows DEF TypeOK, Commit

LEMMA DeclaredTyped ==
  ASSUME CommandInv, NEW p \in Process, DeclareShutdown(p)
  PROVE  /\ effects' \in Seq(Effect) /\ Len(effects') \in Nat \ {0}
         /\ [input |-> proc[p].input, position |-> Len(effects'), sender |-> proc[p].sender]
               \in Result
  <1>1. TypeOK /\ Running(p) /\ proc[p].op \in Op /\ proc[p] \in Command
    BY RunningTyped DEF CommandInv, DeclareShutdown, At
  <1>2. ~Executed(proc[p].op)
    BY <1>1 DEF CommandInv, ShutdownIsAtomic, DeclareShutdown
  <1>3. Len(effects) \in Nat /\ effects' = Committed(p)
    BY <1>1 DEF TypeOK, DeclareShutdown
  <1>4. Committed(p) \in Seq(Effect) /\ Len(Committed(p)) = Len(effects) + 1
    BY <1>1, <1>2, CommittedGrows
  <1>5. effects' \in Seq(Effect) /\ Len(effects') \in Nat \ {0}
    BY <1>3, <1>4
  <1>6. QED BY <1>1, <1>5 DEF Command, Result

LEMMA DeclareTyped ==
  ASSUME CommandInv, NEW p \in Process, DeclareShutdown(p)
  PROVE  TypeOK'
  <1>1. TypeOK /\ Running(p) /\ proc[p] \in Command /\ Caller[proc[p].op] \in Actor
    BY RunningTyped DEF CommandInv, DeclareShutdown, At
  <1>2. [Disturbed(proc)[p] EXCEPT !.stage = "stop", !.reply = Len(effects')] \in Command
    BY <1>1, DeclaredTyped, DisturbedKeeps DEF Running, Command, Stage
  <1>3. proc' \in [Process -> Command \cup {None}]
    BY <1>1, <1>2, DisturbedKeeps DEF DeclareShutdown
  <1>4. QED BY <1>1, <1>3, DeclaredTyped DEF TypeOK, DeclareShutdown, ShutdownRows

LEMMA StopTyped ==
  ASSUME CommandInv, NEW p \in Process, StopBackend(p)
  PROVE  TypeOK'
  <1>1. TypeOK /\ Running(p) /\ proc[p].op \in Op /\ proc[p] \in Command
    BY RunningTyped DEF CommandInv, StopBackend, At
  <1>2. proc[p].reply \in Nat \ {0}
    BY <1>1 DEF CommandInv, CommandsAreSound, CommandIsSound, StopBackend, At, Command
  <1>3. QED BY <1>1, <1>2 DEF TypeOK, StopBackend, AnswerWith, End, Command, domain

LEMMA WakeTyped ==
  ASSUME CommandInv, NEW p \in Process, Wake(p)
  PROVE  TypeOK'
  <1>1. TypeOK /\ Running(p) /\ proc[p].op \in Op
    BY RunningTyped DEF CommandInv, Wake, At
  <1>2. proc' \in [Process -> Command \cup {None}]
    BY <1>1, RunningTyped DEF TypeOK, Wake, GoTo, Stage
  <1>3. QED BY <1>1, <1>2 DEF TypeOK, Wake, domain

LEMMA WakeAgainTyped ==
  ASSUME CommandInv, NEW p \in Process, WakeAgain(p)
  PROVE  TypeOK'
  <1>1. TypeOK /\ Running(p) /\ proc[p].op \in Op /\ proc[p] \in Command
    BY RunningTyped DEF CommandInv, WakeAgain, At
  <1>2. results[proc[p].op].position \in Nat \ {0}
    BY <1>1 DEF CommandInv, CommandsAreSound, CommandIsSound, WakeAgain, At, TypeOK, Result
  <1>3. QED BY <1>1, <1>2 DEF TypeOK, WakeAgain, AnswerWith, End, Command, domain

LEMMA RecordedTyped ==
  ASSUME CommandInv, NEW p \in Process, Record(p)
  PROVE  results' \in [Op -> Result \cup {None}] /\ results'[proc[p].op] \in Result
  <1>1. TypeOK /\ Running(p) /\ proc[p].op \in Op /\ proc[p] \in Command
    BY RunningTyped DEF CommandInv, Record, At
  <1>2. Executed(proc[p].op)
    BY <1>1 DEF CommandInv, CommandsAreSound, CommandIsSound, Record, At
  <1>3. [input |-> proc[p].input, position |-> Position(proc[p].op),
         sender |-> proc[p].sender] \in Result
    BY <1>1, <1>2, StoredTyped DEF Command, Result
  <1>4. QED BY <1>1, <1>3 DEF TypeOK, Record

LEMMA RecordTyped ==
  ASSUME CommandInv, NEW p \in Process, Record(p)
  PROVE  TypeOK'
  <1>1. TypeOK /\ Running(p) /\ proc[p].op \in Op /\ proc[p] \in Command
    BY RunningTyped DEF CommandInv, Record, At
  <1>2. [proc[p] EXCEPT !.stage = "release", !.reply = results'[proc[p].op].position] \in Command
    BY <1>1, RecordedTyped DEF Command, Stage, Result
  <1>3. proc' \in [Process -> Command \cup {None}]
    BY <1>1, <1>2 DEF TypeOK, Record
  <1>4. QED BY <1>1, <1>3, RecordedTyped DEF TypeOK, Record, domain

LEMMA ReleaseTyped ==
  ASSUME CommandInv, NEW p \in Process, Release(p)
  PROVE  TypeOK'
  <1>1. TypeOK /\ Running(p) /\ proc[p].op \in Op /\ proc[p] \in Command
    BY RunningTyped DEF CommandInv, Release, At
  <1>2. answers' \subseteq [op : Op, input : Input, position : Nat \ {0}]
    BY <1>1 DEF TypeOK, Release, AnswerWith, Command
  <1>3. QED BY <1>1, <1>2 DEF TypeOK, Release, End, domain

LEMMA AdvanceTyped ==
  ASSUME TypeOK, NEW a \in Actor, Advance(a)
  PROVE  TypeOK'
  <1>1. generation[a] + 1 \in 1..MaxGeneration
    BY CommandAssumption DEF TypeOK, Advance
  <1>2. QED BY <1>1, DisturbedKeeps DEF TypeOK, Advance

LEMMA TickTyped ==
  ASSUME TypeOK, Tick
  PROVE  TypeOK'
  <1>1. ASSUME NEW op \in Op, claims[op] # None, claims[op].age # Ttl
        PROVE  [claims[op] EXCEPT !.age = @ + 1] \in Claim
    <2>1. claims[op] \in Claim
      BY <1>1 DEF TypeOK
    <2>2. claims[op].age + 1 \in 0..Ttl
      BY <1>1, <2>1, CommandAssumption DEF Claim
    <2>3. QED BY <2>1, <2>2 DEF Claim
  <1>2. QED BY <1>1 DEF TypeOK, Tick, domain

LEMMA StepTyped ==
  ASSUME CommandInv, [Next]_vars
  PROVE  TypeOK'
  <1>1. TypeOK
    BY DEF CommandInv
  <1>2. CASE \E op \in Op : Invoke(op)
    BY <1>1, <1>2, AdmitTyped DEF Invoke
  <1>3. ASSUME NEW p \in Process, Step(p) PROVE TypeOK'
    BY <1>3, LookupTyped, ClaimTyped, PrepareTyped, LoadTyped, RetryTyped, CommitTyped,
       DeclareTyped, StopTyped, WakeTyped, WakeAgainTyped, RecordTyped, ReleaseTyped
    DEF Step
  <1>4. ASSUME NEW p \in Process, Die(p) PROVE TypeOK'
    BY <1>1, <1>4, CommandAssumption DEF TypeOK, Die, Fault, End, domain
  <1>5. CASE Lose \/ Regain
    <2>1. faults' \in 0..MaxFaults
      BY <1>1, <1>5, CommandAssumption DEF TypeOK, Lose, Regain, Fault
    <2>2. reachable' \in BOOLEAN
      BY <1>5 DEF Lose, Regain
    <2>3. UNCHANGED <<effects, generation, stopped, session, context, results, claims, proc,
                      woken, answers>>
      BY <1>5 DEF Lose, Regain, domain
    <2>4. QED BY <1>1, <2>1, <2>2, <2>3 DEF TypeOK
  <1>6. CASE MoveContext
    BY <1>1, <1>6, CommandAssumption, DisturbedKeeps DEF TypeOK, MoveContext
  <1>7. CASE Tick
    BY <1>1, <1>7, TickTyped
  <1>8. ASSUME NEW a \in Actor, Advance(a) PROVE TypeOK'
    BY <1>1, <1>8, AdvanceTyped
  <1>9. CASE UNCHANGED vars
    BY <1>1, <1>9 DEF TypeOK, vars, domain
  <1>10. QED
    BY <1>2, <1>3, <1>4, <1>5, <1>6, <1>7, <1>8, <1>9 DEF Next

-----------------------------------------------------------------------------
(* What a step does to the history, the results and the answers.           *)

\* The history moves only when a command commits over the history it read.
LEMMA CommitAppends ==
  ASSUME CommandInv, NEW p \in Process, Commit(p) \/ DeclareShutdown(p)
  PROVE  \/ Executed(proc[p].op) /\ effects' = effects
         \/ /\ ~Executed(proc[p].op)
            /\ effects' = Append(effects, [op |-> proc[p].op, saw |-> Len(effects),
                                           envelope |-> proc[p].envelope])
            /\ Len(effects') = Len(effects) + 1
            /\ DOMAIN effects' = 1..Len(effects) + 1
            /\ \A i \in DOMAIN effects : i \in DOMAIN effects' /\ effects'[i] = effects[i]
            /\ effects'[Len(effects) + 1].op = proc[p].op
  <1>1. TypeOK /\ Running(p) /\ effects' = Committed(p) /\ proc[p].fresh
    BY DEF CommandInv, Commit, DeclareShutdown, At, MayCommit
  <1>2. proc[p].saw = Len(effects)
    BY <1>1 DEF CommandInv, CommandsAreSound, CommandIsSound
  <1>3. QED BY <1>1, <1>2, CommittedGrows

LEMMA OthersStayUnexecuted ==
  ASSUME CommandInv, NEW p \in Process, Commit(p) \/ DeclareShutdown(p),
         NEW op, op # proc[p].op
  PROVE  Executed(op)' <=> Executed(op)
  <1>1. Len(effects) \in Nat /\ DOMAIN effects = 1..Len(effects)
    BY DEF CommandInv, TypeOK
  <1>2. CASE effects' = effects
    BY <1>2 DEF Executed
  <1>3. CASE ~Executed(proc[p].op)
    <2>1. /\ DOMAIN effects' = 1..Len(effects) + 1
          /\ \A i \in DOMAIN effects : i \in DOMAIN effects' /\ effects'[i] = effects[i]
          /\ effects'[Len(effects) + 1].op = proc[p].op
      BY <1>3, CommitAppends
    <2>2. \A i \in DOMAIN effects' : i \in DOMAIN effects \/ i = Len(effects) + 1
      BY <1>1, <2>1
    <2>3. QED BY <2>1, <2>2 DEF Executed
  <1>4. QED BY <1>2, <1>3, CommitAppends

LEMMA HistoryStep ==
  ASSUME CommandInv, [Next]_vars
  PROVE  \/ UNCHANGED <<effects, results>>
         \/ \E p \in Process : Record(p) \/ Commit(p) \/ DeclareShutdown(p)
  <1>1. ASSUME NEW p \in Process, Step(p)
        PROVE  \/ UNCHANGED <<effects, results>>
               \/ Record(p) \/ Commit(p) \/ DeclareShutdown(p)
    <2>1. CASE Lookup(p) \/ ClaimOp(p) \/ Prepare(p) \/ Load(p) \/ Retry(p)
      BY <2>1 DEF Lookup, ClaimOp, Prepare, Load, Retry, domain
    <2>2. CASE StopBackend(p) \/ Wake(p) \/ WakeAgain(p) \/ Release(p)
      BY <2>2 DEF StopBackend, Wake, WakeAgain, Release, domain
    <2>3. QED BY <1>1, <2>1, <2>2 DEF Step
  <1>2. ASSUME NEW p \in Process, Die(p)
        PROVE  UNCHANGED <<effects, results>>
    BY <1>2 DEF Die, domain
  <1>3. ASSUME NEW op \in Op, Invoke(op)
        PROVE  UNCHANGED <<effects, results>>
    BY <1>3 DEF Invoke, Admit, domain
  <1>4. CASE Lose \/ Regain \/ MoveContext \/ Tick \/ UNCHANGED vars
    BY <1>4 DEF Lose, Regain, MoveContext, Tick, vars, domain
  <1>5. ASSUME NEW a \in Actor, Advance(a)
        PROVE  UNCHANGED <<effects, results>>
    BY <1>5 DEF Advance, domain
  <1>6. QED BY <1>1, <1>2, <1>3, <1>4, <1>5 DEF Next

LEMMA NamesStay ==
  ASSUME CommandInv, [Next]_vars, NEW i, NEW op, Names(i, op)
  PROVE  Names(i, op)'
  <1>1. CASE effects' = effects
    BY <1>1 DEF Names
  <1>2. ASSUME NEW p \in Process, Commit(p) \/ DeclareShutdown(p) PROVE Names(i, op)'
    BY <1>2, CommitAppends DEF Names
  <1>3. QED BY <1>1, <1>2, HistoryStep DEF Record, domain

LEMMA ExecutedStays ==
  ASSUME CommandInv, [Next]_vars, NEW op, Executed(op)
  PROVE  Executed(op)'
  <1>1. PICK i \in DOMAIN effects : effects[i].op = op
    BY DEF Executed
  <1>2. Names(i, op)'
    BY <1>1, NamesStay DEF Names
  <1>3. QED BY <1>2 DEF Names, Executed

\* INSERT OR IGNORE, and a declaration that demands an empty row: a recorded
\* result never changes.
LEMMA ResultsStay ==
  ASSUME CommandInv, [Next]_vars, NEW op \in Op, results[op] # None
  PROVE  results'[op] = results[op]
  <1>1. ASSUME NEW p \in Process, Record(p) \/ Commit(p) \/ DeclareShutdown(p)
        PROVE  results'[op] = results[op]
    BY <1>1 DEF CommandInv, TypeOK, Record, Commit, DeclareShutdown, ShutdownRows
  <1>2. QED BY <1>1, HistoryStep

LEMMA UniqueStep ==
  ASSUME CommandInv, [Next]_vars
  PROVE  EffectsAreUnique'
  <1>1. CASE effects' = effects
    BY <1>1 DEF CommandInv, EffectsAreUnique
  <1>2. ASSUME NEW p \in Process, Commit(p) \/ DeclareShutdown(p), effects' # effects
        PROVE  EffectsAreUnique'
    <2>1. DOMAIN effects = 1..Len(effects) /\ Len(effects) \in Nat
      BY DEF CommandInv, TypeOK
    <2>2. \A i \in DOMAIN effects : effects[i].op # proc[p].op
      BY <1>2, CommitAppends DEF Executed
    <2>3. /\ DOMAIN effects' = 1..Len(effects) + 1
          /\ \A i \in DOMAIN effects : effects'[i] = effects[i]
          /\ effects'[Len(effects) + 1].op = proc[p].op
      BY <1>2, CommitAppends
    <2>4. QED BY <2>1, <2>2, <2>3 DEF CommandInv, EffectsAreUnique
  <1>3. QED BY <1>1, <1>2, HistoryStep DEF Record, domain

LEMMA ResultsStep ==
  ASSUME CommandInv, [Next]_vars, TypeOK'
  PROVE  ResultsNameEffects'
  <1> SUFFICES ASSUME NEW op \in Op, results'[op] # None
               PROVE  Names(results[op].position, op)'
    BY DEF ResultsNameEffects
  <1>1. CASE results[op] # None
    <2>1. Names(results[op].position, op)
      BY <1>1 DEF CommandInv, ResultsNameEffects
    <2>2. QED BY <1>1, <2>1, NamesStay, ResultsStay DEF Names
  <1>2. CASE results[op] = None
    <2>1. ASSUME NEW p \in Process, Record(p) PROVE Names(results[op].position, op)'
      <3>1. op = proc[p].op /\ results'[op].position = Position(op) /\ effects' = effects
        BY <1>2, <2>1 DEF CommandInv, TypeOK, Record, domain
      <3>2. Executed(op)
        BY <2>1, <3>1 DEF CommandInv, CommandsAreSound, CommandIsSound, Record, At
      <3>3. QED BY <3>1, <3>2, PositionNames DEF Names
    <2>2. ASSUME NEW p \in Process, DeclareShutdown(p) PROVE Names(results[op].position, op)'
      <3>1. op = proc[p].op /\ results'[op].position = Len(effects')
        BY <1>2, <2>2 DEF CommandInv, TypeOK, DeclareShutdown, ShutdownRows
      <3>2. ~Executed(op)
        BY <1>2, <2>2, <3>1 DEF CommandInv, ShutdownIsAtomic, DeclareShutdown
      <3>3. Len(effects) \in Nat
        BY DEF CommandInv, TypeOK
      <3>4. /\ Len(effects') = Len(effects) + 1
            /\ DOMAIN effects' = 1..Len(effects) + 1
            /\ effects'[Len(effects) + 1].op = proc[p].op
        BY <2>2, <3>1, <3>2, CommitAppends
      <3>5. QED BY <3>1, <3>3, <3>4 DEF Names
    <2>3. ASSUME NEW p \in Process, Commit(p) PROVE results' = results
      BY <2>3 DEF Commit
    <2>4. QED BY <1>2, <2>1, <2>2, <2>3, HistoryStep
  <1>3. QED BY <1>1, <1>2

\* An answer given in a step is the recorded result, or the reply the command
\* keeps from its own record.
LEMMA AnswersStep ==
  ASSUME CommandInv, [Next]_vars
  PROVE  AnswersNameEffects'
  <1>1. ASSUME NEW a \in answers PROVE Names(a.position, a.op)'
    BY <1>1, NamesStay DEF CommandInv, AnswersNameEffects
  <1>2. ASSUME NEW a, Names(a.position, a.op), answers' = answers \cup {a}
        PROVE  AnswersNameEffects'
    <2>1. Names(a.position, a.op)'
      BY <1>2, NamesStay
    <2>2. QED BY <1>1, <1>2, <2>1 DEF AnswersNameEffects, Names
  <1> DEFINE given(p, position) ==
               [op |-> proc[p].op, input |-> proc[p].input, position |-> position]
  <1>3. CASE UNCHANGED answers
    BY <1>1, <1>3 DEF AnswersNameEffects, Names
  <1>4. ASSUME NEW p \in Process, Lookup(p) PROVE AnswersNameEffects'
    <2>1. Running(p) /\ proc[p].op \in Op
      BY <1>4, RunningTyped DEF CommandInv, Lookup, At
    <2>2. results[proc[p].op] # None => Names(results[proc[p].op].position, proc[p].op)
      BY <2>1 DEF CommandInv, ResultsNameEffects
    <2>3. CASE UNCHANGED answers
      BY <1>3, <2>3
    <2>4. CASE results[proc[p].op] # None /\ AnswerWith(p, results[proc[p].op].position)
      <3>1. answers' = answers \cup {given(p, results[proc[p].op].position)}
        BY <2>4 DEF AnswerWith
      <3>2. QED BY <1>2, <2>2, <2>4, <3>1
    <2>5. QED BY <1>4, <2>3, <2>4 DEF Lookup
  <1>5. ASSUME NEW p \in Process, StopBackend(p) \/ Release(p) PROVE AnswersNameEffects'
    <2>1. Running(p)
      BY <1>5 DEF StopBackend, Release, At
    <2>2. proc[p].reply # 0 => Names(proc[p].reply, proc[p].op)
      BY <2>1 DEF CommandInv, CommandsAreSound, CommandIsSound
    <2>3. StopBackend(p) => proc[p].reply # 0
      BY <2>1 DEF CommandInv, CommandsAreSound, CommandIsSound, StopBackend, At
    <2>4. CASE UNCHANGED answers
      BY <1>3, <2>4
    <2>5. CASE proc[p].reply # 0 /\ AnswerWith(p, proc[p].reply)
      <3>1. answers' = answers \cup {given(p, proc[p].reply)}
        BY <2>5 DEF AnswerWith
      <3>2. QED BY <1>2, <2>2, <2>5, <3>1
    <2>6. QED BY <1>5, <2>3, <2>4, <2>5 DEF StopBackend, Release
  <1>6. ASSUME NEW p \in Process, WakeAgain(p) PROVE AnswersNameEffects'
    <2>1. Running(p) /\ proc[p].op \in Op /\ results[proc[p].op] # None
      BY <1>6, RunningTyped
      DEF CommandInv, CommandsAreSound, CommandIsSound, WakeAgain, At
    <2>2. Names(results[proc[p].op].position, proc[p].op)
      BY <2>1 DEF CommandInv, ResultsNameEffects
    <2>3. answers' = answers \cup {given(p, results[proc[p].op].position)}
      BY <1>6 DEF WakeAgain, AnswerWith
    <2>4. QED BY <1>2, <2>2, <2>3
  <1>7. QED
    BY <1>3, <1>4, <1>5, <1>6
    DEF Next, Invoke, Admit, Step, ClaimOp, Prepare, Load, Retry, Commit, DeclareShutdown,
        Wake, Record, Die, Lose, Regain, Advance, MoveContext, Tick, vars

-----------------------------------------------------------------------------
(* What a command relies on between its transactions.                      *)

\* A command that a step leaves alone, or only disturbs, stays sound.
LEMMA OthersStaySound ==
  ASSUME CommandInv, [Next]_vars, NEW q \in Process, Running(q),
         generation'[Caller[proc[q].op]] = generation[Caller[proc[q].op]],
         \/ proc'[q] = proc[q] /\ effects' = effects
         \/ proc'[q] = [proc[q] EXCEPT !.fresh = FALSE]
  PROVE  CommandIsSound(proc[q])'
  <1>1. proc[q] \in Command /\ proc[q].op \in Op /\ CommandIsSound(proc[q])
    BY RunningTyped DEF CommandInv, CommandsAreSound
  <1>2. /\ proc'[q].op = proc[q].op /\ proc'[q].sender = proc[q].sender
        /\ proc'[q].stage = proc[q].stage /\ proc'[q].reply = proc[q].reply
        /\ proc'[q].fresh => effects' = effects /\ proc'[q] = proc[q]
    BY <1>1 DEF Command
  <1>3. ASSUME NEW op \in Op, Executed(op) PROVE Executed(op)'
    BY <1>3, ExecutedStays
  <1>4. ASSUME NEW i, NEW op, Names(i, op) PROVE Names(i, op)'
    BY <1>4, NamesStay
  <1>5. ASSUME NEW op \in Op, results[op] # None PROVE results'[op] # None
    BY <1>5, ResultsStay
  <1>6. Executed(proc[q].op) => \E i \in DOMAIN effects' : effects'[i].op = proc[q].op
    BY <1>1, <1>3 DEF Executed
  <1>7. Names(proc[q].reply, proc[q].op) =>
          proc[q].reply \in DOMAIN effects' /\ effects'[proc[q].reply].op = proc[q].op
    BY <1>4 DEF Names
  <1>8. QED BY <1>1, <1>2, <1>5, <1>6, <1>7 DEF CommandIsSound, Executed, Names

\* A step of `p` disturbs the others, or does not touch them.
LEMMA OwnStep ==
  ASSUME CommandInv, [Next]_vars, NEW p \in Process, UNCHANGED generation,
         \A q \in Process \ {p} :
           \/ proc'[q] = proc[q] /\ effects' = effects
           \/ proc'[q] = Disturbed(proc)[q],
         proc'[p] # None => CommandIsSound(proc[p])'
  PROVE  CommandsAreSound'
  <1> SUFFICES ASSUME NEW q \in Process, proc'[q] # None PROVE CommandIsSound(proc[q])'
    BY DEF CommandsAreSound, Running
  <1>1. CASE q = p
    BY <1>1
  <1>2. CASE q # p
    <2>1. TypeOK
      BY DEF CommandInv
    <2>2. Running(q)
      BY <1>2, <2>1, DisturbedKeeps DEF Running
    <2>3. Disturbed(proc)[q] = [proc[q] EXCEPT !.fresh = FALSE]
      BY <2>1, <2>2, DisturbedKeeps DEF Running
    <2>4. QED BY <1>2, <2>2, <2>3, OthersStaySound
  <1>3. QED BY <1>1, <1>2

LEMMA AdmitSound ==
  ASSUME CommandInv, [Next]_vars, NEW p \in Process, NEW op \in Op, NEW input \in Input,
         Admit(p, op, input)
  PROVE  CommandsAreSound'
  <1>1. TypeOK /\ Disturbed(proc) \in [Process -> Command \cup {None}]
    BY DisturbedKeeps DEF CommandInv
  <1>2. UNCHANGED <<generation, effects, results>>
    BY DEF Admit, domain
  <1>3. \A q \in Process \ {p} : proc'[q] = Disturbed(proc)[q]
    BY <1>1 DEF Admit
  <1>4. /\ proc'[p].op = op /\ proc'[p].stage = "lookup" /\ ~proc'[p].fresh
        /\ proc'[p].sender = generation[Caller[op]] /\ proc'[p].reply = 0
    BY <1>1 DEF Admit
  <1>5. CommandIsSound(proc[p])'
    BY <1>2, <1>4 DEF CommandIsSound
  <1>6. QED BY <1>2, <1>3, <1>5, OwnStep

\* Steps of a command that touch only its own record.
LEMMA QuietSound ==
  ASSUME CommandInv, [Next]_vars, NEW p \in Process,
         \/ Lookup(p) \/ ClaimOp(p) \/ Prepare(p) \/ Load(p) \/ Retry(p)
         \/ StopBackend(p) \/ Wake(p) \/ WakeAgain(p) \/ Release(p) \/ Die(p)
  PROVE  CommandsAreSound'
  <1>1. TypeOK /\ Running(p) /\ proc[p] \in Command /\ proc[p].op \in Op
    BY RunningTyped
    DEF CommandInv, Lookup, ClaimOp, Prepare, Load, Retry, StopBackend, Wake, WakeAgain,
        Release, Die, At
  <1>2. UNCHANGED <<generation, effects, results>>
    BY DEF Lookup, ClaimOp, Prepare, Load, Retry, StopBackend, Wake, WakeAgain,
        Release, Die, domain
  <1>3. CommandIsSound(proc[p])
    BY <1>1 DEF CommandInv, CommandsAreSound
  <1>4. \A q \in Process \ {p} : proc'[q] = proc[q] /\ effects' = effects
    BY <1>1, <1>2
    DEF TypeOK, Lookup, ClaimOp, Prepare, Load, Retry, StopBackend, Wake, WakeAgain,
        Release, Die, GoTo, End
  <1>5. ASSUME NEW stage \in {"claim", "load", "release"}, GoTo(p, stage)
        PROVE  CommandIsSound(proc[p])'
    <2>1. proc'[p] = [proc[p] EXCEPT !.stage = stage]
      BY <1>1, <1>5 DEF TypeOK, GoTo
    <2>2. /\ proc'[p].op = proc[p].op /\ proc'[p].sender = proc[p].sender
          /\ proc'[p].saw = proc[p].saw /\ proc'[p].fresh = proc[p].fresh
          /\ proc'[p].reply = proc[p].reply /\ proc'[p].stage = stage
      BY <1>1, <2>1 DEF Command
    <2>3. QED BY <1>2, <1>3, <2>2 DEF CommandIsSound, Executed, Names
  <1>6. CASE Lookup(p)
    <2>1. ASSUME GoTo(p, "rewake"), results[proc[p].op] # None,
                 Handler(Kind[proc[p].op]).wake = "again"
          PROVE  CommandIsSound(proc[p])'
      BY <1>1, <1>2, <1>3, <2>1, ShutdownIsNotWoken
      DEF TypeOK, GoTo, Command, CommandIsSound, Executed, Names
    <2>2. End(p) => proc'[p] = None
      BY <1>1 DEF TypeOK, End
    <2>3. proc'[p] # None => CommandIsSound(proc[p])'
      BY <1>5, <1>6, <2>1, <2>2 DEF Lookup
    <2>4. QED BY <1>2, <1>4, <2>3, OwnStep
  <1>7. CASE ClaimOp(p)
    <2>1. ASSUME GoTo(p, "prepare"), Kind[proc[p].op] # "actor.shutdown"
          PROVE  CommandIsSound(proc[p])'
      BY <1>1, <1>2, <1>3, <2>1 DEF TypeOK, GoTo, Command, CommandIsSound, Executed, Names
    <2>2. End(p) => proc'[p] = None
      BY <1>1 DEF TypeOK, End
    <2>3. proc'[p] # None => CommandIsSound(proc[p])'
      BY <1>5, <1>7, <2>1, <2>2 DEF ClaimOp
    <2>4. QED BY <1>2, <1>4, <2>3, OwnStep
  <1>8. CASE Prepare(p)
    <2>1. ASSUME NEW e, proc' = [proc EXCEPT ![p].stage = "load", ![p].envelope = e]
          PROVE  CommandIsSound(proc[p])'
      BY <1>1, <1>2, <1>3, <2>1 DEF TypeOK, Command, CommandIsSound, Executed, Names
    <2>2. CommandIsSound(proc[p])'
      BY <1>5, <1>8, <2>1 DEF Prepare
    <2>3. QED BY <1>2, <1>4, <2>2, OwnStep
  <1>9. CASE Load(p)
    <2>1. ASSUME NEW e, proc' = [proc EXCEPT ![p].stage = "commit", ![p].fresh = TRUE,
                                   ![p].saw = Len(effects), ![p].envelope = e]
          PROVE  CommandIsSound(proc[p])'
      BY <1>1, <1>2, <1>3, <2>1 DEF TypeOK, Command, CommandIsSound, Executed, Names
    <2>2. CommandIsSound(proc[p])'
      BY <1>1, <1>5, <1>9, <2>1 DEF Load
    <2>3. QED BY <1>2, <1>4, <2>2, OwnStep
  <1>10. CASE Retry(p)
    <2>1. ASSUME NEW n, proc' = [proc EXCEPT ![p].stage = "load", ![p].tries = n]
          PROVE  CommandIsSound(proc[p])'
      BY <1>1, <1>2, <1>3, <2>1 DEF TypeOK, Command, CommandIsSound, Executed, Names
    <2>2. CommandIsSound(proc[p])'
      BY <1>1, <1>5, <1>10, <2>1 DEF Retry
    <2>3. QED BY <1>2, <1>4, <2>2, OwnStep
  <1>11. CASE Wake(p)
    <2>1. ASSUME GoTo(p, "record"), proc[p].stage = "wake"
          PROVE  CommandIsSound(proc[p])'
      BY <1>1, <1>2, <1>3, <2>1 DEF TypeOK, GoTo, Command, CommandIsSound, Executed, Names
    <2>2. CommandIsSound(proc[p])'
      BY <1>5, <1>11, <2>1 DEF Wake, At
    <2>3. QED BY <1>2, <1>4, <2>2, OwnStep
  <1>12. CASE StopBackend(p) \/ WakeAgain(p) \/ Release(p) \/ Die(p)
    <2>1. proc'[p] = None
      BY <1>1, <1>12 DEF TypeOK, StopBackend, WakeAgain, Release, Die, End
    <2>2. QED BY <1>2, <1>4, <2>1, OwnStep
  <1>13. QED BY <1>6, <1>7, <1>8, <1>9, <1>10, <1>11, <1>12

LEMMA CommitSound ==
  ASSUME CommandInv, [Next]_vars, NEW p \in Process, Commit(p)
  PROVE  CommandsAreSound'
  <1>1. TypeOK /\ Running(p) /\ proc[p] \in Command /\ proc[p].op \in Op
    BY RunningTyped DEF CommandInv, Commit, At
  <1>2. CommandIsSound(proc[p])
    BY <1>1 DEF CommandInv, CommandsAreSound
  <1>3. \A q \in Process \ {p} : proc'[q] = Disturbed(proc)[q]
    BY <1>1, DisturbedKeeps DEF Commit
  <1>4. proc'[p] = [proc[p] EXCEPT !.fresh = FALSE, !.stage = "wake"]
    BY <1>1, DisturbedKeeps DEF Commit, Running
  <1>5. \E i \in DOMAIN effects' : effects'[i].op = proc[p].op
    <2>1. Len(effects) \in Nat
      BY <1>1 DEF TypeOK
    <2>2. CASE Executed(proc[p].op)
      BY <2>2, CommitAppends DEF Executed
    <2>3. CASE ~Executed(proc[p].op)
      <3>1. /\ DOMAIN effects' = 1..Len(effects) + 1
            /\ effects'[Len(effects) + 1].op = proc[p].op
        BY <2>3, CommitAppends
      <3>2. QED BY <2>1, <3>1
    <2>4. QED BY <2>2, <2>3
  <1>6. proc[p].reply # 0 =>
          proc[p].reply \in DOMAIN effects' /\ effects'[proc[p].reply].op = proc[p].op
    <2>1. ASSUME NEW i, NEW op, Names(i, op) PROVE Names(i, op)'
      BY <2>1, NamesStay
    <2>2. QED BY <1>2, <2>1 DEF CommandIsSound, Names
  <1>7. /\ proc'[p].op = proc[p].op /\ proc'[p].sender = proc[p].sender
        /\ proc'[p].reply = proc[p].reply /\ proc'[p].stage = "wake" /\ ~proc'[p].fresh
    BY <1>1, <1>4 DEF Command
  <1>8. CommandIsSound(proc[p])'
    BY <1>2, <1>5, <1>6, <1>7 DEF Commit, CommandIsSound, Executed, Names
  <1>9. QED BY <1>3, <1>8, OwnStep DEF Commit

LEMMA DeclareSound ==
  ASSUME CommandInv, [Next]_vars, NEW p \in Process, DeclareShutdown(p)
  PROVE  CommandsAreSound'
  <1>1. TypeOK /\ Running(p) /\ proc[p] \in Command /\ proc[p].op \in Op
    BY RunningTyped DEF CommandInv, DeclareShutdown, At
  <1>2. CommandIsSound(proc[p]) /\ ~Executed(proc[p].op) /\ Len(effects) \in Nat
    BY <1>1 DEF CommandInv, CommandsAreSound, ShutdownIsAtomic, DeclareShutdown, TypeOK
  <1>3. \A q \in Process \ {p} : proc'[q] = Disturbed(proc)[q]
    BY <1>1, DisturbedKeeps DEF DeclareShutdown
  <1>4. proc'[p] = [proc[p] EXCEPT !.fresh = FALSE, !.stage = "stop", !.reply = Len(effects')]
    BY <1>1, DisturbedKeeps DEF DeclareShutdown, Running
  <1>5. /\ Len(effects') = Len(effects) + 1
        /\ DOMAIN effects' = 1..Len(effects) + 1
        /\ effects'[Len(effects) + 1].op = proc[p].op
    BY <1>2, CommitAppends
  <1>6. /\ proc'[p].op = proc[p].op /\ proc'[p].sender = proc[p].sender
        /\ proc'[p].reply = Len(effects') /\ proc'[p].stage = "stop" /\ ~proc'[p].fresh
    BY <1>1, <1>4 DEF Command
  <1>7. Len(effects') \in DOMAIN effects' /\ Len(effects') # 0
    BY <1>2, <1>5
  <1>8. CommandIsSound(proc[p])'
    BY <1>2, <1>5, <1>6, <1>7 DEF DeclareShutdown, CommandIsSound, Executed, Names
  <1>9. QED BY <1>3, <1>8, OwnStep DEF DeclareShutdown

LEMMA RecordSound ==
  ASSUME CommandInv, [Next]_vars, TypeOK', NEW p \in Process, Record(p)
  PROVE  CommandsAreSound'
  <1>1. TypeOK /\ Running(p) /\ proc[p] \in Command /\ proc[p].op \in Op
    BY RunningTyped DEF CommandInv, Record, At
  <1>2. CommandIsSound(proc[p])
    BY <1>1 DEF CommandInv, CommandsAreSound
  <1>3. \A q \in Process \ {p} : proc'[q] = proc[q] /\ effects' = effects
    BY <1>1 DEF Record, TypeOK, domain
  <1>4. proc'[p] = [proc[p] EXCEPT !.stage = "release", !.reply = results'[proc[p].op].position]
    BY <1>1 DEF Record, TypeOK
  <1>5. results'[proc[p].op] # None
    BY RecordedTyped, NoneAssumption
  <1>6. Names(results'[proc[p].op].position, proc[p].op)
    <2>1. ResultsNameEffects'
      BY ResultsStep
    <2>2. QED BY <1>1, <1>5, <2>1 DEF ResultsNameEffects, Names, Record, domain
  <1>7. UNCHANGED <<generation, effects>>
    BY DEF Record, domain
  <1>8. CommandIsSound(proc[p])'
    BY <1>1, <1>2, <1>4, <1>6, <1>7 DEF Command, CommandIsSound, Executed, Names
  <1>9. QED BY <1>3, <1>7, <1>8, OwnStep

LEMMA AdvanceSound ==
  ASSUME CommandInv, [Next]_vars, NEW a \in Actor, Advance(a)
  PROVE  CommandsAreSound'
  <1> SUFFICES ASSUME NEW q \in Process, proc'[q] # None PROVE CommandIsSound(proc[q])'
    BY DEF CommandsAreSound, Running
  <1>1. TypeOK
    BY DEF CommandInv
  <1>2. Running(q) /\ proc'[q] = [proc[q] EXCEPT !.fresh = FALSE]
    BY <1>1, DisturbedKeeps DEF Running, Advance
  <1>3. Caller[proc[q].op] # a /\ Caller[proc[q].op] \in Actor
    BY <1>1, <1>2, RunningTyped DEF Advance, CallerIsFree
  <1>4. generation'[Caller[proc[q].op]] = generation[Caller[proc[q].op]]
    BY <1>1, <1>3 DEF Advance, TypeOK
  <1>5. QED BY <1>2, <1>4, OthersStaySound

LEMMA SoundStep ==
  ASSUME CommandInv, [Next]_vars, TypeOK'
  PROVE  CommandsAreSound'
  <1>1. TypeOK
    BY DEF CommandInv
  <1>2. CASE \E op \in Op : Invoke(op)
    BY <1>2, AdmitSound DEF Invoke
  <1>3. ASSUME NEW p \in Process, Step(p) \/ Die(p) PROVE CommandsAreSound'
    BY <1>3, QuietSound, CommitSound, DeclareSound, RecordSound DEF Step
  <1>4. ASSUME NEW a \in Actor, Advance(a) PROVE CommandsAreSound'
    BY <1>4, AdvanceSound
  <1>5. CASE MoveContext \/ Lose \/ Regain \/ Tick \/ UNCHANGED vars
    <2> SUFFICES ASSUME NEW q \in Process, proc'[q] # None PROVE CommandIsSound(proc[q])'
      BY DEF CommandsAreSound, Running
    <2>1. UNCHANGED generation
      BY <1>5 DEF MoveContext, Lose, Regain, Tick, vars, domain
    <2>2. \/ proc'[q] = proc[q] /\ effects' = effects
          \/ proc'[q] = Disturbed(proc)[q]
      BY <1>5 DEF MoveContext, Lose, Regain, Tick, vars, domain
    <2>3. Running(q)
      BY <1>1, <2>2, DisturbedKeeps DEF Running
    <2>4. Disturbed(proc)[q] = [proc[q] EXCEPT !.fresh = FALSE]
      BY <1>1, <2>3, DisturbedKeeps DEF Running
    <2>5. QED BY <2>1, <2>2, <2>3, <2>4, OthersStaySound
  <1>6. QED BY <1>2, <1>3, <1>4, <1>5 DEF Next

-----------------------------------------------------------------------------
(* A shutdown and its rows.                                                *)

\* A generation a command was admitted under, and so one a result names, is not
\* later than the caller's.
LEMMA ShutdownStep ==
  ASSUME CommandInv, [Next]_vars, TypeOK'
  PROVE  ShutdownIsAtomic'
  <1> SUFFICES ASSUME NEW op \in Op, Kind[op] = "actor.shutdown"
      PROVE  /\ Executed(op)' <=> results'[op] # None
             /\ results'[op] # None =>
                  \/ generation'[Caller[op]] > results'[op].sender
                  \/ /\ generation'[Caller[op]] = results'[op].sender
                     /\ stopped'[Caller[op]] /\ session'[Caller[op]] = "stopped"
    BY DEF ShutdownIsAtomic
  <1> DEFINE a == Caller[op]
             ended == \/ generation[a] > results[op].sender
                      \/ /\ generation[a] = results[op].sender
                         /\ stopped[a] /\ session[a] = "stopped"
  <1>1. TypeOK /\ a \in Actor /\ (Executed(op) <=> results[op] # None)
        /\ (results[op] # None => ended)
    BY DEF CommandInv, ShutdownIsAtomic, Actor
  <1>2. CASE \E p \in Process : DeclareShutdown(p)
    <2>1. PICK p \in Process : DeclareShutdown(p)
      BY <1>2
    <2>2. Running(p) /\ proc[p].op \in Op /\ proc[p] \in Command
      BY <1>1, <2>1, RunningTyped DEF DeclareShutdown, At
    <2>3. CASE proc[p].op = op
      <3>1. Executed(op)'
        <4>1. Len(effects) \in Nat /\ ~Executed(op)
          BY <1>1, <2>1, <2>3 DEF DeclareShutdown, TypeOK
        <4>2. /\ DOMAIN effects' = 1..Len(effects) + 1
              /\ effects'[Len(effects) + 1].op = op
          BY <2>1, <2>3, <4>1, CommitAppends
        <4>3. QED BY <4>1, <4>2 DEF Executed
      <3>2. [input |-> proc[p].input, position |-> Len(effects'), sender |-> proc[p].sender]
              # None
        BY <2>1, <1>1, <2>2, <3>1, NoneAssumption, DeclaredTyped
      <3>3. results'[op] # None /\ results'[op].sender = proc[p].sender
        BY <1>1, <2>1, <2>3, <3>2 DEF DeclareShutdown, ShutdownRows, TypeOK
      <3>4. generation' = generation /\ proc[p].sender = generation[a]
        BY <2>1, <2>2, <2>3
        DEF CommandInv, CommandsAreSound, CommandIsSound, DeclareShutdown
      <3>5. stopped'[a] /\ session'[a] = "stopped"
        BY <1>1, <2>1, <2>3 DEF DeclareShutdown, ShutdownRows, TypeOK
      <3>6. QED BY <3>1, <3>3, <3>4, <3>5
    <2>4. CASE proc[p].op # op
      <3>1. results'[op] = results[op] /\ generation' = generation
        BY <1>1, <2>1, <2>2, <2>4 DEF DeclareShutdown, ShutdownRows, TypeOK
      <3>2. Executed(op)' <=> Executed(op)
        BY <2>1, <2>4, OthersStayUnexecuted
      <3>3. /\ stopped[a] => stopped'[a]
            /\ session[a] = "stopped" => session'[a] = "stopped"
        BY <1>1, <2>1 DEF DeclareShutdown, ShutdownRows, TypeOK
      <3>4. QED BY <1>1, <3>1, <3>2, <3>3
    <2>5. QED BY <2>3, <2>4
  <1>3. CASE \E p \in Process : Commit(p)
    <2>1. PICK p \in Process : Commit(p)
      BY <1>3
    <2>2. proc[p].op # op
      BY <2>1 DEF Commit
    <2>3. Executed(op)' <=> Executed(op)
      BY <2>1, <2>2, OthersStayUnexecuted
    <2>4. QED BY <1>1, <2>1, <2>3 DEF Commit
  <1>4. CASE \E p \in Process : Record(p)
    <2>1. PICK p \in Process : Record(p)
      BY <1>4
    <2>2. proc[p].op # op
      BY <2>1 DEF CommandInv, CommandsAreSound, CommandIsSound, Record, At
    <2>3. results'[op] = results[op]
      BY <1>1, <2>1, <2>2 DEF Record, TypeOK
    <2>4. QED BY <1>1, <2>1, <2>3 DEF Record, Executed, domain
  <1>5. CASE \E b \in Actor : Advance(b)
    <2>1. PICK b \in Actor : Advance(b)
      BY <1>5
    <2>2. /\ UNCHANGED <<effects, results>>
          /\ a # b => generation'[a] = generation[a] /\ stopped'[a] = stopped[a]
                      /\ session'[a] = session[a]
          /\ a = b => generation'[a] = generation[a] + 1
      BY <1>1, <2>1 DEF Advance, TypeOK
    <2>3. results[op] # None => results[op].sender \in Nat /\ generation[a] \in Nat
      BY SMTT(40), <1>1, CommandAssumption DEF TypeOK, Result
    <2>4. QED BY <1>1, <2>2, <2>3 DEF Executed
  <1>6. CASE UNCHANGED <<effects, results, generation, stopped, session>>
    BY <1>1, <1>6 DEF Executed
  <1>7. QED
    BY <1>2, <1>3, <1>4, <1>5, <1>6
    DEF Next, Invoke, Admit, Step, Lookup, ClaimOp, Prepare, Load, Retry, StopBackend, Wake,
        WakeAgain, Release, Die, Lose, Regain, MoveContext, Tick, vars, domain

-----------------------------------------------------------------------------
(* The theorems.                                                           *)

LEMMA InitInv == Init => CommandInv
  <1> SUFFICES ASSUME Init PROVE CommandInv
    OBVIOUS
  <1>1. DOMAIN effects = {}
    BY DEF Init
  <1>2. QED
    BY <1>1, InitTyped
    DEF Init, CommandInv, EffectsAreUnique, ResultsNameEffects, AnswersNameEffects,
        CommandsAreSound, ShutdownIsAtomic, Running, Executed

LEMMA StepInv == CommandInv /\ [Next]_vars => CommandInv'
  BY StepTyped, UniqueStep, ResultsStep, AnswersStep, SoundStep, ShutdownStep DEF CommandInv

\* The inductive invariant holds of every reachable state (Commands.Step, its
\* environment and the deaths of its processes).
THEOREM CommandsKeepInv == Spec => []CommandInv
  BY InitInv, StepInv, PTL DEF Spec

\* Every operation keeps the store, its rows and its running commands well typed, for
\* any processes, operation ids, callers and bounds (store.rs, engine.rs).
THEOREM CommandTypes == Spec => []TypeOK
  BY CommandsKeepInv, PTL DEF CommandInv

\* A shutdown has its effect exactly when it has its result, and the generation it
\* names is over or stopped with its session (store.rs:2274).
THEOREM ShutdownAtomicity == Spec => []ShutdownIsAtomic
  BY CommandsKeepInv, PTL DEF CommandInv

\* All answers ever given under one operation id are the same: those of its one effect,
\* whichever process gave them, however often the caller asked.
AnswersAgree ==
  \A a, b \in answers : a.op = b.op => a.position = b.position

\* Two callers, or two tries of one, never get different answers (store.rs idempotent,
\* engine.rs actor.shutdown).
THEOREM OneAnswer == Spec => []AnswersAgree
  <1>1. CommandInv => AnswersAgree
    BY DEF CommandInv, AnswersNameEffects, EffectsAreUnique, AnswersAgree, Names
  <1>2. QED BY <1>1, CommandsKeepInv, PTL

-----------------------------------------------------------------------------
(* Commands implements CommandService.                                     *)

\* What Commands means by the history and the answers of the service.
History == [i \in DOMAIN effects |-> [op |-> effects[i].op, saw |-> effects[i].saw]]
Answer == [op \in Op |-> IF results[op] = None THEN None ELSE results[op].position]

LEMMA HistoryIsASequence ==
  ASSUME TypeOK
  PROVE  /\ History \in Seq([op : Op, saw : Nat])
         /\ Len(History) = Len(effects)
         /\ DOMAIN History = DOMAIN effects /\ DOMAIN effects = 1..Len(effects)
         /\ Len(effects) \in Nat
  <1>1. /\ Len(effects) \in Nat /\ DOMAIN effects = 1..Len(effects)
        /\ \A i \in DOMAIN effects : effects[i] \in Effect
    BY DEF TypeOK
  <1>2. History \in [1..Len(effects) -> [op : Op, saw : Nat]]
    BY <1>1 DEF History, Effect
  <1>3. History \in Seq([op : Op, saw : Nat])
    BY ZenonT(40), <1>1, <1>2, SeqDef
  <1>4. DOMAIN History = 1..Len(effects)
    BY <1>2
  <1>5. Len(History) = Len(effects)
    BY <1>1, <1>3, <1>4
  <1>6. QED BY <1>1, <1>3, <1>4, <1>5

LEMMA HistoryAppends ==
  ASSUME CommandInv, TypeOK', NEW p \in Process, Commit(p) \/ DeclareShutdown(p),
         ~Executed(proc[p].op)
  PROVE  History' = Append(History, [op |-> proc[p].op, saw |-> Len(History)])
  <1> DEFINE e == [op |-> proc[p].op, saw |-> Len(effects), envelope |-> proc[p].envelope]
             s == [op |-> proc[p].op, saw |-> Len(effects)]
             n == Len(effects)
  <1>1. TypeOK /\ proc[p].op \in Op
    BY RunningTyped DEF CommandInv, Commit, DeclareShutdown, At
  <1>2. /\ n \in Nat /\ Len(History) = n /\ History \in Seq([op : Op, saw : Nat])
        /\ DOMAIN History = 1..n /\ DOMAIN effects = 1..n
    BY <1>1, HistoryIsASequence
  <1>3. /\ effects' = Append(effects, e) /\ DOMAIN effects' = 1..n + 1
        /\ \A i \in 1..n : effects'[i] = effects[i]
    BY <1>2, CommitAppends
  <1>4. effects'[n + 1] = e
    BY <1>1, <1>2, <1>3 DEF TypeOK
  <1>5. s \in [op : Op, saw : Nat]
    BY <1>1, <1>2
  <1>6. /\ DOMAIN Append(History, s) = 1..n + 1
        /\ \A i \in 1..n : Append(History, s)[i] = History[i]
        /\ Append(History, s)[n + 1] = s
        /\ Append(History, s) = [i \in 1..n + 1 |-> Append(History, s)[i]]
    BY <1>2, <1>5
  <1>7. History' = [i \in 1..n + 1 |-> [op |-> effects'[i].op, saw |-> effects'[i].saw]]
    BY <1>3 DEF History
  <1>8. \A i \in 1..n + 1 : [op |-> effects'[i].op, saw |-> effects'[i].saw] = Append(History, s)[i]
    <2>1. \A i \in 1..n : [op |-> effects'[i].op, saw |-> effects'[i].saw] = Append(History, s)[i]
      BY <1>2, <1>3, <1>6 DEF History
    <2>2. [op |-> effects'[n + 1].op, saw |-> effects'[n + 1].saw] = Append(History, s)[n + 1]
      BY <1>4, <1>6
    <2>3. \A i \in 1..n + 1 : i \in 1..n \/ i = n + 1
      BY <1>2
    <2>4. QED BY <2>1, <2>2, <2>3
  <1>9. History' = Append(History, s)
    BY <1>6, <1>7, <1>8
  <1>10. QED BY <1>2, <1>9

LEMMA InitImplements == Init => Service!Init
  <1> SUFFICES ASSUME Init PROVE Service!Init
    OBVIOUS
  <1>1. effects = <<>> /\ results = [op \in Op |-> None]
    BY DEF Init
  <1>2. History = <<>>
    BY <1>1 DEF History
  <1>3. Answer = [op \in Op |-> None]
    BY <1>1 DEF Answer
  <1>4. QED BY <1>2, <1>3 DEF Service!Init, History, Answer

LEMMA StepImplements ==
  ASSUME CommandInv, CommandInv', [Next]_vars
  PROVE  [Service!Next]_Service!serviceVars
  <1>1. TypeOK /\ TypeOK'
    BY DEF CommandInv
  <1>2. CASE UNCHANGED <<effects, results>>
    BY <1>2 DEF Service!serviceVars
  <1>3. ASSUME NEW p \in Process, Commit(p)
        PROVE  [Service!Next]_Service!serviceVars
    <2>1. PICK op \in Op : op = proc[p].op
      BY <1>1, <1>3, RunningTyped DEF Commit, At
    <2>2. results' = results
      BY <1>3 DEF Commit
    <2>3. CASE Executed(op)
      BY <1>3, <2>1, <2>2, <2>3, CommitAppends DEF Service!serviceVars
    <2>4. CASE ~Executed(op)
      <3>1. History' = Append(History, [op |-> op, saw |-> Len(History)])
        BY <1>1, <1>3, <2>1, <2>4, HistoryAppends
      <3>2. ~\E i \in DOMAIN History : History[i].op = op
        BY <2>4 DEF Executed, History
      <3>3. Answer' = Answer
        BY <2>2 DEF Answer
      <3>4. Service!Execute(op)
        BY <3>1, <3>2, <3>3 DEF Service!Execute, Service!Executed, History, Answer
      <3>5. QED BY <3>4 DEF Service!Next
    <2>5. QED BY <2>3, <2>4
  <1>4. ASSUME NEW p \in Process, DeclareShutdown(p)
        PROVE  [Service!Next]_Service!serviceVars
    <2>0. PICK op \in Op : op = proc[p].op
      BY <1>1, <1>4, RunningTyped DEF DeclareShutdown, At
    <2>1. results[op] = None /\ ~Executed(op)
      BY <1>4, <2>0 DEF CommandInv, ShutdownIsAtomic, DeclareShutdown
    <2>2. History' = Append(History, [op |-> op, saw |-> Len(History)])
      BY <1>1, <1>4, <2>0, <2>1, HistoryAppends
    <2>3. ~\E i \in DOMAIN History : History[i].op = op
      BY <2>1 DEF Executed, History
    <2>4. Len(History') = Len(effects')
      <3>1. Len(History) = Len(effects) /\ History \in Seq([op : Op, saw : Nat])
        BY <1>1, HistoryIsASequence
      <3>2. Len(effects') = Len(effects) + 1
        BY <1>4, <2>0, <2>1, CommitAppends
      <3>3. QED BY <2>2, <3>1, <3>2
    <2>5. results' = [results EXCEPT ![op] =
             [input |-> proc[p].input, position |-> Len(effects'), sender |-> proc[p].sender]]
      BY <1>4, <2>0 DEF DeclareShutdown, ShutdownRows
    <2>6. [input |-> proc[p].input, position |-> Len(effects'), sender |-> proc[p].sender] # None
      BY <1>4, DeclaredTyped, NoneAssumption
    <2>7. Answer' = [Answer EXCEPT ![op] = Len(History')]
      BY <1>1, <2>1, <2>4, <2>5, <2>6 DEF Answer, TypeOK
    <2>8. Answer[op] = None
      BY <2>1 DEF Answer
    <2>9. Service!ExecuteAndSettle(op)
      BY <2>2, <2>3, <2>7, <2>8 DEF Service!ExecuteAndSettle, Service!Executed, History, Answer
    <2>10. QED BY <2>9 DEF Service!Next
  <1>5. ASSUME NEW p \in Process, Record(p)
        PROVE  [Service!Next]_Service!serviceVars
    <2>0. PICK op \in Op : op = proc[p].op
      BY <1>1, <1>5, RunningTyped DEF Record, At
    <2>1. effects' = effects /\ History' = History
      BY <1>5 DEF Record, domain, History
    <2>2. CASE results' = results
      BY <2>1, <2>2 DEF Service!serviceVars
    <2>3. CASE results' # results
      <3>1. results[op] = None
        BY <1>5, <2>0, <2>3 DEF Record
      <3>2. /\ results' = [results EXCEPT ![op] = [input |-> proc[p].input,
                              position |-> Position(op), sender |-> proc[p].sender]]
            /\ results'[op] # None
        BY <1>5, <2>0, <3>1, RecordedTyped, NoneAssumption DEF Record
      <3>3. Executed(op)
        BY <1>5, <2>0 DEF CommandInv, CommandsAreSound, CommandIsSound, Record, At
      <3>4. Position(op) \in DOMAIN History /\ History[Position(op)].op = op
        BY <3>3, PositionNames DEF Names, History
      <3>5. Answer' = [Answer EXCEPT ![op] = Position(op)]
        BY <1>1, <2>1, <3>2 DEF Answer, TypeOK
      <3>6. Answer[op] = None
        BY <2>1, <3>1 DEF Answer
      <3>7. Service!Settle(op)
        BY <2>1, <3>4, <3>5, <3>6 DEF Service!Settle, History, Answer
      <3>8. QED BY <3>7 DEF Service!Next
    <2>4. QED BY <2>2, <2>3
  <1>6. QED BY <1>2, <1>3, <1>4, <1>5, HistoryStep

\* Whatever processes run, race, repeat or die, the effects of the commands form one
\* serial history with at most one effect and one unchanging answer per operation id
\* (architecture.md:71, store.rs mutate and idempotent operations).
THEOREM CommandsImplementService == Spec => ImplementsService
  <1>1. CommandInv /\ CommandInv' /\ [Next]_vars => [Service!Next]_Service!serviceVars
    BY StepImplements
  <1>2. QED
    BY <1>1, InitImplements, CommandsKeepInv, PTL DEF Spec, ImplementsService, Service!Spec
=============================================================================
