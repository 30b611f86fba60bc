--------------------------- MODULE AuthorityProofs --------------------------
(*****************************************************************************)
(* Who runs as the Primary is the Primary, a bound caller can come back and  *)
(* nobody waits in a circle (Bindings), whatever the number of invocations,  *)
(* callers, generations and deaths.  The first two are but for the deaths and*)
(* the read that BindingNext leaves out; the third is of every step.         *)
(*                                                                           *)
(* The first part is about the locks: what an invocation holds at its stage  *)
(* and who cannot be at work beside it.  The second is about the tables: it  *)
(* goes through the ways in which a step changes them, and says of every     *)
(* other invocation either that its locks keep it from there or that what it *)
(* has found out still holds.                                                *)
(*****************************************************************************)
EXTENDS Bindings, TLAPS

Speaking == {"beat", "session", "write", "bind", "run", "row", "actor"}
Authenticated == {"expire", "recover", "authenticate"}
ActorLocks(i) == {l \in i.locks : l.kind = "actor"}

\* What an invocation holds at the stages where it waits.  A caller without a binding
\* locks no actor but the one it stops, and bindings are never dropped.
HoldsInOrder(i, bound) ==
  /\ i.stage = "workspace" => i.workspace = "none"
  /\ i.stage \in {"workspace", "primary"} => i.primary = "none"
  /\ i.stage \in {"workspace", "primary", "caller"} => i.locks = {}
  /\ i.stage \in {"actors", "adopt"} => ActorLocks(i) = {}
  /\ /\ i.stage \in {"fence", "expire", "bootstrap"} /\ i.op # "stop"
     /\ bound[i.caller] = Nothing
     => ActorLocks(i) = {}

\* What its stage says of its operation, its caller's binding and the generation that
\* it speaks for.
StageIsEarned(i, bound) ==
  /\ i.stage = "bootstrap" => i.op = "bootstrap"
  /\ i.stage \in {"recover", "authenticate"} => i.op # "bootstrap"
  /\ i.stage \in Authenticated /\ i.op # "bootstrap" => bound[i.caller] # Nothing
  /\ i.stage \in Speaking \cup {"adopt"} => i.ref # Nothing
  /\ i.stage = "activate" => i.of \in Human
  /\ i.op = "bootstrap" => i.of \in Human \cup {Nothing}
  /\ i.op = "stop" => i.of \in Actors

Sound(i, bound) == i \in Invocation /\ HoldsInOrder(i, bound) /\ StageIsEarned(i, bound)

TablesTypeOK ==
  /\ actor \in [Actors -> ActorState]
  /\ active \in Human \cup {Nothing}
  /\ binding \in [Callers -> Ref \cup {Nothing}]
  /\ row \in [Actors -> Row]
CountersTypeOK ==
  lapses \in 0..MaxLapses /\ issued \in 0..MaxInvoked /\ deaths \in 0..MaxDeaths
InvokedIsSound ==
  /\ invoked \in [Invoker -> Invocation \cup {Nothing}]
  /\ \A p \in Invoker : invoked[p] # Nothing => Sound(invoked[p], binding)

BindingInv == TablesTypeOK /\ CountersTypeOK /\ InvokedIsSound

-----------------------------------------------------------------------------
(* How an invocation changes.                                              *)

\* Two records that differ in the stage alone, or in one more field.
SameButStage(i, w) ==
  /\ i \in Invocation /\ w \in Invocation
  /\ w.caller = i.caller /\ w.op = i.op /\ w.workspace = i.workspace
  /\ w.primary = i.primary /\ w.locks = i.locks

LEMMA NewStage ==
  ASSUME NEW i \in Invocation, NEW s \in BindingStage
  PROVE  LET w == [i EXCEPT !.stage = s] IN
         SameButStage(i, w) /\ w.stage = s /\ w.of = i.of /\ w.ref = i.ref
  BY DEF Invocation, SameButStage

LEMMA NewRef ==
  ASSUME NEW i \in Invocation, NEW s \in BindingStage, NEW r \in Ref
  PROVE  LET w == [i EXCEPT !.stage = s, !.ref = r] IN
         SameButStage(i, w) /\ w.stage = s /\ w.of = i.of /\ w.ref = r
  BY DEF Invocation, SameButStage

LEMMA NewActor ==
  ASSUME NEW i \in Invocation, NEW s \in BindingStage, NEW a \in Actors
  PROVE  LET w == [i EXCEPT !.stage = s, !.of = a] IN
         SameButStage(i, w) /\ w.stage = s /\ w.of = a /\ w.ref = i.ref
  BY DEF Invocation, SameButStage

\* What is sound stays sound when callers are bound, and when its row is overtaken.
LEMMA SoundStays ==
  ASSUME NEW i, NEW b, NEW d, Sound(i, b),
         \A c \in Callers : b[c] # Nothing => d[c] # Nothing
  PROVE  Sound(i, d) /\ Sound([i EXCEPT !.fresh = FALSE], d)
  <1> DEFINE w == [i EXCEPT !.fresh = FALSE]
  <1>1. i \in Invocation /\ i.caller \in Callers
    BY DEF Sound, Invocation
  <1>2. Sound(i, d)
    BY <1>1 DEF Sound, HoldsInOrder, StageIsEarned
  <1>3. /\ w \in Invocation /\ w.stage = i.stage /\ w.caller = i.caller /\ w.op = i.op
        /\ w.of = i.of /\ w.workspace = i.workspace /\ w.primary = i.primary
        /\ w.locks = i.locks /\ w.ref = i.ref
    BY <1>1 DEF Invocation
  <1>4. Sound(w, d)
    <2> HIDE DEF w
    <2>1. ActorLocks(w) = ActorLocks(i)
      BY <1>3 DEF ActorLocks
    <2>2. HoldsInOrder(w, d)
      BY <1>2, <1>3, <2>1 DEF Sound, HoldsInOrder
    <2>3. StageIsEarned(w, d)
      BY <1>2, <1>3 DEF Sound, StageIsEarned
    <2>4. QED BY <1>3, <2>2, <2>3 DEF Sound
  <1>5. QED BY <1>2, <1>4

\* One invocation changes, and it may overtake others.
LEMMA OthersStay ==
  ASSUME InvokedIsSound, NEW p \in Invoker, NEW w,
         w = Nothing \/ Sound(w, binding'),
         \A c \in Callers : binding[c] # Nothing => binding'[c] # Nothing,
         Becomes(p, w) \/ \E a \in Actors : Writes(p, a, w)
  PROVE  InvokedIsSound'
  <1>1. w \in Invocation \cup {Nothing}
    BY DEF Sound
  <1>2. \A q \in Invoker : invoked[q] # Nothing =>
          /\ Sound(invoked[q], binding) /\ Sound(invoked[q], binding')
          /\ Sound([invoked[q] EXCEPT !.fresh = FALSE], binding')
    BY SoundStays DEF InvokedIsSound
  <1>3. \A q \in Invoker : invoked[q] # Nothing =>
          /\ invoked[q] \in Invocation
          /\ [invoked[q] EXCEPT !.fresh = FALSE] \in Invocation
    BY <1>2 DEF Sound
  <1> DEFINE Moved ==
        /\ invoked' \in [Invoker -> Invocation \cup {Nothing}] /\ invoked'[p] = w
        /\ \A q \in Invoker \ {p} :
             \/ invoked'[q] = invoked[q]
             \/ invoked[q] # Nothing /\ invoked'[q] = [invoked[q] EXCEPT !.fresh = FALSE]
  <1>4. Moved
    <2>1. CASE Becomes(p, w)
      BY <1>1, <2>1 DEF Becomes, InvokedIsSound
    <2>2. ASSUME NEW a \in Actors, Writes(p, a, w)
          PROVE  Moved
      BY <1>1, <1>3, <2>2 DEF Writes, InvokedIsSound
    <2>3. QED BY <2>1, <2>2
  <1>5. ASSUME NEW q \in Invoker, invoked'[q] # Nothing
        PROVE  Sound(invoked'[q], binding')
    BY <1>2, <1>4, <1>5
  <1>6. QED BY <1>4, <1>5 DEF InvokedIsSound

LEMMA Leaves ==
  ASSUME InvokedIsSound, NEW p \in Invoker, Leave(p), UNCHANGED binding
  PROVE  InvokedIsSound'
  BY OthersStay DEF Leave

\* Past its locks an invocation needs the generation it speaks for, and no more.
LateStage == {"beat", "session", "write", "activate", "bind", "run", "row", "actor",
              "dispatched"}

LEMMA LateIsSound ==
  ASSUME NEW i, NEW w, NEW b, NEW d, Sound(i, b), SameButStage(i, w), w.stage \in LateStage,
         w.ref # Nothing \/ w.stage \in {"activate", "dispatched"},
         (w.stage # "activate" /\ w.of = i.of) \/ w.of \in Human
  PROVE  Sound(w, d)
  <1>1. HoldsInOrder(w, d)
    BY DEF LateStage, HoldsInOrder
  <1>2. StageIsEarned(w, d)
    BY DEF LateStage, StageIsEarned, SameButStage, Sound, Speaking, Authenticated, Actors, Callers
  <1>3. QED BY <1>1, <1>2 DEF Sound, SameButStage

LEMMA RunningIsSound ==
  ASSUME InvokedIsSound, NEW p \in Invoker, NEW s, InStage(p, s)
  PROVE  /\ invoked[p] # Nothing /\ invoked[p].stage = s
         /\ invoked[p] \in Invocation /\ Sound(invoked[p], binding)
  BY DEF InStage, InvokedIsSound, Sound

\* An invocation that goes to a later stage, its generation known.
LEMMA GoesToLate ==
  ASSUME InvokedIsSound, NEW p \in Invoker, invoked[p] # Nothing, invoked[p].ref # Nothing,
         NEW s \in LateStage \ {"activate"}, Goto(p, s),
         \A c \in Callers : binding[c] # Nothing => binding'[c] # Nothing
  PROVE  InvokedIsSound'
  <1> DEFINE w == [invoked[p] EXCEPT !.stage = s]
  <1>1. Sound(invoked[p], binding) /\ invoked[p] \in Invocation
    BY DEF InvokedIsSound, Sound
  <1>2. Becomes(p, w)
    BY DEF Goto
  <1>3. SameButStage(invoked[p], w) /\ w.stage = s /\ w.of = invoked[p].of
        /\ w.ref = invoked[p].ref
    <2>1. s \in BindingStage
      BY DEF LateStage, BindingStage
    <2>2. QED BY <1>1, <2>1, NewStage
  <1> HIDE DEF w
  <1>4. Sound(w, binding')
    BY <1>1, <1>3, LateIsSound
  <1>5. QED BY <1>2, <1>4, OthersStay

-----------------------------------------------------------------------------
(* Admission.                                                              *)

LEMMA EnterKeeps ==
  ASSUME BindingInv, NEW p \in Invoker, NEW c \in Callers, NEW op \in Operation,
         NEW of \in Actors \cup {Nothing}, Enter(p, c, op, of)
  PROVE  BindingInv'
  <1> DEFINE w == [stage |-> "workspace", caller |-> c, op |-> op, of |-> of,
                   workspace |-> "none", primary |-> "none", wants |-> "none",
                   expires |-> FALSE, locks |-> {}, ref |-> Nothing, fresh |-> TRUE]
  <1>1. Becomes(p, w) /\ UNCHANGED <<actor, active, binding, row, lapses, deaths>>
        /\ issued' = issued + 1 /\ issued < MaxInvoked
    BY DEF Enter, tables
  <1>2. w \in Invocation
    BY DEF Invocation, BindingStage, Mode, FileLock
  <1>3. HoldsInOrder(w, binding')
    BY DEF HoldsInOrder, ActorLocks
  <1>4. StageIsEarned(w, binding')
    BY DEF StageIsEarned, Enter, Speaking, Authenticated
  <1> HIDE DEF w
  <1>5. InvokedIsSound'
    BY <1>1, <1>2, <1>3, <1>4, OthersStay DEF BindingInv, Sound
  <1>6. CountersTypeOK'
    BY <1>1, BindingAssumption DEF BindingInv, CountersTypeOK
  <1>7. QED BY <1>1, <1>5, <1>6 DEF BindingInv, TablesTypeOK

LEMMA LockWorkspaceKeeps ==
  ASSUME BindingInv, NEW p \in Invoker, LockWorkspace(p)
  PROVE  BindingInv'
  <1> DEFINE i == invoked[p]
             mode == PrimaryMode(i.caller, i.op)
             w == [i EXCEPT !.workspace = WorkspaceMode(i.op), !.wants = mode.mode,
                            !.expires = mode.expires, !.stage = "primary"]
  <1>1. UNCHANGED <<actor, active, binding, row, lapses, issued, deaths>> /\ Becomes(p, w)
    BY DEF LockWorkspace, tables
  <1>2. i \in Invocation /\ Sound(i, binding) /\ i.stage = "workspace"
    BY RunningIsSound DEF BindingInv, LockWorkspace
  <1>3. WorkspaceMode(i.op) \in Mode /\ mode.mode \in Mode /\ mode.expires \in BOOLEAN
    BY DEF WorkspaceMode, PrimaryMode, Mode
  <1> HIDE DEF mode
  <1>4. w \in Invocation /\ w.stage = "primary" /\ w.primary = i.primary /\ w.locks = i.locks
        /\ w.op = i.op /\ w.of = i.of
    BY <1>2, <1>3 DEF Invocation, BindingStage
  <1> HIDE DEF w
  <1>5. HoldsInOrder(w, binding')
    BY <1>2, <1>4 DEF HoldsInOrder, Sound
  <1>6. StageIsEarned(w, binding')
    BY <1>2, <1>4 DEF StageIsEarned, Sound, Speaking, Authenticated
  <1>7. InvokedIsSound'
    BY <1>1, <1>4, <1>5, <1>6, OthersStay DEF BindingInv, Sound
  <1>8. QED BY <1>1, <1>7 DEF BindingInv, TablesTypeOK, CountersTypeOK

LEMMA LockPrimaryKeeps ==
  ASSUME BindingInv, NEW p \in Invoker, LockPrimary(p)
  PROVE  BindingInv'
  <1> DEFINE i == invoked[p]
             w == [i EXCEPT !.primary = i.wants, !.stage = "caller"]
  <1>1. UNCHANGED <<actor, active, binding, row, lapses, issued, deaths>> /\ Becomes(p, w)
    BY DEF LockPrimary, tables
  <1>2. i \in Invocation /\ Sound(i, binding) /\ i.stage = "primary"
    BY RunningIsSound DEF BindingInv, LockPrimary
  <1>3. w \in Invocation /\ w.stage = "caller" /\ w.locks = i.locks /\ w.op = i.op
        /\ w.of = i.of
    BY <1>2 DEF Invocation, BindingStage
  <1> HIDE DEF w
  <1>4. HoldsInOrder(w, binding')
    BY <1>2, <1>3 DEF HoldsInOrder, Sound
  <1>5. StageIsEarned(w, binding')
    BY <1>2, <1>3 DEF StageIsEarned, Sound, Speaking, Authenticated
  <1>6. InvokedIsSound'
    BY <1>1, <1>3, <1>4, <1>5, OthersStay DEF BindingInv, Sound
  <1>7. QED BY <1>1, <1>6 DEF BindingInv, TablesTypeOK, CountersTypeOK

\* What is locked is locked for the caller, or for actors.
LEMMA WantedLocks ==
  ASSUME BindingInv, NEW p \in Invoker, invoked[p] # Nothing
  PROVE  /\ LocksWanted(p) \in SUBSET FileLock
         /\ invoked[p].stage = "caller" => \A l \in LocksWanted(p) : l.kind = "caller"
         /\ invoked[p].stage \in {"actors", "adopt"} => \A l \in LocksWanted(p) : l.kind = "actor"
         /\ invoked[p].stage \notin {"caller", "actors", "adopt"} => LocksWanted(p) = {}
         /\ /\ invoked[p].stage = "actors" /\ invoked[p].op # "stop"
            /\ binding[invoked[p].caller] = Nothing
            => LocksWanted(p) = {}
  <1> DEFINE i == invoked[p]
  <1>1. i \in Invocation /\ Sound(i, binding)
    BY DEF BindingInv, InvokedIsSound, Sound
  <1>2. /\ i.caller \in Callers
        /\ binding[i.caller] # Nothing => binding[i.caller] \in Ref
        /\ i.op = "stop" => i.of \in Actors
        /\ i.stage = "adopt" => i.ref \in Ref
    BY <1>1 DEF BindingInv, TablesTypeOK, Sound, StageIsEarned, Invocation
  <1>3. CASE i.stage = "caller"
    BY <1>2, <1>3 DEF LocksWanted, CallerLock, FileLock
  <1>4. CASE i.stage = "actors"
    <2>1. \A l \in LocksWanted(p) : \E a \in Actors : l = ActorLock(a)
      BY <1>2, <1>4 DEF LocksWanted, Ref
    <2>2. i.op # "stop" /\ binding[i.caller] = Nothing => LocksWanted(p) = {}
      BY <1>4 DEF LocksWanted
    <2>3. QED BY <1>4, <2>1, <2>2 DEF ActorLock, FileLock, Actors
  <1>5. CASE i.stage = "adopt"
    BY <1>2, <1>5 DEF LocksWanted, ActorLock, FileLock, Ref, Actors
  <1>6. CASE i.stage \notin {"caller", "actors", "adopt"}
    BY <1>6 DEF LocksWanted
  <1>7. QED BY <1>3, <1>4, <1>5, <1>6

LEMMA TakesLocks ==
  ASSUME BindingInv, NEW p \in Invoker, invoked[p] # Nothing, NEW next \in BindingStage
  PROVE  LET i == invoked[p]
             w == [i EXCEPT !.locks = @ \cup LocksWanted(p), !.stage = next]
         IN /\ i \in Invocation /\ Sound(i, binding)
            /\ w \in Invocation /\ w.stage = next /\ w.op = i.op /\ w.of = i.of
            /\ w.ref = i.ref /\ w.caller = i.caller /\ w.locks = i.locks \cup LocksWanted(p)
  <1>1. invoked[p] \in Invocation /\ Sound(invoked[p], binding)
    BY DEF BindingInv, InvokedIsSound, Sound
  <1>2. LocksWanted(p) \in SUBSET FileLock
    BY WantedLocks
  <1>3. QED BY <1>1, <1>2 DEF Invocation

LEMMA LockCallerKeeps ==
  ASSUME BindingInv, NEW p \in Invoker, LockCaller(p)
  PROVE  BindingInv'
  <1> DEFINE i == invoked[p]
             w == [i EXCEPT !.locks = @ \cup LocksWanted(p), !.stage = "actors"]
  <1>1. UNCHANGED <<actor, active, binding, row, lapses, issued, deaths>> /\ Becomes(p, w)
    BY DEF LockCaller, tables, TakeLocks
  <1>2. i # Nothing /\ i.stage = "caller"
    BY DEF LockCaller, InStage
  <1>3. /\ i \in Invocation /\ Sound(i, binding)
        /\ w \in Invocation /\ w.stage = "actors" /\ w.op = i.op /\ w.of = i.of
        /\ w.locks = i.locks \cup LocksWanted(p)
    <2>1. "actors" \in BindingStage
      BY DEF BindingStage
    <2>2. QED BY <1>2, <2>1, TakesLocks
  <1> HIDE DEF w
  <1>4. ActorLocks(w) = {}
    BY <1>2, <1>3, WantedLocks DEF ActorLocks, Sound, HoldsInOrder
  <1>5. HoldsInOrder(w, binding') /\ StageIsEarned(w, binding')
    BY <1>2, <1>3, <1>4 DEF HoldsInOrder, StageIsEarned, Sound, Speaking, Authenticated
  <1>6. InvokedIsSound'
    BY <1>1, <1>3, <1>5, OthersStay DEF BindingInv, Sound
  <1>7. QED BY <1>1, <1>6 DEF BindingInv, TablesTypeOK, CountersTypeOK

LEMMA LockActorsKeeps ==
  ASSUME BindingInv, NEW p \in Invoker, LockActors(p)
  PROVE  BindingInv'
  <1> DEFINE i == invoked[p]
             w == [i EXCEPT !.locks = @ \cup LocksWanted(p), !.stage = "fence"]
  <1>1. UNCHANGED <<actor, active, binding, row, lapses, issued, deaths>> /\ Becomes(p, w)
    BY DEF LockActors, tables, TakeLocks
  <1>2. i # Nothing /\ i.stage = "actors"
    BY DEF LockActors, InStage
  <1>3. /\ i \in Invocation /\ Sound(i, binding)
        /\ w \in Invocation /\ w.stage = "fence" /\ w.op = i.op /\ w.of = i.of
        /\ w.caller = i.caller /\ w.locks = i.locks \cup LocksWanted(p)
    <2>1. "fence" \in BindingStage
      BY DEF BindingStage
    <2>2. QED BY <1>2, <2>1, TakesLocks
  <1> HIDE DEF w
  <1>4. w.op # "stop" /\ binding[w.caller] = Nothing => ActorLocks(w) = {}
    BY <1>2, <1>3, WantedLocks DEF ActorLocks, Sound, HoldsInOrder
  <1>5. HoldsInOrder(w, binding') /\ StageIsEarned(w, binding')
    BY <1>1, <1>2, <1>3, <1>4 DEF HoldsInOrder, StageIsEarned, Sound, Speaking, Authenticated
  <1>6. InvokedIsSound'
    BY <1>1, <1>3, <1>5, OthersStay DEF BindingInv, Sound
  <1>7. QED BY <1>1, <1>6 DEF BindingInv, TablesTypeOK, CountersTypeOK

LEMMA AdoptKeeps ==
  ASSUME BindingInv, NEW p \in Invoker, Adopt(p)
  PROVE  BindingInv'
  <1> DEFINE i == invoked[p]
             w == [i EXCEPT !.locks = @ \cup LocksWanted(p), !.stage = "bind"]
  <1>1. UNCHANGED <<actor, active, binding, row, lapses, issued, deaths>> /\ Becomes(p, w)
    BY DEF Adopt, tables, TakeLocks
  <1>2. i # Nothing /\ i.stage = "adopt"
    BY DEF Adopt, InStage
  <1>3. /\ i \in Invocation /\ Sound(i, binding)
        /\ w \in Invocation /\ w.stage = "bind" /\ w.op = i.op /\ w.of = i.of
        /\ w.ref = i.ref
    <2>1. "bind" \in BindingStage
      BY DEF BindingStage
    <2>2. QED BY <1>2, <2>1, TakesLocks
  <1> HIDE DEF w
  <1>4. HoldsInOrder(w, binding') /\ StageIsEarned(w, binding')
    BY <1>2, <1>3 DEF HoldsInOrder, StageIsEarned, Sound, Speaking, Authenticated
  <1>5. InvokedIsSound'
    BY <1>1, <1>3, <1>4, OthersStay DEF BindingInv, Sound
  <1>6. QED BY <1>1, <1>5 DEF BindingInv, TablesTypeOK, CountersTypeOK

-----------------------------------------------------------------------------
(* The fence, the leases that ran out, and the session row.                *)

LEMMA FenceKeeps ==
  ASSUME BindingInv, NEW p \in Invoker, Fence(p)
  PROVE  BindingInv'
  <1> DEFINE i == invoked[p]
             w(s) == [i EXCEPT !.stage = s]
  <1>1. UNCHANGED <<actor, active, binding, row, lapses, issued, deaths>>
    BY DEF Fence, tables
  <1>2. i # Nothing /\ i.stage = "fence" /\ i \in Invocation /\ Sound(i, binding)
    BY RunningIsSound DEF Fence, BindingInv
  <1>3. \/ Leave(p)
        \/ i.op = "bootstrap" /\ Becomes(p, w("bootstrap"))
        \/ (i.op = "bootstrap" \/ binding[i.caller] # Nothing) /\ Becomes(p, w("expire"))
    BY DEF Fence, Goto, NeedsAuthentication, FenceOf
  <1>4. ASSUME NEW s \in {"bootstrap", "expire"}
        PROVE  /\ SameButStage(i, w(s)) /\ w(s).stage = s /\ w(s).of = i.of
               /\ w(s).ref = i.ref
    <2>1. s \in BindingStage
      BY DEF BindingStage
    <2>2. QED BY <1>2, <2>1, NewStage
  <1> HIDE DEF w
  <1>5. ASSUME NEW s \in {"bootstrap", "expire"}, i.op = "bootstrap" \/ binding[i.caller] # Nothing,
               s = "bootstrap" => i.op = "bootstrap"
        PROVE  Sound(w(s), binding')
    <2>1. ActorLocks(w(s)) = ActorLocks(i)
      BY <1>4, <1>5 DEF ActorLocks, SameButStage
    <2>2. HoldsInOrder(w(s), binding')
      BY <1>1, <1>2, <1>4, <1>5, <2>1 DEF SameButStage, HoldsInOrder, Sound
    <2>3. StageIsEarned(w(s), binding')
      BY <1>1, <1>2, <1>4, <1>5 DEF SameButStage, StageIsEarned, Sound, Speaking, Authenticated
    <2>4. QED BY <1>4, <2>2, <2>3 DEF Sound, SameButStage
  <1>6. InvokedIsSound'
    BY <1>1, <1>3, <1>5, OthersStay, Leaves DEF BindingInv
  <1>7. QED BY <1>1, <1>6 DEF BindingInv, TablesTypeOK, CountersTypeOK

LEMMA ExpireKeeps ==
  ASSUME BindingInv, NEW p \in Invoker, Expire(p)
  PROVE  BindingInv'
  <1> DEFINE i == invoked[p]
             s == IF NeedsAuthentication(i.op) THEN "recover" ELSE "bootstrap"
             w == [i EXCEPT !.stage = s]
  <1>1. UNCHANGED <<binding, row, lapses, issued, deaths>> /\ Becomes(p, w)
    BY DEF Expire, Goto
  <1>2. i # Nothing /\ i.stage = "expire" /\ i \in Invocation /\ Sound(i, binding)
    BY RunningIsSound DEF Expire, BindingInv
  <1>3. s \in BindingStage
    BY DEF BindingStage
  <1>4. /\ SameButStage(i, w) /\ w.stage = s /\ w.of = i.of /\ w.ref = i.ref
    <2> HIDE DEF s
    <2>1. QED BY <1>2, <1>3, NewStage
  <1> HIDE DEF w
  <1>5. ActorLocks(w) = ActorLocks(i)
    BY <1>4 DEF ActorLocks, SameButStage
  <1>6. HoldsInOrder(w, binding')
    BY <1>1, <1>2, <1>4, <1>5 DEF SameButStage, HoldsInOrder, Sound, NeedsAuthentication
  <1>7. StageIsEarned(w, binding')
    BY <1>1, <1>2, <1>4 DEF SameButStage, StageIsEarned, Sound, Speaking, Authenticated, NeedsAuthentication
  <1>8. InvokedIsSound'
    BY <1>1, <1>4, <1>6, <1>7, OthersStay DEF BindingInv, Sound, SameButStage
  <1>9. actor' \in [Actors -> ActorState]
    <2>1. \A a \in Actors : [actor[a] EXCEPT !.status = "Stale"] \in ActorState
      BY DEF BindingInv, TablesTypeOK, ActorState
    <2>2. QED BY <2>1 DEF Expire, BindingInv, TablesTypeOK
  <1>10. active' \in Human \cup {Nothing}
    BY DEF Expire, BindingInv, TablesTypeOK
  <1>11. QED BY <1>1, <1>8, <1>9, <1>10 DEF BindingInv, TablesTypeOK, CountersTypeOK

LEMMA HeartbeatKeeps ==
  ASSUME BindingInv, NEW p \in Invoker, Heartbeat(p)
  PROVE  BindingInv'
  <1> DEFINE ref == invoked[p].ref
  <1>1. UNCHANGED <<active, binding, row, lapses, issued, deaths>>
    BY DEF Heartbeat
  <1>2. invoked[p] # Nothing /\ ref # Nothing /\ ref \in Ref
    BY RunningIsSound DEF Heartbeat, BindingInv, Sound, StageIsEarned, Speaking, Invocation
  <1>3. \/ Leave(p) /\ UNCHANGED actor
        \/ Beat(ref) /\ Goto(p, AfterBeat(invoked[p].op))
    BY DEF Heartbeat
  <1>4. InvokedIsSound'
    <2>1. AfterBeat(invoked[p].op) \in LateStage \ {"activate"}
      BY DEF AfterBeat, LateStage
    <2>2. QED BY <1>1, <1>2, <1>3, <2>1, Leaves, GoesToLate DEF BindingInv
  <1>5. actor' \in [Actors -> ActorState]
    <2>1. ref.id \in Actors /\ [actor[ref.id] EXCEPT !.status = "Healthy", !.beating = TRUE] \in ActorState
      BY ZenonT(40), <1>2 DEF Ref, BindingInv, TablesTypeOK, ActorState
    <2>2. QED BY <1>3, <2>1 DEF Beat, BindingInv, TablesTypeOK
  <1>6. QED BY <1>1, <1>4, <1>5 DEF BindingInv, TablesTypeOK, CountersTypeOK

LEMMA AuthenticateKeeps ==
  ASSUME BindingInv, NEW p \in Invoker, Authenticate(p)
  PROVE  BindingInv'
  <1> DEFINE i == invoked[p]
             ref == binding[i.caller]
             w == [i EXCEPT !.stage = "beat", !.ref = ref]
  <1>1. UNCHANGED <<actor, active, binding, row, lapses, issued, deaths>>
        /\ (Leave(p) \/ Becomes(p, w))
    BY DEF Authenticate, tables
  <1>2. i # Nothing /\ i.stage = "authenticate" /\ i \in Invocation /\ Sound(i, binding)
    BY RunningIsSound DEF Authenticate, BindingInv
  <1>3. ref \in Ref /\ ref # Nothing
    BY <1>2 DEF Sound, StageIsEarned, Authenticated, Invocation, BindingInv, TablesTypeOK
  <1>4. SameButStage(i, w) /\ w.stage = "beat" /\ w.of = i.of /\ w.ref = ref
    <2>1. "beat" \in BindingStage
      BY DEF BindingStage
    <2> HIDE DEF i, ref
    <2>2. \A s \in BindingStage, r \in Ref : LET v == [i EXCEPT !.stage = s, !.ref = r] IN
            SameButStage(i, v) /\ v.stage = s /\ v.of = i.of /\ v.ref = r
      BY <1>2, NewRef
    <2>3. QED BY <1>3, <2>1, <2>2
  <1> HIDE DEF w
  <1>5. Sound(w, binding')
    BY <1>2, <1>3, <1>4, LateIsSound DEF LateStage
  <1>6. InvokedIsSound'
    BY <1>1, <1>5, OthersStay, Leaves DEF BindingInv
  <1>7. QED BY <1>1, <1>6 DEF BindingInv, TablesTypeOK, CountersTypeOK

LEMMA ReadSessionKeeps ==
  ASSUME BindingInv, NEW p \in Invoker, ReadSession(p)
  PROVE  BindingInv'
  <1> DEFINE i == invoked[p]
             w == [i EXCEPT !.stage = "write", !.fresh = TRUE]
  <1>1. UNCHANGED <<actor, active, binding, row, lapses, issued, deaths>>
        /\ (Leave(p) \/ Goto(p, AfterSession(i.op)) \/ Becomes(p, w))
    BY DEF ReadSession, tables
  <1>2. i # Nothing /\ i.stage = "session" /\ i \in Invocation /\ Sound(i, binding)
    BY RunningIsSound DEF ReadSession, BindingInv
  <1>3. i.ref # Nothing
    BY <1>2 DEF Sound, StageIsEarned, Speaking
  <1>4. SameButStage(i, w) /\ w.stage = "write" /\ w.of = i.of /\ w.ref = i.ref
    BY <1>2 DEF SameButStage, Invocation, BindingStage
  <1> HIDE DEF w
  <1>5. Sound(w, binding')
    BY <1>2, <1>3, <1>4, LateIsSound DEF LateStage
  <1>6. AfterSession(i.op) \in LateStage \ {"activate"}
    BY DEF AfterSession, LateStage
  <1>7. InvokedIsSound'
    BY <1>1, <1>2, <1>3, <1>5, <1>6, OthersStay, Leaves, GoesToLate DEF BindingInv
  <1>8. QED BY <1>1, <1>7 DEF BindingInv, TablesTypeOK, CountersTypeOK

LEMMA WriteSessionKeeps ==
  ASSUME BindingInv, NEW p \in Invoker, WriteSession(p)
  PROVE  BindingInv'
  <1> DEFINE i == invoked[p]
             ref == i.ref
             w == [i EXCEPT !.stage = AfterSession(i.op)]
  <1>1. UNCHANGED <<actor, active, binding, lapses, issued, deaths>>
    BY DEF WriteSession
  <1>2. \/ Leave(p) /\ UNCHANGED row
        \/ /\ row' = [row EXCEPT ![ref.id] = [status |-> "idle", epoch |-> ref.epoch]]
           /\ Writes(p, ref.id, w)
    BY DEF WriteSession
  <1>3. i # Nothing /\ i.stage = "write" /\ i \in Invocation /\ Sound(i, binding)
    BY RunningIsSound DEF WriteSession, BindingInv
  <1>4. ref # Nothing /\ ref \in Ref
    BY <1>3 DEF Sound, StageIsEarned, Speaking, Invocation
  <1>5. AfterSession(i.op) \in LateStage \ {"activate"} /\ AfterSession(i.op) \in BindingStage
    BY DEF AfterSession, LateStage, BindingStage
  <1>6. SameButStage(i, w) /\ w.stage = AfterSession(i.op) /\ w.of = i.of /\ w.ref = i.ref
    BY <1>3, <1>5, NewStage
  <1> HIDE DEF w
  <1>7. Sound(w, binding')
    BY <1>3, <1>4, <1>5, <1>6, LateIsSound
  <1>8. ref.id \in Actors /\ [status |-> "idle", epoch |-> ref.epoch] \in Row
    BY <1>4 DEF Ref, Row
  <1>9. InvokedIsSound'
    BY <1>1, <1>2, <1>7, <1>8, OthersStay, Leaves DEF BindingInv
  <1>10. row' \in [Actors -> Row]
    BY <1>2, <1>8 DEF BindingInv, TablesTypeOK
  <1>11. QED BY <1>1, <1>9, <1>10 DEF BindingInv, TablesTypeOK, CountersTypeOK

-----------------------------------------------------------------------------
(* A generation begins: by recovery, bootstrap or activation.              *)

LEMMA RefIsSomething == \A r \in Ref : r # Nothing
  BY BindingAssumption DEF Ref, Actors, Callers

LEMMA BegunTyped ==
  ASSUME TablesTypeOK, NEW a \in Actors, MayBegin(a)
  PROVE  Begun(a) \in ActorState /\ Begun(a).epoch \in 1..MaxEpoch
  <1>1. MaxEpoch \in Nat /\ MaxEpoch >= 1
    BY BindingAssumption
  <1>2. actor[a].epoch \in 1..MaxEpoch
    BY DEF TablesTypeOK, ActorState
  <1>3. (IF actor[a].status = "Absent" THEN 1 ELSE actor[a].epoch + 1) \in 1..MaxEpoch
    BY <1>1, <1>2 DEF MayBegin
  <1>4. QED BY <1>3 DEF Begun, ActorState

LEMMA AdvanceKeeps ==
  ASSUME BindingInv, NEW p \in Invoker, invoked[p] # Nothing, NEW c \in Callers,
         c = invoked[p].caller, binding[c] # Nothing, NEW next \in {"session", "authenticate"},
         next = "authenticate" => invoked[p].op # "bootstrap",
         AdvanceGeneration(p, c, next)
  PROVE  /\ InvokedIsSound'
         /\ actor' \in [Actors -> ActorState] /\ binding' \in [Callers -> Ref \cup {Nothing}]
         /\ row' \in [Actors -> Row]
  <1> DEFINE i == invoked[p]
             a == binding[c].id
             e == Begun(a).epoch
             r == [id |-> a, epoch |-> e]
             w == [i EXCEPT !.stage = next, !.ref = r]
  <1>1. /\ MayBegin(a) /\ actor' = [actor EXCEPT ![a] = Begun(a)]
        /\ binding' = [binding EXCEPT ![c].epoch = e]
        /\ row' = [row EXCEPT ![a] = [status |-> "idle", epoch |-> e]]
        /\ Writes(p, a, w)
    BY DEF AdvanceGeneration
  <1>2. i \in Invocation /\ Sound(i, binding)
    BY DEF BindingInv, InvokedIsSound, Sound
  <1>3. binding[c] \in Ref /\ a \in Actors
    BY DEF BindingInv, TablesTypeOK, Ref
  <1>4. Begun(a) \in ActorState /\ e \in 1..MaxEpoch
    <2>1. TablesTypeOK
      BY DEF BindingInv
    <2>2. \A b \in Actors : MayBegin(b) => Begun(b) \in ActorState /\ Begun(b).epoch \in 1..MaxEpoch
      BY <2>1, BegunTyped
    <2>3. QED BY <1>1, <1>3, <2>2
  <1> HIDE DEF e
  <1>5. r \in Ref /\ r # Nothing
    BY <1>3, <1>4, RefIsSomething DEF Ref
  <1>6. [binding[c] EXCEPT !.epoch = e] = r
    BY <1>3 DEF Ref
  <1>7. /\ binding' \in [Callers -> Ref \cup {Nothing}] /\ binding'[c] # Nothing
        /\ \A d \in Callers : binding[d] # Nothing => binding'[d] # Nothing
    BY <1>1, <1>5, <1>6 DEF BindingInv, TablesTypeOK
  <1>8. SameButStage(i, w) /\ w.stage = next /\ w.of = i.of /\ w.ref = r
    <2>1. next \in BindingStage
      BY DEF BindingStage
    <2> HIDE DEF i, r
    <2>2. QED BY <1>2, <1>5, <2>1 DEF SameButStage, Invocation
  <1> HIDE DEF w
  <1>9. HoldsInOrder(w, binding') /\ StageIsEarned(w, binding')
    BY <1>2, <1>5, <1>7, <1>8
       DEF HoldsInOrder, StageIsEarned, SameButStage, Sound, Speaking, Authenticated
  <1>10. Sound(w, binding')
    BY <1>8, <1>9 DEF Sound, SameButStage
  <1>11. InvokedIsSound'
    BY <1>1, <1>3, <1>7, <1>10, OthersStay DEF BindingInv
  <1>12. actor' \in [Actors -> ActorState]
    BY <1>1, <1>3, <1>4 DEF BindingInv, TablesTypeOK
  <1>13. row' \in [Actors -> Row]
    BY <1>1, <1>3, <1>4 DEF BindingInv, TablesTypeOK, Row
  <1>14. QED BY <1>7, <1>11, <1>12, <1>13

\* A Primary's generation is advanced with its lease, an executor's without one.
LEMMA AdvancePrimaryKeeps ==
  ASSUME BindingInv, NEW p \in Invoker, invoked[p] # Nothing, NEW c \in Callers,
         c = invoked[p].caller, binding[c] # Nothing, binding[c].id \in Human,
         NEW next \in {"session", "authenticate"},
         next = "authenticate" => invoked[p].op # "bootstrap", NEW status,
         AdvancePrimary(p, c, status, next), UNCHANGED <<lapses, issued, deaths>>
  PROVE  BindingInv'
  <1>1. AdvanceGeneration(p, c, next) /\ active' = binding[c].id
    BY DEF AdvancePrimary
  <1>2. QED BY <1>1, AdvanceKeeps DEF BindingInv, TablesTypeOK, CountersTypeOK

LEMMA AdvanceImplementationKeeps ==
  ASSUME BindingInv, NEW p \in Invoker, invoked[p] # Nothing, NEW c \in Callers,
         c = invoked[p].caller, binding[c] # Nothing,
         AdvanceImplementation(p, c), UNCHANGED <<lapses, issued, deaths>>
  PROVE  BindingInv'
  <1>1. AdvanceGeneration(p, c, "session") /\ UNCHANGED active
    BY DEF AdvanceImplementation
  <1>2. /\ InvokedIsSound'
        /\ actor' \in [Actors -> ActorState] /\ binding' \in [Callers -> Ref \cup {Nothing}]
        /\ row' \in [Actors -> Row]
    BY <1>1, AdvanceKeeps
  <1>3. QED BY <1>1, <1>2 DEF BindingInv, TablesTypeOK, CountersTypeOK

LEMMA RecoverKeeps ==
  ASSUME BindingInv, NEW p \in Invoker, Recover(p)
  PROVE  BindingInv'
  <1>1. PICK c \in Callers : c = invoked[p].caller
    BY RunningIsSound DEF Recover, BindingInv, Invocation
  <1> DEFINE i == invoked[p]
             w == [i EXCEPT !.stage = "authenticate"]
  <1>2. i # Nothing /\ i.stage = "recover" /\ i \in Invocation /\ Sound(i, binding)
    BY RunningIsSound DEF Recover, BindingInv
  <1>3. binding[c] # Nothing /\ i.op # "bootstrap" /\ binding[c] \in Ref
    BY <1>1, <1>2 DEF Sound, StageIsEarned, Authenticated, BindingInv, TablesTypeOK
  <1>4. /\ UNCHANGED <<lapses, issued, deaths>>
        /\ \/ Becomes(p, w) /\ UNCHANGED <<actor, active, binding, row>>
           \/ binding[c].id \notin Agent /\ AdvancePrimary(p, c, "Stale", "authenticate")
           \/ Leave(p) /\ UNCHANGED <<actor, active, binding, row>>
    BY <1>1 DEF Recover, Goto, tables
  <1>5. CASE Becomes(p, w) /\ UNCHANGED <<actor, active, binding, row>>
    <2>1. SameButStage(i, w) /\ w.stage = "authenticate" /\ w.of = i.of /\ w.ref = i.ref
      <3>1. "authenticate" \in BindingStage
        BY DEF BindingStage
      <3>2. QED BY <1>2, <3>1, NewStage
    <2> HIDE DEF w
    <2>2. HoldsInOrder(w, binding') /\ StageIsEarned(w, binding')
      BY <1>1, <1>2, <1>3, <1>5, <2>1
         DEF HoldsInOrder, StageIsEarned, SameButStage, Sound, Speaking, Authenticated
    <2>3. InvokedIsSound'
      BY <1>5, <2>1, <2>2, OthersStay DEF BindingInv, Sound, SameButStage
    <2>4. QED BY <1>4, <1>5, <2>3 DEF BindingInv, TablesTypeOK, CountersTypeOK
  <1>6. CASE binding[c].id \notin Agent /\ AdvancePrimary(p, c, "Stale", "authenticate")
    <2>1. binding[c].id \in Human
      BY <1>3, <1>6 DEF Ref, Actors, Callers
    <2>2. QED BY <1>1, <1>2, <1>3, <1>4, <1>6, <2>1, AdvancePrimaryKeeps
  <1>7. CASE Leave(p) /\ UNCHANGED <<actor, active, binding, row>>
    BY <1>4, <1>7, Leaves DEF BindingInv, TablesTypeOK, CountersTypeOK
  <1>8. QED BY <1>4, <1>5, <1>6, <1>7

LEMMA UnboundKeeps ==
  ASSUME BindingInv, NEW p \in Invoker, InStage(p, "bootstrap"),
         binding[invoked[p].caller] = Nothing,
         BootstrapUnbound(p), UNCHANGED <<lapses, issued, deaths>>
  PROVE  BindingInv'
  <1> DEFINE i == invoked[p]
             r == RefOf(i.caller)
             a == IF i.of = Nothing THEN i.caller ELSE i.of
             v == [i EXCEPT !.stage = "adopt", !.ref = r]
             w == [i EXCEPT !.stage = "activate", !.of = a]
  <1>1. i # Nothing /\ i.stage = "bootstrap" /\ i \in Invocation /\ Sound(i, binding)
    BY RunningIsSound DEF BindingInv
  <1>2. i.caller \in Callers /\ i.op = "bootstrap" /\ i.of \in Human \cup {Nothing}
    BY <1>1 DEF Sound, StageIsEarned, Invocation
  <1>3. /\ UNCHANGED <<actor, active, binding, row>>
        /\ \/ i.caller \in Agent /\ Becomes(p, v)
           \/ i.caller \notin Agent /\ Becomes(p, w)
           \/ Leave(p)
    BY DEF BootstrapUnbound, tables
  <1>4. r \in Ref /\ r # Nothing
    BY <1>2, RefIsSomething DEF RefOf, Ref, Actors, BindingInv, TablesTypeOK, ActorState
  <1>5. "adopt" \in BindingStage /\ "activate" \in BindingStage
    BY DEF BindingStage
  <1>6. SameButStage(i, v) /\ v.stage = "adopt" /\ v.of = i.of /\ v.ref = r
    <2> HIDE DEF i, r
    <2>1. QED BY <1>1, <1>4, <1>5 DEF SameButStage, Invocation
  <1>7. i.caller \notin Agent =>
          a \in Human /\ SameButStage(i, w) /\ w.stage = "activate" /\ w.of = a
    <2>1. i.caller \notin Agent => a \in Human /\ a \in Actors
      BY <1>2 DEF Actors, Callers
    <2> HIDE DEF i, a
    <2>2. QED BY <1>1, <1>5, <2>1 DEF SameButStage, Invocation
  <1> HIDE DEF v, w, a, r
  <1>8. ActorLocks(v) = {}
    BY <1>1, <1>2, <1>6 DEF ActorLocks, SameButStage, Sound, HoldsInOrder
  <1>9. Sound(v, binding')
    BY <1>1, <1>3, <1>4, <1>6, <1>8
       DEF Sound, HoldsInOrder, StageIsEarned, SameButStage, Speaking, Authenticated
  <1>10. i.caller \notin Agent => Sound(w, binding')
    BY <1>1, <1>7, LateIsSound DEF LateStage
  <1>11. InvokedIsSound'
    BY <1>3, <1>9, <1>10, OthersStay, Leaves DEF BindingInv
  <1>12. QED BY <1>3, <1>11 DEF BindingInv, TablesTypeOK, CountersTypeOK

LEMMA BoundKeeps ==
  ASSUME BindingInv, NEW p \in Invoker, InStage(p, "bootstrap"),
         binding[invoked[p].caller] # Nothing,
         BootstrapBound(p), UNCHANGED <<lapses, issued, deaths>>
  PROVE  BindingInv'
  <1> DEFINE i == invoked[p]
             ref == binding[i.caller]
             v == [i EXCEPT !.stage = "beat", !.ref = ref]
             w == [i EXCEPT !.stage = "activate", !.of = ref.id]
  <1>1. i # Nothing /\ i.stage = "bootstrap" /\ i \in Invocation /\ Sound(i, binding)
    BY RunningIsSound DEF BindingInv
  <1>2. i.caller \in Callers /\ i.op = "bootstrap"
    BY <1>1 DEF Sound, StageIsEarned, Invocation
  <1>3. PICK c \in Callers : c = i.caller
    BY <1>2
  <1>4. ref \in Ref /\ ref # Nothing /\ ref.id \in Actors
    BY <1>2 DEF BindingInv, TablesTypeOK, Ref
  <1>5. \/ Leave(p) /\ UNCHANGED <<actor, active, binding, row>>
        \/ AdvanceImplementation(p, c)
        \/ Becomes(p, v) /\ UNCHANGED <<actor, active, binding, row>>
        \/ ref.id \notin Agent /\ AdvancePrimary(p, c, "Stopped", "session")
        \/ /\ ref.id \notin Agent
           /\ Becomes(p, w) /\ UNCHANGED <<actor, active, binding, row>>
    BY <1>3 DEF BootstrapBound, tables
  <1>6. CASE Leave(p) /\ UNCHANGED <<actor, active, binding, row>>
    BY <1>6, Leaves DEF BindingInv, TablesTypeOK, CountersTypeOK
  <1>7. CASE AdvanceImplementation(p, c)
    BY <1>1, <1>3, <1>4, <1>7, AdvanceImplementationKeeps
  <1>8. CASE ref.id \notin Agent /\ AdvancePrimary(p, c, "Stopped", "session")
    <2>1. binding[c].id \in Human /\ binding[c] # Nothing
      BY <1>3, <1>4, <1>8 DEF Actors, Callers
    <2>2. QED BY <1>1, <1>3, <1>8, <2>1, AdvancePrimaryKeeps
  <1>9. CASE Becomes(p, v) /\ UNCHANGED <<actor, active, binding, row>>
    <2>1. SameButStage(i, v) /\ v.stage = "beat" /\ v.of = i.of /\ v.ref = ref
      <3>1. "beat" \in BindingStage
        BY DEF BindingStage
      <3>2. PICK j \in Invocation : j = i
        BY <1>1
      <3>3. PICK r \in Ref : r = ref
        BY <1>4
      <3>4. PICK u : u = [j EXCEPT !.stage = "beat", !.ref = r]
        OBVIOUS
      <3>5. SameButStage(j, u) /\ u.stage = "beat" /\ u.of = j.of /\ u.ref = r
        BY <3>1, <3>4 DEF Invocation, SameButStage
      <3>6. v = u
        BY <3>2, <3>3, <3>4
      <3> HIDE DEF i, ref, v
      <3>7. QED BY <3>2, <3>3, <3>5, <3>6
    <2> HIDE DEF v
    <2>2. Sound(v, binding')
      BY <1>1, <1>4, <2>1, LateIsSound DEF LateStage
    <2>3. QED BY <1>9, <2>2, OthersStay DEF BindingInv, TablesTypeOK, CountersTypeOK
  <1>10. CASE /\ ref.id \notin Agent
              /\ Becomes(p, w) /\ UNCHANGED <<actor, active, binding, row>>
    <2>1. SameButStage(i, w) /\ w.stage = "activate" /\ w.of = ref.id
      <3>1. "activate" \in BindingStage
        BY DEF BindingStage
      <3> HIDE DEF i, ref
      <3>2. QED BY <1>1, <1>4, <3>1 DEF SameButStage, Invocation
    <2>2. ref.id \in Human
      BY <1>4, <1>10 DEF Actors, Callers
    <2> HIDE DEF w
    <2>3. Sound(w, binding')
      BY <1>1, <2>1, <2>2, LateIsSound DEF LateStage
    <2>4. QED BY <1>10, <2>3, OthersStay DEF BindingInv, TablesTypeOK, CountersTypeOK
  <1>11. QED BY <1>5, <1>6, <1>7, <1>8, <1>9, <1>10

LEMMA BootstrapKeeps ==
  ASSUME BindingInv, NEW p \in Invoker, Bootstrap(p)
  PROVE  BindingInv'
  BY BoundKeeps, UnboundKeeps DEF Bootstrap

LEMMA ActivateKeeps ==
  ASSUME BindingInv, NEW p \in Invoker, Activate(p)
  PROVE  BindingInv'
  <1> DEFINE i == invoked[p]
  <1>1. i # Nothing /\ i.stage = "activate" /\ i \in Invocation /\ Sound(i, binding)
    BY RunningIsSound DEF Activate, BindingInv
  <1>2. PICK a \in Human : a = i.of
    BY <1>1 DEF Sound, StageIsEarned
  <1> DEFINE begun == IF active = a THEN [actor[a] EXCEPT !.beating = TRUE] ELSE Begun(a)
             r == [id |-> a, epoch |-> begun.epoch]
             w == [i EXCEPT !.stage = "bind", !.ref = r]
  <1>3. /\ UNCHANGED <<binding, row, lapses, issued, deaths>>
        /\ \/ /\ active = a \/ MayBegin(a)
              /\ active' = a /\ actor' = [actor EXCEPT ![a] = begun] /\ Becomes(p, w)
           \/ Leave(p) /\ UNCHANGED <<actor, active>>
    BY <1>2 DEF Activate
  <1>4. CASE Leave(p) /\ UNCHANGED <<actor, active>>
    BY <1>3, <1>4, Leaves DEF BindingInv, TablesTypeOK, CountersTypeOK
  <1>5. CASE /\ active = a \/ MayBegin(a)
             /\ active' = a /\ actor' = [actor EXCEPT ![a] = begun] /\ Becomes(p, w)
    <2>1. begun \in ActorState /\ begun.epoch \in 1..MaxEpoch
      <3>1. a \in Actors /\ TablesTypeOK
        BY DEF Actors, Callers, BindingInv
      <3>2. actor[a] \in ActorState
        BY <3>1 DEF TablesTypeOK
      <3>3. [actor[a] EXCEPT !.beating = TRUE] \in ActorState
        BY <3>2 DEF ActorState
      <3>4. begun \in ActorState
        BY <1>5, <3>1, <3>3, BegunTyped
      <3>5. QED BY <3>4 DEF ActorState
    <2> HIDE DEF begun
    <2>2. r \in Ref /\ r # Nothing /\ "bind" \in BindingStage
      BY <2>1, RefIsSomething DEF Ref, Actors, Callers, BindingStage
    <2>3. SameButStage(i, w) /\ w.stage = "bind" /\ w.of = i.of /\ w.ref = r
      <3> HIDE DEF i, r
      <3>1. QED BY <1>1, <2>2 DEF SameButStage, Invocation
    <2> HIDE DEF w
    <2>4. Sound(w, binding')
      BY <1>1, <2>2, <2>3, LateIsSound DEF LateStage
    <2>5. InvokedIsSound'
      BY <1>3, <1>5, <2>4, OthersStay DEF BindingInv
    <2>6. QED BY <1>3, <1>5, <2>1, <2>5 DEF BindingInv, TablesTypeOK, CountersTypeOK, Actors, Callers
  <1>6. QED BY <1>3, <1>4, <1>5

LEMMA BindKeeps ==
  ASSUME BindingInv, NEW p \in Invoker, Bind(p)
  PROVE  BindingInv'
  <1> DEFINE i == invoked[p]
             s == IF i.ref.id \in Agent THEN "beat" ELSE "session"
  <1>1. i # Nothing /\ i.stage = "bind" /\ i \in Invocation /\ Sound(i, binding)
    BY RunningIsSound DEF Bind, BindingInv
  <1>2. i.ref \in Ref /\ i.ref # Nothing
    BY <1>1 DEF Sound, StageIsEarned, Speaking, Invocation
  <1>3. /\ UNCHANGED <<actor, active, row, lapses, issued, deaths>>
        /\ \/ binding' = [binding EXCEPT ![i.caller] = i.ref] /\ Goto(p, s)
           \/ Leave(p) /\ UNCHANGED binding
    BY DEF Bind
  <1>4. /\ binding' \in [Callers -> Ref \cup {Nothing}]
        /\ \A c \in Callers : binding[c] # Nothing => binding'[c] # Nothing
    BY <1>2, <1>3 DEF BindingInv, TablesTypeOK
  <1>5. InvokedIsSound'
    <2>1. s \in LateStage \ {"activate"}
      BY DEF LateStage
    <2> HIDE DEF s
    <2>2. QED BY <1>1, <1>2, <1>3, <1>4, <2>1, Leaves, GoesToLate DEF BindingInv
  <1>6. QED BY <1>3, <1>4, <1>5 DEF BindingInv, TablesTypeOK, CountersTypeOK

-----------------------------------------------------------------------------
(* The commands.                                                           *)

LEMMA LeavingKeeps ==
  ASSUME BindingInv, NEW p \in Invoker,
         Work(p) \/ Finish(p)
  PROVE  BindingInv'
  <1>1. Leave(p) /\ UNCHANGED <<actor, active, binding, row, lapses, issued, deaths>>
    BY DEF Work, Finish, tables
  <1>2. QED BY <1>1, Leaves DEF BindingInv, TablesTypeOK, CountersTypeOK

LEMMA BeginStopKeeps ==
  ASSUME BindingInv, NEW p \in Invoker, BeginStop(p)
  PROVE  BindingInv'
  <1> DEFINE i == invoked[p]
             r == RefOf(i.of)
             s == IF row[i.of].status = "none" THEN "actor" ELSE "row"
             w == [i EXCEPT !.ref = r, !.fresh = TRUE, !.stage = s]
  <1>1. i # Nothing /\ i.stage = "run" /\ i \in Invocation /\ Sound(i, binding)
    BY RunningIsSound DEF BeginStop, BindingInv
  <1>2. UNCHANGED <<actor, active, binding, row, lapses, issued, deaths>>
        /\ (Leave(p) \/ Becomes(p, w))
    BY DEF BeginStop, tables
  <1>3. i.of \in Actors
    BY <1>1 DEF BeginStop, Sound, StageIsEarned
  <1>4. r \in Ref /\ r # Nothing /\ s \in BindingStage /\ s \in LateStage \ {"activate"}
    BY <1>3, RefIsSomething
       DEF RefOf, Ref, BindingInv, TablesTypeOK, ActorState, BindingStage, LateStage
  <1>5. SameButStage(i, w) /\ w.stage = s /\ w.of = i.of /\ w.ref = r
    <2> HIDE DEF i, r, s
    <2>1. QED BY <1>1, <1>4 DEF SameButStage, Invocation
  <1> HIDE DEF w, r, s
  <1>6. Sound(w, binding')
    BY <1>1, <1>4, <1>5, LateIsSound
  <1>7. InvokedIsSound'
    BY <1>2, <1>6, OthersStay, Leaves DEF BindingInv
  <1>8. QED BY <1>2, <1>7 DEF BindingInv, TablesTypeOK, CountersTypeOK

LEMMA StopRowKeeps ==
  ASSUME BindingInv, NEW p \in Invoker, StopRow(p)
  PROVE  BindingInv'
  <1> DEFINE i == invoked[p]
             a == i.ref.id
             w == [i EXCEPT !.stage = "actor"]
  <1>1. i # Nothing /\ i.stage = "row" /\ i \in Invocation /\ Sound(i, binding)
    BY RunningIsSound DEF StopRow, BindingInv
  <1>2. i.ref # Nothing /\ a \in Actors
    BY <1>1 DEF Sound, StageIsEarned, Speaking, Invocation, Ref
  <1>3. /\ UNCHANGED <<actor, active, binding, lapses, issued, deaths>>
        /\ \/ row' = [row EXCEPT ![a].status = "stopped"] /\ Writes(p, a, w)
           \/ Leave(p) /\ UNCHANGED row
    BY DEF StopRow
  <1>4. SameButStage(i, w) /\ w.stage = "actor" /\ w.of = i.of /\ w.ref = i.ref
    <2>1. "actor" \in BindingStage
      BY DEF BindingStage
    <2>2. QED BY <1>1, <2>1, NewStage
  <1> HIDE DEF w
  <1>5. Sound(w, binding')
    BY <1>1, <1>2, <1>4, LateIsSound DEF LateStage
  <1>6. InvokedIsSound'
    BY <1>2, <1>3, <1>5, OthersStay, Leaves DEF BindingInv
  <1>7. row' \in [Actors -> Row]
    <2>1. [row[a] EXCEPT !.status = "stopped"] \in Row
      BY <1>2 DEF BindingInv, TablesTypeOK, Row
    <2>2. QED BY <1>2, <1>3, <2>1 DEF BindingInv, TablesTypeOK
  <1>8. QED BY <1>3, <1>6, <1>7 DEF BindingInv, TablesTypeOK, CountersTypeOK

LEMMA StoppedTyped ==
  ASSUME TablesTypeOK, NEW a \in Actors
  PROVE  /\ [actor EXCEPT ![a].status = "Stopped"] \in [Actors -> ActorState]
         /\ [row EXCEPT ![a].status = "stopped"] \in [Actors -> Row]
  <1>1. [actor[a] EXCEPT !.status = "Stopped"] \in ActorState
    BY DEF TablesTypeOK, ActorState
  <1>2. [row[a] EXCEPT !.status = "stopped"] \in Row
    BY DEF TablesTypeOK, Row
  <1>3. QED BY <1>1, <1>2 DEF TablesTypeOK

LEMMA StopActorKeeps ==
  ASSUME BindingInv, NEW p \in Invoker, StopActor(p)
  PROVE  BindingInv'
  <1> DEFINE ref == invoked[p].ref
  <1>1. ref \in Ref /\ ref.id \in Actors
    BY RunningIsSound
       DEF StopActor, BindingInv, Sound, StageIsEarned, Speaking, Invocation, Ref
  <1>2. /\ UNCHANGED <<binding, row, lapses, issued, deaths>> /\ Leave(p)
        /\ \/ actor' = [actor EXCEPT ![ref.id].status = "Stopped"]
           \/ actor' = actor
        /\ active' \in {active, Nothing}
    BY DEF StopActor
  <1>3. InvokedIsSound'
    BY <1>2, Leaves DEF BindingInv
  <1>4. actor' \in [Actors -> ActorState]
    <2>1. TablesTypeOK /\ actor \in [Actors -> ActorState]
      BY DEF BindingInv, TablesTypeOK
    <2>2. PICK a \in Actors : a = ref.id
      BY <1>1
    <2>3. [actor EXCEPT ![a].status = "Stopped"] \in [Actors -> ActorState]
      BY <2>1, StoppedTyped
    <2>4. QED BY <1>2, <2>1, <2>2, <2>3
  <1>5. QED BY <1>2, <1>3, <1>4 DEF BindingInv, TablesTypeOK, CountersTypeOK

LEMMA ShutdownKeeps ==
  ASSUME BindingInv, NEW p \in Invoker, Shutdown(p)
  PROVE  BindingInv'
  <1> DEFINE i == invoked[p]
             ref == i.ref
             w == [i EXCEPT !.stage = "dispatched", !.workspace = "none"]
  <1>1. i # Nothing /\ i.stage = "run" /\ i \in Invocation /\ Sound(i, binding)
    BY RunningIsSound DEF Shutdown, BindingInv
  <1>2. ref \in Ref /\ ref.id \in Actors
    BY <1>1 DEF Sound, StageIsEarned, Speaking, Invocation, Ref
  <1>3. /\ UNCHANGED <<binding, lapses, issued, deaths>>
        /\ \/ /\ actor' = [actor EXCEPT ![ref.id].status = "Stopped"]
              /\ row' = [row EXCEPT ![ref.id].status = "stopped"]
              /\ active' \in {active, Nothing}
              /\ Writes(p, ref.id, w)
           \/ Leave(p) /\ UNCHANGED <<actor, active, row>>
    BY DEF Shutdown
  <1>4. w \in Invocation /\ w.stage = "dispatched" /\ w.of = i.of /\ w.op = i.op
    BY <1>1 DEF Invocation, BindingStage, Mode
  <1> HIDE DEF w
  <1>5. HoldsInOrder(w, binding') /\ StageIsEarned(w, binding')
    BY <1>1, <1>4 DEF HoldsInOrder, StageIsEarned, Sound, Speaking, Authenticated
  <1>6. InvokedIsSound'
    BY <1>2, <1>3, <1>4, <1>5, OthersStay, Leaves DEF BindingInv, Sound
  <1>7. actor' \in [Actors -> ActorState] /\ row' \in [Actors -> Row]
    BY <1>2, <1>3, StoppedTyped DEF BindingInv, TablesTypeOK
  <1>8. QED BY <1>3, <1>6, <1>7 DEF BindingInv, TablesTypeOK, CountersTypeOK

LEMMA LapseKeeps ==
  ASSUME BindingInv, NEW a \in Actors, Lapse(a)
  PROVE  BindingInv'
  <1>1. [actor[a] EXCEPT !.beating = FALSE] \in ActorState
    BY DEF BindingInv, TablesTypeOK, ActorState
  <1>2. actor' \in [Actors -> ActorState]
    BY <1>1 DEF Lapse, BindingInv, TablesTypeOK
  <1>3. lapses' \in 0..MaxLapses /\ UNCHANGED <<issued, deaths>>
    BY BindingAssumption DEF Lapse, BindingInv, CountersTypeOK
  <1>4. UNCHANGED <<active, binding, row, invoked>>
    BY DEF Lapse
  <1>5. QED BY <1>2, <1>3, <1>4 DEF BindingInv, TablesTypeOK, CountersTypeOK, InvokedIsSound

LEMMA DieKeeps ==
  ASSUME BindingInv, NEW p \in Invoker, DieHalfway(p)
  PROVE  BindingInv'
  <1>1. Leave(p) /\ UNCHANGED <<actor, active, binding, row, lapses, issued>>
    BY DEF DieHalfway, tables
  <1>2. deaths' \in 0..MaxDeaths
    BY BindingAssumption DEF DieHalfway, BindingInv, CountersTypeOK
  <1>3. QED BY <1>1, <1>2, Leaves DEF BindingInv, TablesTypeOK, CountersTypeOK

LEMMA BindingInvHolds == BindingInit => BindingInv
  <1> SUFFICES ASSUME BindingInit PROVE BindingInv
    OBVIOUS
  <1>1. 1 \in 1..MaxEpoch
    BY BindingAssumption
  <1>2. \A h \in BOOLEAN : /\ [epoch |-> 1, status |-> "Healthy", beating |-> h] \in ActorState
                           /\ [epoch |-> 1, status |-> "Absent", beating |-> h] \in ActorState
    BY <1>1 DEF ActorState
  <1>3. actor \in [Actors -> ActorState]
    BY <1>2 DEF BindingInit
  <1>4. row \in [Actors -> Row]
    BY <1>1 DEF BindingInit, Row
  <1>5. TablesTypeOK
    BY <1>3, <1>4 DEF BindingInit, TablesTypeOK
  <1>6. CountersTypeOK
    BY BindingAssumption DEF BindingInit, CountersTypeOK
  <1>7. InvokedIsSound
    BY DEF BindingInit, InvokedIsSound
  <1>8. QED BY <1>5, <1>6, <1>7 DEF BindingInv

LEMMA StepKeeps ==
  ASSUME BindingInv, NEW p \in Invoker, BindingStep(p)
  PROVE  BindingInv'
  <1>1. CASE LockWorkspace(p) \/ LockPrimary(p) \/ LockCaller(p) \/ LockActors(p) \/ Adopt(p)
    BY <1>1, LockWorkspaceKeeps, LockPrimaryKeeps, LockCallerKeeps, LockActorsKeeps, AdoptKeeps
  <1>2. CASE Fence(p) \/ Expire(p) \/ Recover(p) \/ Authenticate(p) \/ Heartbeat(p)
    BY <1>2, FenceKeeps, ExpireKeeps, RecoverKeeps, AuthenticateKeeps, HeartbeatKeeps
  <1>3. CASE ReadSession(p) \/ WriteSession(p) \/ Bootstrap(p) \/ Activate(p) \/ Bind(p)
    BY <1>3, ReadSessionKeeps, WriteSessionKeeps, BootstrapKeeps, ActivateKeeps, BindKeeps
  <1>4. CASE \/ Work(p) \/ BeginStop(p) \/ StopRow(p) \/ StopActor(p) \/ Shutdown(p)
             \/ Finish(p)
    BY <1>4, LeavingKeeps, BeginStopKeeps, StopRowKeeps, StopActorKeeps, ShutdownKeeps
  <1>5. QED BY <1>1, <1>2, <1>3, <1>4 DEF BindingStep

LEMMA NextKeeps ==
  ASSUME BindingInv, FullNext
  PROVE  BindingInv'
  <1>1. ASSUME NEW p \in Invoker, BindingStep(p) \/ DieHalfway(p)
        PROVE  BindingInv'
    BY <1>1, StepKeeps, DieKeeps
  <1>2. ASSUME NEW p \in Invoker, NEW c \in Callers, NEW op \in Operation,
               NEW of \in Actors \cup {Nothing}, Enter(p, c, op, of)
        PROVE  BindingInv'
    BY <1>2, EnterKeeps
  <1>3. ASSUME NEW a \in Actors, Lapse(a)
        PROVE  BindingInv'
    BY <1>3, LapseKeeps
  <1>4. QED BY <1>1, <1>2, <1>3 DEF FullNext, Calls

\* Whatever invocations run and wherever they die, what each holds at its stage and
\* what it has earned there is as its record says (acquire_operation_guards, execute).
THEOREM BindingsKeepInv == FullSpec => []BindingInv
  <1>1. BindingInit => BindingInv
    BY BindingInvHolds
  <1>2. BindingInv /\ [FullNext]_bindingVars => BindingInv'
    <2>1. BindingInv /\ UNCHANGED bindingVars => BindingInv'
      BY DEF bindingVars, tables, BindingInv, TablesTypeOK, CountersTypeOK, InvokedIsSound
    <2>2. QED BY <2>1, NextKeeps
  <1>3. QED BY <1>1, <1>2, PTL DEF FullSpec

\* The tables, the invocations and the counters keep their types (actors, bindings,
\* session rows, and commands between two locks).
THEOREM BindingTypes == FullSpec => []BindingTypeOK
  <1>1. BindingInv => BindingTypeOK
    BY DEF BindingInv, BindingTypeOK, TablesTypeOK, CountersTypeOK, InvokedIsSound
  <1>2. QED BY <1>1, BindingsKeepInv, PTL

-----------------------------------------------------------------------------
(* Waiting goes up the stages.                                             *)

\* An invocation waits at one of five stages, and only for invocations that are past
\* it: locks are taken in one order, all actors' at once, and the late lock of an
\* executor's bootstrap by one that holds no actor.
LEMMA WaitsForLater ==
  ASSUME BindingInv, NEW p \in Invoker, NEW q \in WaitsFor(p)
  PROVE  /\ q \in Invoker /\ invoked[p] # Nothing /\ invoked[q] # Nothing
         /\ \/ invoked[p].stage = "workspace" /\ invoked[q].stage # "workspace"
            \/ /\ invoked[p].stage = "primary"
               /\ invoked[q].stage \notin {"workspace", "primary"}
            \/ /\ invoked[p].stage = "caller"
               /\ invoked[q].stage \notin {"workspace", "primary", "caller"}
            \/ /\ invoked[p].stage \in {"actors", "adopt"}
               /\ invoked[q].stage \notin {"workspace", "primary", "caller", "actors", "adopt"}
  <1>1. /\ invoked[p] # Nothing /\ q \in Invoker /\ invoked[q] # Nothing
        /\ \/ /\ invoked[p].stage = "workspace"
              /\ ~Compatible(WorkspaceMode(invoked[p].op), invoked[q].workspace)
           \/ /\ invoked[p].stage = "primary"
              /\ ~Compatible(invoked[p].wants, invoked[q].primary)
           \/ LocksWanted(p) \cap invoked[q].locks # {}
    BY DEF WaitsFor, Others
  <1>2. /\ invoked[p] \in Invocation /\ HoldsInOrder(invoked[q], binding)
    BY <1>1 DEF BindingInv, InvokedIsSound, Sound
  <1>3. CASE /\ invoked[p].stage = "workspace"
             /\ ~Compatible(WorkspaceMode(invoked[p].op), invoked[q].workspace)
    BY <1>1, <1>2, <1>3 DEF Compatible, WorkspaceMode, HoldsInOrder
  <1>4. CASE /\ invoked[p].stage = "primary"
             /\ ~Compatible(invoked[p].wants, invoked[q].primary)
    BY <1>1, <1>2, <1>4 DEF Compatible, Invocation, Mode, HoldsInOrder
  <1>5. CASE LocksWanted(p) \cap invoked[q].locks # {}
    <2>1. PICK l \in LocksWanted(p) : l \in invoked[q].locks
      BY <1>5
    <2>2. invoked[p].stage \in {"caller", "actors", "adopt"}
      BY <1>1, <2>1, WantedLocks
    <2>3. invoked[q].stage \notin {"workspace", "primary", "caller"}
      BY <1>2, <2>1 DEF HoldsInOrder
    <2>4. invoked[p].stage \in {"actors", "adopt"} =>
            invoked[q].stage \notin {"actors", "adopt"}
      BY <1>1, <1>2, <2>1, WantedLocks DEF HoldsInOrder, ActorLocks
    <2>5. QED BY <1>1, <2>2, <2>3, <2>4
  <1>6. QED BY <1>1, <1>3, <1>4, <1>5

LEMMA NoCircle == BindingInv => NobodyWaitsInACircle
  <1> SUFFICES ASSUME BindingInv, NEW S \in SUBSET Invoker, S # {}
               PROVE  \E p \in S : WaitsFor(p) \cap S = {}
    BY DEF NobodyWaitsInACircle
  <1> DEFINE At(p, stages) == invoked[p] # Nothing /\ invoked[p].stage \in stages
  <1>1. ASSUME NEW p \in S, \A q \in WaitsFor(p) : q \notin S
        PROVE  \E x \in S : WaitsFor(x) \cap S = {}
    BY <1>1
  <1>2. CASE \E p \in S : ~At(p, {"workspace", "primary", "caller", "actors", "adopt"})
    BY <1>1, <1>2, WaitsForLater
  <1>3. CASE /\ \A p \in S : At(p, {"workspace", "primary", "caller", "actors", "adopt"})
             /\ \E p \in S : At(p, {"actors", "adopt"})
    BY <1>1, <1>3, WaitsForLater
  <1>4. CASE /\ \A p \in S : At(p, {"workspace", "primary", "caller"})
             /\ \E p \in S : At(p, {"caller"})
    BY <1>1, <1>4, WaitsForLater
  <1>5. CASE /\ \A p \in S : At(p, {"workspace", "primary"})
             /\ \E p \in S : At(p, {"primary"})
    BY <1>1, <1>5, WaitsForLater
  <1>6. CASE \A p \in S : At(p, {"workspace"})
    BY <1>1, <1>6, WaitsForLater
  <1>7. QED BY <1>2, <1>3, <1>4, <1>5, <1>6

\* However many commands run, over whichever callers and actors, and wherever they
\* die, no set of them waits for its own members' locks (acquire_operation_guards, the
\* late actor lock of bootstrap_bound_actor).
THEOREM NobodyDeadlocks == FullSpec => []NobodyWaitsInACircle
  BY BindingsKeepInv, NoCircle, PTL

-----------------------------------------------------------------------------
(* Who holds the locks, and what they protect.                             *)


Waiting == {"workspace", "primary", "caller", "actors"}
Before == Waiting \cup {"fence"}
Standing == {"fence", "expire", "recover", "authenticate", "bootstrap"}

\* The locks of an invocation: those of its operation, of its caller, of the actor its
\* caller is bound to and of the one that it stops.
HoldsLocks(i, bound) ==
  /\ i.stage \notin {"workspace", "dispatched"} => i.workspace = WorkspaceMode(i.op)
  /\ i.stage \notin {"workspace", "primary"} => i.primary = i.wants
  /\ i.stage \notin {"workspace", "primary", "caller"} => CallerLock(i.caller) \in i.locks
  /\ /\ i.stage \in Standing \/ (i.op # "bootstrap" /\ i.stage \notin Waiting)
     /\ bound[i.caller] # Nothing
     => ActorLock(bound[i.caller].id) \in i.locks
  /\ i.op = "stop" /\ i.stage \notin Waiting => ActorLock(i.of) \in i.locks

\* The mode of the Primary's lock is enough for what is done under it.
WantsEnough(i) ==
  /\ i.op = "stop" => i.caller \in Human
  /\ i.stage # "workspace" /\ i.op \in {"work", "stop"} /\ i.caller \in Human => i.wants # "none"
  /\ i.expires => i.stage # "workspace" /\ i.wants = "Exclusive"
  /\ i.op = "bootstrap" /\ i.caller \in Human /\ i.stage \notin Before => i.wants = "Exclusive"

\* A person speaks for a Primary, a pane for the executor that was launched in it.
Own(c, ref) == IF c \in Agent THEN ref.id = c ELSE ref.id \in Human
SpeaksForOwn(i) ==
  /\ i.stage \in {"beat", "session", "write", "bind", "adopt", "run"} => Own(i.caller, i.ref)
  /\ i.stage \in {"activate", "write"} => i.caller \in Human
  /\ i.stage = "adopt" => i.caller \in Agent
  /\ i.stage \in {"adopt", "activate", "bind"} => i.op = "bootstrap"
  /\ i.stage \in {"row", "actor"} => i.op = "stop" /\ i.ref.id = i.of

Admitted(i, bound) == HoldsLocks(i, bound) /\ WantsEnough(i) /\ SpeaksForOwn(i)

Disjoint(i, j) ==
  /\ i.workspace = "Exclusive" => j.workspace = "none"
  /\ i.primary = "Exclusive" => j.primary = "none"
  /\ i.locks \cap j.locks = {}

LockInv ==
  /\ \A p \in Invoker : invoked[p] # Nothing => Admitted(invoked[p], binding)
  /\ \A p, q \in Invoker : p # q /\ invoked[p] # Nothing /\ invoked[q] # Nothing =>
       Disjoint(invoked[p], invoked[q])

-----------------------------------------------------------------------------
(* What a step leaves to the others.                                       *)

Steps(p, w) == Becomes(p, w) \/ \E a \in Actors : Writes(p, a, w)

\* But for what its row says.
Alike(i, w) ==
  /\ w.stage = i.stage /\ w.caller = i.caller /\ w.op = i.op /\ w.of = i.of
  /\ w.workspace = i.workspace /\ w.primary = i.primary /\ w.wants = i.wants
  /\ w.expires = i.expires /\ w.locks = i.locks /\ w.ref = i.ref

LEMMA OthersAreAlike ==
  ASSUME InvokedIsSound, NEW p \in Invoker, NEW w, Steps(p, w)
  PROVE  /\ invoked'[p] = w
         /\ \A q \in Invoker \ {p} :
              /\ invoked[q] = Nothing => invoked'[q] = Nothing
              /\ invoked[q] # Nothing => invoked'[q] # Nothing /\ Alike(invoked[q], invoked'[q])
  <1>1. \A q \in Invoker : invoked[q] # Nothing => invoked[q] \in Invocation
    BY DEF InvokedIsSound, Sound
  <1>2. \A i \in Invocation : /\ Alike(i, i) /\ Alike(i, [i EXCEPT !.fresh = FALSE])
                              /\ [i EXCEPT !.fresh = FALSE] # Nothing
    <2>1. \A i \in Invocation : [i EXCEPT !.fresh = FALSE] \in Invocation
      BY DEF Invocation
    <2>2. \A i \in Invocation : Alike(i, i) /\ Alike(i, [i EXCEPT !.fresh = FALSE])
      BY DEF Alike, Invocation
    <2>3. QED BY <2>1, <2>2, InvocationAssumption
  <1>3. CASE Becomes(p, w)
    BY <1>1, <1>2, <1>3 DEF Becomes, InvokedIsSound
  <1>4. ASSUME NEW a \in Actors, Writes(p, a, w)
        PROVE  /\ invoked'[p] = w
               /\ \A q \in Invoker \ {p} :
                    \/ invoked'[q] = invoked[q]
                    \/ invoked[q] # Nothing /\ invoked'[q] = [invoked[q] EXCEPT !.fresh = FALSE]
    BY <1>4 DEF Writes
  <1>5. QED BY <1>1, <1>2, <1>3, <1>4 DEF Steps

LEMMA NothingUndone ==
  ASSUME InvokedIsSound, NEW p \in Invoker, invoked[p] # Nothing
  PROVE  invoked[p] \in Invocation /\ invoked[p].caller \in Callers
  BY DEF InvokedIsSound, Sound, Invocation

\* Two invocations past their callers' locks have different callers.
LEMMA CallersDiffer ==
  ASSUME LockInv, NEW p \in Invoker, NEW q \in Invoker \ {p},
         invoked[p] # Nothing, invoked[q] # Nothing,
         invoked[p].stage \notin {"workspace", "primary", "caller"},
         invoked[q].stage \notin {"workspace", "primary", "caller"}
  PROVE  invoked[p].caller # invoked[q].caller
  <1>1. invoked[p].locks \cap invoked[q].locks = {}
    BY DEF LockInv, Disjoint
  <1>2. /\ CallerLock(invoked[p].caller) \in invoked[p].locks
        /\ CallerLock(invoked[q].caller) \in invoked[q].locks
    BY DEF LockInv, Admitted, HoldsLocks
  <1>3. QED BY <1>1, <1>2

\* What the others hold stays right as long as nobody past its caller's lock is bound
\* by somebody else.
LEMMA LocksCarry ==
  ASSUME InvokedIsSound, LockInv, NEW p \in Invoker, NEW w, Steps(p, w),
         binding' = binding
           \/ /\ invoked[p] # Nothing
              /\ invoked[p].stage \notin {"workspace", "primary", "caller"}
              /\ \A c \in Callers : c # invoked[p].caller => binding'[c] = binding[c],
         w = Nothing \/ /\ Admitted(w, binding')
                        /\ \A q \in Invoker \ {p} : invoked[q] # Nothing =>
                             Disjoint(w, invoked[q]) /\ Disjoint(invoked[q], w)
  PROVE  LockInv'
  <1>1. /\ invoked'[p] = w
        /\ \A q \in Invoker \ {p} :
              /\ invoked[q] = Nothing => invoked'[q] = Nothing
              /\ invoked[q] # Nothing => invoked'[q] # Nothing /\ Alike(invoked[q], invoked'[q])
    BY OthersAreAlike
  <1>2. ASSUME NEW q \in Invoker, invoked'[q] # Nothing
        PROVE  Admitted(invoked'[q], binding')
    <2>1. CASE q = p
      BY <1>1, <1>2, <2>1
    <2>2. CASE q # p
      <3> DEFINE j == invoked[q]
                 k == invoked'[q]
      <3>1. j # Nothing /\ Alike(j, k) /\ Admitted(j, binding) /\ j.caller \in Callers
        BY <1>1, <1>2, <2>2, NothingUndone DEF LockInv
      <3>2. \/ binding'[j.caller] = binding[j.caller]
            \/ j.stage \in {"workspace", "primary", "caller"}
        BY <2>2, <3>1, CallersDiffer
      <3> HIDE DEF j, k
      <3>3. HoldsLocks(k, binding')
        BY <3>1, <3>2 DEF Admitted, HoldsLocks, Alike, Standing, Waiting
      <3>4. WantsEnough(k) /\ SpeaksForOwn(k)
        BY <3>1 DEF Admitted, WantsEnough, SpeaksForOwn, Alike
      <3>5. QED BY <3>3, <3>4 DEF Admitted, k
    <2>3. QED BY <2>1, <2>2
  <1>3. ASSUME NEW q \in Invoker, NEW r \in Invoker, q # r,
               invoked'[q] # Nothing, invoked'[r] # Nothing
        PROVE  Disjoint(invoked'[q], invoked'[r])
    BY <1>1, <1>3 DEF LockInv, Disjoint, Alike
  <1>4. QED BY <1>2, <1>3 DEF LockInv

LEMMA LeavesLocks ==
  ASSUME InvokedIsSound, LockInv, NEW p \in Invoker, Leave(p), UNCHANGED binding
  PROVE  LockInv'
  BY LocksCarry DEF Leave, Steps

\* An invocation past its locks keeps them to the end.
Keeps(i, w) ==
  /\ w.caller = i.caller /\ w.op = i.op /\ (i.op = "stop" => w.of = i.of)
  /\ w.workspace \in {i.workspace, "none"} /\ w.primary = i.primary
  /\ w.wants = i.wants /\ w.expires = i.expires /\ w.locks = i.locks

LEMMA PastLocks ==
  ASSUME InvokedIsSound, LockInv, NEW p \in Invoker, invoked[p] # Nothing,
         invoked[p].stage \notin Waiting,
         NEW w, Steps(p, w), Keeps(invoked[p], w), SpeaksForOwn(w),
         w.stage \notin Before, w.stage \in Standing => invoked[p].stage \in Standing,
         w.workspace = invoked[p].workspace \/ w.stage = "dispatched",
         invoked[p].stage # "dispatched",
         LET i == invoked[p] IN
           i.stage = "fence" /\ i.op = "bootstrap" /\ i.caller \in Human => i.wants = "Exclusive",
         \A c \in Callers : c # invoked[p].caller => binding'[c] = binding[c],
         LET c == invoked[p].caller IN
           \/ binding'[c] = binding[c]
           \/ binding[c] # Nothing /\ binding'[c].id = binding[c].id
           \/ invoked[p].op = "bootstrap" /\ w.stage \notin Standing
  PROVE  LockInv'
  <1> DEFINE i == invoked[p]
  <1>1. Admitted(i, binding)
    BY DEF LockInv
  <1>2. HoldsLocks(w, binding')
    BY <1>1 DEF Admitted, HoldsLocks, Keeps, Standing, Waiting, Before
  <1>3. WantsEnough(w)
    BY <1>1 DEF Admitted, WantsEnough, Keeps, Before, Waiting
  <1>4. \A q \in Invoker \ {p} : invoked[q] # Nothing =>
           Disjoint(w, invoked[q]) /\ Disjoint(invoked[q], w)
    BY DEF LockInv, Disjoint, Keeps
  <1>5. i.stage \notin {"workspace", "primary", "caller"}
    BY DEF Waiting
  <1>6. QED BY <1>2, <1>3, <1>4, <1>5, LocksCarry DEF Admitted

-----------------------------------------------------------------------------
(* The tables, and what an invocation has found in them.                   *)

\* Nobody is bound to what never was, nor two callers to one generation; the holder of
\* the lease is healthy; panes have rows, which stop before their executors.
TablesAgree ==
  /\ \A c \in Callers : binding[c] # Nothing =>
       /\ Own(c, binding[c])
       /\ actor[binding[c].id].status # "Absent"
       /\ binding[c].epoch <= actor[binding[c].id].epoch
  /\ \A c, d \in Callers : c # d /\ binding[c] # Nothing => binding[c] # binding[d]
  /\ active # Nothing => actor[active].status = "Healthy"
  /\ \A a \in Agent : /\ row[a].status # "none" /\ actor[a].status # "Absent"
                      /\ actor[a].status = "Stopped" => row[a].status = "stopped"

\* A bootstrap without the Primary's lock: its caller was superseded when it looked.
Lags(i) == /\ i.op = "bootstrap" /\ i.caller \in Human /\ i.stage \in Before \ {"workspace"}
           /\ i.wants # "Exclusive"

ActivateHolds(i) ==
  i.stage = "activate" =>
    /\ active = Nothing
    /\ binding[i.caller] # Nothing =>
         IsCurrent(binding[i.caller]) /\ binding[i.caller].id = i.of
BindHolds(i) ==
  /\ i.stage = "bind" => /\ IsCurrent(i.ref) /\ (i.caller \in Human => active = i.ref.id)
                         /\ \A d \in Callers \ {i.caller} : binding[d] # i.ref
                         /\ binding[i.caller] # Nothing => binding[i.caller].id = i.ref.id
  /\ i.stage = "adopt" => binding[i.caller] = Nothing /\ IsCurrent(i.ref)
SessionHolds(i) ==
  /\ i.stage \in {"beat", "session", "write", "run"} /\ i.op # "bootstrap" =>
       binding[i.caller] = i.ref
  /\ /\ i.stage \in {"session", "write"} \/ (i.stage = "run" /\ i.op # "shutdown")
     /\ i.caller \in Human
     => HoldsLease(i.ref)
  /\ i.stage = "run" /\ i.op # "shutdown" /\ i.caller \in Human =>
       row[i.ref.id] = [status |-> "idle", epoch |-> i.ref.epoch]
  /\ i.stage = "actor" => row[i.of].status # "idle"

StageHolds(i) ==
  /\ Lags(i) => binding[i.caller] # Nothing /\ ~IsCurrent(binding[i.caller])
  /\ ActivateHolds(i) /\ BindHolds(i) /\ SessionHolds(i)

\* Of the bootstraps of one caller none lags while another is about to bind it.
Apart(i, j) == Lags(i) /\ j.stage \in {"activate", "bind"} => i.caller # j.caller

StagesHold ==
  /\ \A p \in Invoker : invoked[p] # Nothing =>
       /\ StageHolds(invoked[p])
       /\ invoked[p].stage = "write" /\ invoked[p].op = "bootstrap" => invoked[p].fresh
  /\ \A p, q \in Invoker : invoked[p] # Nothing /\ invoked[q] # Nothing =>
       Apart(invoked[p], invoked[q])

\* The bootstrap that binds a caller before there is a session row goes on to write one.
RowsAreComing ==
  \A c \in Callers : binding[c] # Nothing /\ row[binding[c].id].status = "none" =>
    \E q \in Invoker : /\ invoked[q] # Nothing /\ invoked[q].stage \in {"session", "write"}
                       /\ invoked[q].op = "bootstrap" /\ invoked[q].ref.id = binding[c].id

AuthorityInv ==
  BindingInv /\ LockInv /\ TablesAgree /\ StagesHold /\ RowsAreComing /\ BoundCallersCanReturn

-----------------------------------------------------------------------------
(* The locks, step by step.                                                *)

LEMMA EnterLocks ==
  ASSUME AuthorityInv, NEW p \in Invoker, Calls(p)
  PROVE  LockInv'
  <1>1. PICK c \in Callers, op \in Operation, of \in Actors \cup {Nothing} : Enter(p, c, op, of)
    BY DEF Calls
  <1> DEFINE w == [stage |-> "workspace", caller |-> c, op |-> op, of |-> of,
                   workspace |-> "none", primary |-> "none", wants |-> "none",
                   expires |-> FALSE, locks |-> {}, ref |-> Nothing, fresh |-> TRUE]
  <1>2. Becomes(p, w) /\ UNCHANGED binding /\ (op = "stop" => c \in Human)
    BY <1>1 DEF Enter, tables
  <1>3. Admitted(w, binding')
    BY <1>2 DEF Admitted, HoldsLocks, WantsEnough, SpeaksForOwn, Standing, Waiting, Before
  <1>4. \A q \in Invoker \ {p} : Disjoint(w, invoked[q]) /\ Disjoint(invoked[q], w)
    BY DEF Disjoint
  <1> HIDE DEF w
  <1>5. QED BY <1>2, <1>3, <1>4, LocksCarry DEF AuthorityInv, BindingInv, Steps

LEMMA LockWorkspaceLocks ==
  ASSUME AuthorityInv, NEW p \in Invoker, LockWorkspace(p)
  PROVE  LockInv'
  <1> DEFINE i == invoked[p]
             mode == PrimaryMode(i.caller, i.op)
             w == [i EXCEPT !.workspace = WorkspaceMode(i.op), !.wants = mode.mode,
                            !.expires = mode.expires, !.stage = "primary"]
  <1>1. UNCHANGED binding /\ Becomes(p, w) /\ WaitsFor(p) = {}
    BY DEF LockWorkspace, tables
  <1>2. i # Nothing /\ i \in Invocation /\ i.stage = "workspace" /\ Sound(i, binding)
    BY RunningIsSound DEF AuthorityInv, BindingInv, LockWorkspace
  <1>3. i.primary = "none" /\ i.locks = {}
    BY <1>2 DEF Sound, HoldsInOrder
  <1>4. /\ w.stage = "primary" /\ w.caller = i.caller /\ w.op = i.op /\ w.primary = i.primary
        /\ w.locks = i.locks /\ w.workspace = WorkspaceMode(i.op) /\ w.wants = mode.mode
        /\ w.expires = mode.expires
    BY <1>2 DEF Invocation
  <1>5. /\ i.op \in {"work", "stop"} /\ i.caller \in Human => mode.mode # "none"
        /\ mode.expires => mode.mode = "Exclusive"
        /\ i.op = "stop" => i.caller \in Human
    BY <1>2 DEF PrimaryMode, AuthorityInv, LockInv, Admitted, WantsEnough
  <1> HIDE DEF mode, w
  <1>6. Admitted(w, binding')
    BY <1>4, <1>5 DEF Admitted, HoldsLocks, WantsEnough, SpeaksForOwn, Standing, Waiting, Before
  <1>7. ASSUME NEW q \in Invoker \ {p}, invoked[q] # Nothing
        PROVE  Disjoint(w, invoked[q]) /\ Disjoint(invoked[q], w)
    <2>1. i # Nothing /\ i.stage = "workspace"
      BY <1>2
    <2>2. Compatible(WorkspaceMode(i.op), invoked[q].workspace)
      BY <1>1, <1>7, <2>1 DEF WaitsFor, Others
    <2>3. QED BY <1>3, <1>4, <2>2 DEF Disjoint, Compatible, WorkspaceMode
  <1>8. QED BY <1>1, <1>6, <1>7, LocksCarry DEF AuthorityInv, BindingInv, Steps

LEMMA LockPrimaryLocks ==
  ASSUME AuthorityInv, NEW p \in Invoker, LockPrimary(p)
  PROVE  LockInv'
  <1> DEFINE i == invoked[p]
             w == [i EXCEPT !.primary = i.wants, !.stage = "caller"]
  <1>1. UNCHANGED binding /\ Becomes(p, w) /\ WaitsFor(p) = {}
    BY DEF LockPrimary, tables
  <1>2. i # Nothing /\ i \in Invocation /\ i.stage = "primary" /\ Admitted(i, binding)
    BY RunningIsSound DEF AuthorityInv, BindingInv, LockPrimary, LockInv
  <1>3. /\ w.stage = "caller" /\ w.caller = i.caller /\ w.op = i.op /\ w.primary = i.wants
        /\ w.locks = i.locks /\ w.workspace = i.workspace /\ w.wants = i.wants
        /\ w.expires = i.expires
    BY <1>2 DEF Invocation
  <1> HIDE DEF w
  <1>4. Admitted(w, binding')
    BY <1>2, <1>3 DEF Admitted, HoldsLocks, WantsEnough, SpeaksForOwn, Standing, Waiting, Before
  <1>5. ASSUME NEW q \in Invoker \ {p}, invoked[q] # Nothing
        PROVE  Disjoint(w, invoked[q]) /\ Disjoint(invoked[q], w)
    <2>1. Compatible(i.wants, invoked[q].primary)
      <3>1. i # Nothing /\ i.stage = "primary"
        BY <1>2
      <3>2. QED BY <1>1, <1>5, <3>1 DEF WaitsFor, Others
    <2>2. Disjoint(i, invoked[q]) /\ Disjoint(invoked[q], i)
      BY <1>2, <1>5 DEF AuthorityInv, LockInv
    <2>3. i.wants \in Mode
      BY <1>2 DEF Invocation
    <2>4. QED BY <1>3, <2>1, <2>2, <2>3 DEF Disjoint, Compatible, Mode
  <1>6. QED BY <1>1, <1>4, <1>5, LocksCarry DEF AuthorityInv, BindingInv, Steps

\* A lock on callers or actors that was waited for is nobody else's.
LEMMA TakenLocks ==
  ASSUME AuthorityInv, NEW p \in Invoker, invoked[p] # Nothing, WaitsFor(p) = {},
         invoked[p].stage \in {"caller", "actors", "adopt"}, NEW next, TakeLocks(p, next),
         next = IF invoked[p].stage = "caller" THEN "actors"
                ELSE IF invoked[p].stage = "actors" THEN "fence" ELSE "bind",
         UNCHANGED binding
  PROVE  LockInv'
  <1> DEFINE i == invoked[p]
             w == [i EXCEPT !.locks = @ \cup LocksWanted(p), !.stage = next]
  <1>1. Becomes(p, w)
    BY DEF TakeLocks
  <1>2. i \in Invocation /\ Sound(i, binding) /\ Admitted(i, binding) /\ i.caller \in Callers
    BY NothingUndone DEF AuthorityInv, BindingInv, InvokedIsSound, Sound, LockInv
  <1>3. /\ w.stage = next /\ w.caller = i.caller /\ w.op = i.op /\ w.primary = i.primary
        /\ w.locks = i.locks \cup LocksWanted(p) /\ w.workspace = i.workspace
        /\ w.wants = i.wants /\ w.expires = i.expires /\ w.of = i.of /\ w.ref = i.ref
    BY <1>2 DEF Invocation
  <1> HIDE DEF w
  <1>4. i.stage = "caller" => CallerLock(i.caller) \in LocksWanted(p)
    BY DEF LocksWanted
  <1>5. /\ i.stage = "actors" /\ binding[i.caller] # Nothing =>
             ActorLock(binding[i.caller].id) \in LocksWanted(p)
        /\ i.stage = "actors" /\ i.op = "stop" => ActorLock(i.of) \in LocksWanted(p)
    BY DEF LocksWanted
  <1>6. i.stage = "adopt" => i.op = "bootstrap"
    BY <1>2 DEF Admitted, SpeaksForOwn
  <1>7. Admitted(w, binding')
    <2>1. HoldsLocks(w, binding')
      BY <1>2, <1>3, <1>4, <1>5, <1>6 DEF Admitted, HoldsLocks, Standing, Waiting
    <2>2. WantsEnough(w)
      BY <1>2, <1>3 DEF Admitted, WantsEnough, Before, Waiting
    <2>3. SpeaksForOwn(w)
      BY <1>2, <1>3 DEF Admitted, SpeaksForOwn
    <2>4. QED BY <2>1, <2>2, <2>3 DEF Admitted
  <1>8. ASSUME NEW q \in Invoker \ {p}, invoked[q] # Nothing
        PROVE  Disjoint(w, invoked[q]) /\ Disjoint(invoked[q], w)
    <2>1. Disjoint(i, invoked[q]) /\ Disjoint(invoked[q], i)
      BY <1>8 DEF AuthorityInv, LockInv
    <2>2. LocksWanted(p) \cap invoked[q].locks = {}
      BY <1>8 DEF WaitsFor, Others
    <2>3. QED BY <1>3, <2>1, <2>2 DEF Disjoint
  <1>9. QED BY <1>1, <1>7, <1>8, LocksCarry DEF AuthorityInv, BindingInv, Steps

LEMMA TakingLocks ==
  ASSUME AuthorityInv, NEW p \in Invoker, LockCaller(p) \/ LockActors(p) \/ Adopt(p)
  PROVE  LockInv'
  BY TakenLocks DEF LockCaller, LockActors, Adopt, InStage, tables

\* An invocation that goes on, and may learn which generation it speaks for.
Goes(i, w, s) == Keeps(i, w) /\ w.stage = s /\ w.workspace = i.workspace

LEMMA GoingOn ==
  ASSUME NEW i \in Invocation, NEW s, NEW r, NEW f
  PROVE  /\ LET w == [i EXCEPT !.stage = s] IN
              Goes(i, w, s) /\ w.ref = i.ref /\ w.of = i.of /\ w.fresh = i.fresh
         /\ LET w == [i EXCEPT !.stage = s, !.ref = r] IN
              Goes(i, w, s) /\ w.ref = r /\ w.of = i.of
         /\ LET w == [i EXCEPT !.stage = s, !.fresh = f] IN
              Goes(i, w, s) /\ w.ref = i.ref /\ w.of = i.of /\ w.fresh = f
         /\ LET w == [i EXCEPT !.ref = r, !.fresh = f, !.stage = s] IN
              Goes(i, w, s) /\ w.ref = r /\ w.of = i.of
         /\ LET w == [i EXCEPT !.stage = s, !.of = r] IN
              i.op # "stop" => Goes(i, w, s) /\ w.ref = i.ref /\ w.of = r
  BY DEF Invocation, Goes, Keeps

\* Past its locks, with the tables as they were.
LEMMA GoesOnLocked ==
  ASSUME AuthorityInv, NEW p \in Invoker, invoked[p] # Nothing,
         invoked[p].stage \notin Waiting \cup {"dispatched"}, NEW s, NEW w, Steps(p, w),
         Goes(invoked[p], w, s), SpeaksForOwn(w), s \notin Before,
         s \in Standing => invoked[p].stage \in Standing,
         LET i == invoked[p] IN
           i.stage = "fence" /\ i.op = "bootstrap" /\ i.caller \in Human => i.wants = "Exclusive",
         UNCHANGED binding
  PROVE  LockInv'
  BY PastLocks DEF AuthorityInv, BindingInv, Goes

LEMMA FenceLocks ==
  ASSUME AuthorityInv, NEW p \in Invoker, Fence(p)
  PROVE  LockInv'
  <1> DEFINE i == invoked[p]
             w(s) == [i EXCEPT !.stage = s]
  <1>1. i # Nothing /\ i \in Invocation /\ i.stage = "fence" /\ StageHolds(i)
    BY RunningIsSound DEF Fence, AuthorityInv, BindingInv, StagesHold
  <1>2. /\ UNCHANGED binding
        /\ \/ Leave(p)
           \/ FenceOf(i.caller) # "superseded" /\ \E s \in {"bootstrap", "expire"} : Becomes(p, w(s))
    BY DEF Fence, Goto, tables
  <1>3. FenceOf(i.caller) # "superseded" /\ i.op = "bootstrap" /\ i.caller \in Human =>
           i.wants = "Exclusive"
    <2>1. Lags(i) => binding[i.caller] # Nothing /\ ~IsCurrent(binding[i.caller])
      BY <1>1 DEF StageHolds
    <2>2. binding[i.caller] # Nothing /\ ~IsCurrent(binding[i.caller]) =>
            FenceOf(i.caller) = "superseded"
      BY DEF FenceOf
    <2>3. i.stage \in Before \ {"workspace"}
      BY <1>1 DEF Before
    <2>4. QED BY <2>1, <2>2, <2>3 DEF Lags
  <1>4. CASE Leave(p)
    BY <1>2, <1>4, LeavesLocks DEF AuthorityInv, BindingInv
  <1>5. ASSUME NEW s \in {"bootstrap", "expire"}, FenceOf(i.caller) # "superseded",
               Becomes(p, w(s))
        PROVE  LockInv'
    <2>1. PICK v : v = w(s)
      OBVIOUS
    <2>2. Goes(i, v, s)
      BY <1>1, <2>1, GoingOn
    <2>3. SpeaksForOwn(v)
      BY <2>2 DEF SpeaksForOwn, Goes
    <2>4. Steps(p, v)
      BY <1>5, <2>1 DEF Steps
    <2>5. i.stage \notin Waiting \cup {"dispatched"} /\ s \notin Before /\ i.stage \in Standing
      BY <1>1, <1>5 DEF Waiting, Before, Standing
    <2>6. QED BY <1>1, <1>2, <1>3, <1>5, <2>2, <2>3, <2>4, <2>5, GoesOnLocked
  <1>6. QED BY <1>2, <1>4, <1>5

LEMMA ExpireLocks ==
  ASSUME AuthorityInv, NEW p \in Invoker, Expire(p)
  PROVE  LockInv'
  <1> DEFINE i == invoked[p]
  <1>1. i # Nothing /\ i \in Invocation /\ i.stage = "expire"
    BY RunningIsSound DEF Expire, AuthorityInv, BindingInv
  <1>2. PICK s \in {"recover", "bootstrap"} : Goto(p, s)
    BY DEF Expire
  <1>3. PICK v : v = [i EXCEPT !.stage = s]
    OBVIOUS
  <1>4. Goes(i, v, s) /\ Steps(p, v)
    BY <1>1, <1>2, <1>3, GoingOn DEF Goto, Steps
  <1>5. SpeaksForOwn(v)
    BY <1>4 DEF SpeaksForOwn, Goes
  <1>6. UNCHANGED binding
    BY DEF Expire
  <1>7. /\ i.stage \notin Waiting \cup {"dispatched"} /\ s \notin Before
        /\ i.stage \in Standing /\ i.stage # "fence"
    BY <1>1 DEF Waiting, Before, Standing
  <1>8. QED BY <1>1, <1>4, <1>5, <1>6, <1>7, GoesOnLocked

\* At a given late stage, with the invocation that leaves it still speaking for its own.
LEMMA LateLocks ==
  ASSUME AuthorityInv, NEW p \in Invoker, NEW s, InStage(p, s),
         s \in {"authenticate", "beat", "session", "write", "run", "row"}, NEW w, Steps(p, w),
         NEW t \in {"beat", "session", "write", "run", "row", "actor", "dispatched"},
         Goes(invoked[p], w, t),
         t \in {"beat", "session", "write", "run"} => Own(w.caller, w.ref),
         t = "write" => w.caller \in Human,
         t \in {"row", "actor"} => w.op = "stop" /\ w.ref.id = w.of,
         UNCHANGED binding
  PROVE  LockInv'
  <1>1. invoked[p] # Nothing /\ invoked[p].stage = s
    BY DEF InStage
  <1>2. SpeaksForOwn(w)
    BY DEF SpeaksForOwn, Goes
  <1>3. /\ s \notin Waiting \cup {"dispatched"} /\ t \notin Before /\ t \notin Standing
        /\ s # "fence"
    BY DEF Waiting, Before, Standing
  <1>4. QED BY <1>1, <1>2, <1>3, GoesOnLocked

LEMMA OwnStage ==
  ASSUME AuthorityInv, NEW p \in Invoker, NEW s, InStage(p, s)
  PROVE  /\ invoked[p] # Nothing /\ invoked[p] \in Invocation /\ invoked[p].stage = s
         /\ invoked[p].caller \in Callers /\ SpeaksForOwn(invoked[p]) /\ StageHolds(invoked[p])
         /\ Sound(invoked[p], binding) /\ Admitted(invoked[p], binding)
  BY RunningIsSound DEF AuthorityInv, BindingInv, LockInv, Admitted, StagesHold, Invocation

LEMMA AuthenticateLocks ==
  ASSUME AuthorityInv, NEW p \in Invoker, Authenticate(p)
  PROVE  LockInv'
  <1> DEFINE i == invoked[p]
             ref == binding[i.caller]
  <1>1. InStage(p, "authenticate") /\ UNCHANGED binding
    BY DEF Authenticate, tables
  <1>2. /\ i \in Invocation /\ i.caller \in Callers /\ i.op # "bootstrap" /\ ref # Nothing
    BY <1>1, OwnStage DEF Sound, StageIsEarned, Authenticated
  <1>3. PICK v : v = [i EXCEPT !.stage = "beat", !.ref = ref]
    OBVIOUS
  <1>4. Leave(p) \/ Steps(p, v)
    BY <1>3 DEF Authenticate, Steps
  <1>5. Goes(i, v, "beat") /\ v.ref = ref /\ v.caller = i.caller
    BY <1>2, <1>3, GoingOn DEF Goes, Keeps
  <1>6. Own(v.caller, v.ref)
    BY <1>2, <1>5 DEF AuthorityInv, TablesAgree
  <1>7. QED BY <1>1, <1>4, <1>5, <1>6, LateLocks, LeavesLocks DEF AuthorityInv, BindingInv

LEMMA HeartbeatLocks ==
  ASSUME AuthorityInv, NEW p \in Invoker, Heartbeat(p)
  PROVE  LockInv'
  <1> DEFINE i == invoked[p]
  <1>1. InStage(p, "beat") /\ UNCHANGED binding
    BY DEF Heartbeat
  <1>2. i \in Invocation /\ Own(i.caller, i.ref)
    BY <1>1, OwnStage DEF SpeaksForOwn
  <1>3. PICK t \in {"run", "session"} : Leave(p) \/ Goto(p, t)
    BY DEF Heartbeat, AfterBeat
  <1>4. PICK v : v = [i EXCEPT !.stage = t]
    OBVIOUS
  <1>5. Goes(i, v, t) /\ v.ref = i.ref /\ v.caller = i.caller /\ (Leave(p) \/ Steps(p, v))
    BY <1>2, <1>3, <1>4, GoingOn DEF Goes, Keeps, Goto, Steps
  <1>6. Own(v.caller, v.ref)
    BY <1>2, <1>5
  <1>7. QED BY <1>1, <1>5, <1>6, LateLocks, LeavesLocks DEF AuthorityInv, BindingInv

LEMMA ReadSessionLocks ==
  ASSUME AuthorityInv, NEW p \in Invoker, ReadSession(p)
  PROVE  LockInv'
  <1> DEFINE i == invoked[p]
  <1>1. InStage(p, "session") /\ UNCHANGED binding
    BY DEF ReadSession, tables
  <1>2. i \in Invocation /\ i.caller \in Callers /\ Own(i.caller, i.ref)
    BY <1>1, OwnStage DEF SpeaksForOwn
  <1>3. CASE Leave(p)
    BY <1>1, <1>3, LeavesLocks DEF AuthorityInv, BindingInv
  <1>4. ASSUME NEW t \in {"run", "dispatched"}, Goto(p, t)
        PROVE  LockInv'
    <2>1. PICK v : v = [i EXCEPT !.stage = t]
      OBVIOUS
    <2>2. Goes(i, v, t) /\ v.ref = i.ref /\ v.caller = i.caller /\ Steps(p, v)
      BY <1>2, <1>4, <2>1, GoingOn DEF Goes, Keeps, Goto, Steps
    <2>3. QED BY <1>1, <1>2, <2>2, LateLocks
  <1>5. CASE /\ active = i.ref.id /\ IsCurrent(i.ref)
             /\ Becomes(p, [i EXCEPT !.stage = "write", !.fresh = TRUE])
    <2>1. PICK v : v = [i EXCEPT !.stage = "write", !.fresh = TRUE]
      OBVIOUS
    <2>2. Goes(i, v, "write") /\ v.ref = i.ref /\ v.caller = i.caller /\ Steps(p, v)
      BY <1>2, <1>5, <2>1, GoingOn DEF Goes, Keeps, Steps
    <2>3. i.ref # Nothing /\ i.ref \in Ref
      BY <1>1, OwnStage DEF Sound, StageIsEarned, Speaking, Invocation
    <2>4. i.ref.id \in Actors
      BY <2>3 DEF Ref
    <2>5. i.ref.id \in Human
      BY <1>5, <2>4, BindingAssumption DEF AuthorityInv, BindingInv, TablesTypeOK, Actors, Callers
    <2>6. i.caller \in Human
      BY <1>2, <2>5, BindingAssumption DEF Own, Callers
    <2>7. QED BY <1>1, <1>2, <2>2, <2>6, LateLocks
  <1>6. QED BY <1>3, <1>4, <1>5 DEF ReadSession, AfterSession

LEMMA WriteSessionLocks ==
  ASSUME AuthorityInv, NEW p \in Invoker, WriteSession(p)
  PROVE  LockInv'
  <1> DEFINE i == invoked[p]
  <1>1. InStage(p, "write") /\ UNCHANGED binding
    BY DEF WriteSession
  <1>2. i \in Invocation /\ Own(i.caller, i.ref) /\ i.ref # Nothing
    BY <1>1, OwnStage DEF SpeaksForOwn, Sound, StageIsEarned, Speaking
  <1>3. i.ref.id \in Actors
    BY <1>2 DEF Invocation, Ref
  <1>4. PICK t \in {"run", "dispatched"} : t = AfterSession(i.op)
    BY DEF AfterSession
  <1>5. PICK v : v = [i EXCEPT !.stage = t]
    OBVIOUS
  <1>6. Leave(p) \/ Steps(p, v)
    BY <1>3, <1>4, <1>5 DEF WriteSession, Steps
  <1>7. Goes(i, v, t) /\ v.ref = i.ref /\ v.caller = i.caller
    BY <1>2, <1>5, GoingOn DEF Goes, Keeps
  <1>8. QED BY <1>1, <1>2, <1>6, <1>7, LateLocks, LeavesLocks DEF AuthorityInv, BindingInv

LEMMA BeginStopLocks ==
  ASSUME AuthorityInv, NEW p \in Invoker, BeginStop(p)
  PROVE  LockInv'
  <1> DEFINE i == invoked[p]
  <1>1. InStage(p, "run") /\ i.op = "stop" /\ UNCHANGED binding
    BY DEF BeginStop, tables
  <1>2. i \in Invocation
    BY <1>1, OwnStage
  <1>3. PICK t \in {"actor", "row"} :
          Leave(p) \/ Becomes(p, [i EXCEPT !.ref = RefOf(i.of), !.fresh = TRUE, !.stage = t])
    BY DEF BeginStop
  <1>4. PICK v : v = [i EXCEPT !.ref = RefOf(i.of), !.fresh = TRUE, !.stage = t]
    OBVIOUS
  <1>5. /\ Goes(i, v, t) /\ v.ref = RefOf(i.of) /\ v.of = i.of /\ v.op = i.op
        /\ Leave(p) \/ Steps(p, v)
    BY <1>2, <1>3, <1>4, GoingOn DEF Goes, Keeps, Steps
  <1>6. v.ref.id = v.of
    BY <1>5 DEF RefOf
  <1>7. QED BY <1>1, <1>5, <1>6, LateLocks, LeavesLocks DEF AuthorityInv, BindingInv

LEMMA StopRowLocks ==
  ASSUME AuthorityInv, NEW p \in Invoker, StopRow(p)
  PROVE  LockInv'
  <1> DEFINE i == invoked[p]
  <1>1. InStage(p, "row") /\ UNCHANGED binding
    BY DEF StopRow
  <1>2. i \in Invocation /\ i.op = "stop" /\ i.ref.id = i.of /\ i.of \in Actors
    BY <1>1, OwnStage DEF SpeaksForOwn, Sound, StageIsEarned
  <1>3. PICK v : v = [i EXCEPT !.stage = "actor"]
    OBVIOUS
  <1>4. Leave(p) \/ Steps(p, v)
    BY <1>2, <1>3 DEF StopRow, Steps
  <1>5. Goes(i, v, "actor") /\ v.ref = i.ref /\ v.of = i.of /\ v.op = i.op
    BY <1>2, <1>3, GoingOn DEF Goes, Keeps
  <1>6. QED BY <1>1, <1>2, <1>4, <1>5, LateLocks, LeavesLocks DEF AuthorityInv, BindingInv

LEMMA ShutdownLocks ==
  ASSUME AuthorityInv, NEW p \in Invoker, Shutdown(p)
  PROVE  LockInv'
  <1> DEFINE i == invoked[p]
             w == [i EXCEPT !.stage = "dispatched", !.workspace = "none"]
  <1>1. InStage(p, "run") /\ i.op = "shutdown" /\ UNCHANGED binding
    BY DEF Shutdown
  <1>2. i \in Invocation /\ i # Nothing /\ i.stage = "run" /\ i.ref # Nothing
    BY <1>1, OwnStage DEF Sound, StageIsEarned, Speaking
  <1>3. i.ref.id \in Actors
    BY <1>2 DEF Invocation, Ref
  <1>4. Leave(p) \/ Steps(p, w)
    BY <1>3 DEF Shutdown, Steps
  <1>5. Keeps(i, w) /\ w.stage = "dispatched"
    BY <1>2 DEF Keeps, Invocation
  <1> HIDE DEF w
  <1>6. SpeaksForOwn(w)
    BY <1>5 DEF SpeaksForOwn
  <1>7. /\ i.stage \notin Waiting /\ i.stage # "fence" /\ i.stage # "dispatched"
        /\ w.stage \notin Before /\ w.stage \notin Standing
    BY <1>2, <1>5 DEF Waiting, Before, Standing
  <1>8. Steps(p, w) => LockInv'
    BY <1>1, <1>2, <1>5, <1>6, <1>7, PastLocks DEF AuthorityInv, BindingInv
  <1>9. QED BY <1>1, <1>4, <1>8, LeavesLocks DEF AuthorityInv, BindingInv

LEMMA LeavingLocks ==
  ASSUME AuthorityInv, NEW p \in Invoker,
         Work(p) \/ Finish(p) \/ StopActor(p) \/ DieHalfway(p)
  PROVE  LockInv'
  BY LeavesLocks DEF Work, Finish, StopActor, DieHalfway, tables, AuthorityInv, BindingInv

LEMMA ActivateLocks ==
  ASSUME AuthorityInv, NEW p \in Invoker, Activate(p)
  PROVE  LockInv'
  <1> DEFINE i == invoked[p]
  <1>1. InStage(p, "activate") /\ UNCHANGED binding
    BY DEF Activate
  <1>2. /\ i \in Invocation /\ i # Nothing /\ i.stage = "activate" /\ i.caller \in Human
        /\ i.op = "bootstrap" /\ i.of \in Human
    BY <1>1, OwnStage DEF SpeaksForOwn, Sound, StageIsEarned
  <1> DEFINE e == (IF active = i.of THEN [actor[i.of] EXCEPT !.beating = TRUE] ELSE Begun(i.of)).epoch
             r == [id |-> i.of, epoch |-> e]
  <1>3. Leave(p) \/ Becomes(p, [i EXCEPT !.stage = "bind", !.ref = r])
    BY DEF Activate
  <1>4. PICK v : v = [i EXCEPT !.stage = "bind", !.ref = r]
    OBVIOUS
  <1>5. Goes(i, v, "bind") /\ v.ref = r /\ v.caller = i.caller /\ v.op = i.op
    BY <1>2, <1>4, GoingOn DEF Goes, Keeps
  <1>6. SpeaksForOwn(v)
    BY <1>2, <1>3, <1>5, BindingAssumption DEF SpeaksForOwn, Own, Goes
  <1>7. /\ i.stage \notin Waiting \cup {"dispatched"} /\ i.stage # "fence"
        /\ "bind" \notin Before /\ "bind" \notin Standing
    BY <1>2 DEF Waiting, Before, Standing
  <1>8. Leave(p) \/ Steps(p, v)
    BY <1>3, <1>4 DEF Steps
  <1>9. Steps(p, v) => LockInv'
    BY <1>1, <1>2, <1>5, <1>6, <1>7, GoesOnLocked
  <1>10. QED BY <1>1, <1>8, <1>9, LeavesLocks DEF AuthorityInv, BindingInv

LEMMA BindLocks ==
  ASSUME AuthorityInv, NEW p \in Invoker, Bind(p)
  PROVE  LockInv'
  <1> DEFINE i == invoked[p]
  <1>1. InStage(p, "bind")
    BY DEF Bind
  <1>2. /\ i \in Invocation /\ i # Nothing /\ i.stage = "bind" /\ i.op = "bootstrap"
        /\ Own(i.caller, i.ref) /\ i.caller \in Callers
    BY <1>1, OwnStage DEF SpeaksForOwn
  <1>3. CASE Leave(p) /\ UNCHANGED binding
    BY <1>3, LeavesLocks DEF AuthorityInv, BindingInv
  <1>4. ASSUME NEW t \in {"beat", "session"}, Goto(p, t),
               binding' = [binding EXCEPT ![i.caller] = i.ref]
        PROVE  LockInv'
    <2>1. PICK v : v = [i EXCEPT !.stage = t]
      OBVIOUS
    <2>2. Goes(i, v, t) /\ v.ref = i.ref /\ v.caller = i.caller /\ v.op = i.op /\ Steps(p, v)
      BY <1>2, <1>4, <2>1, GoingOn DEF Goes, Keeps, Goto, Steps
    <2>3. SpeaksForOwn(v)
      BY <1>2, <2>2 DEF SpeaksForOwn, Goes
    <2>4. i.stage \notin Waiting /\ i.stage # "fence" /\ t \notin Before /\ t \notin Standing
      BY <1>2 DEF Waiting, Before, Standing
    <2>5. \A c \in Callers : c # i.caller => binding'[c] = binding[c]
      BY <1>4 DEF AuthorityInv, BindingInv, TablesTypeOK
    <2>6. QED BY <1>2, <2>2, <2>3, <2>4, <2>5, PastLocks DEF AuthorityInv, BindingInv, Goes
  <1>5. PICK t \in {"beat", "session"} : t = IF i.ref.id \in Agent THEN "beat" ELSE "session"
    OBVIOUS
  <1>6. \/ Leave(p) /\ UNCHANGED binding
        \/ Goto(p, t) /\ binding' = [binding EXCEPT ![i.caller] = i.ref]
    BY <1>5 DEF Bind
  <1>7. QED BY <1>3, <1>4, <1>6

\* A generation that is advanced keeps its name.
LEMMA AdvanceLocks ==
  ASSUME AuthorityInv, NEW p \in Invoker, NEW s, InStage(p, s),
         s \in {"recover", "bootstrap"}, NEW c \in Callers, c = invoked[p].caller,
         binding[c] # Nothing,
         NEW t, t = IF s = "recover" THEN "authenticate" ELSE "session",
         AdvanceGeneration(p, c, t)
  PROVE  LockInv'
  <1> DEFINE i == invoked[p]
             a == binding[c].id
  <1>1. /\ i \in Invocation /\ i # Nothing /\ i.stage = s
        /\ binding[c] \in Ref /\ a \in Actors /\ Own(c, binding[c])
    BY OwnStage DEF AuthorityInv, BindingInv, TablesTypeOK, TablesAgree, Ref
  <1>2. i.op = "bootstrap" \/ s = "recover"
    BY OwnStage, <1>1 DEF Sound, StageIsEarned
  <1>3. PICK e : e = Begun(a).epoch
    OBVIOUS
  <1>4. PICK r : r = [id |-> a, epoch |-> e]
    OBVIOUS
  <1>5. PICK v : v = [i EXCEPT !.stage = t, !.ref = r]
    OBVIOUS
  <1>6. Writes(p, a, v) /\ binding' = [binding EXCEPT ![c].epoch = e]
    BY <1>3, <1>4, <1>5 DEF AdvanceGeneration
  <1>7. Goes(i, v, t) /\ v.ref = r /\ v.caller = c /\ Steps(p, v)
    BY <1>1, <1>5, <1>6, GoingOn DEF Goes, Keeps, Steps
  <1>8. /\ \A d \in Callers : d # c => binding'[d] = binding[d]
        /\ binding'[c].id = binding[c].id
    BY <1>1, <1>6 DEF AuthorityInv, BindingInv, TablesTypeOK, Ref
  <1>9. SpeaksForOwn(v)
    BY <1>1, <1>4, <1>7 DEF SpeaksForOwn, Goes, Own
  <1>10. /\ i.stage \notin Waiting \cup {"dispatched"} /\ i.stage # "fence"
         /\ t \notin Before /\ i.stage \in Standing
    BY <1>1 DEF Waiting, Before, Standing
  <1>11. QED BY <1>1, <1>7, <1>8, <1>9, <1>10, PastLocks DEF AuthorityInv, BindingInv, Goes

LEMMA RecoverLocks ==
  ASSUME AuthorityInv, NEW p \in Invoker, Recover(p)
  PROVE  LockInv'
  <1> DEFINE i == invoked[p]
  <1>1. InStage(p, "recover")
    BY DEF Recover
  <1>2. /\ i \in Invocation /\ i.stage = "recover" /\ i # Nothing /\ i.op # "bootstrap"
        /\ binding[i.caller] # Nothing
    BY <1>1, OwnStage DEF Sound, StageIsEarned, Authenticated
  <1>3. PICK c \in Callers : c = i.caller
    BY <1>2 DEF Invocation
  <1>4. CASE Goto(p, "authenticate") /\ UNCHANGED binding
    <2>1. PICK v : v = [i EXCEPT !.stage = "authenticate"]
      OBVIOUS
    <2>2. Goes(i, v, "authenticate") /\ Steps(p, v)
      BY <1>2, <1>4, <2>1, GoingOn DEF Goto, Steps
    <2>3. SpeaksForOwn(v)
      BY <2>2 DEF SpeaksForOwn, Goes
    <2>4. /\ i.stage \notin Waiting \cup {"dispatched"} /\ i.stage # "fence"
          /\ "authenticate" \notin Before /\ i.stage \in Standing
      BY <1>2 DEF Waiting, Before, Standing
    <2>5. QED BY <1>2, <1>4, <2>2, <2>3, <2>4, GoesOnLocked
  <1>5. CASE AdvancePrimary(p, c, "Stale", "authenticate")
    BY <1>1, <1>2, <1>3, <1>5, AdvanceLocks DEF AdvancePrimary
  <1>6. CASE Leave(p) /\ UNCHANGED binding
    BY <1>6, LeavesLocks DEF AuthorityInv, BindingInv
  <1>7. QED BY <1>3, <1>4, <1>5, <1>6 DEF Recover, tables

LEMMA BootstrapLocks ==
  ASSUME AuthorityInv, NEW p \in Invoker, Bootstrap(p)
  PROVE  LockInv'
  <1> DEFINE i == invoked[p]
             ref == binding[i.caller]
  <1>1. InStage(p, "bootstrap")
    BY DEF Bootstrap
  <1>2. /\ i \in Invocation /\ i.stage = "bootstrap" /\ i # Nothing /\ i.op = "bootstrap"
    BY <1>1, OwnStage DEF Sound, StageIsEarned
  <1>3. PICK c \in Callers : c = i.caller
    BY <1>2 DEF Invocation
  <1>4. /\ i.stage \notin Waiting \cup {"dispatched"} /\ i.stage # "fence"
        /\ \A s \in {"beat", "activate", "adopt"} : s \notin Before /\ s \notin Standing
    BY <1>2 DEF Waiting, Before, Standing
  <1>5. ref # Nothing => Own(c, ref) /\ ref \in Ref
    BY <1>3 DEF AuthorityInv, TablesAgree, BindingInv, TablesTypeOK
  <1>6. CASE Leave(p) /\ UNCHANGED binding
    BY <1>6, LeavesLocks DEF AuthorityInv, BindingInv
  <1>7. CASE ref # Nothing /\ Becomes(p, [i EXCEPT !.stage = "beat", !.ref = ref]) /\ UNCHANGED binding
    <2>1. PICK v : v = [i EXCEPT !.stage = "beat", !.ref = ref]
      OBVIOUS
    <2>2. Goes(i, v, "beat") /\ v.ref = ref /\ v.caller = c /\ Steps(p, v)
      BY <1>2, <1>3, <1>7, <2>1, GoingOn DEF Goes, Keeps, Steps
    <2>3. SpeaksForOwn(v)
      BY <1>5, <1>7, <2>2 DEF SpeaksForOwn, Goes
    <2>4. QED BY <1>2, <1>4, <1>7, <2>2, <2>3, GoesOnLocked
  <1>8. CASE c \notin Agent /\ UNCHANGED binding /\
             \E a : Becomes(p, [i EXCEPT !.stage = "activate", !.of = a])
    <2>1. PICK v : Becomes(p, v) /\ \E a : v = [i EXCEPT !.stage = "activate", !.of = a]
      BY <1>8
    <2>2. i.op # "stop"
      BY <1>2
    <2>3. Goes(i, v, "activate") /\ v.caller = c /\ v.op = i.op /\ Steps(p, v)
      BY <1>2, <1>3, <2>1, <2>2, GoingOn DEF Goes, Keeps, Steps
    <2>4. SpeaksForOwn(v)
      BY <1>2, <1>8, <2>3 DEF SpeaksForOwn, Goes, Callers
    <2>5. QED BY <1>2, <1>4, <1>8, <2>3, <2>4, GoesOnLocked
  <1>9. CASE c \in Agent /\ UNCHANGED binding /\
             Becomes(p, [i EXCEPT !.stage = "adopt", !.ref = RefOf(i.caller)])
    <2>1. PICK v : v = [i EXCEPT !.stage = "adopt", !.ref = RefOf(i.caller)]
      OBVIOUS
    <2>2. /\ Goes(i, v, "adopt") /\ v.ref = RefOf(i.caller) /\ v.caller = c /\ v.op = i.op
          /\ Steps(p, v)
      BY <1>2, <1>3, <1>9, <2>1, GoingOn DEF Goes, Keeps, Steps
    <2>3. SpeaksForOwn(v)
      BY <1>2, <1>3, <1>9, <2>2 DEF SpeaksForOwn, Goes, Own, RefOf
    <2>4. QED BY <1>2, <1>4, <1>9, <2>2, <2>3, GoesOnLocked
  <1>10. CASE ref # Nothing /\ AdvanceGeneration(p, c, "session")
    BY <1>1, <1>3, <1>10, AdvanceLocks
  <1>11. CASE ref = Nothing
    <2>1. BootstrapUnbound(p)
      BY <1>11 DEF Bootstrap
    <2>2. QED BY <1>3, <1>6, <1>8, <1>9, <2>1 DEF BootstrapUnbound, tables
  <1>12. CASE ref # Nothing
    <2>1. BootstrapBound(p)
      BY <1>12 DEF Bootstrap
    <2>2. c \in Agent => ref.id \in Agent
      BY <1>5, <1>12 DEF Own
    <2>3. \/ Leave(p) /\ UNCHANGED tables
          \/ Becomes(p, [i EXCEPT !.stage = "beat", !.ref = ref]) /\ UNCHANGED tables
          \/ AdvanceImplementation(p, c)
          \/ AdvancePrimary(p, c, "Stopped", "session")
          \/ /\ ref.id \notin Agent /\ UNCHANGED tables
             /\ Becomes(p, [i EXCEPT !.stage = "activate", !.of = ref.id])
      BY <1>3, <2>1 DEF BootstrapBound
    <2>4. QED BY <1>6, <1>7, <1>8, <1>10, <1>12, <2>2, <2>3
          DEF tables, AdvanceImplementation, AdvancePrimary
  <1>13. QED BY <1>11, <1>12

-----------------------------------------------------------------------------
(* Who cannot be at work beside it.                                        *)

\* Beside the holder of the whole Primary lock people are not past their fences.
LEMMA ExclusiveAlone ==
  ASSUME LockInv, InvokedIsSound, NEW p \in Invoker, NEW q \in Invoker \ {p},
         invoked[p] # Nothing, invoked[q] # Nothing, invoked[q].caller \in Human,
         invoked[p].wants = "Exclusive",
         invoked[p].stage \notin {"workspace", "primary", "dispatched"}
  PROVE  invoked[q].stage \in Before \cup {"dispatched"}
  <1> DEFINE i == invoked[p]
             j == invoked[q]
  <1>1. Admitted(i, binding) /\ Admitted(j, binding) /\ Disjoint(i, j) /\ Disjoint(j, i)
    BY DEF LockInv
  <1>2. i \in Invocation /\ j \in Invocation
    BY NothingUndone
  <1> SUFFICES ASSUME j.stage \notin Before \cup {"dispatched"} PROVE FALSE
    OBVIOUS
  <1>3. j.stage \notin {"workspace", "primary", "dispatched"}
    BY DEF Before, Waiting
  <1>4. i.primary = "Exclusive" /\ j.primary = "none" /\ j.wants = "none"
    BY <1>1, <1>3 DEF Admitted, HoldsLocks, Disjoint
  <1>5. j.op = "shutdown"
    BY <1>1, <1>2, <1>3, <1>4 DEF Admitted, WantsEnough, Invocation, Operation
  <1>6. j.workspace = "Exclusive" /\ i.workspace # "none"
    BY <1>1, <1>3, <1>5 DEF Admitted, HoldsLocks, WorkspaceMode
  <1>7. QED BY <1>1, <1>6 DEF Disjoint

\* Beside a shutdown nobody is in the workspace.
LEMMA ShutdownAlone ==
  ASSUME LockInv, NEW p \in Invoker, NEW q \in Invoker \ {p},
         invoked[p] # Nothing, invoked[q] # Nothing, invoked[p].op = "shutdown",
         invoked[p].stage \notin {"workspace", "dispatched"}
  PROVE  invoked[q].stage \in {"workspace", "dispatched"}
  BY DEF LockInv, Admitted, HoldsLocks, Disjoint, WorkspaceMode

-----------------------------------------------------------------------------
(* What the others have found out.                                         *)

OneHolds(q) == invoked[q] # Nothing => StageHolds(invoked[q])

LEMMA StagesCarry ==
  ASSUME AuthorityInv, NEW p \in Invoker, NEW w, Steps(p, w),
         \A q \in Invoker \ {p} : OneHolds(q)',
         \A q \in Invoker \ {p} : \/ invoked'[q] = invoked[q]
                                  \/ invoked[q] # Nothing /\ invoked[q].stage # "write"
                                  \/ invoked[q] # Nothing /\ invoked[q].op # "bootstrap",
         w = Nothing \/ /\ OneHolds(p)'
                        /\ w.stage = "write" /\ w.op = "bootstrap" => w.fresh
                        /\ \A q \in Invoker \ {p} : invoked[q] # Nothing =>
                             Apart(w, invoked[q]) /\ Apart(invoked[q], w)
  PROVE  StagesHold'
  <1>1. /\ invoked'[p] = w
        /\ \A q \in Invoker \ {p} :
              /\ invoked[q] = Nothing => invoked'[q] = Nothing
              /\ invoked[q] # Nothing => invoked'[q] # Nothing /\ Alike(invoked[q], invoked'[q])
    BY OthersAreAlike DEF AuthorityInv, BindingInv
  <1>2. ASSUME NEW q \in Invoker, invoked'[q] # Nothing
        PROVE  /\ OneHolds(q)'
               /\ invoked'[q].stage = "write" /\ invoked'[q].op = "bootstrap" => invoked'[q].fresh
    BY <1>1, <1>2 DEF AuthorityInv, StagesHold, Alike
  <1>3. ASSUME NEW q \in Invoker, NEW r \in Invoker, invoked'[q] # Nothing, invoked'[r] # Nothing
        PROVE  Apart(invoked'[q], invoked'[r])
    <2>1. CASE q = r
      BY <2>1 DEF Apart, Lags, Before, Waiting
    <2>2. CASE q # r
      BY <1>1, <1>3, <2>2 DEF AuthorityInv, StagesHold, Alike, Apart, Lags
    <2>3. QED BY <2>1, <2>2
  <1>4. QED BY <1>2, <1>3 DEF StagesHold, OneHolds

\* Tables that stay as they are.
LEMMA OthersHoldStill ==
  ASSUME AuthorityInv, NEW p \in Invoker, NEW w, Becomes(p, w),
         UNCHANGED <<active, binding, row>>,
         \A a \in Actors : actor'[a].epoch = actor[a].epoch
                           /\ (actor'[a].status = "Absent" <=> actor[a].status = "Absent")
  PROVE  \A q \in Invoker \ {p} : OneHolds(q)' /\ invoked'[q] = invoked[q]
  <1> SUFFICES ASSUME NEW q \in Invoker \ {p}
               PROVE  OneHolds(q)' /\ invoked'[q] = invoked[q]
    OBVIOUS
  <1>1. invoked'[q] = invoked[q]
    BY DEF Becomes, AuthorityInv, BindingInv, InvokedIsSound
  <1>2. CASE invoked[q] = Nothing
    BY <1>1, <1>2 DEF OneHolds
  <1>3. CASE invoked[q] # Nothing
    <2> DEFINE j == invoked[q]
    <2>1. StageHolds(j) /\ j \in Invocation /\ j.caller \in Callers /\ Sound(j, binding)
      BY <1>3, NothingUndone DEF AuthorityInv, StagesHold, BindingInv, InvokedIsSound
    <2>2. /\ binding[j.caller] # Nothing => binding[j.caller].id \in Actors
          /\ j.stage \in Speaking \cup {"adopt"} => j.ref.id \in Actors
      BY <2>1 DEF AuthorityInv, BindingInv, TablesTypeOK, Sound, StageIsEarned, Invocation, Ref
    <2>3. (Lags(j) => binding[j.caller] # Nothing /\ ~IsCurrent(binding[j.caller]))'
      BY <1>1, <2>1, <2>2 DEF StageHolds, Lags, IsCurrent
    <2>4. ActivateHolds(j)'
      BY <1>1, <2>1, <2>2 DEF StageHolds, ActivateHolds, IsCurrent
    <2>5. BindHolds(j)'
      BY <1>1, <2>1, <2>2 DEF StageHolds, BindHolds, IsCurrent, Speaking
    <2>6. SessionHolds(j)'
      BY <1>1, <2>1, <2>2 DEF StageHolds, SessionHolds, IsCurrent, HoldsLease, Speaking
    <2>7. QED BY <1>1, <2>3, <2>4, <2>5, <2>6 DEF OneHolds, StageHolds
  <1>4. QED BY <1>2, <1>3

LEMMA SomeIdsOfOthers ==
  ASSUME BindingInv, NEW q \in Invoker, invoked[q] # Nothing
  PROVE  /\ invoked[q] \in Invocation /\ invoked[q].caller \in Callers
         /\ binding[invoked[q].caller] # Nothing => binding[invoked[q].caller].id \in Actors
         /\ invoked[q].stage \in Speaking \cup {"adopt"} => invoked[q].ref.id \in Actors
         /\ invoked[q].op = "stop" => invoked[q].of \in Actors
  BY DEF BindingInv, TablesTypeOK, InvokedIsSound, Sound, StageIsEarned, Invocation, Ref

StaysBehind(d) ==
  binding[d] # Nothing /\ ~IsCurrent(binding[d])

\* The holder of the whole Primary lock moves Primaries and nobody else: it finds no
\* person at work, and bootstraps that lag, which may only fall further behind.
LEMMA ExclusiveOthers ==
  ASSUME AuthorityInv, NEW p \in Invoker, invoked[p] # Nothing, invoked[p].wants = "Exclusive",
         invoked[p].stage \notin {"workspace", "primary", "dispatched"}, NEW w, Steps(p, w),
         \A a \in Agent : actor'[a].epoch = actor[a].epoch
                          /\ (actor'[a].status = "Absent" <=> actor[a].status = "Absent"),
         \A c \in Callers : \/ binding'[c] = binding[c]
                            \/ c = invoked[p].caller /\ c \in Human /\ binding'[c].id \in Human,
         \A q \in Invoker \ {p} : invoked[q] # Nothing /\ Lags(invoked[q]) =>
            \A d \in Callers : d = invoked[q].caller => StaysBehind(d)'
  PROVE  \A q \in Invoker \ {p} :
           /\ OneHolds(q)'
           /\ invoked[q] # Nothing => invoked[q].stage # "write"
           /\ invoked[q] = Nothing => invoked'[q] = Nothing
  <1> SUFFICES ASSUME NEW q \in Invoker \ {p}
               PROVE  /\ OneHolds(q)'
                      /\ invoked[q] # Nothing => invoked[q].stage # "write"
                      /\ invoked[q] = Nothing => invoked'[q] = Nothing
    OBVIOUS
  <1> DEFINE j == invoked[q]
             k == invoked'[q]
  <1>1. /\ j = Nothing => k = Nothing
        /\ j # Nothing => k # Nothing /\ Alike(j, k)
    BY OthersAreAlike DEF AuthorityInv, BindingInv
  <1>2. CASE j = Nothing
    BY <1>1, <1>2 DEF OneHolds
  <1>3. CASE j # Nothing
    <2>1. /\ StageHolds(j) /\ Admitted(j, binding) /\ j.caller \in Callers
          /\ binding[j.caller] # Nothing => binding[j.caller].id \in Actors
      BY <1>3, SomeIdsOfOthers DEF AuthorityInv, StagesHold, LockInv
    <2>2. CASE j.caller \in Human
      <3>1. j.stage \in Before \cup {"dispatched"}
        BY <1>3, <2>2, ExclusiveAlone DEF AuthorityInv, BindingInv
      <3>2. (Lags(j) => binding[j.caller] # Nothing /\ ~IsCurrent(binding[j.caller]))'
        <4>1. Lags(k) => Lags(j) /\ k.caller = j.caller
          BY <1>1, <1>3 DEF Alike, Lags
        <4>2. PICK d \in Callers : d = j.caller
          BY <2>1
        <4>3. Lags(j) => StaysBehind(d)'
          BY <1>3, <4>2
        <4>4. QED BY <1>1, <1>3, <4>1, <4>2, <4>3 DEF StaysBehind
      <3>3. k.stage \notin {"activate", "bind", "adopt", "beat", "session", "write", "run", "actor"}
        BY <1>1, <1>3, <3>1 DEF Alike, Before, Waiting
      <3>4. QED BY <1>3, <1>1, <3>1, <3>2, <3>3
            DEF OneHolds, StageHolds, ActivateHolds, BindHolds, SessionHolds, Alike, Before, Waiting
    <2>3. CASE j.caller \in Agent
      <3>1. j.caller \notin Human /\ binding'[j.caller] = binding[j.caller]
        BY <2>1, <2>3, BindingAssumption
      <3>2. /\ ~Lags(k) /\ k.stage # "activate" /\ k.stage # "actor" /\ k.stage # "write"
            /\ j.stage \in {"beat", "session", "write", "bind", "adopt", "run"} => k.ref.id = k.caller
        BY <1>1, <1>3, <2>1, <2>3, <3>1
           DEF Lags, Admitted, SpeaksForOwn, WantsEnough, Own, Alike
      <3>3. ActivateHolds(j)' /\ SessionHolds(j)'
        BY <1>1, <1>3, <2>1, <3>1, <3>2 DEF StageHolds, ActivateHolds, SessionHolds, Alike
      <3>4. BindHolds(j)'
        BY <1>1, <1>3, <2>1, <2>3, <3>1, <3>2, BindingAssumption
           DEF StageHolds, BindHolds, Alike, IsCurrent
      <3>5. QED BY <1>1, <1>3, <3>2, <3>3, <3>4 DEF OneHolds, StageHolds, Alike, Lags
    <2>4. QED BY <2>1, <2>2, <2>3 DEF Callers
  <1>4. QED BY <1>2, <1>3

\* A pane moves its own executor, on which its lock keeps out whoever would stop it.
LEMMA AgentOthers ==
  ASSUME AuthorityInv, NEW p \in Invoker, invoked[p] # Nothing, invoked[p].caller \in Agent,
         invoked[p].stage \notin {"workspace", "primary", "caller"}, NEW w,
         Becomes(p, w) \/ Writes(p, invoked[p].caller, w),
         UNCHANGED active,
         \A a \in Actors : a # invoked[p].caller => actor'[a] = actor[a],
         \A c \in Callers : c # invoked[p].caller => binding'[c] = binding[c],
         binding'[invoked[p].caller].id = invoked[p].caller,
         row' = row \/ /\ \A a \in Actors : a # invoked[p].caller => row'[a] = row[a]
                       /\ ActorLock(invoked[p].caller) \in invoked[p].locks
  PROVE  \A q \in Invoker \ {p} :
           /\ OneHolds(q)'
           /\ invoked'[q] = invoked[q] \/ (invoked[q] # Nothing /\ invoked[q].stage # "write")
  <1> SUFFICES ASSUME NEW q \in Invoker \ {p}
               PROVE  /\ OneHolds(q)'
                      /\ \/ invoked'[q] = invoked[q]
                         \/ invoked[q] # Nothing /\ invoked[q].stage # "write"
    OBVIOUS
  <1> DEFINE i == invoked[p]
             j == invoked[q]
             k == invoked'[q]
  <1>1. /\ j = Nothing => k = Nothing
        /\ j # Nothing => k # Nothing /\ Alike(j, k)
    BY OthersAreAlike DEF AuthorityInv, BindingInv, Steps, Callers, Actors
  <1>2. CASE j = Nothing
    BY <1>1, <1>2 DEF OneHolds
  <1>3. CASE j # Nothing
    <2>1. /\ StageHolds(j) /\ Admitted(j, binding) /\ j.caller \in Callers
          /\ binding[j.caller] # Nothing => binding[j.caller].id \in Actors
          /\ j.stage \in Speaking \cup {"adopt"} => j.ref.id \in Actors
          /\ j.op = "stop" => j.of \in Actors
          /\ binding[j.caller] # Nothing => Own(j.caller, binding[j.caller])
      BY <1>3, SomeIdsOfOthers DEF AuthorityInv, StagesHold, LockInv, TablesAgree
    <2>2. j.caller # i.caller \/ j.stage \in {"workspace", "primary", "caller"}
      BY <1>3, CallersDiffer DEF AuthorityInv
    <2>3. /\ j.stage \in {"beat", "session", "write", "bind", "adopt", "run"} => Own(j.caller, j.ref)
          /\ j.stage \in {"activate", "write"} => j.caller \in Human
          /\ j.stage \in {"row", "actor"} => j.op = "stop"
      BY <2>1 DEF Admitted, SpeaksForOwn
    <2>4. i.caller \notin Human /\ i.caller \in Agent /\ i.caller \in Actors
      BY BindingAssumption DEF Actors, Callers
    <2>5. \A r : Own(j.caller, r) /\ j.caller # i.caller => r.id # i.caller
      BY <2>4 DEF Own
    <2>6. j.stage = "actor" => row'[j.of] = row[j.of]
      <3>1. CASE j.stage = "actor" /\ j.of = i.caller /\ ActorLock(i.caller) \in i.locks
        <4>1. ActorLock(j.of) \in j.locks
          BY <2>1, <2>3, <3>1 DEF Admitted, HoldsLocks, Waiting
        <4>2. i.locks \cap j.locks = {}
          BY <1>3 DEF AuthorityInv, LockInv, Disjoint
        <4>3. QED BY <3>1, <4>1, <4>2
      <3>2. QED BY <2>1, <2>3, <3>1
    <2>7. (Lags(j) => binding[j.caller] # Nothing /\ ~IsCurrent(binding[j.caller]))'
      BY <1>1, <1>3, <2>1, <2>4, <2>5 DEF StageHolds, Lags, Alike, IsCurrent
    <2>8. ActivateHolds(j)'
      BY <1>1, <1>3, <2>1, <2>2, <2>3, <2>4, <2>5 DEF StageHolds, ActivateHolds, Alike, IsCurrent
    <2>9. BindHolds(j)'
      <3>1. j.stage \in {"bind", "adopt"} => j.ref.id # i.caller /\ j.ref.id \in Actors
        BY <2>1, <2>2, <2>3, <2>5 DEF Speaking
      <3>2. QED BY <1>1, <1>3, <2>1, <2>2, <2>3, <2>4, <2>5, <3>1
               DEF StageHolds, BindHolds, Alike, IsCurrent
    <2>10. SessionHolds(j)'
      <3>1. j.stage \in {"beat", "session", "write", "run"} =>
               j.ref.id # i.caller /\ j.ref.id \in Actors /\ row'[j.ref.id] = row[j.ref.id]
        BY <2>1, <2>2, <2>3, <2>5 DEF Speaking
      <3>2. QED BY <1>1, <1>3, <2>1, <2>2, <2>3, <2>4, <2>6, <3>1
               DEF StageHolds, SessionHolds, Alike, IsCurrent, HoldsLease
    <2>11. OneHolds(q)'
      BY <1>1, <1>3, <2>7, <2>8, <2>9, <2>10
         DEF OneHolds, StageHolds, ActivateHolds, BindHolds, SessionHolds, Alike, Lags
    <2>12. j.stage = "write" => k = j
      <3>1. j.stage = "write" => j.ref.id # i.caller
        BY <2>2, <2>3, <2>5
      <3>2. QED BY <1>3, <3>1 DEF Becomes, Writes, AuthorityInv, BindingInv, InvokedIsSound
    <2>13. QED BY <1>3, <2>11, <2>12
  <1>4. QED BY <1>1, <1>2, <1>3

\* What the row of a may become beside one who relies on it.
RowSuits(j, a, v) ==
  /\ j.stage = "run" /\ j.op # "shutdown" /\ j.caller \in Human /\ j.ref.id = a =>
       v = [status |-> "idle", epoch |-> j.ref.epoch]
  /\ j.stage = "actor" /\ j.of = a => v.status # "idle"

\* A row is written that nobody at work relies on.
LEMMA RowOthers ==
  ASSUME AuthorityInv, NEW p \in Invoker, invoked[p] # Nothing, invoked[p].caller \in Human,
         invoked[p].stage \notin Before \cup {"dispatched"}, NEW w,
         NEW a \in Actors, Writes(p, a, w), UNCHANGED <<actor, active, binding>>, NEW v,
         row' = [row EXCEPT ![a] = v],
         \A q \in Invoker \ {p} : invoked[q] # Nothing => RowSuits(invoked[q], a, v)
  PROVE  \A q \in Invoker \ {p} :
           /\ OneHolds(q)'
           /\ invoked'[q] = invoked[q] \/ (invoked[q] # Nothing /\ invoked[q].stage # "write")
              \/ (invoked[q] # Nothing /\ invoked[q].op # "bootstrap")
  <1> SUFFICES ASSUME NEW q \in Invoker \ {p}
               PROVE  /\ OneHolds(q)'
                      /\ \/ invoked'[q] = invoked[q]
                         \/ invoked[q] # Nothing /\ invoked[q].stage # "write"
                         \/ invoked[q] # Nothing /\ invoked[q].op # "bootstrap"
    OBVIOUS
  <1> DEFINE j == invoked[q]
             k == invoked'[q]
  <1>1. /\ j = Nothing => k = Nothing
        /\ j # Nothing => k # Nothing /\ Alike(j, k)
    BY OthersAreAlike DEF AuthorityInv, BindingInv, Steps
  <1>2. CASE j = Nothing
    BY <1>1, <1>2 DEF OneHolds
  <1>3. CASE j # Nothing
    <2>1. /\ StageHolds(j) /\ Admitted(j, binding) /\ j.caller \in Callers
          /\ j.stage \in Speaking \cup {"adopt"} => j.ref.id \in Actors
          /\ j.op = "stop" => j.of \in Actors
      BY <1>3, SomeIdsOfOthers DEF AuthorityInv, StagesHold, LockInv
    <2>2. j.stage \in {"row", "actor"} => j.op = "stop"
      BY <2>1 DEF Admitted, SpeaksForOwn
    <2>3. (Lags(j) => binding[j.caller] # Nothing /\ ~IsCurrent(binding[j.caller]))'
      BY <1>1, <1>3, <2>1 DEF StageHolds, Lags, Alike, IsCurrent
    <2>4. ActivateHolds(j)' /\ BindHolds(j)'
      BY <1>1, <1>3, <2>1 DEF StageHolds, ActivateHolds, BindHolds, Alike, IsCurrent
    <2>5. SessionHolds(j)'
      <3>1. a \in DOMAIN row /\ row \in [Actors -> Row]
        BY DEF AuthorityInv, BindingInv, TablesTypeOK
      <3>2. \A b \in Actors : row'[b] = IF b = a THEN v ELSE row[b]
        BY <3>1
      <3>3. QED BY <1>1, <1>3, <2>1, <2>2, <3>2
               DEF StageHolds, SessionHolds, Alike, IsCurrent, HoldsLease, Speaking, RowSuits
    <2>6. OneHolds(q)'
      BY <1>1, <1>3, <2>3, <2>4, <2>5
         DEF OneHolds, StageHolds, ActivateHolds, BindHolds, SessionHolds, Alike, Lags
    <2>7. ~(j.stage = "write" /\ j.op = "bootstrap")
      <3>1. ASSUME j.stage = "write", j.op = "bootstrap" PROVE FALSE
        <4>1. j.wants = "Exclusive"
          BY <2>1, <3>1 DEF Admitted, WantsEnough, SpeaksForOwn, Before, Waiting
        <4>2. invoked[p].stage \in Before \cup {"dispatched"}
          BY <1>3, <3>1, <4>1, ExclusiveAlone DEF AuthorityInv, BindingInv
        <4>3. QED BY <4>2
      <3>2. QED BY <3>1
    <2>8. QED BY <1>3, <2>6, <2>7
  <1>4. QED BY <1>1, <1>2, <1>3

\* An actor is stopped whom nobody else speaks for.
LEMMA StopOthers ==
  ASSUME AuthorityInv, NEW p \in Invoker, InStage(p, "actor"), Leave(p),
         UNCHANGED <<binding, row>>, NEW a \in Actors, a = invoked[p].of,
         actor[a].status # "Absent", actor' = [actor EXCEPT ![a].status = "Stopped"],
         active' = IF active = a THEN Nothing ELSE active
  PROVE  \A q \in Invoker \ {p} : OneHolds(q)' /\ invoked'[q] = invoked[q]
  <1> SUFFICES ASSUME NEW q \in Invoker \ {p}
               PROVE  OneHolds(q)' /\ invoked'[q] = invoked[q]
    OBVIOUS
  <1> DEFINE i == invoked[p]
             j == invoked[q]
  <1>1. invoked'[q] = j
    BY DEF Leave, Becomes, AuthorityInv, BindingInv, InvokedIsSound
  <1>2. CASE j = Nothing
    BY <1>1, <1>2 DEF OneHolds
  <1>3. CASE j # Nothing
    <2>1. /\ StageHolds(j) /\ Admitted(j, binding) /\ j.caller \in Callers
          /\ binding[j.caller] # Nothing => binding[j.caller].id \in Actors
          /\ j.stage \in Speaking \cup {"adopt"} => j.ref.id \in Actors
      BY <1>3, SomeIdsOfOthers DEF AuthorityInv, StagesHold, LockInv
    <2>2. /\ i # Nothing /\ i.stage = "actor" /\ i.op = "stop" /\ i.caller \in Human
          /\ ActorLock(a) \in i.locks
      BY OwnStage DEF SpeaksForOwn, Admitted, WantsEnough, HoldsLocks, Waiting
    <2>3. j.wants = "Exclusive" => j.stage \in {"workspace", "primary", "dispatched"}
      BY <1>3, <2>2, ExclusiveAlone DEF AuthorityInv, BindingInv, Before, Waiting
    <2>4. \A b \in Actors : /\ actor'[b].epoch = actor[b].epoch
                            /\ (actor'[b].status = "Absent" <=> actor[b].status = "Absent")
      BY DEF AuthorityInv, BindingInv, TablesTypeOK, ActorState
    <2>5. j.caller \in Human /\ j.stage \in {"session", "write", "run", "bind"} => j.ref.id # a
      <3>1. CASE j.op = "bootstrap" /\ j.caller \in Human /\ j.stage \in {"session", "write", "run", "bind"}
        BY <2>1, <2>3, <3>1 DEF Admitted, WantsEnough, Before, Waiting
      <3>2. CASE j.op # "bootstrap" /\ j.stage \in {"session", "write", "run"}
        <4>1. binding[j.caller] = j.ref
          BY <2>1, <3>2 DEF StageHolds, SessionHolds
        <4>2. j.ref # Nothing
          BY <1>3, <3>2 DEF AuthorityInv, BindingInv, InvokedIsSound, Sound, StageIsEarned, Speaking
        <4>3. ActorLock(j.ref.id) \in j.locks
          BY <2>1, <3>2, <4>1, <4>2 DEF Admitted, HoldsLocks, Waiting
        <4>4. i.locks \cap j.locks = {}
          BY <1>3, <2>2 DEF AuthorityInv, LockInv, Disjoint
        <4>5. QED BY <2>2, <4>3, <4>4
      <3>3. j.stage = "bind" => j.op = "bootstrap"
        BY <2>1 DEF Admitted, SpeaksForOwn
      <3>4. QED BY <3>1, <3>2, <3>3
    <2>6. (Lags(j) => binding[j.caller] # Nothing /\ ~IsCurrent(binding[j.caller]))'
      BY <1>1, <2>1, <2>4 DEF StageHolds, Lags, IsCurrent
    <2>7. ActivateHolds(j)'
      BY <1>1, <2>1, <2>4 DEF StageHolds, ActivateHolds, IsCurrent
    <2>8. BindHolds(j)'
      BY <1>1, <2>1, <2>4, <2>5 DEF StageHolds, BindHolds, IsCurrent, Speaking
    <2>9. SessionHolds(j)'
      BY <1>1, <2>1, <2>4, <2>5 DEF StageHolds, SessionHolds, IsCurrent, HoldsLease, Speaking
    <2>10. QED BY <1>1, <2>6, <2>7, <2>8, <2>9 DEF OneHolds, StageHolds
  <1>4. QED BY <1>2, <1>3

\* Beside a shutdown nobody has found out anything yet.
LEMMA ShutdownOthers ==
  ASSUME AuthorityInv, NEW p \in Invoker, invoked[p] # Nothing, invoked[p].op = "shutdown",
         invoked[p].stage \notin {"workspace", "dispatched"}, NEW w, Steps(p, w)
  PROVE  \A q \in Invoker \ {p} :
           /\ OneHolds(q)'
           /\ invoked'[q] = invoked[q] \/ (invoked[q] # Nothing /\ invoked[q].stage # "write")
  <1>1. ASSUME NEW q \in Invoker \ {p}, invoked[q] # Nothing
        PROVE  invoked'[q].stage \in {"workspace", "dispatched"} /\ invoked[q].stage # "write"
    BY <1>1, ShutdownAlone, OthersAreAlike DEF AuthorityInv, BindingInv, Alike
  <1>2. \A q \in Invoker \ {p} : invoked[q] = Nothing => invoked'[q] = invoked[q]
    BY OthersAreAlike DEF AuthorityInv, BindingInv
  <1>3. QED BY <1>1, <1>2
            DEF OneHolds, StageHolds, ActivateHolds, BindHolds, SessionHolds, Lags, Before, Waiting

-----------------------------------------------------------------------------
(* Who is waited for: the writer of a row, and who is about to be bound.    *)

WritesRow(i) == i.stage \in {"session", "write"} /\ i.op = "bootstrap"

LEMMA RowsStillCome ==
  ASSUME AuthorityInv, NEW p \in Invoker, NEW w, Steps(p, w),
         \A c \in Callers :
           binding'[c] # Nothing /\ row'[binding'[c].id].status = "none" =>
             /\ binding[c] # Nothing /\ row[binding[c].id].status = "none"
             /\ binding'[c].id = binding[c].id,
         invoked[p] # Nothing /\ WritesRow(invoked[p]) =>
           \/ row'[invoked[p].ref.id].status # "none"
           \/ w # Nothing /\ WritesRow(w) /\ w.ref = invoked[p].ref
  PROVE  RowsAreComing'
  <1> SUFFICES ASSUME NEW c \in Callers, binding'[c] # Nothing,
                      row'[binding'[c].id].status = "none"
               PROVE  \E q \in Invoker : /\ invoked'[q] # Nothing /\ WritesRow(invoked'[q])
                                         /\ invoked'[q].ref.id = binding'[c].id
    BY DEF RowsAreComing, WritesRow
  <1>1. PICK q \in Invoker : /\ invoked[q] # Nothing /\ WritesRow(invoked[q])
                             /\ invoked[q].ref.id = binding[c].id
    BY DEF AuthorityInv, RowsAreComing, WritesRow
  <1>2. binding'[c].id = binding[c].id
    OBVIOUS
  <1>3. CASE q = p
    BY <1>1, <1>2, <1>3, OthersAreAlike DEF AuthorityInv, BindingInv
  <1>4. CASE q # p
    BY <1>1, <1>2, <1>4, OthersAreAlike DEF AuthorityInv, BindingInv, Alike, WritesRow
  <1>5. QED BY <1>3, <1>4

LEMMA StillReturn ==
  ASSUME AuthorityInv, NEW p \in Invoker, NEW w, Steps(p, w), UNCHANGED binding,
         \A a \in Actors : /\ actor'[a].epoch = actor[a].epoch
                           /\ (actor'[a].status = "Absent" <=> actor[a].status = "Absent"),
         \A c \in Callers : binding[c] # Nothing =>
           LET a == binding[c].id IN
             actor'[a].status = "Stopped" => \/ row'[a].status = "stopped"
                                             \/ actor[a].status = "Stopped" /\ row'[a] = row[a],
         invoked[p] # Nothing /\ invoked[p].stage = "bind" =>
           \A c \in Callers : binding[c] # Nothing => binding[c].id # invoked[p].ref.id
  PROVE  BoundCallersCanReturn'
  <1> SUFFICES ASSUME NEW c \in Callers, binding[c] # Nothing
               PROVE  (LET ref == binding[c] IN
                         IF IsCurrent(ref)
                         THEN actor[ref.id].status = "Stopped" => row[ref.id].status = "stopped"
                         ELSE \/ \E d \in Callers :
                                   /\ binding[d] # Nothing /\ binding[d].id = ref.id
                                   /\ binding[d].epoch > ref.epoch
                              \/ \E q \in Invoker : InStage(q, "bind") /\ invoked[q].ref.id = ref.id)'
    BY DEF BoundCallersCanReturn
  <1> DEFINE ref == binding[c]
  <1>1. ref.id \in Actors /\ binding' = binding
    BY DEF AuthorityInv, BindingInv, TablesTypeOK, Ref
  <1>2. IsCurrent(ref)' <=> IsCurrent(ref)
    BY <1>1 DEF IsCurrent
  <1>3. CASE IsCurrent(ref)
    BY <1>1, <1>2, <1>3 DEF AuthorityInv, BoundCallersCanReturn
  <1>4. CASE ~IsCurrent(ref)
    <2>1. CASE \E d \in Callers : /\ binding[d] # Nothing /\ binding[d].id = ref.id
                                  /\ binding[d].epoch > ref.epoch
      BY <1>1, <1>2, <1>4, <2>1
    <2>2. ASSUME NEW q \in Invoker, InStage(q, "bind"), invoked[q].ref.id = ref.id
          PROVE  InStage(q, "bind")' /\ invoked'[q].ref.id = ref.id
      BY <2>2, OthersAreAlike DEF AuthorityInv, BindingInv, Alike, InStage
    <2>3. QED BY <1>1, <1>2, <1>4, <2>1, <2>2 DEF AuthorityInv, BoundCallersCanReturn
  <1>5. QED BY <1>3, <1>4

Agreement == TablesAgree /\ StagesHold /\ RowsAreComing /\ BoundCallersCanReturn

\* The tables stay as they are, but for heartbeats.
LEMMA HeardStep ==
  ASSUME AuthorityInv, NEW p \in Invoker, NEW w, Becomes(p, w),
         UNCHANGED <<active, binding, row>>,
         \A a \in Actors : /\ actor'[a].epoch = actor[a].epoch
                           /\ (actor'[a].status = "Absent" <=> actor[a].status = "Absent")
                           /\ (actor'[a].status = "Stopped" => actor[a].status = "Stopped"),
         active # Nothing => actor'[active].status = "Healthy",
         w = Nothing \/ /\ OneHolds(p)'
                        /\ w.stage = "write" /\ w.op = "bootstrap" => w.fresh
                        /\ \A q \in Invoker \ {p} : invoked[q] # Nothing =>
                             Apart(w, invoked[q]) /\ Apart(invoked[q], w),
         invoked[p] # Nothing /\ WritesRow(invoked[p]) =>
           \/ row[invoked[p].ref.id].status # "none"
           \/ w # Nothing /\ WritesRow(w) /\ w.ref = invoked[p].ref,
         invoked[p] # Nothing /\ invoked[p].stage = "bind" =>
           \A c \in Callers : binding[c] # Nothing => binding[c].id # invoked[p].ref.id
  PROVE  Agreement'
  <1>1. Steps(p, w)
    BY DEF Steps
  <1>2. /\ Agent \subseteq Actors
        /\ \A c \in Callers : binding[c] # Nothing => binding[c].id \in Actors
    BY DEF Actors, Callers, AuthorityInv, BindingInv, TablesTypeOK, Ref
  <1>3. TablesAgree'
    BY <1>2 DEF AuthorityInv, TablesAgree
  <1>4. StagesHold'
    BY <1>1, OthersHoldStill, StagesCarry
  <1>5. RowsAreComing'
    BY <1>1, RowsStillCome
  <1>6. BoundCallersCanReturn'
    BY <1>1, <1>2, StillReturn
  <1>7. QED BY <1>3, <1>4, <1>5, <1>6 DEF Agreement

LEMMA QuietStep ==
  ASSUME AuthorityInv, NEW p \in Invoker, NEW w, Becomes(p, w),
         UNCHANGED <<actor, active, binding, row>>,
         w = Nothing \/ /\ OneHolds(p)'
                        /\ w.stage = "write" /\ w.op = "bootstrap" => w.fresh
                        /\ \A q \in Invoker \ {p} : invoked[q] # Nothing =>
                             Apart(w, invoked[q]) /\ Apart(invoked[q], w),
         invoked[p] # Nothing /\ WritesRow(invoked[p]) =>
           \/ row[invoked[p].ref.id].status # "none"
           \/ w # Nothing /\ WritesRow(w) /\ w.ref = invoked[p].ref,
         invoked[p] # Nothing /\ invoked[p].stage = "bind" =>
           \A c \in Callers : binding[c] # Nothing => binding[c].id # invoked[p].ref.id
  PROVE  Agreement'
  <1>1. active # Nothing => actor'[active].status = "Healthy"
    BY DEF AuthorityInv, TablesAgree
  <1>2. QED BY <1>1, HeardStep

LEMMA QuietGo ==
  ASSUME AuthorityInv, NEW p \in Invoker, NEW w, Becomes(p, w),
         UNCHANGED <<actor, active, binding, row>>, StageHolds(w),
         w.stage = "write" /\ w.op = "bootstrap" => w.fresh,
         \A q \in Invoker \ {p} : invoked[q] # Nothing =>
                             Apart(w, invoked[q]) /\ Apart(invoked[q], w),
         invoked[p] # Nothing /\ WritesRow(invoked[p]) =>
           \/ row[invoked[p].ref.id].status # "none"
           \/ w # Nothing /\ WritesRow(w) /\ w.ref = invoked[p].ref,
         invoked[p] # Nothing /\ invoked[p].stage = "bind" =>
           \A c \in Callers : binding[c] # Nothing => binding[c].id # invoked[p].ref.id
  PROVE  Agreement'
  <1>1. invoked'[p] = w
    BY OthersAreAlike DEF Steps, AuthorityInv, BindingInv
  <1>2. StageHolds(w)'
    BY DEF StageHolds, ActivateHolds, BindHolds, SessionHolds, IsCurrent, HoldsLease
  <1>3. OneHolds(p)'
    BY <1>1, <1>2 DEF OneHolds
  <1>4. QED BY <1>3, QuietStep

\* An invocation that ends has its row written and its caller bound, or may as well
\* never have begun.
LEMMA QuietLeave ==
  ASSUME AuthorityInv, NEW p \in Invoker, Leave(p), UNCHANGED <<actor, active, binding, row>>,
         invoked[p] # Nothing /\ WritesRow(invoked[p]) => row[invoked[p].ref.id].status # "none",
         invoked[p] # Nothing /\ invoked[p].stage = "bind" =>
           \A c \in Callers : binding[c] # Nothing => binding[c].id # invoked[p].ref.id
  PROVE  Agreement'
  BY QuietStep DEF Leave

LEMMA EnterAgrees ==
  ASSUME AuthorityInv, NEW p \in Invoker, Calls(p)
  PROVE  Agreement'
  <1>1. PICK c \in Callers, op \in Operation, of \in Actors \cup {Nothing} : Enter(p, c, op, of)
    BY DEF Calls
  <1>2. PICK w : w = [stage |-> "workspace", caller |-> c, op |-> op, of |-> of,
                   workspace |-> "none", primary |-> "none", wants |-> "none",
                   expires |-> FALSE, locks |-> {}, ref |-> Nothing, fresh |-> TRUE]
    OBVIOUS
  <1>3. Becomes(p, w) /\ UNCHANGED <<actor, active, binding, row>> /\ invoked[p] = Nothing
    BY <1>1, <1>2 DEF Enter, tables
  <1>4. w.stage = "workspace"
    BY <1>2
  <1>5. StageHolds(w)
    BY <1>4 DEF StageHolds, Lags, ActivateHolds, BindHolds, SessionHolds
  <1>6. \A j : Apart(w, j) /\ Apart(j, w)
    BY <1>4 DEF Apart, Lags
  <1>7. QED BY <1>3, <1>4, <1>5, <1>6, QuietGo

\* A bootstrap that is to run without the Primary's lock was superseded.
LEMMA LockWorkspaceAgrees ==
  ASSUME AuthorityInv, NEW p \in Invoker, LockWorkspace(p), ~Overtakes(p)
  PROVE  Agreement'
  <1> DEFINE i == invoked[p]
             mode == PrimaryMode(i.caller, i.op)
  <1>1. PICK w : w = [i EXCEPT !.workspace = WorkspaceMode(i.op), !.wants = mode.mode,
                            !.expires = mode.expires, !.stage = "primary"]
    OBVIOUS
  <1>2. InStage(p, "workspace") /\ UNCHANGED <<actor, active, binding, row>> /\ Becomes(p, w)
    BY <1>1 DEF LockWorkspace, tables
  <1>3. i # Nothing /\ i \in Invocation /\ i.stage = "workspace" /\ i.caller \in Callers
    BY <1>2, OwnStage
  <1>4. /\ w.stage = "primary" /\ w.caller = i.caller /\ w.op = i.op /\ w.wants = mode.mode
    BY <1>1, <1>3 DEF Invocation
  <1>6. Lags(w) => StaysBehind(i.caller)
    <2> SUFFICES ASSUME Lags(w) PROVE StaysBehind(i.caller)
      OBVIOUS
    <2>1. i.op = "bootstrap" /\ i.caller \in Human /\ mode.mode # "Exclusive"
      BY <1>4 DEF Lags
    <2>2. ~CallerIsPrimary(i.caller) /\ binding[i.caller] # Nothing
      BY <2>1 DEF PrimaryMode
    <2>3. binding[i.caller].id \in Human
      BY <1>3, <2>1, <2>2, BindingAssumption DEF AuthorityInv, TablesAgree, Own
    <2>4. QED BY <2>2, <2>3 DEF CallerIsPrimary, StaysBehind
  <1>7. StageHolds(w)
    BY <1>4, <1>6 DEF StageHolds, ActivateHolds, BindHolds, SessionHolds, StaysBehind
  <1>8. ASSUME NEW q \in Invoker \ {p}, invoked[q] # Nothing
        PROVE  Apart(w, invoked[q]) /\ Apart(invoked[q], w)
    <2> DEFINE j == invoked[q]
    <2>1. ASSUME Lags(w), j.stage = "activate", j.caller = i.caller PROVE FALSE
      BY <1>6, <1>8, <2>1 DEF AuthorityInv, StagesHold, StageHolds, ActivateHolds, StaysBehind
    <2>2. ASSUME Lags(w), j.stage = "bind", j.caller = i.caller PROVE FALSE
      <3>1. i.op = "bootstrap"
        BY <1>4, <2>2 DEF Lags
      <3>2. q \in Others(p) /\ InStage(q, "bind")
        BY <1>8, <2>2 DEF Others, InStage
      <3>3. QED BY <1>2, <2>2, <3>1, <3>2 DEF Overtakes
    <2>3. QED BY <1>4, <2>1, <2>2 DEF Apart
  <1>9. ~WritesRow(i)
    BY <1>3 DEF WritesRow
  <1>10. QED BY <1>2, <1>3, <1>4, <1>7, <1>8, <1>9, QuietGo

\* What was looked up before it waits is what it still is.
LEMMA StillWaiting ==
  ASSUME AuthorityInv, NEW p \in Invoker, NEW w, Becomes(p, w),
         UNCHANGED <<actor, active, binding, row>>, invoked[p] # Nothing,
         invoked[p].stage \in {"primary", "caller", "actors"},
         w.stage \in {"caller", "actors", "fence"}, w.caller = invoked[p].caller,
         w.op = invoked[p].op, w.wants = invoked[p].wants
  PROVE  Agreement'
  <1> DEFINE i == invoked[p]
  <1>1. Lags(w) => Lags(i)
    BY DEF Lags, Before, Waiting
  <1>2. StageHolds(i)
    BY DEF AuthorityInv, StagesHold
  <1>3. StageHolds(w)
    BY <1>1, <1>2 DEF StageHolds, ActivateHolds, BindHolds, SessionHolds
  <1>4. \A q \in Invoker \ {p} : invoked[q] # Nothing => Apart(w, invoked[q]) /\ Apart(invoked[q], w)
    BY <1>1 DEF AuthorityInv, StagesHold, Apart
  <1>5. ~WritesRow(i)
    BY DEF WritesRow
  <1>6. QED BY <1>3, <1>4, <1>5, QuietGo

LEMMA LockPrimaryAgrees ==
  ASSUME AuthorityInv, NEW p \in Invoker, LockPrimary(p)
  PROVE  Agreement'
  <1> DEFINE i == invoked[p]
  <1>1. PICK w : w = [i EXCEPT !.primary = i.wants, !.stage = "caller"]
    OBVIOUS
  <1>2. InStage(p, "primary") /\ UNCHANGED <<actor, active, binding, row>> /\ Becomes(p, w)
    BY <1>1 DEF LockPrimary, tables
  <1>3. i # Nothing /\ i \in Invocation /\ i.stage = "primary"
    BY <1>2, OwnStage
  <1>4. /\ w.stage = "caller" /\ w.caller = i.caller /\ w.op = i.op /\ w.wants = i.wants
    BY <1>1, <1>3 DEF Invocation
  <1>5. QED BY <1>2, <1>3, <1>4, StillWaiting

LEMMA TakingAgrees ==
  ASSUME AuthorityInv, NEW p \in Invoker, LockCaller(p) \/ LockActors(p)
  PROVE  Agreement'
  <1> DEFINE i == invoked[p]
  <1>1. PICK s \in {"actors", "fence"} : TakeLocks(p, s)
    BY DEF LockCaller, LockActors
  <1>2. PICK w : w = [i EXCEPT !.locks = @ \cup LocksWanted(p), !.stage = s]
    OBVIOUS
  <1>3. UNCHANGED <<actor, active, binding, row>> /\ Becomes(p, w)
    BY <1>1, <1>2 DEF LockCaller, LockActors, TakeLocks, tables
  <1>4. i # Nothing /\ i \in Invocation /\ i.stage \in {"caller", "actors"}
    BY OwnStage DEF LockCaller, LockActors
  <1>5. /\ w.stage = s /\ w.caller = i.caller /\ w.op = i.op /\ w.wants = i.wants
    BY <1>2, <1>4 DEF Invocation
  <1>6. QED BY <1>3, <1>4, <1>5, StillWaiting

\* Past its locks, and not about to bind its caller.
LEMMA QuietLate ==
  ASSUME AuthorityInv, NEW p \in Invoker, NEW w, Becomes(p, w),
         UNCHANGED <<actor, active, binding, row>>, invoked[p] # Nothing,
         invoked[p].stage # "bind", ~WritesRow(invoked[p]),
         w.stage \notin Before \cup {"activate", "bind", "write"},
         BindHolds(w), SessionHolds(w)
  PROVE  Agreement'
  <1>1. /\ ~Lags(w) /\ w.stage # "activate" /\ w.stage # "write"
        /\ \A j : Apart(w, j) /\ Apart(j, w)
    BY DEF Lags, Apart
  <1>2. StageHolds(w)
    BY <1>1 DEF StageHolds, ActivateHolds
  <1>3. QED BY <1>1, <1>2, QuietGo

LEMMA AdoptAgrees ==
  ASSUME AuthorityInv, NEW p \in Invoker, Adopt(p)
  PROVE  Agreement'
  <1> DEFINE i == invoked[p]
  <1>1. PICK w : w = [i EXCEPT !.locks = @ \cup LocksWanted(p), !.stage = "bind"]
    OBVIOUS
  <1>2. UNCHANGED <<actor, active, binding, row>> /\ Becomes(p, w) /\ InStage(p, "adopt")
    BY <1>1 DEF Adopt, TakeLocks, tables
  <1>3. /\ i # Nothing /\ i \in Invocation /\ i.stage = "adopt" /\ i.caller \in Agent
        /\ Own(i.caller, i.ref) /\ binding[i.caller] = Nothing /\ IsCurrent(i.ref)
        /\ i.caller \in Callers /\ i.ref # Nothing
    BY <1>2, OwnStage DEF SpeaksForOwn, StageHolds, BindHolds, Sound, StageIsEarned
  <1>4. /\ w.stage = "bind" /\ w.caller = i.caller /\ w.ref = i.ref
    BY <1>1, <1>3 DEF Invocation
  <1>5. ASSUME NEW d \in Callers \ {i.caller}, binding[d] # Nothing
        PROVE  binding[d].id # i.ref.id
    BY <1>3, <1>5, BindingAssumption DEF AuthorityInv, TablesAgree, Own
  <1>6. BindHolds(w)
    BY <1>3, <1>4, <1>5, BindingAssumption DEF BindHolds
  <1>7. StageHolds(w)
    BY <1>4, <1>6 DEF StageHolds, Lags, ActivateHolds, SessionHolds, Before, Waiting
  <1>8. \A j : Apart(w, j) /\ Apart(j, w)
    BY <1>3, <1>4, BindingAssumption DEF Apart, Lags
  <1>9. ~WritesRow(i) /\ i.stage # "bind" /\ w.stage # "write"
    BY <1>3, <1>4 DEF WritesRow
  <1>10. QED BY <1>2, <1>3, <1>7, <1>8, <1>9, QuietGo

LEMMA FenceAgrees ==
  ASSUME AuthorityInv, NEW p \in Invoker, Fence(p)
  PROVE  Agreement'
  <1> DEFINE i == invoked[p]
  <1>1. i # Nothing /\ i \in Invocation /\ i.stage = "fence"
    BY OwnStage DEF Fence
  <1>2. /\ UNCHANGED <<actor, active, binding, row>>
        /\ Leave(p) \/ \E s \in {"bootstrap", "expire"} : Goto(p, s)
    BY DEF Fence, tables
  <1>3. ~WritesRow(i) /\ i.stage # "bind"
    BY <1>1 DEF WritesRow
  <1>4. CASE Leave(p)
    BY <1>2, <1>3, <1>4, QuietLeave
  <1>5. ASSUME NEW s \in {"bootstrap", "expire"}, Goto(p, s)
        PROVE  Agreement'
    <2>1. PICK w : w = [i EXCEPT !.stage = s]
      OBVIOUS
    <2>2. Becomes(p, w) /\ w.stage = s
      BY <1>1, <1>5, <2>1 DEF Goto, Invocation
    <2>3. BindHolds(w) /\ SessionHolds(w) /\ w.stage \notin Before \cup {"activate", "bind", "write"}
      BY <2>2 DEF BindHolds, SessionHolds, Before, Waiting
    <2>4. QED BY <1>1, <1>2, <1>3, <2>2, <2>3, QuietLate
  <1>6. QED BY <1>2, <1>4, <1>5

LEMMA AuthenticateAgrees ==
  ASSUME AuthorityInv, NEW p \in Invoker, Authenticate(p)
  PROVE  Agreement'
  <1> DEFINE i == invoked[p]
             ref == binding[i.caller]
  <1>1. InStage(p, "authenticate") /\ UNCHANGED <<actor, active, binding, row>>
    BY DEF Authenticate, tables
  <1>2. /\ i # Nothing /\ i \in Invocation /\ i.op # "bootstrap" /\ i.stage = "authenticate"
    BY <1>1, OwnStage DEF Sound, StageIsEarned
  <1>3. ~WritesRow(i) /\ i.stage # "bind"
    BY <1>2 DEF WritesRow
  <1>4. CASE Leave(p)
    BY <1>1, <1>3, <1>4, QuietLeave
  <1>5. PICK w : w = [i EXCEPT !.stage = "beat", !.ref = ref]
    OBVIOUS
  <1>6. CASE Becomes(p, w)
    <2>1. w.stage = "beat" /\ w.caller = i.caller /\ w.ref = ref
      BY <1>2, <1>5 DEF Invocation
    <2>2. BindHolds(w) /\ SessionHolds(w) /\ w.stage \notin Before \cup {"activate", "bind", "write"}
      BY <2>1 DEF BindHolds, SessionHolds, Before, Waiting
    <2>3. QED BY <1>1, <1>2, <1>3, <1>6, <2>2, QuietLate
  <1>7. QED BY <1>4, <1>5, <1>6 DEF Authenticate

LEMMA WorkAgrees ==
  ASSUME AuthorityInv, NEW p \in Invoker, Work(p) \/ Finish(p)
  PROVE  Agreement'
  <1>1. /\ UNCHANGED <<actor, active, binding, row>> /\ Leave(p)
        /\ InStage(p, "run") \/ InStage(p, "dispatched")
    BY DEF Work, Finish, tables
  <1>2. ~WritesRow(invoked[p]) /\ invoked[p].stage # "bind"
    BY <1>1 DEF WritesRow, InStage
  <1>3. QED BY <1>1, <1>2, QuietLeave

\* The deaths that are let happen leave a caller bound and its row written.
LEMMA DieAgrees ==
  ASSUME AuthorityInv, NEW p \in Invoker, DieHalfway(p), ~LocksOut(p)
  PROVE  Agreement'
  <1>1. UNCHANGED <<actor, active, binding, row>> /\ Leave(p) /\ invoked[p] # Nothing
    BY DEF DieHalfway, tables
  <1>2. WritesRow(invoked[p]) \/ invoked[p].stage = "bind" => invoked[p].ref # Nothing
    BY <1>1, OwnStage DEF InStage, WritesRow, Sound, StageIsEarned, Speaking
  <1>3. WritesRow(invoked[p]) => row[invoked[p].ref.id].status # "none"
    BY <1>1, <1>2 DEF WritesRow, LocksOut
  <1>4. invoked[p].stage = "bind" =>
           \A c \in Callers : binding[c] # Nothing => binding[c].id # invoked[p].ref.id
    BY <1>1, <1>2 DEF LocksOut, InStage
  <1>5. QED BY <1>1, <1>3, <1>4, QuietLeave

LEMMA ReadSessionAgrees ==
  ASSUME AuthorityInv, NEW p \in Invoker, ReadSession(p)
  PROVE  Agreement'
  <1> DEFINE i == invoked[p]
             told == row[i.ref.id] = [status |-> "idle", epoch |-> i.ref.epoch]
  <1>1. InStage(p, "session") /\ UNCHANGED <<actor, active, binding, row>>
    BY DEF ReadSession, tables
  <1>2. /\ i # Nothing /\ i \in Invocation /\ i.stage = "session" /\ i.caller \in Callers
        /\ Own(i.caller, i.ref) /\ SessionHolds(i) /\ i.op \in Operation
    BY <1>1, OwnStage DEF SpeaksForOwn, StageHolds, Invocation
  <1>3. i.caller \in Human => HoldsLease(i.ref)
    BY <1>2 DEF SessionHolds
  <1>4. i.caller \in Agent => row[i.ref.id].status # "none"
    BY <1>2 DEF Own, AuthorityInv, TablesAgree
  <1>5. CASE Leave(p) /\ ~IsCurrent(i.ref)
    BY <1>1, <1>2, <1>3, <1>4, <1>5, QuietLeave DEF HoldsLease, Callers
  <1>6. ASSUME NEW t, t = AfterSession(i.op), Goto(p, t), active # i.ref.id \/ told
        PROVE  Agreement'
    <2>1. PICK w : w = [i EXCEPT !.stage = t]
      OBVIOUS
    <2>2. /\ Becomes(p, w) /\ w.stage = t /\ w.caller = i.caller /\ w.ref = i.ref
          /\ w.op = i.op /\ w.of = i.of
      BY <1>2, <1>6, <2>1 DEF Goto, Invocation
    <2>3. told => row[i.ref.id].status # "none"
      OBVIOUS
    <2>4. row[i.ref.id].status # "none" /\ (i.caller \in Human => told)
      BY <1>2, <1>3, <1>4, <1>6, <2>3 DEF HoldsLease, Callers
    <2>5. t \in {"run", "dispatched"} /\ (t = "run" => i.op # "bootstrap")
      BY <1>6 DEF AfterSession
    <2>6. BindHolds(w) /\ SessionHolds(w) /\ w.stage \notin Before \cup {"activate", "bind", "write"}
      BY <1>2, <1>3, <2>2, <2>4, <2>5 DEF BindHolds, SessionHolds, Before, Waiting
    <2>7. StageHolds(w)
      BY <2>6 DEF StageHolds, Lags, ActivateHolds
    <2>8. \A j : Apart(w, j) /\ Apart(j, w)
      BY <2>6 DEF Apart, Lags
    <2>9. w.stage # "write" /\ i.stage # "bind"
      BY <1>2, <2>6
    <2>10. QED BY <1>1, <2>2, <2>4, <2>7, <2>8, <2>9, QuietGo
  <1>7. CASE /\ active = i.ref.id /\ IsCurrent(i.ref)
             /\ Becomes(p, [i EXCEPT !.stage = "write", !.fresh = TRUE])
    <2>1. PICK w : w = [i EXCEPT !.stage = "write", !.fresh = TRUE]
      OBVIOUS
    <2>2. /\ Becomes(p, w) /\ w.stage = "write" /\ w.caller = i.caller /\ w.ref = i.ref
          /\ w.op = i.op /\ w.of = i.of /\ w.fresh
      BY <1>2, <1>7, <2>1 DEF Invocation
    <2>3. w # Nothing
      <3>1. i.caller \in Callers
        BY <1>2
      <3>2. w \in Invocation
        BY <1>2, <2>1 DEF Invocation, BindingStage
      <3>3. QED BY <3>2, InvocationAssumption
    <2>4. StageHolds(w)
      BY <1>2, <2>2 DEF StageHolds, Lags, ActivateHolds, BindHolds, SessionHolds, Before, Waiting
    <2>5. \A j : Apart(w, j) /\ Apart(j, w)
      BY <2>2 DEF Apart, Lags, Before, Waiting
    <2>6. WritesRow(i) => WritesRow(w) /\ w.ref = i.ref
      BY <2>2 DEF WritesRow
    <2>7. i.stage # "bind"
      BY <1>2
    <2>8. QED BY <1>1, <2>2, <2>3, <2>4, <2>5, <2>6, <2>7, QuietGo
  <1>8. QED BY <1>5, <1>6, <1>7 DEF ReadSession

LEMMA BeginStopAgrees ==
  ASSUME AuthorityInv, NEW p \in Invoker, BeginStop(p)
  PROVE  Agreement'
  <1> DEFINE i == invoked[p]
  <1>1. InStage(p, "run") /\ UNCHANGED <<actor, active, binding, row>>
    BY DEF BeginStop, tables
  <1>2. /\ i # Nothing /\ i \in Invocation /\ i.stage = "run"
    BY <1>1, OwnStage
  <1>3. ~WritesRow(i) /\ i.stage # "bind"
    BY <1>2 DEF WritesRow
  <1>4. CASE Leave(p)
    BY <1>1, <1>3, <1>4, QuietLeave
  <1>5. ASSUME NEW t, t = IF row[i.of].status = "none" THEN "actor" ELSE "row",
               Becomes(p, [i EXCEPT !.ref = RefOf(i.of), !.fresh = TRUE, !.stage = t])
        PROVE  Agreement'
    <2>1. PICK w : w = [i EXCEPT !.ref = RefOf(i.of), !.fresh = TRUE, !.stage = t]
      OBVIOUS
    <2>2. Becomes(p, w) /\ w.stage = t /\ w.of = i.of
      BY <1>2, <1>5, <2>1 DEF Invocation
    <2>3. BindHolds(w) /\ SessionHolds(w) /\ w.stage \notin Before \cup {"activate", "bind", "write"}
      BY <1>5, <2>2 DEF BindHolds, SessionHolds, Before, Waiting
    <2>4. QED BY <1>1, <1>2, <1>3, <2>2, <2>3, QuietLate
  <1>6. QED BY <1>4, <1>5 DEF BeginStop

\* Whoever is heard from was not stopped.
LEMMA HeartbeatAgrees ==
  ASSUME AuthorityInv, NEW p \in Invoker, Heartbeat(p)
  PROVE  Agreement'
  <1> DEFINE i == invoked[p]
  <1>1. InStage(p, "beat") /\ UNCHANGED <<active, binding, row>>
    BY DEF Heartbeat
  <1>2. /\ i # Nothing /\ i \in Invocation /\ i.stage = "beat" /\ i.caller \in Callers
        /\ Own(i.caller, i.ref) /\ SessionHolds(i) /\ i.ref # Nothing
    BY <1>1, OwnStage DEF SpeaksForOwn, StageHolds, Sound, StageIsEarned, Speaking
  <1>3. ~WritesRow(i) /\ i.stage # "bind"
    BY <1>2 DEF WritesRow
  <1>4. CASE Leave(p) /\ UNCHANGED actor
    BY <1>1, <1>3, <1>4, QuietLeave
  <1>5. ASSUME NEW t, t = AfterBeat(i.op), Beat(i.ref), Goto(p, t), IsCurrent(i.ref),
               actor[i.ref.id].status \in {"Healthy", "Stale"},
               i.ref.id \in Human => HoldsLease(i.ref)
        PROVE  Agreement'
    <2>1. PICK a \in Actors : a = i.ref.id
      BY <1>2 DEF Invocation, Ref
    <2>2. actor \in [Actors -> ActorState] /\ active \in Human \cup {Nothing}
      BY DEF AuthorityInv, BindingInv, TablesTypeOK
    <2>3. /\ \A b \in Actors : b # a => actor'[b] = actor[b]
          /\ actor'[a].status = "Healthy" /\ actor'[a].epoch = actor[a].epoch
      BY <1>5, <2>1, <2>2 DEF Beat, ActorState
    <2>4. \A b \in Actors : /\ actor'[b].epoch = actor[b].epoch
                           /\ (actor'[b].status = "Absent" <=> actor[b].status = "Absent")
                           /\ (actor'[b].status = "Stopped" => actor[b].status = "Stopped")
      BY <1>5, <2>1, <2>3
    <2>5. active # Nothing => actor'[active].status = "Healthy"
      BY <2>2, <2>3 DEF AuthorityInv, TablesAgree, Actors, Callers
    <2>6. PICK w : w = [i EXCEPT !.stage = t]
      OBVIOUS
    <2>7. /\ Becomes(p, w) /\ w.stage = t /\ w.caller = i.caller /\ w.ref = i.ref
          /\ w.op = i.op /\ w.of = i.of
      BY <1>2, <1>5, <2>6 DEF Goto, Invocation
    <2>8. t \in {"run", "session"} /\ (t = "run" => i.op = "shutdown")
      BY <1>5 DEF AfterBeat
    <2>9. i.caller \in Human => i.ref.id \in Human
      BY <1>2, BindingAssumption DEF Own
    <2>10. (HoldsLease(i.ref) => (active = w.ref.id /\ IsCurrent(w.ref))')
      BY <1>1, <1>5, <2>1, <2>4, <2>7 DEF HoldsLease, IsCurrent
    <2>11. SessionHolds(w)'
      BY <1>1, <1>2, <1>5, <2>7, <2>8, <2>9, <2>10 DEF SessionHolds, HoldsLease
    <2>12. w.stage \notin Before \cup {"activate", "bind", "adopt", "write"}
      BY <2>7, <2>8 DEF Before, Waiting
    <2>13. StageHolds(w)'
      BY <2>11, <2>12 DEF StageHolds, Lags, ActivateHolds, BindHolds
    <2>14. OneHolds(p)'
      <3>1. invoked'[p] = w
        BY <2>7, OthersAreAlike DEF Steps, AuthorityInv, BindingInv
      <3>2. QED BY <2>13, <3>1 DEF OneHolds
    <2>15. \A j : Apart(w, j) /\ Apart(j, w)
      BY <2>12 DEF Apart, Lags
    <2>16. QED BY <1>1, <1>3, <2>4, <2>5, <2>7, <2>12, <2>14, <2>15, HeardStep
  <1>6. QED BY <1>4, <1>5 DEF Heartbeat

\* A Primary's lease runs out under the whole lock alone.
LEMMA ExpireAgrees ==
  ASSUME AuthorityInv, NEW p \in Invoker, Expire(p)
  PROVE  Agreement'
  <1> DEFINE i == invoked[p]
             gone == {a \in Actors : LeaseExpired(a) /\ (a \in Agent \/ i.expires)}
  <1>1. InStage(p, "expire") /\ UNCHANGED <<binding, row>>
    BY DEF Expire
  <1>2. /\ i # Nothing /\ i \in Invocation /\ i.stage = "expire" /\ Admitted(i, binding)
    BY <1>1, OwnStage
  <1>3. actor \in [Actors -> ActorState] /\ active \in Human \cup {Nothing}
    BY DEF AuthorityInv, BindingInv, TablesTypeOK
  <1>4. /\ \A b \in Actors : actor'[b] = IF b \in gone THEN [actor[b] EXCEPT !.status = "Stale"]
                                         ELSE actor[b]
        /\ active' = IF active \in gone THEN Nothing ELSE active
    BY DEF Expire
  <1>5. \A b \in Actors : /\ actor'[b].epoch = actor[b].epoch
                          /\ (actor'[b].status = "Absent" <=> actor[b].status = "Absent")
                          /\ (actor'[b].status = "Stopped" => actor[b].status = "Stopped")
    BY <1>3, <1>4 DEF LeaseExpired, ActorState
  <1>6. PICK t \in {"recover", "bootstrap"} : Goto(p, t)
    BY DEF Expire
  <1>7. PICK w : w = [i EXCEPT !.stage = t]
    OBVIOUS
  <1>8. Becomes(p, w) /\ w.stage = t /\ Steps(p, w)
    BY <1>2, <1>6, <1>7 DEF Goto, Invocation, Steps
  <1>9. w.stage \notin Before \cup {"activate", "bind", "adopt", "beat", "session", "write", "run", "actor"}
    BY <1>8 DEF Before, Waiting
  <1>10. OneHolds(p)' /\ \A j : Apart(w, j) /\ Apart(j, w)
    <2>1. invoked'[p] = w
      BY <1>8, OthersAreAlike DEF AuthorityInv, BindingInv
    <2>2. StageHolds(w)'
      BY <1>9 DEF StageHolds, Lags, ActivateHolds, BindHolds, SessionHolds
    <2>3. QED BY <1>9, <2>1, <2>2 DEF OneHolds, Apart, Lags
  <1>11. ~WritesRow(i) /\ i.stage # "bind"
    BY <1>2 DEF WritesRow
  <1>12. CASE active \notin gone
    <2>1. active' = active
      BY <1>4, <1>12
    <2>2. active # Nothing => actor'[active].status = "Healthy"
      BY <1>3, <1>4, <1>12 DEF AuthorityInv, TablesAgree, Actors, Callers
    <2>3. QED BY <1>1, <1>5, <1>8, <1>9, <1>10, <1>11, <2>1, <2>2, HeardStep
  <1>13. CASE active \in gone
    <2>1. active' = Nothing /\ i.wants = "Exclusive"
      <3>1. active \notin Agent
        BY <1>3, <1>13, BindingAssumption DEF Actors, Callers
      <3>2. QED BY <1>2, <1>4, <1>13, <3>1 DEF Admitted, WantsEnough
    <2>2. /\ Agent \subseteq Actors
          /\ \A c \in Callers : binding[c] # Nothing => binding[c].id \in Actors
      BY DEF Actors, Callers, AuthorityInv, BindingInv, TablesTypeOK, Ref
    <2>3. TablesAgree'
      BY <1>1, <1>5, <2>1, <2>2 DEF AuthorityInv, TablesAgree
    <2>4. ASSUME NEW q \in Invoker \ {p}, invoked[q] # Nothing, Lags(invoked[q]),
                 NEW d \in Callers, d = invoked[q].caller
          PROVE  StaysBehind(d)'
      <3>1. StaysBehind(d)
        BY <2>4 DEF AuthorityInv, StagesHold, StageHolds, StaysBehind
      <3>2. QED BY <1>1, <1>5, <2>2, <3>1 DEF StaysBehind, IsCurrent
    <2>5. \A q \in Invoker \ {p} :
           /\ OneHolds(q)'
           /\ invoked[q] # Nothing => invoked[q].stage # "write"
           /\ invoked[q] = Nothing => invoked'[q] = Nothing
      <3>1. i.stage \notin {"workspace", "primary", "dispatched"}
        BY <1>2
      <3>2. QED BY <1>1, <1>2, <1>5, <1>8, <2>1, <2>2, <2>4, <3>1, ExclusiveOthers
    <2>6. StagesHold'
      BY <1>8, <1>9, <1>10, <2>5, StagesCarry
    <2>7. RowsAreComing'
      BY <1>1, <1>8, <1>11, RowsStillCome
    <2>8. BoundCallersCanReturn'
      BY <1>1, <1>5, <1>8, <1>11, <2>2, StillReturn
    <2>9. QED BY <2>3, <2>6, <2>7, <2>8 DEF Agreement
  <1>14. QED BY <1>12, <1>13

LEMMA LapseAgrees ==
  ASSUME AuthorityInv, NEW b \in Actors, Lapse(b)
  PROVE  Agreement' /\ LockInv'
  <1>1. UNCHANGED <<active, binding, row, invoked>>
    BY DEF Lapse
  <1>2. actor \in [Actors -> ActorState] /\ active \in Human \cup {Nothing}
    BY DEF AuthorityInv, BindingInv, TablesTypeOK
  <1>3. \A a \in Actors : actor'[a].epoch = actor[a].epoch /\ actor'[a].status = actor[a].status
    BY <1>2 DEF Lapse, ActorState
  <1>4. /\ Agent \subseteq Actors /\ Human \subseteq Actors
        /\ \A c \in Callers : binding[c] # Nothing => binding[c].id \in Actors
    BY DEF Actors, Callers, AuthorityInv, BindingInv, TablesTypeOK, Ref
  <1>5. \A r : r.id \in Actors => (IsCurrent(r)' <=> IsCurrent(r))
    BY <1>3 DEF IsCurrent
  <1>6. TablesAgree'
    BY <1>1, <1>2, <1>3, <1>4 DEF AuthorityInv, TablesAgree
  <1>7. ASSUME NEW q \in Invoker, invoked[q] # Nothing PROVE StageHolds(invoked[q])'
    <2> DEFINE j == invoked[q]
    <2>1. /\ StageHolds(j) /\ j.caller \in Callers
          /\ binding[j.caller] # Nothing => binding[j.caller].id \in Actors
          /\ j.stage \in Speaking \cup {"adopt"} => j.ref.id \in Actors
      BY <1>7, SomeIdsOfOthers DEF AuthorityInv, StagesHold
    <2>2. (Lags(j) => binding[j.caller] # Nothing /\ ~IsCurrent(binding[j.caller]))'
      BY <1>1, <1>3, <2>1 DEF StageHolds, Lags, IsCurrent
    <2>3. ActivateHolds(j)' /\ BindHolds(j)'
      BY <1>1, <1>3, <2>1 DEF StageHolds, ActivateHolds, BindHolds, IsCurrent, Speaking
    <2>4. SessionHolds(j)'
      BY <1>1, <1>3, <2>1 DEF StageHolds, SessionHolds, IsCurrent, HoldsLease, Speaking
    <2>5. QED BY <2>2, <2>3, <2>4 DEF StageHolds
  <1>8. StagesHold'
    BY <1>1, <1>7 DEF AuthorityInv, StagesHold, Apart, Lags
  <1>9. RowsAreComing'
    BY <1>1 DEF AuthorityInv, RowsAreComing
  <1>10. BoundCallersCanReturn'
    BY <1>1, <1>3, <1>4 DEF AuthorityInv, BoundCallersCanReturn, IsCurrent, InStage
  <1>11. LockInv'
    BY <1>1 DEF AuthorityInv, LockInv, Admitted, HoldsLocks, WantsEnough, SpeaksForOwn, Disjoint
  <1>12. QED BY <1>6, <1>8, <1>9, <1>10, <1>11 DEF Agreement

\* What an advance does: one generation on for the actor, its binding and its row.
Advanced(p, c, a, e, w) ==
  /\ actor' = [actor EXCEPT ![a] = [epoch |-> e + 1, status |-> "Healthy", beating |-> TRUE]]
  /\ binding' = [binding EXCEPT ![c] = [id |-> a, epoch |-> e + 1]]
  /\ row' = [row EXCEPT ![a] = [status |-> "idle", epoch |-> e + 1]]
  /\ Writes(p, a, w)

AdvancesAs(p, c, t, a, e, w) ==
  /\ a = binding[c].id /\ e = actor[a].epoch /\ e = binding[c].epoch
  /\ actor[a].status # "Absent"
  /\ Advanced(p, c, a, e, w)
  /\ Goes(invoked[p], w, t) /\ w.ref = [id |-> a, epoch |-> e + 1]

LEMMA AdvanceIs ==
  ASSUME AuthorityInv, NEW p \in Invoker, invoked[p] # Nothing, NEW c \in Callers, NEW t,
         binding[c] # Nothing, IsCurrent(binding[c]), AdvanceGeneration(p, c, t)
  PROVE  \E a \in Actors, e \in Nat : \E w : AdvancesAs(p, c, t, a, e, w)
  <1> DEFINE i == invoked[p]
  <1>1. binding[c] \in Ref /\ i \in Invocation
    BY NothingUndone DEF AuthorityInv, BindingInv, TablesTypeOK
  <1>2. PICK a \in Actors : a = binding[c].id
    BY <1>1 DEF Ref
  <1>3. PICK e \in Nat : e = actor[a].epoch
    BY <1>2 DEF AuthorityInv, BindingInv, TablesTypeOK, ActorState
  <1>4. actor[a].status # "Absent" /\ e = binding[c].epoch
    BY <1>2, <1>3 DEF IsCurrent
  <1>5. Begun(a) = [epoch |-> e + 1, status |-> "Healthy", beating |-> TRUE]
    BY <1>3, <1>4 DEF Begun
  <1>6. PICK r : r = [id |-> a, epoch |-> e + 1]
    OBVIOUS
  <1>7. PICK w : w = [i EXCEPT !.stage = t, !.ref = r]
    OBVIOUS
  <1>8. Goes(i, w, t) /\ w.ref = r
    BY <1>1, <1>7 DEF Goes, Keeps, Invocation
  <1>9. [binding[c] EXCEPT !.epoch = e + 1] = r
    BY <1>1, <1>2, <1>6 DEF Ref
  <1>10. Begun(a).epoch = e + 1
    BY <1>5
  <1>11. Advanced(p, c, a, e, w)
    BY <1>2, <1>5, <1>6, <1>7, <1>9, <1>10 DEF AdvanceGeneration, Advanced
  <1>12. QED BY <1>2, <1>3, <1>4, <1>6, <1>8, <1>11 DEF AdvancesAs

LEMMA AdvanceAgrees ==
  ASSUME AuthorityInv, NEW p \in Invoker, NEW s, InStage(p, s),
         s \in {"recover", "bootstrap"}, NEW c \in Callers, c = invoked[p].caller,
         binding[c] # Nothing, IsCurrent(binding[c]),
         NEW t, t = IF s = "recover" THEN "authenticate" ELSE "session",
         AdvanceGeneration(p, c, t),
         \/ c \in Agent /\ s = "bootstrap" /\ UNCHANGED active
         \/ c \in Human /\ invoked[p].wants = "Exclusive" /\ active' = binding[c].id
  PROVE  Agreement'
  <1> DEFINE i == invoked[p]
  <1>1. /\ i # Nothing /\ i.stage = s /\ Own(c, binding[c]) /\ Admitted(i, binding)
        /\ s = "bootstrap" => i.op = "bootstrap"
    BY OwnStage DEF AuthorityInv, TablesAgree, Sound, StageIsEarned
  <1>1a. PICK a \in Actors, e \in Nat : \E w : AdvancesAs(p, c, t, a, e, w)
    BY <1>1, AdvanceIs
  <1>1b. PICK w : AdvancesAs(p, c, t, a, e, w)
    BY <1>1a
  <1>2. /\ a = binding[c].id /\ e = actor[a].epoch /\ e = binding[c].epoch
        /\ actor[a].status # "Absent"
        /\ Advanced(p, c, a, e, w)
        /\ Goes(i, w, t) /\ w.ref = [id |-> a, epoch |-> e + 1]
        /\ a \in Actors /\ e \in Nat
    BY <1>1b DEF AdvancesAs
  <1>3. /\ actor \in [Actors -> ActorState] /\ binding \in [Callers -> Ref \cup {Nothing}]
        /\ row \in [Actors -> Row] /\ active \in Human \cup {Nothing}
    BY DEF AuthorityInv, BindingInv, TablesTypeOK
  <1>4. /\ \A b \in Actors : actor'[b] = IF b = a THEN [epoch |-> e + 1, status |-> "Healthy", beating |-> TRUE]
                                         ELSE actor[b]
        /\ \A b \in Actors : row'[b] = IF b = a THEN [status |-> "idle", epoch |-> e + 1] ELSE row[b]
        /\ \A d \in Callers : binding'[d] = IF d = c THEN [id |-> a, epoch |-> e + 1] ELSE binding[d]
    BY <1>2, <1>3 DEF Advanced
  <1>5. /\ Steps(p, w) /\ Writes(p, a, w) /\ invoked'[p] = w
    BY <1>2, OthersAreAlike DEF Advanced, Steps, AuthorityInv, BindingInv
  <1>6. /\ Agent \subseteq Actors /\ Human \subseteq Actors
        /\ \A d \in Callers : binding[d] # Nothing => /\ binding[d].id \in Actors
                                                      /\ binding[d].epoch \in Nat
        /\ \A b \in Actors : actor[b].epoch \in Nat
    BY <1>3 DEF Actors, Callers, Ref, ActorState
  <1>7. [id |-> a, epoch |-> e + 1] # Nothing
    BY BindingAssumption DEF Actors, Callers
  <1>8. \A d \in Callers : d # c /\ binding[d] # Nothing =>
          /\ Own(d, binding[d]) /\ actor[binding[d].id].status # "Absent"
          /\ binding[d].epoch <= actor[binding[d].id].epoch
          /\ binding[d].id = a => binding[d].epoch <= e /\ binding[d].epoch # e + 1
    <2>1. a \in Actors /\ e \in Nat /\ e = actor[a].epoch
      BY <1>2
    <2>2. \A d \in Callers : d # c /\ binding[d] # Nothing =>
            /\ Own(d, binding[d]) /\ actor[binding[d].id].status # "Absent"
            /\ binding[d].epoch <= actor[binding[d].id].epoch
      BY DEF AuthorityInv, TablesAgree
    <2>3. QED BY <1>6, <2>1, <2>2
  <1>9. c \in Agent => a = c
    BY <1>1, <1>2 DEF Own
  <1>10. c \in Human => a \in Human
    BY <1>1, <1>2, BindingAssumption DEF Own
  <1>11. TablesAgree'
    <2>1. ASSUME NEW d \in Callers, binding'[d] # Nothing
          PROVE  /\ Own(d, binding'[d])
                 /\ actor'[binding'[d].id].status # "Absent"
                 /\ binding'[d].epoch <= actor'[binding'[d].id].epoch
      <3>1. CASE d = c
        <4>1. Own(d, binding'[d])
          BY <1>1, <1>2, <1>4, <3>1 DEF Own
        <4>2. QED BY <1>4, <3>1, <4>1
      <3>2. CASE d # c /\ binding[d].id = a
        BY <1>4, <1>6, <1>8, <2>1, <3>2
      <3>4. CASE d # c /\ binding[d].id # a
        BY <1>4, <1>6, <1>8, <2>1, <3>4
      <3>5. QED BY <3>1, <3>2, <3>4
    <2>2. ASSUME NEW d \in Callers, NEW f \in Callers, d # f, binding'[d] # Nothing,
                 binding'[d] = binding'[f]
          PROVE  FALSE
      <3>1. CASE d # c /\ f # c
        BY <1>4, <2>2, <3>1 DEF AuthorityInv, TablesAgree
      <3>2. CASE d = c
        <4>1. binding[f] # Nothing /\ binding[f].id = a /\ binding[f].epoch = e + 1
          BY <1>4, <1>7, <2>2, <3>2
        <4>2. QED BY <1>8, <2>2, <3>2, <4>1
      <3>3. CASE f = c
        <4>1. binding[d] # Nothing /\ binding[d].id = a /\ binding[d].epoch = e + 1
          BY <1>4, <1>7, <2>2, <3>3
        <4>2. QED BY <1>8, <2>2, <3>3, <4>1
      <3>4. QED BY <3>1, <3>2, <3>3
    <2>3. active' # Nothing => actor'[active'].status = "Healthy"
      <3>1. active # Nothing => active \in Actors /\ actor[active].status = "Healthy"
        BY <1>3, <1>6 DEF AuthorityInv, TablesAgree
      <3>2. actor'[a].status = "Healthy"
        <4>1. a \in Actors
          BY <1>2
        <4>2. QED BY <1>4, <4>1
      <3>3. CASE c \in Agent /\ UNCHANGED active
        BY <1>4, <3>1, <3>2, <3>3
      <3>4. CASE active' = binding[c].id
        BY <1>2, <3>2, <3>4
      <3>5. QED BY <3>3, <3>4
    <2>4. \A b \in Agent : /\ row'[b].status # "none" /\ actor'[b].status # "Absent"
                           /\ actor'[b].status = "Stopped" => row'[b].status = "stopped"
      BY <1>4, <1>6 DEF AuthorityInv, TablesAgree
    <2>5. QED BY <2>1, <2>2, <2>3, <2>4 DEF TablesAgree
  <1>12. w.stage = t /\ w.caller = c /\ w.op = i.op /\ w.stage \notin Before \cup {"activate", "bind", "write"}
    BY <1>2 DEF Goes, Keeps, Before, Waiting
  <1>13. OneHolds(p)'
    <2>1. IsCurrent(w.ref)'
      <3>1. w.ref.id = a /\ w.ref.epoch = e + 1 /\ a \in Actors
        BY <1>2
      <3>2. actor'[a] = [epoch |-> e + 1, status |-> "Healthy", beating |-> TRUE]
        BY <1>4, <3>1
      <3>3. actor'[w.ref.id].status # "Absent" /\ w.ref.epoch = actor'[w.ref.id].epoch
        BY <3>1, <3>2
      <3>4. QED BY ONLY <3>3 DEF IsCurrent
    <2>2. t = "session" /\ c \in Human => HoldsLease(w.ref)'
      <3>1. c \in Human => c \notin Agent
        BY BindingAssumption
      <3>2. c \in Human => active' = w.ref.id
        BY <1>2, <3>1
      <3>3. QED BY <2>1, <3>2 DEF HoldsLease
    <2>3. SessionHolds(w)'
      BY <1>1, <1>12, <2>2 DEF SessionHolds
    <2>4. StageHolds(w)'
      BY <1>12, <2>3 DEF StageHolds, Lags, ActivateHolds, BindHolds
    <2>5. QED BY <1>5, <2>4 DEF OneHolds
  <1>14. \A q \in Invoker \ {p} :
            /\ OneHolds(q)'
            /\ invoked'[q] = invoked[q] \/ (invoked[q] # Nothing /\ invoked[q].stage # "write")
    <2>1. CASE c \in Agent /\ s = "bootstrap" /\ UNCHANGED active
      <3>1. ActorLock(c) \in i.locks
        BY <1>1, <1>2, <1>9, <2>1 DEF Admitted, HoldsLocks, Standing
      <3>2. i.stage \notin {"workspace", "primary", "caller"}
        BY <1>1
      <3>3. binding'[c].id = c
        BY <1>4, <1>9, <2>1
      <3>4. \A b \in Actors : b # c => actor'[b] = actor[b] /\ row'[b] = row[b]
        BY <1>4, <1>9, <2>1
      <3>5. \A d \in Callers : d # c => binding'[d] = binding[d]
        BY <1>4
      <3>6. Writes(p, c, w)
        BY <1>5, <1>9, <2>1
      <3>7. QED BY <1>1, <2>1, <3>1, <3>2, <3>3, <3>4, <3>5, <3>6, AgentOthers
    <2>2. CASE c \in Human /\ i.wants = "Exclusive"
      <3>1. i.stage \notin {"workspace", "primary", "dispatched"}
        BY <1>1
      <3>2. \A b \in Agent : actor'[b] = actor[b]
        BY <1>4, <1>6, <1>10, <2>2, BindingAssumption
      <3>3. \A d \in Callers : \/ binding'[d] = binding[d]
                               \/ d = i.caller /\ d \in Human /\ binding'[d].id \in Human
        BY <1>4, <1>10, <2>2
      <3>4. ASSUME NEW q \in Invoker \ {p}, invoked[q] # Nothing, Lags(invoked[q]),
                   NEW d \in Callers, d = invoked[q].caller
            PROVE  StaysBehind(d)'
        <4>1. StaysBehind(d)
          BY <3>4 DEF AuthorityInv, StagesHold, StageHolds, StaysBehind
        <4>2. d # c
          BY <4>1 DEF StaysBehind
        <4>3. binding[d].epoch # actor[binding[d].id].epoch
          BY <1>8, <4>1, <4>2 DEF StaysBehind, IsCurrent
        <4>4. binding[d].epoch # actor'[binding[d].id].epoch
          BY <1>4, <1>6, <1>8, <4>1, <4>2, <4>3 DEF StaysBehind
        <4>5. QED BY <1>4, <4>1, <4>2, <4>4 DEF StaysBehind, IsCurrent
      <3>5. QED BY <1>1, <1>5, <2>2, <3>1, <3>2, <3>3, <3>4, ExclusiveOthers, OthersAreAlike
    <2>3. QED BY <2>1, <2>2
  <1>15. StagesHold'
    <2>1. \A j : Apart(w, j) /\ Apart(j, w)
      BY <1>12 DEF Apart, Lags
    <2>2. QED BY <1>5, <1>12, <1>13, <1>14, <2>1, StagesCarry
  <1>16. RowsAreComing'
    <2>1. ~WritesRow(i)
      BY <1>1 DEF WritesRow
    <2>2. \A d \in Callers :
           binding'[d] # Nothing /\ row'[binding'[d].id].status = "none" =>
             /\ binding[d] # Nothing /\ row[binding[d].id].status = "none"
             /\ binding'[d].id = binding[d].id
      <3>1. a \in Actors /\ row'[a].status = "idle"
        <4>1. a \in Actors
          BY <1>2
        <4>2. QED BY <1>4, <4>1
      <3>2. \A d \in Callers : binding'[d] # Nothing => d = c \/ binding[d] # Nothing
        BY <1>4
      <3>3. \A d \in Callers : d = c => binding'[d].id = a
        BY <1>4
      <3>4. \A d \in Callers : d # c => binding'[d] = binding[d]
        BY <1>4
      <3>5. \A b \in Actors : b # a => row'[b] = row[b]
        BY <1>4
      <3>6. QED BY <1>6, <3>1, <3>2, <3>3, <3>4, <3>5
    <2>3. QED BY <1>5, <2>1, <2>2, RowsStillCome
  <1>17. BoundCallersCanReturn'
    <2> SUFFICES ASSUME NEW d \in Callers, binding'[d] # Nothing
                 PROVE  (LET ref == binding[d] IN
                         IF IsCurrent(ref)
                         THEN actor[ref.id].status = "Stopped" => row[ref.id].status = "stopped"
                         ELSE \/ \E f \in Callers :
                                   /\ binding[f] # Nothing /\ binding[f].id = ref.id
                                   /\ binding[f].epoch > ref.epoch
                              \/ \E q \in Invoker : InStage(q, "bind") /\ invoked[q].ref.id = ref.id)'
      BY DEF BoundCallersCanReturn
    <2>1. CASE d = c
      <3>1. binding'[d] = [id |-> a, epoch |-> e + 1] /\ a \in Actors
        BY <1>2, <1>4, <2>1
      <3>2. binding'[d].id = a
        BY <3>1
      <3>3. actor'[a].status # "Stopped" /\ IsCurrent(binding[d])'
        BY <1>4, <3>1 DEF IsCurrent
      <3>4. QED BY <3>2, <3>3
    <2>2. CASE d # c /\ binding[d].id = a
      <3>1. binding'[d] = binding[d] /\ binding'[c].id = a /\ binding'[c].epoch = e + 1
            /\ binding'[c] # Nothing /\ binding[d] # Nothing
        BY <1>4, <1>7, <2>2
      <3>2. binding[d].epoch <= e /\ binding[d].epoch \in Nat
        BY <1>6, <1>8, <2>2, <3>1
      <3>3. ~IsCurrent(binding[d])' /\ binding'[c].epoch > binding'[d].epoch
        BY <1>4, <2>2, <3>1, <3>2 DEF IsCurrent
      <3>4. QED BY <2>2, <3>1, <3>3
    <2>3. CASE d # c /\ binding[d].id # a
      <3>1. binding'[d] = binding[d] /\ binding[d] # Nothing
        BY <1>4, <2>3
      <3>2. /\ actor'[binding[d].id] = actor[binding[d].id]
            /\ row'[binding[d].id] = row[binding[d].id]
            /\ IsCurrent(binding[d])' <=> IsCurrent(binding[d])
        BY <1>4, <1>6, <2>3, <3>1 DEF IsCurrent
      <3>3. CASE IsCurrent(binding[d])
        BY <3>1, <3>2, <3>3 DEF AuthorityInv, BoundCallersCanReturn
      <3>4. ASSUME NEW f \in Callers, binding[f] # Nothing, binding[f].id = binding[d].id,
                   binding[f].epoch > binding[d].epoch
            PROVE  binding'[f] = binding[f]
        BY <1>2, <1>4, <2>3, <3>4
      <3>5. ASSUME NEW q \in Invoker, InStage(q, "bind"), invoked[q].ref.id = binding[d].id
            PROVE  InStage(q, "bind")' /\ invoked'[q].ref.id = binding[d].id
        BY <1>1, <1>5, <3>5, OthersAreAlike DEF AuthorityInv, BindingInv, Alike, InStage
      <3>6. QED BY <3>1, <3>2, <3>3, <3>4, <3>5 DEF AuthorityInv, BoundCallersCanReturn
    <2>4. QED BY <2>1, <2>2, <2>3
  <1>18. QED BY <1>11, <1>15, <1>16, <1>17 DEF Agreement

LEMMA RecoverAgrees ==
  ASSUME AuthorityInv, NEW p \in Invoker, Recover(p)
  PROVE  Agreement'
  <1> DEFINE i == invoked[p]
  <1>1. InStage(p, "recover")
    BY DEF Recover
  <1>2. /\ i # Nothing /\ i \in Invocation /\ i.stage = "recover" /\ binding[i.caller] # Nothing
        /\ Admitted(i, binding) /\ i.caller \in Callers
    BY <1>1, OwnStage DEF Sound, StageIsEarned, Authenticated
  <1>3. PICK c \in Callers : c = i.caller
    BY <1>2
  <1>4. Own(c, binding[c]) /\ i.primary = i.wants
    BY <1>2, <1>3 DEF AuthorityInv, TablesAgree, Admitted, HoldsLocks
  <1>5. ~WritesRow(i) /\ i.stage # "bind"
    BY <1>2 DEF WritesRow
  <1>6. CASE Goto(p, "authenticate") /\ UNCHANGED tables
    <2>1. PICK w : w = [i EXCEPT !.stage = "authenticate"]
      OBVIOUS
    <2>2. Becomes(p, w) /\ w.stage = "authenticate"
      BY <1>2, <1>6, <2>1 DEF Goto, Invocation
    <2>3. BindHolds(w) /\ SessionHolds(w) /\ w.stage \notin Before \cup {"activate", "bind", "write"}
      BY <2>2 DEF BindHolds, SessionHolds, Before, Waiting
    <2>4. UNCHANGED <<actor, active, binding, row>>
      BY <1>6 DEF tables
    <2>5. QED BY <1>2, <1>5, <2>2, <2>3, <2>4, QuietLate
  <1>7. CASE Leave(p) /\ UNCHANGED tables
    BY <1>5, <1>7, QuietLeave DEF tables
  <1>8. CASE /\ binding[c].id \notin Agent /\ IsCurrent(binding[c]) /\ i.primary = "Exclusive"
             /\ AdvancePrimary(p, c, "Stale", "authenticate")
    <2>1. c \in Human
      BY <1>4, <1>8 DEF Own, Callers
    <2>2. AdvanceGeneration(p, c, "authenticate") /\ active' = binding[c].id
      BY <1>8 DEF AdvancePrimary
    <2>3. QED BY <1>1, <1>2, <1>3, <1>4, <1>8, <2>1, <2>2, AdvanceAgrees
  <1>9. QED BY <1>3, <1>6, <1>7, <1>8 DEF Recover

LEMMA BootstrapAgrees ==
  ASSUME AuthorityInv, NEW p \in Invoker, Bootstrap(p)
  PROVE  Agreement'
  <1> DEFINE i == invoked[p]
             ref == binding[i.caller]
  <1>1. InStage(p, "bootstrap")
    BY DEF Bootstrap
  <1>2. /\ i \in Invocation /\ i.stage = "bootstrap" /\ i # Nothing /\ i.op = "bootstrap"
        /\ Admitted(i, binding) /\ i.caller \in Callers
    BY <1>1, OwnStage DEF Sound, StageIsEarned
  <1>3. PICK c \in Callers : c = i.caller
    BY <1>2
  <1>4. c \in Human => i.wants = "Exclusive"
    BY <1>2, <1>3 DEF Admitted, WantsEnough, Before, Waiting
  <1>5. ref # Nothing => Own(c, ref) /\ ref \in Ref
    BY <1>3 DEF AuthorityInv, TablesAgree, BindingInv, TablesTypeOK
  <1>6. ~WritesRow(i) /\ i.stage # "bind"
    BY <1>2 DEF WritesRow
  <1>7. CASE Leave(p) /\ UNCHANGED tables
    BY <1>6, <1>7, QuietLeave DEF tables
  <1>8. CASE Becomes(p, [i EXCEPT !.stage = "beat", !.ref = ref]) /\ UNCHANGED tables
    <2>1. PICK w : w = [i EXCEPT !.stage = "beat", !.ref = ref]
      OBVIOUS
    <2>2. Becomes(p, w) /\ w.stage = "beat" /\ w.op = i.op
      BY <1>2, <1>8, <2>1 DEF Invocation
    <2>3. BindHolds(w) /\ SessionHolds(w) /\ w.stage \notin Before \cup {"activate", "bind", "write"}
      BY <1>2, <2>2 DEF BindHolds, SessionHolds, Before, Waiting
    <2>4. UNCHANGED <<actor, active, binding, row>>
      BY <1>8 DEF tables
    <2>5. QED BY <1>2, <1>6, <2>2, <2>3, <2>4, QuietLate
  <1>9. ASSUME NEW a, c \in Human, Becomes(p, [i EXCEPT !.stage = "activate", !.of = a]),
               active = Nothing, ref # Nothing => IsCurrent(ref) /\ ref.id = a, UNCHANGED tables
        PROVE  Agreement'
    <2>1. PICK w : w = [i EXCEPT !.stage = "activate", !.of = a]
      OBVIOUS
    <2>2. /\ Becomes(p, w) /\ w.stage = "activate" /\ w.caller = c /\ w.of = a
      BY <1>2, <1>3, <1>9, <2>1 DEF Invocation
    <2>3. StageHolds(w)
      BY <1>3, <1>9, <2>2
         DEF StageHolds, Lags, ActivateHolds, BindHolds, SessionHolds, Before, Waiting
    <2>4. ASSUME NEW q \in Invoker \ {p}, invoked[q] # Nothing
          PROVE  Apart(w, invoked[q]) /\ Apart(invoked[q], w)
      <3>1. Lags(invoked[q]) => binding[invoked[q].caller] # Nothing /\ ~IsCurrent(binding[invoked[q].caller])
        BY <2>4 DEF AuthorityInv, StagesHold, StageHolds
      <3>2. Lags(invoked[q]) => invoked[q].caller # c
        BY <1>3, <1>9, <3>1
      <3>3. QED BY <2>2, <3>2 DEF Apart, Lags, Before, Waiting
    <2>5. UNCHANGED <<actor, active, binding, row>>
      BY <1>9 DEF tables
    <2>6. QED BY <1>2, <1>6, <2>2, <2>3, <2>4, <2>5, QuietGo
  <1>10. CASE c \in Agent /\ ref = Nothing /\ UNCHANGED tables /\
             Becomes(p, [i EXCEPT !.stage = "adopt", !.ref = RefOf(i.caller)])
    <2>1. PICK w : w = [i EXCEPT !.stage = "adopt", !.ref = RefOf(i.caller)]
      OBVIOUS
    <2>2. /\ Becomes(p, w) /\ w.stage = "adopt" /\ w.caller = c /\ w.ref = RefOf(c)
      BY <1>2, <1>3, <1>10, <2>1 DEF Invocation
    <2>3. IsCurrent(RefOf(c))
      BY <1>10 DEF IsCurrent, RefOf, AuthorityInv, TablesAgree
    <2>4. BindHolds(w) /\ SessionHolds(w) /\ w.stage \notin Before \cup {"activate", "bind", "write"}
      BY <1>3, <1>10, <2>2, <2>3 DEF BindHolds, SessionHolds, Before, Waiting
    <2>5. UNCHANGED <<actor, active, binding, row>>
      BY <1>10 DEF tables
    <2>6. QED BY <1>2, <1>6, <2>2, <2>4, <2>5, QuietLate
  <1>11. CASE ref # Nothing /\ IsCurrent(ref) /\ ref.id \in Agent /\ AdvanceImplementation(p, c)
    <2>1. c \in Agent
      BY <1>5, <1>11, BindingAssumption DEF Own, Callers
    <2>2. AdvanceGeneration(p, c, "session") /\ UNCHANGED active
      BY <1>11 DEF AdvanceImplementation
    <2>3. QED BY <1>1, <1>3, <1>11, <2>1, <2>2, AdvanceAgrees
  <1>12. CASE ref # Nothing /\ IsCurrent(ref) /\ ref.id \notin Agent
              /\ AdvancePrimary(p, c, "Stopped", "session")
    <2>1. c \in Human
      BY <1>5, <1>12 DEF Own, Callers
    <2>2. AdvanceGeneration(p, c, "session") /\ active' = binding[c].id
      BY <1>3, <1>12 DEF AdvancePrimary
    <2>3. QED BY <1>1, <1>3, <1>4, <1>12, <2>1, <2>2, AdvanceAgrees
  <1>13. CASE ref = Nothing
    <2>1. BootstrapUnbound(p)
      BY <1>13 DEF Bootstrap
    <2>2. \/ Leave(p) /\ UNCHANGED tables
          \/ c \in Agent /\ Becomes(p, [i EXCEPT !.stage = "adopt", !.ref = RefOf(i.caller)]) /\ UNCHANGED tables
          \/ /\ c \notin Agent /\ active = Nothing /\ UNCHANGED tables
             /\ \E a : Becomes(p, [i EXCEPT !.stage = "activate", !.of = a])
      BY <1>3, <2>1 DEF BootstrapUnbound
    <2>3. QED BY <1>7, <1>9, <1>10, <1>13, <2>2 DEF Callers
  <1>14. CASE ref # Nothing
    <2>1. BootstrapBound(p)
      BY <1>14 DEF Bootstrap
    <2>2. \/ Leave(p) /\ UNCHANGED tables
          \/ Becomes(p, [i EXCEPT !.stage = "beat", !.ref = ref]) /\ UNCHANGED tables
          \/ IsCurrent(ref) /\ ref.id \in Agent /\ AdvanceImplementation(p, c)
          \/ IsCurrent(ref) /\ ref.id \notin Agent /\ AdvancePrimary(p, c, "Stopped", "session")
          \/ /\ IsCurrent(ref) /\ ref.id \notin Agent /\ UNCHANGED tables /\ active = Nothing
             /\ Becomes(p, [i EXCEPT !.stage = "activate", !.of = ref.id])
      BY <1>3, <2>1 DEF BootstrapBound
    <2>3. ref.id \notin Agent => c \in Human
      BY <1>5, <1>14 DEF Own, Callers
    <2>4. QED BY <1>7, <1>8, <1>9, <1>11, <1>12, <1>14, <2>2, <2>3
  <1>15. QED BY <1>13, <1>14

\* A bootstrap that has found no Primary finds none when it takes the lease, so begins
\* a generation that nobody is bound to.
ActivatesAs(p, a, e, w) ==
  /\ a = invoked[p].of /\ active = Nothing /\ active' = a
  /\ e = Begun(a).epoch
  /\ actor' = [actor EXCEPT ![a] = Begun(a)]
  /\ Becomes(p, w) /\ Goes(invoked[p], w, "bind") /\ w.ref = [id |-> a, epoch |-> e]
  /\ w # Nothing

LEMMA ActivateIs ==
  ASSUME AuthorityInv, NEW p \in Invoker, Activate(p)
  PROVE  \E a \in Human, e \in Nat : \E w : ActivatesAs(p, a, e, w)
  <1> DEFINE i == invoked[p]
  <1>1. InStage(p, "activate")
    BY DEF Activate
  <1>2. /\ i # Nothing /\ i \in Invocation /\ active = Nothing
        /\ i.of \in Human
    BY <1>1, OwnStage DEF StageHolds, ActivateHolds, Sound, StageIsEarned
  <1>3. PICK a \in Human : a = i.of
    BY <1>2
  <1>4. a # Nothing /\ a \in Actors
    BY BindingAssumption DEF Actors, Callers
  <1>5. Begun(a).epoch \in Nat
    <2>1. actor[a].epoch \in Nat
      BY <1>4 DEF AuthorityInv, BindingInv, TablesTypeOK, ActorState
    <2>2. QED BY <2>1 DEF Begun
  <1>6. PICK e \in Nat : e = Begun(a).epoch
    BY <1>5
  <1>7. PICK r : r = [id |-> a, epoch |-> e]
    OBVIOUS
  <1>8. PICK w : w = [i EXCEPT !.stage = "bind", !.ref = r]
    OBVIOUS
  <1>9. Goes(i, w, "bind") /\ w.ref = r
    BY <1>2, <1>8 DEF Goes, Keeps, Invocation
  <1>10. active' = a /\ actor' = [actor EXCEPT ![a] = Begun(a)] /\ Becomes(p, w)
    BY <1>2, <1>3, <1>4, <1>6, <1>7, <1>8 DEF Activate
  <1>11. w # Nothing
    <2>1. MayBegin(a)
      BY <1>2, <1>3, <1>4 DEF Activate
    <2>2. r \in Ref
      BY <1>4, <1>6, <1>7, <2>1, BegunTyped DEF AuthorityInv, BindingInv, Ref, ActorState
    <2>3. w \in Invocation
      BY <1>2, <1>8, <2>2 DEF Invocation, BindingStage
    <2>4. QED BY <2>3, InvocationAssumption
  <1>12. QED BY <1>2, <1>3, <1>6, <1>7, <1>9, <1>10, <1>11 DEF ActivatesAs

LEMMA ActivateAgrees ==
  ASSUME AuthorityInv, NEW p \in Invoker, Activate(p)
  PROVE  Agreement'
  <1> DEFINE i == invoked[p]
  <1>1. InStage(p, "activate") /\ UNCHANGED <<binding, row>>
    BY DEF Activate
  <1>2. /\ i # Nothing /\ i.stage = "activate" /\ Admitted(i, binding) /\ i.caller \in Human
        /\ i.op = "bootstrap" /\ ActivateHolds(i)
    BY <1>1, OwnStage DEF StageHolds, Admitted, SpeaksForOwn
  <1>2a. PICK a \in Human, e \in Nat : \E w : ActivatesAs(p, a, e, w)
    BY ActivateIs
  <1>2b. PICK w : ActivatesAs(p, a, e, w)
    BY <1>2a
  <1>3. /\ a = i.of /\ active = Nothing /\ active' = a
        /\ e = Begun(a).epoch
        /\ actor' = [actor EXCEPT ![a] = Begun(a)]
        /\ Becomes(p, w) /\ Goes(i, w, "bind") /\ w.ref = [id |-> a, epoch |-> e]
        /\ w # Nothing /\ a \in Human /\ e \in Nat
    BY <1>2b DEF ActivatesAs
  <1>4. PICK c \in Human : c = i.caller
    BY <1>2
  <1>5. i.wants = "Exclusive"
    BY <1>2 DEF Admitted, WantsEnough, Before, Waiting
  <1>6. /\ actor \in [Actors -> ActorState] /\ binding \in [Callers -> Ref \cup {Nothing}]
        /\ row \in [Actors -> Row] /\ active \in Human \cup {Nothing}
    BY DEF AuthorityInv, BindingInv, TablesTypeOK
  <1>7. /\ Agent \subseteq Actors /\ Human \subseteq Actors /\ Human \subseteq Callers
        /\ \A d \in Callers : binding[d] # Nothing => /\ binding[d].id \in Actors
                                                      /\ binding[d].epoch \in Nat
        /\ \A b \in Actors : actor[b].epoch \in Nat
    BY <1>6 DEF Actors, Callers, Ref, ActorState
  <1>8. \A b \in Actors : actor'[b] = IF b = a THEN Begun(a) ELSE actor[b]
    BY <1>3, <1>6
  <1>9. /\ actor'[a].epoch = e /\ actor'[a].status = "Healthy"
    BY <1>3, <1>7, <1>8 DEF Begun
  <1>10. \A d \in Callers : binding[d] # Nothing =>
          /\ Own(d, binding[d]) /\ actor[binding[d].id].status # "Absent"
          /\ binding[d].epoch <= actor[binding[d].id].epoch
          /\ binding[d].id = a => binding[d].epoch < e
    <2>1. \A d \in Callers : binding[d] # Nothing =>
            /\ Own(d, binding[d]) /\ actor[binding[d].id].status # "Absent"
            /\ binding[d].epoch <= actor[binding[d].id].epoch
      BY DEF AuthorityInv, TablesAgree
    <2>2. a \in Actors /\ (actor[a].status # "Absent" => e = actor[a].epoch + 1)
      BY <1>3, <1>7 DEF Begun
    <2>3. QED BY <1>7, <2>1, <2>2
  <1>11. /\ Steps(p, w) /\ invoked'[p] = w /\ w.stage = "bind" /\ w.caller = c
    BY <1>3, <1>4, OthersAreAlike DEF Steps, Goes, Keeps, AuthorityInv, BindingInv
  <1>12. a \notin Agent /\ a # Nothing
    BY BindingAssumption
  <1>13. TablesAgree'
    <2>1. ASSUME NEW d \in Callers, binding[d] # Nothing
          PROVE  /\ actor'[binding[d].id].status # "Absent"
                 /\ binding[d].epoch <= actor'[binding[d].id].epoch
      BY <1>7, <1>8, <1>9, <1>10, <2>1
    <2>2. QED BY <1>1, <1>3, <1>7, <1>8, <1>9, <1>12, <2>1 DEF AuthorityInv, TablesAgree
  <1>14. ASSUME NEW d \in Callers, StaysBehind(d)
         PROVE  StaysBehind(d)'
    BY <1>1, <1>7, <1>8, <1>9, <1>10, <1>14 DEF StaysBehind, IsCurrent
  <1>15. OneHolds(p)'
    <2>1. IsCurrent(w.ref)'
      BY <1>3, <1>9 DEF IsCurrent
    <2>2. \A d \in Callers : binding[d] # Nothing => binding[d] # w.ref
      BY <1>3, <1>7, <1>10
    <2>3. w.ref # Nothing
      BY <1>3, <1>7, BindingAssumption DEF Actors, Callers
    <2>4. binding[c] # Nothing => binding[c].id = a
      BY <1>2, <1>3, <1>4 DEF ActivateHolds
    <2>5. BindHolds(w)'
      BY <1>1, <1>3, <1>11, <2>1, <2>2, <2>3, <2>4 DEF BindHolds
    <2>6. StageHolds(w)'
      BY <1>11, <2>5 DEF StageHolds, Lags, ActivateHolds, SessionHolds, Before, Waiting
    <2>7. QED BY <1>11, <2>6 DEF OneHolds
  <1>16. ASSUME NEW q \in Invoker \ {p}, invoked[q] # Nothing
         PROVE  Apart(w, invoked[q]) /\ Apart(invoked[q], w)
    BY <1>2, <1>4, <1>11, <1>16 DEF AuthorityInv, StagesHold, Apart, Lags, Before, Waiting
  <1>17. \A q \in Invoker \ {p} :
            /\ OneHolds(q)'
            /\ invoked[q] # Nothing => invoked[q].stage # "write"
            /\ invoked[q] = Nothing => invoked'[q] = Nothing
    <2>1. i.stage \notin {"workspace", "primary", "dispatched"}
      BY <1>2
    <2>2. \A b \in Agent : actor'[b] = actor[b]
      BY <1>7, <1>8, <1>12
    <2>3. ASSUME NEW q \in Invoker \ {p}, invoked[q] # Nothing, Lags(invoked[q]),
                 NEW d \in Callers, d = invoked[q].caller
          PROVE  StaysBehind(d)'
      <3>1. StaysBehind(d)
        BY <2>3 DEF AuthorityInv, StagesHold, StageHolds, StaysBehind
      <3>2. QED BY <1>14, <3>1
    <2>4. QED BY <1>1, <1>2, <1>5, <1>11, <2>1, <2>2, <2>3, ExclusiveOthers
  <1>18. StagesHold'
    <2>1. w.stage # "write"
      BY <1>11
    <2>2. \A q \in Invoker \ {p} : \/ invoked'[q] = invoked[q]
                                   \/ invoked[q] # Nothing /\ invoked[q].stage # "write"
      BY <1>17
    <2>3. QED BY <1>11, <1>15, <1>16, <1>17, <2>1, <2>2, StagesCarry
  <1>19. RowsAreComing'
    BY <1>1, <1>2, <1>11, RowsStillCome DEF WritesRow
  <1>20. BoundCallersCanReturn'
    <2> SUFFICES ASSUME NEW d \in Callers, binding[d] # Nothing
                 PROVE  (LET ref == binding[d] IN
                         IF IsCurrent(ref)
                         THEN actor[ref.id].status = "Stopped" => row[ref.id].status = "stopped"
                         ELSE \/ \E f \in Callers :
                                   /\ binding[f] # Nothing /\ binding[f].id = ref.id
                                   /\ binding[f].epoch > ref.epoch
                              \/ \E q \in Invoker : InStage(q, "bind") /\ invoked[q].ref.id = ref.id)'
      BY <1>1 DEF BoundCallersCanReturn
    <2>1. CASE binding[d].id = a
      <3>1. ~IsCurrent(binding[d])'
        BY <1>1, <1>7, <1>9, <1>10, <2>1 DEF IsCurrent
      <3>2. InStage(p, "bind")' /\ invoked'[p].ref.id = a
        BY <1>3, <1>11 DEF InStage
      <3>3. QED BY <1>1, <2>1, <3>1, <3>2
    <2>2. CASE binding[d].id # a
      <3>1. /\ actor'[binding[d].id] = actor[binding[d].id]
            /\ IsCurrent(binding[d])' <=> IsCurrent(binding[d])
        BY <1>1, <1>7, <1>8, <2>2 DEF IsCurrent
      <3>2. CASE IsCurrent(binding[d])
        BY <1>1, <3>1, <3>2 DEF AuthorityInv, BoundCallersCanReturn
      <3>3. ASSUME NEW q \in Invoker, InStage(q, "bind"), invoked[q].ref.id = binding[d].id
            PROVE  InStage(q, "bind")' /\ invoked'[q].ref.id = binding[d].id
        BY <1>2, <1>11, <3>3, OthersAreAlike DEF AuthorityInv, BindingInv, Alike, InStage
      <3>4. QED BY <1>1, <3>1, <3>2, <3>3 DEF AuthorityInv, BoundCallersCanReturn
    <2>3. QED BY <2>1, <2>2
  <1>21. QED BY <1>13, <1>18, <1>19, <1>20 DEF Agreement

\* What is about to be bound is the present generation, which nobody else is bound to.
LEMMA BindAgrees ==
  ASSUME AuthorityInv, NEW p \in Invoker, Bind(p)
  PROVE  Agreement'
  <1> DEFINE i == invoked[p]
  <1>1. InStage(p, "bind") /\ UNCHANGED <<actor, active, row>>
    BY DEF Bind
  <1>2. /\ i # Nothing /\ i \in Invocation /\ i.stage = "bind" /\ i.op = "bootstrap"
        /\ i.caller \in Callers /\ i.ref # Nothing /\ Own(i.caller, i.ref) /\ BindHolds(i)
        /\ Admitted(i, binding)
    BY <1>1, OwnStage DEF StageHolds, SpeaksForOwn, Sound, StageIsEarned, Speaking
  <1>3. PICK c \in Callers : c = i.caller
    BY <1>2
  <1>4. PICK r \in Ref : r = i.ref
    BY <1>2 DEF Invocation
  <1>5. /\ actor \in [Actors -> ActorState] /\ binding \in [Callers -> Ref \cup {Nothing}]
        /\ row \in [Actors -> Row] /\ active \in Human \cup {Nothing}
    BY DEF AuthorityInv, BindingInv, TablesTypeOK
  <1>6. /\ Agent \subseteq Actors /\ Human \subseteq Actors /\ r.id \in Actors
        /\ r.epoch \in Nat /\ r # Nothing
        /\ \A d \in Callers : binding[d] # Nothing => /\ binding[d].id \in Actors
                                                      /\ binding[d].epoch \in Nat
        /\ \A b \in Actors : actor[b].epoch \in Nat
    BY <1>2, <1>4, <1>5 DEF Actors, Callers, Ref, ActorState
  <1>7. /\ IsCurrent(r) /\ actor[r.id].status # "Absent" /\ r.epoch = actor[r.id].epoch
        /\ c \in Human => active = r.id
        /\ \A d \in Callers \ {c} : binding[d] # r
        /\ binding[c] # Nothing => binding[c].id = r.id
    BY <1>2, <1>3, <1>4 DEF BindHolds, IsCurrent
  <1>8. \A d \in Callers : binding[d] # Nothing =>
            /\ Own(d, binding[d]) /\ actor[binding[d].id].status # "Absent"
            /\ binding[d].epoch <= actor[binding[d].id].epoch
    BY DEF AuthorityInv, TablesAgree
  <1>9. binding[c] # Nothing => binding[c].epoch <= r.epoch
    BY <1>7, <1>8
  <1>10. PICK t \in {"beat", "session"} : t = IF r.id \in Agent THEN "beat" ELSE "session"
    OBVIOUS
  <1>11. Goto(p, t) /\ binding' = [binding EXCEPT ![c] = r]
    BY <1>3, <1>4, <1>7, <1>9, <1>10 DEF Bind
  <1>12. \A d \in Callers : binding'[d] = IF d = c THEN r ELSE binding[d]
    BY <1>5, <1>11
  <1>13. PICK w : w = [i EXCEPT !.stage = t]
    OBVIOUS
  <1>14. /\ Becomes(p, w) /\ w.stage = t /\ w.caller = c /\ w.ref = r /\ w.op = "bootstrap"
    BY <1>2, <1>3, <1>4, <1>11, <1>13 DEF Goto, Invocation
  <1>15. w # Nothing
    <2>1. w \in Invocation
      BY <1>2, <1>13 DEF Invocation, BindingStage
    <2>2. QED BY <2>1, InvocationAssumption
  <1>16. Steps(p, w) /\ invoked'[p] = w
    BY <1>14, OthersAreAlike DEF Steps, AuthorityInv, BindingInv
  <1>17. /\ c \in Agent => r.id = c /\ t = "beat"
         /\ c \in Human => r.id \in Human /\ t = "session"
    BY <1>2, <1>3, <1>4, <1>10, BindingAssumption DEF Own
  <1>18. TablesAgree'
    <2>1. ASSUME NEW d \in Callers, binding'[d] # Nothing
          PROVE  /\ Own(d, binding'[d])
                 /\ actor[binding'[d].id].status # "Absent"
                 /\ binding'[d].epoch <= actor[binding'[d].id].epoch
      <3>1. CASE d = c
        BY <1>2, <1>3, <1>4, <1>6, <1>7, <1>12, <3>1
      <3>2. CASE d # c
        BY <1>8, <1>12, <2>1, <3>2
      <3>3. QED BY <3>1, <3>2
    <2>2. \A d, f \in Callers : d # f /\ binding'[d] # Nothing => binding'[d] # binding'[f]
      BY <1>6, <1>7, <1>12 DEF AuthorityInv, TablesAgree
    <2>3. QED BY <1>1, <2>1, <2>2 DEF AuthorityInv, TablesAgree
  <1>19. OneHolds(p)'
    <2>1. c \in Human => (HoldsLease(r))'
      BY <1>1, <1>7 DEF HoldsLease, IsCurrent
    <2>2. SessionHolds(w)'
      BY <1>14, <2>1 DEF SessionHolds
    <2>3. StageHolds(w)'
      BY <1>14, <2>2 DEF StageHolds, Lags, ActivateHolds, BindHolds, Before, Waiting
    <2>4. QED BY <1>16, <2>3 DEF OneHolds
  <1>20. \A q \in Invoker \ {p} :
            /\ OneHolds(q)'
            /\ invoked'[q] = invoked[q] \/ (invoked[q] # Nothing /\ invoked[q].stage # "write")
    <2>1. CASE c \in Agent
      <3>1. i.stage \notin {"workspace", "primary", "caller"}
        BY <1>2
      <3>2. binding'[c].id = c
        BY <1>12, <1>17, <2>1
      <3>3. \A d \in Callers : d # c => binding'[d] = binding[d]
        BY <1>12
      <3>4. QED BY <1>1, <1>2, <1>3, <1>14, <2>1, <3>1, <3>2, <3>3, AgentOthers
    <2>2. CASE c \in Human
      <3>1. i.stage \notin {"workspace", "primary", "dispatched"} /\ i.wants = "Exclusive"
        BY <1>2, <1>3, <2>2 DEF Admitted, WantsEnough, Before, Waiting
      <3>2. \A d \in Callers : \/ binding'[d] = binding[d]
                               \/ d = i.caller /\ d \in Human /\ binding'[d].id \in Human
        BY <1>3, <1>12, <1>17, <2>2
      <3>3. ASSUME NEW q \in Invoker \ {p}, invoked[q] # Nothing, Lags(invoked[q]),
                   NEW d \in Callers, d = invoked[q].caller
            PROVE  StaysBehind(d)'
        <4>1. StaysBehind(d) /\ d # c
          BY <1>2, <1>3, <3>3 DEF AuthorityInv, StagesHold, StageHolds, StaysBehind, Apart
        <4>2. QED BY <1>1, <1>12, <4>1 DEF StaysBehind, IsCurrent
      <3>4. \A q \in Invoker \ {p} :
              /\ OneHolds(q)'
              /\ invoked[q] # Nothing => invoked[q].stage # "write"
              /\ invoked[q] = Nothing => invoked'[q] = Nothing
        BY <1>1, <1>2, <1>16, <3>1, <3>2, <3>3, ExclusiveOthers
      <3>5. QED BY <3>4
    <2>3. QED BY <2>1, <2>2 DEF Callers
  <1>21. StagesHold'
    <2>1. w.stage # "write" /\ \A j : Apart(w, j) /\ Apart(j, w)
      BY <1>14 DEF Apart, Lags, Before, Waiting
    <2>2. QED BY <1>16, <1>19, <1>20, <2>1, StagesCarry
  <1>22. RowsAreComing'
    <2> SUFFICES ASSUME NEW d \in Callers, binding'[d] # Nothing,
                        row[binding'[d].id].status = "none"
                 PROVE  \E q \in Invoker : /\ invoked'[q] # Nothing /\ WritesRow(invoked'[q])
                                           /\ invoked'[q].ref.id = binding'[d].id
      BY <1>1 DEF RowsAreComing, WritesRow
    <2>1. CASE d = c
      <3>1. c \in Human
        BY <1>12, <1>17, <2>1 DEF AuthorityInv, TablesAgree, Callers
      <3>2. WritesRow(w)
        BY <1>14, <1>17, <3>1 DEF WritesRow
      <3>3. QED BY <1>12, <1>14, <1>15, <1>16, <2>1, <3>2
    <2>2. CASE d # c
      <3>1. PICK q \in Invoker : /\ invoked[q] # Nothing /\ WritesRow(invoked[q])
                                 /\ invoked[q].ref.id = binding[d].id
        BY <1>12, <2>2 DEF AuthorityInv, RowsAreComing, WritesRow
      <3>2. q # p
        BY <1>2, <3>1 DEF WritesRow
      <3>3. QED BY <1>12, <1>16, <2>2, <3>1, <3>2, OthersAreAlike
               DEF AuthorityInv, BindingInv, Alike, WritesRow
    <2>3. QED BY <2>1, <2>2
  <1>23. BoundCallersCanReturn'
    <2> SUFFICES ASSUME NEW d \in Callers, binding'[d] # Nothing
                 PROVE  (LET ref == binding[d] IN
                         IF IsCurrent(ref)
                         THEN actor[ref.id].status = "Stopped" => row[ref.id].status = "stopped"
                         ELSE \/ \E f \in Callers :
                                   /\ binding[f] # Nothing /\ binding[f].id = ref.id
                                   /\ binding[f].epoch > ref.epoch
                              \/ \E q \in Invoker : InStage(q, "bind") /\ invoked[q].ref.id = ref.id)'
      BY DEF BoundCallersCanReturn
    <2>1. CASE d = c
      <3>1. IsCurrent(r)' /\ binding'[d] = r
        BY <1>1, <1>7, <1>12, <2>1 DEF IsCurrent
      <3>2. actor[r.id].status = "Stopped" => row[r.id].status = "stopped"
        <4>1. CASE c \in Agent
          BY <1>17, <4>1 DEF AuthorityInv, TablesAgree
        <4>2. CASE c \in Human
          BY <1>6, <1>7, <1>17, <4>2, BindingAssumption DEF AuthorityInv, TablesAgree
        <4>3. QED BY <4>1, <4>2 DEF Callers
      <3>3. QED BY <1>1, <3>1, <3>2
    <2>2. CASE d # c
      <3>1. binding'[d] = binding[d] /\ binding[d] # Nothing
        BY <1>12, <2>2
      <3>2. IsCurrent(binding[d])' <=> IsCurrent(binding[d])
        BY <1>1, <3>1 DEF IsCurrent
      <3>3. CASE IsCurrent(binding[d])
        BY <1>1, <3>1, <3>2, <3>3 DEF AuthorityInv, BoundCallersCanReturn
      <3>4. CASE ~IsCurrent(binding[d]) /\ binding[d].id = r.id
        <4>1. binding'[c] = r /\ binding[d].epoch < r.epoch
          BY <1>6, <1>7, <1>8, <1>12, <3>1, <3>4 DEF IsCurrent
        <4>2. QED BY <1>6, <3>1, <3>2, <3>4, <4>1
      <3>5. CASE ~IsCurrent(binding[d]) /\ binding[d].id # r.id
        <4>1. ASSUME NEW f \in Callers, binding[f] # Nothing, binding[f].id = binding[d].id,
                     binding[f].epoch > binding[d].epoch
              PROVE  binding'[f] = binding[f]
          BY <1>7, <1>12, <3>5, <4>1
        <4>2. ASSUME NEW q \in Invoker, InStage(q, "bind"), invoked[q].ref.id = binding[d].id
              PROVE  InStage(q, "bind")' /\ invoked'[q].ref.id = binding[d].id
          BY <1>4, <1>16, <3>5, <4>2, OthersAreAlike DEF AuthorityInv, BindingInv, Alike, InStage
        <4>3. QED BY <3>1, <3>2, <3>5, <4>1, <4>2 DEF AuthorityInv, BoundCallersCanReturn
      <3>6. QED BY <3>3, <3>4, <3>5
    <2>3. QED BY <2>1, <2>2
  <1>24. QED BY <1>18, <1>21, <1>22, <1>23 DEF Agreement

\* Who runs for a person or stops an actor is not beside a bootstrap that holds the
\* Primary's lock, nor at an actor that another has locked.
LEMMA SpeaksAlone ==
  ASSUME AuthorityInv, NEW p \in Invoker, NEW q \in Invoker \ {p},
         invoked[p] # Nothing, invoked[q] # Nothing,
         invoked[p].op = "stop", invoked[p].stage \in {"row", "actor"},
         invoked[q].caller \in Human, invoked[q].ref # Nothing,
         invoked[q].stage \in {"session", "write", "run"}
  PROVE  invoked[q].ref.id # invoked[p].of /\ invoked[q].op # "bootstrap"
  <1> DEFINE i == invoked[p]
             j == invoked[q]
  <1>1. Admitted(i, binding) /\ Admitted(j, binding) /\ StageHolds(j)
    BY DEF AuthorityInv, LockInv, StagesHold
  <1>2. i.caller \in Human /\ ActorLock(i.of) \in i.locks
    BY <1>1 DEF Admitted, WantsEnough, HoldsLocks, Waiting
  <1>3. j.op # "bootstrap"
    <2>1. j.op = "bootstrap" => j.wants = "Exclusive"
      BY <1>1 DEF Admitted, WantsEnough, Before, Waiting
    <2>2. j.op = "bootstrap" => i.stage \in Before \cup {"dispatched"}
      BY <1>2, <2>1, ExclusiveAlone DEF AuthorityInv, BindingInv
    <2>3. QED BY <2>2 DEF Before, Waiting
  <1>4. ActorLock(j.ref.id) \in j.locks
    BY <1>1, <1>3 DEF StageHolds, SessionHolds, Admitted, HoldsLocks, Waiting
  <1>5. i.locks \cap j.locks = {}
    BY DEF AuthorityInv, LockInv, Disjoint
  <1>6. QED BY <1>2, <1>3, <1>4, <1>5

LEMMA WriteSessionAgrees ==
  ASSUME AuthorityInv, NEW p \in Invoker, WriteSession(p)
  PROVE  Agreement'
  <1> DEFINE i == invoked[p]
  <1>1. InStage(p, "write") /\ UNCHANGED <<actor, active, binding>>
    BY DEF WriteSession
  <1>2. /\ i # Nothing /\ i \in Invocation /\ i.stage = "write" /\ i.caller \in Human
        /\ i.ref # Nothing /\ SessionHolds(i) /\ Admitted(i, binding)
    BY <1>1, OwnStage DEF StageHolds, SpeaksForOwn, Sound, StageIsEarned, Speaking
  <1>3. PICK r \in Ref : r = i.ref
    BY <1>2 DEF Invocation
  <1>4. PICK a \in Actors : a = r.id
    BY DEF Ref
  <1>5. HoldsLease(r)
    BY <1>2, <1>3 DEF SessionHolds
  <1>6. /\ active = a /\ r.epoch = actor[a].epoch /\ a \in Human /\ actor[a].status = "Healthy"
    BY <1>4, <1>5, BindingAssumption
       DEF HoldsLease, IsCurrent, AuthorityInv, TablesAgree, BindingInv, TablesTypeOK, Actors, Callers
  <1>7. CASE ~i.fresh
    <2>1. i.op # "bootstrap"
      BY <1>2, <1>7 DEF AuthorityInv, StagesHold
    <2>2. Leave(p) /\ UNCHANGED row
      BY <1>7 DEF WriteSession
    <2>3. QED BY <1>1, <1>2, <2>1, <2>2, QuietLeave DEF WritesRow
  <1>8. CASE i.fresh
    <2>1. PICK t \in {"run", "dispatched"} : t = AfterSession(i.op)
      BY DEF AfterSession
    <2>2. PICK v : v = [status |-> "idle", epoch |-> r.epoch]
      OBVIOUS
    <2>3. PICK w : w = [i EXCEPT !.stage = t]
      OBVIOUS
    <2>4. Writes(p, a, w) /\ row' = [row EXCEPT ![a] = v]
      BY <1>3, <1>4, <1>8, <2>1, <2>2, <2>3 DEF WriteSession
    <2>5. row \in [Actors -> Row]
      BY DEF AuthorityInv, BindingInv, TablesTypeOK
    <2>6. \A b \in Actors : row'[b] = IF b = a THEN v ELSE row[b]
      BY <2>4, <2>5
    <2>7. /\ w.stage = t /\ w.caller = i.caller /\ w.op = i.op /\ w.ref = r
          /\ Steps(p, w) /\ invoked'[p] = w
      BY <1>2, <1>3, <2>3, <2>4, OthersAreAlike DEF Steps, Invocation, AuthorityInv, BindingInv
    <2>8. v.status = "idle" /\ v.epoch = r.epoch
      BY <2>2
    <2>9. /\ Agent \subseteq Actors /\ a \notin Agent
          /\ \A d \in Callers : binding[d] # Nothing => binding[d].id \in Actors
      BY <1>6, BindingAssumption DEF Actors, Callers, AuthorityInv, BindingInv, TablesTypeOK, Ref
    <2>10. ASSUME NEW q \in Invoker \ {p}, invoked[q] # Nothing
           PROVE  RowSuits(invoked[q], a, v)
      <3> DEFINE j == invoked[q]
      <3>1. StageHolds(j) /\ Admitted(j, binding)
        BY <2>10 DEF AuthorityInv, StagesHold, LockInv
      <3>2. /\ j.stage = "run" /\ j.op # "shutdown" /\ j.caller \in Human /\ j.ref.id = a =>
                 j.ref.epoch = r.epoch
        BY <1>6, <3>1 DEF StageHolds, SessionHolds, HoldsLease, IsCurrent
      <3>3. j.stage = "actor" => j.op = "stop"
        BY <3>1 DEF Admitted, SpeaksForOwn
      <3>4. ~(j.stage = "actor" /\ j.of = a)
        BY <1>2, <1>3, <1>4, <2>10, <3>3, SpeaksAlone
      <3>5. QED BY <2>2, <3>2, <3>4 DEF RowSuits
    <2>11. \A q \in Invoker \ {p} :
             /\ OneHolds(q)'
             /\ invoked'[q] = invoked[q] \/ (invoked[q] # Nothing /\ invoked[q].stage # "write")
                \/ (invoked[q] # Nothing /\ invoked[q].op # "bootstrap")
      <3>1. i.stage \notin Before \cup {"dispatched"}
        BY <1>2 DEF Before, Waiting
      <3>2. /\ i # Nothing /\ i.caller \in Human /\ UNCHANGED <<actor, active, binding>>
            /\ Writes(p, a, w) /\ row' = [row EXCEPT ![a] = v]
        BY <1>1, <1>2, <2>4
      <3>3. QED BY <2>10, <3>1, <3>2, RowOthers
    <2>12. OneHolds(p)'
      <3>1. SessionHolds(w)'
        BY <1>1, <1>2, <1>3, <1>4, <1>5, <2>1, <2>2, <2>6, <2>7
           DEF SessionHolds, HoldsLease, IsCurrent, AfterSession
      <3>2. StageHolds(w)'
        BY <2>1, <2>7, <3>1 DEF StageHolds, Lags, ActivateHolds, BindHolds, Before, Waiting
      <3>3. QED BY <2>7, <3>2 DEF OneHolds
    <2>13. StagesHold'
      <3>1. w.stage # "write" /\ \A j : Apart(w, j) /\ Apart(j, w)
        BY <2>1, <2>7 DEF Apart, Lags, Before, Waiting
      <3>2. QED BY <2>7, <2>11, <2>12, <3>1, StagesCarry
    <2>14. TablesAgree'
      BY <1>1, <2>6, <2>9 DEF AuthorityInv, TablesAgree
    <2>15. RowsAreComing'
      <3>1. row'[i.ref.id].status # "none"
        BY <1>3, <1>4, <2>6, <2>8
      <3>2. QED BY <1>1, <2>6, <2>7, <2>8, <2>9, <3>1, RowsStillCome
    <2>16. BoundCallersCanReturn'
      BY <1>1, <1>2, <1>6, <2>6, <2>7, <2>9, StillReturn
    <2>17. QED BY <2>13, <2>14, <2>15, <2>16 DEF Agreement
  <1>9. QED BY <1>7, <1>8

LEMMA StopRowAgrees ==
  ASSUME AuthorityInv, NEW p \in Invoker, StopRow(p)
  PROVE  Agreement'
  <1> DEFINE i == invoked[p]
  <1>1. InStage(p, "row") /\ UNCHANGED <<actor, active, binding>>
    BY DEF StopRow
  <1>2. /\ i # Nothing /\ i \in Invocation /\ i.stage = "row" /\ i.op = "stop"
        /\ i.ref.id = i.of /\ i.of \in Actors /\ Admitted(i, binding) /\ i.caller \in Human
    BY <1>1, OwnStage DEF SpeaksForOwn, Sound, StageIsEarned, Admitted, WantsEnough
  <1>3. PICK a \in Actors : a = i.of
    BY <1>2
  <1>4. ~WritesRow(i) /\ i.stage # "bind"
    BY <1>2 DEF WritesRow
  <1>5. CASE Leave(p) /\ UNCHANGED row
    BY <1>1, <1>4, <1>5, QuietLeave
  <1>6. CASE i.fresh
    <2>1. row \in [Actors -> Row]
      BY DEF AuthorityInv, BindingInv, TablesTypeOK
    <2>2. PICK v : v = [row[a] EXCEPT !.status = "stopped"]
      OBVIOUS
    <2>3. v.status = "stopped"
      BY <2>1, <2>2 DEF Row
    <2>4. PICK w : w = [i EXCEPT !.stage = "actor"]
      OBVIOUS
    <2>5. Writes(p, a, w) /\ row' = [row EXCEPT ![a] = v]
      BY <1>2, <1>3, <1>6, <2>2, <2>4 DEF StopRow
    <2>6. \A b \in Actors : row'[b] = IF b = a THEN v ELSE row[b]
      BY <2>1, <2>5
    <2>7. /\ w.stage = "actor" /\ w.caller = i.caller /\ w.op = i.op /\ w.of = a
          /\ Steps(p, w) /\ invoked'[p] = w
      BY <1>2, <1>3, <2>4, <2>5, OthersAreAlike DEF Steps, Invocation, AuthorityInv, BindingInv
    <2>8. /\ Agent \subseteq Actors
          /\ \A d \in Callers : binding[d] # Nothing => binding[d].id \in Actors
      BY DEF Actors, Callers, AuthorityInv, BindingInv, TablesTypeOK, Ref
    <2>9. ASSUME NEW q \in Invoker \ {p}, invoked[q] # Nothing
          PROVE  RowSuits(invoked[q], a, v)
      <3>1. invoked[q].stage = "run" => invoked[q].ref # Nothing
        BY <2>9 DEF AuthorityInv, BindingInv, InvokedIsSound, Sound, StageIsEarned, Speaking
      <3>2. ~(invoked[q].stage = "run" /\ invoked[q].caller \in Human /\ invoked[q].ref.id = a)
        BY <1>2, <1>3, <2>9, <3>1, SpeaksAlone
      <3>3. QED BY <2>3, <3>2 DEF RowSuits
    <2>10. \A q \in Invoker \ {p} :
             /\ OneHolds(q)'
             /\ invoked'[q] = invoked[q] \/ (invoked[q] # Nothing /\ invoked[q].stage # "write")
                \/ (invoked[q] # Nothing /\ invoked[q].op # "bootstrap")
      <3>1. i.stage \notin Before \cup {"dispatched"}
        BY <1>2 DEF Before, Waiting
      <3>2. QED BY <1>1, <1>2, <2>5, <2>9, <3>1, RowOthers
    <2>11. OneHolds(p)'
      <3>1. row'[w.of].status # "idle"
        BY <2>3, <2>6, <2>7
      <3>2. StageHolds(w)'
        BY <2>7, <3>1 DEF StageHolds, Lags, ActivateHolds, BindHolds, SessionHolds, Before, Waiting
      <3>3. QED BY <2>7, <3>2 DEF OneHolds
    <2>12. StagesHold'
      <3>1. w.stage # "write" /\ \A j : Apart(w, j) /\ Apart(j, w)
        BY <2>7 DEF Apart, Lags, Before, Waiting
      <3>2. QED BY <2>7, <2>10, <2>11, <3>1, StagesCarry
    <2>13. TablesAgree'
      BY <1>1, <2>3, <2>6, <2>8 DEF AuthorityInv, TablesAgree
    <2>14. RowsAreComing'
      BY <1>1, <1>4, <2>3, <2>6, <2>7, <2>8, RowsStillCome
    <2>15. BoundCallersCanReturn'
      BY <1>1, <1>4, <2>3, <2>6, <2>7, <2>8, StillReturn
    <2>16. QED BY <2>12, <2>13, <2>14, <2>15 DEF Agreement
  <1>7. QED BY <1>5, <1>6 DEF StopRow

LEMMA StopActorAgrees ==
  ASSUME AuthorityInv, NEW p \in Invoker, StopActor(p)
  PROVE  Agreement'
  <1> DEFINE i == invoked[p]
  <1>1. InStage(p, "actor") /\ UNCHANGED <<binding, row>> /\ Leave(p)
    BY DEF StopActor
  <1>2. /\ i # Nothing /\ i \in Invocation /\ i.stage = "actor" /\ i.op = "stop"
        /\ i.ref.id = i.of /\ i.of \in Actors /\ SessionHolds(i)
    BY <1>1, OwnStage DEF SpeaksForOwn, Sound, StageIsEarned, StageHolds
  <1>3. PICK a \in Actors : a = i.of
    BY <1>2
  <1>4. ~WritesRow(i) /\ i.stage # "bind"
    BY <1>2 DEF WritesRow
  <1>5. CASE ~IsCurrent(i.ref)
    BY <1>1, <1>4, <1>5, QuietLeave DEF StopActor
  <1>6. CASE IsCurrent(i.ref)
    <2>1. /\ actor' = [actor EXCEPT ![a].status = "Stopped"]
          /\ active' = IF active = a THEN Nothing ELSE active
      BY <1>2, <1>3, <1>6 DEF StopActor
    <2>2. actor[a].status # "Absent" /\ row[a].status # "idle"
      BY <1>2, <1>3, <1>6 DEF IsCurrent, SessionHolds
    <2>3. \A q \in Invoker \ {p} : OneHolds(q)' /\ invoked'[q] = invoked[q]
      BY <1>1, <1>3, <2>1, <2>2, StopOthers
    <2>4. /\ actor \in [Actors -> ActorState] /\ row \in [Actors -> Row]
          /\ active \in Human \cup {Nothing}
      BY DEF AuthorityInv, BindingInv, TablesTypeOK
    <2>5. \A b \in Actors : /\ actor'[b].epoch = actor[b].epoch
                            /\ actor'[b].status = IF b = a THEN "Stopped" ELSE actor[b].status
      BY <2>1, <2>4 DEF ActorState
    <2>6. /\ Agent \subseteq Actors /\ Human \subseteq Actors
          /\ \A d \in Callers : binding[d] # Nothing => binding[d].id \in Actors
      BY DEF Actors, Callers, AuthorityInv, BindingInv, TablesTypeOK, Ref
    <2>7. row[a].status # "none" => row[a].status = "stopped"
      BY <2>2, <2>4 DEF Row
    <2>8. TablesAgree'
      <3>1. \A d \in Callers : binding[d] # Nothing =>
              /\ actor'[binding[d].id].status # "Absent"
              /\ binding[d].epoch <= actor'[binding[d].id].epoch
        BY <2>5, <2>6 DEF AuthorityInv, TablesAgree
      <3>2. active' # Nothing => actor'[active'].status = "Healthy"
        BY <2>1, <2>4, <2>5, <2>6 DEF AuthorityInv, TablesAgree
      <3>3. \A b \in Agent : /\ row[b].status # "none" /\ actor'[b].status # "Absent"
                             /\ actor'[b].status = "Stopped" => row[b].status = "stopped"
        BY <2>5, <2>6, <2>7 DEF AuthorityInv, TablesAgree
      <3>4. QED BY <1>1, <3>1, <3>2, <3>3 DEF AuthorityInv, TablesAgree
    <2>9. Steps(p, Nothing)
      BY <1>1 DEF Steps, Leave
    <2>10. StagesHold'
      BY <2>3, <2>9, StagesCarry
    <2>11. RowsAreComing'
      BY <1>1, <1>4, <2>9, RowsStillCome
    <2>12. ASSUME NEW d \in Callers, binding[d] # Nothing, binding[d].id = a
           PROVE  row[a].status # "none"
      <3> SUFFICES ASSUME row[a].status = "none" PROVE FALSE
        OBVIOUS
      <3>1. PICK q \in Invoker : /\ invoked[q] # Nothing /\ invoked[q].stage \in {"session", "write"}
                                 /\ invoked[q].op = "bootstrap" /\ invoked[q].ref.id = a
        BY <2>12 DEF AuthorityInv, RowsAreComing
      <3>2. /\ Own(invoked[q].caller, invoked[q].ref) /\ invoked[q].caller \in Callers
            /\ invoked[q].ref # Nothing
        BY <3>1, OwnStage DEF InStage, SpeaksForOwn, Sound, StageIsEarned, Speaking
      <3>3. invoked[q].caller \in Human
        BY <3>1, <3>2 DEF Own, AuthorityInv, TablesAgree, Callers
      <3>4. q # p
        BY <1>2, <3>1
      <3>5. QED BY <1>2, <3>1, <3>2, <3>3, <3>4, SpeaksAlone
    <2>13. BoundCallersCanReturn'
      <3>1. \A b \in Actors : actor'[b].status = "Absent" <=> actor[b].status = "Absent"
        BY <2>2, <2>5
      <3>2. \A d \in Callers : binding[d] # Nothing =>
              LET b == binding[d].id IN
                actor'[b].status = "Stopped" => \/ row'[b].status = "stopped"
                                                \/ actor[b].status = "Stopped" /\ row'[b] = row[b]
        BY <1>1, <2>5, <2>6, <2>7, <2>12
      <3>3. QED BY <1>1, <1>4, <2>5, <2>9, <3>1, <3>2, StillReturn
    <2>14. QED BY <2>8, <2>10, <2>11, <2>13 DEF Agreement
  <1>7. QED BY <1>5, <1>6

LEMMA ShutdownAgrees ==
  ASSUME AuthorityInv, NEW p \in Invoker, Shutdown(p)
  PROVE  Agreement'
  <1> DEFINE i == invoked[p]
  <1>1. InStage(p, "run") /\ i.op = "shutdown" /\ UNCHANGED binding
    BY DEF Shutdown
  <1>2. /\ i # Nothing /\ i \in Invocation /\ i.stage = "run" /\ i.ref # Nothing
    BY <1>1, OwnStage DEF Sound, StageIsEarned, Speaking
  <1>3. PICK a \in Actors : a = i.ref.id
    BY <1>2 DEF Invocation, Ref
  <1>4. ~WritesRow(i) /\ i.stage # "bind"
    BY <1>2 DEF WritesRow
  <1>5. CASE Leave(p) /\ UNCHANGED <<actor, active, row>>
    BY <1>1, <1>4, <1>5, QuietLeave
  <1>6. CASE IsCurrent(i.ref) /\ row[i.ref.id].status # "none"
    <2>1. PICK w : w = [i EXCEPT !.stage = "dispatched", !.workspace = "none"]
      OBVIOUS
    <2>2. /\ actor' = [actor EXCEPT ![a].status = "Stopped"]
          /\ active' = IF active = a THEN Nothing ELSE active
          /\ row' = [row EXCEPT ![a].status = "stopped"]
          /\ Writes(p, a, w)
      BY <1>3, <1>6, <2>1 DEF Shutdown
    <2>3. actor[a].status # "Absent"
      BY <1>3, <1>6 DEF IsCurrent
    <2>4. /\ actor \in [Actors -> ActorState] /\ row \in [Actors -> Row]
          /\ active \in Human \cup {Nothing}
      BY DEF AuthorityInv, BindingInv, TablesTypeOK
    <2>5. \A b \in Actors : /\ actor'[b].epoch = actor[b].epoch
                            /\ actor'[b].status = IF b = a THEN "Stopped" ELSE actor[b].status
                            /\ row'[b].status = IF b = a THEN "stopped" ELSE row[b].status
                            /\ b # a => row'[b] = row[b]
      BY <2>2, <2>4 DEF ActorState, Row
    <2>6. /\ Agent \subseteq Actors /\ Human \subseteq Actors
          /\ \A d \in Callers : binding[d] # Nothing => binding[d].id \in Actors
      BY DEF Actors, Callers, AuthorityInv, BindingInv, TablesTypeOK, Ref
    <2>7. Steps(p, w) /\ invoked'[p] = w /\ w.stage = "dispatched"
      BY <1>2, <2>1, <2>2, OthersAreAlike DEF Steps, Invocation, AuthorityInv, BindingInv
    <2>8. TablesAgree'
      <3>1. \A d \in Callers : binding[d] # Nothing =>
              /\ actor'[binding[d].id].status # "Absent"
              /\ binding[d].epoch <= actor'[binding[d].id].epoch
        BY <2>5, <2>6 DEF AuthorityInv, TablesAgree
      <3>2. active' # Nothing => actor'[active'].status = "Healthy"
        BY <2>2, <2>4, <2>5, <2>6 DEF AuthorityInv, TablesAgree
      <3>3. \A b \in Agent : /\ row'[b].status # "none" /\ actor'[b].status # "Absent"
                             /\ actor'[b].status = "Stopped" => row'[b].status = "stopped"
        BY <2>5, <2>6 DEF AuthorityInv, TablesAgree
      <3>4. QED BY <1>1, <3>1, <3>2, <3>3 DEF AuthorityInv, TablesAgree
    <2>9. OneHolds(p)' /\ w.stage # "write" /\ \A j : Apart(w, j) /\ Apart(j, w)
      <3>1. StageHolds(w)'
        BY <2>7 DEF StageHolds, Lags, ActivateHolds, BindHolds, SessionHolds, Before, Waiting
      <3>2. QED BY <2>7, <3>1 DEF OneHolds, Apart, Lags, Before, Waiting
    <2>10. StagesHold'
      <3>1. i.stage \notin {"workspace", "dispatched"}
        BY <1>2
      <3>2. \A q \in Invoker \ {p} :
              /\ OneHolds(q)'
              /\ invoked'[q] = invoked[q] \/ (invoked[q] # Nothing /\ invoked[q].stage # "write")
        BY <1>1, <1>2, <2>7, <3>1, ShutdownOthers
      <3>3. QED BY <2>7, <2>9, <3>2, StagesCarry
    <2>11. RowsAreComing'
      BY <1>1, <1>4, <2>5, <2>6, <2>7, RowsStillCome
    <2>12. BoundCallersCanReturn'
      BY <1>1, <1>4, <2>3, <2>5, <2>6, <2>7, StillReturn
    <2>13. QED BY <2>8, <2>10, <2>11, <2>12 DEF Agreement
  <1>7. QED BY <1>5, <1>6 DEF Shutdown

-----------------------------------------------------------------------------
(* Together.                                                               *)

LEMMA AuthorityInitially == BindingInit => AuthorityInv
  <1> SUFFICES ASSUME BindingInit PROVE AuthorityInv
    OBVIOUS
  <1>1. \A p \in Invoker : invoked[p] = Nothing
    BY DEF BindingInit
  <1>2. \A c \in Callers : binding[c] = Nothing
    BY DEF BindingInit
  <1>3. TablesAgree
    <2>1. \A a \in Agent : a \in Actors /\ actor[a].status = "Healthy" /\ row[a].status = "idle"
      BY DEF BindingInit, Actors, Callers
    <2>2. QED BY <1>2, <2>1 DEF BindingInit, TablesAgree
  <1>4. LockInv /\ StagesHold
    BY <1>1 DEF LockInv, StagesHold
  <1>5. RowsAreComing /\ BoundCallersCanReturn
    BY <1>2 DEF RowsAreComing, BoundCallersCanReturn
  <1>6. QED BY <1>3, <1>4, <1>5, BindingInvHolds DEF AuthorityInv

LEMMA StepKeepsAuthority ==
  ASSUME AuthorityInv, NEW p \in Invoker, BindingStep(p), ~Overtakes(p)
  PROVE  LockInv' /\ Agreement'
  <1>1. CASE LockWorkspace(p) \/ LockPrimary(p) \/ LockCaller(p) \/ LockActors(p) \/ Adopt(p)
    BY <1>1, LockWorkspaceLocks, LockPrimaryLocks, TakingLocks,
       LockWorkspaceAgrees, LockPrimaryAgrees, TakingAgrees, AdoptAgrees
  <1>2. CASE Fence(p) \/ Expire(p) \/ Recover(p)
    BY <1>2, FenceLocks, ExpireLocks, RecoverLocks, FenceAgrees, ExpireAgrees, RecoverAgrees
  <1>3. CASE Authenticate(p) \/ Heartbeat(p) \/ ReadSession(p) \/ WriteSession(p)
    BY <1>3, AuthenticateLocks, HeartbeatLocks, ReadSessionLocks, WriteSessionLocks,
       AuthenticateAgrees, HeartbeatAgrees, ReadSessionAgrees, WriteSessionAgrees
  <1>4. CASE Bootstrap(p) \/ Activate(p) \/ Bind(p)
    BY <1>4, BootstrapLocks, ActivateLocks, BindLocks, BootstrapAgrees, ActivateAgrees, BindAgrees
  <1>5. CASE Work(p) \/ BeginStop(p) \/ StopRow(p) \/ StopActor(p) \/ Shutdown(p) \/ Finish(p)
    BY <1>5, LeavingLocks, BeginStopLocks, StopRowLocks, ShutdownLocks,
       WorkAgrees, BeginStopAgrees, StopRowAgrees, StopActorAgrees, ShutdownAgrees
  <1>6. QED BY <1>1, <1>2, <1>3, <1>4, <1>5 DEF BindingStep

LEMMA NextKeepsAuthority ==
  ASSUME AuthorityInv, [BindingNext]_bindingVars
  PROVE  AuthorityInv'
  <1>1. CASE BindingNext
    <2>1. FullNext
      BY <1>1 DEF BindingNext, FullNext
    <2>2. BindingInv'
      BY <2>1, NextKeeps DEF AuthorityInv
    <2>3. LockInv' /\ Agreement'
      <3>1. ASSUME NEW p \in Invoker, Calls(p)
            PROVE  LockInv' /\ Agreement'
        BY <3>1, EnterLocks, EnterAgrees
      <3>2. ASSUME NEW p \in Invoker, BindingStep(p), ~Overtakes(p)
            PROVE  LockInv' /\ Agreement'
        BY <3>2, StepKeepsAuthority
      <3>3. ASSUME NEW p \in Invoker, DieHalfway(p), ~LocksOut(p)
            PROVE  LockInv' /\ Agreement'
        BY <3>3, LeavingLocks, DieAgrees
      <3>4. ASSUME NEW a \in Actors, Lapse(a)
            PROVE  LockInv' /\ Agreement'
        BY <3>4, LapseAgrees
      <3>5. QED BY <1>1, <3>1, <3>2, <3>3, <3>4 DEF BindingNext
    <2>4. QED BY <2>2, <2>3 DEF AuthorityInv, Agreement
  <1>2. CASE UNCHANGED bindingVars
    <2> USE <1>2 DEF bindingVars, tables
    <2>1. BindingInv'
      BY DEF AuthorityInv, BindingInv, TablesTypeOK, CountersTypeOK, InvokedIsSound
    <2>2. LockInv'
      BY DEF AuthorityInv, LockInv
    <2>3. TablesAgree'
      BY DEF AuthorityInv, TablesAgree
    <2>4. StagesHold'
      <3>1. \A r : IsCurrent(r)' <=> IsCurrent(r)
        BY DEF IsCurrent
      <3>2. \A r : HoldsLease(r)' <=> HoldsLease(r)
        BY <3>1 DEF HoldsLease
      <3>3. \A i : ActivateHolds(i)' <=> ActivateHolds(i)
        BY <3>1 DEF ActivateHolds
      <3>4. \A i : BindHolds(i)' <=> BindHolds(i)
        BY <3>1 DEF BindHolds
      <3>5. \A i : SessionHolds(i)' <=> SessionHolds(i)
        BY <3>2 DEF SessionHolds
      <3>6. \A i : StageHolds(i)' <=> StageHolds(i)
        BY <3>1, <3>3, <3>4, <3>5 DEF StageHolds
      <3>7. QED BY <3>6 DEF AuthorityInv, StagesHold
    <2>5. RowsAreComing'
      BY DEF AuthorityInv, RowsAreComing
    <2>6. BoundCallersCanReturn'
      BY DEF AuthorityInv, BoundCallersCanReturn, IsCurrent, InStage
    <2>7. QED BY <2>1, <2>2, <2>3, <2>4, <2>5, <2>6 DEF AuthorityInv
  <1>3. QED BY <1>1, <1>2

\* Under any interleaving of commands and bootstraps but those that findings are about,
\* the locks of an invocation keep out whoever could undo what it has found in the
\* tables (acquire_operation_guards, bootstrap_context, bind_actor).
THEOREM AuthorityIsKept == BindingSpec => []AuthorityInv
  <1>1. BindingInit => AuthorityInv
    BY AuthorityInitially
  <1>2. AuthorityInv /\ [BindingNext]_bindingVars => AuthorityInv'
    BY NextKeepsAuthority
  <1>3. QED BY <1>1, <1>2, PTL DEF BindingSpec

\* However many commands run and whoever comes for the lease meanwhile, a command of
\* the Primary runs with the binding, the lease and the session row of one generation,
\* to which no other caller is bound (authenticate_primary, bind_actor, the Primary
\* authority lock).
THEOREM TheAuthenticatedAreWhole == BindingSpec => []AuthenticatedIsWhole
  <1>1. AuthorityInv => AuthenticatedIsWhole
    <2> SUFFICES ASSUME AuthorityInv, NEW p \in Invoker, InStage(p, "run"),
                        invoked[p].op \in {"work", "stop"}, invoked[p].ref.id \in Human
                 PROVE  /\ binding[invoked[p].caller] = invoked[p].ref
                        /\ HoldsLease(invoked[p].ref)
                        /\ row[active] = [status |-> "idle", epoch |-> actor[active].epoch]
                        /\ \A c \in Callers \ {invoked[p].caller} : binding[c] # invoked[p].ref
      BY DEF AuthenticatedIsWhole
    <2> DEFINE i == invoked[p]
    <2>1. /\ i.stage = "run" /\ i.caller \in Callers /\ Own(i.caller, i.ref) /\ SessionHolds(i)
          /\ i.ref # Nothing
      BY OwnStage DEF StageHolds, SpeaksForOwn, Sound, StageIsEarned, Speaking
    <2>2. i.caller \in Human
      BY <2>1, BindingAssumption DEF Own, Callers
    <2>3. /\ binding[i.caller] = i.ref /\ HoldsLease(i.ref)
          /\ row[i.ref.id] = [status |-> "idle", epoch |-> i.ref.epoch]
      BY <2>1, <2>2 DEF SessionHolds
    <2>4. row[active] = [status |-> "idle", epoch |-> actor[active].epoch]
      BY <2>3 DEF HoldsLease, IsCurrent
    <2>5. \A c \in Callers \ {i.caller} : binding[c] # i.ref
      BY <2>1, <2>3 DEF AuthorityInv, TablesAgree
    <2>6. QED BY <2>3, <2>4, <2>5
  <1>2. QED BY <1>1, AuthorityIsKept, PTL

\* A caller that was bound can come back whatever the others did since: nothing but a
\* later generation, bound or about to be, takes its place, and a stopped generation
\* has the stopped row that its bootstrap asks for (advance_bound_primary,
\* bootstrap_stopped_implementation, bind_actor).
THEOREM BoundCallersReturn == BindingSpec => []BoundCallersCanReturn
  <1>1. AuthorityInv => BoundCallersCanReturn
    BY DEF AuthorityInv
  <1>2. QED BY <1>1, AuthorityIsKept, PTL
=============================================================================
