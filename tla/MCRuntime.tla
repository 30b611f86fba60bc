----------------------------- MODULE MCRuntime -----------------------------
(***************************************************************************)
(* Instances for TLC of the durable runtime and of the configuration that   *)
(* says what is launched.  A launch and the message queue share no row but  *)
(* the actor's, whose transactions both model, so a behaviour exercises one *)
(* of them, or the load of a configuration, and `half` says which.          *)
(***************************************************************************)
EXTENDS RuntimeLaunch, RuntimeQueue, Presentation, TLC

CONSTANTS d1, d2, t1, t2, t3, p1, p2, p3   \* the launch
CONSTANTS p, q, notice                     \* the queue

VARIABLES half, stage, subject, declared, settings, profiles, pending, announced, sources
loadVars == <<stage, subject, declared, settings, profiles, pending, announced, sources>>
vars == <<half, launchVars, queueVars, loadVars, presentationVars>>

TwoServices == (t1 :> d1) @@ (t2 :> d1) @@ (t3 :> d2)
LaunchSymmetry == Permutations({t1, t2}) \cup Permutations({p1, p2, p3})

Roles == [a \in Actor |-> "primary"]
Teams == [a \in Actor |-> "none"]
NoticeQueue == <<notice>>
NoticeSender == notice :> p
NoticeTarget == notice :> "broadcast"

(***************************************************************************)
(* The files of a configuration, about one of the two default profiles, a   *)
(* profile only the files know, the review section or the runtimes.         *)
(***************************************************************************)
Names == {"primary", "implementation", "research"}

Tables(known) ==
  {a @@ b @@ c @@ d :
     a \in IF known THEN {<<>>} ELSE {<<>>, [role_file |-> "path"]},
     b \in IF known THEN {<<>>} ELSE {<<>>, [capabilities |-> "human"]},
     c \in {<<>>, [launch |-> "bound"], [launch |-> "runtime"]},
     d \in {<<>>, [model |-> "model"], [runtime |-> "pi", model |-> "model"]}}

\* What the fields of earlier releases say of the default profiles.
Legacy ==
  [implementation |-> {<<"implementation", "model">> :> "model",
                       <<"workspace", "implementation_role">> :> "path"},
   primary        |-> {<<"workspace", "primary_role">> :> "path"},
   research       |-> {}]

\* What a project decides with a profile: its Primary, or the actors of a team it knows
\* or of a new one, whose table may be incomplete.
Choices(n) ==
  LET members == <<"team_profiles", "other", "actor_profile">> :> n
  IN {<<"workspace", "primary_profile">> :> n,
      <<"team_profiles", "implementation", "actor_profile">> :> n,
      members, members @@ <<"team_profiles", "other", "desired_instances">> :> "one"}

Files(tables, about, n) ==
  {[set |-> s, agents |-> <<>>] : s \in about} \cup
  {[set |-> s, agents |-> n :> g] : s \in about, g \in tables}

ProfileFiles ==
  [n \in Names |->
     LET tables == Tables(n # "research")
         machine == {g \in tables : DOMAIN g \subseteq {"runtime", "model"}}
         plain == Files({}, Legacy[n], n)
     IN [user    |-> Files(machine \cup {[role_file |-> "path"]}, {<<>>}, n) \cup plain,
         tracked |-> Files(tables, {<<>>}, n) \cup plain,
         local   |-> Files(tables, {<<>>} \cup Choices(n), n) \cup plain]]

ReviewFiles ==
  LET checks == {[program |-> "make", absent |-> {}], [program |-> "tool", absent |-> {"jq"}]}
  IN Files({}, {a @@ b @@ c :
       a \in {<<>>} \cup {<<"review", "checks">> :> S : S \in SUBSET checks},
       b \in {<<>>} \cup {<<"review", "tool_versions">> :> S :
                            S \in {{"make"}, {"make", "tool"}, {"tool", "jq"}}},
       c \in {<<>>, <<"review", "optional_binaries">> :> {"jq"}}}, "review")

RuntimeFiles ==
  Files({}, {a @@ b :
    a \in {<<>>, <<"implementation", "runtime">> :> "pi"},
    b \in {<<>>} \cup {<<"runtime_adapters", r>> :> available :
                         r \in {"codex", "pi"}, available \in {"true", "false"}}}, "runtimes")

FilesOf(l, s) ==
  CASE s = "review"   -> IF l = "user" THEN {} ELSE ReviewFiles
    [] s = "runtimes" -> RuntimeFiles
    [] OTHER          -> ProfileFiles[s][l]

Configuration ==
  INSTANCE ConfigLayers WITH Subjects <- Names \cup {"review", "runtimes"}, FilesOf <- FilesOf

\* What another half does not use is left empty.
NoLoad ==
  /\ stage = "none" /\ subject = "none" /\ announced = {}
  /\ declared = <<>> /\ settings = <<>> /\ profiles = <<>> /\ pending = <<>> /\ sources = <<>>

NoPresentation ==
  /\ placeFirst = FALSE /\ lastTab = 0 /\ given = {} /\ rows = [a \in Executor |-> NoRow]
  /\ executors = <<>> /\ title = <<>> /\ reserved = <<>> /\ archive = <<>>
  /\ job = <<>> /\ shown = <<>>

Init == /\ half \in {"launch", "queue", "configuration", "presentation"}
        /\ LaunchInit /\ QueueInit
        /\ IF half = "configuration" THEN Configuration!ConfigInit ELSE NoLoad
        /\ IF half = "presentation" THEN PresentationInit ELSE NoPresentation

Next ==
  /\ UNCHANGED half
  /\ \/ half = "launch" /\ LaunchNext /\ UNCHANGED <<queueVars, loadVars, presentationVars>>
     \/ half = "queue" /\ QueueNext /\ UNCHANGED <<launchVars, loadVars, presentationVars>>
     \/ half = "configuration" /\ Configuration!ConfigNext
        /\ UNCHANGED <<launchVars, queueVars, presentationVars>>
     \/ half = "presentation" /\ PromptNext
        /\ UNCHANGED <<launchVars, queueVars, loadVars>>

Spec == Init /\ [][Next]_vars

\* A configuration that loads is the one its layers ask for, value by value, names the
\* layer of each, and has what the control plane takes from it (config.rs, load;
\* docs/architecture.md:126-143).
ConfigurationIsTrue == Configuration!ConfigurationIsTrue

\* Every value in force has a source (docs/architecture.md:134); a new profile that gives
\* its capabilities and no launch mode has none for the mode (queue_new_agent_profile_layers).
EveryValueHasASource == Configuration!EveryValueHasASource

\* With refreshes a stop overtakes, the row of an actor that is gone is made again, and
\* cannot be archived (ensure_actor_presentation).
OvertakenSpec ==
  /\ Init /\ half = "presentation"
  /\ [][PresentationNext /\ UNCHANGED <<half, launchVars, queueVars, loadVars>>]_vars
=============================================================================
