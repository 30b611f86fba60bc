---------------------------- MODULE ConfigLayers ----------------------------
(***************************************************************************)
(* How agsv-cli resolves a configuration (agsv-cli/src/config.rs, load):    *)
(* embedded defaults, the user's file, the tracked project file and the     *)
(* local one are applied in turn, field by field; profiles the defaults do  *)
(* not know wait until a project layer declares them; the result is         *)
(* validated, and `sources` says of each field which layer it comes from.   *)
(*                                                                          *)
(* A value carries the layer it was written in, which the code does not     *)
(* know: the properties compare the two.  A behaviour is one load, whose    *)
(* files are about one subject: a profile, the review section or the        *)
(* choice of a runtime.                                                     *)
(***************************************************************************)
EXTENDS FiniteSets, Sequences, Functions, TLC

CONSTANTS Subjects,           \* profiles, "review", "runtimes"
          FilesOf(_, _)       \* FilesOf(l, s): the files of layer l tried for subject s

VARIABLES stage,      \* the layer to read next, then "loaded" or "refused"
          subject,
          declared,   \* [layer -> what its file says], for the layers that have one
          settings,   \* [key -> value] of everything but actor profiles
          profiles,   \* [profile -> [field -> value]]
          pending,    \* [profile -> [field -> value]] of those the defaults do not know
          announced,  \* the profiles a project layer has declared
          sources     \* [key -> layer], effective_sources

configVars == <<stage, subject, declared, settings, profiles, pending, announced, sources>>

Order == <<"builtin", "user", "tracked", "local">>
Rank(l) == CHOOSE i \in 1..Len(Order) : Order[i] = l

\* A profile's launch fields; reasoning_effort goes the way of model, role that of
\* role_file.
Machine == {"runtime", "model"}
Fields  == {"role_file", "capabilities", "launch"} \cup Machine

Key(n, f) == <<"agent_profiles", n, f>>
Tagged(g, l) == [k \in DOMAIN g |-> [is |-> g[k], of |-> l]]
Without(g, S) == Restrict(g, DOMAIN g \ S)

(***************************************************************************)
(* The embedded defaults                                                    *)
(***************************************************************************)
BuiltinSettings ==
  <<"implementation", "runtime">> :> "codex" @@ <<"implementation", "model">> :> "model" @@
  <<"workspace", "primary_role">> :> "path" @@
  <<"workspace", "implementation_role">> :> "path" @@
  <<"workspace", "primary_profile">> :> "primary" @@
  <<"team_profiles", "implementation", "actor_profile">> :> "implementation" @@
  <<"team_profiles", "implementation", "desired_instances">> :> "one" @@
  <<"review", "checks">> :> {} @@ <<"review", "tool_versions">> :> {} @@
  <<"review", "optional_binaries">> :> {}

BuiltinProfiles ==
  [primary        |-> [role_file |-> "path", capabilities |-> "human", launch |-> "bound"],
   implementation |-> [role_file |-> "path", capabilities |-> "plain", launch |-> "runtime",
                       runtime |-> "codex", model |-> "model"]]

\* Every field of the defaults has a source, the launch fields of the bound Primary
\* included until the end of the load.
BuiltinSources ==
  [k \in DOMAIN BuiltinSettings \cup {Key(n, f) : n \in DOMAIN BuiltinProfiles, f \in Fields}
     |-> "builtin"]

ConfigInit ==
  /\ stage = "user"
  /\ subject \in Subjects
  /\ declared = <<>>
  /\ settings = Tagged(BuiltinSettings, "builtin")
  /\ profiles = [n \in DOMAIN BuiltinProfiles |-> Tagged(BuiltinProfiles[n], "builtin")]
  /\ pending = <<>>
  /\ announced = {}
  /\ sources = BuiltinSources

(***************************************************************************)
(* Applying a layer                                                         *)
(***************************************************************************)
Present(l) == l \in DOMAIN declared

\* A tracked file of an earlier release has no profile tables.
ProfileTablesDeclared(file) ==
  file.agents # <<>> \/ \E k \in DOMAIN file.set : k[1] = "team_profiles"
LegacyProfiles == Present("tracked") /\ ~ProfileTablesDeclared(declared["tracked"])

\* Where its fields speak for the default profiles too.
Bridge ==
  <<"workspace", "primary_role">> :> Key("primary", "role_file") @@
  <<"workspace", "implementation_role">> :> Key("implementation", "role_file") @@
  <<"implementation", "runtime">> :> Key("implementation", "runtime") @@
  <<"implementation", "model">> :> Key("implementation", "model")
Bridged(file) ==
  [j \in {Bridge[k] : k \in DOMAIN file.set \cap DOMAIN Bridge} |->
     file.set[CHOOSE k \in DOMAIN Bridge : Bridge[k] = j]]
BridgedFor(n, file) ==
  [f \in {f \in Fields : Key(n, f) \in DOMAIN Bridged(file)} |-> Bridged(file)[Key(n, f)]]

\* A profile that is bound drops what was set to launch it, and ignores what a layer adds.
Overridden(profile, table, l) ==
  LET given == Tagged(table, l)
      mode  == IF "launch" \in DOMAIN table THEN table.launch ELSE profile.launch.is
      kept  == IF "launch" \in DOMAIN table /\ mode = "bound" THEN Without(profile, Machine)
                                                             ELSE profile
  IN (IF mode = "bound" THEN Without(given, Machine) ELSE given) @@ kept

\* The profiles after a layer: legacy fields first, then the tables of known profiles.
Applied(file, known, bridge, l) ==
  [n \in DOMAIN profiles |->
     LET base == IF bridge THEN Tagged(BridgedFor(n, file), l) @@ profiles[n] ELSE profiles[n]
     IN IF n \in DOMAIN known THEN Overridden(base, known[n], l) ELSE base]

\* A team profile the layers below do not know must come complete.
TeamFields == {"actor_profile", "desired_instances"}
TeamNames(g) == {k[2] : k \in {k \in DOMAIN g : k[1] = "team_profiles"}}
NewTeamsAreComplete(file) ==
  \A t \in TeamNames(file.set) \ TeamNames(settings) :
    \A f \in TeamFields : <<"team_profiles", t, f>> \in DOMAIN file.set

Marks(S, l) == [k \in S |-> l]
TableKeys(tables) == {Key(n, f) : n \in DOMAIN tables, f \in Fields}
                     \cap UNION {{Key(n, f) : f \in DOMAIN tables[n]} : n \in DOMAIN tables}

\* The sections of a review are replaced whole, so are the sources of their entries.
Entries(file) ==
  {<<"review.checks", c.program>> :
     c \in IF <<"review", "checks">> \in DOMAIN file.set
           THEN file.set[<<"review", "checks">>] ELSE {}}
Replaced(file) ==
  IF <<"review", "checks">> \in DOMAIN file.set
  THEN {k \in DOMAIN sources : k[1] = "review.checks"} ELSE {}

RecordOverrideSources(file, known, bridge, l) ==
  Marks(DOMAIN file.set \cup Entries(file) \cup TableKeys(known)
        \cup (IF bridge THEN DOMAIN Bridged(file) ELSE {}), l)
  @@ Without(sources, Replaced(file))

ApplyLayer(file, known, bridge, l, recorded) ==
  /\ settings' = Tagged(file.set, l) @@ settings
  /\ profiles' = Applied(file, known, bridge, l)
  /\ sources' = recorded @@ RecordOverrideSources(file, known, bridge, l)

Known(file) == Restrict(file.agents, DOMAIN file.agents \cap DOMAIN profiles)
New(file)   == Without(file.agents, DOMAIN profiles)

\* Profiles the defaults do not know are merged until every layer is read.  The first
\* project layer that declares one speaks for its default capabilities and launch mode
\* unless capabilities are given by then.
SuppliesDefaults(n, table) ==
  /\ n \notin announced
  /\ "capabilities" \notin DOMAIN table
  /\ n \in DOMAIN pending => "capabilities" \notin DOMAIN pending[n]
Enqueued_LowerWins(file, l) ==
  /\ pending' = [n \in DOMAIN New(file) |->
                   (IF n \in DOMAIN pending THEN pending[n] ELSE <<>>) @@ Tagged(New(file)[n], l)]
                @@ pending
  /\ announced' = announced \cup DOMAIN New(file)
Enqueued(file, l) ==
  /\ pending' = [n \in DOMAIN New(file) |->
                   Tagged(New(file)[n], l) @@ (IF n \in DOMAIN pending THEN pending[n] ELSE <<>>)]
                @@ pending
  /\ announced' = announced \cup DOMAIN New(file)
QueuedSources(file, l) ==
  Marks(TableKeys(New(file)) \cup
        {Key(n, f) : n \in {n \in DOMAIN New(file) : SuppliesDefaults(n, New(file)[n])},
                     f \in {"capabilities", "launch"}}, l)

Refuse == stage' = "refused" /\ UNCHANGED <<settings, profiles, pending, announced, sources>>

(***************************************************************************)
(* The layers                                                               *)
(***************************************************************************)
Skip(next) ==
  /\ stage' = next
  /\ UNCHANGED <<subject, declared, settings, profiles, pending, announced, sources>>

\* A user chooses how profiles are launched and which adapters are there, nothing else.
ForbiddenToUser(file) ==
  \/ \E k \in DOMAIN file.set : k[1] \notin {"implementation", "runtime_adapters"}
  \/ \E n \in DOMAIN file.agents : ~(DOMAIN file.agents[n] \subseteq Machine)

UserLayer ==
  /\ stage = "user"
  /\ \/ Skip("tracked")
     \/ \E file \in FilesOf("user", subject) :
          /\ declared' = declared @@ "user" :> file
          /\ UNCHANGED subject
          /\ \/ ForbiddenToUser(file) /\ Refuse
             \/ /\ ~ForbiddenToUser(file)
                /\ pending' = [n \in DOMAIN New(file) |-> Tagged(New(file)[n], "user")]
                /\ ApplyLayer(file, Known(file), TRUE, "user", Marks(TableKeys(New(file)), "user"))
                /\ stage' = "tracked"
                /\ UNCHANGED announced

\* A file of an earlier release bridges; its profile tables are none.
TrackedLayer ==
  /\ stage = "tracked"
  /\ \/ Skip("local")
     \/ \E file \in FilesOf("tracked", subject) :
          /\ declared' = declared @@ "tracked" :> file
          /\ UNCHANGED subject
          /\ \/ ~NewTeamsAreComplete(file) /\ Refuse
             \/ /\ NewTeamsAreComplete(file)
                /\ Enqueued(file, "tracked")
                /\ ApplyLayer(file, Known(file), ~ProfileTablesDeclared(file), "tracked",
                              QueuedSources(file, "tracked"))
                /\ stage' = "local"

LocalLayer ==
  /\ stage = "local"
  /\ \/ Skip("finish")
     \/ \E file \in FilesOf("local", subject) :
          /\ declared' = declared @@ "local" :> file
          /\ UNCHANGED subject
          /\ \/ ~NewTeamsAreComplete(file) /\ Refuse
             \/ /\ NewTeamsAreComplete(file)
                /\ Enqueued(file, "local")
                /\ ApplyLayer(file, Known(file), ~Present("tracked") \/ LegacyProfiles, "local",
                              QueuedSources(file, "local"))
                /\ stage' = "finish"

(***************************************************************************)
(* The end of the load                                                      *)
(***************************************************************************)
Defaulted(v) == [is |-> v, of |-> "default"]

\* A profile is bound by default where it may face the human.
LaunchOf(table) ==
  IF "launch" \in DOMAIN table THEN table.launch
  ELSE Defaulted(IF "capabilities" \in DOMAIN table /\ table.capabilities.is = "human"
                 THEN "bound" ELSE "runtime")
IsWhole(table) ==
  /\ "role_file" \in DOMAIN table
  /\ LaunchOf(table).is = "runtime" => Machine \subseteq DOMAIN table
NewProfile(table) ==
  LET whole == table @@ [launch |-> LaunchOf(table), capabilities |-> Defaulted("plain")]
  IN IF whole.launch.is = "bound" THEN Without(whole, Machine) ELSE whole

Finalized == [n \in DOMAIN pending |-> NewProfile(pending[n])] @@ profiles

Value(key) == settings[key].is
Has(key) == key \in DOMAIN settings

MayRun(runtime) ==
  Has(<<"runtime_adapters", runtime>>) => Value(<<"runtime_adapters", runtime>>) # "false"

ProfileIsValid(p) ==
  IF p.launch.is = "bound" THEN DOMAIN p \cap Machine = {}
  ELSE Machine \subseteq DOMAIN p /\ MayRun(p.runtime.is)

TeamIsValid(t, all) ==
  LET actor == Value(<<"team_profiles", t, "actor_profile">>)
  IN actor \in DOMAIN all /\ all[actor].launch.is = "runtime"

PrimaryIsValid(all) ==
  LET primary == Value(<<"workspace", "primary_profile">>)
  IN /\ primary \in DOMAIN all
     /\ all[primary].capabilities.is = "human"
     /\ all[primary].launch.is = "bound"

\* Each program a check runs is probed for its version, and what a check wants absent is
\* an optional binary nothing here runs.
ReviewIsValid ==
  LET checks   == Value(<<"review", "checks">>)
      probed   == Value(<<"review", "tool_versions">>)
      optional == Value(<<"review", "optional_binaries">>)
  IN \A c \in checks :
       /\ c.program \in probed
       /\ c.absent \subseteq optional
       /\ c.absent \cap (probed \cup {c.program}) = {}

IsValid(all) ==
  /\ MayRun(Value(<<"implementation", "runtime">>))
  /\ \A n \in DOMAIN all : ProfileIsValid(all[n])
  /\ \A t \in TeamNames(settings) : TeamIsValid(t, all)
  /\ ReviewIsValid
  /\ PrimaryIsValid(all)

BoundLaunchSources(all) ==
  {Key(n, f) : n \in {n \in DOMAIN all : all[n].launch.is = "bound"}, f \in Machine}

\* Waiting profiles no project layer has declared are the user's mistake.
FinishLoad ==
  /\ stage = "finish"
  /\ UNCHANGED <<subject, declared, settings, pending, announced>>
  /\ \/ /\ DOMAIN pending \subseteq announced
        /\ \A n \in DOMAIN pending : IsWhole(pending[n])
        /\ IsValid(Finalized)
        /\ profiles' = Finalized
        /\ sources' = Without(sources, BoundLaunchSources(Finalized))
        /\ stage' = "loaded"
     \/ /\ \/ ~(DOMAIN pending \subseteq announced)
           \/ \E n \in DOMAIN pending : ~IsWhole(pending[n])
           \/ ~IsValid(Finalized)
        /\ stage' = "refused"
        /\ UNCHANGED <<profiles, sources>>

ConfigNext == UserLayer \/ TrackedLayer \/ LocalLayer \/ FinishLoad

\* The instructions of a role are the embedded ones where the defaults name its file.
Embedded(n) == n \in DOMAIN BuiltinProfiles /\ sources[Key(n, "role_file")] = "builtin"

(***************************************************************************)
(* Properties                                                               *)
(***************************************************************************)
\* The layer that has the last word on a key.
Says(l, key) ==
  LET file == declared[l]
      speaksForDefaults == \/ l = "user"
                           \/ l = "tracked" /\ LegacyProfiles
                           \/ l = "local" /\ (~Present("tracked") \/ LegacyProfiles)
  IN \/ key \in DOMAIN file.set
     \/ key[1] = "agent_profiles" /\ key[2] \in DOMAIN file.agents
        /\ key[3] \in DOMAIN file.agents[key[2]]
     \/ speaksForDefaults /\ key \in DOMAIN Bridged(file)
Speakers(key) ==
  {l \in DOMAIN declared : Says(l, key)} \cup
  (IF key \in DOMAIN BuiltinSources THEN {"builtin"} ELSE {})
LastWord(key) ==
  CHOOSE l \in Speakers(key) : \A other \in Speakers(key) : Rank(other) <= Rank(l)

\* What is in force, and where it was written.
InForce == [key \in DOMAIN settings \cup
                    UNION {{Key(n, f) : f \in DOMAIN profiles[n]} : n \in DOMAIN profiles} |->
              IF key \in DOMAIN settings THEN settings[key] ELSE profiles[key[2]][key[3]]]
Written == {key \in DOMAIN InForce : InForce[key].of # "default"}

\* A configuration that loads is the one its files ask for, and says so: each value is
\* that of the last layer that gives one and is reported under that layer; nothing is
\* reported that is not in force, in particular no launch field of a bound profile
\* (docs/architecture.md:126-143); and what the control plane takes from it is there: a
\* bound human-facing Primary, and for each team an actor profile with all it takes to
\* launch it on an adapter that is not disabled (control_actor_profile).
ConfigurationIsTrue ==
  stage = "loaded" =>
    /\ \A key \in Written : InForce[key].of = LastWord(key) /\ key \in DOMAIN sources
                            /\ sources[key] = InForce[key].of
    /\ \A key \in DOMAIN sources :
         \/ key \in DOMAIN InForce
         \/ \E c \in Value(<<"review", "checks">>) :
              key = <<"review.checks", c.program>> /\ sources[key] = sources[<<"review", "checks">>]
    /\ \A n \in DOMAIN profiles : Embedded(n) <=> profiles[n].role_file.of = "builtin"
    /\ profiles[Value(<<"workspace", "primary_profile">>)].launch.is = "bound"
    /\ \A t \in TeamNames(settings) :
         LET actor == profiles[Value(<<"team_profiles", t, "actor_profile">>)]
         IN Machine \subseteq DOMAIN actor /\ MayRun(actor.runtime.is)

\* Every value in force has a source (docs/architecture.md:134).  A new profile that
\* gives its capabilities and no launch mode has none for the mode
\* (queue_new_agent_profile_layers).
EveryValueHasASource == stage = "loaded" => DOMAIN InForce \subseteq DOMAIN sources
=============================================================================
