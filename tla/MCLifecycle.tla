---------------------------- MODULE MCLifecycle ----------------------------
(***************************************************************************)
(* Two undertakings of several commands that are run again until they are   *)
(* done: the opening of a state directory with an older store, and the life *)
(* of a team.  They share no state: a behaviour exercises one and `part`    *)
(* says which.  The fairness is that of each module, of the steps in its    *)
(* part; a strong fairness condition on a step of either is one on the step *)
(* of the part.                                                             *)
(***************************************************************************)
EXTENDS Teams, SchemaAdmission, TLC

CONSTANTS a1, a2, managed, linked      \* the team
CONSTANTS opener, operator             \* the opening

VARIABLE part

lifeVars == <<part, openVars, vars>>

OneActor    == {a1}
TwoActors   == {a1, a2}
BothDirs    == {managed, linked}
OneDir      == {managed}
OneOpener   == {opener}
OneOperator == {operator}

Opening(A) == part = "opening" /\ A /\ UNCHANGED <<part, vars>>
Team(A)    == part = "team" /\ A /\ UNCHANGED <<part, openVars>>

LifeInit == part \in {"opening", "team"} /\ UpgradeInit /\ Init
            /\ (part = "team" => path = NoFiles)
LifeNext == \/ part = "opening" /\ UpgradeNext /\ UNCHANGED <<part, vars>>
            \/ part = "team" /\ Next /\ UNCHANGED <<part, openVars>>

LifeFairness ==
  /\ WF_lifeVars(Opening(Step(opener) /\ Apart'))
  /\ WF_lifeVars(Opening(Step(operator) /\ Apart'))
  /\ WF_lifeVars(Opening(HorizonPasses)) /\ WF_lifeVars(Opening(SessionEnds))
  /\ WF_lifeVars(Team(CommandStep)) /\ WF_lifeVars(Team(Finish))
  /\ SF_lifeVars(Team(BeginReconcile) \/ Opening(Serial(opener) /\ Start(opener)))
  /\ SF_lifeVars(Team(BeginCreate(managed)) \/
                 Opening(/\ Serial(operator) /\ StartOperator(operator)
                         /\ work'[operator].confirmed = path))
  /\ SF_lifeVars(linked \in Dirs /\ Team(BeginCreate(linked)))

LifeSpec == LifeInit /\ [][LifeNext]_lifeVars /\ LifeFairness

\* Wherever invocations die while an older store is moved aside or a fresh one made,
\* a command that is run again opens the store in the end, unless an older
\* controller stays active (open_with_snapshot_validation, recover_schema_preservation,
\* recover_empty_fresh_store).
OpenedAtLast == part = "opening" => OpensAtLast
=============================================================================
