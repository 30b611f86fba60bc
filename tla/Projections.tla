---------------------------- MODULE Projections ----------------------------
(***************************************************************************)
(* The observability projections (agsv-control/src/store.rs) and the delta  *)
(* the aggregate computes for them (agsv-core/src/supervisor.rs): what every *)
(* team's summary says of its activity and unfinished requests, when every  *)
(* generation of an actor began, and who completed what.  Each of them is   *)
(* one fact of a chain; a manifest row and a checkpoint in the snapshot     *)
(* both say how long the chain is, and so for the archived team generations. *)
(*                                                                         *)
(* Mutations load the snapshot, decide, and commit if it has not changed;   *)
(* the single transactions that describe a team rewrite the snapshot        *)
(* without a new revision.  Times of day and the Primary's own generations  *)
(* are left out.                                                           *)
(***************************************************************************)
EXTENDS Naturals, FiniteSets, FiniteSetsExt

CONSTANTS Teams, Actors, TeamOf, \* TeamOf \in [Actors -> Teams]
          Requests, Clients,
          Nothing,
          MaxRevision,   \* bound on the mutations
          MaxDescribed   \* bound on the describing transactions

VARIABLES
  row,         \* domain_state: its revision and its two checkpoints
  team, actor, request, \* of the snapshot
  manifest,    \* the length of the fact chain and of the generation chain
  activity,    \* team_activity_summaries, one for every team
  anchor,      \* actor_generation_summaries, by <<actor, generation>>
  credit,      \* completed_assignment_records, by request
  frozen,      \* team_generation_history: <<team, epoch>>
  loaded,      \* the row every client has loaded, if it has
  described    \* how many describing transactions there were

domain     == <<team, actor, request>>
durable    == <<manifest, activity, anchor, credit, frozen>>
pvars      == <<row, domain, durable, loaded, described>>

Terminal(q)  == q.st \in {"None", "Completed", "Cancelled"}
BlocksClose(q) == q.st = "Blocking"

\* request_state_counts_for_current_generation
Counts(q, ts) == ~Terminal(q) /\ (BlocksClose(q) \/ q.epoch = ts[q.team].epoch)

\* derive_nonterminal_request_counts
Derived == [t \in Teams |->
  Cardinality({r \in Requests : request[r].team = t /\ Counts(request[r], team)})]

\* delivery_references_historical_request
Historical(q, ts) == ~BlocksClose(q) /\ q.epoch < ts[q.team].epoch

Init ==
  /\ team = [t \in Teams |-> [epoch |-> 1, status |-> "Active"]]
  /\ actor = [a \in Actors |-> 1]
  /\ request = [r \in Requests |->
       [st |-> "None", team |-> TeamOf[CHOOSE a \in Actors : TRUE], epoch |-> 0,
        by |-> Nothing, gen |-> 0]]
  \* initialize_observability_summaries
  /\ activity = [t \in Teams |-> [epoch |-> 1, seq |-> 1, rev |-> 0, count |-> 0]]
  /\ anchor = [x \in Actors \X {1} |-> [epoch |-> 1, done |-> 0]]
  /\ credit = [r \in {} |-> Nothing] /\ frozen = {}
  /\ manifest = [facts |-> Cardinality(Teams) + Cardinality(Actors), gens |-> 0]
  /\ row = [rev |-> 0, facts |-> manifest.facts, gens |-> 0]
  /\ loaded = [c \in Clients |-> Nothing] /\ described = 0

-----------------------------------------------------------------------------
(* Mutations. *)

Load(c) ==
  /\ loaded[c] # row /\ loaded' = [loaded EXCEPT ![c] = row]
  /\ UNCHANGED <<row, domain, durable, described>>

\* domain_or_observability_changed_since_load: a describing transaction leaves
\* the revision as it is.
Unchanged(c) == loaded[c] = row

\* update_request_observability, on the counts derived at the load.
Counted(r) ==
  LET before == Counts(request[r], team)
      after  == Counts(request'[r], team')
      moved  == request[r].team # request'[r].team
  IN [t \in Teams |-> Derived[t]
        - (IF before /\ t = request[r].team /\ (~after \/ moved) THEN 1 ELSE 0)
        + (IF after /\ t = request'[r].team /\ (~before \/ moved) THEN 1 ELSE 0)]

\* next_team_activity_fact: the next one of the team, under a new revision.
NextActivity(t, count) ==
  [epoch |-> team'[t].epoch, seq |-> activity[t].seq + 1, rev |-> row.rev + 1, count |-> count]

\* insert_actor_generation_anchor and increment_completed_assignment
NextAnchors(began, credits) ==
  [x \in DOMAIN anchor \cup began |->
     IF x \in began THEN [epoch |-> team'[TeamOf[x[1]]].epoch, done |-> 0]
     ELSE [anchor[x] EXCEPT !.done =
             @ + Cardinality({r \in credits : <<request'[r].by, request'[r].gen>> = x})]]

\* insert_completed_assignment_record
NextCredits(credits) ==
  [r \in DOMAIN credit \cup credits |->
     IF r \notin credits THEN credit[r]
     ELSE [by |-> request'[r].by, gen |-> request'[r].gen,
           team |-> request'[r].team, epoch |-> request'[r].epoch]]

\* append_observability_fact: n facts, on the chain the loaded checkpoint ends.
AppendFacts(c, n) ==
  /\ n > 0 => loaded[c].facts = manifest.facts
  /\ manifest' = [manifest EXCEPT !.facts = @ + n]
  /\ row' = [rev |-> loaded[c].rev + 1, facts |-> loaded[c].facts + n, gens |-> loaded[c].gens]

\* persist_observability_delta and the rest of mutate: the teams that were
\* active with their new counts, the generations that began, the credits.
Commit(c, teams, count, began, credits) ==
  /\ row.rev < MaxRevision
  /\ loaded[c] # Nothing /\ Unchanged(c)
  /\ AppendFacts(c, Cardinality(teams) + Cardinality(began) + Cardinality(credits))
  /\ activity' = [t \in Teams |-> IF t \in teams THEN NextActivity(t, count[t]) ELSE activity[t]]
  /\ anchor' = NextAnchors(began, credits)
  /\ credit' = NextCredits(credits)
  /\ loaded' = [loaded EXCEPT ![c] = Nothing]
  /\ UNCHANGED <<frozen, described>>

\* update_request_observability: who moves a request to completed is credited.
Credits_Again(r) == IF request'[r].st = "Completed" THEN {r} ELSE {}
Credits(r) ==
  IF request[r].st # "Completed" /\ request'[r].st = "Completed" THEN {r} ELSE {}

\* observe_accepted: the teams of a message about r, and the one r was in.
ActiveTeams_Now(r) == IF Historical(request'[r], team') THEN {} ELSE {request'[r].team}
ActiveTeams(r) ==
  (IF Historical(request'[r], team') THEN {} ELSE {request'[r].team})
  \cup (IF Counts(request[r], team) THEN {request[r].team} ELSE {})

\* A message about r, and what it makes of r.
Message(c, r, q) ==
  /\ request' = [request EXCEPT ![r] = q] /\ UNCHANGED <<team, actor>>
  /\ Commit(c, ActiveTeams(r), Counted(r), {}, Credits(r))

Create(c, r, a) ==
  /\ request[r].st = "None" /\ team[TeamOf[a]].status = "Active"
  /\ Message(c, r, [st |-> "Blocking", team |-> TeamOf[a], epoch |-> team[TeamOf[a]].epoch,
                    by |-> a, gen |-> actor[a]])

\* Work, a review, an authorization, a completion or a cancellation.
Advance(c, r, st) ==
  /\ CASE request[r].st = "Blocking" -> st \in {"Blocking", "Settled", "Cancelled"}
       [] request[r].st = "Settled"  -> st \in {"Settled", "Completed", "Cancelled"}
       [] OTHER -> st = request[r].st /\ st # "None"
  /\ Message(c, r, [request[r] EXCEPT !.st = st])

\* apply_handoff_acceptance
Handoff(c, r, a) ==
  /\ BlocksClose(request[r]) /\ TeamOf[a] # request[r].team
  /\ team[TeamOf[a]].status = "Active"
  /\ Message(c, r, [request[r] EXCEPT !.team = TeamOf[a], !.epoch = team[TeamOf[a]].epoch,
                                      !.by = a, !.gen = actor[a]])

\* replace_implementation: the team's unfinished requests follow its new epoch.
Replace(c, a) ==
  LET t == TeamOf[a] IN
  /\ team[t].status = "Active"
  /\ team' = [team EXCEPT ![t].epoch = @ + 1]
  /\ actor' = [actor EXCEPT ![a] = @ + 1]
  /\ request' = [r \in Requests |->
       IF request[r].team # t \/ Terminal(request[r]) THEN request[r]
       ELSE [request[r] EXCEPT !.epoch = team[t].epoch + 1,
               !.gen = IF request[r].by = a THEN actor[a] + 1 ELSE @]]
  /\ Commit(c, {t}, Derived, {<<a, actor[a] + 1>>}, {})

\* set_team_status, here to close the team.
Close(c, t) ==
  /\ team[t].status = "Active"
  /\ \A r \in Requests : request[r].team = t => ~BlocksClose(request[r])
  /\ team' = [team EXCEPT ![t].status = "Closed"] /\ UNCHANGED <<actor, request>>
  /\ Commit(c, {t}, Derived, {}, {})

\* "team.created" of a closed team, whose generation was frozen.
Recreate(c, t) ==
  LET as == {a \in Actors : TeamOf[a] = t} IN
  /\ team[t].status = "Closed" /\ <<t, team[t].epoch>> \in frozen
  /\ team' = [team EXCEPT ![t] = [epoch |-> @.epoch + 1, status |-> "Active"]]
  /\ actor' = [a \in Actors |-> IF a \in as THEN actor[a] + 1 ELSE actor[a]]
  /\ UNCHANGED request
  /\ Commit(c, {t}, [Derived EXCEPT ![t] = 0], {<<a, actor[a] + 1>> : a \in as}, {})

\* Heartbeats and reconciliation are no activity.
Housekeeping(c) == UNCHANGED domain /\ Commit(c, {}, Derived, {}, {})

-----------------------------------------------------------------------------
(* Transactions beside the aggregate. *)

\* touch_team_activity_summary, when a purpose or a worktree row changes.
Describe(t) ==
  /\ described < MaxDescribed /\ row.facts = manifest.facts
  /\ activity' = [activity EXCEPT ![t].seq = @ + 1, ![t].rev = row.rev]
  /\ manifest' = [manifest EXCEPT !.facts = @ + 1]
  /\ row' = [row EXCEPT !.facts = @ + 1]
  /\ described' = described + 1
  /\ UNCHANGED <<domain, anchor, credit, frozen, loaded>>

\* archive_team_generation
Freeze(t) ==
  /\ row.gens = manifest.gens
  /\ frozen' = frozen \cup {<<t, team[t].epoch>>}
  /\ manifest' = [manifest EXCEPT !.gens = @ + 1]
  /\ row' = [row EXCEPT !.gens = @ + 1]

\* prepare_team_recreation: a generation already frozen is left as it is.
PrepareRecreation(t) ==
  /\ team[t].status = "Closed" /\ <<t, team[t].epoch>> \notin frozen
  /\ Freeze(t)
  /\ UNCHANGED <<domain, activity, anchor, credit, loaded, described>>

Next ==
  \/ \E c \in Clients :
       \/ Load(c) \/ Housekeeping(c)
       \/ \E r \in Requests, a \in Actors : Create(c, r, a) \/ Handoff(c, r, a)
       \/ \E r \in Requests, st \in {"Blocking", "Settled", "Completed", "Cancelled"} :
            Advance(c, r, st)
       \/ \E a \in Actors : Replace(c, a)
       \/ \E t \in Teams : Close(c, t) \/ Recreate(c, t)
  \/ \E t \in Teams : Describe(t) \/ PrepareRecreation(t)

Spec == Init /\ [][Next]_pvars
-----------------------------------------------------------------------------
(* What the doctor verifies (verify_observability_rows). *)

\* verify_team_activity_rows
SummariesVerify == \A t \in Teams :
  /\ activity[t].epoch = team[t].epoch /\ activity[t].count = Derived[t]
  /\ activity[t].rev <= row.rev

\* verify_observability_fact_chain: as many facts as rows.
FactsVerify ==
  manifest.facts = MapThenSumSet(LAMBDA t : activity[t].seq, Teams)
                   + Cardinality(DOMAIN anchor) + Cardinality(DOMAIN credit)

\* verify_team_generation_history: as many frozen generations as the manifest says,
\* each a past or closed one.
FrozenVerify ==
  /\ Cardinality(frozen) = manifest.gens
  /\ \A g \in frozen : LET t == team[g[1]] IN
       g[2] < t.epoch \/ (g[2] = t.epoch /\ t.status = "Closed")

\* verify_actor_generation_rows: the counters of every generation, ...
CountersVerify == \A x \in DOMAIN anchor :
  anchor[x].done = Cardinality({r \in DOMAIN credit : <<credit[r].by, credit[r].gen>> = x})

\* ... and the team generation each present actor began in.
GenerationsVerify == \A a \in Actors :
  /\ <<a, actor[a]>> \in DOMAIN anchor
  /\ anchor[<<a, actor[a]>>].epoch = team[TeamOf[a]].epoch

\* verify_completed_assignment_rows and verify_completed_request_coverage
CreditsVerify ==
  /\ DOMAIN credit = {r \in Requests : request[r].st = "Completed"}
  /\ \A r \in DOMAIN credit :
       LET x == <<credit[r].by, credit[r].gen>> IN
       /\ credit[r] = [by |-> request[r].by, gen |-> request[r].gen,
                       team |-> request[r].team, epoch |-> request[r].epoch]
       /\ x \in DOMAIN anchor /\ TeamOf[x[1]] = credit[r].team
       /\ anchor[x].epoch <= credit[r].epoch
=============================================================================
