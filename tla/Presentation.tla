---------------------------- MODULE Presentation ----------------------------
(***************************************************************************)
(* Where the sessions of Implementation actors are shown (agsv-control):    *)
(* the rows of session_presentations, the reservations of panes in tabs,    *)
(* the labels, and the archive every mutation brings up to date.            *)
(*                                                                          *)
(* The Primary launches, stops and relaunches actors, one command at a      *)
(* time; any caller refreshes presentations at the end of its command, with *)
(* no lock that keeps it from a stop.  Group 0 is the Primary's tab.        *)
(***************************************************************************)
EXTENDS Naturals, FiniteSets, Functions

CONSTANTS Executor,        \* the Implementation actors
          Caller,          \* the other commands that refresh presentations
          NoExecutor,      \* no actor is presented
          MaxPanes,        \* session_layout.max_panes_per_tab
          Foreign,         \* labels of tabs AGSV does not manage, as numbers
          MaxChanges       \* bound: sessions launched and titles there have been

\* max_panes_per_tab is at least one, tabs are numbered from one (PaneLimit, tab_label).
ASSUME PresentationAssumption ==
  /\ NoExecutor \notin Executor
  /\ MaxPanes \in Nat \ {0}
  /\ Foreign \subseteq Nat \ {0} /\ IsFiniteSet(Foreign)

VARIABLES
  placeFirst,    \* session_layout.place_first_implementation_with_primary
  executors,     \* domain and session row of each actor: epoch, healthy, session
  title,         \* what the label of an actor is made of, as the domain has it
  rows,          \* session_presentations
  reserved,      \* presentation_slot_reservations: [group -> next pane]
  lastTab,       \* presentation_allocation_state, 0 without a row
  archive,       \* session_presentation_archive: [actor -> epoch, row]
  job,           \* the presentation each command is at
  shown,         \* the label an actor's pane has
  given          \* history: every slot ever allocated

presentationVars ==
  <<placeFirst, executors, title, rows, reserved, lastTab, archive, job, shown, given>>

NoRow == [slot |-> <<>>, desired |-> 0, applied |-> 0, synced |-> FALSE]
NoJob == [step |-> "idle", actor |-> NoExecutor, epoch |-> 0, label |-> 0, free |-> {}]

PresentationInit ==
  /\ placeFirst \in BOOLEAN
  /\ executors = [a \in Executor |-> [epoch |-> 0, healthy |-> FALSE, session |-> "none"]]
  /\ title = [a \in Executor |-> 1]
  /\ rows = [a \in Executor |-> NoRow]
  /\ reserved = <<>>
  /\ lastTab = 0
  /\ archive = [a \in Executor |-> [epoch |-> 0, row |-> NoRow]]
  /\ job = [c \in Caller \cup {"primary"} |-> NoJob]
  /\ shown = [a \in Executor |-> 0]
  /\ given = {}

HasRow(a) == rows[a] # NoRow
TabOf(row)  == row.slot[1]
PaneOf(row) == row.slot[2]

(***************************************************************************)
(* Allocation of a slot                                                     *)
(***************************************************************************)
\* Groups whose first pane is an actor's that is there: read before the allocation.
ReusableGroups ==
  {TabOf(rows[a]) : a \in {a \in Executor :
     HasRow(a) /\ TabOf(rows[a]) > 0 /\ PaneOf(rows[a]) = 0 /\ executors[a].session = "present"}}

RootedGroups(groups) ==
  {g \in groups : \E a \in Executor : HasRow(a) /\ rows[a].slot = <<g, 0>>}
Openings(groups) ==
  {g \in RootedGroups(groups) : g \in DOMAIN reserved /\ reserved[g] < MaxPanes}
Least(S) == CHOOSE n \in S : \A k \in S : n <= k

BesidePrimary == IF 0 \in DOMAIN reserved THEN reserved[0] ELSE 1
FreshTab == Least({n \in lastTab + 1..lastTab + Cardinality(Foreign) + 1 : n \notin Foreign})

\* Beside the Primary, else in the first group with room, else in a tab of its own with
\* the next number that is nobody's.
ChooseSlot(groups) ==
  IF placeFirst /\ BesidePrimary < MaxPanes THEN <<0, BesidePrimary>>
  ELSE IF Openings(groups) # {}
       THEN LET g == Least(Openings(groups)) IN <<g, reserved[g]>>
       ELSE <<FreshTab, 0>>

\* What is reserved stays so until the last of a group has gone.
Reserve(slot) ==
  /\ reserved' = [g \in DOMAIN reserved \cup {slot[1]} |->
                    IF g = slot[1] THEN slot[2] + 1 ELSE reserved[g]]
  /\ lastTab' = IF slot[2] = 0 THEN slot[1] ELSE lastTab

(***************************************************************************)
(* Ensuring a presentation, as a refresh or a launch does                   *)
(***************************************************************************)
\* The actor's generation is read again, its status is not.
Prepare(c) ==
  LET j == job[c]
  IN /\ j.step = "prepare"
     /\ IF executors[j.actor].epoch = j.epoch
        THEN job' = [job EXCEPT ![c] =
               [j EXCEPT !.step  = IF HasRow(j.actor) THEN "label" ELSE "allocate",
                         !.label = title[j.actor],
                         !.free  = IF HasRow(j.actor) THEN {} ELSE ReusableGroups]]
        ELSE job' = [job EXCEPT ![c] = NoJob]
     /\ UNCHANGED <<placeFirst, executors, title, rows, reserved, lastTab, archive, shown, given>>

Allocate(c) ==
  LET j == job[c]
      slot == ChooseSlot(j.free)
  IN /\ j.step = "allocate"
     /\ job' = [job EXCEPT ![c].step = "label", ![c].free = {}]
     /\ IF HasRow(j.actor) THEN UNCHANGED <<rows, reserved, lastTab, given>>
        ELSE /\ Reserve(slot)
             /\ rows' = [rows EXCEPT ![j.actor] =
                           [slot |-> slot, desired |-> j.label, applied |-> 0, synced |-> FALSE]]
             /\ given' = given \cup {slot}
     /\ UNCHANGED <<placeFirst, executors, title, archive, shown>>

Labelled(row, label) ==
  IF row.desired = label THEN row ELSE [row EXCEPT !.desired = label, !.synced = FALSE]

\* A launch goes on to start the session; a refresh is done where the label is applied.
Label(c) ==
  LET j == job[c]
      row == Labelled(rows[j.actor], j.label)
  IN /\ j.step = "label"
     /\ IF HasRow(j.actor)
        THEN /\ rows' = [rows EXCEPT ![j.actor] = row]
             /\ job' = [job EXCEPT ![c] =
                  IF c = "primary" /\ executors[j.actor].session = "launching"
                  THEN [j EXCEPT !.step = "launch"]
                  ELSE IF row.synced /\ row.applied = row.desired THEN NoJob
                  ELSE [j EXCEPT !.step = "relabel"]]
        ELSE job' = [job EXCEPT ![c] = NoJob] /\ UNCHANGED rows
     /\ UNCHANGED <<placeFirst, executors, title, reserved, lastTab, archive, shown, given>>

\* A session that is not there, or a backend that fails, leaves the label pending.
Relabel(c) ==
  LET j == job[c]
      fail == /\ rows' = IF HasRow(j.actor) THEN [rows EXCEPT ![j.actor].synced = FALSE] ELSE rows
              /\ job' = [job EXCEPT ![c] = NoJob]
              /\ UNCHANGED shown
  IN /\ j.step = "relabel"
     /\ \/ fail
        \/ /\ executors[j.actor].session = "present"
           /\ shown' = [shown EXCEPT ![j.actor] = j.label]
           /\ job' = [job EXCEPT ![c].step = "mark"]
           /\ UNCHANGED rows
     /\ UNCHANGED <<placeFirst, executors, title, reserved, lastTab, archive, given>>

MarkApplied(c) ==
  LET j == job[c]
  IN /\ j.step = "mark"
     /\ rows' = IF HasRow(j.actor)
                THEN [rows EXCEPT ![j.actor].applied = j.label,
                                  ![j.actor].synced = rows[j.actor].desired = j.label]
                ELSE rows
     /\ job' = [job EXCEPT ![c] = NoJob]
     /\ UNCHANGED <<placeFirst, executors, title, reserved, lastTab, archive, shown, given>>

\* Any command ends with it; an actor that is not healthy is passed over.
BeginRefresh(c, a) ==
  /\ job[c] = NoJob
  /\ executors[a].healthy
  /\ job' = [job EXCEPT ![c] =
               [step |-> "prepare", actor |-> a, epoch |-> executors[a].epoch, label |-> 0,
                free |-> {}]]
  /\ UNCHANGED <<placeFirst, executors, title, rows, reserved, lastTab, archive, shown, given>>

(***************************************************************************)
(* Mutations: each moves the rows of stopped actors to the archive, which   *)
(* keeps the latest generation's.                                           *)
(***************************************************************************)
Departed(domain) ==
  {a \in Executor : HasRow(a) /\ domain[a].epoch > 0 /\ ~domain[a].healthy
                 /\ domain[a].session = "stopped"}
Retainable(domain, a) ==
  \/ archive[a].epoch < domain[a].epoch
  \/ archive[a].epoch = domain[a].epoch /\ archive[a].row = rows[a]
Emptied_ByRoot(leaving) ==
  {g \in DOMAIN reserved \ {0} : \E a \in leaving : rows[a].slot = <<g, 0>>}
Emptied(leaving) ==
  {g \in DOMAIN reserved \ {0} :
     /\ \E a \in leaving : TabOf(rows[a]) = g
     /\ \A a \in Executor \ leaving : HasRow(a) => TabOf(rows[a]) # g}

ArchivePresentations(domain) ==
  LET leaving == Departed(domain)
  IN /\ \A a \in leaving : Retainable(domain, a)
     /\ archive' = [a \in Executor |->
          IF a \in leaving THEN [epoch |-> domain[a].epoch, row |-> rows[a]] ELSE archive[a]]
     /\ rows' = [a \in Executor |-> IF a \in leaving THEN NoRow ELSE rows[a]]
     /\ reserved' = [g \in DOMAIN reserved \ Emptied(leaving) |-> reserved[g]]

Changes == FoldFunction(+, 0, [a \in Executor |-> executors[a].epoch + title[a]])

\* A generation is registered, its session row is launching.
BeginLaunch(a) ==
  LET domain == [executors EXCEPT ![a] =
                   [epoch |-> @.epoch + 1, healthy |-> FALSE, session |-> "launching"]]
  IN /\ job["primary"] = NoJob
     /\ executors[a].session \in {"none", "stopped"}
     /\ Changes < MaxChanges
     /\ executors' = domain
     /\ ArchivePresentations(domain)
     /\ job' = [job EXCEPT !["primary"] =
          [step |-> "prepare", actor |-> a, epoch |-> domain[a].epoch, label |-> 0, free |-> {}]]
     /\ UNCHANGED <<placeFirst, title, lastTab, shown, given>>

\* The session is there and its actor healthy.
StartSession ==
  LET a == job["primary"].actor
      domain == [executors EXCEPT ![a].healthy = TRUE, ![a].session = "present"]
  IN /\ job["primary"].step = "launch"
     /\ executors' = domain
     /\ ArchivePresentations(domain)
     /\ shown' = [shown EXCEPT ![a] = 0]
     /\ job' = [job EXCEPT !["primary"] = NoJob]
     /\ UNCHANGED <<placeFirst, title, lastTab, given>>

\* The pane is closed and the session row stopped, then the actor.
StopSession(a) ==
  /\ job["primary"] = NoJob
  /\ executors[a].session = "present"
  /\ executors' = [executors EXCEPT ![a].session = "stopped"]
  /\ job' = [job EXCEPT !["primary"].step = "stop", !["primary"].actor = a]
  /\ UNCHANGED <<placeFirst, title, rows, reserved, lastTab, archive, shown, given>>

StopActor ==
  LET a == job["primary"].actor
      domain == [executors EXCEPT ![a].healthy = FALSE]
  IN /\ job["primary"].step = "stop"
     /\ executors' = domain
     /\ ArchivePresentations(domain)
     /\ job' = [job EXCEPT !["primary"] = NoJob]
     /\ UNCHANGED <<placeFirst, title, lastTab, shown, given>>

\* Some command changes what a label is made of: a purpose, an active request.
ChangeTitle(a) ==
  /\ Changes < MaxChanges
  /\ executors[a].healthy
  /\ title' = [title EXCEPT ![a] = @ + 1]
  /\ ArchivePresentations(executors)
  /\ UNCHANGED <<placeFirst, executors, lastTab, job, shown, given>>

PresentationNext ==
  \/ \E c \in Caller \cup {"primary"} :
       \/ Prepare(c) \/ Allocate(c) \/ Label(c) \/ Relabel(c) \/ MarkApplied(c)
       \/ \E a \in Executor : BeginRefresh(c, a)
  \/ StartSession \/ StopActor
  \/ \E a \in Executor : BeginLaunch(a) \/ StopSession(a) \/ ChangeTitle(a)

\* A refresh that found its actor healthy is done with its row when the actor stops.
Overtaken ==
  \E c \in Caller : /\ job[c].step \in {"prepare", "allocate"}
                    /\ ~executors[job[c].actor].healthy
PromptNext == PresentationNext /\ ~Overtaken'
PresentationSpec == PresentationInit /\ [][PromptNext]_presentationVars

(***************************************************************************)
(* Properties                                                               *)
(***************************************************************************)
\* A slot is given once and in no tab that is not AGSV's: "neither a departed pane in a
\* live group nor a retired tab sequence can be reused" (docs/architecture.md:183).
PanesAreNotReused ==
  \A a \in Executor : ~HasRow(a) /\ HasRow(a)' =>
    /\ rows'[a].slot \notin given
    /\ TabOf(rows'[a]) \notin Foreign /\ PaneOf(rows'[a]) < MaxPanes

\* A live row is within its group's reservation and the workspace's last tab.
RowsAreReserved ==
  \A a \in Executor : HasRow(a) =>
    /\ TabOf(rows[a]) \in DOMAIN reserved /\ PaneOf(rows[a]) < reserved[TabOf(rows[a])]
    /\ TabOf(rows[a]) <= lastTab

\* Whatever is left of stopped actors can be archived, or no mutation of the workspace
\* would commit any more (retain_latest_session_presentation).
MutationsStayPossible == \A a \in Departed(executors) : Retainable(executors, a)

\* Whatever order launches, stops and refreshes of several processes come in, a place is
\* given once, a group keeps its reservation while a row is in it, and the rows of stopped
\* actors never keep a mutation from its commit (allocate_session_presentation,
\* archive_terminal_presentation_metadata; docs/architecture.md:177-185).
PresentationIsKept ==
  [](RowsAreReserved /\ MutationsStayPossible) /\ [][PanesAreNotReused]_presentationVars

\* A label that counts as applied is the one the pane has (mark_presentation_applied).
AppliedIsShown ==
  \A a \in Executor :
    rows[a].synced /\ executors[a].session = "present" => shown[a] = rows[a].desired
=============================================================================
