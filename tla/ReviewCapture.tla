--------------------------- MODULE ReviewCapture ---------------------------
(***************************************************************************)
(* How one command of a review is run and its output kept (agsv-control:    *)
(* review.rs, run_controlled).  The main thread waits for the child, a      *)
(* limit or the timeout, and kills what is left; one thread for each output *)
(* stream copies what the pipe yields, as far as the limit of the stream    *)
(* and the budget all streams of the attempt share allow.  A descendant of  *)
(* the child that left its process group may keep the pipes open.           *)
(***************************************************************************)
EXTENDS Naturals, FiniteSets, FiniteSetsExt

CONSTANTS
  Stream,       \* the output pipes of the child
  StreamLimit,  \* bytes kept of a stream
  Budgets,      \* what earlier commands may have left of the attempt's budget
  Patience,     \* reads after the command has finished (16 in the code)
  MaxWritten    \* bound on the bytes written to a stream

ASSUME CaptureAssumption ==
  /\ IsFiniteSet(Stream) /\ Stream # {}
  /\ {StreamLimit, MaxWritten} \subseteq Nat /\ Budgets \subseteq Nat
  /\ Patience \in Nat \ {0}

VARIABLES
  child,    \* "running", an exit code, or "signal"
  contained, \* the sandbox kills every descendant with the child
  holder,   \* a detached descendant has the pipes open
  written,  \* bytes written to each stream
  pipe,     \* those nobody has read
  budget,   \* remaining bytes of the attempt, shared by the threads
  granted,  \* the budget at the start (history)
  capture,  \* each thread: where it is, what it read, reserved and kept
  limited,  \* output_limited
  done,     \* capture_done
  main,     \* the main thread
  report    \* termination, exit code, and whether a process may outlive it

captureVars == <<child, contained, holder, written, pipe, budget, granted, capture, limited,
          done, main, report>>
world == <<child, contained, holder, written, pipe>>
shared == <<budget, granted, limited, done>>

Code == {"expected", "other"}
Termination == {"timed_out", "limit_exceeded", "incomplete", "exited", "signaled"}
NoReport == [termination |-> "none", code |-> "none", outlive |-> FALSE]

Capture ==
  [at : {"read", "blocked", "reserve", "swap", "write", "probe", "ended"},
   got : 0..MaxWritten, seen : Nat, allowed : 0..MaxWritten, kept : 0..StreamLimit,
   truncated : BOOLEAN, incomplete : BOOLEAN, late : 0..Patience]

CaptureTypeOK ==
  /\ child \in {"running", "signal"} \cup Code
  /\ contained \in BOOLEAN /\ holder \in BOOLEAN
  /\ {written, pipe} \subseteq [Stream -> 0..MaxWritten]
  /\ \A s \in Stream : pipe[s] <= written[s]
  /\ granted \in Budgets /\ budget \in 0..granted
  /\ capture \in [Stream -> Capture]
  /\ limited \in BOOLEAN /\ done \in BOOLEAN
  /\ main \in {"wait", "join", "ended"} \X BOOLEAN
  /\ report = NoReport \/ report \in
       [termination : Termination, code : Code \cup {"none"}, outlive : BOOLEAN]

CaptureInit ==
  /\ child = "running" /\ contained \in BOOLEAN /\ holder \in BOOLEAN
  /\ written = [s \in Stream |-> 0] /\ pipe = [s \in Stream |-> 0]
  /\ granted \in Budgets /\ budget = granted
  /\ capture = [s \in Stream |->
       [at |-> "read", got |-> 0, seen |-> 0, allowed |-> 0, kept |-> 0,
        truncated |-> FALSE, incomplete |-> FALSE, late |-> 0]]
  /\ limited = FALSE /\ done = FALSE
  /\ main = <<"wait", FALSE>>
  /\ report = NoReport

-----------------------------------------------------------------------------
(***************************************************************************)
(* The child and its descendants.                                          *)
(***************************************************************************)
Alive == child = "running" \/ holder

Emit(s) ==
  /\ Alive /\ written[s] < MaxWritten
  /\ written' = [written EXCEPT ![s] = @ + 1]
  /\ pipe' = [pipe EXCEPT ![s] = @ + 1]
  /\ UNCHANGED <<child, contained, holder, shared, capture, main, report>>

\* With containment every descendant ends with the child.
Exit(code) ==
  /\ child = "running"
  /\ child' = code
  /\ holder' = (holder /\ ~contained)
  /\ UNCHANGED <<contained, written, pipe, shared, capture, main, report>>

Leave ==
  /\ holder /\ holder' = FALSE
  /\ UNCHANGED <<child, contained, written, pipe, shared, capture, main, report>>

(***************************************************************************)
(* One capture thread.                                                     *)
(***************************************************************************)
ThreadAt(s, point) == capture[s].at = point
Becomes(s, c) == capture' = [capture EXCEPT ![s] = c]

Read(s, n) ==
  /\ ThreadAt(s, "read") /\ n \in 1..pipe[s]
  /\ pipe' = [pipe EXCEPT ![s] = @ - n]
  /\ Becomes(s, [capture[s] EXCEPT !.at = "reserve", !.got = n])
  /\ UNCHANGED <<child, contained, holder, written, shared, main, report>>

EndOfFile(s) ==
  /\ ThreadAt(s, "read") /\ pipe[s] = 0 /\ ~Alive
  /\ Becomes(s, [capture[s] EXCEPT !.at = "ended"])
  /\ UNCHANGED <<world, shared, main, report>>

\* Nothing to read although the pipe is open: only a thread that may be left
\* with a descendant nobody kills gives up, once the command is over.
GivesUp_Never == FALSE
GivesUp == done /\ ~contained

WouldBlock(s) ==
  /\ ThreadAt(s, "read") /\ pipe[s] = 0 /\ Alive
  /\ Becomes(s, [capture[s] EXCEPT !.at = "blocked"])
  /\ UNCHANGED <<world, shared, main, report>>

\* By now the pipe may have something to read, or have been closed.
Unblock(s) ==
  /\ ThreadAt(s, "blocked")
  /\ Becomes(s, [capture[s] EXCEPT !.at = IF GivesUp THEN "ended" ELSE "read",
                                   !.incomplete = GivesUp])
  /\ UNCHANGED <<world, shared, main, report>>

\* What the limit of the stream still allows.
Room(s) == StreamLimit - capture[s].kept

Least(a, b) == Min({a, b})

LoadBudget(s) ==
  /\ ThreadAt(s, "reserve")
  /\ Becomes(s, [capture[s] EXCEPT !.at = "swap", !.seen = budget,
                                   !.allowed = Least(capture[s].got, Room(s))])
  /\ UNCHANGED <<world, shared, main, report>>

\* compare_exchange: a thread that was overtaken starts from the new value.
Overtaken(s) == budget # capture[s].seen

SwapBudget(s) ==
  /\ ThreadAt(s, "swap")
  /\ LET reserved == Least(capture[s].seen, capture[s].allowed)
     IN  IF Overtaken(s)
         THEN /\ Becomes(s, [capture[s] EXCEPT !.seen = budget])
              /\ UNCHANGED budget
         ELSE /\ budget' = capture[s].seen - reserved
              /\ Becomes(s, [capture[s] EXCEPT !.at = "write", !.allowed = reserved])
  /\ UNCHANGED <<world, granted, limited, done, main, report>>

IsCut(s) == capture[s].allowed < capture[s].got

Keep(s) ==
  /\ ThreadAt(s, "write")
  /\ LET cut  == IsCut(s)
         late == IF ~cut /\ GivesUp THEN capture[s].late + 1 ELSE capture[s].late
     IN  /\ Becomes(s,
              [at |-> IF cut THEN "ended"
                      ELSE IF late >= Patience THEN "probe" ELSE "read",
               got |-> 0, seen |-> 0, allowed |-> 0,
               kept |-> capture[s].kept + capture[s].allowed, truncated |-> cut,
               incomplete |-> capture[s].incomplete, late |-> late])
         /\ limited' = (limited \/ cut)
  /\ UNCHANGED <<world, budget, granted, done, main, report>>

\* One byte is read to tell an end of file from a descendant still there.
Probe(s) ==
  /\ ThreadAt(s, "probe")
  /\ Becomes(s, [capture[s] EXCEPT !.at = "ended",
                                   !.incomplete = pipe[s] > 0 \/ Alive])
  /\ pipe' = [pipe EXCEPT ![s] = IF @ > 0 THEN @ - 1 ELSE @]
  /\ UNCHANGED <<child, contained, holder, written, shared, main, report>>

Thread(s) ==
  \/ \E n \in 1..MaxWritten : Read(s, n)
  \/ EndOfFile(s) \/ WouldBlock(s) \/ Unblock(s)
  \/ LoadBudget(s) \/ SwapBudget(s) \/ Keep(s) \/ Probe(s)

-----------------------------------------------------------------------------
(***************************************************************************)
(* The main thread.                                                        *)
(***************************************************************************)
\* kill and wait: a child that has exited meanwhile keeps its own status.
Kill ==
  /\ child' = IF child = "running" THEN "signal" ELSE child
  /\ holder' = (holder /\ ~contained)
  /\ UNCHANGED <<contained, written, pipe>>

SeeExit ==
  /\ main[1] = "wait" /\ child # "running"
  /\ main' = <<"join", FALSE>> /\ done' = TRUE
  /\ UNCHANGED <<world, budget, granted, limited, capture, report>>

SeeLimit ==
  /\ main[1] = "wait" /\ limited
  /\ Kill
  /\ main' = <<"join", FALSE>> /\ done' = TRUE
  /\ UNCHANGED <<budget, granted, limited, capture, report>>

SeeTimeout ==
  /\ main[1] = "wait"
  /\ Kill
  /\ main' = <<"join", TRUE>> /\ done' = TRUE
  /\ UNCHANGED <<budget, granted, limited, capture, report>>

Truncated  == \E s \in Stream : capture[s].truncated
Incomplete == \E s \in Stream : capture[s].incomplete

Ended(timedOut, cut, incomplete) ==
  CASE timedOut -> "timed_out"
    [] ~timedOut /\ cut -> "limit_exceeded"
    [] ~timedOut /\ ~cut /\ incomplete -> "incomplete"
    [] OTHER -> IF child = "signal" THEN "signaled" ELSE "exited"

Classify_ExitFirst(timedOut, cut, incomplete) ==
  IF child \in Code /\ ~timedOut THEN "exited" ELSE Ended(timedOut, cut, incomplete)
Classify(timedOut, cut, incomplete) == Ended(timedOut, cut, incomplete)

MayOutlive(timedOut, cut, incomplete) ==
  (timedOut \/ cut \/ incomplete) /\ ~contained

Report ==
  LET termination == Classify(main[2], Truncated, Incomplete)
  IN  [termination |-> termination,
       code |-> IF termination \in {"exited", "incomplete"} /\ child \in Code
                THEN child ELSE "none",
       outlive |-> MayOutlive(main[2], Truncated, Incomplete)]

Join ==
  /\ main[1] = "join" /\ \A s \in Stream : ThreadAt(s, "ended")
  /\ report' = Report
  /\ main' = <<"ended", main[2]>>
  /\ UNCHANGED <<world, shared, capture>>

Main == SeeExit \/ SeeLimit \/ SeeTimeout \/ Join

CaptureNext ==
  \/ \E s \in Stream : Emit(s) \/ Thread(s)
  \/ \E code \in Code \cup {"signal"} : Exit(code)
  \/ Leave
  \/ Main

CaptureSpec == CaptureInit /\ [][CaptureNext]_captureVars

\* The threads run and the timeout comes; neither the child nor a descendant
\* need ever write, exit or leave.
CaptureFairness == WF_captureVars(Main) /\ \A s \in Stream : WF_captureVars(Thread(s))

CaptureFairSpec == CaptureSpec /\ CaptureFairness

-----------------------------------------------------------------------------
\* What a check result must look like to be recorded (ReviewCheckResult::
\* validate, and the containment that validate_execution_pair compares).
Recordable ==
  LET ended == report.termination
  IN  /\ report.code = "none" => ended # "exited"
      /\ report.code # "none" => ended \in {"exited", "incomplete"}
      /\ ended \in {"exited", "signaled"} => ~report.outlive
      /\ ended = "incomplete" => report.outlive
      /\ ended = "limit_exceeded" => Truncated
      /\ ended \in {"exited", "signaled", "incomplete"} => ~Truncated
      /\ contained => ~report.outlive
      /\ ~contained /\ ended \in {"timed_out", "limit_exceeded"} => report.outlive

\* Every report can be recorded as a result.  A command reported as exited, the
\* only way to pass a check, has its whole output kept, and nobody is left who
\* could write more.
ReportIsTrue ==
  /\ report # NoReport => Recordable
  /\ report.termination = "exited" =>
       /\ \A s \in Stream : capture[s].kept = written[s]
       /\ ~Alive

\* Once the child was seen to exit, reached a limit or ran out of time the
\* command ends with a report, whatever keeps its pipes open.
CommandEnds == done ~> main[1] = "ended"
=============================================================================
