--------------------------- MODULE CommandService ---------------------------
(***************************************************************************)
(* What the control plane promises of its commands, whatever processes run, *)
(* race or die: effects form one serial history, an operation id has at     *)
(* most one effect, computed from the state it is appended to, and at most  *)
(* one recorded answer, given after the effect and never changed.           *)
(***************************************************************************)
EXTENDS Naturals, Sequences

CONSTANTS Op, None

VARIABLES
  history,   \* the effects in commit order, and how much each had seen
  answer     \* the position of the effect an operation id is answered with

serviceVars == <<history, answer>>

Executed(op) == \E i \in DOMAIN history : history[i].op = op

Init ==
  /\ history = <<>>
  /\ answer = [op \in Op |-> None]

Execute(op) ==
  /\ ~Executed(op)
  /\ history' = Append(history, [op |-> op, saw |-> Len(history)])
  /\ UNCHANGED answer

Settle(op) ==
  /\ answer[op] = None
  /\ \E i \in DOMAIN history :
       history[i].op = op /\ answer' = [answer EXCEPT ![op] = i]
  /\ UNCHANGED history

\* A declaration that records its own answer.
ExecuteAndSettle(op) ==
  /\ ~Executed(op)
  /\ answer[op] = None
  /\ history' = Append(history, [op |-> op, saw |-> Len(history)])
  /\ answer' = [answer EXCEPT ![op] = Len(history')]

Next == \E op \in Op : Execute(op) \/ Settle(op) \/ ExecuteAndSettle(op)

Spec == Init /\ [][Next]_serviceVars
=============================================================================
