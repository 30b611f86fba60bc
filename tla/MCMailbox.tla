----------------------------- MODULE MCMailbox -----------------------------
(***************************************************************************)
(* Instances for TLC of the mailbox and of the command that writes to it,   *)
(* which share no state: a behaviour exercises one of them (part).          *)
(***************************************************************************)
EXTENDS Mailbox, Sending, TLC

CONSTANTS a1, a2, r1, m1, m2, m3

Two     == {a1, a2}
OneReq  == {r1}
Three   == {m1, m2, m3}
Tried   == TriedInputs
Last    == [r \in OneReq |-> m3]
\* Members are interchangeable, and so are the ids not kept for an ending.
Symmetric == Permutations(Two) \cup Permutations({m1, m2})

VARIABLE part  \* "mailbox" or "command"

MailboxInit ==
  /\ Init /\ SendingInit /\ part \in {"mailbox", "command"}
  /\ part = "mailbox" => sentKind = "progress" /\ asker = "Primary"

\* An inactive Primary only keeps the team from being written to: here it stays
\* active, and MCProgress has it come and go.
MailboxNext ==
  \/ part = "mailbox" /\ Next /\ primary' /\ UNCHANGED <<part, sendingVars>>
  \/ part = "command" /\ SendingNext /\ UNCHANGED <<part, vars>>
MailboxSpec == MailboxInit /\ [][MailboxNext]_<<part, vars, sendingVars>>

\* Executors who give --team too, which a consultation of theirs ignores.
AnyCommand == MailboxInit /\ part = "command" /\
  [][AnyNext /\ UNCHANGED <<part, vars>>]_<<part, vars, sendingVars>>
=============================================================================
