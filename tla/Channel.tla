------------------------------ MODULE Channel ------------------------------
(* What the transport and the scheduler of a router promise to a session:    *)
(* its messages are read once each, in the order in which the other end sent *)
(* them, until one of the ends closes the connection.  A close by the other  *)
(* end may cost what was sent last; a close by this end drops everything.    *)
(* Nothing is said about when a message is read.                             *)
EXTENDS Naturals, Sequences

CONSTANT
  Message    \* what a read can return, end of file included

VARIABLES
  pipe,      \* messages that have not been read
  got        \* the last message that was read

Init ==
  /\ pipe = << >>
  /\ got \in Message

\* The other end sends m.
Send(m) == pipe' = Append(pipe, m) /\ UNCHANGED got

\* The other end closes: end of file comes after what is left.
CloseThere(m) ==
  /\ \E n \in 0..Len(pipe) : pipe' = Append(SubSeq(pipe, 1, n), m)
  /\ UNCHANGED got

CloseHere == pipe' = << >> /\ UNCHANGED got

Read == pipe # << >> /\ got' = Head(pipe) /\ pipe' = Tail(pipe)

Next == Read \/ CloseHere \/ \E m \in Message : Send(m) \/ CloseThere(m)

Spec == Init /\ [][Next]_<<pipe, got>>

=============================================================================
