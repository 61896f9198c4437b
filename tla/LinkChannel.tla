----------------------------- MODULE LinkChannel -----------------------------
(***************************************************************************)
(* What a link's socket promises (link_socket.h): it is dialled once; what *)
(* it was asked to send goes out in that order, nothing twice and nothing  *)
(* left out, until the connection is over; messages are handed on only     *)
(* while it is open; and it is over once, which its user is told unless it *)
(* was the user who let go of it.                                          *)
(* Of the message that is on its way when it is over, nothing is promised. *)
(***************************************************************************)
EXTENDS Naturals, Sequences

CONSTANTS
  Messages,  \* what its user may ask it to send
  Torn       \* bytes nobody asked it to send

VARIABLES
  state,  \* idle, dialling, open, closed (its user was told) or ended (by it)
  asked,  \* the messages in the order they were asked for
  sent,   \* what went out
  onWay,  \* whether something is on its way out
  letGo,  \* whether its user has closed it
  read    \* how many messages were handed on

vars == << state, asked, sent, onWay, letGo, read >>

Over == state \in {"closed", "ended"}

Init ==
  /\ state = "idle" /\ asked = << >> /\ sent = << >>
  /\ ~onWay /\ ~letGo /\ read = 0

Dial ==
  /\ state = "idle"
  /\ state' = "dialling"
  /\ UNCHANGED << asked, sent, onWay, letGo, read >>

Ask(m) ==
  /\ state # "idle"
  /\ asked' = Append(asked, m)
  /\ UNCHANGED << state, sent, onWay, letGo, read >>

LetGo ==
  /\ ~letGo /\ letGo'
  /\ UNCHANGED << state, asked, sent, onWay, read >>

\* It opens, perhaps with the first message already on its way.
Open ==
  /\ state = "dialling" /\ ~onWay
  /\ state' = "open"
  /\ onWay' \in BOOLEAN
  /\ UNCHANGED << asked, sent, letGo, read >>

Begin ==
  /\ state = "open" /\ ~onWay
  /\ onWay' = TRUE
  /\ UNCHANGED << state, asked, sent, letGo, read >>

GoesOut(x) ==
  /\ onWay /\ ~onWay'
  /\ IF Over THEN TRUE ELSE Len(sent) < Len(asked) /\ x = asked[Len(sent) + 1]
  /\ sent' = Append(sent, x)
  /\ UNCHANGED << state, asked, letGo, read >>

Lose ==
  /\ onWay /\ ~onWay'
  /\ UNCHANGED << state, asked, sent, letGo, read >>

\* It ends in silence only when its user closes it, or has closed it before.
Closes == letGo' \in BOOLEAN /\ (letGo \/ state' = "ended" => letGo')

HandOn ==
  /\ state = "open"
  /\ read' = read + 1
  /\ state' \in {"open", "ended"} /\ Closes
  /\ UNCHANGED << asked, sent, onWay >>

End ==
  /\ state \in {"dialling", "open"}
  /\ state' \in {"closed", "ended"} /\ Closes
  /\ UNCHANGED << asked, sent, onWay, read >>

Next ==
  \/ Dial \/ LetGo \/ Open \/ Begin \/ Lose \/ HandOn \/ End
  \/ \E m \in Messages : Ask(m)
  \/ \E x \in Messages \cup {Torn} : GoesOut(x)

Spec == Init /\ [][Next]_vars
=============================================================================
