----------------------------- MODULE LinkSocket -----------------------------
(***************************************************************************)
(* One connection of a runtime server to a coordinator, from its address   *)
(* to its end: hkp-rt/lib/src/common/link_socket.cpp.                      *)
(*                                                                         *)
(* What runs for a connection runs on its strand, one handler after the    *)
(* other: the completions of what it asked of the network, and what other  *)
(* threads posted (sends and a close, in the order they were posted).  A   *)
(* completion may come at any time and with any outcome the network can    *)
(* have; which of the two a chosen handler finds first is the scheduler's. *)
(* Its user may close it from any thread, or from inside a handler, where  *)
(* the close runs at once.                                                 *)
(*                                                                         *)
(* Left out: the texts of addresses, reasons and headers, whether a frame  *)
(* is binary, and lengths of time: any operation may time out.             *)
(***************************************************************************)
EXTENDS Naturals, Sequences

CONSTANTS
  Messages,  \* what its user sends, each once
  MaxRead,   \* bound on the messages the peer sends
  Torn,      \* bytes nobody asked to send
  None

Ops == {"parse", "resolve", "connect", "tls", "upgrade", "read"}
Addresses == {"bad", "plain", "secure"}

ASSUME NamesAssumption ==
  /\ None \notin Messages \cup Ops \cup Addresses
  /\ Torn \notin Messages
  /\ MaxRead \in Nat

VARIABLES
  address,   \* what the address was parsed as, or None before LinkSocket::open
  op,        \* the operation whose completion carries the connection on
  open,      \* m_open
  done,      \* m_done
  queue,     \* m_queue
  inflight,  \* the message m_writing is for, or None
  out,       \* whether the bytes of inflight have gone out
  posted,    \* the sends other threads posted to the strand
  closing,   \* the user's close(): not called, posted or run
  before,    \* how many of posted were posted before the close
  broken,    \* whether a write has failed: the stream takes no other
  cut,       \* whether this side has closed the socket under the stream
  told,      \* how often onClose was called
  read,      \* how often onMessage was called
  asked,     \* history: the messages in the order they were asked for
  sent       \* history: what went out

stateVars == << open, done, told, cut >>
writeVars == << queue, inflight, out >>
userVars == << posted, closing, before, asked >>
vars == << address, op, stateVars, writeVars, userVars, broken, read, sent >>

-----------------------------------------------------------------------------
Range(s) == {s[i] : i \in DOMAIN s}

\* What carries the connection on after o has succeeded.
After(o) ==
  CASE o = "resolve" -> "connect"
    [] o = "connect" /\ address = "secure" -> "tls"
    [] OTHER -> "upgrade"

Init ==
  /\ address = None /\ op = None
  /\ open = FALSE /\ done = FALSE /\ told = 0 /\ cut = FALSE
  /\ queue = << >> /\ inflight = None /\ out = FALSE
  /\ posted = << >> /\ closing = "no" /\ before = 0 /\ asked = << >>
  /\ broken = FALSE /\ read = 0 /\ sent = << >>

\* write(): the message at the front is written, unless one already is.
MutMayWrite(q, writing, isOpen) == isOpen /\ q # << >>
MayWrite(q, writing, isOpen) == ~writing /\ isOpen /\ q # << >>

Write(q, now, isOpen) ==
  /\ queue' = q
  /\ IF MayWrite(q, now # None, isOpen)
       THEN inflight' = Head(q) /\ out' = FALSE
       ELSE inflight' = now /\ out' = (out /\ now # None)

\* finish(): the connection is over, and its user told.
MutFinish ==
  IF ~open THEN UNCHANGED << stateVars, queue >>
  ELSE /\ done' = TRUE /\ open' = FALSE /\ cut' = TRUE
       /\ told' = told + 1
       /\ queue' = << >>
Finish ==
  IF done THEN UNCHANGED << stateVars, queue >>
  ELSE /\ done' = TRUE /\ open' = FALSE /\ cut' = TRUE
       /\ told' = told + 1
       /\ queue' = << >>

\* What close() does on the strand: of an open connection the websocket is
\* closed, after the write that is under way; of any other, the socket.
CloseNow ==
  IF done THEN UNCHANGED << stateVars, queue >>
  ELSE /\ done' = TRUE /\ open' = FALSE /\ cut' = ~open
       /\ queue' = << >>
       /\ UNCHANGED told

-----------------------------------------------------------------------------
(* The user's calls.                                                       *)

\* LinkSocket::open: an address that is none is told later, like any failure.
Dial(a) ==
  /\ address = None
  /\ address' = a
  /\ op' = IF a = "bad" THEN "parse" ELSE "resolve"
  /\ UNCHANGED << stateVars, writeVars, userVars, broken, read, sent >>

Held == address \in {"plain", "secure"}

Send(m) ==
  /\ Held /\ m \notin Range(asked)
  /\ posted' = Append(posted, m)
  /\ asked' = Append(asked, m)
  /\ UNCHANGED << address, op, stateVars, writeVars, closing, before,
                  broken, read, sent >>

Close ==
  /\ Held /\ closing = "no"
  /\ closing' = "posted" /\ before' = Len(posted)
  /\ UNCHANGED << address, op, stateVars, writeVars, posted, asked,
                  broken, read, sent >>

-----------------------------------------------------------------------------
(* What was posted to the strand.                                          *)

RunSend ==
  /\ posted # << >> /\ (closing = "posted" => before > 0)
  /\ posted' = Tail(posted)
  /\ before' = IF closing = "posted" THEN before - 1 ELSE before
  /\ IF done THEN UNCHANGED writeVars
     ELSE Write(Append(queue, Head(posted)), inflight, open)
  /\ UNCHANGED << address, op, stateVars, closing, asked, broken, read, sent >>

RunClose ==
  /\ closing = "posted" /\ before = 0
  /\ closing' = "run"
  /\ CloseNow
  /\ UNCHANGED << address, op, inflight, out, posted, before, asked,
                  broken, read, sent >>

-----------------------------------------------------------------------------
(* Completions.                                                            *)

\* An address that is none, a name nobody knows, a peer that does not listen,
\* is not trusted, refuses the upgrade or says nothing in time.
DialFails ==
  /\ op \in Ops \ {"read"}
  /\ op' = None
  /\ Finish
  /\ UNCHANGED << address, inflight, out, userVars, broken, read, sent >>

\* Nobody looks at m_done on the way: a connection closed while its name was
\* being resolved goes on to the upgrade, on a socket that is then opened.
Advance ==
  /\ op \in {"resolve", "connect", "tls"}
  /\ op' = After(op)
  /\ UNCHANGED << address, stateVars, writeVars, userVars, broken, read, sent >>

\* A handler closes the connection from inside its call.
ClosesInside == closing = "no" /\ closing' = "run" /\ UNCHANGED before

\* The handshake is over: onOpen, then the first read and the first write.
MutMayOpen == TRUE
MayOpen == ~done

MutWriteFirst == UNCHANGED writeVars
WriteFirst == Write(queue, inflight, TRUE)

Upgraded ==
  /\ op = "upgrade"
  /\ \/ /\ ~MayOpen
        /\ op' = None
        /\ UNCHANGED << stateVars, writeVars, closing, before >>
     \/ /\ MayOpen
        /\ op' = "read" /\ open' = TRUE
        /\ WriteFirst
        /\ UNCHANGED << done, told, cut, closing, before >>
     \/ /\ MayOpen /\ ClosesInside
        /\ op' = "read" /\ done' = TRUE /\ queue' = << >>
        /\ UNCHANGED << open, told, cut, inflight, out >>
  /\ UNCHANGED << address, posted, asked, broken, read, sent >>

\* A message is handed on unless the connection is over, and the next is read.
ReadMessage ==
  /\ op = "read"
  /\ IF done THEN UNCHANGED << stateVars, queue, closing, before, read >>
     ELSE /\ read < MaxRead
          /\ read' = read + 1
          /\ \/ UNCHANGED << stateVars, queue, closing, before >>
             \/ ClosesInside /\ CloseNow
  /\ op' = IF done' THEN None ELSE "read"
  /\ UNCHANGED << address, inflight, out, posted, asked, broken, sent >>

\* The peer closed, sent too much or nothing for too long, or is gone.
ReadFails ==
  /\ op = "read"
  /\ op' = None
  /\ Finish
  /\ UNCHANGED << address, inflight, out, userVars, broken, read, sent >>

\* The bytes of a write are those at the front of the queue.  Ending the
\* connection clears it under the write: what goes out then is undefined.
GoesOut ==
  /\ inflight # None /\ ~out /\ ~broken /\ ~cut
  /\ out' = TRUE
  /\ \E x \in IF queue # << >> THEN {Head(queue)} ELSE {inflight, Torn} :
       sent' = Append(sent, x)
  /\ UNCHANGED << address, op, stateVars, queue, inflight, userVars, broken, read >>

Written ==
  /\ inflight # None /\ out
  /\ IF done THEN inflight' = None /\ out' = FALSE /\ UNCHANGED queue
     ELSE Write(Tail(queue), None, open)
  /\ UNCHANGED << address, op, stateVars, userVars, broken, read, sent >>

\* The message stays in the queue: the next send tries it again, in vain.
WriteFails ==
  /\ inflight # None /\ ~out
  /\ inflight' = None /\ broken' = TRUE
  /\ UNCHANGED << address, op, stateVars, queue, out, userVars, read, sent >>

-----------------------------------------------------------------------------
DialStep == Advance \/ DialFails \/ Upgraded
ReadStep == ReadMessage \/ ReadFails
WriteStep == Written \/ WriteFails
StrandStep == RunSend \/ RunClose
UserStep ==
  \/ \E a \in Addresses : Dial(a)
  \/ \E m \in Messages : Send(m)
  \/ Close

Next == UserStep \/ StrandStep \/ DialStep \/ ReadStep \/ WriteStep \/ GoesOut

Spec == Init /\ [][Next]_vars

\* What is posted runs; every operation of the dialling ends (resolving by the
\* system's own limits, the others by handshakeTimeout); writes end; and where
\* nothing goes out any more, the pings of an idle connection are not answered.
FairSpec ==
  /\ Spec
  /\ WF_vars(StrandStep) /\ WF_vars(DialStep) /\ WF_vars(WriteStep)
  /\ WF_vars(broken /\ ReadFails)

-----------------------------------------------------------------------------
\* Every variable has its type, and a connection that is over is not open.
TypeOK ==
  /\ address \in Addresses \cup {None}
  /\ op \in Ops \cup {None}
  /\ open \in BOOLEAN /\ done \in BOOLEAN /\ cut \in BOOLEAN /\ told \in 0..1
  /\ queue \in Seq(Messages) /\ inflight \in Messages \cup {None} /\ out \in BOOLEAN
  /\ posted \in Seq(Messages) /\ closing \in {"no", "posted", "run"}
  /\ before \in Nat /\ broken \in BOOLEAN /\ read \in Nat
  /\ asked \in Seq(Messages) /\ sent \in Seq(Messages \cup {Torn})
  /\ open => ~done

\* As a channel: LinkChannel is what CoordinatorLinks relies on.
Channel == INSTANCE LinkChannel WITH
  state <- IF address = None THEN "idle" ELSE
           IF told # 0 THEN "closed" ELSE
           IF done THEN "ended" ELSE
           IF open THEN "open" ELSE "dialling",
  onWay <- inflight # None /\ ~out,
  letGo <- closing # "no"

\* It goes out in order, once, nothing left out, until the connection is over,
\* however sends, completions and a close come together; nothing is handed on
\* before it is open or after it is over; and it is over once, which its user
\* is told unless the user closed it (link_socket.h:72-93).
KeepsItsPromise == Channel!Spec

\* A connection that was begun opens or is over; and one whose stream takes no
\* more writes is over, because the read side goes on to say so, whatever it
\* still reads (link_socket.cpp:346).
NothingHangs ==
  /\ (address # None) ~> (open \/ done)
  /\ broken ~> done

\* What was asked for goes out while the connection lasts, also what was asked
\* for before it was open or while another write was under way.
SentGoesOut ==
  \A m \in Messages : (m \in Range(posted)) ~> (m \in Range(sent) \/ broken \/ done)
=============================================================================
