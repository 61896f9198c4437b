-------------------------- MODULE LinkSocketProofs --------------------------
(***************************************************************************)
(* Proofs about LinkSocket, for every set of messages and every number of  *)
(* messages read: what a write reads stays under it, a connection ends     *)
(* silently only where its user closed it, and the socket implements       *)
(* LinkChannel.                                                            *)
(***************************************************************************)
EXTENDS LinkSocket, Queues

-----------------------------------------------------------------------------
(* The inductive invariant.                                                *)

\* How far a connection is: nothing before it is dialled; a connection that is
\* not over is open exactly while it is read, was not told of its end, and
\* writes only while it is open.
Stages ==
  /\ address = None => op = None /\ ~done /\ closing = "no"
  /\ open => op = "read"
  /\ op = "read" /\ ~done => open
  /\ ~done => told = 0
  /\ inflight # None => open \/ done
  /\ out => inflight # None

\* While a connection is not over, the bytes its write reads are those of the
\* message it was started for, whatever is queued meanwhile (m_queue is a
\* deque: pushing at its back leaves the front where it is).
WritesTheFront ==
  inflight # None /\ ~done => queue # << >> /\ Head(queue) = inflight

\* A connection ends without onClose only where its user closed it.
OnlyCloseIsSilent == done /\ told = 0 => closing = "run"

\* How many messages have gone out and left the queue.
Gone == IF out THEN Len(sent) - 1 ELSE Len(sent)

\* Every message of a, from the one after the first n on, is in q or else in p.
Aligned(a, n, q, p) ==
  /\ n \in Nat
  /\ Len(a) = n + Len(q) + Len(p)
  /\ \A i \in 1..Len(q) : q[i] = a[n + i]
  /\ \A i \in 1..Len(p) : p[i] = a[n + Len(q) + i]

\* While a connection is not over, every message that was asked for has gone,
\* or is queued, or posted, in this order.
InOrder == ~done => Aligned(asked, Gone, queue, posted)

IInv == TypeOK /\ Stages /\ WritesTheFront /\ OnlyCloseIsSilent /\ InOrder

-----------------------------------------------------------------------------
(* The order of messages.                                                  *)

\* A message that is asked for comes last.
LEMMA AskAligns ==
  ASSUME NEW a \in Seq(Messages), NEW q \in Seq(Messages),
         NEW p \in Seq(Messages), NEW n, Aligned(a, n, q, p), NEW m \in Messages
  PROVE  Aligned(Append(a, m), n, q, Append(p, m))
<1>1. /\ n \in Nat /\ Len(q) \in Nat /\ Len(p) \in Nat /\ Len(a) \in Nat
      /\ Len(a) = n + Len(q) + Len(p)
      /\ Len(Append(a, m)) = Len(a) + 1 /\ Len(Append(p, m)) = Len(p) + 1
      /\ \A i \in 1..Len(a) : Append(a, m)[i] = a[i]
      /\ Append(a, m)[Len(a) + 1] = m
      /\ \A i \in 1..Len(p) : Append(p, m)[i] = p[i]
      /\ Append(p, m)[Len(p) + 1] = m
  BY AppendIs DEF Aligned
<1>2. \A i \in 1..Len(q) : n + i \in 1..Len(a)
  BY <1>1
<1>3. \A i \in 1..Len(p) : n + Len(q) + i \in 1..Len(a)
  BY <1>1
<1>4. \A i \in 1..Len(q) : q[i] = Append(a, m)[n + i]
  BY <1>1, <1>2 DEF Aligned
<1>5. ASSUME NEW i \in 1..(Len(p) + 1)
      PROVE  Append(p, m)[i] = Append(a, m)[n + Len(q) + i]
  <2>1. CASE i \in 1..Len(p)
    BY <2>1, <1>1, <1>3 DEF Aligned
  <2>2. CASE i = Len(p) + 1
    <3>1. n + Len(q) + i = Len(a) + 1
      BY <2>2, <1>1
    <3> QED
      BY <3>1, <2>2, <1>1
  <2> QED
    BY <2>1, <2>2, <1>1
<1>6. Len(Append(a, m)) = n + Len(q) + Len(Append(p, m))
  BY <1>1
<1>7. \A i \in 1..Len(Append(p, m)) : Append(p, m)[i] = Append(a, m)[n + Len(q) + i]
  BY <1>1, <1>5
<1> QED
  BY <1>1, <1>4, <1>6, <1>7 DEF Aligned

\* The first message that was posted becomes the last of the queue.
LEMMA QueueAligns ==
  ASSUME NEW a \in Seq(Messages), NEW q \in Seq(Messages),
         NEW p \in Seq(Messages), NEW n, Aligned(a, n, q, p), p # << >>
  PROVE  Aligned(a, n, Append(q, Head(p)), Tail(p))
<1> DEFINE m == Head(p)
<1>1. /\ Tail(p) \in Seq(Messages) /\ Len(p) \in Nat \ {0}
      /\ Len(Tail(p)) = Len(p) - 1
      /\ \A i \in 1..Len(Tail(p)) : i + 1 \in 1..Len(p) /\ Tail(p)[i] = p[i + 1]
      /\ m = p[1] /\ m \in Messages
  BY TailIs
<1>2. /\ n \in Nat /\ Len(q) \in Nat
      /\ Len(a) = n + Len(q) + Len(p)
      /\ Len(Append(q, m)) = Len(q) + 1
      /\ \A i \in 1..Len(q) : Append(q, m)[i] = q[i]
      /\ Append(q, m)[Len(q) + 1] = m
  BY <1>1, AppendIs DEF Aligned
<1> HIDE DEF m
<1>3. ASSUME NEW i \in 1..(Len(q) + 1)
      PROVE  Append(q, m)[i] = a[n + i]
  <2>1. CASE i \in 1..Len(q)
    BY <2>1, <1>2 DEF Aligned
  <2>2. CASE i = Len(q) + 1
    <3>1. 1 \in 1..Len(p) /\ n + Len(q) + 1 = n + i
      BY <1>1, <1>2, <2>2
    <3>2. p[1] = a[n + Len(q) + 1]
      BY <3>1 DEF Aligned
    <3> QED
      BY <3>1, <3>2, <2>2, <1>1, <1>2
  <2> QED
    BY <2>1, <2>2, <1>2
<1>4. ASSUME NEW i \in 1..Len(Tail(p))
      PROVE  Tail(p)[i] = a[n + (Len(q) + 1) + i]
  <2>1. i + 1 \in 1..Len(p) /\ Tail(p)[i] = p[i + 1]
    BY <1>1
  <2>2. p[i + 1] = a[n + Len(q) + (i + 1)]
    BY <2>1 DEF Aligned
  <2>3. n + Len(q) + (i + 1) = n + (Len(q) + 1) + i
    BY <1>1, <1>2
  <2> QED
    BY <2>1, <2>2, <2>3
<1>5. Len(a) = n + (Len(q) + 1) + Len(Tail(p))
  BY <1>1, <1>2
<1> QED
  BY <1>2, <1>3, <1>4, <1>5 DEF Aligned, m

\* The front of the queue is the next to go.
LEMMA PopAligns ==
  ASSUME NEW a \in Seq(Messages), NEW q \in Seq(Messages),
         NEW p \in Seq(Messages), NEW n, Aligned(a, n, q, p), q # << >>
  PROVE  /\ Aligned(a, n + 1, Tail(q), p)
         /\ n < Len(a) /\ Head(q) = a[n + 1]
<1>1. /\ Tail(q) \in Seq(Messages) /\ Len(q) \in Nat \ {0}
      /\ Len(Tail(q)) = Len(q) - 1
      /\ \A i \in 1..Len(Tail(q)) : i + 1 \in 1..Len(q) /\ Tail(q)[i] = q[i + 1]
      /\ Head(q) = q[1]
  BY TailIs
<1>2. /\ n \in Nat /\ Len(p) \in Nat /\ 1 \in 1..Len(q)
      /\ Len(a) = n + Len(q) + Len(p)
  BY <1>1 DEF Aligned
<1>3. ASSUME NEW i \in 1..Len(Tail(q))
      PROVE  Tail(q)[i] = a[(n + 1) + i]
  <2>1. i + 1 \in 1..Len(q) /\ Tail(q)[i] = q[i + 1]
    BY <1>1
  <2>2. q[i + 1] = a[n + (i + 1)]
    BY <2>1 DEF Aligned
  <2>3. n + (i + 1) = (n + 1) + i
    BY <1>1, <1>2
  <2> QED
    BY <2>1, <2>2, <2>3
<1>4. ASSUME NEW i \in 1..Len(p)
      PROVE  p[i] = a[(n + 1) + Len(Tail(q)) + i]
  <2>1. p[i] = a[n + Len(q) + i]
    BY DEF Aligned
  <2>2. n + Len(q) + i = (n + 1) + Len(Tail(q)) + i
    BY <1>1, <1>2
  <2> QED
    BY <2>1, <2>2
<1>5. /\ Len(a) = (n + 1) + Len(Tail(q)) + Len(p) /\ n + 1 \in Nat
      /\ n < Len(a)
  BY <1>1, <1>2
<1>6. Head(q) = a[n + 1]
  BY <1>1, <1>2 DEF Aligned
<1> QED
  BY <1>3, <1>4, <1>5, <1>6 DEF Aligned

-----------------------------------------------------------------------------
(* The steps keep the invariant.                                           *)

\* A write that is started reads the front of the queue, and one that is under
\* way goes on.
LEMMA WriteKeeps ==
  ASSUME NEW q \in Seq(Messages), NEW now \in Messages \cup {None},
         NEW isOpen \in BOOLEAN, out \in BOOLEAN,
         now # None => isOpen /\ q # << >> /\ Head(q) = now,
         Write(q, now, isOpen)
  PROVE  /\ queue' = q
         /\ inflight' \in Messages \cup {None}
         /\ out' \in BOOLEAN /\ out' = (out /\ now # None)
         /\ out' => inflight' # None
         /\ inflight' # None => isOpen /\ q # << >> /\ Head(q) = inflight'
<1>1. q # << >> => Head(q) \in Messages
  BY TailIs
<1>2. CASE MayWrite(q, now # None, isOpen)
  BY <1>1, <1>2, NamesAssumption DEF Write, MayWrite
<1>3. CASE ~MayWrite(q, now # None, isOpen)
  BY <1>1, <1>3 DEF Write, MayWrite
<1> QED
  BY <1>2, <1>3

\* A connection that ends leaves nothing to be in order.
LEMMA FinishKeeps ==
  ASSUME IInv, op # None, Finish, op' = None,
         UNCHANGED << address, inflight, out, userVars, broken, read, sent >>
  PROVE  IInv'
<1>1. << >> \in Seq(Messages) /\ address # None
  BY DEF IInv, Stages
<1>2. /\ queue' \in Seq(Messages)
      /\ UNCHANGED << address, inflight, out, posted, closing, before, asked,
                      broken, read, sent >>
      /\ cut' \in BOOLEAN
  BY <1>1 DEF IInv, TypeOK, Finish, stateVars, userVars
<1>3. done' = TRUE /\ open' = FALSE
  BY DEF IInv, TypeOK, Finish, stateVars
<1>4. \/ told' = 1
      \/ done /\ told' = told
  BY DEF IInv, Stages, Finish, stateVars
<1>5. TypeOK'
  <2>1. told' \in 0..1
    BY <1>4 DEF IInv, TypeOK
  <2>2. op' \in Ops \cup {None}
    OBVIOUS
  <2> QED
    BY <1>2, <1>3, <2>1, <2>2 DEF IInv, TypeOK
<1>6. Stages'
  BY <1>1, <1>2, <1>3, NamesAssumption DEF IInv, Stages, Ops
<1>7. WritesTheFront' /\ InOrder'
  BY <1>3 DEF WritesTheFront, InOrder
<1>8. OnlyCloseIsSilent'
  BY <1>2, <1>3, <1>4 DEF IInv, OnlyCloseIsSilent
<1> QED
  BY <1>5, <1>6, <1>7, <1>8 DEF IInv

LEMMA DialKeeps ==
  ASSUME IInv, NEW a \in Addresses, Dial(a) PROVE IInv'
<1>1. /\ UNCHANGED << stateVars, writeVars, userVars, broken, read, sent >>
      /\ address = None /\ address' = a /\ op' \in {"parse", "resolve"}
      /\ op = None /\ ~open /\ a # None
  BY NamesAssumption DEF IInv, Stages, Dial, Ops, Addresses
<1>2. TypeOK' /\ WritesTheFront' /\ OnlyCloseIsSilent'
  BY <1>1 DEF IInv, TypeOK, WritesTheFront, OnlyCloseIsSilent, Ops,
              stateVars, writeVars, userVars
<1>3. Stages'
  BY <1>1 DEF IInv, TypeOK, Stages, stateVars, writeVars, userVars
<1>4. InOrder'
  BY <1>1 DEF IInv, InOrder, Aligned, Gone, stateVars, writeVars, userVars
<1> QED
  BY <1>2, <1>3, <1>4 DEF IInv

LEMMA SendKeeps ==
  ASSUME IInv, NEW m \in Messages, Send(m) PROVE IInv'
<1> USE DEF Send, stateVars, writeVars
<1>1. asked' \in Seq(Messages) /\ posted' \in Seq(Messages)
  BY AppendIs DEF IInv, TypeOK
<1>2. TypeOK'
  BY <1>1 DEF IInv, TypeOK
<1>3. Stages'
  BY NamesAssumption DEF IInv, Stages, Held, Addresses
<1>4. WritesTheFront' /\ OnlyCloseIsSilent'
  BY DEF IInv, WritesTheFront, OnlyCloseIsSilent
<1>5. ASSUME ~done PROVE Aligned(asked', Gone, queue, posted')
  BY <1>5, AskAligns DEF IInv, TypeOK, InOrder
<1>6. InOrder'
  BY <1>5 DEF InOrder, Gone, Aligned
<1> QED
  BY <1>2, <1>3, <1>4, <1>6 DEF IInv

LEMMA CloseKeeps ==
  ASSUME IInv, Close PROVE IInv'
<1> USE DEF Close, stateVars, writeVars
<1>1. TypeOK'
  BY DEF IInv, TypeOK
<1>2. Stages'
  BY NamesAssumption DEF IInv, Stages, Held, Addresses
<1>3. WritesTheFront' /\ OnlyCloseIsSilent'
  BY DEF IInv, WritesTheFront, OnlyCloseIsSilent, Stages
<1>4. InOrder'
  BY DEF IInv, InOrder, Gone, Aligned
<1> QED
  BY <1>1, <1>2, <1>3, <1>4 DEF IInv

LEMMA RunSendKeeps ==
  ASSUME IInv, RunSend PROVE IInv'
<1> DEFINE q == Append(queue, Head(posted))
<1>1. /\ posted # << >> /\ posted' = Tail(posted)
      /\ posted' \in Seq(Messages) /\ Head(posted) \in Messages
  BY TailIs DEF IInv, TypeOK, RunSend
<1>2. before' \in Nat
  BY DEF IInv, TypeOK, RunSend
<1>3. UNCHANGED << address, op, open, done, told, cut, closing, asked, broken, read, sent >>
  BY DEF RunSend, stateVars
<1>4. CASE done
  <2>1. UNCHANGED << queue, inflight, out >>
    BY <1>4 DEF RunSend, writeVars
  <2> QED
    BY <1>1, <1>2, <1>3, <1>4, <2>1
    DEF IInv, TypeOK, Stages, WritesTheFront, OnlyCloseIsSilent, InOrder
<1>5. CASE ~done
  <2>1. q \in Seq(Messages) /\ q # << >> /\ (queue # << >> => Head(q) = Head(queue))
    <3>1. queue \in Seq(Messages) /\ q = Append(queue, Head(posted))
      BY DEF IInv, TypeOK
    <3> HIDE DEF q
    <3> QED
      BY <3>1, <1>1
  <2>2. inflight # None => open /\ Head(q) = inflight
    BY <1>5, <2>1 DEF IInv, Stages, WritesTheFront
  <2>3. Write(q, inflight, open)
    BY <1>5 DEF RunSend
  <2>4. Aligned(asked, Gone, q, posted')
    BY <1>1, <1>5, QueueAligns DEF IInv, TypeOK, InOrder
  <2> HIDE DEF q
  <2>5. /\ queue' = q /\ inflight' \in Messages \cup {None}
        /\ out' \in BOOLEAN /\ out' = (out /\ inflight # None)
        /\ out' => inflight' # None
        /\ inflight' # None => open /\ q # << >> /\ Head(q) = inflight'
    BY <2>1, <2>2, <2>3, WriteKeeps DEF IInv, TypeOK
  <2>6. out' = out
    BY <2>5 DEF IInv, TypeOK, Stages
  <2>7. Gone' = Gone
    BY <2>6, <1>3 DEF Gone
  <2>8. InOrder'
    BY <2>4, <2>5, <2>7, <1>3 DEF InOrder, Aligned
  <2>9. TypeOK'
    BY <1>1, <1>2, <1>3, <2>1, <2>5 DEF IInv, TypeOK
  <2>10. Stages' /\ WritesTheFront' /\ OnlyCloseIsSilent'
    BY <1>3, <2>5 DEF IInv, Stages, WritesTheFront, OnlyCloseIsSilent
  <2> QED
    BY <2>8, <2>9, <2>10 DEF IInv
<1> QED
  BY <1>4, <1>5

\* A connection that its user closes ends in silence.
LEMMA CloseNowKeeps ==
  ASSUME IInv, address # None, done' = TRUE, open' = FALSE, told' = told,
         queue' = << >>, cut' \in BOOLEAN, closing' = "run", read' \in Nat,
         op' \in Ops \cup {None},
         UNCHANGED << address, inflight, out, posted, before, asked, broken, sent >>
  PROVE  IInv'
<1>1. TypeOK'
  <2>1. << >> \in Seq(Messages)
    OBVIOUS
  <2> QED
    BY <2>1 DEF IInv, TypeOK
<1>2. Stages'
  BY DEF IInv, Stages
<1>3. WritesTheFront' /\ InOrder' /\ OnlyCloseIsSilent'
  BY DEF WritesTheFront, InOrder, OnlyCloseIsSilent
<1> QED
  BY <1>1, <1>2, <1>3 DEF IInv

LEMMA RunCloseKeeps ==
  ASSUME IInv, RunClose PROVE IInv'
<1>1. /\ closing = "posted" /\ closing' = "run"
      /\ UNCHANGED << address, op, inflight, out, posted, before, asked,
                      broken, read, sent >>
      /\ address # None
  BY DEF IInv, Stages, RunClose
<1>2. CASE done
  <2>1. UNCHANGED << open, done, told, cut, queue >>
    BY <1>2 DEF RunClose, CloseNow, stateVars
  <2>2. TypeOK' /\ Stages'
    BY <1>1, <2>1 DEF IInv, TypeOK, Stages
  <2>3. WritesTheFront' /\ InOrder' /\ OnlyCloseIsSilent'
    BY <1>1, <1>2, <2>1 DEF WritesTheFront, InOrder, OnlyCloseIsSilent
  <2> QED
    BY <2>2, <2>3 DEF IInv
<1>3. CASE ~done
  <2>1. /\ done' = TRUE /\ open' = FALSE /\ told' = told /\ queue' = << >>
        /\ cut' \in BOOLEAN
    BY <1>3 DEF RunClose, CloseNow, IInv, TypeOK
  <2>2. read' \in Nat /\ op' \in Ops \cup {None}
    BY <1>1 DEF IInv, TypeOK
  <2> QED
    BY <1>1, <2>1, <2>2, CloseNowKeeps
<1> QED
  BY <1>2, <1>3

LEMMA AdvanceKeeps ==
  ASSUME IInv, Advance PROVE IInv'
<1>1. /\ op \in {"resolve", "connect", "tls"}
      /\ op' \in {"connect", "tls", "upgrade"}
      /\ UNCHANGED << address, open, done, told, cut, queue, inflight, out, posted,
                      closing, before, asked, broken, read, sent >>
  BY DEF Advance, After, stateVars, writeVars, userVars
<1>2. TypeOK'
  BY <1>1 DEF IInv, TypeOK, Ops
<1>3. Stages'
  BY <1>1, NamesAssumption DEF IInv, Stages, Ops
<1>4. WritesTheFront' /\ OnlyCloseIsSilent' /\ InOrder'
  BY <1>1 DEF IInv, WritesTheFront, OnlyCloseIsSilent, InOrder, Aligned, Gone
<1> QED
  BY <1>2, <1>3, <1>4 DEF IInv

LEMMA UpgradedKeeps ==
  ASSUME IInv, Upgraded PROVE IInv'
<1>1. /\ op = "upgrade" /\ address # None
      /\ UNCHANGED << address, posted, asked, broken, read, sent >>
  BY NamesAssumption DEF IInv, Stages, Upgraded, Ops
<1>2. CASE /\ done /\ op' = None
           /\ UNCHANGED << open, done, told, cut, queue, inflight, out, closing, before >>
  <2>1. TypeOK' /\ Stages'
    BY <1>1, <1>2, NamesAssumption DEF IInv, TypeOK, Stages, Ops
  <2>2. WritesTheFront' /\ OnlyCloseIsSilent' /\ InOrder'
    BY <1>1, <1>2 DEF IInv, WritesTheFront, OnlyCloseIsSilent, InOrder
  <2> QED
    BY <2>1, <2>2 DEF IInv
<1>3. CASE /\ ~done /\ op' = "read" /\ open' = TRUE
           /\ Write(queue, inflight, TRUE)
           /\ UNCHANGED << done, told, cut, closing, before >>
  <2>1. inflight = None /\ out = FALSE
    BY <1>1, <1>3 DEF IInv, TypeOK, Stages
  <2>2. /\ queue' = queue /\ inflight' \in Messages \cup {None}
        /\ out' = FALSE
        /\ inflight' # None => queue # << >> /\ Head(queue) = inflight'
    BY <1>3, <2>1, WriteKeeps DEF IInv, TypeOK
  <2>3. TypeOK'
    BY <1>1, <1>3, <2>2 DEF IInv, TypeOK, Ops
  <2>4. Stages'
    BY <1>1, <1>3, <2>2 DEF IInv, Stages
  <2>5. Gone' = Gone
    BY <1>1, <2>1, <2>2 DEF Gone
  <2>6. InOrder'
    BY <1>1, <1>3, <2>2, <2>5 DEF IInv, InOrder, Aligned
  <2>7. WritesTheFront' /\ OnlyCloseIsSilent'
    BY <1>3, <2>2 DEF WritesTheFront, OnlyCloseIsSilent
  <2> QED
    BY <2>3, <2>4, <2>6, <2>7 DEF IInv
<1>4. CASE /\ ~done /\ ClosesInside /\ op' = "read" /\ done' = TRUE
           /\ queue' = << >>
           /\ UNCHANGED << open, told, cut, inflight, out >>
  <2>1. open' = FALSE /\ cut' \in BOOLEAN /\ read' \in Nat
    BY <1>1, <1>4 DEF IInv, TypeOK, Stages
  <2> QED
    BY <1>1, <1>4, <2>1, CloseNowKeeps DEF ClosesInside, Ops
<1> QED
  BY <1>2, <1>3, <1>4 DEF Upgraded, MayOpen, WriteFirst, stateVars, writeVars

LEMMA ReadMessageKeeps ==
  ASSUME IInv, ReadMessage PROVE IInv'
<1>1. /\ op = "read" /\ address # None
      /\ op' = (IF done' THEN None ELSE "read")
      /\ UNCHANGED << address, inflight, out, posted, asked, broken, sent >>
  BY NamesAssumption DEF IInv, Stages, ReadMessage, Ops
<1>2. CASE /\ read' \in Nat
           /\ UNCHANGED << open, done, told, cut, queue, closing, before >>
  <2>1. TypeOK'
    BY <1>1, <1>2 DEF IInv, TypeOK, Ops
  <2>2. Stages'
    BY <1>1, <1>2, NamesAssumption DEF IInv, TypeOK, Stages, Ops
  <2>3. WritesTheFront' /\ OnlyCloseIsSilent' /\ InOrder'
    BY <1>1, <1>2
    DEF IInv, WritesTheFront, OnlyCloseIsSilent, InOrder, Aligned, Gone
  <2> QED
    BY <2>1, <2>2, <2>3 DEF IInv
<1>3. CASE ~done /\ read' = read + 1 /\ ClosesInside /\ CloseNow
  <2>1. /\ done' = TRUE /\ open' = FALSE /\ told' = told /\ queue' = << >>
        /\ cut' \in BOOLEAN /\ read' \in Nat /\ closing' = "run"
        /\ before' = before
    BY <1>3 DEF CloseNow, ClosesInside, IInv, TypeOK
  <2>2. op' \in Ops \cup {None}
    BY <1>1 DEF Ops
  <2> QED
    BY <1>1, <2>1, <2>2, CloseNowKeeps
<1>4. read \in Nat /\ read + 1 \in Nat
  BY DEF IInv, TypeOK
<1> QED
  BY <1>2, <1>3, <1>4 DEF ReadMessage, stateVars

LEMMA GoesOutKeeps ==
  ASSUME IInv, GoesOut PROVE IInv'
<1>1. /\ inflight # None /\ out = FALSE /\ out' = TRUE
      /\ UNCHANGED << address, op, open, done, told, cut, queue, inflight, posted,
                      closing, before, asked, broken, read >>
  BY DEF GoesOut, stateVars, userVars, IInv, TypeOK
<1>2. PICK x \in Messages \cup {Torn} : sent' = Append(sent, x)
  <2>1. queue # << >> => Head(queue) \in Messages
    BY TailIs DEF IInv, TypeOK
  <2> QED
    BY <1>1, <2>1 DEF GoesOut, IInv, TypeOK
<1>3. sent' \in Seq(Messages \cup {Torn}) /\ Len(sent) \in Nat
      /\ Len(sent') = Len(sent) + 1
  BY <1>2, AppendIs DEF IInv, TypeOK
<1>4. TypeOK'
  BY <1>1, <1>3 DEF IInv, TypeOK
<1>5. Stages' /\ WritesTheFront' /\ OnlyCloseIsSilent'
  BY <1>1 DEF IInv, Stages, WritesTheFront, OnlyCloseIsSilent
<1>6. Gone' = Gone
  BY <1>1, <1>3 DEF Gone
<1>7. InOrder'
  BY <1>1, <1>6 DEF IInv, InOrder, Aligned
<1> QED
  BY <1>4, <1>5, <1>7 DEF IInv

LEMMA WrittenKeeps ==
  ASSUME IInv, Written PROVE IInv'
<1>1. /\ inflight # None /\ out = TRUE
      /\ UNCHANGED << address, op, open, done, told, cut, posted, closing, before,
                      asked, broken, read, sent >>
  BY DEF Written, stateVars, userVars, IInv, TypeOK
<1>2. CASE done
  <2>1. inflight' = None /\ out' = FALSE /\ queue' = queue
    BY <1>2 DEF Written
  <2>2. TypeOK' /\ Stages'
    BY <1>1, <1>2, <2>1 DEF IInv, TypeOK, Stages
  <2>3. WritesTheFront' /\ OnlyCloseIsSilent' /\ InOrder'
    BY <1>1, <1>2 DEF IInv, WritesTheFront, OnlyCloseIsSilent, InOrder
  <2> QED
    BY <2>2, <2>3 DEF IInv
<1>3. CASE ~done
  <2> DEFINE q == Tail(queue)
  <2>1. queue # << >> /\ q \in Seq(Messages) /\ Write(q, None, open)
    BY <1>1, <1>3, TailIs DEF IInv, TypeOK, WritesTheFront, Written
  <2>2. Aligned(asked, Gone + 1, q, posted)
    BY <1>3, <2>1, PopAligns DEF IInv, TypeOK, InOrder
  <2> HIDE DEF q
  <2>3. /\ queue' = q /\ inflight' \in Messages \cup {None} /\ out' = FALSE
        /\ inflight' # None => open /\ q # << >> /\ Head(q) = inflight'
    BY <2>1, WriteKeeps DEF IInv, TypeOK
  <2>4. Gone' = Gone + 1
    <3>1. Len(sent) \in Nat
      BY DEF IInv, TypeOK
    <3> QED
      BY <1>1, <2>3, <3>1 DEF Gone
  <2>5. InOrder'
    BY <1>1, <2>2, <2>3, <2>4 DEF InOrder, Aligned
  <2>6. TypeOK'
    BY <1>1, <2>1, <2>3 DEF IInv, TypeOK
  <2>7. Stages' /\ WritesTheFront' /\ OnlyCloseIsSilent'
    BY <1>1, <2>3 DEF IInv, Stages, WritesTheFront, OnlyCloseIsSilent
  <2> QED
    BY <2>5, <2>6, <2>7 DEF IInv
<1> QED
  BY <1>2, <1>3

LEMMA WriteFailsKeeps ==
  ASSUME IInv, WriteFails PROVE IInv'
<1>1. /\ out = FALSE /\ inflight' = None /\ broken' = TRUE
      /\ UNCHANGED << address, op, open, done, told, cut, queue, out, posted,
                      closing, before, asked, read, sent >>
  BY DEF WriteFails, stateVars, userVars, IInv, TypeOK
<1>2. TypeOK' /\ Stages' /\ WritesTheFront' /\ OnlyCloseIsSilent'
  BY <1>1 DEF IInv, TypeOK, Stages, WritesTheFront, OnlyCloseIsSilent
<1>3. InOrder'
  BY <1>1 DEF IInv, InOrder, Aligned, Gone
<1> QED
  BY <1>2, <1>3 DEF IInv

LEMMA InitHolds == Init => IInv
<1> SUFFICES ASSUME Init PROVE IInv
  OBVIOUS
<1>1. << >> \in Seq(Messages) /\ << >> \in Seq(Messages \cup {Torn}) /\ Len(<< >>) = 0
  OBVIOUS
<1>2. TypeOK
  <2>1. told \in 0..1 /\ before \in Nat /\ read \in Nat
    BY DEF Init
  <2>2. open \in BOOLEAN /\ done \in BOOLEAN /\ cut \in BOOLEAN
        /\ out \in BOOLEAN /\ broken \in BOOLEAN /\ (open => ~done)
    BY DEF Init
  <2> QED
    BY <1>1, <2>1, <2>2 DEF Init, TypeOK
<1>3. Stages
  BY NamesAssumption DEF Init, Stages, Ops
<1>4. WritesTheFront /\ OnlyCloseIsSilent
  BY DEF Init, WritesTheFront, OnlyCloseIsSilent
<1>5. InOrder
  BY <1>1 DEF Init, InOrder, Aligned, Gone
<1> QED
  BY <1>2, <1>3, <1>4, <1>5 DEF IInv

LEMMA StepKeeps == IInv /\ [Next]_vars => IInv'
<1> SUFFICES ASSUME IInv, [Next]_vars PROVE IInv'
  OBVIOUS
<1>1. CASE UserStep
  BY <1>1, DialKeeps, SendKeeps, CloseKeeps DEF UserStep
<1>2. CASE StrandStep
  BY <1>2, RunSendKeeps, RunCloseKeeps DEF StrandStep
<1>3. CASE DialStep
  <2>1. CASE DialFails
    <3>1. op # None
      BY <2>1, NamesAssumption DEF DialFails
    <3> QED
      BY <2>1, <3>1, FinishKeeps DEF DialFails
  <2> QED
    BY <1>3, <2>1, AdvanceKeeps, UpgradedKeeps DEF DialStep
<1>4. CASE ReadStep
  <2>1. CASE ReadFails
    <3>1. op # None
      BY <2>1, NamesAssumption DEF ReadFails, Ops
    <3> QED
      BY <2>1, <3>1, FinishKeeps DEF ReadFails
  <2> QED
    BY <1>4, <2>1, ReadMessageKeeps DEF ReadStep
<1>5. CASE WriteStep
  BY <1>5, WrittenKeeps, WriteFailsKeeps DEF WriteStep
<1>6. CASE GoesOut
  BY <1>6, GoesOutKeeps
<1>7. CASE UNCHANGED vars
  <2>1. UNCHANGED << address, op, open, done, told, cut, queue, inflight, out, posted,
                     closing, before, asked, broken, read, sent >>
    BY <1>7 DEF vars, stateVars, writeVars, userVars
  <2> QED
    BY <2>1 DEF IInv, TypeOK, Stages, WritesTheFront, OnlyCloseIsSilent, InOrder,
                Aligned, Gone
<1> QED
  BY <1>1, <1>2, <1>3, <1>4, <1>5, <1>6, <1>7 DEF Next

-----------------------------------------------------------------------------
(* The theorems.                                                           *)

\* The invariant the others follow from holds of every connection.
THEOREM Inductive == Spec => []IInv
<1> QED
  BY InitHolds, StepKeeps, PTL DEF Spec

\* Whatever comes together on the strand, every variable has its type and a
\* connection that is over is not open.
THEOREM TypeCorrect == Spec => []TypeOK
<1>1. IInv => TypeOK
  BY DEF IInv
<1> QED
  BY <1>1, Inductive, PTL

\* What a write reads stays at the front of the queue until the connection is
\* over: sends that are queued meanwhile neither move nor overtake it.
THEOREM FrontIsKept == Spec => []WritesTheFront
<1>1. IInv => WritesTheFront
  BY DEF IInv
<1> QED
  BY <1>1, Inductive, PTL

-----------------------------------------------------------------------------
(* A step of the socket is a step of the channel, or none.                 *)

\* The variables of the channel, as KeepsItsPromise reads them off the socket.
ChannelState ==
  IF address = None THEN "idle" ELSE
  IF told # 0 THEN "closed" ELSE
  IF done THEN "ended" ELSE
  IF open THEN "open" ELSE "dialling"
OnWay == inflight # None /\ ~out
LetGo == closing # "no"
ChannelStep == [Channel!Next]_(Channel!vars)

\* Ending a connection, or finding it over, is the channel's end, or nothing.
LEMMA FinishImplements ==
  ASSUME IInv, op # None, Finish,
         UNCHANGED << address, inflight, out, closing, asked, sent, read >>
  PROVE  ChannelStep
<1>1. address # None
  BY DEF IInv, Stages
<1>2. CASE done
  <2>1. UNCHANGED << ChannelState, asked, sent, OnWay, LetGo, read >>
    BY <1>2 DEF Finish, stateVars, ChannelState, OnWay, LetGo
  <2> QED
    BY <2>1 DEF ChannelStep, Channel!vars, ChannelState, OnWay, LetGo
<1>3. CASE ~done
  <2>1. told = 0 /\ told' = 1 /\ done'
    BY <1>3 DEF IInv, Stages, Finish
  <2>2. ChannelState \in {"dialling", "open"} /\ ChannelState' = "closed"
    BY <1>1, <1>3, <2>1 DEF ChannelState
  <2>3. LetGo' = LetGo /\ LetGo \in BOOLEAN
    BY DEF LetGo
  <2>4. Channel!End
    BY <2>2, <2>3 DEF Channel!End, Channel!Closes, ChannelState, LetGo
  <2> QED
    BY <2>4 DEF ChannelStep, Channel!Next
<1> QED
  BY <1>2, <1>3

\* Nothing the channel knows of changes.
LEMMA Stutters ==
  ASSUME UNCHANGED << address, open, done, told, inflight, out, LetGo, asked, sent, read >>
  PROVE  ChannelStep
<1>1. UNCHANGED << ChannelState, asked, sent, OnWay, LetGo, read >>
  BY DEF ChannelState, OnWay, LetGo
<1> QED
  BY <1>1 DEF ChannelStep, Channel!vars, ChannelState, OnWay, LetGo

\* A write that is started puts something on its way.
LEMMA WriteBegins ==
  ASSUME IInv, ~done, ~OnWay, NEW q \in Seq(Messages), Write(q, None, open),
         UNCHANGED << address, open, done, told, LetGo, asked, sent, read >>
  PROVE  ChannelStep
<1>1. inflight' # None => open /\ q # << >>
  BY WriteKeeps DEF IInv, TypeOK
<1>2. out' = FALSE
  BY DEF Write
<1>3. ChannelState' = ChannelState /\ OnWay \in BOOLEAN
  BY DEF ChannelState, OnWay, LetGo
<1>4. CASE inflight' = None
  <2>1. ~OnWay'
    BY <1>4 DEF OnWay
  <2>2. OnWay' = OnWay
    BY <2>1, <1>3 DEF OnWay
  <2> QED
    BY <1>3, <2>2 DEF ChannelStep, Channel!vars, ChannelState, OnWay, LetGo
<1>5. CASE inflight' # None
  <2>1. address # None /\ told = 0 /\ open
    BY <1>1, <1>5, NamesAssumption DEF IInv, Stages, Ops
  <2>2. ChannelState = "open" /\ OnWay' = TRUE
    BY <2>1, <1>2, <1>5 DEF ChannelState, OnWay, LetGo
  <2>3. Channel!Begin
    BY <1>3, <2>2 DEF Channel!Begin, ChannelState, OnWay, LetGo
  <2> QED
    BY <2>3 DEF ChannelStep, Channel!Next
<1> QED
  BY <1>4, <1>5

LEMMA UserImplements ==
  ASSUME IInv, UserStep PROVE ChannelStep
<1>1. ASSUME NEW a \in Addresses, Dial(a) PROVE ChannelStep
  <2>1. /\ UNCHANGED << open, done, told, inflight, out, LetGo, asked, sent, read >>
        /\ address = None /\ address' # None /\ ~done /\ ~open /\ told = 0
    BY <1>1, NamesAssumption
    DEF Dial, LetGo, IInv, Stages, Ops, stateVars, writeVars, userVars
  <2>2. ChannelState = "idle" /\ ChannelState' = "dialling" /\ OnWay' = OnWay
    BY <2>1 DEF ChannelState, OnWay, LetGo
  <2>3. Channel!Dial
    BY <2>1, <2>2 DEF Channel!Dial, ChannelState, OnWay, LetGo
  <2> QED
    BY <2>3 DEF ChannelStep, Channel!Next
<1>2. ASSUME NEW m \in Messages, Send(m) PROVE ChannelStep
  <2>1. /\ UNCHANGED << address, open, done, told, inflight, out, LetGo, sent, read >>
        /\ address # None /\ asked' = Append(asked, m)
    BY <1>2, NamesAssumption DEF Send, LetGo, Held, Addresses, stateVars, writeVars
  <2>2. ChannelState # "idle" /\ ChannelState' = ChannelState /\ OnWay' = OnWay
    BY <2>1 DEF ChannelState, OnWay, LetGo
  <2>3. Channel!Ask(m)
    BY <2>1, <2>2 DEF Channel!Ask, ChannelState, OnWay, LetGo
  <2> QED
    BY <2>3 DEF ChannelStep, Channel!Next
<1>3. CASE Close
  <2>1. /\ UNCHANGED << address, open, done, told, inflight, out, asked, sent, read >>
        /\ ~LetGo /\ LetGo'
    BY <1>3 DEF Close, LetGo, stateVars, writeVars
  <2>2. ChannelState' = ChannelState /\ OnWay' = OnWay
    BY <2>1 DEF ChannelState, OnWay
  <2>3. Channel!LetGo
    BY <2>1, <2>2 DEF Channel!LetGo, ChannelState, OnWay, LetGo
  <2> QED
    BY <2>3 DEF ChannelStep, Channel!Next
<1> QED
  BY <1>1, <1>2, <1>3 DEF UserStep

LEMMA StrandImplements ==
  ASSUME IInv, StrandStep PROVE ChannelStep
<1>1. CASE RunSend
  <2> DEFINE q == Append(queue, Head(posted))
  <2>1. UNCHANGED << address, open, done, told, LetGo, asked, sent, read >>
    BY <1>1 DEF RunSend, LetGo, stateVars
  <2>2. q \in Seq(Messages)
    BY <1>1, TailIs, AppendIs DEF RunSend, IInv, TypeOK
  <2>3. CASE done
    BY <2>1, <2>3, <1>1, Stutters DEF RunSend, writeVars
  <2>4. CASE ~done /\ inflight # None
    <3>1. Write(q, inflight, open)
      BY <1>1, <2>4 DEF RunSend
    <3> HIDE DEF q
    <3>2. inflight' = inflight /\ out' = out
      BY <3>1, <2>4 DEF Write, MayWrite, IInv, TypeOK
    <3> QED
      BY <2>1, <3>2, Stutters
  <2>5. CASE ~done /\ inflight = None
    <3>1. Write(q, None, open) /\ ~OnWay
      BY <1>1, <2>5 DEF RunSend, OnWay
    <3> HIDE DEF q
    <3> QED
      BY <2>1, <2>2, <2>5, <3>1, WriteBegins
  <2> QED
    BY <2>3, <2>4, <2>5
<1>2. CASE RunClose
  <2>1. /\ UNCHANGED << address, inflight, out, asked, sent, read >>
        /\ address # None /\ LetGo /\ LetGo'
    BY <1>2 DEF RunClose, LetGo, IInv, Stages
  <2>2. CASE done
    <3>1. UNCHANGED << open, done, told >>
      BY <1>2, <2>2 DEF RunClose, CloseNow, stateVars
    <3>2. LetGo' = LetGo
      BY <2>1 DEF LetGo
    <3> QED
      BY <2>1, <3>1, <3>2, Stutters
  <2>3. CASE ~done
    <3>1. told = 0 /\ told' = 0 /\ done'
      BY <1>2, <2>3 DEF RunClose, CloseNow, IInv, Stages
    <3>2. ChannelState \in {"dialling", "open"} /\ ChannelState' = "ended"
      BY <2>1, <2>3, <3>1 DEF ChannelState
    <3>3. Channel!End
      BY <2>1, <3>2 DEF Channel!End, Channel!Closes, ChannelState, LetGo
    <3> QED
      BY <3>3 DEF ChannelStep, Channel!Next
  <2> QED
    BY <2>2, <2>3
<1> QED
  BY <1>1, <1>2 DEF StrandStep

LEMMA UpgradedImplements ==
  ASSUME IInv, Upgraded PROVE ChannelStep
<1>1. /\ op = "upgrade" /\ address # None /\ ~open
      /\ UNCHANGED << address, asked, sent, read >>
  BY NamesAssumption DEF IInv, Stages, Upgraded, Ops
<1>2. CASE UNCHANGED << open, done, told, inflight, out, closing >>
  BY <1>1, <1>2, Stutters DEF LetGo
<1>3. CASE /\ ~done /\ open' = TRUE /\ Write(queue, inflight, TRUE)
           /\ UNCHANGED << done, told, closing >>
  <2>1. told = 0 /\ inflight = None
    BY <1>1, <1>3 DEF IInv, Stages
  <2>2. ChannelState = "dialling" /\ ChannelState' = "open"
    BY <1>1, <1>3, <2>1 DEF ChannelState
  <2>3. ~OnWay /\ OnWay' \in BOOLEAN
    BY <2>1 DEF OnWay
  <2>4. Channel!Open
    BY <1>1, <1>3, <2>2, <2>3 DEF Channel!Open, ChannelState, OnWay, LetGo
  <2> QED
    BY <2>4 DEF ChannelStep, Channel!Next
<1>4. CASE /\ ~done /\ done' = TRUE /\ ClosesInside
           /\ UNCHANGED << open, told, inflight, out >>
  <2>1. told = 0
    BY <1>4 DEF IInv, Stages
  <2>2. ChannelState = "dialling" /\ ChannelState' = "ended"
    BY <1>1, <1>4, <2>1 DEF ChannelState
  <2>3. Channel!End
    BY <1>1, <1>4, <2>2
    DEF Channel!End, Channel!Closes, ClosesInside, ChannelState, LetGo
  <2> QED
    BY <2>3 DEF ChannelStep, Channel!Next
<1> QED
  BY <1>2, <1>3, <1>4 DEF Upgraded, MayOpen, WriteFirst, stateVars, writeVars

LEMMA ReadImplements ==
  ASSUME IInv, ReadStep PROVE ChannelStep
<1>1. op = "read" /\ op # None /\ address # None
  BY NamesAssumption DEF ReadStep, ReadMessage, ReadFails, IInv, Stages, Ops
<1>2. CASE ReadFails
  BY <1>1, <1>2, FinishImplements DEF ReadFails, userVars
<1>3. CASE ReadMessage /\ done
  BY <1>3, Stutters DEF ReadMessage, stateVars, LetGo
<1>4. CASE ReadMessage /\ ~done
  <2>1. told = 0 /\ open /\ told' = 0 /\ read' = read + 1
        /\ UNCHANGED << address, inflight, out, asked, sent >>
    BY <1>1, <1>4 DEF ReadMessage, CloseNow, IInv, Stages, stateVars
  <2>2. (open' /\ ~done') \/ done'
    BY <1>4, <2>1 DEF ReadMessage, CloseNow, stateVars
  <2>3. ChannelState = "open" /\ ChannelState' \in {"open", "ended"}
    BY <1>1, <1>4, <2>1, <2>2 DEF ChannelState
  <2>4. LetGo' \in BOOLEAN /\ (LetGo => LetGo') /\ (done' => LetGo')
    BY <1>4 DEF ReadMessage, ClosesInside, LetGo, stateVars
  <2>5. Channel!Closes
    BY <1>4, <2>1, <2>2, <2>3, <2>4 DEF Channel!Closes, ChannelState, LetGo
  <2>6. Channel!HandOn
    BY <2>1, <2>3, <2>5 DEF Channel!HandOn, ChannelState, OnWay, LetGo
  <2> QED
    BY <2>6 DEF ChannelStep, Channel!Next
<1> QED
  BY <1>2, <1>3, <1>4 DEF ReadStep

LEMMA WriteImplements ==
  ASSUME IInv, WriteStep PROVE ChannelStep
<1>1. UNCHANGED << address, open, done, told, LetGo, asked, sent, read >>
  BY DEF WriteStep, Written, WriteFails, LetGo, stateVars, userVars
<1>2. ChannelState' = ChannelState
  BY <1>1 DEF ChannelState
<1>3. CASE Written /\ done
  <2>1. UNCHANGED << asked, sent, read, ChannelState, OnWay, LetGo >>
    BY <1>1, <1>2, <1>3 DEF Written, OnWay
  <2> QED
    BY <2>1 DEF ChannelStep, Channel!vars, ChannelState, OnWay, LetGo
<1>4. CASE Written /\ ~done
  <2>1. queue # << >> /\ Write(Tail(queue), None, open) /\ ~OnWay
    BY <1>4 DEF Written, IInv, WritesTheFront, OnWay
  <2>2. Tail(queue) \in Seq(Messages)
    BY <2>1, TailIs DEF IInv, TypeOK
  <2> QED
    BY <1>1, <1>4, <2>1, <2>2, WriteBegins
<1>5. CASE WriteFails
  <2>1. OnWay /\ ~OnWay'
    BY <1>5 DEF WriteFails, OnWay
  <2>2. Channel!Lose
    BY <1>1, <1>2, <2>1 DEF Channel!Lose, ChannelState, OnWay, LetGo
  <2> QED
    BY <2>2 DEF ChannelStep, Channel!Next
<1> QED
  BY <1>3, <1>4, <1>5 DEF WriteStep

LEMMA GoesOutImplements ==
  ASSUME IInv, GoesOut PROVE ChannelStep
<1>1. /\ inflight # None /\ out = FALSE /\ out' = TRUE /\ OnWay /\ ~OnWay'
      /\ UNCHANGED << address, open, done, told, LetGo, asked, read >>
  BY DEF GoesOut, OnWay, LetGo, stateVars, userVars, IInv, TypeOK
<1>2. ChannelState' = ChannelState
  BY <1>1 DEF ChannelState
<1>3. CASE done
  <2>1. PICK x \in Messages \cup {Torn} : sent' = Append(sent, x)
    <3>1. queue # << >> => Head(queue) \in Messages
      BY TailIs DEF IInv, TypeOK
    <3> QED
      BY <1>1, <3>1 DEF GoesOut, IInv, TypeOK
  <2>2. ChannelState \in {"closed", "ended"}
    BY <1>1, <1>3 DEF ChannelState, IInv, Stages
  <2>3. Channel!GoesOut(x)
    BY <1>1, <1>2, <2>1, <2>2
    DEF Channel!GoesOut, Channel!Over, ChannelState, OnWay, LetGo
  <2> QED
    BY <2>1, <2>3 DEF ChannelStep, Channel!Next
<1>4. CASE ~done
  <2>1. queue # << >> /\ sent' = Append(sent, Head(queue)) /\ Gone = Len(sent)
    BY <1>1, <1>4 DEF GoesOut, IInv, WritesTheFront, Gone
  <2>2. Len(sent) < Len(asked) /\ Head(queue) = asked[Len(sent) + 1]
    BY <1>4, <2>1, PopAligns DEF IInv, TypeOK, InOrder
  <2>3. Head(queue) \in Messages
    BY <2>1, TailIs DEF IInv, TypeOK
  <2>4. Channel!GoesOut(Head(queue))
    BY <1>1, <1>2, <2>1, <2>2
    DEF Channel!GoesOut, ChannelState, OnWay, LetGo
  <2> QED
    BY <2>3, <2>4 DEF ChannelStep, Channel!Next
<1> QED
  BY <1>3, <1>4

\* Every step of the socket is one of the channel, or none.
LEMMA StepImplements == IInv /\ [Next]_vars => ChannelStep
<1> SUFFICES ASSUME IInv, [Next]_vars PROVE ChannelStep
  OBVIOUS
<1>1. CASE DialStep
  <2>1. CASE Advance
    BY <2>1, Stutters DEF Advance, LetGo, stateVars, writeVars, userVars
  <2>2. CASE DialFails
    <3>1. op # None
      BY <2>2, NamesAssumption DEF DialFails
    <3> QED
      BY <2>2, <3>1, FinishImplements DEF DialFails, userVars
  <2> QED
    BY <1>1, <2>1, <2>2, UpgradedImplements DEF DialStep
<1>2. CASE UNCHANGED vars
  BY <1>2, Stutters DEF vars, LetGo, stateVars, writeVars, userVars
<1> QED
  BY <1>1, <1>2, UserImplements, StrandImplements, ReadImplements,
     WriteImplements, GoesOutImplements
  DEF Next

LEMMA InitImplements == Init => Channel!Init
BY DEF Init, Channel!Init

\* Whatever the interleaving of sends, completions and a close: what goes out
\* is what was asked for, in that order, once, nothing left out, until the
\* connection is over; messages are handed on only while it is open; and it is
\* over once, which its user is told unless the user closed it
\* (link_socket.h:72-93).
THEOREM Implements == Spec => KeepsItsPromise
<1>1. IInv /\ [Next]_vars => [Channel!Next]_(Channel!vars)
  BY StepImplements DEF ChannelStep
<1> QED
  BY <1>1, InitImplements, Inductive, PTL DEF Spec, KeepsItsPromise, Channel!Spec
=============================================================================
