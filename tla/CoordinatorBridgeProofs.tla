----------------------- MODULE CoordinatorBridgeProofs -----------------------
(***************************************************************************)
(* Proofs about CoordinatorBridge, for every number of boards, attachments *)
(* and requests and every length of what is on the wire: only the mounted  *)
(* attachment acts on the page, what waits can still settle, and the       *)
(* coordinator knows the browser runtimes the page has.                    *)
(***************************************************************************)
EXTENDS CoordinatorBridge, Queues

-----------------------------------------------------------------------------
(* The inductive invariant.                                                *)

\* The types the properties below rest on.
Types ==
  /\ effect \in Attachments \cup {None}
  /\ closed \in SUBSET Attachments
  /\ socket \in [Attachments -> SocketStates]
  /\ wsRef \in Attachments \cup {None}
  /\ request \in [Requests -> RequestStates]
  /\ via \in [Requests -> Attachments \cup {None}]
  /\ ctx \in Boards \cup {None}
  /\ session \in [Attachments -> (SUBSET Ids) \cup {None}]
  /\ up \in [Attachments -> Seq(Up)]

\* Attachments are made for boards that were opened, and runs asked for over
\* attachments.
MadeForBoards ==
  /\ view \in Boards \cup {None}
  /\ board \in [Attachments -> Boards \cup {None}]
  /\ \A run \in runs : run.asked \in Attachments

\* What is not closed intentionally is mounted, and so is what wsRef holds,
\* which is the mounted attachment's socket from when it is made.
Mounted ==
  /\ \A e \in Attachments : e \notin closed => e = effect
  /\ wsRef # None => wsRef = effect
  /\ effect # None /\ socket[effect] \in {"connecting", "open"}
       => wsRef = effect

\* The last registration sent over the open bridge, or when none is on its way
\* the one the coordinator knows, names the browser runtimes the page has.
IsConnect(m) == m.type = "connect"
KnownOver(e, ids) ==
  \/ /\ \A i \in 1..Len(up[e]) : ~IsConnect(up[e][i])
     /\ session[e] = ids
  \/ \E i \in 1..Len(up[e]) :
       /\ IsConnect(up[e][i]) /\ up[e][i].ids = ids
       /\ \A j \in 1..Len(up[e]) : j > i => ~IsConnect(up[e][j])
Registered ==
  \A e \in Attachments :
    e = effect /\ Open(e) => KnownOver(e, RegisteredIds(ctx))

IInv == Types /\ Mounted /\ PendingCanSettle /\ Registered

-----------------------------------------------------------------------------
(* Registrations.                                                          *)

\* The ids a registration carries are ids of browser runtimes.
LEMMA IdsAre ==
  ASSUME NEW c \in Boards \cup {None}
  PROVE  RegisteredIds(c) \in SUBSET Ids /\ Connect(c) \in Up
<1>1. RegisteredIds(c) \in SUBSET Ids
  BY DEF RegisteredIds, Ids
<1> QED
  BY <1>1 DEF Connect, Up

\* A message that is no registration changes nothing about what will be known.
LEMMA SendKeeps ==
  ASSUME NEW e \in Attachments, up[e] \in Seq(Up), NEW m \in Up, NEW ids,
         ~IsConnect(m), up'[e] = Append(up[e], m), session'[e] = session[e],
         KnownOver(e, ids)
  PROVE  KnownOver(e, ids)'
<1> DEFINE n == Len(up[e])
<1>1. /\ n \in Nat /\ Len(up'[e]) = n + 1
      /\ \A i \in 1..n : up'[e][i] = up[e][i]
      /\ up'[e][n + 1] = m
  BY AppendIs
<1>2. \A i \in 1..(n + 1) : i = n + 1 \/ i \in 1..n
  BY <1>1
<1>3. 1..n \subseteq 1..(n + 1)
  BY <1>1
<1> HIDE DEF n
<1>4. CASE (\A i \in 1..n : ~IsConnect(up[e][i])) /\ session[e] = ids
  <2>1. \A i \in 1..(n + 1) : ~IsConnect(up'[e][i])
    BY <1>1, <1>2, <1>4
  <2> QED
    BY <2>1, <1>1, <1>4 DEF KnownOver, IsConnect
<1>5. ASSUME NEW i \in 1..n, IsConnect(up[e][i]), up[e][i].ids = ids,
             \A j \in 1..n : j > i => ~IsConnect(up[e][j])
      PROVE  KnownOver(e, ids)'
  <2>1. i \in 1..(n + 1) /\ IsConnect(up'[e][i]) /\ up'[e][i].ids = ids
    BY <1>1, <1>3, <1>5
  <2>2. \A j \in 1..(n + 1) : j > i => ~IsConnect(up'[e][j])
    BY <1>1, <1>2, <1>5
  <2> QED
    BY <2>1, <2>2, <1>1 DEF KnownOver, IsConnect
<1> QED
  BY <1>4, <1>5 DEF KnownOver, n

\* A registration that is sent is what will be known.
LEMMA RegisterMakes ==
  ASSUME NEW e \in Attachments, up[e] \in Seq(Up), NEW c \in Boards \cup {None},
         up'[e] = Append(up[e], Connect(c))
  PROVE  KnownOver(e, RegisteredIds(c))'
<1>1. Connect(c) \in Up /\ IsConnect(Connect(c))
      /\ Connect(c).ids = RegisteredIds(c)
  BY IdsAre DEF Connect, IsConnect
<1>2. /\ Len(up[e]) \in Nat /\ Len(up'[e]) = Len(up[e]) + 1
      /\ up'[e][Len(up[e]) + 1] = Connect(c)
  BY <1>1, AppendIs
<1>3. /\ Len(up[e]) + 1 \in 1..Len(up'[e])
      /\ \A j \in 1..Len(up'[e]) : ~(j > Len(up[e]) + 1)
  BY <1>2
<1>4. RegisteredIds(c)' = RegisteredIds(c)
  BY DEF RegisteredIds
<1> QED
  BY <1>1, <1>2, <1>3, <1>4 DEF KnownOver, IsConnect

\* What the coordinator takes was the last registration, or there is a later
\* one, or it was none.
LEMMA HearKeeps ==
  ASSUME NEW e \in Attachments, up[e] \in Seq(Up), up[e] # << >>, NEW ids,
         up'[e] = Tail(up[e]), KnownOver(e, ids),
         session'[e] = IF IsConnect(Head(up[e])) THEN Head(up[e]).ids
                       ELSE session[e]
  PROVE  KnownOver(e, ids)'
<1> DEFINE n == Len(up[e])
<1>1. /\ n \in Nat \ {0} /\ Len(up'[e]) = n - 1
      /\ \A i \in 1..(n - 1) : i + 1 \in 1..n /\ up'[e][i] = up[e][i + 1]
      /\ Head(up[e]) = up[e][1]
  BY TailIs
<1>2. 1 \in 1..n
  BY <1>1
<1> HIDE DEF n
<1>3. CASE (\A i \in 1..n : ~IsConnect(up[e][i])) /\ session[e] = ids
  <2>1. \A i \in 1..(n - 1) : ~IsConnect(up'[e][i])
    BY <1>1, <1>3
  <2>2. session'[e] = ids
    BY <1>1, <1>2, <1>3
  <2> QED
    BY <2>1, <2>2, <1>1 DEF KnownOver, IsConnect
<1>4. ASSUME NEW i \in 1..n, IsConnect(up[e][i]), up[e][i].ids = ids,
             \A j \in 1..n : j > i => ~IsConnect(up[e][j])
      PROVE  KnownOver(e, ids)'
  <2>1. CASE i = 1
    <3>1. session'[e] = ids
      BY <2>1, <1>1, <1>4
    <3>2. \A j \in 1..(n - 1) : ~IsConnect(up'[e][j])
      BY <2>1, <1>1, <1>4
    <3> QED
      BY <3>1, <3>2, <1>1 DEF KnownOver, IsConnect
  <2>2. CASE i # 1
    <3>1. i - 1 \in 1..(n - 1) /\ up'[e][i - 1] = up[e][i]
      BY <2>2, <1>1
    <3>2. \A j \in 1..(n - 1) : j > i - 1 => ~IsConnect(up'[e][j])
      BY <1>1, <1>4
    <3> QED
      BY <3>1, <3>2, <1>1, <1>4 DEF KnownOver, IsConnect
  <2> QED
    BY <2>1, <2>2
<1> QED
  BY <1>3, <1>4 DEF KnownOver, n

\* What is known over a bridge depends on its registrations alone.
LEMMA QuietKeeps ==
  ASSUME NEW e \in Attachments, NEW ids, up'[e] = up[e],
         session'[e] = session[e], KnownOver(e, ids)
  PROVE  KnownOver(e, ids)'
BY DEF KnownOver, IsConnect

-----------------------------------------------------------------------------
(* A part of the invariant outlives a step that leaves its variables alone. *)

\* The closures of the effect and their sockets are as they were.
LEMMA MountedKeeps ==
  ASSUME Mounted, UNCHANGED <<effect, closed, socket, wsRef>>
  PROVE  Mounted'
BY DEF Mounted

\* Requests wait as they did, on sockets that are no further than closing.
LEMMA PendingKeeps ==
  ASSUME Types, PendingCanSettle, UNCHANGED <<request, via>>,
         \A d \in Attachments : socket[d] \in {"open", "closing"} =>
                                  socket'[d] \in {"open", "closing"}
  PROVE  PendingCanSettle'
BY DEF Types, PendingCanSettle

\* Messages from the coordinator, and what they change on the page, concern
\* none of the invariant's variables.
LEMMA IdleKeeps ==
  ASSUME IInv, UNCHANGED <<effect, closed, socket, wsRef, request, via, ctx,
                           session, up>>
  PROVE  IInv'
<1>1. Types'
  BY DEF IInv, Types
<1>2. Mounted'
  BY MountedKeeps DEF IInv
<1>3. PendingCanSettle'
  BY PendingKeeps DEF IInv
<1>4. Registered'
  BY DEF IInv, Registered, Open, KnownOver, IsConnect, RegisteredIds
<1> QED
  BY <1>1, <1>2, <1>3, <1>4 DEF IInv

\* The page sends something that is no registration.
LEMMA SendingKeeps ==
  ASSUME IInv, NEW e \in Attachments, NEW m \in Up, ~IsConnect(m),
         up' = [up EXCEPT ![e] = Append(@, m)],
         UNCHANGED <<effect, closed, socket, wsRef, ctx, session>>
  PROVE  up' \in [Attachments -> Seq(Up)] /\ Mounted' /\ Registered'
<1>1. \A d \in Attachments : up[d] \in Seq(Up)
  BY DEF IInv, Types
<1>2. up' \in [Attachments -> Seq(Up)]
  <2>1. Append(up[e], m) \in Seq(Up)
    BY <1>1, AppendIs
  <2> QED
    BY <2>1 DEF IInv, Types
<1>3. Mounted'
  BY MountedKeeps DEF IInv
<1>4. ASSUME NEW d \in Attachments, d = effect', Open(d)'
      PROVE  KnownOver(d, RegisteredIds(ctx))'
  <2>1. KnownOver(d, RegisteredIds(ctx))
    BY <1>4 DEF IInv, Registered, Open
  <2>2. RegisteredIds(ctx)' = RegisteredIds(ctx)
    BY DEF RegisteredIds
  <2>3. CASE d = e
    <3>1. up'[e] = Append(up[e], m)
      BY DEF IInv, Types
    <3> QED
      BY <1>1, <2>1, <2>2, <2>3, <3>1, SendKeeps DEF KnownOver
  <2>4. CASE d # e
    <3>1. up'[d] = up[d]
      BY <2>4 DEF IInv, Types
    <3> QED
      BY <2>1, <2>2, <3>1, QuietKeeps DEF KnownOver
  <2> QED
    BY <2>3, <2>4
<1>5. Registered'
  BY <1>4 DEF Registered
<1> QED
  BY <1>2, <1>3, <1>5

\* The coordinator takes a message, and knows what a registration says.
LEMMA HearingKeeps ==
  ASSUME IInv, NEW e \in Attachments, up[e] # << >>,
         up' = [up EXCEPT ![e] = Tail(@)],
         session' = IF IsConnect(Head(up[e]))
                    THEN [session EXCEPT ![e] = Head(up[e]).ids] ELSE session,
         UNCHANGED <<effect, closed, socket, wsRef, request, via, ctx>>
  PROVE  IInv'
<1>1. \A d \in Attachments : up[d] \in Seq(Up)
  BY DEF IInv, Types
<1>2. Tail(up[e]) \in Seq(Up) /\ Head(up[e]) \in Up
  BY <1>1, TailIs
<1>3. Types'
  <2>1. IsConnect(Head(up[e])) => Head(up[e]).ids \in SUBSET Ids
    BY <1>2 DEF Up, IsConnect
  <2> QED
    BY <1>2, <2>1 DEF IInv, Types
<1>4. Mounted' /\ PendingCanSettle'
  BY MountedKeeps, PendingKeeps DEF IInv
<1>5. ASSUME NEW d \in Attachments, d = effect', Open(d)'
      PROVE  KnownOver(d, RegisteredIds(ctx))'
  <2>1. KnownOver(d, RegisteredIds(ctx))
    BY <1>5 DEF IInv, Registered, Open
  <2>2. RegisteredIds(ctx)' = RegisteredIds(ctx)
    BY DEF RegisteredIds
  <2>3. CASE d = e
    <3>1. /\ up'[e] = Tail(up[e])
          /\ session'[e] = IF IsConnect(Head(up[e])) THEN Head(up[e]).ids
                           ELSE session[e]
      BY DEF IInv, Types
    <3>2. \A ids : KnownOver(e, ids) => KnownOver(e, ids)'
      BY <1>1, <3>1, HearKeeps
    <3> QED
      BY <2>1, <2>2, <2>3, <3>2
  <2>4. CASE d # e
    <3>1. up'[d] = up[d] /\ session'[d] = session[d]
      BY <2>4 DEF IInv, Types
    <3>2. \A ids : KnownOver(d, ids) => KnownOver(d, ids)'
      BY <3>1, QuietKeeps
    <3> QED
      BY <2>1, <2>2, <3>2
  <2> QED
    BY <2>3, <2>4
<1>6. Registered'
  BY <1>5 DEF Registered
<1> QED
  BY <1>3, <1>4, <1>6 DEF IInv

-----------------------------------------------------------------------------
(* The connection effect.                                                  *)

\* A commit mounts a new attachment, whose socket is not open yet.
LEMMA RemountKeeps ==
  ASSUME IInv, NEW b \in Boards \cup {None}, NEW e \in Attachments,
         Remount(b, e), UNCHANGED <<request, via, ctx>>
  PROVE  IInv'
<1> USE BoardsAssumption
<1>1. e # None /\ socket[e] = "closed" /\ e # effect
  BY DEF Remount, Free
<1>2. /\ effect' = e /\ wsRef' = None /\ closed' = TornDown \ {e}
      /\ \A d \in Attachments :
           socket'[d] = IF d = e THEN "ticket"
                        ELSE IF d = effect THEN Shut(d) ELSE socket[d]
  BY DEF Remount, Cleanup
<1>3. \A d \in Attachments :
        /\ socket[d] \in SocketStates
        /\ Shut(d) \in SocketStates
        /\ Shut(d) = IF socket[d] = "open" THEN "closing" ELSE socket[d]
  BY DEF IInv, Types, Shut, SocketStates, Open
<1>4. Types'
  <2>1. socket' \in [Attachments -> SocketStates]
    BY <1>3 DEF Remount, SocketStates
  <2>2. closed' \in SUBSET Attachments
    BY <1>2 DEF TornDown, IInv, Types
  <2>3. /\ session' \in [Attachments -> (SUBSET Ids) \cup {None}]
        /\ up' \in [Attachments -> Seq(Up)]
    BY DEF Remount, IInv, Types
  <2> QED
    BY <1>2, <2>1, <2>2, <2>3 DEF IInv, Types
<1>5. Mounted'
  <2>1. \A d \in Attachments : d \notin closed' => d = e
    BY <1>2 DEF IInv, Mounted, TornDown
  <2> QED
    BY <1>1, <1>2, <2>1 DEF Mounted
<1>6. PendingCanSettle'
  <2>1. \A d \in Attachments : socket[d] \in {"open", "closing"} =>
                                 socket'[d] \in {"open", "closing"}
    BY <1>1, <1>2, <1>3
  <2> QED
    BY <2>1, PendingKeeps DEF IInv
<1>7. Registered'
  BY <1>2 DEF Registered, Open
<1> QED
  BY <1>4, <1>5, <1>6, <1>7 DEF IInv

\* A commit takes the mounted attachment down and mounts none.
LEMMA UnmountKeeps ==
  ASSUME IInv, Unmount, UNCHANGED <<request, via, ctx>>
  PROVE  IInv'
<1> USE BoardsAssumption
<1>1. /\ effect' = None /\ wsRef' = None /\ closed' = TornDown
      /\ \A d \in Attachments :
           socket'[d] = IF d = effect THEN Shut(d) ELSE socket[d]
  BY DEF Unmount, Cleanup
<1>2. \A d \in Attachments :
        /\ socket[d] \in SocketStates
        /\ Shut(d) \in SocketStates
        /\ Shut(d) = IF socket[d] = "open" THEN "closing" ELSE socket[d]
  BY DEF IInv, Types, Shut, SocketStates, Open
<1>3. Types'
  <2>1. socket' \in [Attachments -> SocketStates]
    BY <1>2 DEF Unmount
  <2>2. closed' \in SUBSET Attachments
    BY <1>1 DEF TornDown, IInv, Types
  <2> QED
    BY <1>1, <2>1, <2>2 DEF IInv, Types, Unmount, sessionVars
<1>4. Mounted'
  BY <1>1 DEF IInv, Mounted, TornDown
<1>5. PendingCanSettle'
  <2>1. \A d \in Attachments : socket[d] \in {"open", "closing"} =>
                                 socket'[d] \in {"open", "closing"}
    BY <1>1, <1>2
  <2> QED
    BY <2>1, PendingKeeps DEF IInv
<1>6. Registered'
  BY <1>1 DEF Registered
<1> QED
  BY <1>3, <1>4, <1>5, <1>6 DEF IInv

\* A ticket comes: only what is not torn down takes wsRef.
LEMMA TicketKeeps ==
  ASSUME IInv, NEW e \in Attachments, TicketComes(e) PROVE IInv'
<1> USE BoardsAssumption
<1>1. /\ socket[e] = "ticket"
      /\ \A d \in Attachments : d # e => socket'[d] = socket[d]
      /\ UNCHANGED <<effect, closed, request, via, ctx, session, up>>
  BY DEF TicketComes, IInv, Types, requestVars, contextVars, hydrationVars,
     sessionVars
<1>2. \/ e \notin closed /\ socket'[e] = "connecting" /\ wsRef' = e
      \/ socket'[e] = "closed" /\ wsRef' = wsRef
  BY DEF TicketComes, MayStart, IInv, Types
<1>3. Types'
  <2>1. socket' \in [Attachments -> SocketStates]
    BY DEF TicketComes, IInv, Types, SocketStates
  <2> QED
    BY <1>1, <1>2, <2>1 DEF IInv, Types
<1>4. Mounted'
  BY <1>1, <1>2 DEF IInv, Mounted, Types
<1>5. PendingCanSettle'
  <2>1. \A d \in Attachments : socket[d] \in {"open", "closing"} =>
                                 socket'[d] \in {"open", "closing"}
    BY <1>1
  <2> QED
    BY <1>1, <2>1, PendingKeeps DEF IInv
<1>6. Registered'
  <2>1. ASSUME NEW d \in Attachments, d = effect', Open(d)'
        PROVE  KnownOver(d, RegisteredIds(ctx))'
    <3>1. d # e /\ Open(d)
      BY <1>1, <1>2, <2>1 DEF Open
    <3> QED
      BY <1>1, <2>1, <3>1
         DEF IInv, Registered, KnownOver, IsConnect, RegisteredIds
  <2> QED
    BY <2>1 DEF Registered
<1> QED
  BY <1>3, <1>4, <1>5, <1>6 DEF IInv

\* A socket opens: what is mounted registers, and what is not gives up.
LEMMA OpeningKeeps ==
  ASSUME IInv, NEW e \in Attachments, SocketOpens(e) PROVE IInv'
<1> USE BoardsAssumption
<1>1. /\ socket[e] = "connecting"
      /\ \A d \in Attachments : d # e => socket'[d] = socket[d]
      /\ \A d \in Attachments : d # e => up'[d] = up[d]
      /\ UNCHANGED <<effect, closed, wsRef, request, via, ctx, session>>
  BY DEF SocketOpens, IInv, Types, requestVars, contextVars, hydrationVars,
     sessionVars
<1>2. \/ e \in closed /\ socket'[e] = "closing" /\ up' = up
      \/ /\ e \notin closed /\ socket'[e] = "open"
         /\ up'[e] = Append(up[e], Connect(ctx))
  BY DEF SocketOpens, GivesUp, IInv, Types
<1>3. up[e] \in Seq(Up) /\ ctx \in Boards \cup {None}
  BY DEF IInv, Types
<1>4. Types'
  <2>1. socket' \in [Attachments -> SocketStates]
    BY DEF SocketOpens, IInv, Types, SocketStates
  <2>2. Append(up[e], Connect(ctx)) \in Seq(Up)
    BY <1>3, IdsAre, AppendIs
  <2>3. up' \in [Attachments -> Seq(Up)]
    BY <2>2 DEF SocketOpens, IInv, Types
  <2> QED
    BY <1>1, <2>1, <2>3 DEF IInv, Types
<1>5. Mounted'
  BY <1>1, <1>2 DEF IInv, Mounted, Types
<1>6. PendingCanSettle'
  <2>1. \A d \in Attachments : socket[d] \in {"open", "closing"} =>
                                 socket'[d] \in {"open", "closing"}
    BY <1>1
  <2> QED
    BY <1>1, <2>1, PendingKeeps DEF IInv
<1>7. Registered'
  <2>1. ASSUME NEW d \in Attachments, d = effect', Open(d)'
        PROVE  KnownOver(d, RegisteredIds(ctx))'
    <3>1. CASE d = e
      <4>1. up'[e] = Append(up[e], Connect(ctx))
        BY <1>2, <2>1, <3>1 DEF Open
      <4>2. PICK c \in Boards \cup {None} : c = ctx
        BY <1>3
      <4>3. KnownOver(e, RegisteredIds(c))'
        BY <1>3, <4>1, <4>2, RegisterMakes
      <4>4. RegisteredIds(c)' = RegisteredIds(ctx)'
        BY <1>1, <4>2 DEF RegisteredIds
      <4> QED
        BY <3>1, <4>3, <4>4
    <3>2. CASE d # e
      BY <1>1, <2>1, <3>2
         DEF IInv, Registered, Open, KnownOver, IsConnect, RegisteredIds
    <3> QED
      BY <3>1, <3>2
  <2> QED
    BY <2>1 DEF Registered
<1> QED
  BY <1>4, <1>5, <1>6, <1>7 DEF IInv

\* A socket closes: nothing waits any more.
LEMMA ClosingKeeps ==
  ASSUME IInv, NEW e \in Attachments, NEW code, SocketCloses(e, code)
  PROVE  IInv'
<1> USE BoardsAssumption
<1>1. /\ \A d \in Attachments :
           socket'[d] = IF d = e THEN "closed" ELSE socket[d]
      /\ closed' \in {closed, closed \cup {e}}
      /\ request' = Rejected
      /\ via' = [r \in Requests |-> None]
      /\ wsRef' = IF wsRef = e THEN None ELSE wsRef
      /\ \A d \in Attachments : d # e => up'[d] = up[d]
      /\ \A d \in Attachments : d # e => session'[d] = session[d]
      /\ UNCHANGED <<effect, ctx>>
  BY DEF SocketCloses, IInv, Types, hydrationVars
<1>2. Types'
  <2>1. request' \in [Requests -> RequestStates]
    BY <1>1 DEF Rejected, RequestStates, IInv, Types
  <2>2. socket' \in [Attachments -> SocketStates]
    BY DEF SocketCloses, IInv, Types, SocketStates
  <2>3. /\ up' \in [Attachments -> Seq(Up)]
        /\ session' \in [Attachments -> (SUBSET Ids) \cup {None}]
    BY DEF SocketCloses, IInv, Types
  <2>4. /\ wsRef' \in Attachments \cup {None}
        /\ via' \in [Requests -> Attachments \cup {None}]
        /\ closed' \in SUBSET Attachments
    BY <1>1 DEF IInv, Types
  <2> QED
    BY <1>1, <2>1, <2>2, <2>3, <2>4 DEF IInv, Types
<1>3. Mounted'
  BY <1>1 DEF IInv, Mounted, Types
<1>4. PendingCanSettle'
  BY <1>1 DEF PendingCanSettle, Rejected
<1>5. Registered'
  <2>1. ASSUME NEW d \in Attachments, d = effect', Open(d)'
        PROVE  KnownOver(d, RegisteredIds(ctx))'
    <3>1. d # e /\ Open(d)
      BY <1>1, <2>1 DEF Open
    <3> QED
      BY <1>1, <2>1, <3>1
         DEF IInv, Registered, KnownOver, IsConnect, RegisteredIds
  <2> QED
    BY <2>1 DEF Registered
<1> QED
  BY <1>2, <1>3, <1>4, <1>5 DEF IInv

-----------------------------------------------------------------------------
(* Requests, runs and the board context.                                   *)

\* A panel asks: over the open socket of wsRef, or it is refused at once.
LEMMA AskKeeps ==
  ASSUME IInv, NEW r \in Requests, Ask(r) PROVE IInv'
<1> DEFINE m == [type |-> "request", request |-> r]
<1>1. UNCHANGED <<effect, closed, socket, wsRef, ctx, session>>
  BY DEF Ask, bridgeVars, contextVars, hydrationVars, sessionVars
<1>2. CASE wsRef # None /\ socket[wsRef] = "open"
  <2>1. wsRef \in Attachments /\ m \in Up /\ ~IsConnect(m)
    BY <1>2 DEF IInv, Types, Up, IsConnect
  <2>2. /\ request' = [request EXCEPT ![r] = "pending"]
        /\ via' = [via EXCEPT ![r] = wsRef]
        /\ up' = [up EXCEPT ![wsRef] = Append(@, m)]
    BY <1>2 DEF Ask
  <2>3. up' \in [Attachments -> Seq(Up)] /\ Mounted' /\ Registered'
    <3> HIDE DEF m
    <3> QED
      BY <1>1, <2>1, <2>2, SendingKeeps
  <2>4. Types'
    <3>1. request' \in [Requests -> RequestStates]
      BY <2>2 DEF IInv, Types, RequestStates
    <3>2. via' \in [Requests -> Attachments \cup {None}]
      BY <2>1, <2>2 DEF IInv, Types
    <3> QED
      BY <1>1, <2>3, <3>1, <3>2 DEF IInv, Types
  <2>5. PendingCanSettle'
    BY <1>1, <1>2, <2>2 DEF IInv, Types, PendingCanSettle
  <2> QED
    BY <2>3, <2>4, <2>5 DEF IInv
<1>3. CASE ~(wsRef # None /\ socket[wsRef] = "open")
  <2>1. /\ request' = [request EXCEPT ![r] = "failed"]
        /\ UNCHANGED <<via, up>>
    BY <1>3 DEF Ask
  <2>2. Types'
    BY <1>1, <2>1 DEF IInv, Types, RequestStates
  <2>3. Mounted' /\ Registered'
    BY <1>1, <2>1, MountedKeeps
       DEF IInv, Registered, Open, KnownOver, IsConnect, RegisteredIds
  <2>4. PendingCanSettle'
    BY <1>1, <2>1 DEF IInv, Types, PendingCanSettle
  <2> QED
    BY <2>2, <2>3, <2>4 DEF IInv
<1> QED
  BY <1>2, <1>3

\* A request is answered, or had been settled before.
LEMMA ResponseKeeps ==
  ASSUME IInv, NEW e \in Attachments, TakeResponse(e) PROVE IInv'
<1>1. UNCHANGED <<effect, closed, socket, wsRef, ctx, session, up>>
  BY DEF TakeResponse, bridgeVars, contextVars, hydrationVars, sessionVars
<1>2. PICK r : IF request[r] = "pending"
               THEN /\ request' = [request EXCEPT ![r] = "answered"]
                    /\ via' = [via EXCEPT ![r] = None]
               ELSE UNCHANGED <<request, via>>
  BY DEF TakeResponse, requestVars
<1>3. Types' /\ PendingCanSettle'
  BY <1>1, <1>2 DEF IInv, Types, RequestStates, PendingCanSettle
<1>4. Mounted' /\ Registered'
  BY <1>1, MountedKeeps
     DEF IInv, Registered, Open, KnownOver, IsConnect, RegisteredIds
<1> QED
  BY <1>3, <1>4 DEF IInv

\* A resync or the result of a run is sent: no request of the page's.
LEMMA TellingKeeps ==
  ASSUME IInv, NEW e \in Attachments, NEW type \in {"resync", "result"},
         up' = [up EXCEPT ![e] = Append(@, [type |-> type])],
         UNCHANGED <<effect, closed, socket, wsRef, request, via, ctx,
                     session>>
  PROVE  IInv'
<1> DEFINE m == [type |-> type]
<1>1. m \in Up /\ ~IsConnect(m)
  BY DEF Up, IsConnect
<1>2. up' \in [Attachments -> Seq(Up)] /\ Mounted' /\ Registered'
  <2>1. up' = [up EXCEPT ![e] = Append(@, m)]
    OBVIOUS
  <2> HIDE DEF m
  <2> QED
    BY <1>1, <2>1, SendingKeeps
<1>3. PendingCanSettle'
  BY PendingKeeps DEF IInv
<1> QED
  BY <1>2, <1>3 DEF IInv, Types

\* The board context changes hands, and its browser runtimes are registered
\* again when they are others.
LEMMA ReplacingKeeps ==
  ASSUME IInv, NEW c \in Boards \cup {None}, ctx' = c, Register,
         UNCHANGED <<effect, closed, socket, wsRef, request, via, session>>
  PROVE  IInv'
<1>1. ctx \in Boards \cup {None} /\ ctx' \in Boards \cup {None}
  BY DEF IInv, Types
<1>2. \A d \in Attachments : up[d] \in Seq(Up)
  BY DEF IInv, Types
<1>3. up' \in [Attachments -> Seq(Up)]
  <2>1. CASE /\ RegisteredIds(ctx') # RegisteredIds(ctx)
             /\ wsRef # None /\ socket[wsRef] = "open"
    <3>1. wsRef \in Attachments
      BY <2>1 DEF IInv, Types
    <3>2. Append(up[wsRef], Connect(ctx')) \in Seq(Up)
      BY <1>1, <1>2, <3>1, IdsAre, AppendIs
    <3> QED
      BY <2>1, <3>1, <3>2 DEF Register, IInv, Types
  <2>2. CASE ~(/\ RegisteredIds(ctx') # RegisteredIds(ctx)
               /\ wsRef # None /\ socket[wsRef] = "open")
    BY <2>2 DEF Register, IInv, Types
  <2> QED
    BY <2>1, <2>2
<1>4. Types' /\ Mounted' /\ PendingCanSettle'
  BY <1>1, <1>3, MountedKeeps, PendingKeeps DEF IInv, Types
<1>5. ASSUME NEW d \in Attachments, d = effect', Open(d)'
      PROVE  KnownOver(d, RegisteredIds(ctx))'
  <2>1. d = effect /\ Open(d) /\ KnownOver(d, RegisteredIds(ctx))
    BY <1>5 DEF IInv, Registered, Open
  <2>2. wsRef = d /\ wsRef # None /\ socket[wsRef] = "open"
    BY <2>1, BoardsAssumption DEF IInv, Mounted, Open
  <2>3. CASE RegisteredIds(ctx') # RegisteredIds(ctx)
    <3>1. up'[d] = Append(up[d], Connect(c))
      BY <2>2, <2>3 DEF Register, IInv, Types
    <3>2. KnownOver(d, RegisteredIds(c))'
      BY <1>2, <3>1, RegisterMakes
    <3> QED
      BY <3>2 DEF KnownOver, RegisteredIds
  <2>4. CASE RegisteredIds(ctx') = RegisteredIds(ctx)
    <3>1. up' = up
      BY <2>4 DEF Register
    <3>2. \A ids : KnownOver(d, ids) => KnownOver(d, ids)'
      BY <3>1, QuietKeeps
    <3>3. RegisteredIds(ctx)' = RegisteredIds(ctx)
      BY <2>4 DEF RegisteredIds
    <3> QED
      BY <2>1, <3>2, <3>3
  <2> QED
    BY <2>3, <2>4
<1>6. Registered'
  BY <1>5 DEF Registered
<1> QED
  BY <1>4, <1>6 DEF IInv

-----------------------------------------------------------------------------
(* The first state, and the steps of each of the actors.                   *)

\* No board is open, and every attachment is closed.
LEMMA Initially ==
  ASSUME Init PROVE IInv
<1> USE BoardsAssumption
<1>1. Types
  <2>1. << >> \in Seq(Up)
    OBVIOUS
  <2> QED
    BY <2>1 DEF Init, Types, SocketStates, RequestStates
<1> QED
  BY <1>1 DEF Init, IInv, Mounted, PendingCanSettle, Registered, Open

\* The steps of the person at the page.
LEMMA PersonKeeps ==
  ASSUME IInv, MadeForBoards, Person PROVE IInv'
<1>1. ASSUME NEW b \in Boards \cup {None}, OpenBoard(b) PROVE IInv'
  <2>1. UNCHANGED <<request, via, ctx>>
    BY <1>1 DEF OpenBoard, requestVars, hydrationVars
  <2> QED
    BY <1>1, <2>1, UnmountKeeps, RemountKeeps DEF OpenBoard
<1>2. CASE RefreshToken
  <2>1. UNCHANGED <<request, via, ctx>>
    BY <1>2 DEF RefreshToken, requestVars, hydrationVars
  <2>2. PICK e \in Attachments : Remount(view, e)
    BY <1>2 DEF RefreshToken
  <2> QED
    BY <2>1, <2>2, RemountKeeps DEF MadeForBoards
<1> QED
  BY <1>1, <1>2, AskKeeps DEF Person

\* The callbacks of the page.
LEMMA PageKeeps ==
  ASSUME IInv, MadeForBoards, NEW e \in Attachments, Page(e) PROVE IInv'
<1>1. CASE Reconnect(e)
  <2>1. UNCHANGED <<request, via, ctx>>
    BY <1>1 DEF Reconnect, requestVars, hydrationVars
  <2>2. CASE e \in closed
    <3>1. UNCHANGED <<effect, closed, socket, wsRef, session, up>>
      BY <1>1, <2>2 DEF Reconnect, sessionVars
    <3> QED
      BY <2>1, <3>1, IdleKeeps
  <2>3. CASE e \notin closed
    <3>1. PICK d \in Attachments : Remount(view, d)
      BY <1>1, <2>3 DEF Reconnect
    <3> QED
      BY <2>1, <3>1, RemountKeeps DEF MadeForBoards
  <2> QED
    BY <2>2, <2>3
<1>2. CASE TakeSnapshot(e) \/ TakeProcess(e) \/ LinkFails(e)
  <2>1. UNCHANGED <<effect, closed, socket, wsRef, request, via, ctx, session,
                    up>>
    BY <1>2 DEF TakeSnapshot, Hydrate, TakeProcess, LinkFails, bridgeVars,
       requestVars, contextVars, hydrationVars, sessionVars
  <2> QED
    BY <2>1, IdleKeeps
<1>3. CASE TakeUpdate(e)
  <2>1. UNCHANGED <<effect, closed, socket, wsRef, request, via, ctx, session>>
    BY <1>3 DEF TakeUpdate, Hydrate, bridgeVars, requestVars, contextVars,
       hydrationVars, sessionVars
  <2>2. \/ up' = up
        \/ up' = [up EXCEPT ![e] = Append(@, [type |-> "resync"])]
    BY <1>3 DEF TakeUpdate
  <2> QED
    BY <2>1, <2>2, IdleKeeps, TellingKeeps
<1>4. CASE RemoveRuntimes(e) \/ RestoreBoard(e)
  <2>1. Register /\ UNCHANGED <<effect, closed, socket, wsRef, request, via,
                                session>>
    BY <1>4 DEF RemoveRuntimes, RestoreBoard, bridgeVars, requestVars,
       sessionVars
  <2>2. ctx' \in Boards \cup {None}
    BY <1>4 DEF MadeForBoards, RemoveRuntimes, RestoreBoard
  <2> QED
    BY <2>1, <2>2, ReplacingKeeps
<1> QED
  BY <1>1, <1>2, <1>3, <1>4, TicketKeeps, ResponseKeeps DEF Page, Take, Replace

\* The steps of the coordinator, of the network, and runs that resolve.
LEMMA CoordinatorKeeps ==
  ASSUME IInv, NEW e \in Attachments, Coordinator(e) PROVE IInv'
<1>1. CASE Retell(e) \/ \E id \in Ids : AskRuntime(e, id)
  <2>1. UNCHANGED <<effect, closed, socket, wsRef, request, via, ctx, session,
                    up>>
    BY <1>1 DEF Retell, AskRuntime, bridgeVars, requestVars, contextVars,
       hydrationVars, sessionVars
  <2> QED
    BY <2>1, IdleKeeps
<1>2. CASE Hear(e)
  <2>1. UNCHANGED <<effect, closed, socket, wsRef, request, via, ctx>>
    BY <1>2 DEF Hear, HearConnect, HearResync, HearRequest, HearResult,
       bridgeVars, requestVars, contextVars, hydrationVars
  <2>2. /\ up[e] # << >>
        /\ up' = [up EXCEPT ![e] = Tail(@)]
        /\ session' = IF IsConnect(Head(up[e]))
                      THEN [session EXCEPT ![e] = Head(up[e]).ids] ELSE session
    BY <1>2 DEF Hear, HearConnect, HearResync, HearRequest, HearResult, Heard,
       IsConnect, sessionVars
  <2> QED
    BY <2>1, <2>2, HearingKeeps
<1> QED
  BY <1>1, <1>2 DEF Coordinator

\* The steps of the network: sockets open and close.
LEMMA NetworkKeeps ==
  ASSUME IInv, NEW e \in Attachments, Network(e) PROVE IInv'
BY OpeningKeeps, ClosingKeeps DEF Network, Closes

\* A run resolves, and is told over the socket it was asked on.
LEMMA ResolveKeeps ==
  ASSUME IInv, MadeForBoards, NEW run, Resolve(run) PROVE IInv'
<1>1. UNCHANGED <<effect, closed, socket, wsRef, request, via, ctx, session>>
  BY DEF Resolve, bridgeVars, requestVars, contextVars, hydrationVars,
     sessionVars
<1>2. run.asked \in Attachments
  BY DEF Resolve, MadeForBoards
<1>3. \/ up' = up
      \/ up' = [up EXCEPT ![run.asked] = Append(@, [type |-> "result"])]
  BY DEF Resolve
<1> QED
  BY <1>1, <1>2, <1>3, IdleKeeps, TellingKeeps

-----------------------------------------------------------------------------
(* The theorems.                                                           *)

\* Only commits make attachments, and only the coordinator's input runs.
LEMMA MadeKeeps ==
  ASSUME MadeForBoards, [Next]_vars PROVE MadeForBoards'
<1>1. CASE UNCHANGED <<view, board, runs>>
  BY <1>1 DEF MadeForBoards
<1>2. CASE Person
  <2>1. ASSUME NEW b \in Boards \cup {None}, OpenBoard(b) PROVE MadeForBoards'
    BY <2>1 DEF OpenBoard, Unmount, Remount, MadeForBoards
  <2>2. CASE RefreshToken
    BY <2>2 DEF RefreshToken, Remount, MadeForBoards
  <2>3. ASSUME NEW r \in Requests, Ask(r) PROVE MadeForBoards'
    BY <2>3, <1>1 DEF Ask, bridgeVars
  <2> QED
    BY <1>2, <2>1, <2>2, <2>3 DEF Person
<1>3. ASSUME NEW e \in Attachments, Page(e) PROVE MadeForBoards'
  <2>1. CASE Reconnect(e)
    BY <2>1 DEF Reconnect, Remount, MadeForBoards
  <2>2. CASE TakeProcess(e)
    <3>1. UNCHANGED <<view, board>>
      BY <2>2 DEF TakeProcess, bridgeVars
    <3>2. \A run \in runs' : run \in runs \/ run.asked = e
      BY <2>2 DEF TakeProcess
    <3> QED
      BY <3>1, <3>2 DEF MadeForBoards
  <2>3. CASE TicketComes(e) \/ TakeSnapshot(e) \/ TakeUpdate(e)
             \/ TakeResponse(e) \/ Replace(e)
    BY <2>3, <1>1 DEF TicketComes, TakeSnapshot, TakeUpdate, TakeResponse,
       Replace, LinkFails, RemoveRuntimes, RestoreBoard, bridgeVars
  <2> QED
    BY <1>3, <2>1, <2>2, <2>3 DEF Page, Take
<1>4. ASSUME NEW e \in Attachments, Network(e) PROVE MadeForBoards'
  BY <1>4, <1>1 DEF Network, Closes, SocketOpens, SocketCloses
<1>5. ASSUME NEW e \in Attachments, Coordinator(e) PROVE MadeForBoards'
  BY <1>5, <1>1 DEF Coordinator, Hear, HearConnect, HearResync, HearRequest,
     HearResult, Retell, AskRuntime, bridgeVars
<1>6. ASSUME NEW run \in runs, Resolve(run) PROVE MadeForBoards'
  BY <1>6 DEF Resolve, bridgeVars, MadeForBoards
<1>7. ASSUME NEW b \in Boards, NEW r \in Runtimes, Change(b, r)
      PROVE  MadeForBoards'
  BY <1>7, <1>1 DEF Change, bridgeVars
<1>8. CASE UNCHANGED vars
  BY <1>8, <1>1 DEF vars, bridgeVars
<1> QED
  BY <1>2, <1>3, <1>4, <1>5, <1>6, <1>7, <1>8 DEF Next

\* Every step keeps the inductive invariant.
LEMMA StepKeeps ==
  ASSUME IInv, MadeForBoards, [Next]_vars PROVE IInv'
<1>1. ASSUME NEW b \in Boards, NEW r \in Runtimes, Change(b, r) PROVE IInv'
  <2>1. UNCHANGED <<effect, closed, socket, wsRef, request, via, ctx, session,
                    up>>
    BY <1>1 DEF Change, bridgeVars, requestVars, contextVars, hydrationVars
  <2> QED
    BY <2>1, IdleKeeps
<1>2. CASE UNCHANGED vars
  <2>1. UNCHANGED <<effect, closed, socket, wsRef, request, via, ctx, session,
                    up>>
    BY <1>2 DEF vars, bridgeVars, requestVars, contextVars, hydrationVars,
       sessionVars
  <2> QED
    BY <2>1, IdleKeeps
<1> QED
  BY <1>1, <1>2, PersonKeeps, PageKeeps, NetworkKeeps, CoordinatorKeeps,
     ResolveKeeps DEF Next

\* The inductive invariant holds in every reachable state.
THEOREM Inductive == Spec => [](IInv /\ MadeForBoards)
<1>1. Init => IInv /\ MadeForBoards
  BY Initially DEF Init, MadeForBoards
<1>2. IInv /\ MadeForBoards /\ [Next]_vars => (IInv /\ MadeForBoards)'
  BY StepKeeps, MadeKeeps
<1> QED
  BY <1>1, <1>2, PTL DEF Spec

\* However boards are switched and tokens refreshed while tickets and sockets
\* are on their way, only the mounted run of useCoordinatorBridge's effect is
\* not closed intentionally, and wsRef holds its socket from when it opens.
THEOREM OneBridgeActs == Spec => []OneBridge
<1>1. IInv => OneBridge
  BY DEF IInv, Mounted, OneBridge, Open
<1> QED
  BY Inductive, <1>1, PTL

\* A request in pendingRef was sent on a socket that still can answer it, or
\* is closing and will reject it: none is left behind by a switch.
THEOREM NoRequestIsStranded == Spec => []PendingCanSettle
<1>1. IInv => PendingCanSettle
  BY DEF IInv
<1> QED
  BY Inductive, <1>1, PTL

\* When nothing is on its way, the coordinator knows the browser runtimes the
\* board context has, in whatever order boards were replaced, sockets opened
\* and registrations sent.
THEOREM HostsStayKnown == Spec => []HostsAreKnown
<1>1. IInv => HostsAreKnown
  <2>1. ASSUME IInv, NEW e \in Attachments, Quiet(e)
        PROVE  session[e] = RegisteredIds(ctx)
    <3>1. KnownOver(e, RegisteredIds(ctx))
      BY <2>1 DEF IInv, Registered, Quiet
    <3>2. 1..Len(up[e]) = {}
      BY <2>1 DEF Quiet
    <3> QED
      BY <3>1, <3>2 DEF KnownOver
  <2> QED
    BY <2>1 DEF HostsAreKnown
<1> QED
  BY Inductive, <1>1, PTL
=============================================================================
