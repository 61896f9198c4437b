-------------------------- MODULE CoordinatorBridge --------------------------
(***************************************************************************)
(* A browser attached to a deployed board: the hook that keeps a socket to *)
(* the board's coordinator (useCoordinatorBridge.ts), the store of what    *)
(* the coordinator tells (coordinatorSnapshot.ts), and the hydration of    *)
(* the board context from it (views/cloud/index.tsx).                      *)
(*                                                                         *)
(* The page is one thread: every action is one callback of it, a React     *)
(* commit with its effects included, or a step of the network or the       *)
(* coordinator between two of them.  Every run of the connection effect is *)
(* an attachment: its closure (board, intentionallyClosed, its socket)     *)
(* outlives its cleanup, because callbacks of its socket still come.  What *)
(* is read through refs and state is shared by all of them.                *)
(*                                                                         *)
(* The coordinator is outside the source: it answers what it is sent in    *)
(* order, numbers what it tells each bridge, may fail to pass an update on *)
(* and may close a bridge.  Left out: notifications and log entries, which *)
(* change nothing here, identities, and the data of a run.                 *)
(***************************************************************************)
EXTENDS Naturals, Sequences, FiniteSets

CONSTANTS
  Boards,       \* a board is a coordinator and a name
  Runtimes,     \* the runtimes of a board its coordinator tells the state of
  Hosted,       \* Hosted[b]: ids of the browser runtimes of board b
  Requests,     \* requests panels make: bounds them
  AsMember,     \* attaching to a board somebody else shares
  Attachments,  \* runs of the effect alive at once: bounds them
  MaxChanges,   \* bound on the changes of each board
  MaxWire,      \* bound on what is on its way to the browser
  MayFail,      \* whether a board may fail to link when it is hydrated
  None

ASSUME BoardsAssumption ==
  /\ None \notin Boards \cup Attachments
  /\ \A ids \in SUBSET UNION {Hosted[b] : b \in Boards} : ids # None
  /\ \A b \in Boards : IsFiniteSet(Hosted[b])
  /\ AsMember \in BOOLEAN /\ MayFail \in BOOLEAN
  /\ MaxChanges \in Nat /\ MaxWire \in Nat

VARIABLES
  view,         \* the board the page has open
  effect,       \* the attachment whose effect is mounted
  board,        \* board[e]: the board attachment e was made for
  closed,       \* the attachments that are intentionallyClosed
  socket,       \* socket[e]: the readyState of e's socket, and before
  retry,        \* the attachments whose reconnect timer is armed
  wsRef,        \* the attachment whose socket wsRef holds
  refused,      \* why the coordinator will not have this browser
  store,        \* the CoordinatorSnapshotStore
  request,      \* request[r]: how far request r is (pendingRef)
  via,          \* via[r]: the attachment request r was sent on
  hydrated,     \* hydratedRef
  hydratedFor,  \* the board whose hydration is over
  job,          \* job[e]: the setBoardState the snapshot of e started
  ctx,          \* the board whose runtimes the board context holds
  runs,         \* runs of browser runtimes that have not resolved
  changes,      \* changes[b]: the runtime each change of board b was made to
  session,      \* session[e]: ids the coordinator knows e hosts, or None
  seq,          \* seq[e]: the number of the last update for bridge e
  missed,       \* the bridges that last update was not passed on to
  down,         \* down[e]: messages on their way to the browser
  up            \* up[e]: messages on their way to the coordinator

bridgeVars == <<effect, board, closed, socket, retry, wsRef, refused>>
requestVars == <<request, via>>
hydrationVars == <<hydratedFor, job, ctx>>
contextVars == <<hydrated, hydrationVars>>
sessionVars == <<session, seq, missed>>
vars == <<view, bridgeVars, store, requestVars, contextVars, runs, changes,
          sessionVars, down, up>>

-----------------------------------------------------------------------------
SocketStates == {"ticket", "connecting", "open", "closing", "closed"}
RequestStates == {"unsent", "pending", "answered", "failed"}
Refusals == {"removed", "too-many", "not-found"}
Codes == {"lost", "not-a-member", "too-many-bridges", "no-such-board"}
Ids == UNION {Hosted[b] : b \in Boards}
Versions == 0..MaxChanges

Told == [type : {"snapshot", "serviceState"}, seq : Versions, of : Versions]
Down == Told \cup [type : {"response"}, request : Requests]
             \cup [type : {"processRuntime"}, runtime : Ids]
Up == [type : {"connect"}, ids : SUBSET Ids]
        \cup [type : {"request"}, request : Requests]
        \cup [type : {"resync", "result"}]
Runs == [asked : Attachments, by : Boards, runtime : Ids]

\* The state of a runtime is the number of the last change made to it.
Latest(S) == IF S = {} THEN 0 ELSE CHOOSE n \in S : \A m \in S : m <= n
StateAt(b, n) ==
  [r \in Runtimes |-> Latest({i \in 1..n : changes[b][i] = r})]

Empty == [board |-> None, seq |-> 0, runtimes |-> << >>]
StoreStates ==
  {Empty} \cup [board : Boards, seq : Versions,
                runtimes : [Runtimes -> Versions]]

TypeOK ==
  /\ view \in Boards \cup {None}
  /\ effect \in Attachments \cup {None}
  /\ board \in [Attachments -> Boards \cup {None}]
  /\ closed \in SUBSET Attachments
  /\ socket \in [Attachments -> SocketStates]
  /\ retry \in SUBSET Attachments
  /\ wsRef \in Attachments \cup {None}
  /\ refused \in Refusals \cup {None}
  /\ store \in StoreStates
  /\ request \in [Requests -> RequestStates]
  /\ via \in [Requests -> Attachments \cup {None}]
  /\ hydrated \in Boards \cup {None}
  /\ hydratedFor \in Boards \cup {None}
  /\ job \in [Attachments -> {"none", "asked", "restoring"}]
  /\ ctx \in Boards \cup {None}
  /\ runs \in SUBSET Runs
  /\ changes \in [Boards -> Seq(Runtimes)]
  /\ session \in [Attachments -> (SUBSET Ids) \cup {None}]
  /\ seq \in [Attachments -> Versions]
  /\ missed \in SUBSET Attachments
  /\ down \in [Attachments -> Seq(Down)]
  /\ up \in [Attachments -> Seq(Up)]

Init ==
  /\ view = None /\ effect = None /\ wsRef = None /\ refused = None
  /\ board = [e \in Attachments |-> None]
  /\ closed = Attachments
  /\ socket = [e \in Attachments |-> "closed"]
  /\ retry = {}
  /\ store = Empty
  /\ request = [r \in Requests |-> "unsent"]
  /\ via = [r \in Requests |-> None]
  /\ hydrated = None /\ hydratedFor = None /\ ctx = None
  /\ job = [e \in Attachments |-> "none"]
  /\ runs = {}
  /\ changes = [b \in Boards |-> << >>]
  /\ session = [e \in Attachments |-> None]
  /\ seq = [e \in Attachments |-> 0]
  /\ missed = {}
  /\ down = [e \in Attachments |-> << >>]
  /\ up = [e \in Attachments |-> << >>]

-----------------------------------------------------------------------------
(* The store.                                                              *)

MutNeedsResync(m, r) == r \notin DOMAIN store.runtimes
NeedsResync(m, r) == r \notin DOMAIN store.runtimes \/ m.seq # store.seq + 1

WithSnapshot(b, m) ==
  [board |-> b, seq |-> m.seq, runtimes |-> StateAt(b, m.of)]
WithUpdate(m, r) ==
  [board |-> store.board, seq |-> m.seq,
   runtimes |-> [store.runtimes EXCEPT ![r] = m.of]]

-----------------------------------------------------------------------------
(* The connection effect.  A React commit runs the cleanup of the effect   *)
(* that was mounted and then the effect anew, with nothing in between.     *)

Open(e) == socket[e] = "open"
Free(e) ==
  /\ socket[e] = "closed" /\ e # effect /\ e \notin retry
  /\ job[e] = "none" /\ \A run \in runs : run.asked # e

\* What closing in the cleanup does to the socket of e, if it has one.
Shut(e) == IF Open(e) THEN "closing" ELSE socket[e]
TornDown == (closed \cup {effect}) \ {None}

\* A shared board is hydrated anew once its store has been cleared.
Clear ==
  /\ store' = Empty
  /\ hydrated' = IF AsMember THEN None ELSE hydrated

Cleanup ==
  /\ wsRef' = None
  /\ Clear

Unmount ==
  /\ effect' = None
  /\ closed' = TornDown
  /\ socket' = [e \in Attachments |->
                  IF e = effect THEN Shut(e) ELSE socket[e]]
  /\ Cleanup
  /\ UNCHANGED <<board, refused, sessionVars, down, up>>

Remount(b, e) ==
  /\ Free(e)
  /\ effect' = e
  /\ closed' = TornDown \ {e}
  /\ socket' = [d \in Attachments |->
                  IF d = e THEN "ticket"
                  ELSE IF d = effect THEN Shut(d) ELSE socket[d]]
  /\ Cleanup
  /\ board' = [board EXCEPT ![e] = b]
  /\ refused' = None
  /\ session' = [session EXCEPT ![e] = None]
  /\ seq' = [seq EXCEPT ![e] = 0]
  /\ missed' = missed \ {e}
  /\ down' = [down EXCEPT ![e] = << >>]
  /\ up' = [up EXCEPT ![e] = << >>]

\* The person opens a board, or none.
OpenBoard(b) ==
  /\ b # view
  /\ view' = b
  /\ IF b = None THEN Unmount ELSE \E e \in Attachments : Remount(b, e)
  /\ UNCHANGED <<retry, requestVars, hydrationVars, runs, changes>>

\* The same board with another id token.
RefreshToken ==
  /\ view # None
  /\ \E e \in Attachments : Remount(view, e)
  /\ UNCHANGED <<view, retry, requestVars, hydrationVars, runs, changes>>

\* The timer of onclose, and the commit it leads to.
Reconnect(e) ==
  /\ e \in retry
  /\ retry' = retry \ {e}
  /\ IF e \in closed
     THEN UNCHANGED <<effect, board, closed, socket, wsRef, refused, store,
                      hydrated, sessionVars, down, up>>
     ELSE \E d \in Attachments : Remount(view, d)
  /\ UNCHANGED <<view, requestVars, hydrationVars, runs, changes>>

\* The ticket has been fetched: the socket is opened, unless torn down.
MutMayStart(e) == TRUE
MayStart(e) == e \notin closed
TicketComes(e) ==
  /\ socket[e] = "ticket"
  /\ IF MayStart(e)
     THEN /\ socket' = [socket EXCEPT ![e] = "connecting"]
          /\ wsRef' = e
     ELSE /\ socket' = [socket EXCEPT ![e] = "closed"]
          /\ UNCHANGED wsRef
  /\ UNCHANGED <<view, effect, board, closed, retry, refused, store,
                 requestVars, contextVars, runs, changes, sessionVars, down,
                 up>>

\* The ids a registration carries: the browser runtimes of the board context.
RegisteredIds(c) == IF AsMember \/ c = None THEN {} ELSE Hosted[c]
Connect(c) == [type |-> "connect", ids |-> RegisteredIds(c)]

\* A socket torn down while it was connecting is closed once it is open.
MutGivesUp(e) == FALSE
GivesUp(e) == e \in closed

SocketOpens(e) ==
  /\ socket[e] = "connecting"
  /\ IF GivesUp(e)
     THEN /\ socket' = [socket EXCEPT ![e] = "closing"]
          /\ UNCHANGED up
     ELSE /\ socket' = [socket EXCEPT ![e] = "open"]
          /\ up' = [up EXCEPT ![e] = Append(@, Connect(ctx))]
  /\ UNCHANGED <<view, effect, board, closed, retry, wsRef, refused, store,
                 requestVars, contextVars, runs, changes, sessionVars, down>>

\* What a close code tells whoever was attaching.
MutRefusalOf(code) == IF code # "lost" /\ AsMember THEN code ELSE None
RefusalOf(code) ==
  CASE code = "not-a-member" -> "removed"
    [] code = "too-many-bridges" -> "too-many"
    [] code = "no-such-board" /\ AsMember -> "not-found"
    [] OTHER -> None

\* A close frame comes after what was sent before it; a lost connection and a
\* handshake that failed do not.  Two of the codes are said to members only.
ClosesWith(e, code) ==
  /\ socket[e] \in {"connecting", "open", "closing"}
  /\ code \in {"not-a-member", "too-many-bridges"} => AsMember
  /\ code # "lost" =>
       \/ socket[e] = "closing"
       \/ Open(e) /\ down[e] = << >>

\* onclose: the store is cleared unless the socket was torn down, everything
\* that waits is rejected, and a close that is no answer arms the timer.
MutForgets(e) == TRUE
Forgets(e) == e \notin closed

MutRejected == request
Rejected ==
  [r \in Requests |-> IF request[r] = "pending" THEN "failed" ELSE request[r]]

MutRetried(e, given_up) ==
  IF e \in given_up \/ session[e] = None THEN retry ELSE retry \cup {e}
Retried(e, given_up) == IF e \in given_up THEN retry ELSE retry \cup {e}

SocketCloses(e, code) ==
  LET refusal == RefusalOf(code) IN
  /\ ClosesWith(e, code)
  /\ socket' = [socket EXCEPT ![e] = "closed"]
  /\ closed' = IF refusal # None THEN closed \cup {e} ELSE closed
  /\ refused' = IF refusal # None THEN refusal ELSE refused
  /\ IF Forgets(e) THEN Clear ELSE UNCHANGED <<store, hydrated>>
  /\ request' = Rejected
  /\ via' = [r \in Requests |-> None]
  /\ wsRef' = IF wsRef = e THEN None ELSE wsRef
  /\ retry' = Retried(e, closed')
  /\ session' = [session EXCEPT ![e] = None]
  /\ down' = [down EXCEPT ![e] = << >>]
  /\ up' = [up EXCEPT ![e] = << >>]
  /\ UNCHANGED <<view, effect, board, hydrationVars, runs, changes, seq,
                 missed>>

-----------------------------------------------------------------------------
(* Messages from the coordinator: a closing socket delivers none.          *)

Incoming(e, type) ==
  Open(e) /\ down[e] # << >> /\ Head(down[e]).type = type
Taken(e) == down' = [down EXCEPT ![e] = Tail(@)]

\* Every change of the store is a chance to hydrate the board context, which
\* is asked for once for a board.
Hydrate(e) ==
  IF hydrated # view
  THEN /\ hydrated' = view
       /\ job' = [job EXCEPT ![e] = "asked"]
       /\ UNCHANGED <<hydratedFor, ctx>>
  ELSE UNCHANGED contextVars

TakeSnapshot(e) ==
  /\ Incoming(e, "snapshot") /\ Taken(e)
  /\ store' = WithSnapshot(board[e], Head(down[e]))
  /\ Hydrate(e)
  /\ UNCHANGED <<view, bridgeVars, requestVars, runs, changes, sessionVars, up>>

TakeUpdate(e) ==
  /\ Incoming(e, "serviceState") /\ Taken(e)
  /\ LET m == Head(down[e])
         r == changes[board[e]][m.of]
     IN IF NeedsResync(m, r)
        THEN /\ up' = [up EXCEPT ![e] = Append(@, [type |-> "resync"])]
             /\ UNCHANGED <<store, contextVars>>
        ELSE /\ store' = WithUpdate(m, r)
             /\ Hydrate(e)
             /\ UNCHANGED up
  /\ UNCHANGED <<view, bridgeVars, requestVars, runs, changes, sessionVars>>

TakeResponse(e) ==
  /\ Incoming(e, "response") /\ Taken(e)
  /\ LET r == Head(down[e]).request
     IN IF request[r] = "pending"
        THEN /\ request' = [request EXCEPT ![r] = "answered"]
             /\ via' = [via EXCEPT ![r] = None]
        ELSE UNCHANGED requestVars
  /\ UNCHANGED <<view, bridgeVars, store, contextVars, runs, changes,
                 sessionVars, up>>

\* The run goes to the runtime of that id in the board context, if it has one.
TakeProcess(e) ==
  /\ Incoming(e, "processRuntime") /\ Taken(e)
  /\ LET id == Head(down[e]).runtime
     IN runs' = IF ctx # None /\ id \in Hosted[ctx]
                THEN runs \cup {[asked |-> e, by |-> ctx, runtime |-> id]}
                ELSE runs
  /\ UNCHANGED <<view, bridgeVars, store, requestVars, contextVars, changes,
                 sessionVars, up>>

Resolve(run) ==
  /\ run \in runs
  /\ runs' = runs \ {run}
  /\ up' = IF Open(run.asked)
           THEN [up EXCEPT ![run.asked] = Append(@, [type |-> "result"])]
           ELSE up
  /\ UNCHANGED <<view, bridgeVars, store, requestVars, contextVars, changes,
                 sessionVars, down>>

\* A panel configures a service or has it process something.
Ask(r) ==
  /\ request[r] = "unsent"
  /\ IF wsRef # None /\ socket[wsRef] = "open"
     THEN /\ request' = [request EXCEPT ![r] = "pending"]
          /\ via' = [via EXCEPT ![r] = wsRef]
          /\ up' = [up EXCEPT ![wsRef] =
                      Append(@, [type |-> "request", request |-> r])]
     ELSE /\ request' = [request EXCEPT ![r] = "failed"]
          /\ UNCHANGED <<via, up>>
  /\ UNCHANGED <<view, bridgeVars, store, contextVars, runs, changes,
                 sessionVars, down>>
-----------------------------------------------------------------------------
(* The board context.  setBoardState first takes the runtimes it finds     *)
(* away and, when what replaces them has been restored, puts those in.     *)
(* When the ids of its browser runtimes change they are registered again.  *)

MutRegister ==
  up' = IF /\ RegisteredIds(ctx') # RegisteredIds(ctx)
           /\ wsRef # None /\ socket[wsRef] = "open"
        THEN [up EXCEPT ![wsRef] = Append(@, Connect(ctx))]
        ELSE up
Register ==
  up' = IF /\ RegisteredIds(ctx') # RegisteredIds(ctx)
           /\ wsRef # None /\ socket[wsRef] = "open"
        THEN [up EXCEPT ![wsRef] = Append(@, Connect(ctx'))]
        ELSE up

\* onHydrate settles either way; an owner's view marks the latest hydrated.
Hydrated(e) ==
  hydratedFor' = IF ~AsMember /\ hydrated = board[e]
                 THEN board[e] ELSE hydratedFor

LinkFails(e) ==
  /\ MayFail /\ job[e] = "asked"
  /\ job' = [job EXCEPT ![e] = "none"]
  /\ Hydrated(e)
  /\ UNCHANGED <<view, bridgeVars, store, requestVars, hydrated, ctx, runs,
                 changes, sessionVars, down, up>>

RemoveRuntimes(e) ==
  /\ job[e] = "asked"
  /\ job' = [job EXCEPT ![e] = "restoring"]
  /\ ctx' = None
  /\ Register
  /\ UNCHANGED <<view, bridgeVars, store, requestVars, hydrated, hydratedFor,
                 runs, changes, sessionVars, down>>

RestoreBoard(e) ==
  /\ job[e] = "restoring"
  /\ job' = [job EXCEPT ![e] = "none"]
  /\ ctx' = board[e]
  /\ Hydrated(e)
  /\ Register
  /\ UNCHANGED <<view, bridgeVars, store, requestVars, hydrated, runs,
                 changes, sessionVars, down>>

-----------------------------------------------------------------------------
(* The coordinator: one connection of its own for every bridge.            *)

Room(e) == Len(down[e]) < MaxWire
Snapshot(e, n) ==
  [type |-> "snapshot", seq |-> n, of |-> Len(changes[board[e]])]
Update(e) ==
  [type |-> "serviceState", seq |-> seq[e] + 1,
   of |-> Len(changes[board[e]]) + 1]
Watching(b) ==
  {e \in Attachments : Open(e) /\ board[e] = b /\ session[e] # None}

\* A snapshot says everything: what was missed before does not matter.
TellAll(e, n) ==
  /\ Room(e)
  /\ down' = [down EXCEPT ![e] = Append(@, Snapshot(e, n))]
  /\ seq' = [seq EXCEPT ![e] = n]
  /\ missed' = missed \ {e}

Heard(e, type) ==
  /\ Open(e) /\ up[e] # << >> /\ Head(up[e]).type = type
  /\ up' = [up EXCEPT ![e] = Tail(@)]

HearConnect(e) ==
  /\ Heard(e, "connect")
  /\ session' = [session EXCEPT ![e] = Head(up[e]).ids]
  /\ IF session[e] = None
     THEN TellAll(e, 0)
     ELSE UNCHANGED <<down, seq, missed>>
  /\ UNCHANGED <<view, bridgeVars, store, requestVars, contextVars, runs,
                 changes>>

HearResync(e) ==
  /\ Heard(e, "resync")
  /\ TellAll(e, seq[e])
  /\ UNCHANGED <<view, bridgeVars, store, requestVars, contextVars, runs,
                 changes, session>>

HearRequest(e) ==
  /\ Heard(e, "request")
  /\ Room(e)
  /\ down' = [down EXCEPT ![e] =
                Append(@, [type |-> "response",
                           request |-> Head(up[e]).request])]
  /\ UNCHANGED <<view, bridgeVars, store, requestVars, contextVars, runs,
                 changes, sessionVars>>

HearResult(e) ==
  /\ Heard(e, "result")
  /\ UNCHANGED <<view, bridgeVars, store, requestVars, contextVars, runs,
                 changes, sessionVars, down>>

\* The board was deployed again or something about it changed that is not the
\* state of a service: every bridge is told the board, on a count of its own.
Retell(e) ==
  /\ session[e] # None /\ Open(e)
  /\ \E n \in {0, seq[e]} : TellAll(e, n)
  /\ UNCHANGED <<view, bridgeVars, store, requestVars, contextVars, runs,
                 changes, session, up>>

\* A service reported its state: the bridges are told, but for some of them.
Change(b, r) ==
  /\ Len(changes[b]) < MaxChanges
  /\ changes' = [changes EXCEPT ![b] = Append(@, r)]
  /\ \E told \in SUBSET Watching(b) :
       /\ \A e \in told : Room(e)
       /\ seq' = [e \in Attachments |->
                    IF e \in Watching(b) THEN seq[e] + 1 ELSE seq[e]]
       /\ missed' = (missed \cup Watching(b)) \ told
       /\ down' = [e \in Attachments |->
                     IF e \in told THEN Append(down[e], Update(e)) ELSE down[e]]
  /\ UNCHANGED <<view, bridgeVars, store, requestVars, contextVars, runs,
                 session, up>>

\* Input for a browser runtime: one at a time, to bound it.
AskRuntime(e, id) ==
  LET m == [type |-> "processRuntime", runtime |-> id] IN
  /\ Open(e) /\ session[e] # None /\ id \in session[e]
  /\ id \in Hosted[board[e]]
  /\ Room(e)
  /\ \A i \in DOMAIN down[e] : down[e][i].type # "processRuntime"
  /\ \A run \in runs : run.asked # e
  /\ \A i \in DOMAIN up[e] : up[e][i].type # "result"
  /\ down' = [down EXCEPT ![e] = Append(@, m)]
  /\ UNCHANGED <<view, bridgeVars, store, requestVars, contextVars, runs,
                 changes, sessionVars, up>>

-----------------------------------------------------------------------------
Person ==
  \/ \E b \in Boards \cup {None} : OpenBoard(b)
  \/ RefreshToken
  \/ \E r \in Requests : Ask(r)

Take(e) == TakeSnapshot(e) \/ TakeUpdate(e) \/ TakeResponse(e) \/ TakeProcess(e)
Replace(e) == LinkFails(e) \/ RemoveRuntimes(e) \/ RestoreBoard(e)
Hear(e) == HearConnect(e) \/ HearResync(e) \/ HearRequest(e) \/ HearResult(e)
Closes(e) == \E code \in Codes : SocketCloses(e, code)

Page(e) == Reconnect(e) \/ TicketComes(e) \/ Take(e) \/ Replace(e)
Network(e) == SocketOpens(e) \/ Closes(e)
Coordinator(e) == Hear(e) \/ Retell(e) \/ \E id \in Ids : AskRuntime(e, id)

Next ==
  \/ Person
  \/ \E e \in Attachments : Page(e) \/ Network(e) \/ Coordinator(e)
  \/ \E run \in runs : Resolve(run)
  \/ \E b \in Boards : \E r \in Runtimes : Change(b, r)

Spec == Init /\ [][Next]_vars

-----------------------------------------------------------------------------
(* Safety.                                                                 *)

\* What is shown is nothing or a state the board that is open really had,
\* and it never goes back: no other board's state, after whatever switches,
\* reconnects and late closes, and nothing patched across a gap.
Seen == INSTANCE BoardView WITH
          shown <- IF store = Empty THEN None
                   ELSE [board |-> store.board, state |-> store.runtimes]
ShowsWhatWas == Seen!Spec

\* When nothing is under way on the bridge that is mounted, the page shows the
\* board as it is now: what was missed has been told again, and nothing that a
\* torn-down socket still did has undone what this one was told.
Quiet(e) ==
  /\ e = effect /\ Open(e) /\ session[e] # None
  /\ down[e] = << >> /\ up[e] = << >>
ShownIsCurrent ==
  \A e \in Attachments :
    Quiet(e) /\ e \notin missed =>
      /\ store.board = view
      /\ store.runtimes = StateAt(view, Len(changes[view]))

\* And the coordinator knows which browser runtimes the page has by now,
\* although they come and go while sockets are opened and replaced.
HostsAreKnown ==
  \A e \in Attachments : Quiet(e) => session[e] = RegisteredIds(ctx)

\* Only the mounted attachment may act on the page: the others are closed
\* intentionally, and the socket panels send on is the mounted one's.
OneBridge ==
  /\ \A e \in Attachments : e \notin closed => e = effect
  /\ wsRef # None => wsRef = effect
  /\ effect # None /\ Open(effect) => wsRef = effect

\* A request that waits is on a socket that still can answer or close.
PendingCanSettle ==
  \A r \in Requests :
    request[r] = "pending" =>
      via[r] # None /\ socket[via[r]] \in {"open", "closing"}

-----------------------------------------------------------------------------
(* What the comments of the code say and some interleaving of it breaks.   *)

\* "Sends a request over the bridge and resolves with what answers it": a
\* request fails only when the socket it was sent on has closed.
FailsWithItsSocket ==
  [][\A r \in Requests :
       request[r] = "pending" /\ request'[r] = "failed"
         => socket'[via[r]] = "closed"]_vars

-----------------------------------------------------------------------------
(* Liveness.  Callbacks run, closing handshakes end, tickets come or fail,  *)
(* and a coordinator that keeps being dialled keeps letting bridges in and  *)
(* answers what it is sent.                                                *)

Fairness ==
  \A e \in Attachments :
    /\ WF_vars(Reconnect(e)) /\ WF_vars(TicketComes(e)) /\ WF_vars(Replace(e))
    /\ WF_vars(socket[e] \in {"connecting", "closing"} /\ Network(e))
    /\ WF_vars(Take(e))
    /\ WF_vars(\E run \in runs : run.asked = e /\ Resolve(run))
    /\ SF_vars(SocketOpens(e)) /\ SF_vars(Hear(e)) /\ SF_vars(TakeSnapshot(e))

FairSpec == Spec /\ Fairness

\* Whatever a panel asked for is answered or fails.
RequestsSettle ==
  \A r \in Requests : request[r] = "pending" ~> request[r] # "pending"

\* A torn-down attachment lets go of its socket.
TornDownCloses ==
  \A e \in Attachments :
    e \in closed ~> (socket[e] = "closed" \/ e \notin closed)

\* A board that stays open is shown, again and again however often the
\* coordinator drops the bridge, unless it refuses this browser.
StaysAttached ==
  <>[][~(\E b \in Boards \cup {None} : OpenBoard(b)) /\ ~RefreshToken]_vars
    => []<>(view = None \/ refused # None \/ store # Empty)
=============================================================================
