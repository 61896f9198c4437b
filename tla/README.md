# readymade: a verification development

TLA+ models of readymade (hkp), the TLC configurations that check them on small
instances, and TLAPS proofs for every size of instance.  Every definition is
translated from the code under `src/`; `PROJECT.json` ("map") names the lines.

    tlc -workers 2 -config links_standalone.cfg MCCoordinatorLinks
    tlc -workers 2 -config bridge_member.cfg    MCCoordinatorBridge
    tlc -workers 2 -config passes.cfg           MCRuntimePasses
    tlc -workers 2 -config board.cfg            MCBoardReplacement
    tlc -workers 2 -config socket.cfg           MCLinkSocket
    tlapm CoordinatorLinksProofs.tla
    tlapm CoordinatorBridgeProofs.tla
    tlapm LinkSocketProofs.tla
    tlapm CoordinatorLinksThreadProofs.tla
    tlapm CoordinatorBridgeViewProofs.tla
    tlapm RuntimePassesProofs.tla
    tlapm BoardReplacementProofs.tla

## 1. The system

A *board* is a set of *runtimes*; a runtime is a pipeline of *services* that pass
messages on.  Runtimes live in the browser, or on a runtime server (`hkp-rt`, C++;
`hkp-python` and `hkp-node` are siblings).  A board that is *deployed* is driven by
a *coordinator* (hkp-node): every runtime server keeps a connection to it for each
runtime of the board it hosts, and every browser that opens the board keeps a
*bridge* to it.

```
   person                                    client (browser, deploy)
     |  opens boards, edits, asks                 |  introduce / remove (HTTP)
     v                                            v
 +---------------- browser page ---+      +--------- runtime server ----------+
 | views/cloud  -- BoardContext    |      | API threads    CoordinatorLinks   |
 |     |             |             |      |     |  tasks      |  worker       |
 | useCoordinatorBridge  browser   |      |     v             v               |
 |  + snapshot store     runtimes  |      | event loop ---- App -- Runtime    |
 +------|--------------------------+      +-----|-----------------------------+
        | bridge (websocket)                    | link (websocket, ticket)
        +------------->  coordinator (hkp-node, external)  <---+
```

### Components

| component | state | operations | interacts with | what makes it correct |
|---|---|---|---|---|
| Coordinator links (`hkp-rt/lib/src/coordinator_links.cpp`) | map key → link, each link's socket, timer, `welcomed`, `disposed`, `onFirst`; the ticket store on disk; worker queue; `stopped` | introduce, remove, restore, stop; connect, welcome, lose, retry, refuse; provision, remove over a link | API threads, event loop, worker, stopping thread; App | one live link a key; tickets on disk are those promised; a runtime goes with the ticket that built it; callers answered |
| Coordinator bridge (`useCoordinatorBridge.ts`, `coordinatorSnapshot.ts`) | per run of the effect: closure, socket, timer; shared: `wsRef`, `pendingRef`, store, refusal | open, close, refresh, reconnect, register, request, take messages | React, coordinator, BoardContext | what is shown is what the open board is; one bridge; requests settle |
| Board context, persistence (`BoardContext.tsx`, `core/board*.ts`) | runtimes and services of the open board, drafts, snapshots, queue of parameters | setBoardState, clearBoard, fetchBoard, addRuntime, save | every view, remote runtimes | an answer for a replaced board changes nothing; a draft is not lost |
| Runtime passes (`runtime.cpp`, `service.cpp`, `sub_runtime.cpp`) | depth of passes, pending requests, scheduled work, deferred completions | processFrom, emit, endDeferred, processRuntime | App, services, request threads | every request gets its own result once; nothing leaves while a pass is inside |
| Link socket (`common/link_socket.cpp`) | open, writing, queue, finished | connect, send, read, ping, close | event loop | frames in order; ends exactly once |
| App (`app.cpp`) | list of runtimes, output sinks, posted callbacks | create, replace, remove, notify | all of the server | a notification goes to who listens; no use after removal |
| HTTP surface (`http/server.cpp`, `ws_tickets.h`) | one-use socket tickets with an expiry, sockets of a runtime | routes, upgrade | App, links | a ticket opens one socket, in time |
| Remote runtimes (`RuntimeRestScope.ts`, `WebsocketChannel.ts`) | channel, pending calls, reconnects | create, configure, process, close | runtime servers | an answer reaches its caller; a closed scope stays closed |
| Browser runtime (`BrowserRuntimeScope.ts`) | services, process context | process, next, destroy | BoardContext, bridge | as the C++ passes |
| Deployment (`core/deploy.ts`) | what has been sent where | deploy, stop, take over | coordinator, servers | all or nothing |
| Flow-control services (timer, hold, gather, tracks, cache) | buffers, timers | process, configure | runtime | nothing lost, duplicated or late beyond what is said |
| Network services (http server, peers, websockets, stream broadcast) | sessions, bounded queues | accept, push, answer | runtime | bounded, a slow reader harms nobody |

Services that transform a value, media codecs, the user interface, login, the MCP
adapter, the desktop shell and vendored code are listed in `PROJECT.json` with the
reason they are left out.

### Where it is hard

* **Four kinds of thread in the links.** `introduce` and `remove` run and block on
  request threads while everything they wait for happens on the event loop; what a
  coordinator asks is served by a worker that looks at neither; `stop()` comes from
  a fourth.  The mutex guards the map, and nothing between two uses of it.
* **Time.** `introduce` stops waiting for the coordinator after `introduceTimeout`,
  and every wait for the loop after five seconds: the answer, or the task, may come
  afterwards.  A reconnect timer that has expired cannot be cancelled any more.
* **A file.** Tickets are read under the mutex and saved outside it; the process may
  end between any two steps and starts again from what is on disk.
* **Closures that outlive their effect.** Each run of the browser's connection
  effect leaves a socket whose callbacks still come; some of what they touch is
  theirs and some is shared with the run that replaced them.
* **Asynchronous replacement.** A board is put into the context over many awaits,
  while another is opened, and while snapshots of the one that is left are read.
* **Passes from everywhere.** A runtime's services run on whichever thread hands them
  data, inside each other and beside workers that answer later; one counter decides
  whose result leaves.
* **Updates that may not arrive**, and are noticed only by their number.

The hazards are listed at their lines in `PROJECT.json` ("hazards") with the
properties that would catch them; what the code was seen to be exposed to beside
them is in section 6.

## 2. Modules

| module | what it is |
|---|---|
| `CoordinatorLinks` | the links of a runtime server, their four threads, the disk |
| `MCCoordinatorLinks` | two runtimes, two coordinators, three tickets for TLC |
| `CoordinatorLinksProofs` | its inductive invariant and the theorems |
| `CoordinatorLinksThreadProofs` | what needs that requests are served one at a time: a second invariant, and the theorems |
| `BoardView` | abstract: what a browser promises of the board it shows |
| `CoordinatorBridge` | the bridge, its store, the hydration of the board; implements `BoardView` |
| `MCCoordinatorBridge` | two boards sharing the id of a browser runtime, for TLC |
| `CoordinatorBridgeProofs` | its inductive invariant and the theorems |
| `CoordinatorBridgeViewProofs` | what the page shows: a second invariant, the theorems, and the refinement of `BoardView` |
| `RuntimePasses` | the passes of a C++ runtime, and services that answer from a worker |
| `MCRuntimePasses` | a pipeline of two services, the first asynchronous, for TLC |
| `RuntimePassesProofs` | its inductive invariant, the theorems, and the balance of what is announced of a service |
| `BoardReplacement` | replacing the board of a playground; its snapshots, drafts and saves |
| `MCBoardReplacement` | two addresses, boards of one or two runtimes, for TLC |
| `BoardReplacementProofs` | its inductive invariant and the theorems |
| `LinkChannel` | abstract: what a link's socket promises |
| `LinkSocket` | one connection of a runtime server; implements `LinkChannel` |
| `MCLinkSocket` | three messages, for TLC |
| `LinkSocketProofs` | its inductive invariant, the theorems, and the refinement |
| `Queues` | lemmas on sequences used as queues, for the proof modules |

In the component modules a definition named `Mut...` is a plausible mistake in the
definition that follows it; it is used nowhere in the specification, and serves to
show that a property can be violated at all (`PROJECT.json`, "mutants").

### CoordinatorLinks

One action is one step of one thread, cut wherever the code lets go of the mutex,
posts, waits or returns.

| code | model |
|---|---|
| `links` (map), `Link::record` | `links[k]`, `rec[l]`; a ticket stands for its record |
| socket, timer, `welcomed` | `phase[l]`: fresh, opening, open, welcomed, retrying, due (timer expired, handler queued), closed |
| `Link::disposed`, `onFirst` | `disposed`, `outcome[l]` |
| `LinkStore` file | `store`; survives `Crash` and `Exit` |
| `App` sinks and runtimes | `sinks[k]` (who listens), `runtime[k]` (which link built it) |
| `postCallback` / `onLoop` | `loopq`, each task with the thread that waits for it; `Waited` |
| worker `io_context` | `workq`, `Serve` |
| `introduce` | `Introduce`, `RunInstall`, `Installed`, `Accepted` or `GiveUp` / `RunDrop` / `Dropped`, `Snapshot`, `Save` |
| `remove` | `Remove`, `RunDispose`, `RemoveSink`, `RemoveRuntime`, `Snapshot`, `Save` |
| `onClosed` and `reject` | `ConnectionLost`, `TicketRefused`, `LoopSnapshot`, `LoopSave` |
| `retry` and its timer | `Retry`, `TimerExpires`, `Reopen` |
| `stop` and `main` | `StopMark`, `StopCollect`, `StopFinish`, `Exit` |
| `restore` | `Start` |

`told`, `revoked` are history: what callers were told, and which links were refused.
The socket is an external channel that opens, delivers and ends; what it does inside
is the subject of a planned module.

### CoordinatorBridge

One action is one callback of the page's single thread, a React commit with all the
effects it runs, or one step of the network or the coordinator.

| code | model |
|---|---|
| a run of the connection effect and its closure | an attachment `e`: `board[e]`, `e \in closed` (intentionallyClosed), `socket[e]`, `e \in retry` |
| `wsRef`, `pendingRef`, `refused`, snapshot store | `wsRef`, `request`/`via`, `refused`, `store`: shared by all attachments |
| cleanup, then the effect again | `Remount` (one commit), from `OpenBoard`, `RefreshToken`, `Reconnect`; `Unmount` |
| `start` after the ticket | `TicketComes` / `MayStart` |
| `onopen`, `onclose`, `onmessage` | `SocketOpens`, `SocketCloses`, `TakeSnapshot`, `TakeUpdate`, `TakeResponse`, `TakeProcess` |
| `CoordinatorSnapshotStore.apply` | `WithSnapshot`, `NeedsResync`, `WithUpdate` |
| `sendRegistration` and its effect | `Connect`, `Register` |
| `request()` | `Ask` |
| hydrate, `setBoardState` | `Hydrate`, `RemoveRuntimes`, `RestoreBoard`, `LinkFails` |

The state of a runtime is the number of the last change made to it, so that showing
the wrong state, an old one or another board's can be told apart.  The coordinator
is not in this repository: its actions (`HearConnect`, `HearResync`, `Retell`,
`Change`, ...) follow what the bridge and `docs/content/concepts/coordinator.md`
expect of it, and are marked external.  It numbers what it tells each bridge, may
not pass an update on (that is what the numbers are for), and may close a bridge
with any code of `docs/content/concepts/cloud-boards.md`.

### LinkSocket

One action is one handler on the connection's strand, a call of its user, or bytes
leaving.  Completions may come at any time and with any outcome the network can have,
so the strand is modelled by what is posted to it (`posted`, and a `closing` with the
number of sends `before` it) and the one operation `op` that carries the connection on.

| code | model |
|---|---|
| `LinkSocket::open`, `parseAddress` | `Dial`; an address that is none ends in `DialFails` like any failure |
| resolve, connect, TLS, upgrade | `Advance`, `DialFails`, `Upgraded`; `op` is what is waited for |
| `sendText`, `sendBinary`, `enqueue` | `Send` posts, `RunSend` queues and writes |
| `close()` | `Close` from any thread, then `RunClose`; `ClosesInside` where a handler calls it |
| `write`, `m_writing` | `Write`; `inflight` is the message `m_writing` is set for, `out` whether its bytes have gone |
| the completion of a write | `Written`, `WriteFails` |
| `read`, `finish` | `ReadMessage`, `ReadFails`, `Finish` |

`m_queue.clear()` frees the bytes a write may still be reading: what goes out then is
undefined, and `GoesOut` lets it be the message or bytes nobody asked for (`Torn`).
`LinkChannel` promises nothing of that last message, and everything of those before.
`CoordinatorLinks` sees this socket as a channel that opens, delivers and ends.

### RuntimePasses

One action is one step of one thread between two accesses to what threads share.

| code | model |
|---|---|
| frames of `processFrom` and of a service's `process` on a thread | `stack[t]`, the innermost first |
| `m_processDepth` | `depth`; read (`BeginRead`, `EndRead`) and written (`BeginWrite`, `EndWrite`) apart, as it is a plain `int` |
| `currentContext`, `ContextScope` | `CurrentRun`: the run of the nearest frame on the thread |
| `process`, `processAt`, `autonomousRun` | `Call`; from inside a service `CallIn` |
| the loop of `processFrom` | `CallService`, `Answer`, `PastLast`; a null result ends it (`Expire`) |
| `deferCompletion`, `setProcessDeferred`, `takeProcessDeferred` | `Defer`, `handedOver`, `TakeProcessDeferred` |
| the worker of an asynchronous service | `Emit`, `WorkOver`, `EndDeferred`, `Admit`; a call meanwhile is refused (`Refuse`) |
| `m_pendingResolve` | `pending`, `ResolveResult` |
| `sendServiceLifecycleNotification`, `notifyProcessFinished` | `bracket[s]`, a count: a report names the service and neither the call nor the run |
| an exception | `Throw`: the frames of the thread are gone, the depth is not given back |

A run is a number; data is reduced to whether it is null.  `finished`, `heard` and
`disturbed` are history.

### BoardReplacement

One action is one stretch of the page's code between two awaits.

| code | model |
|---|---|
| React state / `providerStateRef` | `shown` / `seen`; `Render` makes them equal |
| `replacingBoard` and its counts | `Begin`, `End`; `replacing`, `generation` |
| `onBoardChanged`, `setBoardState`, `newBoard` | `Navigate`; `Open` of kind open or clear |
| `clearBoard`, `fetchBoard`, `setBoardState`, `restoreBoard` | `EndFlush`, `Link`, `Remove`, `Removed`, `Clear`, `Restore`, `StartRuntime`, `Restored`; `Refused`, `Rejected` |
| `stillOnThisBoard` in asset edits and block parameters | `BeginChange`, `EndChange`, `StillOn` |
| the snapshot scheduler | `Schedule`, `TimerFires`, `Flush`; `ReadBoard`, `WriteSnapshot`, `WriteFails`; `rebasing` |
| `writeDraft`, the draft store, local storage | `drafts`, `saved` |
| `saveBoard`, `dropDraftsOnSave` | `BeginSave`, `Store`, `SaveFails`, `DropDrafts` |

A board is reduced to the load it runs as, the address it was opened at, which of its
runtimes it has, and how often it was edited; an edit made while the services are read
may or may not be in what is read.  A draft older than a save is void at once, since
no visit takes it any more.  The person acts on a page that was rendered.

## 3. What is checked

| run | instance | shows |
|---|---|---|
| `links_standalone` | one request thread, two keys, three tickets of two coordinators, two links, stop, crash, one restart, one queued request | `TypeOK`; a welcomed link's coordinator hears its runtime (`WelcomedIsHeard`); "connected" means the ticket survives (`ConnectedIsKept`); "failed" leaves neither link nor ticket (`FailureKeepsNothing`); a board that was left does not come back from disk (`LeftStaysLeft`); a refusal takes the runtime away, after whatever could build it again (`RevokedIsReleased`), and never a newer one (`ReleaseSparesHeld`); no connection outside the map (`NoStrayLink`) or after its link was disposed of (`DisposedStaysDown`) |
| `links_live` | fairness, one ticket | callers are answered, held links reconnect, stopping ends |
| `bridge_owner` | an owner, one board, replacements that overlap and fail, one request; fairness | `OneBridge`, `HostsAreKnown`, `PendingCanSettle`, `RequestsSettle`, `TornDownCloses`, `StaysAttached` |
| `bridge_member` | two shared boards, two runtimes, two changes each, missed updates, refusals | `TypeOK`, `ShownIsCurrent`, refinement of `BoardView` (`ShowsWhatWas`) |
| `socket` | one connection, three messages to send and two to read, any address, any failure, a close at any moment or none; fairness | `TypeOK`; it implements `LinkChannel`: order, and an end that is told unless the user let go (`KeepsItsPromise`); dialling ends and a stream that takes nothing more is over (`NothingHangs`), what waits goes out (`SentGoesOut`) |
| `passes` | one calling thread, one worker, two services, two runs, nesting of two, services that throw | `TypeOK`, of which a callback that is called once is part; the depth is the passes that are open (`DepthIsNesting`) and a result leaves exactly when its run has finished (`HeardIsFinished`), until something throws; a late answer goes on in the run of the call that asked for it (`AnswerBelongsToItsCall`); the frames of a thread are of one run unless a worker hands on (`OneRunPerThread`); work that goes on is announced, and work that is over is announced as finished (`BracketCoversWork`); a service that refused admits calls again (`AdmitsAgain`) |
| `board` | two replacements of a board of one runtime, one change of assets | `TypeOK`; a change that is answered late lands on its own board or nowhere (`ChangesStayOnTheirBoard`), also when replacements overlap or fail; when they do not, what runs is what is shown (`NothingKeepsRunning`), with its own facade, linkage and assets (`BoardIsOfOneLoad`) |
| `board_kept` | one replacement, one save, a board of two runtimes edited once; fairness | every edit is read, or a snapshot is asked for (`EditsAreAskedFor`); nothing is torn down unread (`ReadBeforeTornDown`); no draft of what was saved lands after the save (`DraftsAreOfLaterEdits`); replacements end (`ReplacementsEnd`) |

### Bounds, and why they are enough

* *Links* (2): a race over a key is between the link that is held and one other: every
  definition of the code compares a link with the one in the map.  With two keys the
  two links are also those of two boards, whose tickets share one file.
* *Tickets* (1 to 3): two for one key from two coordinators is the takeover, the third
  is the other board's.
* *API threads*: one standalone, because Crow is run with a concurrency of 2, which
  leaves one worker (`3rdparty/crow/app.h:762`, `http_server.h:84`); two inside the
  desktop app, which serves its own scheme beside it (`meander/backend/main.cpp:421`,
  `schemeHandler.cpp:517`).  The properties of `links_standalone` are stated for the
  former; three of them are not promised for the latter (section 6).  The theorems make
  the same distinction: those of `CoordinatorLinksProofs` are for any number of threads,
  those of `CoordinatorLinksThreadProofs` suppose one (section 4).
* *MaxWork* (0 or 1) bounds requests, not releases: the order of a request against a
  release needs one of each.
* *MaxStarts* (2): one restart; a second starts from a file of the same kind.
* *Attachments* (2): the mounted one and one torn down; what callbacks of a torn-down
  one do depends only on whether it is the mounted one.
* *MaxChanges* (2), *MaxWire* (1): two changes are the fewest that make a gap, a patch
  across it, and an order; the wire's bound holds back the coordinator, never the
  page, whose messages are unbounded.
* *Messages* (3), *MaxRead* (2) of the socket: one in flight, one queued, one posted; a
  read that is followed by another.
* *Stalls*: whether a caller may stop waiting for the loop; the five seconds matter only
  when the loop is blocked that long.  The runs have it off; all proofs are for both.
* *Passes*: two services are the fewest of which one hands on to another; the
  asynchronous one comes first, so that its answer still passes through the second.
  *MaxRuns*, *MaxDepth* (2) are a call and one inside it, or one beside the worker;
  *MaxCallsIn* (1) bounds how often a service calls in from one call.
* *Replacements* (2): an overlap is of two, and a third meets what a second met.
  `board_kept` has one: what is lost of a board is lost by the replacement that ends it.
* *MaxEdits* (0 or 1): an edit that was read is told from one that was not.
  *MaxWrites* (1) holds back the timer while a snapshot is queued, never the flush of a
  replacement or a save, so that two can be queued.

`CHECK_DEADLOCK FALSE` everywhere: a process may have used up its starts and links, and
a page may stay on no board; both are ends of the bounded instance or of the system.

### Fairness

*Links* (`FairSpec`): loop, worker, request and stopping threads are scheduled (weak
fairness; each is a thread of the process, and the loop runs what is queued in order);
an armed timer expires and its handler runs.  The network owes nothing at any one
attempt, but a coordinator that is dialled again and again accepts and welcomes in the
end (strong fairness on `Opened`, `WelcomeArrives`): without that no link could promise to
reconnect.  Nothing is assumed of crashes, losses, refusals or requests.

*Bridge* (`FairSpec`): the page runs its callbacks, a ticket request and a handshake end
one way or the other, what is on the wire is handled, runs resolve; a coordinator
dialled again and again lets the bridge in, hears it and its snapshot arrives in the end
(strong fairness).  `StaysAttached` further supposes that the person in the end neither
switches boards nor has the token refreshed.

*Socket* (`FairSpec`): what is posted runs, every operation of the dialling ends (the
resolver by the system's own limits, the others by `handshakeTimeout`), writes end, and
once nothing goes out any more the read ends too (pings of an idle connection).

*Passes* (`FairSpec`): threads that are inside a pass go on, and workers do; nobody is
obliged to begin a pass.

*Board* (`FairSpec`): promises settle (weak fairness on each replacement, each save, the
writes and the render).  Nothing is assumed of the person, nor of timers.

### Disagreements between the code and what it says

Four runs state what a comment or a page of the documentation says and TLC finds an
interleaving of the code that breaks it; each is a row of "findings".

| run | says | what happens |
|---|---|---|
| `links_leave_orphan` | `coordinator_links.h:116`: leaving drops "the link and the runtime" | the worker serves the provision that was queued before; nobody is left to remove the runtime |
| `bridge_late_close` | `useCoordinatorBridge.ts:443`: a request "resolves with what answers it" | the late close of a torn-down socket rejects requests sent on the next one |
| `passes_overlap` | `services/timer.h:264`: `nextAsync` is "thread-safe: posts to App io_context" | it runs the services on the timer's thread; two passes share one counter and the result of the first to end is sent to nobody |
| `board_draft_of_other` | `PlaygroundController.ts:147`: a draft is kept under "the address the board is at, since reloading that address is what has to bring it back" | when the address changes with an edit unwritten, the board that is left is written under the new address, and restored there |

## 4. What is proved

`CoordinatorLinksProofs` proves, for every number of keys, tickets, links, threads and
processes, with and without stalls:

| theorem | |
|---|---|
| `Inductive` | `Spec => []IInv` |
| `TypeCorrect` | `Spec => []TypeOK` |
| `NoLinkIsLost` | `Spec => []NoStrayLink` |
| `DisposedIsFinal` | `Spec => []DisposedStaysDown` |
| `RevokedLosesItsRuntime` | `Spec => []RevokedIsReleased` |

*Assumptions.* `TicketsAssumption` (a ticket is for one key, from one coordinator) and
`NamesAssumption` (threads, keys, tickets and links are told apart from `None`, the
stopping thread is not a request thread).  TLC evaluates both in every run.

*Argument.* None of the properties is inductive alone.  `NoStrayLink` must know that a
link is installed once, and is in no map before (`InstallsOnce`): else a second install
would displace the link that the first one put in.  It needs that the map holds links
under their own key (`MapKeyed`), or taking "the link of the key" out would take another;
that whatever is queued has been made (`AllMade`); and that `stop()` collects once
(`CollectsOnce`), or links collected earlier would be forgotten.  `RevokedIsReleased` needs
the order of the worker's queue: behind every provision of a refused link there is a
release for its key (`ReleaseComesLast`), which holds because a refused link hears nothing
more (`RevokedDisposed`).  `DisposedStaysDown` needs the expired timer: a disposed link is
closed, or its handler is still to find it disposed (`DownOrDue`).  `SavedOnce` is what lets
`restore()` make one link a key, and `DownBlank` what a new process starts from.
There is a lemma for each action, and lemmas on what posting to a queue and taking from
it leave in place; `StepKeeps` puts them together.

`CoordinatorBridgeProofs` proves, for every number of boards, attachments, requests and
changes and queues of every length, for owners and members:

| theorem | |
|---|---|
| `Inductive` | `Spec => [](IInv /\ MadeForBoards)` |
| `OneBridgeActs` | `Spec => []OneBridge` |
| `NoRequestIsStranded` | `Spec => []PendingCanSettle` |
| `HostsStayKnown` | `Spec => []HostsAreKnown` |

*Assumption.* `BoardsAssumption`, of which the proofs use that `None` is neither a board nor
an attachment.

*Argument.* `OneBridge` must know more of the time before a socket opens: from when the
ticket has come, `wsRef` already holds the mounted attachment's socket (`Mounted`); that is
why a board's runtimes changing between the two are registered when it opens, and after
it are sent by the re-registration effect.  `HostsAreKnown` speaks of a quiet bridge; the
invariant behind it speaks of every one that is open: the *last* registration on its way,
or when none is the session itself, names what the context has now (`Registered`).  Sending
anything else (`SendKeeps`), registering (`RegisterMakes`) and the coordinator taking the
first message (`HearKeeps`) keep that.

`CoordinatorLinksThreadProofs` proves, for every number of keys, tickets, links and
processes, what the first module could not:

| theorem | |
|---|---|
| `ThreadInductive` | `Spec => [](IInv /\ TInv)` |
| `WelcomedAreHeard` | `Spec => []WelcomedIsHeard` |
| `ConnectedAreKept` | `Spec => []ConnectedIsKept` |
| `FailuresKeepNothing` | `Spec => []FailureKeepsNothing` |
| `LeftStayLeft` | `Spec => []LeftStaysLeft` |
| `ReleaseSpares` | `Spec => ReleaseSparesHeld` |

*Hypothesis.* `OneThread`: there is one request thread, and it does not stop waiting for the
loop.  The first is how the runtime server runs Crow (`http_server.h:84`); the second holds
as long as the loop is never blocked for five seconds.  Section 6 has what happens with two
threads, and with a stalled loop.

*Argument.* What a thread waits for has been done when it goes on (`AskedFor`, `AnswerFits`):
only its own call is under way, and the loop serves its queue in order.  From the end of the
wait on, therefore, its answer and the map speak of the same link.  The lists of tickets are
read under the mutex and written outside it; nothing is installed while the thread is
about to write, nor while the loop is, so a list about to be written covers what is held
(`SavesCover`), and so does what is on disk once it is (`StoreCovers`).  That nothing which was
left is in such a list (`CallsOut`, `ToldOut`) is because the wait before it meant that the loop
was idle in between.  A welcomed link's sink is removed only with the link (`HeldListens`).
Releases in the worker's queue stand behind links that are held no more (`ReleasesPast`), so
that none takes the runtime of a newer one.

`CoordinatorBridgeViewProofs` proves, for every number of boards, runtimes, attachments and
changes and for every length of what is on the wire, whichever updates are missed:

| theorem | |
|---|---|
| `ViewInductive` | `Spec => []Known` |
| `TypeCorrect` | `Spec => []TypeOK` |
| `LatestIsShown` | `Spec => []ShownIsCurrent` |
| `Refines` | `Spec => ShowsWhatWas`: the bridge implements `BoardView` |

*Assumption.* `BoardsAssumption`: of it also that a board has finitely many runtimes, and that
`None` is no set of them.

*Argument.* The page applies a patch when its number follows the one it has.  Numbers are
the coordinator's and start over with a session; what a state *is* are the changes behind
it.  On the wire the messages tell of ever more changes, and between two snapshots changes and
numbers go up together (`Growing`, `Ends`); the page shows the board after some number of
changes, from which the messages on their way go on (`Shows`, `From`).  So a number that follows
means the change that follows, which is the refinement; and when nothing is on its way
what is shown has the last number, hence the last change, unless an update was missed and
is being asked for (`ToldLast`).  That a state shown is the *latest* such one needs a greatest
element of a bounded set of numbers, which `WFMin` gives without induction (`LeastIs`).

`LinkSocketProofs` proves, for every set of messages and every number of them read:

| theorem | |
|---|---|
| `Inductive` | `Spec => []IInv` |
| `TypeCorrect` | `Spec => []TypeOK` |
| `FrontIsKept` | `Spec => []WritesTheFront`: the bytes of a write stay under it |
| `Implements` | `Spec => KeepsItsPromise`: the socket implements `LinkChannel` |

*Assumption.* `NamesAssumption`: `None` and `Torn` are no messages, `None` is no name of an
operation or an address.

*Argument.* What the channel sends next is "the message after those sent"; the code
sends "the front of the queue".  The two agree because what was asked for is what has
gone, then the queue, then what is posted (`Aligned`): asking, queueing and a finished
write each keep that (`AskAligns`, `QueueAligns`, `PopAligns`).  `Stages` says how far a
connection is: it reads exactly while it is open, and writes only then.  The invariant
speaks of connections that are not over; of one that is, only that it stays so, and that
one whose end nobody was told of was closed by its user (`OnlyCloseIsSilent`).

`RuntimePassesProofs` proves, for every pipeline, every number of threads and of slots, passes
nested to any depth, services that throw or not:

| theorem | |
|---|---|
| `Inductive` | `Spec => []IInv` |
| `TypeCorrect` | `Spec => []TypeOK` |
| `DepthCountsNesting` | `Spec => []DepthIsNesting` |
| `HeardAreFinished` | `Spec => []HeardIsFinished` |
| `AnswersBelong` | `Spec => []AnswerBelongsToItsCall` |
| `OneRun` | `Spec => []OneRunPerThread` |
| `CallsBalance` | under `OneCaller`: `Spec => [](IInv /\ BInv)` |
| `BracketsCover` | under `OneCaller`: `Spec => []BracketCoversWork` |

*Assumptions.* `SizeAssumption` (positions are in the pipeline, which bounds are numbers) and
`WorkerAssumption` (each asynchronous service has a worker thread of its own).  `OneCaller`, of
the last two only: one thread begins passes and one service answers from a worker.  With more,
`BracketCoversWork` is false (section 6).

*Argument.* The frames of a thread are nested as calls are: of one run, and those below the
innermost wait inside a service or in `process()` (`Nested`).  The depth is a shared `int` read
and written apart; while no two threads stood in passes it is what the frames of the one
thread count (`Counted`), a depth that was read is still the depth (`Alone`), and so the
frame that reads one is the outermost.  A worker at work stands for the call that started
it: a second call cannot replace what it will answer, as only `Admit` lets one in (`Working`).
A callback is in one place: an outermost frame, a slot, or called (`Waiting`).  For the
announcements, calls announced are balanced (`CallsOpen`): those a thread is inside of, plus
the one a worker is to answer, less one while the flag says that they are the same
call.  A service that answers from a worker does not call in (`CallersIn`), so that a thread is in
at most one of its calls; a flag that is set belongs to a caller that is back from the call,
and the service's own worker, which may call it again and take the flag, is only refused.

`BoardReplacementProofs` proves, for every number of addresses, runtimes, replacements, saves,
edits and changes:

| theorem | |
|---|---|
| `Inductive` | `Spec => []IInv` |
| `TypeCorrect` | `Spec => []TypeOK` |
| `ChangesStay` | `Spec => ChangesStayOnTheirBoard` |
| `NothingRunsOn` | `Spec => []NothingKeepsRunning` |
| `OneLoad` | `Spec => []BoardIsOfOneLoad` |
| `ReadFirst` | `Spec => []ReadBeforeTornDown` |
| `EditsAsked` | `Spec => []EditsAreAskedFor` |
| `DraftsLater` | `Spec => []DraftsAreOfLaterEdits` |

*Assumptions.* `LoadAssumption` (the first load is no replacement's, `None` is no load, address or
runtime, there is a home address, bounds are numbers) and `NoneAssumption` (`None` is no document).

*Argument.* `ChangesStay` holds however replacements overlap, and needs only that the generation
and the count of replacements are what they say (`Counting`, `ChangesInTime`).  All else holds
until replacements overlap or one ends half way (`Undisturbed`); the code promises nothing
then, and section 6 says what it does.  Until then there is one replacement at a time
(`OneAtATime`), what runs is what is shown but for the one that is restoring (`RunsAsShown`,
`Phases`), and each phase knows what is left to remove.  For drafts the queue of writes matters:
after the writes still to come, the last one will be of this load after so many edits
(`Within`).  A write more than one ahead reads the board anew; one that has read already
covers what it read.  That carries what was asked for (`AskedFor`), what a replacement has to
have written before it tears down (`Leaving`), and what a save waits for before it drops
drafts (`Dropping`).  `NewLoads` keeps documents of a replacement that has not restored yet out of
every place, so that a draft is never of a load to come.

*Only model-checked.* Liveness: `RequestsAnswered`, `HeldReconnects`, `StopEnds`,
`RequestsSettle`, `TornDownCloses`, `StaysAttached`, `NothingHangs`, `SentGoesOut`, `AdmitsAgain`
and `ReplacementsEnd` rest on fairness, which is beyond the prover.  Every other property of a
passing run is a theorem.

## 5. What is not modelled, and why

*Of the links*: the secrets an introduction carries, requests that create or remove
nothing (configure, process, set state), results and logs, lengths of backoff.
*Of the bridge*: notifications and log entries (no state of the bridge), binary frames,
sign-in, the data of runs.
*Of the passes*: edits of the pipeline while passes run, sub-runtimes, the log (with it, passes
nobody asked for have runs of their own; here always), what a service computes.
*Of the board*: adding and arranging runtimes and services one by one (an edit stands for
them), saving under a new name, units, waiting for a login, unmounting, several tabs.
*Elsewhere*: everything `PROJECT.json` lists as
`not_modelled`; section 7 says which of it is planned.

## 6. Observed while modelling, and not claimed as runs

* With two request threads (desktop app) `WelcomedIsHeard` fails: a leave clears the sink a
  second thread's introduction has just installed; and two lists of tickets can be
  saved in the opposite order, so `ConnectedIsKept` and `LeftStaysLeft` fail as well.
* With a stalled loop an install task can run after its caller was told "failed".
* A welcome that arrives between the timeout of `introduce` and its drop task lets the
  coordinator have a runtime built for a link that is then dropped; nothing removes it.
* An answer produced on the worker is posted by link, not by connection: it can be
  queued on the next socket of the link.  That sends in the order it was asked
  (`KeepsItsPromise`), and the hello is asked for in `onOpen`, so the answer goes first.
* `link_socket.h:91` says of `close()` that no handler is called afterwards: it runs on the
  strand, so one that is already due is, when the caller is elsewhere (`CoordinatorLinks`
  looks at `disposed` in each).
* A socket closed while its name is being resolved is connected all the same: nobody
  looks at `m_done` before the upgrade is over, and the coordinator sees a connection with
  the link's ticket that says nothing and ends.
* `close()` and `finish()` clear the queue under a write that is under way
  (`link_socket.cpp:185`, `369`); `WritesTheFront` is stated for connections that are not over.
* `handshakeTimeout` is said to bound resolving, connecting and both handshakes together
  (`link_socket.h:39`): the resolver is not under the stream's timer, and the upgrade gets
  the whole of it again.

* *Stop saves none*: `stop()` empties the map, and an introduction on its way to `persist()`
  saves what it then finds; `coordinator_links.h:119` says stop "keeps every ticket".
* *A refused ticket returns*: a list read before the refusal is written after the refusal's
  own, and the next process presents the ticket again (`remotes.md:282`: "for good").
* *A failed deploy costs the link*: during a reconnect it disposes of the running board's
  link, fails, and saves a list with neither (`cloud-boards.md:63`).
* *Two hydrations* that overlap can end in the other order: the open board is marked as
  hydrated while the context holds the other (`index.tsx:489`).
* *A throw leaves the depth*: a service that throws takes its frames off the thread and not
  out of the count; no result of that runtime leaves again until it is made anew.
* *Two threads in one service*: `m_processDeferred` is one flag a service; a second thread's
  call may take it, and two calls deferred one after the other before either has looked at
  it leave one flag for both.  Then one of them announces an end of its own beside its
  worker's, and work goes on that every announcement says is finished.
* *A refused call puts the light out*: an announcement names the service and no call, and the
  overview takes any end for the end (`activity.ts:218`); a call that is refused while a worker
  is at work therefore ends the indicator of the work that goes on (`runtime.cpp:383`:
  "brackets the real duration").  `BracketCoversWork` is about what is announced.
* *Torn boards are drafted*: the timer of a snapshot may run while runtimes are still being
  removed, or while the next board is still being fetched, and keeps the half or empty
  board as the draft of the address, from where it is restored.  Unmounting cancels
  snapshots for this very reason (`BoardContext.tsx:1119`); replacements do not.
* *Edits in the baseline*: a service added before the baseline of a board just opened is
  taken, or configured while it is read, becomes part of the baseline and is in no draft
  until the next edit (`boardSnapshots.ts:53`: "unless a person changed something").
* *Edits during a save*: one made after its service was read is in the draft that the save
  then drops, and not in the save (`PlaygroundController.ts:169`: "the save holds the same
  board").
* *Overlapping replacements*: the second finds no scope for a runtime that the first has
  removed and rejects, so that its address is never fetched; or both restore, and the
  runtimes of the one that ends first keep running on no page.  The same is true of a
  restoring that fails half way.

## 7. Plan

Every safety property of the five components modelled so far is proved, and the two
refinements are.  What is left, in this order, each with its runs, mutants and, where
marked (P), proofs:

1. `CoordinatorLinks` over `LinkSocket` in place of its own channel: the order of a hello and
   of late answers.
2. `SubRuntime` composed with `RuntimePasses`: passes that cross into a nested pipeline, and the
   run they stand in there (P).
3. `WsTickets` and the sockets of a runtime; `RestScope`, the browser's end of them.
4. `StreamBroadcast`, `Timer`, `Hold`, `Gather`: bounded buffers and flow control.  (P) bounds.
5. The order of a deployment; pure rules over a board document, against reference definitions.
