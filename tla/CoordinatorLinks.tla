-------------------------- MODULE CoordinatorLinks --------------------------
(***************************************************************************)
(* A runtime server's end of its coordinators' connections:                *)
(* hkp-rt/lib/src/coordinator_links.cpp.                                   *)
(*                                                                         *)
(* A client introduces this server to a coordinator with a ticket that     *)
(* speaks for one runtime of one board (a key).  The server opens a        *)
(* connection, keeps the ticket in a store that survives the process, and  *)
(* reconnects on its own until the ticket is refused or the board is left. *)
(* Over a connection the coordinator builds and removes that runtime.      *)
(*                                                                         *)
(* Four kinds of thread share the state, and every action below is one     *)
(* step of one of them:                                                    *)
(*   - the API threads, on which introduce and remove run and block;       *)
(*   - the event loop, one thread: tasks posted to it run in order, and    *)
(*     socket and timer handlers run between them;                         *)
(*   - the worker, one thread: what a coordinator asks, in order;          *)
(*   - the thread that stops the server.                                   *)
(* The coordinator and the network are the environment.  A ticket stands   *)
(* for the whole record it is kept with, because it is issued for one key  *)
(* by one coordinator.  Secrets, addresses, the data of a run and the      *)
(* length of the delays are left out.                                      *)
(***************************************************************************)
EXTENDS Naturals, Sequences, FiniteSets

CONSTANTS
  Keys,         \* (board, runtime id) pairs
  Coordinators,
  Tickets,
  KeyOf,        \* KeyOf[t]: the key ticket t speaks for
  CoordOf,      \* CoordOf[t]: the coordinator that issued t
  Links,        \* Link objects one process can make: bounds introductions
  Apis,         \* threads on which requests are handled
  Stopper,      \* the thread that stops the server
  Stalls,       \* whether the loop may keep a caller waiting past 5 seconds
  MayStop,      \* whether the server may be asked to stop
  MaxWork,      \* bound on what coordinators have asked and not been served
  MaxStarts,    \* bound on the number of processes
  None

ASSUME TicketsAssumption ==
  /\ KeyOf \in [Tickets -> Keys]
  /\ CoordOf \in [Tickets -> Coordinators]

ASSUME NamesAssumption ==
  /\ None \notin Keys \cup Tickets \cup Links \cup Apis
  /\ Stopper \notin Apis
  /\ Stalls \in BOOLEAN /\ MayStop \in BOOLEAN
  /\ MaxWork \in Nat /\ MaxStarts \in Nat

VARIABLES
  store,     \* the tickets in the LinkStore, which outlives the process
  starts,    \* how many processes there have been
  up,        \* whether one is running
  rec,       \* rec[l]: the ticket Link object l was made with
  links,     \* links[k]: the link held for key k
  phase,     \* phase[l]: where the connection of l is
  disposed,  \* the links stopped for good
  outcome,   \* outcome[l]: how the first attempt of l went (onFirst)
  sinks,     \* sinks[k]: the link listening to the output of runtime k
  runtime,   \* runtime[k]: the link over which runtime k was built
  loopq,     \* tasks posted to the event loop
  loop,      \* what the loop is in the middle of
  workq,     \* tasks posted to the worker
  api,       \* api[t]: what API thread t is doing
  stopping,  \* how far stop() has come
  held,      \* the links stop() collected
  told,      \* told[l]: what introduce(), and then remove(), returned for l
  revoked    \* history: links whose ticket the coordinator took back

linkVars == <<rec, links, phase, disposed, outcome>>
appVars  == <<sinks, runtime>>
stopVars == <<stopping, held>>
lifeVars == <<starts, up>>
histVars == <<told, revoked>>
vars == <<store, lifeVars, linkVars, appVars, loopq, loop, workq, api,
          stopVars, histVars>>

-----------------------------------------------------------------------------
Phases == {"fresh", "opening", "open", "welcomed", "retrying", "due", "closed"}
Outcomes == {"none", "welcomed", "failed"}
CallSteps == {"install", "await", "drop", "dispose", "release",
             "persist", "save"}
StopSteps == {"no", "marked", "disposing", "done"}
Tasks == [op : {"install", "drop", "dispose"}, link : Links, by : Apis]
           \cup [op : {"stop"}, link : {None}, by : {Stopper}]
Requests == {"provision", "remove"}
Work == [op : Requests \cup {"release"}, link : Links]

LinkKey(l) == KeyOf[rec[l]]
HeldLink(l) == rec[l] # None /\ links[LinkKey(l)] = l
Welcomed(l) == phase[l] = "welcomed"
Connected(l) == phase[l] \in {"opening", "open", "welcomed"}
stopped == stopping # "no"

\* What persist() writes: the record of every link in the map.
MutRecordsEmpty ==
  {IF links[k] = None THEN None ELSE rec[links[k]] : k \in Keys}
MutRecordsWelcomed ==
  {rec[links[k]] : k \in {j \in Keys : links[j] # None /\ Welcomed(links[j])}}
Records == {rec[links[k]] : k \in {j \in Keys : links[j] # None}}

Answers == {"none", "connected", "failed", "left"}
Call(at, link, answer, snap) ==
  [at |-> at, link |-> link, answer |-> answer, snap |-> snap]
Idle == Call("idle", None, "none", {})
Calls == [at : CallSteps, link : Links, answer : Answers,
          snap : SUBSET Tickets]
LoopIdle == [at |-> "idle", snap |-> {}]

TypeOK ==
  /\ store \in SUBSET Tickets
  /\ starts \in 0..MaxStarts
  /\ up \in BOOLEAN
  /\ rec \in [Links -> Tickets \cup {None}]
  /\ links \in [Keys -> Links \cup {None}]
  /\ phase \in [Links -> Phases]
  /\ disposed \in SUBSET Links
  /\ outcome \in [Links -> Outcomes]
  /\ sinks \in [Keys -> Links \cup {None}]
  /\ runtime \in [Keys -> Links \cup {None}]
  /\ loopq \in Seq(Tasks)
  /\ loop \in [at : {"idle", "persist", "save"}, snap : SUBSET Tickets]
  /\ workq \in Seq(Work)
  /\ api \in [Apis -> Calls \cup {Idle}]
  /\ stopping \in StopSteps
  /\ held \in SUBSET Links
  /\ told \in [Links -> Answers]
  /\ revoked \in SUBSET Links

-----------------------------------------------------------------------------
(* The process: memory is lost when it ends, the store is not.             *)

Memory ==
  /\ rec = [l \in Links |-> None]
  /\ links = [k \in Keys |-> None]
  /\ phase = [l \in Links |-> "fresh"]
  /\ disposed = {}
  /\ outcome = [l \in Links |-> "none"]
  /\ sinks = [k \in Keys |-> None]
  /\ runtime = [k \in Keys |-> None]
  /\ loopq = << >>
  /\ loop = LoopIdle
  /\ workq = << >>
  /\ api = [t \in Apis |-> Idle]
  /\ stopping = "no"
  /\ held = {}
  /\ told = [l \in Links |-> "none"]
  /\ revoked = {}

Forget ==
  /\ rec' = [l \in Links |-> None]
  /\ links' = [k \in Keys |-> None]
  /\ phase' = [l \in Links |-> "fresh"]
  /\ disposed' = {}
  /\ outcome' = [l \in Links |-> "none"]
  /\ sinks' = [k \in Keys |-> None]
  /\ runtime' = [k \in Keys |-> None]
  /\ loopq' = << >>
  /\ loop' = LoopIdle
  /\ workq' = << >>
  /\ api' = [t \in Apis |-> Idle]
  /\ stopping' = "no"
  /\ held' = {}
  /\ told' = [l \in Links |-> "none"]
  /\ revoked' = {}

Init ==
  /\ store = {}
  /\ starts = 0
  /\ up = FALSE
  /\ Memory

\* restore(), before the server takes requests: one link for every record.
Start ==
  /\ ~up
  /\ starts < MaxStarts
  /\ starts' = starts + 1
  /\ up' = TRUE
  /\ \E made \in [store -> Links] :
       /\ \A s, t \in store : made[s] = made[t] => s = t
       /\ LET Restored == {made[t] : t \in store}
              Held(k) == {t \in store : KeyOf[t] = k}
              Of(k) == IF Held(k) = {} THEN None
                       ELSE made[CHOOSE t \in Held(k) : TRUE]
          IN /\ rec' = [l \in Links |->
                          IF l \in Restored
                          THEN CHOOSE t \in store : made[t] = l ELSE None]
             /\ links' = [k \in Keys |-> Of(k)]
             /\ sinks' = [k \in Keys |-> Of(k)]
             /\ phase' = [l \in Links |->
                            IF l \in Restored THEN "opening" ELSE "fresh"]
  /\ UNCHANGED <<store, disposed, outcome, runtime, loopq, loop, workq, api,
                 stopVars, histVars>>

\* The process is gone between any two steps.
Crash ==
  /\ up
  /\ up' = FALSE
  /\ Forget
  /\ UNCHANGED <<store, starts>>

\* main() returns once the server has stopped and its handlers are done.
Exit ==
  /\ up
  /\ stopping = "done"
  /\ \A t \in Apis : api[t] = Idle
  /\ loop = LoopIdle
  /\ up' = FALSE
  /\ Forget
  /\ UNCHANGED <<store, starts>>

-----------------------------------------------------------------------------
(* Tasks, and what several of them do.  A definition named Mut... is a      *)
(* plausible mistake in the one that follows it, for the mutation checks.   *)

Post(op, l, by) == loopq' = Append(loopq, [op |-> op, link |-> l, by |-> by])

\* onLoop waits for its task, but not for longer than five seconds.
MutWaitedNot(t) == TRUE
Waited(t) == Stalls \/ \A i \in DOMAIN loopq : loopq[i].by # t

\* dispose(): a timer that has already expired is past cancelling.
Disposed(ls) ==
  [l \in Links |-> IF l \in ls /\ phase[l] # "due" THEN "closed" ELSE phase[l]]

\* listenTo(): the link takes over from whatever listened to its runtime.
MutListenEmplaces(l) ==
  sinks' = [sinks EXCEPT ![LinkKey(l)] = IF @ = None THEN l ELSE @]
ListenTo(l) == sinks' = [sinks EXCEPT ![LinkKey(l)] = l]

\* The link leaves the map and stops listening to its runtime.
Unlist(l) ==
  /\ links' = [links EXCEPT ![LinkKey(l)] = None]
  /\ sinks' = [sinks EXCEPT ![LinkKey(l)] = None]

\* The link an introduction takes the place of.
MutReplacedConnected(l) == {links[LinkKey(l)]} \cap {m \in Links : Connected(m)}
Replaced(l) == {links[LinkKey(l)]} \ {None}

\* open(): nothing for a link that is disposed, nor once the server stops.
MutMayOpenDisposed(l) == ~stopped
MayOpen(l) == l \notin disposed /\ ~stopped

\* retry(): a timer, unless the server stops.
MutRetryWelcomed(l) ==
  IF stopped \/ phase[l] # "welcomed" THEN "closed" ELSE "retrying"
Retry(l) == IF stopped THEN "closed" ELSE "retrying"

\* reject(): the worker releases the runtime, after whatever the coordinator
\* last asked for.
MutReleaseBuilt(l) ==
  workq' = IF runtime[LinkKey(l)] = None THEN workq
           ELSE Append(workq, [op |-> "release", link |-> l])
Release(l) == workq' = Append(workq, [op |-> "release", link |-> l])

\* settleFirst(): told once.
Settle(l, result) ==
  outcome' = [outcome EXCEPT ![l] = IF @ = "none" THEN result ELSE @]

-----------------------------------------------------------------------------
(* API threads: introduce() and remove().                                  *)

ApiGo(t, at) ==
  api' = [api EXCEPT ![t] = Call(at, @.link, @.answer, @.snap)]

Serving(t) == up /\ stopping # "done" /\ api[t].at = "idle"

\* A runtime whose link is welcomed keeps it: only the secrets are taken, or
\* the introduction refused, and neither changes anything here.
Introduce(t, tk) ==
  /\ Serving(t)
  /\ LET current == links[KeyOf[tk]]
     IN ~(current # None /\ Welcomed(current))
  /\ \E l \in Links :
       /\ rec[l] = None
       /\ rec' = [rec EXCEPT ![l] = tk]
       /\ Post("install", l, t)
       /\ api' = [api EXCEPT ![t] = Call("install", l, "failed", {})]
  /\ UNCHANGED <<store, lifeVars, links, phase, disposed, outcome, appVars,
                 loop, workq, stopVars, histVars>>

Installed(t) ==
  /\ up
  /\ api[t].at = "install"
  /\ Waited(t)
  /\ ApiGo(t, "await")
  /\ UNCHANGED <<store, lifeVars, linkVars, appVars, loopq, loop, workq,
                 stopVars, histVars>>

Accepted(t) ==
  /\ up
  /\ api[t].at = "await"
  /\ outcome[api[t].link] = "welcomed"
  /\ api' = [api EXCEPT ![t] = Call("persist", @.link, "connected", {})]
  /\ UNCHANGED <<store, lifeVars, linkVars, appVars, loopq, loop, workq,
                 stopVars, histVars>>

\* The coordinator said no, or nothing within introduceTimeout.
MutGiveUpTold(t) ==
  /\ up
  /\ api[t].at = "await"
  /\ outcome[api[t].link] = "failed"
  /\ Post("drop", api[t].link, t)
  /\ ApiGo(t, "drop")
  /\ UNCHANGED <<store, lifeVars, linkVars, appVars, loop, workq, stopVars,
                 histVars>>

GiveUp(t) ==
  /\ up
  /\ api[t].at = "await"
  /\ outcome[api[t].link] # "welcomed"
  /\ Post("drop", api[t].link, t)
  /\ ApiGo(t, "drop")
  /\ UNCHANGED <<store, lifeVars, linkVars, appVars, loop, workq, stopVars,
                 histVars>>

Dropped(t) ==
  /\ up
  /\ api[t].at = "drop"
  /\ Waited(t)
  /\ ApiGo(t, "persist")
  /\ UNCHANGED <<store, lifeVars, linkVars, appVars, loopq, loop, workq,
                 stopVars, histVars>>

\* persist(): the records are read under the lock and written outside it.
Snapshot(t) ==
  /\ up
  /\ api[t].at = "persist"
  /\ api' = [api EXCEPT ![t] = Call("save", @.link, @.answer, Records)]
  /\ UNCHANGED <<store, lifeVars, linkVars, appVars, loopq, loop, workq,
                 stopVars, histVars>>

\* ... and the caller is answered.
Save(t) ==
  /\ up
  /\ api[t].at = "save"
  /\ store' = api[t].snap
  /\ api' = [api EXCEPT ![t] = Idle]
  /\ told' = [told EXCEPT ![api[t].link] = api[t].answer]
  /\ UNCHANGED <<lifeVars, linkVars, appVars, loopq, loop, workq, stopVars,
                 revoked>>

Remove(t, k) ==
  /\ Serving(t)
  /\ links[k] # None
  /\ links' = [links EXCEPT ![k] = None]
  /\ Post("dispose", links[k], t)
  /\ api' = [api EXCEPT ![t] = Call("dispose", links[k], "left", {})]
  /\ UNCHANGED <<store, lifeVars, rec, phase, disposed, outcome, appVars, loop,
                 workq, stopVars, histVars>>

RemoveSink(t) ==
  /\ up
  /\ api[t].at = "dispose"
  /\ Waited(t)
  /\ sinks' = [sinks EXCEPT ![LinkKey(api[t].link)] = None]
  /\ ApiGo(t, "release")
  /\ UNCHANGED <<store, lifeVars, linkVars, runtime, loopq, loop, workq,
                 stopVars, histVars>>

RemoveRuntime(t) ==
  /\ up
  /\ api[t].at = "release"
  /\ runtime' = [runtime EXCEPT ![LinkKey(api[t].link)] = None]
  /\ ApiGo(t, "persist")
  /\ UNCHANGED <<store, lifeVars, linkVars, sinks, loopq, loop, workq,
                 stopVars, histVars>>

ApiStep(t) ==
  \/ Installed(t) \/ Accepted(t) \/ GiveUp(t) \/ Dropped(t)
  \/ RemoveSink(t) \/ RemoveRuntime(t) \/ Snapshot(t) \/ Save(t)

-----------------------------------------------------------------------------
(* The event loop: posted tasks, in order.                                 *)

TaskIs(op) == up /\ loop.at = "idle" /\ loopq # << >> /\ Head(loopq).op = op

\* The new link takes the place of an earlier one, whose runtime stays.
RunInstall ==
  /\ TaskIs("install")
  /\ LET l == Head(loopq).link
     IN /\ links' = [links EXCEPT ![LinkKey(l)] = l]
        /\ disposed' = disposed \cup Replaced(l)
        /\ ListenTo(l)
        /\ phase' = [Disposed(Replaced(l)) EXCEPT
                       ![l] = IF MayOpen(l) THEN "opening" ELSE @]
  /\ loopq' = Tail(loopq)
  /\ UNCHANGED <<store, lifeVars, rec, outcome, runtime, loop, workq, api,
                 stopVars, histVars>>

\* A failed introduction keeps nothing.
RunDrop ==
  /\ TaskIs("drop")
  /\ LET l == Head(loopq).link
     IN /\ disposed' = disposed \cup {l}
        /\ phase' = Disposed({l})
        /\ \/ HeldLink(l) /\ Unlist(l)
           \/ ~HeldLink(l) /\ UNCHANGED <<links, sinks>>
  /\ loopq' = Tail(loopq)
  /\ UNCHANGED <<store, lifeVars, rec, outcome, runtime, loop, workq, api,
                 stopVars, histVars>>

\* What remove() and stop() post.
RunDispose ==
  /\ TaskIs("dispose") \/ TaskIs("stop")
  /\ LET ls == IF Head(loopq).op = "stop" THEN held ELSE {Head(loopq).link}
     IN /\ disposed' = disposed \cup ls
        /\ phase' = Disposed(ls)
  /\ loopq' = Tail(loopq)
  /\ UNCHANGED <<store, lifeVars, rec, links, outcome, appVars, loop, workq,
                 api, stopVars, histVars>>

-----------------------------------------------------------------------------
(* The event loop: what a socket or a timer reports.                       *)

Hears(l) == up /\ loop.at = "idle" /\ l \notin disposed

\* onOpen: the upgrade went through, and hello is sent.
Opened(l) ==
  /\ Hears(l)
  /\ phase[l] = "opening"
  /\ phase' = [phase EXCEPT ![l] = "open"]
  /\ UNCHANGED <<store, lifeVars, rec, links, disposed, outcome, appVars,
                 loopq, loop, workq, api, stopVars, histVars>>

WelcomeArrives(l) ==
  /\ Hears(l)
  /\ phase[l] = "open"
  /\ phase' = [phase EXCEPT ![l] = "welcomed"]
  /\ Settle(l, "welcomed")
  /\ UNCHANGED <<store, lifeVars, rec, links, disposed, appVars, loopq, loop,
                 workq, api, stopVars, histVars>>

Asked == {i \in DOMAIN workq : workq[i].op \in Requests}
RequestArrives(l, op) ==
  /\ Hears(l)
  /\ Welcomed(l)
  /\ Cardinality(Asked) < MaxWork
  /\ workq' = Append(workq, [op |-> op, link |-> l])
  /\ UNCHANGED <<store, lifeVars, linkVars, appVars, loopq, loop, api,
                 stopVars, histVars>>

\* onClosed, unless the ticket was refused: try again later.
ConnectionLost(l) ==
  /\ Hears(l)
  /\ Connected(l)
  /\ phase' = [phase EXCEPT ![l] = Retry(l)]
  /\ Settle(l, "failed")
  /\ UNCHANGED <<store, lifeVars, rec, links, disposed, appVars, loopq, loop,
                 workq, api, stopVars, histVars>>

\* The timer expires: its handler is queued, and no longer cancelled.
TimerExpires(l) ==
  /\ up
  /\ phase[l] = "retrying"
  /\ phase' = [phase EXCEPT ![l] = "due"]
  /\ UNCHANGED <<store, lifeVars, rec, links, disposed, outcome, appVars,
                 loopq, loop, workq, api, stopVars, histVars>>

Reopen(l) ==
  /\ up /\ loop.at = "idle"
  /\ phase[l] = "due"
  /\ phase' = [phase EXCEPT ![l] = IF MayOpen(l) THEN "opening" ELSE "closed"]
  /\ UNCHANGED <<store, lifeVars, rec, links, disposed, outcome, appVars,
                 loopq, loop, workq, api, stopVars, histVars>>

\* onClosed with 401, 403, 4403 or 4409, and reject().
TicketRefused(l) ==
  /\ Hears(l)
  /\ Connected(l)
  /\ disposed' = disposed \cup {l}
  /\ phase' = Disposed({l})
  /\ Settle(l, "failed")
  /\ \/ /\ HeldLink(l)
        /\ Unlist(l)
        /\ Release(l)
        /\ loop' = [at |-> "persist", snap |-> {}]
        /\ revoked' = revoked \cup {l}
     \/ /\ ~HeldLink(l)
        /\ UNCHANGED <<links, sinks, workq, loop, revoked>>
  /\ UNCHANGED <<store, lifeVars, rec, runtime, loopq, api, stopVars, told>>

\* reject() ends with persist(), on the loop's own thread.
LoopSnapshot ==
  /\ up
  /\ loop.at = "persist"
  /\ loop' = [at |-> "save", snap |-> Records]
  /\ UNCHANGED <<store, lifeVars, linkVars, appVars, loopq, workq, api,
                 stopVars, histVars>>

LoopSave ==
  /\ up
  /\ loop.at = "save"
  /\ store' = loop.snap
  /\ loop' = LoopIdle
  /\ UNCHANGED <<lifeVars, linkVars, appVars, loopq, workq, api, stopVars,
                 histVars>>

LoopStep ==
  \/ RunInstall \/ RunDrop \/ RunDispose \/ LoopSnapshot \/ LoopSave

-----------------------------------------------------------------------------
(* The worker: one task at a time, in the order they were asked.  Whether   *)
(* the link still lives is not looked at.                                   *)

MutServeAnyOrder ==
  /\ up
  /\ stopping # "done"
  /\ \E i \in DOMAIN workq :
       /\ runtime' = [runtime EXCEPT ![LinkKey(workq[i].link)] =
                        IF workq[i].op = "provision"
                        THEN workq[i].link ELSE None]
       /\ workq' = SubSeq(workq, 1, i - 1) \o SubSeq(workq, i + 1, Len(workq))
  /\ UNCHANGED <<store, lifeVars, linkVars, sinks, loopq, loop, api, stopVars,
                 histVars>>

Serve ==
  /\ up
  /\ stopping # "done"
  /\ workq # << >>
  /\ LET task == Head(workq)
     IN runtime' = [runtime EXCEPT ![LinkKey(task.link)] =
                      IF task.op = "provision" THEN task.link ELSE None]
  /\ workq' = Tail(workq)
  /\ UNCHANGED <<store, lifeVars, linkVars, sinks, loopq, loop, api, stopVars,
                 histVars>>

-----------------------------------------------------------------------------
(* stop(): closes every connection.                                        *)

StopMark ==
  /\ MayStop
  /\ up
  /\ stopping = "no"
  /\ stopping' = "marked"
  /\ UNCHANGED <<store, lifeVars, linkVars, appVars, loopq, loop, workq, api,
                 held, histVars>>

StopCollect ==
  /\ up
  /\ stopping = "marked"
  /\ stopping' = "disposing"
  /\ held' = {links[k] : k \in Keys} \ {None}
  /\ links' = [k \in Keys |-> None]
  /\ Post("stop", None, Stopper)
  /\ UNCHANGED <<store, lifeVars, rec, phase, disposed, outcome, appVars, loop,
                 workq, api, histVars>>

\* The sinks are cleared, and the worker stopped with its queue unserved.
StopFinish ==
  /\ up
  /\ stopping = "disposing"
  /\ Waited(Stopper)
  /\ stopping' = "done"
  /\ sinks' = [k \in Keys |->
                 IF \E l \in held : LinkKey(l) = k THEN None ELSE sinks[k]]
  /\ UNCHANGED <<store, lifeVars, linkVars, runtime, loopq, loop, workq, api,
                 held, histVars>>

StopStep == StopCollect \/ StopFinish \/ Exit

-----------------------------------------------------------------------------
Next ==
  \/ Start \/ Crash \/ Exit
  \/ \E t \in Apis :
       \/ \E tk \in Tickets : Introduce(t, tk)
       \/ \E k \in Keys : Remove(t, k)
       \/ ApiStep(t)
  \/ LoopStep
  \/ \E l \in Links :
       \/ Opened(l) \/ WelcomeArrives(l) \/ ConnectionLost(l)
       \/ TimerExpires(l) \/ Reopen(l) \/ TicketRefused(l)
       \/ \E op \in Requests : RequestArrives(l, op)
  \/ Serve
  \/ StopMark \/ StopCollect \/ StopFinish

Spec == Init /\ [][Next]_vars

-----------------------------------------------------------------------------
(* Properties.                                                             *)

Live(l) == rec[l] # None /\ l \notin disposed

\* Somebody is committed to installing or to disposing of link l.
Pending(l, ops) ==
  \E i \in DOMAIN loopq : loopq[i].link = l /\ loopq[i].op \in ops
Leaving(l) ==
  \/ Pending(l, {"drop", "dispose"})
  \/ l \in held /\ \E i \in DOMAIN loopq : loopq[i].op = "stop"

\* A link that is still alive is the one held for its key, or is on its way
\* in or out: no connection outlives its place in the map, whichever threads
\* replace, remove, refuse and stop links at the same time.
NoStrayLink ==
  \A l \in Links :
    Live(l) => HeldLink(l) \/ Pending(l, {"install"}) \/ Leaving(l)

\* dispose() is for good: not even a reconnect whose timer had already expired
\* opens the connection again.
DisposedStaysDown ==
  \A l \in disposed : ~Connected(l) /\ phase[l] # "retrying"

\* Over a welcomed link the coordinator hears its runtime: the output goes to
\* the link that is held, not to an earlier one and not nowhere.
WelcomedIsHeard ==
  \A l \in Links :
    HeldLink(l) /\ Welcomed(l) => sinks[LinkKey(l)] = l

\* Once a client has been told "connected", the ticket is on disk for as long
\* as the link is held: a crash costs the board nothing.
ConnectedIsKept ==
  \A l \in Links :
    told[l] = "connected" /\ HeldLink(l) => rec[l] \in store

\* The ticket of a link a client was told is gone is not on disk, unless
\* another link came with the same one.
Forgotten(l) == rec[l] \in store => \E m \in Links \ {l} : rec[m] = rec[l]

\* A client that was told "failed" leaves no link and no ticket behind.
FailureKeepsNothing ==
  \A l \in Links :
    told[l] = "failed" => l \in disposed /\ ~HeldLink(l) /\ Forgotten(l)

\* Leaving a board is for good: its ticket does not come back to the disk,
\* although others are written there by the loop at the same time.
LeftStaysLeft == \A l \in Links : told[l] = "left" => Forgotten(l)

\* When a coordinator has taken a ticket back, the runtime built over that
\* link is gone or its release is queued: what the coordinator had asked for
\* before cannot build it again afterwards.
RevokedIsReleased ==
  \A l \in revoked :
    runtime[LinkKey(l)] = l =>
      \E i \in DOMAIN workq :
        workq[i].op = "release" /\ LinkKey(workq[i].link) = LinkKey(l)

\* The runtime built over the link that is held goes only because a coordinator
\* asked for that: the release queued for a link that was refused takes away
\* that link's runtime or an earlier one's, never one built since.
ReleaseSparesHeld ==
  [][\A k \in Keys :
       runtime[k] # None /\ runtime[k] = links[k] /\ runtime'[k] = None /\ up'
         => Cardinality(Asked') < Cardinality(Asked)]_vars

-----------------------------------------------------------------------------
(* What the documentation says and some interleaving of the code breaks.   *)

\* "Leaves a board: drops the link and the runtime it was for": once nothing
\* is asked of the worker any more, no runtime built over that link is there.
LeftIsGone ==
  \A l \in Links :
    told[l] = "left" /\ workq = << >> => runtime[LinkKey(l)] # l

-----------------------------------------------------------------------------
(* Liveness.  The threads of the process are scheduled; a timer that is     *)
(* armed expires; a coordinator that keeps being dialled lets a connection  *)
(* through, and welcomes it, again and again.                               *)

Fairness ==
  /\ WF_vars(LoopStep) /\ WF_vars(Serve) /\ WF_vars(StopStep)
  /\ \A t \in Apis : WF_vars(ApiStep(t))
  /\ \A l \in Links :
       /\ WF_vars(TimerExpires(l)) /\ WF_vars(Reopen(l))
       /\ SF_vars(Opened(l)) /\ SF_vars(WelcomeArrives(l))

FairSpec == Spec /\ Fairness

\* Whoever introduces a coordinator or leaves a board hears back.
RequestsAnswered ==
  \A t \in Apis : api[t].at # "idle" ~> api[t].at = "idle"

\* A link that is held is welcomed in the end, however often its connection
\* is lost, unless it is given up.
HeldReconnects ==
  \A l \in Links : HeldLink(l) ~> (Welcomed(l) \/ ~HeldLink(l))

\* Once asked to, the server stops: nobody waits for somebody who waits.
StopEnds == stopped ~> ~up
=============================================================================
