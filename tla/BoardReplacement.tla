-------------------------- MODULE BoardReplacement --------------------------
(***************************************************************************)
(* Replacing the board of a playground, and the drafts kept of it:         *)
(* hkp-frontend/src/BoardContext.tsx with core/boardPersistence.ts,        *)
(* core/runtimeOperations.ts, core/boardSnapshots.ts, core/boardDrafts.ts, *)
(* core/blockActions.ts and views/playground/PlaygroundController.ts.      *)
(*                                                                         *)
(* A replacement is a chain of awaits on one thread of JavaScript: what is *)
(* read before an await may be stale after it, and nothing keeps a second  *)
(* replacement from starting meanwhile.  A visit leaves the board for the  *)
(* one at another address (clearBoard, then fetchBoard); an opening puts a *)
(* dropped, imported or generated board in its place (setBoardState); a    *)
(* clearing leaves the page empty.  A save keeps the board at its address  *)
(* and drops the drafts of it.                                             *)
(*                                                                         *)
(* Every replacement builds a load of its own: runtimes that share their   *)
(* ids with those of other boards.  The state React holds (shown) is ahead *)
(* of the render the operations read (seen).  Delays are arbitrary: a      *)
(* timer may run at any time after it was set.                             *)
(***************************************************************************)
EXTENDS Integers, Sequences

CONSTANTS
  Addresses,  \* addresses of boards: the names a draft is kept under
  Home,       \* the address that is open at first
  Ids,        \* ids of the runtimes, the same on every board
  Jobs,       \* replacements, each done once
  Saves,      \* saves of the board, each done once
  First,      \* the load that is on the page at first
  Changes,    \* changes to assets or block parameters, each made once
  MaxEdits,   \* bound on the edits of one board by the person
  MaxWrites,  \* bound on the snapshots queued when the timer runs
  None

Loads == Jobs \cup {First}

ASSUME LoadAssumption ==
  /\ First \notin Jobs /\ None \notin Loads \cup Addresses \cup Ids
  /\ Home \in Addresses /\ MaxEdits \in Nat /\ MaxWrites \in Nat

VARIABLES
  route,       \* the address the playground is at (routeBoardRef)
  running,     \* the runtimes that run: << load, id >>
  shown,       \* the state React holds: load, ids, and the load of the facade,
               \* the linkage and the assets (shell)
  seen,        \* the same as of the last render (providerStateRef)
  doc,         \* doc[l]: what load l was opened from
  edits,       \* edits[l]: how often load l was edited, in all
  job,         \* job[j]: where replacement j is
  replacing,   \* replacingBoardsRef
  generation,  \* boardGenerationRef
  fetched,     \* initialFetchedRef
  save,        \* save[v]: where save v is
  change,      \* change[c]: where a change of assets or parameters is
  pending,     \* a snapshot is asked for and its timer set
  byPerson,    \* pendingConfiguration
  rebasing,    \* the next snapshot is the baseline
  writes,      \* queued snapshots: whether each is only the baseline
  reading,     \* what the snapshot being taken has read, or None
  lastWritten, \* the last snapshot, as written or remembered
  drafts,      \* drafts[a]: the draft kept under address a, or None
  saved,       \* saved[a]: the board saved at address a
  disturbed    \* whether replacements ever overlapped, or one failed half way

boardVars == << running, shown, doc >>
jobVars == << job, replacing, generation, fetched >>
pendingVars == << pending, byPerson, rebasing >>
keptVars == << lastWritten, drafts, saved >>
writeVars == << writes, reading, keptVars >>
vars == << route, boardVars, seen, edits, jobVars, save, change, pendingVars,
           writeVars, disturbed >>

-----------------------------------------------------------------------------
\* A board as it is kept: the address it was opened at, the load it was read
\* from, which of its runtimes are in it, and how far it was edited.
Document ==
  [of : Addresses \cup {None}, load : Loads \cup {None},
   ids : SUBSET Ids, edits : 0..MaxEdits]

ASSUME NoneAssumption == None \notin Document

\* A board of all the runtimes, that nobody has edited.
Plain(a) == [of |-> a, load |-> None, ids |-> Ids, edits |-> 0]

State ==
  [load : Loads \cup {None}, ids : SUBSET Ids, shell : Loads \cup {None}]

\* left: writes to await; had: how far the board it replaces had been edited;
\* ids: runtimes still to remove; it: the one being removed; target: what its
\* scope led to.
Job ==
  [pc : {"idle", "flushing", "linking", "removing", "awaiting", "fetching",
         "restoring", "done"},
   kind : {"visit", "open", "clear"}, left : Nat, had : 0..MaxEdits,
   ids : SUBSET Ids, it : Ids \cup {None}, target : (Loads \X Ids) \cup {None}]
IdleJob ==
  [pc |-> "idle", kind |-> "open", left |-> 0, had |-> 0, ids |-> {},
   it |-> None, target |-> None]
UnderWay(j) == job[j].pc \notin {"idle", "done"}

\* what: what has been read; names: where its drafts are.
Save ==
  [pc : {"idle", "reading", "flushing", "done"}, left : Nat,
   what : Document \cup {None}, names : SUBSET Addresses]
IdleSave == [pc |-> "idle", left |-> 0, what |-> None, names |-> {}]

IdleChange == [pc |-> "idle", load |-> None, generation |-> 0]

\* The runtimes that a state or a render holds.
Runtimes(s) == {s.load} \X s.ids

\* A board was just opened at Home: its baseline is still to be read.
Init ==
  /\ route = Home
  /\ shown = [load |-> First, ids |-> Ids, shell |-> First] /\ seen = shown
  /\ running = Runtimes(shown)
  /\ doc = [l \in Loads |-> Plain(Home)] /\ edits = [l \in Loads |-> 0]
  /\ job = [j \in Jobs |-> IdleJob] /\ save = [v \in Saves |-> IdleSave]
  /\ replacing = 0 /\ generation = 0 /\ fetched = TRUE
  /\ change = [c \in Changes |-> IdleChange]
  /\ pending = TRUE /\ byPerson = FALSE /\ rebasing = TRUE
  /\ writes = << >> /\ reading = None /\ lastWritten = None
  /\ drafts = [a \in Addresses |-> None]
  /\ saved = [a \in Addresses |-> Plain(a)]
  /\ disturbed = FALSE

-----------------------------------------------------------------------------
(* The snapshots (core/boardSnapshots.ts).                                  *)

\* schedule(): a request marks the board as changed and sets the timer.
Schedule(person) ==
  /\ pending' = TRUE
  /\ byPerson' = (byPerson \/ person)
  /\ UNCHANGED rebasing

\* Mutant: the baseline is not taken at all.
MutQueued == IF pending /\ ~rebasing THEN Append(writes, FALSE) ELSE writes

\* flush(): what is pending is queued, behind the snapshots being taken.
Queued ==
  IF pending THEN Append(writes, rebasing /\ ~byPerson) ELSE writes

\* Mutant: the flush is started, and what was queued before is not awaited.
MutToAwait == 0

\* How many writes whoever flushes now has to await: all there are.
ToAwait == Len(Queued)

Flush ==
  /\ writes' = Queued
  /\ pending' = FALSE
  /\ byPerson' = (byPerson /\ ~pending)
  /\ rebasing' = (rebasing /\ ~pending)
  /\ UNCHANGED reading

\* The timer runs, or the tab is hidden.
TimerFires ==
  /\ pending /\ Len(writes) < MaxWrites
  /\ Flush
  /\ UNCHANGED << route, boardVars, seen, edits, jobVars, save, change, keptVars,
                  disturbed >>

\* serializeBoard() reads the render there is, and then asks each service: an
\* edit made meanwhile may be in what it reads.
AsRead(s) ==
  IF s.load = None
    THEN [of |-> None, load |-> None, ids |-> {}, edits |-> 0]
    ELSE [of |-> doc[s.load].of, load |-> s.load, ids |-> s.ids,
          edits |-> edits[s.load]]

Outcomes(d) ==
  IF d.load = None THEN {d}
  ELSE {[d EXCEPT !.edits = e] : e \in d.edits..edits[d.load]}

\* A service of a runtime that was removed meanwhile need not answer.
Unreadable(d) == ~(Runtimes(d) \subseteq running)

ReadBoard ==
  /\ writes # << >> /\ reading = None
  /\ reading' = AsRead(seen)
  /\ UNCHANGED << route, boardVars, seen, edits, jobVars, save, change,
                  pendingVars, writes, keptVars, disturbed >>

\* The write at the head of the chain is over: whoever awaits it is one nearer.
Nearer(r) ==
  IF r.pc = "flushing" /\ r.left > 0 THEN [r EXCEPT !.left = @ - 1] ELSE r

Written ==
  /\ reading # None
  /\ writes' = Tail(writes) /\ reading' = None
  /\ job' = [j \in Jobs |-> Nearer(job[j])]
  /\ save' = [v \in Saves |-> Nearer(save[v])]
  /\ UNCHANGED << route, boardVars, seen, edits, replacing, generation, fetched,
                  change, pendingVars, saved, disturbed >>

\* writeSnapshot(): one like the last is not written again, the baseline is
\* only remembered, and a draft is kept under the address of this moment.
WriteSnapshot ==
  /\ Written
  /\ \E snapshot \in Outcomes(reading) :
       /\ lastWritten' = snapshot
       /\ drafts' = IF snapshot = lastWritten \/ Head(writes) THEN drafts
                    ELSE [drafts EXCEPT ![route] = snapshot]

WriteFails ==
  /\ Written
  /\ Unreadable(reading)
  /\ UNCHANGED << lastWritten, drafts >>

-----------------------------------------------------------------------------
(* What the page and the person do; the person acts on a page that was      *)
(* rendered.                                                                *)

\* The page is rendered: the operations read this state from now on, and what
\* the board is made of has changed.
Render ==
  /\ seen # shown
  /\ seen' = shown
  /\ Schedule(FALSE)
  /\ UNCHANGED << route, boardVars, edits, jobVars, save, change, writeVars, disturbed >>

\* A service of the board on the page is configured, or services are added,
\* removed or rearranged (and the page rendered).
Edit ==
  /\ seen = shown
  /\ Runtimes(seen) \cap running # {} /\ edits[seen.load] < MaxEdits
  /\ edits' = [edits EXCEPT ![seen.load] = @ + 1]
  /\ \E configuration \in BOOLEAN : Schedule(configuration)
  /\ UNCHANGED << route, boardVars, seen, jobVars, save, change, writeVars, disturbed >>

\* Mutant: only a replacement under way makes a change late.
MutStillOn(c) == replacing = 0

\* stillOnThisBoard()
StillOn(c) == replacing = 0 /\ generation = change[c].generation

\* setAsset(), deleteAsset(), setBlockParams(): a change is started on what is
\* on the page, and a runtime answers in between.
BeginChange(c) ==
  /\ change[c].pc = "idle" /\ seen = shown
  /\ change' = [change EXCEPT ![c] =
                  [pc |-> "sent", load |-> shown.shell, generation |-> generation]]
  /\ UNCHANGED << route, boardVars, seen, edits, jobVars, save, pendingVars,
                  writeVars, disturbed >>

EndChange(c) ==
  /\ change[c].pc = "sent"
  /\ change' = [change EXCEPT ![c] = [IdleChange EXCEPT !.pc =
                                       IF StillOn(c) THEN "made" ELSE "dropped"]]
  /\ IF StillOn(c) THEN Schedule(TRUE) ELSE UNCHANGED pendingVars
  /\ UNCHANGED << route, boardVars, seen, edits, jobVars, save, writeVars, disturbed >>

-----------------------------------------------------------------------------
(* Saving (saveBoard, dropDraftsOnSave).                                    *)

\* The documents are read, as for a snapshot, under the board's name of now.
BeginSave(v) ==
  /\ save[v].pc = "idle" /\ seen = shown /\ seen.load # None
  /\ save' = [save EXCEPT ![v] = [IdleSave EXCEPT !.pc = "reading",
                                                  !.what = AsRead(seen)]]
  /\ UNCHANGED << route, boardVars, seen, edits, jobVars, change, pendingVars,
                  writeVars, disturbed >>

\* They are stored, which makes an older draft of that name void, and what is
\* pending is written before the drafts are dropped.
Store(v) ==
  /\ save[v].pc = "reading"
  /\ \E document \in Outcomes(save[v].what) :
       /\ saved' = [saved EXCEPT ![document.of] = document]
       /\ drafts' = [drafts EXCEPT ![document.of] = None]
       /\ save' = [save EXCEPT ![v] =
                     [pc |-> "flushing", left |-> ToAwait, what |-> document,
                      names |-> {document.of, route}]]
  /\ Flush
  /\ UNCHANGED << route, boardVars, seen, edits, jobVars, change, lastWritten, disturbed >>

SaveFails(v) ==
  /\ save[v].pc = "reading" /\ Unreadable(save[v].what)
  /\ save' = [save EXCEPT ![v].pc = "done"]
  /\ UNCHANGED << route, boardVars, seen, edits, jobVars, change, pendingVars,
                  writeVars, disturbed >>

DropDrafts(v) ==
  /\ save[v].pc = "flushing" /\ save[v].left = 0
  /\ drafts' = [a \in Addresses |-> IF a \in save[v].names THEN None ELSE drafts[a]]
  /\ save' = [save EXCEPT ![v].pc = "done"]
  /\ UNCHANGED << route, boardVars, seen, edits, jobVars, change, pendingVars,
                  writes, reading, lastWritten, saved, disturbed >>

-----------------------------------------------------------------------------
(* Replacements (replacingBoard).                                           *)

\* Mutant: a replacement is counted off when it ends, and not when it begins.
MutCountOn == replacing

CountOn == replacing + 1

\* replacingBoard(): the board on the page is being replaced from here on.
Begin(j, kind) ==
  /\ job[j].pc = "idle" /\ seen = shown
  /\ replacing' = CountOn /\ generation' = generation + 1
  /\ job' = [job EXCEPT ![j] =
               [IdleJob EXCEPT !.pc = "flushing", !.kind = kind, !.left = ToAwait,
                               !.had = AsRead(seen).edits]]
  /\ Flush
  /\ disturbed' = (disturbed \/ \E i \in Jobs : UnderWay(i))
  /\ UNCHANGED << boardVars, seen, edits, fetched, save, change, keptVars >>

\* onBoardChanged(): the address has changed, and the board is left for the one
\* found there; clearBoard() writes what is pending first.
Navigate(j) ==
  /\ route' \in Addresses \ {route}
  /\ Begin(j, "visit")

\* setBoardState(): another board is put in this one's place; newBoard(): the
\* page is cleared before the address changes.
Open(j) ==
  /\ \E kind \in {"open", "clear"} : Begin(j, kind)
  /\ UNCHANGED route

\* Mutant: the flush is started, and not awaited.
MutFlushed(j) == TRUE

Flushed(j) == job[j].left = 0

\* Mutant: an opening does not destroy the runtimes there are.
MutToRemove(j) == IF job[j].kind = "open" THEN {} ELSE seen.ids

ToRemove(j) == seen.ids

\* The runtimes to remove are those of the render there is: an opening reads it
\* before its document is resolved, which it is before anything is torn down.
EndFlush(j) ==
  /\ job[j].pc = "flushing" /\ Flushed(j)
  /\ job' = [job EXCEPT ![j].pc = IF job[j].kind = "open" THEN "linking" ELSE "removing",
                        ![j].ids = ToRemove(j)]
  /\ UNCHANGED << route, boardVars, seen, edits, replacing, generation, fetched,
                  save, change, pendingVars, writeVars, disturbed >>

\* linkBoardDocument() resolves what the new board is made of.
Link(j) ==
  /\ job[j].pc = "linking"
  /\ job' = [job EXCEPT ![j].pc = "removing"]
  /\ UNCHANGED << route, boardVars, seen, edits, replacing, generation, fetched,
                  save, change, pendingVars, writeVars, disturbed >>

\* removeRuntime(): the scope is looked up, by id, in the render of this moment.
Remove(j) ==
  /\ job[j].pc = "removing"
  /\ \E i \in job[j].ids :
       job' = [job EXCEPT
         ![j].pc = "awaiting", ![j].it = i, ![j].ids = @ \ {i},
         ![j].target = IF i \in seen.ids THEN << seen.load, i >> ELSE None]
  /\ UNCHANGED << route, boardVars, seen, edits, replacing, generation, fetched,
                  save, change, pendingVars, writeVars, disturbed >>

\* The runtime found is removed, and whatever has its id leaves the state.
Removed(j) ==
  /\ job[j].pc = "awaiting" /\ job[j].target # None
  /\ running' = running \ {job[j].target}
  /\ shown' = [shown EXCEPT !.ids = @ \ {job[j].it}]
  /\ job' = [job EXCEPT ![j].pc = "removing"]
  /\ UNCHANGED << route, seen, doc, edits, replacing, generation, fetched, save,
                  change, pendingVars, writeVars, disturbed >>

\* A replacement that has removed every runtime it set out to remove.
TornDown(j) == job[j].pc = "removing" /\ job[j].ids = {}

\* Mutant: a replacement is never counted off (no finally).
MutCountOff == replacing

CountOff == replacing - 1

\* The replacement is over, one way or the other (finally).
End(j) ==
  /\ job' = [job EXCEPT ![j] = [IdleJob EXCEPT !.pc = "done"]]
  /\ replacing' = CountOff /\ generation' = generation + 1

\* Mutant: the facade, the linkage and the assets are left behind.
MutEmptied == [shown EXCEPT !.load = None, !.ids = {}]

\* What clearBoard() leaves on the page.
Emptied == [load |-> None, ids |-> {}, shell |-> None]

\* clearBoard() leaves an empty board.  A visit goes on to fetch the one at its
\* address: one replacement ends and the next begins.
Clear(j) ==
  /\ TornDown(j) /\ job[j].kind # "open"
  /\ shown' = Emptied
  /\ IF job[j].kind = "clear"
       THEN End(j) /\ UNCHANGED fetched
       ELSE /\ job' = [job EXCEPT ![j].pc = "fetching"]
            /\ generation' = generation + 2 /\ fetched' = FALSE
            /\ UNCHANGED replacing
  /\ UNCHANGED << route, running, seen, doc, edits, save, change, pendingVars,
                  writeVars, disturbed >>

\* getInitialPlayground(): the draft at the address, or what was saved there;
\* fetchBoard() instead answers with the board on the page once one was fetched.
Fetched ==
  IF fetched THEN [Plain(route) EXCEPT !.ids = seen.ids]
  ELSE IF drafts[route] # None THEN drafts[route]
  ELSE saved[route]

\* The board to restore is there: its facade, linkage and assets come first.
Restore(j) ==
  /\ \/ job[j].pc = "fetching"
     \/ TornDown(j) /\ job[j].kind = "open"
  /\ LET d == IF job[j].kind = "visit" THEN Fetched ELSE Plain(route) IN
       /\ doc' = [doc EXCEPT ![j] = [d EXCEPT !.of = route]]
       /\ edits' = [edits EXCEPT ![j] = d.edits]
  /\ fetched' = (fetched \/ job[j].kind = "visit")
  /\ shown' = [shown EXCEPT !.shell = j]
  /\ job' = [job EXCEPT ![j].pc = "restoring"]
  /\ UNCHANGED << route, running, seen, replacing, generation, save, change,
                  pendingVars, writeVars, disturbed >>

Fresh(j) == {j} \X doc[j].ids

StartRuntime(j) ==
  /\ job[j].pc = "restoring"
  /\ \E r \in Fresh(j) \ running : running' = running \cup {r}
  /\ UNCHANGED << route, shown, seen, doc, edits, jobVars, save, change,
                  pendingVars, writeVars, disturbed >>

\* All of them run: the board is put on the page, and what it was loaded as is
\* the baseline (rebaseAfterLoad).
Restored(j) ==
  /\ job[j].pc = "restoring" /\ Fresh(j) \subseteq running
  /\ shown' = [shown EXCEPT !.load = j, !.ids = doc[j].ids]
  /\ rebasing' = TRUE
  /\ End(j)
  /\ UNCHANGED << route, running, seen, doc, edits, fetched, save, change,
                  pending, byPerson, writeVars, disturbed >>

\* What is still there of a board half removed or half restored stays so.
LeavesHalf(j) == disturbed' = (disturbed \/ job[j].pc \in {"awaiting", "restoring"})

\* A document that does not link ends an opening, and an address that cannot be
\* fetched or restored a visit: the error is shown, and setBoardState and
\* fetchBoard return as after a load.
Refused(j) ==
  /\ \/ job[j].pc \in {"linking", "fetching"}
     \/ job[j].pc = "restoring" /\ job[j].kind = "visit"
  /\ rebasing' = TRUE
  /\ End(j)
  /\ LeavesHalf(j)
  /\ UNCHANGED << route, boardVars, seen, edits, fetched, save, change, pending,
                  byPerson, writeVars >>

\* A runtime whose scope is not found or that its host does not remove, or one
\* that does not start on an opening: the replacement rejects where it stands.
Rejected(j) ==
  /\ \/ job[j].pc = "awaiting"
     \/ job[j].pc = "restoring" /\ job[j].kind = "open"
  /\ End(j)
  /\ LeavesHalf(j)
  /\ UNCHANGED << route, boardVars, seen, edits, fetched, save, change,
                  pendingVars, writeVars >>

-----------------------------------------------------------------------------
Replace(j) ==
  \/ EndFlush(j) \/ Link(j) \/ Remove(j) \/ Removed(j) \/ Clear(j)
  \/ Restore(j) \/ StartRuntime(j) \/ Restored(j) \/ Refused(j) \/ Rejected(j)

Keep(v) == Store(v) \/ SaveFails(v) \/ DropDrafts(v)

Write == ReadBoard \/ WriteSnapshot \/ WriteFails

Next ==
  \/ \E j \in Jobs : Navigate(j) \/ Open(j) \/ Replace(j)
  \/ \E v \in Saves : BeginSave(v) \/ Keep(v)
  \/ \E c \in Changes : BeginChange(c) \/ EndChange(c)
  \/ Edit \/ Render \/ TimerFires \/ Write

Spec == Init /\ [][Next]_vars

\* Promises settle: a document links or does not, runtimes answer, snapshots
\* are read.  Nothing is promised of the person.
FairSpec ==
  /\ Spec
  /\ \A j \in Jobs : WF_vars(Replace(j))
  /\ \A v \in Saves : WF_vars(Keep(v))
  /\ WF_vars(Write) /\ WF_vars(Render)

-----------------------------------------------------------------------------
\* Type correctness of the state of the board, its replacements and its drafts.
TypeOK ==
  /\ route \in Addresses /\ running \subseteq Loads \X Ids
  /\ shown \in State /\ seen \in State
  /\ doc \in [Loads -> Document] /\ edits \in [Loads -> 0..MaxEdits]
  /\ job \in [Jobs -> Job] /\ save \in [Saves -> Save]
  /\ replacing \in Nat /\ generation \in Nat /\ fetched \in BOOLEAN
  /\ change \in [Changes -> [pc : {"idle", "sent", "made", "dropped"},
                             load : Loads \cup {None}, generation : Nat]]
  /\ pending \in BOOLEAN /\ byPerson \in BOOLEAN /\ rebasing \in BOOLEAN
  /\ writes \in Seq(BOOLEAN) /\ reading \in Document \cup {None}
  /\ lastWritten \in Document \cup {None}
  /\ drafts \in [Addresses -> Document \cup {None}]
  /\ saved \in [Addresses -> Document] /\ disturbed \in BOOLEAN

\* A change of assets or of block parameters that a runtime answers late lands
\* on the board it was made on, or not at all ("work started on the board
\* before can tell it no longer applies"), however replacements overlap or fail.
ChangesStayOnTheirBoard ==
  [][\A c \in Changes :
       change[c].pc = "sent" /\ change'[c].pc = "made"
         => shown.shell = change[c].load]_vars

\* With no replacement under way, what runs is what the page shows: nothing of
\* an earlier board keeps running in the background, also after a document that
\* does not link or an address that cannot be fetched.
NothingKeepsRunning ==
  replacing = 0 /\ ~disturbed => running = Runtimes(shown)

\* And the facade, the linkage and the assets are those of the board that runs.
BoardIsOfOneLoad ==
  replacing = 0 /\ ~disturbed => shown.shell = shown.load

\* What the board being left was edited to is read before any of its runtimes
\* is removed: "once its runtimes are gone there is nothing left to serialise".
ReadBeforeTornDown ==
  \A j \in Jobs :
    job[j].pc \in {"removing", "awaiting"} /\ seen.load # None /\ ~disturbed
      => \/ job[j].had = doc[seen.load].edits
         \/ /\ lastWritten # None /\ lastWritten.load = seen.load
            /\ lastWritten.edits >= job[j].had

\* No edit is forgotten: while a board is open, what it was last edited to has
\* been read for a snapshot, or a snapshot is asked for or queued.
EditsAreAskedFor ==
  replacing = 0 /\ ~disturbed /\ seen = shown /\ seen.load # None
    => \/ pending \/ writes # << >>
       \/ /\ lastWritten # None /\ lastWritten.load = seen.load
          /\ lastWritten.edits = edits[seen.load]

\* Once a save is over, and while the board it saved is on the page, a draft of
\* it holds an edit the saved board does not: nothing that was pending lands
\* after the draft is dropped.
DraftsAreOfLaterEdits ==
  \A v \in Saves : \A a \in save[v].names :
    save[v].pc = "done" /\ drafts[a] # None
      /\ save[v].what.load = drafts[a].load /\ seen.load = drafts[a].load
      /\ seen = shown /\ replacing = 0 /\ ~disturbed
        => drafts[a].edits > save[v].what.edits

\* Every replacement ends, so that changes are taken again.
ReplacementsEnd == replacing > 0 ~> replacing = 0

\* A draft is of a board that was open at the address it is kept under: "the
\* address the board is at, since reloading that address is what has to bring
\* it back".
DraftIsOfItsAddress ==
  \A a \in Addresses : drafts[a] # None => drafts[a].of = a

=============================================================================
