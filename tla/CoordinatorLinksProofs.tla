------------------------ MODULE CoordinatorLinksProofs ------------------------
(***************************************************************************)
(* Proofs about CoordinatorLinks, for every number of boards, coordinators, *)
(* links and API threads, with and without a stalling loop.                 *)
(***************************************************************************)
EXTENDS CoordinatorLinks, Queues

-----------------------------------------------------------------------------
(* The inductive invariant: the properties, and what they rest on.         *)

Made(l) == rec[l] \in Tickets

\* The map holds links under their own key.
MapKeyed ==
  \A k \in Keys : links[k] # None => Made(links[k]) /\ LinkKey(links[k]) = k

\* Whatever a queue, a thread or a connection refers to has been made.
AllMade ==
  /\ \A i \in 1..Len(loopq) : loopq[i].op # "stop" => Made(loopq[i].link)
  /\ \A i \in 1..Len(workq) : Made(workq[i].link)
  /\ \A t \in Apis : api[t].at # "idle" => Made(api[t].link)
  /\ \A l \in Links : phase[l] # "fresh" => Made(l)
  /\ \A l \in held \cup revoked \cup disposed : Made(l)

\* What is, or is about to be, on disk names each key once.
OnePerKey(ts) == \A s, t \in ts : KeyOf[s] = KeyOf[t] => s = t
SavedOnce ==
  /\ OnePerKey(store)
  /\ OnePerKey(loop.snap)
  /\ \A t \in Apis : OnePerKey(api[t].snap)

\* A link is installed once, and is not in the map before.
InstallsOnce ==
  \A i \in 1..Len(loopq) : loopq[i].op = "install" =>
    /\ \A k \in Keys : links[k] # loopq[i].link
    /\ \A j \in 1..Len(loopq) :
         loopq[j].op = "install" /\ loopq[j].link = loopq[i].link => i = j

\* A disposed link has no socket; its timer has expired or is cancelled.
DownOrDue == \A l \in disposed : phase[l] \in {"closed", "due"}

\* Between two processes nothing is remembered.
DownBlank ==
  ~up => /\ loopq = << >> /\ workq = << >> /\ loop = LoopIdle
         /\ held = {} /\ revoked = {} /\ disposed = {}
         /\ api = [t \in Apis |-> Idle]

\* A refused link is never heard again; what it had asked for comes before
\* the release of its runtime.
RevokedDisposed == revoked \subseteq disposed
ReleaseComesLast ==
  \A l \in revoked : \A i \in 1..Len(workq) :
    workq[i].op = "provision" /\ workq[i].link = l =>
      \E j \in 1..Len(workq) :
        j > i /\ workq[j].op = "release" /\ LinkKey(workq[j].link) = LinkKey(l)

\* stop() has collected no link before it collects them all.
CollectsOnce == stopping \in {"no", "marked"} => held = {}

IInv ==
  /\ TypeOK /\ MapKeyed /\ AllMade /\ SavedOnce /\ InstallsOnce /\ DownOrDue
  /\ DownBlank /\ RevokedDisposed /\ ReleaseComesLast /\ CollectsOnce
  /\ NoStrayLink /\ RevokedIsReleased

-----------------------------------------------------------------------------
(* What a queue is after a task is added or taken.                         *)

\* What the worker's queue holds.
LEMMA WorkIs ==
  ASSUME TypeOK
  PROVE  /\ workq \in Seq(Work) /\ Len(workq) \in Nat
         /\ DOMAIN workq = 1..Len(workq)
         /\ \A i \in 1..Len(workq) :
              workq[i] \in Work /\ workq[i].link \in Links
<1>1. workq \in Seq(Work)
  BY DEF TypeOK
<1>2. \A i \in 1..Len(workq) : workq[i] \in Work
  BY <1>1
<1> QED
  BY <1>1, <1>2, DomainIs DEF Work

StopPending == \E i \in DOMAIN loopq : loopq[i].op = "stop"

\* A task that is pending stays so while others are posted behind it.
LEMMA PostKeeps ==
  ASSUME loopq \in Seq(Tasks), NEW e \in Tasks, loopq' = Append(loopq, e)
  PROVE  /\ \A l, ops : Pending(l, ops) => Pending(l, ops)'
         /\ Pending(e.link, {e.op})'
         /\ StopPending \/ e.op = "stop" => StopPending'
<1>1. DOMAIN loopq = 1..Len(loopq) /\ DOMAIN loopq' = 1..Len(loopq) + 1
  BY AppendIs, DomainIs
<1>2. /\ \A i \in DOMAIN loopq : i \in DOMAIN loopq' /\ loopq'[i] = loopq[i]
      /\ Len(loopq) + 1 \in DOMAIN loopq' /\ loopq'[Len(loopq) + 1] = e
  BY <1>1, AppendIs
<1> QED
  BY <1>2 DEF Pending, StopPending

\* When the loop takes a task, every other pending one still is.
LEMMA TakeKeeps ==
  ASSUME loopq \in Seq(Tasks), loopq # << >>, loopq' = Tail(loopq)
  PROVE  /\ \A l, ops :
              Pending(l, ops) =>
                \/ Pending(l, ops)'
                \/ Head(loopq).link = l /\ Head(loopq).op \in ops
         /\ StopPending => StopPending' \/ Head(loopq).op = "stop"
<1>1. DOMAIN loopq = 1..Len(loopq) /\ DOMAIN loopq' = 1..(Len(loopq) - 1)
  BY TailIs, DomainIs
<1>2. \A i \in DOMAIN loopq :
        \/ i = 1 /\ Head(loopq) = loopq[i]
        \/ i - 1 \in DOMAIN loopq' /\ loopq'[i - 1] = loopq[i]
  BY <1>1, TailIs
<1> QED
  BY <1>2 DEF Pending, StopPending

-----------------------------------------------------------------------------
(* A part of the invariant outlives a step that leaves its variables alone. *)

\* Each part rests on the variables named with it.
LEMMA Frames ==
  /\ MapKeyed /\ UNCHANGED <<rec, links>> => MapKeyed'
  /\ SavedOnce /\ UNCHANGED <<store, loop, api>> => SavedOnce'
  /\ InstallsOnce /\ UNCHANGED <<loopq, links>> => InstallsOnce'
  /\ DownOrDue /\ UNCHANGED <<disposed, phase>> => DownOrDue'
  /\ DownBlank /\ up /\ UNCHANGED up => DownBlank'
  /\ RevokedDisposed /\ UNCHANGED <<revoked, disposed>> => RevokedDisposed'
  /\ CollectsOnce /\ UNCHANGED <<stopping, held>> => CollectsOnce'
  /\ ReleaseComesLast /\ UNCHANGED <<rec, revoked, workq>> => ReleaseComesLast'
  /\ NoStrayLink /\ UNCHANGED <<rec, disposed, links, loopq, held>>
       => NoStrayLink'
  /\ RevokedIsReleased /\ UNCHANGED <<rec, revoked, runtime, workq>>
       => RevokedIsReleased'
<1>1. /\ MapKeyed /\ UNCHANGED <<rec, links>> => MapKeyed'
      /\ SavedOnce /\ UNCHANGED <<store, loop, api>> => SavedOnce'
      /\ InstallsOnce /\ UNCHANGED <<loopq, links>> => InstallsOnce'
      /\ DownOrDue /\ UNCHANGED <<disposed, phase>> => DownOrDue'
      /\ DownBlank /\ up /\ UNCHANGED up => DownBlank'
  BY DEF MapKeyed, Made, LinkKey, SavedOnce, OnePerKey, InstallsOnce,
         DownOrDue, DownBlank
<1>2. /\ RevokedDisposed /\ UNCHANGED <<revoked, disposed>> => RevokedDisposed'
      /\ CollectsOnce /\ UNCHANGED <<stopping, held>> => CollectsOnce'
      /\ ReleaseComesLast /\ UNCHANGED <<rec, revoked, workq>>
           => ReleaseComesLast'
      /\ RevokedIsReleased /\ UNCHANGED <<rec, revoked, runtime, workq>>
           => RevokedIsReleased'
  BY DEF RevokedDisposed, CollectsOnce, ReleaseComesLast, RevokedIsReleased,
     LinkKey
<1>3. NoStrayLink /\ UNCHANGED <<rec, disposed, links, loopq, held>>
        => NoStrayLink'
  BY DEF NoStrayLink, Live, HeldLink, LinkKey, Pending, Leaving
<1> QED
  BY <1>1, <1>2, <1>3

-----------------------------------------------------------------------------
(* API threads.                                                            *)

\* What persist() writes names each key once.
LEMMA RecordsOnce ==
  ASSUME IInv PROVE Records \in SUBSET Tickets /\ OnePerKey(Records)
BY DEF IInv, TypeOK, MapKeyed, Made, Records, OnePerKey, LinkKey

\* A request thread has waited and goes on.
LEMMA ApiMovesOn ==
  ASSUME IInv, NEW t \in Apis, Installed(t) \/ Accepted(t) \/ Dropped(t)
  PROVE  IInv'
<1>1. PICK at \in CallSteps, ans \in Answers, snap \in SUBSET Tickets :
        /\ api' = [api EXCEPT ![t] = Call(at, api[t].link, ans, snap)]
        /\ OnePerKey(snap)
  BY DEF IInv, TypeOK, SavedOnce, Installed, Accepted, Dropped, ApiGo, Call,
         Calls, Idle, CallSteps, Answers, OnePerKey
<1>2. /\ up /\ api[t].at # "idle"
      /\ UNCHANGED <<store, lifeVars, linkVars, appVars, loopq, loop, workq,
                     stopVars, histVars>>
  BY DEF Installed, Accepted, Dropped
<1>3. api[t].link \in Links /\ Made(api[t].link)
  BY <1>2 DEF IInv, TypeOK, AllMade, Calls, Idle, Call
<1>4. TypeOK'
  BY <1>1, <1>2, <1>3 DEF IInv, TypeOK, Calls, Call, lifeVars, linkVars,
     appVars, stopVars, histVars
<1>5. AllMade'
  BY <1>1, <1>2, <1>3 DEF IInv, TypeOK, AllMade, Made, Call, lifeVars,
     linkVars, stopVars, histVars
<1>6. SavedOnce'
  BY <1>1, <1>2 DEF IInv, TypeOK, SavedOnce, OnePerKey, Call, lifeVars
<1> QED
  BY <1>2, <1>4, <1>5, <1>6, Frames DEF IInv, lifeVars, linkVars, appVars,
     stopVars, histVars

\* A request thread reads the records that it will save.
LEMMA ApiSnapshot ==
  ASSUME IInv, NEW t \in Apis, Snapshot(t) PROVE IInv'
<1>1. Records \in SUBSET Tickets /\ OnePerKey(Records)
  BY RecordsOnce
<1>2. /\ up /\ api[t].at = "persist"
      /\ api' = [api EXCEPT ![t] =
                   Call("save", api[t].link, api[t].answer, Records)]
      /\ UNCHANGED <<store, lifeVars, linkVars, appVars, loopq, loop, workq,
                     stopVars, histVars>>
  BY DEF Snapshot
<1>3. api[t] \in Calls /\ Made(api[t].link)
  BY <1>2 DEF IInv, TypeOK, AllMade, Idle, Call
<1>4. TypeOK'
  BY <1>1, <1>2, <1>3 DEF IInv, TypeOK, Calls, CallSteps, Call, lifeVars,
     linkVars, appVars, stopVars, histVars
<1>5. AllMade'
  BY <1>2, <1>3 DEF IInv, TypeOK, AllMade, Made, Call, lifeVars, linkVars,
     stopVars, histVars
<1>6. SavedOnce'
  BY <1>1, <1>2 DEF IInv, TypeOK, SavedOnce, OnePerKey, Call, lifeVars
<1> QED
  BY <1>2, <1>4, <1>5, <1>6, Frames DEF IInv, lifeVars, linkVars, appVars,
     stopVars, histVars

\* A request thread saves what it has read and answers.
LEMMA ApiSave ==
  ASSUME IInv, NEW t \in Apis, Save(t) PROVE IInv'
<1>1. /\ up /\ api[t].at = "save"
      /\ store' = api[t].snap
      /\ api' = [api EXCEPT ![t] = Idle]
      /\ told' = [told EXCEPT ![api[t].link] = api[t].answer]
      /\ UNCHANGED <<lifeVars, linkVars, appVars, loopq, loop, workq, stopVars,
                     revoked>>
  BY DEF Save
<1>2. api[t] \in Calls
  BY <1>1 DEF IInv, TypeOK, Idle, Call
<1>3. TypeOK'
  BY <1>1, <1>2 DEF IInv, TypeOK, Calls, lifeVars, linkVars, appVars, stopVars
<1>4. AllMade'
  BY <1>1 DEF IInv, TypeOK, AllMade, Made, Idle, Call, linkVars, stopVars
<1>5. SavedOnce'
  BY <1>1, <1>2 DEF IInv, TypeOK, SavedOnce, OnePerKey, Idle, Call
<1> QED
  BY <1>1, <1>3, <1>4, <1>5, Frames DEF IInv, lifeVars, linkVars, appVars,
     stopVars

\* remove() clears the output sink.
LEMMA ApiRemoveSink ==
  ASSUME IInv, NEW t \in Apis, RemoveSink(t) PROVE IInv'
<1>1. /\ up /\ api[t].at = "dispose"
      /\ sinks' = [sinks EXCEPT ![LinkKey(api[t].link)] = None]
      /\ api' = [api EXCEPT ![t] =
                   Call("release", api[t].link, api[t].answer, api[t].snap)]
      /\ UNCHANGED <<store, lifeVars, linkVars, runtime, loopq, loop, workq,
                     stopVars, histVars>>
  BY DEF RemoveSink, ApiGo
<1>2. api[t] \in Calls /\ Made(api[t].link)
  BY <1>1 DEF IInv, TypeOK, AllMade, Idle, Call
<1>3. TypeOK'
  BY <1>1, <1>2 DEF IInv, TypeOK, Calls, CallSteps, Call, lifeVars,
     linkVars, appVars, stopVars, histVars
<1>4. AllMade'
  BY <1>1, <1>2 DEF IInv, TypeOK, AllMade, Made, Call, lifeVars, linkVars,
     stopVars, histVars
<1>5. SavedOnce'
  BY <1>1 DEF IInv, TypeOK, SavedOnce, OnePerKey, Call, lifeVars
<1> QED
  BY <1>1, <1>3, <1>4, <1>5, Frames DEF IInv, lifeVars, linkVars, appVars,
     stopVars, histVars

\* remove() takes the runtime away.
LEMMA ApiRemoveRuntime ==
  ASSUME IInv, NEW t \in Apis, RemoveRuntime(t) PROVE IInv'
<1>1. /\ up /\ api[t].at = "release"
      /\ runtime' = [runtime EXCEPT ![LinkKey(api[t].link)] = None]
      /\ api' = [api EXCEPT ![t] =
                   Call("persist", api[t].link, api[t].answer, api[t].snap)]
      /\ UNCHANGED <<store, lifeVars, linkVars, sinks, loopq, loop, workq,
                     stopVars, histVars>>
  BY DEF RemoveRuntime, ApiGo
<1>2. api[t] \in Calls /\ Made(api[t].link)
  BY <1>1 DEF IInv, TypeOK, AllMade, Idle, Call
<1>3. TypeOK'
  BY <1>1, <1>2 DEF IInv, TypeOK, Calls, CallSteps, Call, lifeVars,
     linkVars, appVars, stopVars, histVars
<1>4. AllMade'
  BY <1>1, <1>2 DEF IInv, TypeOK, AllMade, Made, Call, lifeVars, linkVars,
     stopVars, histVars
<1>5. SavedOnce'
  BY <1>1 DEF IInv, TypeOK, SavedOnce, OnePerKey, Call, lifeVars
<1>6. RevokedIsReleased'
  BY <1>1, NamesAssumption DEF IInv, TypeOK, RevokedIsReleased, LinkKey,
     linkVars, histVars
<1> QED
  BY <1>1, <1>3, <1>4, <1>5, <1>6, Frames DEF IInv, lifeVars, linkVars, appVars,
     stopVars, histVars

\* A new link: nothing refers to it yet.
LEMMA ApiIntroduce ==
  ASSUME IInv, NEW t \in Apis, NEW tk \in Tickets, Introduce(t, tk)
  PROVE  IInv'
<1>1. PICK l \in Links :
        /\ rec[l] = None
        /\ rec' = [rec EXCEPT ![l] = tk]
        /\ loopq' = Append(loopq, [op |-> "install", link |-> l, by |-> t])
        /\ api' = [api EXCEPT ![t] = Call("install", l, "failed", {})]
  BY DEF Introduce, Post
<1>2. /\ up
      /\ UNCHANGED <<store, lifeVars, links, phase, disposed, outcome, appVars,
                     loop, workq, stopVars, histVars>>
  BY DEF Introduce, Serving
<1> DEFINE e == [op |-> "install", link |-> l, by |-> t]
<1>3. /\ e \in Tasks /\ e.op = "install" /\ e.link = l
      /\ loopq \in Seq(Tasks) /\ loopq' = Append(loopq, e)
  BY <1>1 DEF IInv, TypeOK, Tasks
<1> HIDE DEF e
<1>4. /\ loopq' \in Seq(Tasks)
      /\ Len(loopq) \in Nat /\ Len(loopq') = Len(loopq) + 1
      /\ \A i \in 1..Len(loopq) : loopq'[i] = loopq[i]
      /\ loopq'[Len(loopq) + 1] = e
  BY <1>3, AppendIs
<1>5. /\ ~Made(l) /\ \A m \in Links : Made(m) => rec'[m] = rec[m] /\ m # l
      /\ Made(l)'
  BY <1>1, TicketsAssumption, NamesAssumption DEF IInv, TypeOK, Made
<1>6. TypeOK'
  BY <1>1, <1>2, <1>4 DEF IInv, TypeOK, Calls, CallSteps, Answers, Call,
     lifeVars, appVars, stopVars, histVars
<1>7. MapKeyed'
  BY <1>2, <1>5 DEF IInv, TypeOK, MapKeyed, Made, LinkKey
<1>8. AllMade'
  <2>1. \A m \in Links : Made(m) => Made(m)'
    BY <1>5 DEF Made
  <2>2. (\A i \in 1..Len(loopq) : loopq[i].op # "stop" => Made(loopq[i].link))'
    BY <1>3, <1>4, <1>5, NamesAssumption DEF IInv, TypeOK, AllMade, Made, Tasks
  <2>3. (\A i \in 1..Len(workq) : Made(workq[i].link))'
    BY <1>2, <2>1, WorkIs DEF IInv, AllMade
  <2>4. (\A s \in Apis : api[s].at # "idle" => Made(api[s].link))'
    BY <1>1, <1>5, <2>1 DEF IInv, TypeOK, AllMade, Calls, Idle, Call
  <2>5. (/\ \A m \in Links : phase[m] # "fresh" => Made(m)
         /\ \A m \in held \cup revoked \cup disposed : Made(m))'
    BY <1>2, <2>1 DEF IInv, TypeOK, AllMade, stopVars, histVars
  <2> QED
    BY <2>2, <2>3, <2>4, <2>5 DEF AllMade
<1>9. SavedOnce'
  BY <1>1, <1>2 DEF IInv, TypeOK, SavedOnce, OnePerKey, Call, lifeVars
<1>10. InstallsOnce'
  <2>1. \A i \in 1..Len(loopq) : loopq[i].op = "install" => loopq[i].link # l
    BY <1>5 DEF IInv, AllMade
  <2>2. \A k \in Keys : links[k] # l
    BY <1>5, NamesAssumption DEF IInv, MapKeyed
  <2> QED
    BY <1>2, <1>3, <1>4, <2>1, <2>2 DEF IInv, InstallsOnce
<1>11. ReleaseComesLast' /\ RevokedIsReleased'
  <2>1. \A m \in Links : Made(m) => LinkKey(m)' = LinkKey(m)
    BY <1>5 DEF LinkKey
  <2>2. /\ \A m \in revoked : m \in Links /\ Made(m)
        /\ \A i \in 1..Len(workq) :
             workq[i].link \in Links /\ Made(workq[i].link)
        /\ DOMAIN workq = 1..Len(workq)
    BY WorkIs DEF IInv, TypeOK, AllMade
  <2> QED
    BY <1>2, <2>1, <2>2 DEF IInv, ReleaseComesLast, RevokedIsReleased, appVars,
       histVars
<1>12. NoStrayLink'
  <2> SUFFICES ASSUME NEW m \in Links, Live(m)'
               PROVE  HeldLink(m)' \/ Pending(m, {"install"})' \/ Leaving(m)'
    BY DEF NoStrayLink
  <2>1. CASE m = l
    BY <1>3, <2>1, PostKeeps
  <2>2. CASE m # l
    <3>1. Live(m) /\ (HeldLink(m) => HeldLink(m)')
      BY <1>1, <1>2, <2>2 DEF IInv, TypeOK, Live, HeldLink, LinkKey
    <3>2. HeldLink(m) \/ Pending(m, {"install"}) \/ Leaving(m)
      BY <3>1 DEF IInv, NoStrayLink
    <3> QED
      BY <1>2, <1>3, <3>1, <3>2, PostKeeps DEF Leaving, StopPending, stopVars
  <2> QED
    BY <2>1, <2>2
<1> QED
  BY <1>2, <1>6, <1>7, <1>8, <1>9, <1>10, <1>11, <1>12, Frames
  DEF IInv, lifeVars, appVars, stopVars, histVars

\* A failed introduction asks the loop to take its link down.
LEMMA ApiGiveUp ==
  ASSUME IInv, NEW t \in Apis, GiveUp(t) PROVE IInv'
<1> DEFINE e == [op |-> "drop", link |-> api[t].link, by |-> t]
<1>1. /\ up /\ api[t].at = "await"
      /\ loopq' = Append(loopq, e)
      /\ api' = [api EXCEPT ![t] =
                   Call("drop", api[t].link, api[t].answer, api[t].snap)]
      /\ UNCHANGED <<store, lifeVars, linkVars, appVars, loop, workq, stopVars,
                     histVars>>
  BY DEF GiveUp, Post, ApiGo
<1>2. api[t] \in Calls /\ Made(api[t].link)
  BY <1>1 DEF IInv, TypeOK, AllMade, Idle, Call
<1>3. /\ e \in Tasks /\ e.op = "drop" /\ e.link = api[t].link
      /\ loopq \in Seq(Tasks)
  BY <1>2 DEF IInv, TypeOK, Tasks, Calls
<1> HIDE DEF e
<1>4. /\ loopq' \in Seq(Tasks)
      /\ Len(loopq) \in Nat /\ Len(loopq') = Len(loopq) + 1
      /\ \A i \in 1..Len(loopq) : loopq'[i] = loopq[i]
      /\ loopq'[Len(loopq) + 1] = e
  BY <1>1, <1>3, AppendIs
<1>5. TypeOK'
  BY <1>1, <1>2, <1>4 DEF IInv, TypeOK, Calls, CallSteps, Call, lifeVars,
     linkVars, appVars, stopVars, histVars
<1>6. AllMade'
  BY <1>1, <1>2, <1>3, <1>4 DEF IInv, TypeOK, AllMade, Made, Call, linkVars,
     stopVars, histVars
<1>7. SavedOnce'
  BY <1>1 DEF IInv, TypeOK, SavedOnce, OnePerKey, Call, lifeVars
<1>8. InstallsOnce'
  BY <1>1, <1>3, <1>4 DEF IInv, InstallsOnce, linkVars
<1>9. NoStrayLink'
  BY <1>1, <1>3, PostKeeps DEF IInv, NoStrayLink, Live, HeldLink, LinkKey,
     Leaving, StopPending, linkVars, stopVars
<1> QED
  BY <1>1, <1>5, <1>6, <1>7, <1>8, <1>9, Frames DEF IInv, lifeVars, linkVars,
     appVars, stopVars, histVars

\* remove() takes the link out of the map and posts its end.
LEMMA ApiRemove ==
  ASSUME IInv, NEW t \in Apis, NEW k \in Keys, Remove(t, k) PROVE IInv'
<1> DEFINE l == links[k]
           e == [op |-> "dispose", link |-> l, by |-> t]
<1>1. /\ up /\ l # None
      /\ links' = [links EXCEPT ![k] = None]
      /\ loopq' = Append(loopq, e)
      /\ api' = [api EXCEPT ![t] = Call("dispose", l, "left", {})]
      /\ UNCHANGED <<store, lifeVars, rec, phase, disposed, outcome, appVars,
                     loop, workq, stopVars, histVars>>
  BY DEF Remove, Serving, Post
<1>2. l \in Links /\ Made(l) /\ LinkKey(l) = k
  BY <1>1 DEF IInv, TypeOK, MapKeyed
<1>3. /\ e \in Tasks /\ e.op = "dispose" /\ e.link = l
      /\ loopq \in Seq(Tasks)
  BY <1>2 DEF IInv, TypeOK, Tasks
<1> HIDE DEF e
<1>4. /\ loopq' \in Seq(Tasks)
      /\ Len(loopq) \in Nat /\ Len(loopq') = Len(loopq) + 1
      /\ \A i \in 1..Len(loopq) : loopq'[i] = loopq[i]
      /\ loopq'[Len(loopq) + 1] = e
  BY <1>1, <1>3, AppendIs
<1>5. TypeOK'
  BY <1>1, <1>2, <1>4 DEF IInv, TypeOK, Calls, CallSteps, Answers, Call,
     lifeVars, appVars, stopVars, histVars
<1>6. MapKeyed'
  BY <1>1 DEF IInv, TypeOK, MapKeyed, Made, LinkKey
<1>7. AllMade'
  BY <1>1, <1>2, <1>3, <1>4 DEF IInv, TypeOK, AllMade, Made, Call, stopVars,
     histVars
<1>8. SavedOnce'
  BY <1>1 DEF IInv, TypeOK, SavedOnce, OnePerKey, Call, lifeVars
<1>9. InstallsOnce'
  BY <1>1, <1>2, <1>3, <1>4, NamesAssumption
  DEF IInv, TypeOK, AllMade, Tasks, InstallsOnce
<1>10. NoStrayLink'
  <2> SUFFICES ASSUME NEW m \in Links, Live(m)'
               PROVE  HeldLink(m)' \/ Pending(m, {"install"})' \/ Leaving(m)'
    BY DEF NoStrayLink
  <2>1. Live(m) /\ (HeldLink(m) => HeldLink(m)' \/ m = l)
    BY <1>1, <1>2 DEF IInv, TypeOK, MapKeyed, Live, HeldLink, LinkKey
  <2>2. HeldLink(m) \/ Pending(m, {"install"}) \/ Leaving(m)
    BY <2>1 DEF IInv, NoStrayLink
  <2>3. m = l => Pending(m, {"drop", "dispose"})'
    BY <1>1, <1>3, PostKeeps DEF Pending
  <2> QED
    BY <1>1, <1>3, <2>1, <2>2, <2>3, PostKeeps
    DEF Leaving, StopPending, stopVars
<1> QED
  BY <1>1, <1>5, <1>6, <1>7, <1>8, <1>9, <1>10, Frames DEF IInv, lifeVars,
     appVars, stopVars, histVars

-----------------------------------------------------------------------------
(* The event loop's tasks.                                                 *)

\* The task at the head, and the tasks that are left.
LEMMA TakeIs ==
  ASSUME IInv, loopq # << >>, loopq' = Tail(loopq)
  PROVE  /\ Head(loopq) \in Tasks
         /\ Head(loopq).op # "stop" =>
              Head(loopq).link \in Links /\ Made(Head(loopq).link)
         /\ loopq' \in Seq(Tasks)
         /\ \A i \in 1..Len(loopq') :
              i + 1 \in 1..Len(loopq) /\ loopq'[i] = loopq[i + 1]
         /\ Len(loopq) \in Nat \ {0} /\ Head(loopq) = loopq[1]
<1>1. loopq \in Seq(Tasks)
  BY DEF IInv, TypeOK
<1>2. /\ Head(loopq) \in Tasks /\ Head(loopq) = loopq[1]
      /\ loopq' \in Seq(Tasks) /\ Len(loopq) \in Nat \ {0}
      /\ \A i \in 1..Len(loopq') :
           i + 1 \in 1..Len(loopq) /\ loopq'[i] = loopq[i + 1]
  BY <1>1, TailIs
<1>3. Head(loopq).op # "stop" =>
        Head(loopq).link \in Links /\ Made(Head(loopq).link)
  BY <1>2 DEF IInv, AllMade, Tasks
<1> QED
  BY <1>2, <1>3

\* Links and installs of the tasks that are left are made, and installed once.
LEMMA TakeLeaves ==
  ASSUME IInv, loopq # << >>, loopq' = Tail(loopq), rec' = rec
  PROVE  /\ (\A i \in 1..Len(loopq) :
                loopq[i].op # "stop" => Made(loopq[i].link))'
         /\ (\A i \in 1..Len(loopq) : loopq[i].op = "install" =>
               \A j \in 1..Len(loopq) :
                 loopq[j].op = "install" /\ loopq[j].link = loopq[i].link
                   => i = j)'
         /\ \A i \in 1..Len(loopq') : loopq'[i].op = "install" =>
              /\ \A k \in Keys : links[k] # loopq'[i].link
              /\ Head(loopq).op = "install" =>
                   loopq'[i].link # Head(loopq).link
<1>1. /\ \A i \in 1..Len(loopq') :
           i + 1 \in 1..Len(loopq) /\ loopq'[i] = loopq[i + 1] /\ i + 1 # 1
      /\ Head(loopq) = loopq[1] /\ 1 \in 1..Len(loopq)
  BY TakeIs
<1> QED
  BY <1>1 DEF IInv, AllMade, InstallsOnce, Made

\* The loop installs a link in the place of another.
LEMMA LoopInstall ==
  ASSUME IInv, RunInstall PROVE IInv'
<1> DEFINE l == Head(loopq).link
           old == Replaced(l)
<1>1. /\ up /\ loopq # << >> /\ loopq' = Tail(loopq)
      /\ Head(loopq).op = "install"
      /\ links' = [links EXCEPT ![LinkKey(l)] = l]
      /\ disposed' = disposed \cup old
      /\ sinks' = [sinks EXCEPT ![LinkKey(l)] = l]
      /\ phase' = [Disposed(old) EXCEPT
                     ![l] = IF MayOpen(l) THEN "opening" ELSE @]
      /\ UNCHANGED <<store, lifeVars, rec, outcome, runtime, loop, workq, api,
                     stopVars, histVars>>
  BY DEF RunInstall, TaskIs, ListenTo
<1>2. /\ l \in Links /\ Made(l) /\ LinkKey(l) \in Keys
      /\ loopq' \in Seq(Tasks)
  BY <1>1, TakeIs, TicketsAssumption DEF LinkKey, Made
<1>3. /\ old \in SUBSET Links /\ old = {links[LinkKey(l)]} \ {None}
      /\ \A m \in old : m # l /\ Made(m)
  <2>1. links[LinkKey(l)] # l
    BY <1>1, <1>2, TakeIs DEF IInv, InstallsOnce
  <2> QED
    BY <1>2, <2>1 DEF IInv, TypeOK, MapKeyed, Replaced
<1> HIDE DEF l, old
<1>4. TypeOK'
  BY <1>1, <1>2, <1>3 DEF IInv, TypeOK, Disposed, Phases, lifeVars, stopVars,
     histVars
<1>5. MapKeyed'
  BY <1>1, <1>2 DEF IInv, TypeOK, MapKeyed, Made, LinkKey
<1>6. AllMade'
  BY <1>1, <1>2, <1>3, TakeLeaves DEF IInv, TypeOK, AllMade, Made, Disposed,
     stopVars, histVars
<1>7. InstallsOnce'
  BY <1>1, <1>2, TakeLeaves DEF IInv, TypeOK, InstallsOnce, l
<1>8. DownOrDue'
  BY <1>1, <1>2, <1>3 DEF IInv, TypeOK, DownOrDue, Disposed, MayOpen
<1>9. RevokedDisposed'
  BY <1>1 DEF IInv, RevokedDisposed, histVars
<1>10. NoStrayLink'
  <2> SUFFICES ASSUME NEW m \in Links, Live(m)'
               PROVE  HeldLink(m)' \/ Pending(m, {"install"})' \/ Leaving(m)'
    BY DEF NoStrayLink
  <2>1. Live(m) /\ m \notin old
    BY <1>1 DEF Live
  <2>2. HeldLink(m) \/ m = l => HeldLink(m)'
    BY <1>1, <1>2, <1>3, <2>1, NamesAssumption
    DEF IInv, TypeOK, HeldLink, LinkKey, Made
  <2>3. HeldLink(m) \/ Pending(m, {"install"}) \/ Leaving(m)
    BY <2>1 DEF IInv, NoStrayLink
  <2>4. /\ Pending(m, {"install"}) => Pending(m, {"install"})' \/ m = l
        /\ Pending(m, {"drop", "dispose"}) => Pending(m, {"drop", "dispose"})'
        /\ StopPending => StopPending'
    BY <1>1, TakeKeeps DEF IInv, TypeOK, l
  <2>5. Leaving(m) => Leaving(m)'
    BY <1>1, <2>4 DEF Leaving, StopPending, stopVars
  <2> QED
    BY <2>2, <2>3, <2>4, <2>5
<1> QED
  BY <1>1, <1>4, <1>5, <1>6, <1>7, <1>8, <1>9, <1>10, Frames DEF IInv,
     lifeVars, stopVars, histVars

\* The loop drops the link of a failed introduction.
LEMMA LoopDrop ==
  ASSUME IInv, RunDrop PROVE IInv'
<1> DEFINE l == Head(loopq).link
<1>1. /\ up /\ loopq # << >> /\ loopq' = Tail(loopq)
      /\ Head(loopq).op = "drop"
      /\ disposed' = disposed \cup {l}
      /\ phase' = Disposed({l})
      /\ \/ /\ links[LinkKey(l)] = l
            /\ links' = [links EXCEPT ![LinkKey(l)] = None]
            /\ sinks' = [sinks EXCEPT ![LinkKey(l)] = None]
         \/ links' = links /\ sinks' = sinks
      /\ UNCHANGED <<store, lifeVars, rec, outcome, runtime, loop, workq, api,
                     stopVars, histVars>>
  BY DEF RunDrop, TaskIs, HeldLink, Unlist
<1>2. /\ l \in Links /\ Made(l) /\ LinkKey(l) \in Keys
      /\ loopq' \in Seq(Tasks)
  BY <1>1, TakeIs, TicketsAssumption DEF LinkKey, Made
<1> HIDE DEF l
<1>3. /\ links' \in [Keys -> Links \cup {None}]
      /\ sinks' \in [Keys -> Links \cup {None}]
      /\ \A k \in Keys :
           links'[k] # links[k] => links'[k] = None /\ links[k] = l
  BY <1>1, <1>2 DEF IInv, TypeOK
<1>4. TypeOK'
  BY <1>1, <1>2, <1>3 DEF IInv, TypeOK, Disposed, Phases, lifeVars, stopVars,
     histVars
<1>5. MapKeyed'
  BY <1>1, <1>3 DEF IInv, MapKeyed, Made, LinkKey
<1>6. AllMade'
  BY <1>1, <1>2, TakeLeaves DEF IInv, TypeOK, AllMade, Made, Disposed, stopVars,
     histVars
<1>7. InstallsOnce'
  <2>1. \A i \in 1..Len(loopq') : loopq'[i].op = "install" =>
          loopq'[i].link # None
    BY <1>1, TakeLeaves, NamesAssumption, <1>2, TakeIs DEF Tasks
  <2> QED
    BY <1>1, <1>3, <2>1, TakeLeaves DEF IInv, InstallsOnce
<1>8. DownOrDue'
  BY <1>1, <1>2 DEF IInv, TypeOK, DownOrDue, Disposed
<1>9. RevokedDisposed'
  BY <1>1 DEF IInv, RevokedDisposed, histVars
<1>10. NoStrayLink'
  <2> SUFFICES ASSUME NEW m \in Links, Live(m)'
               PROVE  HeldLink(m)' \/ Pending(m, {"install"})' \/ Leaving(m)'
    BY DEF NoStrayLink
  <2>1. Live(m) /\ m # l
    BY <1>1 DEF Live
  <2>2. HeldLink(m) => HeldLink(m)'
    BY <1>1, <1>3, <2>1, NamesAssumption, TicketsAssumption
    DEF IInv, TypeOK, HeldLink, LinkKey
  <2>3. HeldLink(m) \/ Pending(m, {"install"}) \/ Leaving(m)
    BY <2>1 DEF IInv, NoStrayLink
  <2>4. /\ Pending(m, {"install"}) => Pending(m, {"install"})'
        /\ Leaving(m) => Leaving(m)'
    BY <1>1, <2>1, TakeKeeps DEF IInv, TypeOK, Leaving, StopPending, stopVars, l
  <2> QED
    BY <2>2, <2>3, <2>4
<1> QED
  BY <1>1, <1>4, <1>5, <1>6, <1>7, <1>8, <1>9, <1>10, Frames DEF IInv,
     lifeVars, stopVars, histVars

\* The loop disposes of what remove() or stop() posted.
LEMMA LoopDispose ==
  ASSUME IInv, RunDispose PROVE IInv'
<1> DEFINE ls == IF Head(loopq).op = "stop" THEN held ELSE {Head(loopq).link}
<1>1. /\ up /\ loopq # << >> /\ loopq' = Tail(loopq)
      /\ Head(loopq).op \in {"dispose", "stop"}
      /\ disposed' = disposed \cup ls
      /\ phase' = Disposed(ls)
      /\ UNCHANGED <<store, lifeVars, rec, links, outcome, appVars, loop, workq,
                     api, stopVars, histVars>>
  BY DEF RunDispose, TaskIs
<1>2. /\ ls \in SUBSET Links /\ \A m \in ls : Made(m)
      /\ loopq' \in Seq(Tasks)
  BY <1>1, TakeIs DEF IInv, TypeOK, AllMade
<1>3. /\ Head(loopq).op = "stop" => ls = held
      /\ Head(loopq).op # "stop" => ls = {Head(loopq).link}
  OBVIOUS
<1> HIDE DEF ls
<1>4. TypeOK'
  BY <1>1, <1>2 DEF IInv, TypeOK, Disposed, Phases, lifeVars, appVars, stopVars,
     histVars
<1>5. AllMade'
  BY <1>1, <1>2, TakeLeaves DEF IInv, TypeOK, AllMade, Made, Disposed, stopVars,
     histVars
<1>6. InstallsOnce'
  BY <1>1, TakeLeaves DEF IInv, InstallsOnce
<1>7. DownOrDue'
  BY <1>1, <1>2 DEF IInv, TypeOK, DownOrDue, Disposed
<1>8. RevokedDisposed'
  BY <1>1 DEF IInv, RevokedDisposed, histVars
<1>9. NoStrayLink'
  <2> SUFFICES ASSUME NEW m \in Links, Live(m)'
               PROVE  HeldLink(m)' \/ Pending(m, {"install"})' \/ Leaving(m)'
    BY DEF NoStrayLink
  <2>1. Live(m) /\ m \notin ls /\ (HeldLink(m) => HeldLink(m)')
    BY <1>1 DEF Live, HeldLink, LinkKey
  <2>2. HeldLink(m) \/ Pending(m, {"install"}) \/ Leaving(m)
    BY <2>1 DEF IInv, NoStrayLink
  <2>3. /\ Pending(m, {"install"}) => Pending(m, {"install"})'
        /\ Leaving(m) => Leaving(m)'
    BY <1>1, <1>3, <2>1, TakeKeeps
    DEF IInv, TypeOK, Leaving, StopPending, stopVars
  <2> QED
    BY <2>1, <2>2, <2>3
<1> QED
  BY <1>1, <1>4, <1>5, <1>6, <1>7, <1>8, <1>9, Frames DEF IInv, lifeVars,
     appVars, stopVars, histVars

-----------------------------------------------------------------------------
(* The event loop's sockets and timers.                                    *)

\* A connection moves from one phase to another: it stays made, and one that
\* is disposed only ends.
LEMMA PhaseMoves ==
  ASSUME IInv, up, NEW l \in Links, NEW p \in Phases,
         phase[l] # "fresh",
         l \in disposed => p \in {"closed", "due"},
         phase' = [phase EXCEPT ![l] = p],
         outcome' \in [Links -> Outcomes],
         UNCHANGED <<store, lifeVars, rec, links, disposed, appVars, loopq,
                     loop, workq, api, stopVars, histVars>>
  PROVE  IInv'
<1>1. TypeOK'
  BY DEF IInv, TypeOK, lifeVars, appVars, stopVars, histVars
<1>2. AllMade'
  BY DEF IInv, TypeOK, AllMade, Made, stopVars, histVars
<1>3. DownOrDue'
  BY DEF IInv, TypeOK, DownOrDue
<1> QED
  BY <1>1, <1>2, <1>3, Frames DEF IInv, lifeVars, appVars, stopVars, histVars

\* A connection opens, is welcomed, is lost or is tried again.
LEMMA ConnectionMoves ==
  ASSUME IInv, NEW l \in Links,
         Opened(l) \/ WelcomeArrives(l) \/ ConnectionLost(l)
           \/ TimerExpires(l) \/ Reopen(l)
  PROVE  IInv'
<1>1. outcome \in [Links -> Outcomes]
  BY DEF IInv, TypeOK
<1>2. CASE Opened(l)
  BY <1>1, <1>2, PhaseMoves DEF Opened, Hears, Phases
<1>3. CASE WelcomeArrives(l)
  <2>1. outcome' \in [Links -> Outcomes]
    BY <1>1, <1>3 DEF WelcomeArrives, Settle, Outcomes
  <2> QED
    BY <1>3, <2>1, PhaseMoves DEF WelcomeArrives, Hears, Phases
<1>4. CASE ConnectionLost(l)
  <2>1. outcome' \in [Links -> Outcomes]
    BY <1>1, <1>4 DEF ConnectionLost, Settle, Outcomes
  <2>2. Retry(l) \in Phases
    BY DEF Retry, Phases
  <2> QED
    BY <1>4, <2>1, <2>2, PhaseMoves DEF ConnectionLost, Hears, Connected
<1>5. CASE TimerExpires(l)
  BY <1>1, <1>5, PhaseMoves DEF TimerExpires, Phases
<1>6. CASE Reopen(l)
  <2>1. (IF MayOpen(l) THEN "opening" ELSE "closed") \in Phases
    BY DEF Phases
  <2> QED
    BY <1>1, <1>6, <2>1, PhaseMoves DEF Reopen, MayOpen
<1> QED
  BY <1>2, <1>3, <1>4, <1>5, <1>6

\* A request of the coordinator is queued for the worker.
LEMMA RequestIsQueued ==
  ASSUME IInv, NEW l \in Links, NEW op \in Requests, RequestArrives(l, op)
  PROVE  IInv'
<1> DEFINE e == [op |-> op, link |-> l]
<1>1. /\ up /\ l \notin disposed /\ Made(l)
      /\ workq' = Append(workq, e)
      /\ UNCHANGED <<store, lifeVars, linkVars, appVars, loopq, loop, api,
                     stopVars, histVars>>
  BY DEF RequestArrives, Hears, Welcomed, IInv, AllMade
<1>2. e \in Work /\ e.link = l /\ workq \in Seq(Work)
  BY DEF IInv, TypeOK, Work
<1> HIDE DEF e
<1>3. /\ workq' \in Seq(Work)
      /\ Len(workq) \in Nat /\ Len(workq') = Len(workq) + 1
      /\ \A i \in 1..Len(workq) : workq'[i] = workq[i]
      /\ workq'[Len(workq) + 1] = e
      /\ DOMAIN workq = 1..Len(workq) /\ DOMAIN workq' = 1..Len(workq')
  BY <1>1, <1>2, AppendIs, DomainIs
<1>4. TypeOK'
  BY <1>1, <1>3 DEF IInv, TypeOK, lifeVars, linkVars, appVars, stopVars,
     histVars
<1>5. AllMade'
  BY <1>1, <1>2, <1>3 DEF IInv, AllMade, Made, linkVars, stopVars, histVars
<1>6. ReleaseComesLast'
  <2>1. l \notin revoked
    BY <1>1 DEF IInv, RevokedDisposed
  <2> QED
    BY <1>1, <1>2, <1>3, <2>1 DEF IInv, ReleaseComesLast, LinkKey, linkVars,
       histVars
<1>7. RevokedIsReleased'
  BY <1>1, <1>3 DEF IInv, RevokedIsReleased, LinkKey, linkVars, appVars,
     histVars
<1> QED
  BY <1>1, <1>4, <1>5, <1>6, <1>7, Frames DEF IInv, lifeVars, linkVars,
     appVars, stopVars, histVars

\* A ticket is refused, and with the link its runtime is to go.
LEMMA LoopRefused ==
  ASSUME IInv, NEW l \in Links, TicketRefused(l) PROVE IInv'
<1> DEFINE e == [op |-> "release", link |-> l]
<1>1. /\ up /\ l \notin disposed /\ phase[l] # "fresh"
      /\ disposed' = disposed \cup {l}
      /\ phase' = Disposed({l})
      /\ outcome' = [outcome EXCEPT ![l] = IF @ = "none" THEN "failed" ELSE @]
      /\ UNCHANGED <<store, lifeVars, rec, runtime, loopq, api, stopVars, told>>
  BY DEF TicketRefused, Hears, Connected, Settle
<1>2. Made(l) /\ LinkKey(l) \in Keys
  BY <1>1, TicketsAssumption DEF IInv, AllMade, Made, LinkKey
<1> DEFINE Held ==
             /\ links[LinkKey(l)] = l
             /\ links' = [links EXCEPT ![LinkKey(l)] = None]
             /\ sinks' = [sinks EXCEPT ![LinkKey(l)] = None]
             /\ workq' = Append(workq, e)
             /\ loop' = [at |-> "persist", snap |-> {}]
             /\ revoked' = revoked \cup {l}
           NotHeld == UNCHANGED <<links, sinks, workq, loop, revoked>>
<1>3. Held \/ NotHeld
  BY DEF TicketRefused, HeldLink, Unlist, Release
<1>4. /\ e \in Work /\ e.op = "release" /\ e.link = l /\ workq \in Seq(Work)
  BY DEF IInv, TypeOK, Work
<1> HIDE DEF e
<1>5. /\ Append(workq, e) \in Seq(Work) /\ workq' \in Seq(Work)
      /\ Len(workq) \in Nat /\ Len(Append(workq, e)) = Len(workq) + 1
      /\ \A i \in 1..Len(workq) : Append(workq, e)[i] = workq[i]
      /\ Append(workq, e)[Len(workq) + 1] = e
      /\ DOMAIN workq = 1..Len(workq) /\ DOMAIN workq' = 1..Len(workq')
  <2>1. workq' \in Seq(Work)
    BY <1>3, <1>4, AppendIs
  <2> QED
    BY <1>4, <2>1, AppendIs, DomainIs
<1>6. TypeOK'
  <2>1. /\ links' \in [Keys -> Links \cup {None}]
        /\ sinks' \in [Keys -> Links \cup {None}]
        /\ loop' \in [at : {"idle", "persist", "save"}, snap : SUBSET Tickets]
        /\ revoked' \in SUBSET Links
    <3>1. CASE Held
      BY <3>1 DEF IInv, TypeOK
    <3>2. CASE NotHeld
      BY <3>2 DEF IInv, TypeOK
    <3> QED
      BY <1>3, <3>1, <3>2
  <2>2. outcome' \in [Links -> Outcomes]
    BY <1>1 DEF IInv, TypeOK, Outcomes
  <2> QED
    BY <1>1, <1>5, <2>1, <2>2 DEF IInv, TypeOK, Disposed, Phases, lifeVars,
       stopVars
<1>7. MapKeyed'
  BY <1>1, <1>3 DEF IInv, TypeOK, MapKeyed, Made, LinkKey
<1>8. AllMade'
  <2>1. (\A i \in 1..Len(workq) : Made(workq[i].link))'
    <3>1. CASE Held
      BY <1>1, <1>2, <1>4, <1>5, <3>1 DEF IInv, AllMade, Made
    <3>2. CASE NotHeld
      BY <1>1, <3>2 DEF IInv, AllMade, Made
    <3> QED
      BY <1>3, <3>1, <3>2
  <2>2. (\A m \in held \cup revoked \cup disposed : Made(m))'
    BY <1>1, <1>2, <1>3 DEF IInv, AllMade, Made, stopVars
  <2> QED
    BY <1>1, <2>1, <2>2 DEF IInv, TypeOK, AllMade, Made, Disposed
<1>9. SavedOnce'
  BY <1>1, <1>3 DEF IInv, SavedOnce, OnePerKey
<1>10. InstallsOnce'
  <2>1. \A i \in 1..Len(loopq) : loopq[i].op = "install" =>
          loopq[i].link # None
    BY NamesAssumption DEF IInv, TypeOK, Tasks
  <2> QED
    BY <1>1, <1>3, <2>1 DEF IInv, TypeOK, InstallsOnce
<1>11. DownOrDue'
  BY <1>1 DEF IInv, TypeOK, DownOrDue, Disposed
<1>12. RevokedDisposed'
  BY <1>1, <1>3 DEF IInv, RevokedDisposed
<1>13. ReleaseComesLast'
  <2>1. CASE Held
    <3> SUFFICES ASSUME NEW m \in revoked', NEW i \in 1..Len(workq'),
                        workq'[i].op = "provision", workq'[i].link = m
                 PROVE  \E n \in 1..Len(workq') :
                          /\ n > i /\ workq'[n].op = "release"
                          /\ LinkKey(workq'[n].link) = LinkKey(m)
      BY <1>1 DEF ReleaseComesLast, LinkKey
    <3>1. i \in 1..Len(workq) /\ workq'[i] = workq[i]
      BY <1>4, <1>5, <2>1
    <3>2. CASE m = l
      BY <1>4, <1>5, <2>1, <3>1, <3>2
    <3>3. CASE m # l
      <4>1. m \in revoked
        BY <2>1, <3>3
      <4>2. PICK n \in 1..Len(workq) :
              /\ n > i /\ workq[n].op = "release"
              /\ LinkKey(workq[n].link) = LinkKey(m)
        BY <3>1, <4>1 DEF IInv, ReleaseComesLast
      <4>3. n \in 1..Len(workq') /\ workq'[n] = workq[n]
        BY <1>5, <2>1
      <4> QED
        BY <4>2, <4>3
    <3> QED
      BY <3>2, <3>3
  <2>2. CASE NotHeld
    BY <1>1, <2>2, Frames DEF IInv
  <2> QED
    BY <1>3, <2>1, <2>2
<1>14. RevokedIsReleased'
  <2>1. CASE Held
    BY <1>1, <1>4, <1>5, <2>1 DEF IInv, RevokedIsReleased, LinkKey
  <2>2. CASE NotHeld
    BY <1>1, <2>2, Frames DEF IInv
  <2> QED
    BY <1>3, <2>1, <2>2
<1>15. NoStrayLink'
  <2> SUFFICES ASSUME NEW m \in Links, Live(m)'
               PROVE  HeldLink(m)' \/ Pending(m, {"install"})' \/ Leaving(m)'
    BY DEF NoStrayLink
  <2>1. Live(m) /\ m # l
    BY <1>1 DEF Live
  <2>2. HeldLink(m) => HeldLink(m)'
    <3>1. /\ LinkKey(m)' = LinkKey(m)
          /\ HeldLink(m)' = (rec[m] # None /\ links'[LinkKey(m)] = m)
      BY <1>1 DEF HeldLink, LinkKey
    <3>2. HeldLink(m) => rec[m] \in Tickets /\ LinkKey(m) \in Keys
      BY TicketsAssumption DEF IInv, TypeOK, HeldLink, LinkKey
    <3> QED
      BY <1>2, <1>3, <2>1, <3>1, <3>2 DEF IInv, TypeOK, HeldLink
  <2>3. HeldLink(m) \/ Pending(m, {"install"}) \/ Leaving(m)
    BY <2>1 DEF IInv, NoStrayLink
  <2> QED
    BY <1>1, <2>2, <2>3 DEF Pending, Leaving, stopVars
<1> QED
  BY <1>1, <1>6, <1>7, <1>8, <1>9, <1>10, <1>11, <1>12, <1>13, <1>14, <1>15,
     Frames DEF IInv, lifeVars, stopVars

\* The loop reads the records, or saves what it has read.
LEMMA LoopPersists ==
  ASSUME IInv, LoopSnapshot \/ LoopSave PROVE IInv'
<1>1. /\ up
      /\ store' \in SUBSET Tickets /\ OnePerKey(store')
      /\ loop' \in [at : {"idle", "persist", "save"}, snap : SUBSET Tickets]
      /\ OnePerKey(loop'.snap)
      /\ UNCHANGED <<lifeVars, linkVars, appVars, loopq, workq, api, stopVars,
                     histVars>>
  BY RecordsOnce DEF IInv, TypeOK, SavedOnce, OnePerKey, LoopSnapshot, LoopSave,
     LoopIdle
<1>2. TypeOK'
  BY <1>1 DEF IInv, TypeOK, lifeVars, linkVars, appVars, stopVars, histVars
<1>3. AllMade'
  BY <1>1 DEF IInv, AllMade, Made, linkVars, stopVars, histVars
<1>4. SavedOnce'
  BY <1>1 DEF IInv, SavedOnce, OnePerKey
<1> QED
  BY <1>1, <1>2, <1>3, <1>4, Frames DEF IInv, lifeVars, linkVars, appVars,
     stopVars, histVars

-----------------------------------------------------------------------------
(* The worker.                                                             *)

\* The worker serves what was asked first.
LEMMA WorkerServes ==
  ASSUME IInv, Serve PROVE IInv'
<1> DEFINE w == Head(workq)
           k == LinkKey(w.link)
<1>1. /\ up /\ workq # << >> /\ workq' = Tail(workq)
      /\ runtime' = [runtime EXCEPT ![k] =
                       IF w.op = "provision" THEN w.link ELSE None]
      /\ UNCHANGED <<store, lifeVars, linkVars, sinks, loopq, loop, api,
                     stopVars, histVars>>
  BY DEF Serve
<1>2. /\ workq' \in Seq(Work) /\ Len(workq) \in Nat \ {0}
      /\ Len(workq') = Len(workq) - 1
      /\ \A i \in 1..Len(workq') :
           i + 1 \in 1..Len(workq) /\ workq'[i] = workq[i + 1]
      /\ w = workq[1] /\ w \in Work /\ 1 \in 1..Len(workq)
      /\ DOMAIN workq = 1..Len(workq) /\ DOMAIN workq' = 1..Len(workq')
  BY <1>1, TailIs, DomainIs DEF IInv, TypeOK
<1>3. w.link \in Links /\ k \in Keys
  BY <1>2, TicketsAssumption DEF Work, IInv, AllMade, Made, LinkKey
<1> HIDE DEF w, k
<1>4. TypeOK'
  BY <1>1, <1>2, <1>3 DEF IInv, TypeOK, lifeVars, linkVars, stopVars, histVars
<1>5. AllMade'
  BY <1>1, <1>2 DEF IInv, AllMade, Made, linkVars, stopVars, histVars
<1>6. \A i \in 2..Len(workq) :
        i - 1 \in 1..Len(workq') /\ workq'[i - 1] = workq[i]
  BY <1>2
<1>7. ReleaseComesLast'
  <2> SUFFICES ASSUME NEW l \in revoked, NEW i \in 1..Len(workq'),
                      workq'[i].op = "provision", workq'[i].link = l
               PROVE  \E j \in 1..Len(workq') :
                        /\ j > i /\ workq'[j].op = "release"
                        /\ LinkKey(workq'[j].link) = LinkKey(l)
    BY <1>1 DEF ReleaseComesLast, LinkKey, linkVars, histVars
  <2>1. PICK j \in 1..Len(workq) :
          /\ j > i + 1 /\ workq[j].op = "release"
          /\ LinkKey(workq[j].link) = LinkKey(l)
    BY <1>2 DEF IInv, ReleaseComesLast
  <2>2. j - 1 \in 1..Len(workq') /\ j - 1 > i /\ workq'[j - 1] = workq[j]
    BY <1>2, <1>6, <2>1
  <2> QED
    BY <2>1, <2>2
<1>8. RevokedIsReleased'
  <2> SUFFICES ASSUME NEW l \in revoked, runtime'[LinkKey(l)] = l
               PROVE  \E j \in 1..Len(workq') :
                        /\ workq'[j].op = "release"
                        /\ LinkKey(workq'[j].link) = LinkKey(l)
    BY <1>1, <1>2 DEF RevokedIsReleased, LinkKey, linkVars, histVars
  <2>1. l \in Links
    BY DEF IInv, TypeOK
  \* The release that is owed is not the task just served, which would have
  \* left no runtime, and comes after it if it has built one.
  <2>2. PICK j \in 1..Len(workq) :
          /\ j > 1 /\ workq[j].op = "release"
          /\ LinkKey(workq[j].link) = LinkKey(l)
    <3>1. CASE LinkKey(l) = k
      <4>1. w.op = "provision" /\ w.link = l
        BY <1>1, <1>3, <2>1, <3>1, NamesAssumption DEF IInv, TypeOK
      <4> QED
        BY <1>2, <4>1 DEF IInv, ReleaseComesLast
    <3>2. CASE LinkKey(l) # k
      <4>1. PICK j \in 1..Len(workq) :
              /\ workq[j].op = "release"
              /\ LinkKey(workq[j].link) = LinkKey(l)
        <5>1. runtime[LinkKey(l)] = l
          BY <1>1, <3>2 DEF IInv, TypeOK
        <5> QED
          BY <1>2, <5>1 DEF IInv, RevokedIsReleased
      <4> QED
        BY <1>2, <3>2, <4>1 DEF k
    <3> QED
      BY <3>1, <3>2
  <2> QED
    BY <1>6, <2>2
<1> QED
  BY <1>1, <1>4, <1>5, <1>7, <1>8, Frames DEF IInv, lifeVars, linkVars,
     stopVars, histVars

-----------------------------------------------------------------------------
(* stop().                                                                 *)

\* stop() marks the server as stopping.
LEMMA StopMarks ==
  ASSUME IInv, StopMark PROVE IInv'
<1>1. /\ up /\ stopping' = "marked"
      /\ UNCHANGED <<store, lifeVars, linkVars, appVars, loopq, loop, workq,
                     api, held, histVars>>
  BY DEF StopMark
<1>2. TypeOK'
  BY <1>1 DEF IInv, TypeOK, StopSteps, lifeVars, linkVars, appVars, histVars
<1>3. AllMade'
  BY <1>1 DEF IInv, AllMade, Made, linkVars, histVars
<1>4. CollectsOnce'
  BY <1>1 DEF IInv, CollectsOnce, StopMark
<1> QED
  BY <1>1, <1>2, <1>3, <1>4, Frames
  DEF IInv, lifeVars, linkVars, appVars, histVars

\* The links that were held are on their way out.
LEMMA StopCollects ==
  ASSUME IInv, StopCollect PROVE IInv'
<1> DEFINE e == [op |-> "stop", link |-> None, by |-> Stopper]
<1>1. /\ up /\ stopping' = "disposing"
      /\ held' = {links[k] : k \in Keys} \ {None}
      /\ links' = [k \in Keys |-> None]
      /\ loopq' = Append(loopq, e)
      /\ UNCHANGED <<store, lifeVars, rec, phase, disposed, outcome, appVars,
                     loop, workq, api, histVars>>
  BY DEF StopCollect, Post
<1>2. e \in Tasks /\ e.op = "stop" /\ loopq \in Seq(Tasks)
  BY DEF IInv, TypeOK, Tasks
<1> HIDE DEF e
<1>3. /\ loopq' \in Seq(Tasks)
      /\ Len(loopq) \in Nat /\ Len(loopq') = Len(loopq) + 1
      /\ \A i \in 1..Len(loopq) : loopq'[i] = loopq[i]
      /\ loopq'[Len(loopq) + 1] = e
  BY <1>1, <1>2, AppendIs
<1>4. held' \in SUBSET Links /\ \A m \in held' : Made(m)
  BY <1>1 DEF IInv, TypeOK, MapKeyed
<1>5. TypeOK'
  BY <1>1, <1>3, <1>4 DEF IInv, TypeOK, StopSteps, lifeVars, appVars, histVars
<1>6. MapKeyed'
  BY <1>1 DEF MapKeyed
<1>7. AllMade'
  BY <1>1, <1>2, <1>3, <1>4 DEF IInv, AllMade, Made, histVars
<1>8. InstallsOnce'
  <2>1. \A i \in 1..Len(loopq) : loopq[i].op = "install" =>
          loopq[i].link # None
    BY NamesAssumption DEF IInv, TypeOK, Tasks
  <2> QED
    BY <1>1, <1>2, <1>3, <2>1 DEF IInv, InstallsOnce
<1>9. NoStrayLink'
  <2> SUFFICES ASSUME NEW m \in Links, Live(m)'
               PROVE  HeldLink(m)' \/ Pending(m, {"install"})' \/ Leaving(m)'
    BY DEF NoStrayLink
  <2>1. Live(m) /\ ~(m \in held)
    BY <1>1 DEF Live, StopCollect, IInv, CollectsOnce
  <2>2. \/ HeldLink(m)
        \/ Pending(m, {"install"}) \/ Pending(m, {"drop", "dispose"})
    BY <2>1 DEF IInv, NoStrayLink, Leaving
  <2>3. CASE HeldLink(m)
    <3>1. m \in held'
      BY <1>1, <2>3, NamesAssumption, TicketsAssumption
      DEF IInv, TypeOK, HeldLink, LinkKey
    <3>2. StopPending'
      BY <1>1, <1>2, PostKeeps
    <3> QED
      BY <3>1, <3>2 DEF Leaving, StopPending
  <2>4. CASE Pending(m, {"install"}) \/ Pending(m, {"drop", "dispose"})
    BY <1>1, <1>2, <2>4, PostKeeps DEF Leaving
  <2> QED
    BY <2>2, <2>3, <2>4
<1>10. CollectsOnce'
  BY <1>1 DEF CollectsOnce
<1> QED
  BY <1>1, <1>5, <1>6, <1>7, <1>8, <1>9, <1>10, Frames DEF IInv, lifeVars,
     appVars, histVars

\* stop() has waited for the loop and clears the sinks.
LEMMA StopFinishes ==
  ASSUME IInv, StopFinish PROVE IInv'
<1>1. /\ up /\ stopping' = "done"
      /\ sinks' = [k \in Keys |->
                     IF \E l \in held : LinkKey(l) = k THEN None ELSE sinks[k]]
      /\ UNCHANGED <<store, lifeVars, linkVars, runtime, loopq, loop, workq,
                     api, held, histVars>>
  BY DEF StopFinish
<1>2. TypeOK'
  BY <1>1 DEF IInv, TypeOK, StopSteps, lifeVars, linkVars, histVars
<1>3. AllMade'
  BY <1>1 DEF IInv, AllMade, Made, linkVars, histVars
<1>4. CollectsOnce'
  BY <1>1 DEF CollectsOnce
<1> QED
  BY <1>1, <1>2, <1>3, <1>4, Frames DEF IInv, lifeVars, linkVars, histVars

-----------------------------------------------------------------------------
(* Processes.                                                              *)

\* What is left when a process is gone.
LEMMA Forgets ==
  ASSUME IInv, up' = FALSE, starts' = starts, store' = store, Forget
  PROVE  IInv'
<1>1. TypeOK'
  <2>1. /\ loopq' \in Seq(Tasks) /\ workq' \in Seq(Work)
        /\ loop' \in [at : {"idle", "persist", "save"}, snap : SUBSET Tickets]
        /\ api' \in [Apis -> Calls \cup {Idle}]
        /\ stopping' \in StopSteps
    BY DEF Forget, LoopIdle, StopSteps
  <2>2. /\ links' \in [Keys -> Links \cup {None}]
        /\ sinks' \in [Keys -> Links \cup {None}]
        /\ runtime' \in [Keys -> Links \cup {None}]
        /\ rec' \in [Links -> Tickets \cup {None}]
        /\ phase' \in [Links -> Phases] /\ outcome' \in [Links -> Outcomes]
        /\ told' \in [Links -> Answers]
    BY DEF Forget, Phases, Outcomes, Answers
  <2>3. disposed' = {} /\ held' = {} /\ revoked' = {}
    BY DEF Forget
  <2> QED
    BY <2>1, <2>2, <2>3 DEF IInv, TypeOK
<1>2. MapKeyed' /\ AllMade' /\ InstallsOnce' /\ DownOrDue' /\ DownBlank'
  BY DEF Forget, MapKeyed, AllMade, InstallsOnce, DownOrDue, DownBlank, Idle,
     Call
<1>3. SavedOnce'
  BY DEF IInv, Forget, SavedOnce, OnePerKey, LoopIdle, Idle, Call
<1>4. /\ RevokedDisposed' /\ ReleaseComesLast' /\ RevokedIsReleased'
      /\ CollectsOnce' /\ NoStrayLink'
  BY DEF Forget, RevokedDisposed, ReleaseComesLast, RevokedIsReleased,
     CollectsOnce, NoStrayLink, Live
<1> QED
  BY <1>1, <1>2, <1>3, <1>4 DEF IInv

\* The first state: as if a process were gone that had saved nothing.
LEMMA Initially ==
  Init => IInv
<1> SUFFICES ASSUME Init PROVE IInv
  OBVIOUS
<1>1. TypeOK
  <2>1. /\ loopq \in Seq(Tasks) /\ workq \in Seq(Work)
        /\ loop \in [at : {"idle", "persist", "save"}, snap : SUBSET Tickets]
        /\ api \in [Apis -> Calls \cup {Idle}]
        /\ stopping \in StopSteps
    BY DEF Init, Memory, LoopIdle, StopSteps
  <2>2. /\ links \in [Keys -> Links \cup {None}]
        /\ sinks \in [Keys -> Links \cup {None}]
        /\ runtime \in [Keys -> Links \cup {None}]
        /\ rec \in [Links -> Tickets \cup {None}]
        /\ phase \in [Links -> Phases] /\ outcome \in [Links -> Outcomes]
        /\ told \in [Links -> Answers]
    BY DEF Init, Memory, Phases, Outcomes, Answers
  <2>3. /\ disposed = {} /\ held = {} /\ revoked = {} /\ store = {}
        /\ starts \in 0..MaxStarts /\ up = FALSE
    BY NamesAssumption DEF Init, Memory
  <2> QED
    BY <2>1, <2>2, <2>3 DEF TypeOK
<1>2. MapKeyed /\ AllMade /\ InstallsOnce /\ DownOrDue /\ DownBlank
  BY DEF Init, Memory, MapKeyed, AllMade, InstallsOnce, DownOrDue, DownBlank,
     Idle, Call
<1>3. SavedOnce
  BY DEF Init, Memory, SavedOnce, OnePerKey, LoopIdle, Idle, Call
<1>4. /\ RevokedDisposed /\ ReleaseComesLast /\ RevokedIsReleased
      /\ CollectsOnce /\ NoStrayLink
  BY DEF Init, Memory, RevokedDisposed, ReleaseComesLast, RevokedIsReleased,
     CollectsOnce, NoStrayLink, Live
<1> QED
  BY <1>1, <1>2, <1>3, <1>4 DEF IInv

\* restore() makes one link for each ticket on disk, and each key has one.
LEMMA ProcessStarts ==
  ASSUME IInv, Start PROVE IInv'
<1>1. PICK made \in [store -> Links] :
        /\ \A s, t \in store : made[s] = made[t] => s = t
        /\ rec' = [l \in Links |->
                     IF l \in {made[t] : t \in store}
                     THEN CHOOSE t \in store : made[t] = l ELSE None]
        /\ links' = [k \in Keys |->
                       IF {t \in store : KeyOf[t] = k} = {} THEN None
                       ELSE made[CHOOSE t \in {t \in store : KeyOf[t] = k} :
                                   TRUE]]
        /\ sinks' = links'
        /\ phase' = [l \in Links |-> IF l \in {made[t] : t \in store}
                                     THEN "opening" ELSE "fresh"]
  BY DEF Start
<1>2. /\ ~up /\ up' = TRUE /\ starts < MaxStarts /\ starts' = starts + 1
      /\ UNCHANGED <<store, disposed, outcome, runtime, loopq, loop, workq, api,
                     stopVars, histVars>>
  BY DEF Start
<1>3. /\ loopq = << >> /\ workq = << >> /\ loop = LoopIdle
      /\ held = {} /\ revoked = {} /\ disposed = {}
      /\ api = [t \in Apis |-> Idle]
  BY <1>2 DEF IInv, DownBlank
<1>4. store \in SUBSET Tickets
  BY DEF IInv, TypeOK
<1>5. \A t \in store : made[t] \in Links /\ rec'[made[t]] = t
  BY <1>1
<1>6. \A l \in Links : l \notin {made[t] : t \in store} => rec'[l] = None
  BY <1>1
<1>7. \A k \in Keys :
        \/ links'[k] = None /\ \A t \in store : KeyOf[t] # k
        \/ \E t \in store : KeyOf[t] = k /\ links'[k] = made[t]
  <2> TAKE k \in Keys
  <2>1. CASE {t \in store : KeyOf[t] = k} = {}
    BY <1>1, <2>1
  <2>2. CASE {t \in store : KeyOf[t] = k} # {}
    <3>1. (CHOOSE t \in {t \in store : KeyOf[t] = k} : TRUE)
            \in {t \in store : KeyOf[t] = k}
      BY <2>2
    <3> QED
      BY <1>1, <2>2, <3>1
  <2> QED
    BY <2>1, <2>2
<1>8. TypeOK'
  <2>1. rec' \in [Links -> Tickets \cup {None}]
    <3>1. \A l \in Links : rec'[l] \in Tickets \cup {None}
      BY <1>4, <1>5, <1>6
    <3> QED
      BY <1>1, <3>1
  <2>2. links' \in [Keys -> Links \cup {None}]
    <3>1. \A k \in Keys : links'[k] \in Links \cup {None}
      BY <1>5, <1>7
    <3> QED
      BY <1>1, <3>1
  <2>3. phase' \in [Links -> Phases]
    BY <1>1 DEF Phases
  <2> QED
    BY <1>1, <1>2, <2>1, <2>2, <2>3, NamesAssumption
    DEF IInv, TypeOK, stopVars, histVars
<1>9. MapKeyed'
  BY <1>4, <1>5, <1>7, NamesAssumption DEF MapKeyed, Made, LinkKey
<1>10. AllMade'
  BY <1>1, <1>2, <1>3, <1>4, <1>5 DEF AllMade, Made, Idle, Call, stopVars,
     histVars
<1>11. SavedOnce' /\ InstallsOnce' /\ DownOrDue' /\ DownBlank'
  BY <1>2, <1>3 DEF IInv, SavedOnce, OnePerKey, InstallsOnce, DownOrDue,
     DownBlank
<1>12. /\ RevokedDisposed' /\ ReleaseComesLast' /\ RevokedIsReleased'
       /\ CollectsOnce'
  BY <1>2, <1>3 DEF RevokedDisposed, ReleaseComesLast, RevokedIsReleased,
     CollectsOnce, stopVars, histVars
<1>13. NoStrayLink'
  <2> SUFFICES ASSUME NEW l \in Links, rec'[l] # None
               PROVE  links'[KeyOf[rec'[l]]] = l
    BY DEF NoStrayLink, Live, HeldLink, LinkKey
  <2>1. PICK t \in store : l = made[t] /\ rec'[l] = t
    BY <1>5, <1>6
  <2>2. KeyOf[t] \in Keys
    BY <1>4, TicketsAssumption
  <2>3. PICK s \in store : KeyOf[s] = KeyOf[t] /\ links'[KeyOf[t]] = made[s]
    BY <1>7, <2>2
  <2>4. s = t
    BY <2>3 DEF IInv, SavedOnce, OnePerKey
  <2> QED
    BY <2>1, <2>3, <2>4
<1> QED
  BY <1>8, <1>9, <1>10, <1>11, <1>12, <1>13 DEF IInv

-----------------------------------------------------------------------------
(* The theorems.                                                           *)

\* Every step keeps the inductive invariant.
LEMMA StepKeeps ==
  ASSUME IInv, Next PROVE IInv'
<1>1. CASE Start
  BY <1>1, ProcessStarts
<1>2. CASE Crash \/ Exit
  BY <1>2, Forgets DEF Crash, Exit
<1>3. ASSUME NEW t \in Apis,
             \/ \E tk \in Tickets : Introduce(t, tk)
             \/ \E k \in Keys : Remove(t, k)
             \/ ApiStep(t)
      PROVE  IInv'
  BY <1>3, ApiIntroduce, ApiRemove, ApiMovesOn, ApiGiveUp, ApiRemoveSink,
     ApiRemoveRuntime, ApiSnapshot, ApiSave DEF ApiStep
<1>4. CASE LoopStep
  BY <1>4, LoopInstall, LoopDrop, LoopDispose, LoopPersists DEF LoopStep
<1>5. ASSUME NEW l \in Links,
             \/ Opened(l) \/ WelcomeArrives(l) \/ ConnectionLost(l)
             \/ TimerExpires(l) \/ Reopen(l) \/ TicketRefused(l)
             \/ \E op \in Requests : RequestArrives(l, op)
      PROVE  IInv'
  BY <1>5, ConnectionMoves, LoopRefused, RequestIsQueued
<1>6. CASE Serve
  BY <1>6, WorkerServes
<1>7. CASE StopMark \/ StopCollect \/ StopFinish
  BY <1>7, StopMarks, StopCollects, StopFinishes
<1> QED
  BY <1>1, <1>2, <1>3, <1>4, <1>5, <1>6, <1>7 DEF Next

\* And so does a step that changes nothing.
LEMMA StutterKeeps ==
  ASSUME IInv, UNCHANGED vars PROVE IInv'
<1>1. TypeOK' /\ AllMade' /\ DownBlank'
  BY DEF IInv, TypeOK, AllMade, Made, DownBlank, vars, lifeVars, linkVars,
     appVars, stopVars, histVars
<1> QED
  BY <1>1, Frames DEF IInv, vars, lifeVars, linkVars, appVars, stopVars,
     histVars

\* The inductive invariant holds in every reachable state.
THEOREM Inductive == Spec => []IInv
<1>1. IInv /\ [Next]_vars => IInv'
  BY StepKeeps, StutterKeeps
<1> QED
  BY Initially, <1>1, PTL DEF Spec

\* The variables keep their types: no request, task or connection refers to
\* anything but a link, and each thread is where introduce(), remove() and
\* stop() can be.
THEOREM TypeCorrect == Spec => []TypeOK
<1>1. IInv => TypeOK
  BY DEF IInv
<1> QED
  BY Inductive, <1>1, PTL

\* Whatever threads replace, drop, leave, refuse and stop links at the same
\* time, a link that lives is held, or is about to be, or is about to be
\* disposed of: no connection is lost from the coordinator_links map.
THEOREM NoLinkIsLost == Spec => []NoStrayLink
<1>1. IInv => NoStrayLink
  BY DEF IInv
<1> QED
  BY Inductive, <1>1, PTL

\* A link that dispose() was run on has no connection and makes none, although
\* its timer may already have expired.
THEOREM DisposedIsFinal == Spec => []DisposedStaysDown
<1>1. IInv => DisposedStaysDown
  BY DEF IInv, DownOrDue, DisposedStaysDown, Connected
<1> QED
  BY Inductive, <1>1, PTL

\* The runtime of a link whose ticket was taken back does not outlive the
\* worker's queue: what the coordinator had asked for comes before the release.
THEOREM RevokedLosesItsRuntime == Spec => []RevokedIsReleased
<1>1. IInv => RevokedIsReleased
  BY DEF IInv
<1> QED
  BY Inductive, <1>1, PTL
=============================================================================
