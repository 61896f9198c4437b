--------------------- MODULE CoordinatorLinksThreadProofs ---------------------
(***************************************************************************)
(* Proofs about CoordinatorLinks when requests are served one at a time and *)
(* the loop does not keep them waiting, as the server's own http worker     *)
(* does: for every number of boards, coordinators, tickets, links, requests *)
(* and processes.  What is on disk is what callers were told; what is held  *)
(* is heard; and the release of a runtime spares the ones built since.      *)
(***************************************************************************)
EXTENDS CoordinatorLinksProofs, FiniteSetTheorems

-----------------------------------------------------------------------------
(* The hypothesis, and what is invariant under it beside IInv.             *)

\* http_server.h runs crow with one worker thread.
OneThread == (\A s, t \in Apis : s = t) /\ ~Stalls

\* What waits for the loop was asked for by the thread that waits for it, at
\* the step of the same name, and a link to be installed is new.
AskedFor ==
  \A i \in 1..Len(loopq) : loopq[i].op # "stop" =>
    /\ api[loopq[i].by].at = loopq[i].op
    /\ api[loopq[i].by].link = loopq[i].link
    /\ loopq[i].op = "install" =>
         /\ phase[loopq[i].link] = "fresh" /\ told[loopq[i].link] = "none"
         /\ loopq[i].link \notin held

\* What a call returns, as far as it is decided.
AnswerFits ==
  \A t \in Apis : api[t].at \in {"dispose", "release"} => api[t].answer = "left"

\* Before the first process and between two of them.
DownEmpty ==
  ~up => /\ \A k \in Keys : runtime[k] = None
         /\ \A l \in Links : told[l] = "none"
         /\ stopping = "no"

\* Who was told of a link has introduced it or left it.
ToldMade == \A l \in Links : told[l] # "none" => Made(l)

\* What is held is listened to, until stop() has cleared the sinks; from when
\* stop() has collected the links, no other is opened.
HeldListens ==
  stopping # "done" =>
    \A k \in Keys : links[k] # None => sinks[k] = links[k]
NoneOpensLate ==
  stopping \in {"disposing", "done"} =>
    \A k \in Keys : links[k] # None => phase[links[k]] \in {"fresh", "closed"}

\* While a board is left, its key has no link.
LeftKeyEmpty ==
  \A t \in Apis : api[t].at \in {"dispose", "release"} =>
    links[LinkKey(api[t].link)] = None

\* Every list that is about to be written has the tickets of all that is held.
Covers(ts) == \A k \in Keys : links[k] # None => rec[links[k]] \in ts
SavesCover ==
  /\ loop.at = "save" => Covers(loop.snap)
  /\ \A t \in Apis : api[t].at = "save" => Covers(api[t].snap)
StoreCovers ==
  \A k \in Keys : links[k] # None /\ told[links[k]] = "connected" =>
    rec[links[k]] \in store

\* No list that is about to be written has the ticket of a link that is out.
Absent(l, ts) == rec[l] \in ts => \E m \in Links \ {l} : rec[m] = rec[l]
Out(l) == ~HeldLink(l) /\ (loop.at = "save" => Absent(l, loop.snap))
CallsOut ==
  \A t \in Apis :
    LET l == api[t].link
    IN /\ api[t].at = "drop" =>
            Pending(l, {"drop"}) \/ (l \in disposed /\ Out(l))
       /\ api[t].at = "dispose" => Pending(l, {"dispose"}) \/ Out(l)
       /\ api[t].at = "release" => Out(l)
       /\ api[t].at \in {"persist", "save"} /\ api[t].answer # "connected" =>
            /\ Out(l)
            /\ api[t].answer = "failed" => l \in disposed
            /\ api[t].at = "save" => Absent(l, api[t].snap)
ToldOut ==
  \A l \in Links : told[l] \in {"failed", "left"} =>
    /\ Out(l)
    /\ Absent(l, store)
    /\ \A t \in Apis : api[t].at = "save" => Absent(l, api[t].snap)
    /\ told[l] = "failed" => l \in disposed

\* What has asked for a runtime, or has one, is not still to be installed.
Arrived(l) == Made(l) /\ ~Pending(l, {"install"})
BuildersArrived ==
  /\ \A i \in 1..Len(workq) : Arrived(workq[i].link)
  /\ \A k \in Keys : runtime[k] # None => Arrived(runtime[k])

\* What comes before a release in the worker's queue, and what is built when
\* it is served, is of a link that is held no more.
ReleasesPast ==
  \A i \in 1..Len(workq) : workq[i].op = "release" =>
    LET k == LinkKey(workq[i].link)
    IN /\ \A j \in 1..i : LinkKey(workq[j].link) = k => ~HeldLink(workq[j].link)
       /\ runtime[k] # None => runtime[k] # links[k]

TInv ==
  /\ AskedFor /\ AnswerFits /\ DownEmpty /\ ToldMade /\ HeldListens
  /\ NoneOpensLate /\ LeftKeyEmpty /\ SavesCover /\ StoreCovers /\ CallsOut
  /\ ToldOut /\ BuildersArrived /\ ReleasesPast

-----------------------------------------------------------------------------
(* What the parts of the invariant rest on.                                *)

\* The event loop's queue.
LEMMA TasksAre ==
  ASSUME IInv
  PROVE  /\ loopq \in Seq(Tasks) /\ Len(loopq) \in Nat
         /\ DOMAIN loopq = 1..Len(loopq)
         /\ \A i \in 1..Len(loopq) :
              /\ loopq[i] \in Tasks
              /\ loopq[i].op # "stop" =>
                   /\ loopq[i].op \in {"install", "drop", "dispose"}
                   /\ loopq[i].by \in Apis /\ loopq[i].link \in Links
                   /\ Made(loopq[i].link)
              /\ loopq[i].op = "stop" => loopq[i].by = Stopper
<1>1. loopq \in Seq(Tasks)
  BY DEF IInv, TypeOK
<1>2. \A i \in 1..Len(loopq) : loopq[i] \in Tasks
  BY <1>1
<1>3. \A i \in 1..Len(loopq) : loopq[i].op # "stop" => Made(loopq[i].link)
  BY DEF IInv, AllMade
<1> QED
  BY <1>1, <1>2, <1>3, DomainIs DEF Tasks

\* Posting makes only what is posted pending, and taking makes nothing so.
LEMMA PostAdds ==
  ASSUME loopq \in Seq(Tasks), NEW e \in Tasks, loopq' = Append(loopq, e)
  PROVE  \A l, ops :
           Pending(l, ops)' => Pending(l, ops) \/ (e.link = l /\ e.op \in ops)
<1>1. /\ DOMAIN loopq = 1..Len(loopq) /\ DOMAIN loopq' = 1..Len(loopq) + 1
      /\ Len(loopq) \in Nat
  BY AppendIs, DomainIs
<1>2. \A i \in DOMAIN loopq' :
        \/ i \in DOMAIN loopq /\ loopq'[i] = loopq[i]
        \/ loopq'[i] = e
  BY <1>1, AppendIs
<1> QED
  BY <1>2 DEF Pending

LEMMA TakeAdds ==
  ASSUME loopq \in Seq(Tasks), loopq # << >>, loopq' = Tail(loopq)
  PROVE  \A l, ops : Pending(l, ops)' => Pending(l, ops)
<1>1. DOMAIN loopq = 1..Len(loopq) /\ DOMAIN loopq' = 1..(Len(loopq) - 1)
  BY TailIs, DomainIs
<1>2. \A i \in DOMAIN loopq' :
        i + 1 \in DOMAIN loopq /\ loopq'[i] = loopq[i + 1]
  BY <1>1, TailIs
<1> QED
  BY <1>2 DEF Pending

\* The request thread waits for whatever is asked of the loop.
LEMMA OnlyAsked ==
  ASSUME IInv, AskedFor, OneThread, NEW t \in Apis, NEW l, NEW ops,
         "stop" \notin ops, Pending(l, ops)
  PROVE  api[t].at \in ops /\ api[t].link = l
<1>1. PICK i \in DOMAIN loopq : loopq[i].link = l /\ loopq[i].op \in ops
  BY DEF Pending
<1>2. i \in 1..Len(loopq) /\ loopq[i].op # "stop"
  BY <1>1, TasksAre
<1>3. loopq[i].by = t
  BY <1>2, TasksAre DEF OneThread
<1> QED
  BY <1>1, <1>2, <1>3 DEF AskedFor

\* Having waited, it finds nothing of its own left.
LEMMA NothingLeft ==
  ASSUME IInv, OneThread, NEW t \in Apis, Waited(t)
  PROVE  /\ \A i \in 1..Len(loopq) : loopq[i].op = "stop"
         /\ \A l, ops : "stop" \notin ops => ~Pending(l, ops)
<1>1. \A i \in 1..Len(loopq) : loopq[i].by # t
  BY TasksAre DEF Waited, OneThread
<1>2. \A i \in 1..Len(loopq) : loopq[i].op = "stop"
  BY <1>1, TasksAre DEF OneThread
<1> QED
  BY <1>2, TasksAre DEF Pending

\* While a call does not wait for the loop, nothing but stop() is queued.
LEMMA NothingAsked ==
  ASSUME IInv, AskedFor, OneThread, NEW t \in Apis,
         api[t].at \notin {"install", "drop", "dispose"}
  PROVE  /\ \A i \in 1..Len(loopq) : loopq[i].op = "stop"
         /\ \A l, ops : "stop" \notin ops => ~Pending(l, ops)
<1>1. \A i \in 1..Len(loopq) : loopq[i].op = "stop"
  BY TasksAre DEF OneThread, AskedFor
<1> QED
  BY <1>1, TasksAre DEF Pending

\* A link is held if it is in the map, and then under its key.
LEMMA HeldIs ==
  ASSUME IInv
  PROVE  /\ \A k \in Keys : links[k] # None =>
              /\ links[k] \in Links /\ Made(links[k])
              /\ LinkKey(links[k]) = k /\ HeldLink(links[k])
         /\ \A l \in Links : HeldLink(l) =>
              Made(l) /\ LinkKey(l) \in Keys /\ links[LinkKey(l)] = l
         /\ \A l \in Links : l # None
         /\ \A l \in Links : Made(l) =>
              /\ rec[l] # None /\ LinkKey(l) \in Keys
              /\ HeldLink(l) <=> links[LinkKey(l)] = l
<1>1. \A l \in Links : Made(l) => rec[l] # None /\ LinkKey(l) \in Keys
  BY TicketsAssumption, NamesAssumption DEF Made, LinkKey
<1>2. \A l \in Links : rec[l] # None => Made(l)
  BY DEF IInv, TypeOK, Made
<1>3. \A k \in Keys : links[k] # None => 
        links[k] \in Links /\ Made(links[k]) /\ LinkKey(links[k]) = k
  BY DEF IInv, TypeOK, MapKeyed
<1> QED
  BY <1>1, <1>2, <1>3, NamesAssumption DEF HeldLink

\* What persist() writes: the tickets of what is held, and no others.
LEMMA RecordsAre ==
  ASSUME IInv
  PROVE  /\ Covers(Records)
         /\ \A l \in Links : Made(l) /\ ~HeldLink(l) => Absent(l, Records)
<1>1. Covers(Records)
  BY DEF Covers, Records
<1>2. ASSUME NEW l \in Links, Made(l), ~HeldLink(l), rec[l] \in Records
      PROVE  \E m \in Links \ {l} : rec[m] = rec[l]
  <2>1. PICK k \in Keys : links[k] # None /\ rec[l] = rec[links[k]]
    BY <1>2 DEF Records
  <2> QED
    BY <1>2, <2>1, HeldIs
<1> QED
  BY <1>1, <1>2 DEF Absent

-----------------------------------------------------------------------------
(* A part outlives a step that leaves its variables alone, and some of them *)
(* one that only takes links out of the map.                               *)

Shrinks == \A k \in Keys : links'[k] \in {links[k], None}

LEMMA OutStays ==
  ASSUME IInv, UNCHANGED rec, Shrinks, NEW l \in Links,
         Out(l), UNCHANGED loop \/ loop'.at # "save"
  PROVE  Out(l)'
<1>1. HeldLink(l)' => HeldLink(l)
  BY HeldIs, NamesAssumption, TicketsAssumption
  DEF Shrinks, HeldLink, LinkKey, IInv, TypeOK, Made
<1> QED
  BY <1>1 DEF Out, Absent

LEMMA ThreadFrames ==
  ASSUME IInv, UNCHANGED rec, Shrinks
  PROVE  /\ AskedFor /\ UNCHANGED <<loopq, api, phase, told, held>> => AskedFor'
         /\ AnswerFits /\ UNCHANGED api => AnswerFits'
         /\ DownEmpty /\ up /\ UNCHANGED up => DownEmpty'
         /\ ToldMade /\ UNCHANGED told => ToldMade'
         /\ HeldListens /\ UNCHANGED <<stopping, sinks>> => HeldListens'
         /\ NoneOpensLate /\ UNCHANGED <<stopping, phase>> => NoneOpensLate'
         /\ LeftKeyEmpty /\ UNCHANGED api => LeftKeyEmpty'
         /\ SavesCover /\ UNCHANGED <<loop, api>> => SavesCover'
         /\ StoreCovers /\ UNCHANGED <<told, store>> => StoreCovers'
         /\ CallsOut /\ UNCHANGED <<api, loopq, disposed, loop>> => CallsOut'
         /\ ToldOut /\ UNCHANGED <<told, store, api, disposed, loop>> => ToldOut'
         /\ BuildersArrived /\ UNCHANGED <<workq, runtime, loopq>>
              => BuildersArrived'
         /\ ReleasesPast /\ UNCHANGED <<workq, runtime>> => ReleasesPast'
<1> USE DEF Shrinks
<1>1. /\ AskedFor /\ UNCHANGED <<loopq, api, phase, told, held>> => AskedFor'
      /\ AnswerFits /\ UNCHANGED api => AnswerFits'
      /\ DownEmpty /\ up /\ UNCHANGED up => DownEmpty'
      /\ ToldMade /\ UNCHANGED told => ToldMade'
  BY DEF AskedFor, AnswerFits, DownEmpty, ToldMade, Made
<1>2. /\ HeldListens /\ UNCHANGED <<stopping, sinks>> => HeldListens'
      /\ NoneOpensLate /\ UNCHANGED <<stopping, phase>> => NoneOpensLate'
  BY DEF HeldListens, NoneOpensLate
<1>3. LeftKeyEmpty /\ UNCHANGED api => LeftKeyEmpty'
  <2> SUFFICES ASSUME LeftKeyEmpty, UNCHANGED api, NEW t \in Apis,
                      api[t].at \in {"dispose", "release"}
               PROVE  links'[LinkKey(api[t].link)] = None
    BY DEF LeftKeyEmpty, LinkKey
  <2>1. api[t].link \in Links /\ Made(api[t].link)
    BY DEF IInv, TypeOK, AllMade, Calls, Idle, Call
  <2> QED
    BY <2>1, HeldIs DEF LeftKeyEmpty
<1>4. SavesCover /\ UNCHANGED <<loop, api>> => SavesCover'
  BY DEF SavesCover, Covers
<1>5. StoreCovers /\ UNCHANGED <<told, store>> => StoreCovers'
  BY DEF StoreCovers
<1>6. CallsOut /\ UNCHANGED <<api, loopq, disposed, loop>> => CallsOut'
  <2> SUFFICES ASSUME CallsOut, UNCHANGED <<api, loopq, disposed, loop>>
               PROVE  CallsOut'
    OBVIOUS
  <2>1. \A t \in Apis : api[t].at # "idle" => api[t].link \in Links
    BY DEF IInv, TypeOK, Calls, Idle, Call
  <2>2. \A l \in Links : Out(l) => Out(l)'
    BY OutStays
  <2>3. \A l, ops : Pending(l, ops) => Pending(l, ops)'
    BY DEF Pending
  <2>4. \A l, ts : Absent(l, ts) => Absent(l, ts)'
    BY DEF Absent
  <2> QED
    BY <2>1, <2>2, <2>3, <2>4 DEF CallsOut
<1>7. ToldOut /\ UNCHANGED <<told, store, api, disposed, loop>> => ToldOut'
  <2>1. UNCHANGED loop => \A l \in Links : Out(l) => Out(l)'
    BY OutStays
  <2>2. \A l, ts : Absent(l, ts) => Absent(l, ts)'
    BY DEF Absent
  <2> QED
    BY <2>1, <2>2 DEF ToldOut
<1>8. BuildersArrived /\ UNCHANGED <<workq, runtime, loopq>> => BuildersArrived'
  BY DEF BuildersArrived, Arrived, Made, Pending
<1>9. ReleasesPast /\ UNCHANGED <<workq, runtime>> => ReleasesPast'
  <2> SUFFICES ASSUME ReleasesPast, UNCHANGED <<workq, runtime>>,
                      NEW i \in 1..Len(workq), workq[i].op = "release"
               PROVE  LET k == LinkKey(workq[i].link)
                      IN /\ \A j \in 1..i : LinkKey(workq[j].link) = k =>
                              ~HeldLink(workq[j].link)'
                         /\ runtime[k] # None => runtime[k] # links'[k]
    BY DEF ReleasesPast, LinkKey
  <2>1. /\ \A j \in 1..i : j \in 1..Len(workq)
        /\ \A j \in 1..Len(workq) : workq[j].link \in Links /\ Made(workq[j].link)
    BY WorkIs DEF IInv, AllMade
  <2>2. \A l \in Links : HeldLink(l)' => HeldLink(l)
    BY HeldIs, NamesAssumption, TicketsAssumption
    DEF HeldLink, LinkKey, IInv, TypeOK, Made
  <2>3. LinkKey(workq[i].link) \in Keys
    BY <2>1, HeldIs
  <2> QED
    BY <2>1, <2>2, <2>3 DEF ReleasesPast
<1> QED
  BY <1>1, <1>2, <1>3, <1>4, <1>5, <1>6, <1>7, <1>8, <1>9

-----------------------------------------------------------------------------
(* The request thread.                                                     *)

\* It alone is in a call.
LEMMA OneCall ==
  ASSUME OneThread, NEW t \in Apis PROVE \A s \in Apis : s = t
BY DEF OneThread

\* It has waited, or been welcomed, and goes on.
LEMMA ThreadMovesOn ==
  ASSUME IInv, TInv, OneThread, NEW t \in Apis,
         Installed(t) \/ Accepted(t) \/ Dropped(t)
  PROVE  TInv'
<1>1. /\ up /\ Shrinks
      /\ UNCHANGED <<store, lifeVars, linkVars, appVars, loopq, loop, workq,
                     stopVars, histVars>>
  BY DEF Installed, Accepted, Dropped, linkVars, Shrinks
<1>2. PICK c :
        /\ api' = [api EXCEPT ![t] = c] /\ api'[t] = c
        /\ c.link = api[t].link
        /\ \/ api[t].at = "install" /\ c.at = "await"
           \/ /\ api[t].at = "await"
              /\ c.at = "persist" /\ c.answer = "connected"
           \/ /\ api[t].at = "drop"
              /\ c.at = "persist" /\ c.answer = api[t].answer
  BY DEF Installed, Accepted, Dropped, ApiGo, Call, IInv, TypeOK
<1>3. \A s \in Apis : s = t
  BY OneCall
<1>4. \A i \in 1..Len(loopq) : loopq[i].op = "stop"
  BY NothingLeft, NothingAsked DEF Installed, Accepted, Dropped, TInv
<1>5. AskedFor' /\ AnswerFits' /\ LeftKeyEmpty'
  BY <1>1, <1>2, <1>3, <1>4 DEF AskedFor, AnswerFits, LeftKeyEmpty
<1>6. SavesCover'
  BY <1>1, <1>2, <1>3 DEF TInv, SavesCover, Covers, linkVars
<1>7. \A l \in Links : Out(l) => Out(l)'
  BY <1>1, OutStays DEF linkVars
<1>8. api[t].link \in Links
  BY <1>2 DEF IInv, TypeOK, Calls, Idle, Call
<1>9. api[t].at = "drop" => api[t].link \in disposed /\ Out(api[t].link)
  BY NothingLeft DEF Installed, Accepted, Dropped, TInv, CallsOut
<1>10. CallsOut'
  BY <1>1, <1>2, <1>3, <1>7, <1>8, <1>9 DEF CallsOut, linkVars
<1>11. ToldOut'
  BY <1>1, <1>2, <1>3, <1>7 DEF TInv, ToldOut, Absent, linkVars, histVars
<1> QED
  BY <1>1, <1>5, <1>6, <1>10, <1>11, ThreadFrames
  DEF TInv, lifeVars, linkVars, appVars, stopVars, histVars

\* It reads the records of what is held.
LEMMA ThreadSnapshot ==
  ASSUME IInv, TInv, OneThread, NEW t \in Apis, Snapshot(t)
  PROVE  TInv'
<1>1. /\ up /\ Shrinks
      /\ UNCHANGED <<store, lifeVars, linkVars, appVars, loopq, loop, workq,
                     stopVars, histVars>>
  BY DEF Snapshot, linkVars, Shrinks
<1>2. /\ api[t].at = "persist" /\ api'[t].at = "save"
      /\ api'[t].link = api[t].link /\ api'[t].answer = api[t].answer
      /\ api'[t].snap = Records
  BY DEF Snapshot, Call, IInv, TypeOK
<1>3. \A s \in Apis : s = t
  BY OneCall
<1>4. \A i \in 1..Len(loopq) : loopq[i].op = "stop"
  BY <1>2, NothingAsked DEF TInv
<1>5. AskedFor' /\ AnswerFits' /\ LeftKeyEmpty'
  BY <1>1, <1>2, <1>3, <1>4 DEF AskedFor, AnswerFits, LeftKeyEmpty
<1>6. SavesCover'
  BY <1>1, <1>2, <1>3, RecordsAre DEF TInv, SavesCover, Covers, linkVars
<1>7. \A l \in Links : Out(l) => Out(l)'
  BY <1>1, OutStays DEF linkVars
<1>8. api[t].link \in Links /\ Made(api[t].link)
  BY <1>2 DEF IInv, TypeOK, AllMade, Calls, Idle, Call
<1>9. \A l \in Links : Made(l) /\ Out(l) => Absent(l, Records)'
  BY <1>1, RecordsAre DEF Out, Absent, Records, linkVars
<1>10. CallsOut'
  BY <1>1, <1>2, <1>3, <1>7, <1>8, <1>9 DEF TInv, CallsOut, Absent, Records,
     linkVars
<1>11. \A l \in Links : told[l] # "none" => Made(l)
  BY DEF TInv, ToldMade
<1>12. ToldOut'
  BY <1>1, <1>2, <1>3, <1>7, <1>9, <1>11
  DEF TInv, ToldOut, Absent, Records, linkVars, histVars
<1> QED
  BY <1>1, <1>5, <1>6, <1>10, <1>12, ThreadFrames
  DEF TInv, lifeVars, linkVars, appVars, stopVars, histVars

\* It writes them and answers.
LEMMA ThreadSave ==
  ASSUME IInv, TInv, OneThread, NEW t \in Apis, Save(t)
  PROVE  TInv'
<1>1. /\ up /\ Shrinks
      /\ UNCHANGED <<lifeVars, linkVars, appVars, loopq, loop, workq, stopVars,
                     revoked>>
  BY DEF Save, linkVars, Shrinks
<1> DEFINE l == api[t].link
<1>2. /\ api[t].at = "save" /\ api'[t].at = "idle"
      /\ store' = api[t].snap
      /\ told' = [told EXCEPT ![l] = api[t].answer]
  BY DEF Save, Idle, Call, IInv, TypeOK
<1>3. \A s \in Apis : s = t
  BY OneCall
<1>4. \A i \in 1..Len(loopq) : loopq[i].op = "stop"
  BY <1>2, NothingAsked DEF TInv
<1>5. AskedFor' /\ AnswerFits' /\ LeftKeyEmpty' /\ SavesCover' /\ CallsOut'
  BY <1>1, <1>2, <1>3, <1>4 DEF TInv, AskedFor, AnswerFits, LeftKeyEmpty,
     SavesCover, Covers, CallsOut, linkVars
<1>6. \A m \in Links : Out(m) => Out(m)'
  BY <1>1, OutStays DEF linkVars
<1>7. l \in Links /\ Made(l) /\ told \in [Links -> Answers]
  BY <1>2 DEF IInv, TypeOK, AllMade, Calls, Idle, Call
<1> HIDE DEF l
<1>8. ToldMade'
  BY <1>1, <1>2, <1>7 DEF TInv, ToldMade, Made, linkVars
<1>9. StoreCovers'
  BY <1>1, <1>2 DEF TInv, StoreCovers, SavesCover, Covers, linkVars
<1>10. api[t].answer \in {"failed", "left"} =>
        /\ Out(l) /\ Absent(l, api[t].snap)
        /\ api[t].answer = "failed" => l \in disposed
  BY <1>2 DEF TInv, CallsOut, l
<1>11. ToldOut'
  <2> SUFFICES ASSUME NEW m \in Links, told'[m] \in {"failed", "left"}
               PROVE  /\ Out(m)'
                      /\ Absent(m, store)'
                      /\ told'[m] = "failed" => m \in disposed'
    BY <1>2, <1>3 DEF ToldOut
  <2>1. CASE m = l
    BY <1>1, <1>2, <1>6, <1>7, <1>10, <2>1 DEF Absent, linkVars
  <2>2. CASE m # l
    BY <1>1, <1>2, <1>6, <1>7, <2>2 DEF TInv, ToldOut, Absent, linkVars
  <2> QED
    BY <2>1, <2>2
<1> QED
  BY <1>1, <1>5, <1>8, <1>9, <1>11, ThreadFrames
  DEF TInv, lifeVars, linkVars, appVars, stopVars

\* It stops listening to the runtime of a board that is left.
LEMMA ThreadRemoveSink ==
  ASSUME IInv, TInv, OneThread, NEW t \in Apis, RemoveSink(t)
  PROVE  TInv'
<1> DEFINE l == api[t].link
<1>1. /\ up /\ Shrinks
      /\ UNCHANGED <<store, lifeVars, linkVars, runtime, loopq, loop, workq,
                     stopVars, histVars>>
  BY DEF RemoveSink, linkVars, Shrinks
<1>2. /\ api[t].at = "dispose" /\ api'[t].at = "release"
      /\ api'[t].link = l /\ api'[t].answer = api[t].answer
      /\ sinks' = [sinks EXCEPT ![LinkKey(l)] = None]
  BY DEF RemoveSink, ApiGo, Call, IInv, TypeOK
<1>3. \A s \in Apis : s = t
  BY OneCall
<1>4. /\ \A i \in 1..Len(loopq) : loopq[i].op = "stop"
      /\ ~Pending(l, {"dispose"})
  BY NothingLeft DEF RemoveSink
<1>5. l \in Links /\ links[LinkKey(l)] = None
  BY <1>2 DEF IInv, TypeOK, Calls, Idle, Call, TInv, LeftKeyEmpty
<1>6. \A m \in Links : Out(m) => Out(m)'
  BY <1>1, OutStays DEF linkVars
<1>7. Out(l)
  BY <1>2, <1>4 DEF TInv, CallsOut
<1> HIDE DEF l
<1>8. AskedFor' /\ AnswerFits' /\ SavesCover'
  BY <1>1, <1>2, <1>3, <1>4 DEF TInv, AskedFor, AnswerFits, SavesCover, Covers,
     linkVars
<1>9. HeldListens'
  BY <1>1, <1>2, <1>5 DEF IInv, TypeOK, TInv, HeldListens, linkVars, stopVars
<1>10. LeftKeyEmpty'
  BY <1>1, <1>2, <1>3, <1>5 DEF LeftKeyEmpty, LinkKey, linkVars
<1>11. CallsOut'
  BY <1>2, <1>3, <1>5, <1>6, <1>7 DEF CallsOut
<1>12. ToldOut'
  BY <1>1, <1>2, <1>3, <1>6 DEF TInv, ToldOut, Absent, linkVars, histVars
<1> QED
  BY <1>1, <1>8, <1>9, <1>10, <1>11, <1>12, ThreadFrames
  DEF TInv, lifeVars, linkVars, stopVars, histVars

\* It takes that runtime away.
LEMMA ThreadRemoveRuntime ==
  ASSUME IInv, TInv, OneThread, NEW t \in Apis, RemoveRuntime(t)
  PROVE  TInv'
<1> DEFINE l == api[t].link
<1>1. /\ up /\ Shrinks
      /\ UNCHANGED <<store, lifeVars, linkVars, sinks, loopq, loop, workq,
                     stopVars, histVars>>
  BY DEF RemoveRuntime, linkVars, Shrinks
<1>2. /\ api[t].at = "release" /\ api'[t].at = "persist"
      /\ api'[t].link = l /\ api'[t].answer = api[t].answer
      /\ runtime' = [runtime EXCEPT ![LinkKey(l)] = None]
  BY DEF RemoveRuntime, ApiGo, Call, IInv, TypeOK
<1>3. \A s \in Apis : s = t
  BY OneCall
<1>4. \A i \in 1..Len(loopq) : loopq[i].op = "stop"
  BY <1>2, NothingAsked DEF TInv
<1>5. l \in Links /\ Out(l) /\ api[t].answer = "left"
  BY <1>2 DEF IInv, TypeOK, Calls, Idle, Call, TInv, CallsOut, AnswerFits
<1>6. \A m \in Links : Out(m) => Out(m)'
  BY <1>1, OutStays DEF linkVars
<1> HIDE DEF l
<1>7. AskedFor' /\ AnswerFits' /\ LeftKeyEmpty' /\ SavesCover'
  BY <1>1, <1>2, <1>3, <1>4 DEF TInv, AskedFor, AnswerFits, LeftKeyEmpty,
     SavesCover, Covers, linkVars
<1>8. CallsOut'
  BY <1>2, <1>3, <1>5, <1>6 DEF CallsOut
<1>9. ToldOut'
  BY <1>1, <1>2, <1>3, <1>6 DEF TInv, ToldOut, Absent, linkVars, histVars
<1>10. \A k \in Keys : runtime'[k] # None => runtime'[k] = runtime[k]
  BY <1>2 DEF IInv, TypeOK
<1>11. BuildersArrived'
  BY <1>1, <1>10 DEF TInv, BuildersArrived, Arrived, Made, Pending, linkVars
<1>12. ReleasesPast'
  <2>1. \A i \in 1..Len(workq) : LinkKey(workq[i].link) \in Keys
    BY WorkIs, HeldIs DEF IInv, AllMade
  <2> QED
    BY <1>1, <1>10, <2>1 DEF TInv, ReleasesPast, HeldLink, LinkKey, linkVars
<1> QED
  BY <1>1, <1>7, <1>8, <1>9, <1>11, <1>12, ThreadFrames
  DEF TInv, DownEmpty, lifeVars, linkVars, stopVars, histVars

\* A task it posts is the one it goes on to wait for.
LEMMA AsksOne ==
  ASSUME IInv, TInv, OneThread, NEW t \in Apis,
         api[t].at \notin {"install", "drop", "dispose"},
         NEW e \in Tasks, loopq' = Append(loopq, e),
         e.by = t, api'[t].at = e.op, api'[t].link = e.link,
         e.op = "install" =>
           /\ phase'[e.link] = "fresh" /\ told'[e.link] = "none"
           /\ e.link \notin held'
  PROVE  AskedFor'
<1>1. /\ \A i \in 1..Len(loopq) : loopq[i].op = "stop"
      /\ loopq \in Seq(Tasks)
  BY NothingAsked, TasksAre DEF TInv
<1>2. \A i \in 1..Len(loopq') : loopq'[i].op = "stop" \/ loopq'[i] = e
  BY <1>1, AppendIs
<1> QED
  BY <1>2 DEF AskedFor

\* It asks the loop to take a link down that was not welcomed.
LEMMA ThreadGivesUp ==
  ASSUME IInv, TInv, OneThread, NEW t \in Apis, GiveUp(t)
  PROVE  TInv'
<1> DEFINE l == api[t].link
           e == [op |-> "drop", link |-> l, by |-> t]
<1>1. /\ up /\ Shrinks
      /\ UNCHANGED <<store, lifeVars, linkVars, appVars, loop, workq, stopVars,
                     histVars>>
  BY DEF GiveUp, linkVars, Shrinks
<1>2. /\ api[t].at = "await" /\ api'[t].at = "drop" /\ api'[t].link = l
      /\ loopq' = Append(loopq, e)
  BY DEF GiveUp, ApiGo, Post, Call, IInv, TypeOK
<1>3. \A s \in Apis : s = t
  BY OneCall
<1>4. l \in Links
  BY <1>2 DEF IInv, TypeOK, Calls, Idle, Call
<1>5. /\ e \in Tasks /\ e.op = "drop" /\ e.link = l /\ e.by = t
      /\ loopq \in Seq(Tasks)
  BY <1>4 DEF Tasks, IInv, TypeOK
<1> HIDE DEF l, e
<1>6. AskedFor'
  BY <1>2, <1>5, AsksOne
<1>7. AnswerFits' /\ LeftKeyEmpty' /\ SavesCover'
  BY <1>1, <1>2, <1>3 DEF TInv, AnswerFits, LeftKeyEmpty, SavesCover, Covers,
     linkVars
<1>8. CallsOut'
  <2>1. \E i \in DOMAIN loopq' : loopq'[i].link = l /\ loopq'[i].op = "drop"
    BY <1>2, <1>5, PostKeeps DEF Pending
  <2> QED
    BY <1>2, <1>3, <2>1 DEF CallsOut, Pending
<1>9. ToldOut'
  <2>1. \A m \in Links : Out(m) => Out(m)'
    BY <1>1, OutStays DEF linkVars
  <2> QED
    BY <1>1, <1>2, <1>3, <2>1 DEF TInv, ToldOut, Absent, linkVars, histVars
<1>10. BuildersArrived'
  BY <1>1, <1>2, <1>5, PostAdds
  DEF TInv, BuildersArrived, Arrived, Made, linkVars, appVars
<1> QED
  BY <1>1, <1>6, <1>7, <1>8, <1>9, <1>10, ThreadFrames
  DEF TInv, lifeVars, linkVars, appVars, stopVars, histVars

\* It takes a link out of the map, which the loop is to dispose of.
LEMMA ThreadRemoves ==
  ASSUME IInv, TInv, OneThread, NEW t \in Apis, NEW k \in Keys, Remove(t, k)
  PROVE  TInv'
<1> DEFINE l == links[k]
           e == [op |-> "dispose", link |-> l, by |-> t]
<1>1. /\ up /\ l # None
      /\ links' = [links EXCEPT ![k] = None]
      /\ UNCHANGED <<store, lifeVars, rec, phase, disposed, outcome, appVars,
                     loop, workq, stopVars, histVars>>
  BY DEF Remove, Serving
<1>2. /\ api[t].at = "idle" /\ api'[t].at = "dispose" /\ api'[t].link = l
      /\ api'[t].answer = "left"
      /\ loopq' = Append(loopq, e)
  BY DEF Remove, Serving, Post, Call, IInv, TypeOK
<1>3. \A s \in Apis : s = t
  BY OneCall
<1>4. l \in Links /\ LinkKey(l) = k
  BY <1>1, HeldIs
<1>5. /\ e \in Tasks /\ e.op = "dispose" /\ e.link = l /\ e.by = t
      /\ loopq \in Seq(Tasks)
  BY <1>4 DEF Tasks, IInv, TypeOK
<1> HIDE DEF l, e
<1>6. Shrinks /\ links'[k] = None
  BY <1>1 DEF Shrinks, IInv, TypeOK
<1>7. AskedFor'
  BY <1>2, <1>5, AsksOne
<1>8. AnswerFits' /\ LeftKeyEmpty'
  BY <1>1, <1>2, <1>3, <1>4, <1>6 DEF AnswerFits, LeftKeyEmpty, LinkKey
<1>9. SavesCover'
  BY <1>1, <1>2, <1>3, <1>6 DEF Shrinks, TInv, SavesCover, Covers
<1>10. CallsOut'
  <2>1. \E i \in DOMAIN loopq' : loopq'[i].link = l /\ loopq'[i].op = "dispose"
    BY <1>2, <1>5, PostKeeps DEF Pending
  <2> QED
    BY <1>2, <1>3, <2>1 DEF CallsOut, Pending
<1>11. ToldOut'
  <2>1. \A m \in Links : Out(m) => Out(m)'
    BY <1>1, <1>6, OutStays
  <2> QED
    BY <1>1, <1>2, <1>3, <2>1 DEF TInv, ToldOut, Absent, histVars
<1>12. BuildersArrived'
  BY <1>1, <1>2, <1>5, PostAdds
  DEF TInv, BuildersArrived, Arrived, Made, appVars
<1> QED
  BY <1>1, <1>6, <1>7, <1>8, <1>9, <1>10, <1>11, <1>12, ThreadFrames
  DEF TInv, lifeVars, appVars, stopVars, histVars

\* It makes a link, which nothing refers to yet.
LEMMA ThreadIntroduces ==
  ASSUME IInv, TInv, OneThread, NEW t \in Apis, NEW tk \in Tickets,
         Introduce(t, tk)
  PROVE  TInv'
<1>1. PICK l \in Links :
        /\ rec[l] = None
        /\ rec' = [rec EXCEPT ![l] = tk]
        /\ loopq' = Append(loopq, [op |-> "install", link |-> l, by |-> t])
        /\ api' = [api EXCEPT ![t] = Call("install", l, "failed", {})]
  BY DEF Introduce, Post
<1> DEFINE e == [op |-> "install", link |-> l, by |-> t]
<1>2. /\ up
      /\ UNCHANGED <<store, lifeVars, links, phase, disposed, outcome, appVars,
                     loop, workq, stopVars, histVars>>
  BY DEF Introduce, Serving
<1>3. /\ api[t].at = "idle" /\ api'[t].at = "install" /\ api'[t].link = l
      /\ loopq' = Append(loopq, e)
  BY <1>1 DEF Introduce, Serving, Call, IInv, TypeOK
<1>4. \A s \in Apis : s = t
  BY OneCall
<1>5. /\ e \in Tasks /\ e.op = "install" /\ e.link = l /\ e.by = t
      /\ loopq \in Seq(Tasks)
  BY DEF Tasks, IInv, TypeOK
<1> HIDE DEF e
<1>6. /\ ~Made(l) /\ \A m \in Links : Made(m) => rec'[m] = rec[m] /\ m # l
      /\ \A m \in Links : m # l => rec'[m] = rec[m]
  BY <1>1, NamesAssumption DEF IInv, TypeOK, Made
<1>7. phase[l] = "fresh" /\ told[l] = "none" /\ l \notin held
  BY <1>6 DEF IInv, AllMade, TInv, ToldMade
<1>8. AskedFor'
  BY <1>2, <1>3, <1>5, <1>7, AsksOne DEF stopVars, histVars
<1>9. /\ \A m \in Links : Made(m) =>
           Made(m)' /\ LinkKey(m)' = LinkKey(m) /\ (HeldLink(m)' <=> HeldLink(m))
      /\ \A k \in Keys : links[k] # None => rec'[links[k]] = rec[links[k]]
  BY <1>2, <1>6, HeldIs DEF Made, LinkKey, HeldLink
<1>10. \A m \in Links, ts \in SUBSET Tickets :
         Made(m) /\ Absent(m, ts) => Absent(m, ts)'
  <2> SUFFICES ASSUME NEW m \in Links, NEW ts \in SUBSET Tickets,
                      Made(m), Absent(m, ts), rec'[m] \in ts
               PROVE  \E n \in Links \ {m} : rec'[n] = rec'[m]
    BY DEF Absent
  <2>1. PICK n \in Links \ {m} : rec[n] = rec[m]
    BY <1>6 DEF Absent
  <2> QED
    BY <1>6, <2>1 DEF Made
<1>11. AnswerFits' /\ LeftKeyEmpty' /\ CallsOut'
  BY <1>3, <1>4 DEF AnswerFits, LeftKeyEmpty, CallsOut
<1>12. SavesCover' /\ StoreCovers'
  BY <1>2, <1>3, <1>4, <1>9 DEF TInv, SavesCover, StoreCovers, Covers, histVars
<1>13. ToldMade' /\ HeldListens' /\ NoneOpensLate'
  BY <1>2, <1>9 DEF TInv, ToldMade, HeldListens, NoneOpensLate, appVars,
     stopVars, histVars
<1>14. ToldOut'
  <2>1. store \in SUBSET Tickets /\ loop.snap \in SUBSET Tickets
    BY DEF IInv, TypeOK
  <2>2. \A m \in Links : told[m] # "none" => Made(m)
    BY DEF TInv, ToldMade
  <2> QED
    BY <1>2, <1>3, <1>4, <1>9, <1>10, <2>1, <2>2
    DEF TInv, ToldOut, Out, histVars
<1>15. BuildersArrived'
  <2>1. \A m \in Links : Arrived(m) => Arrived(m)'
    BY <1>3, <1>5, <1>6, <1>9, PostAdds DEF Arrived
  <2>2. /\ \A i \in 1..Len(workq) : workq[i].link \in Links
        /\ \A k \in Keys : runtime[k] # None => runtime[k] \in Links
    BY WorkIs DEF IInv, TypeOK
  <2> QED
    BY <1>2, <2>1, <2>2 DEF TInv, BuildersArrived, appVars
<1>16. ReleasesPast'
  <2>1. /\ \A i \in 1..Len(workq) :
             workq[i].link \in Links /\ Made(workq[i].link)
        /\ Len(workq) \in Nat
    BY WorkIs DEF IInv, AllMade
  <2>2. \A i \in 1..Len(workq) : \A j \in 1..i : j \in 1..Len(workq)
    BY <2>1
  <2> QED
    BY <1>2, <1>9, <2>1, <2>2 DEF TInv, ReleasesPast, appVars
<1> QED
  BY <1>2, <1>8, <1>11, <1>12, <1>13, <1>14, <1>15, <1>16
  DEF TInv, DownEmpty, lifeVars

-----------------------------------------------------------------------------
(* The event loop's tasks.                                                 *)

\* The task at the head is the one the request thread waits for.
LEMMA HeadIsAsked ==
  ASSUME IInv, TInv, OneThread, loopq # << >>, loopq' = Tail(loopq)
  PROVE  /\ loopq \in Seq(Tasks)
         /\ Head(loopq).op # "stop" =>
              /\ Head(loopq).link \in Links /\ Made(Head(loopq).link)
              /\ \A t \in Apis :
                   api[t].at = Head(loopq).op /\ api[t].link = Head(loopq).link
         /\ Head(loopq).op = "install" =>
              LET l == Head(loopq).link
              IN /\ phase[l] = "fresh" /\ told[l] = "none" /\ l \notin held
                 /\ Pending(l, {"install"})
         /\ \A i \in 1..Len(loopq') :
              /\ loopq'[i].op # "stop" =>
                   /\ api[loopq'[i].by].at = loopq'[i].op
                   /\ api[loopq'[i].by].link = loopq'[i].link
                   /\ loopq'[i].by \in Apis
              /\ loopq'[i].op = "install" =>
                   /\ phase[loopq'[i].link] = "fresh"
                   /\ told[loopq'[i].link] = "none"
                   /\ loopq'[i].link \notin held
                   /\ Head(loopq).op # "install"
<1>1. /\ loopq \in Seq(Tasks) /\ 1 \in 1..Len(loopq)
      /\ Head(loopq) = loopq[1] /\ DOMAIN loopq = 1..Len(loopq)
      /\ \A i \in 1..Len(loopq') :
           i + 1 \in 1..Len(loopq) /\ loopq'[i] = loopq[i + 1]
  BY TakeIs, TasksAre
<1>2. /\ Head(loopq).op # "stop" =>
           /\ Head(loopq).link \in Links /\ Made(Head(loopq).link)
           /\ \A t \in Apis :
                api[t].at = Head(loopq).op /\ api[t].link = Head(loopq).link
      /\ Head(loopq).op = "install" =>
           LET l == Head(loopq).link
           IN phase[l] = "fresh" /\ told[l] = "none" /\ l \notin held
  BY <1>1, TasksAre DEF TInv, AskedFor, OneThread
<1>3. Head(loopq).op = "install" => Pending(Head(loopq).link, {"install"})
  BY <1>1 DEF Pending
<1>4. \A i \in 1..Len(loopq') :
        /\ loopq'[i].op # "stop" =>
             /\ api[loopq'[i].by].at = loopq'[i].op
             /\ api[loopq'[i].by].link = loopq'[i].link
             /\ loopq'[i].by \in Apis
        /\ loopq'[i].op = "install" =>
             /\ phase[loopq'[i].link] = "fresh"
             /\ told[loopq'[i].link] = "none"
             /\ loopq'[i].link \notin held
  BY <1>1, TasksAre DEF TInv, AskedFor
<1>5. \A i \in 1..Len(loopq') :
        loopq'[i].op = "install" => Head(loopq).op # "install"
  <2> SUFFICES ASSUME NEW i \in 1..Len(loopq'), loopq'[i].op = "install",
                      Head(loopq).op = "install"
               PROVE  FALSE
    OBVIOUS
  <2>1. loopq'[i].link = Head(loopq).link
    BY <1>2, <1>4
  <2> QED
    BY <2>1, TakeLeaves, <1>1 DEF IInv, InstallsOnce
<1> QED
  BY <1>1, <1>2, <1>3, <1>4, <1>5

\* It installs the link of the introduction that waits for that.
LEMMA ThreadLoopInstalls ==
  ASSUME IInv, TInv, OneThread, RunInstall
  PROVE  TInv'
<1> DEFINE l == Head(loopq).link
           old == Replaced(l)
<1>1. /\ up /\ loop.at = "idle" /\ loopq # << >> /\ loopq' = Tail(loopq)
      /\ Head(loopq).op = "install"
      /\ links' = [links EXCEPT ![LinkKey(l)] = l]
      /\ disposed' = disposed \cup old
      /\ sinks' = [sinks EXCEPT ![LinkKey(l)] = l]
      /\ phase' = [Disposed(old) EXCEPT
                     ![l] = IF MayOpen(l) THEN "opening" ELSE @]
      /\ UNCHANGED <<store, lifeVars, rec, outcome, runtime, loop, workq, api,
                     stopVars, histVars>>
  BY DEF RunInstall, TaskIs, ListenTo
<1>2. /\ l \in Links /\ Made(l) /\ LinkKey(l) \in Keys /\ l # None
      /\ \A t \in Apis : api[t].at = "install"
      /\ phase[l] = "fresh" /\ told[l] = "none" /\ Pending(l, {"install"})
      /\ loopq \in Seq(Tasks)
  BY <1>1, HeadIsAsked, HeldIs
<1>3. \A i \in 1..Len(loopq') : loopq'[i].op \in {"stop"}
  <2>1. \A i \in 1..Len(loopq') : loopq'[i].op # "install"
    BY <1>1, HeadIsAsked
  <2> QED
    BY <1>1, <1>2, <2>1, HeadIsAsked
<1>4. \A k \in Keys : links[k] # l
  BY <1>1, TakeIs DEF IInv, InstallsOnce
<1>5. /\ links'[LinkKey(l)] = l /\ sinks'[LinkKey(l)] = l
      /\ \A k \in Keys : k # LinkKey(l) =>
           links'[k] = links[k] /\ sinks'[k] = sinks[k]
      /\ stopped => phase'[l] = "fresh"
      /\ \A m \in Links : m # l => phase'[m] \in {phase[m], "closed"}
  BY <1>1, <1>2, <1>4 DEF IInv, TypeOK, Disposed, MayOpen, Replaced
<1>6. \A m \in Links : m # l => (HeldLink(m)' => HeldLink(m))
  BY <1>1, <1>5, HeldIs DEF HeldLink, LinkKey
<1>7. AskedFor'
  BY <1>3 DEF AskedFor
<1>8. AnswerFits' /\ LeftKeyEmpty' /\ SavesCover' /\ CallsOut'
  BY <1>1, <1>2 DEF AnswerFits, LeftKeyEmpty, SavesCover, CallsOut
<1>9. DownEmpty' /\ ToldMade'
  BY <1>1 DEF TInv, DownEmpty, ToldMade, Made, lifeVars, histVars
<1>10. HeldListens'
  BY <1>1, <1>5 DEF TInv, HeldListens, stopVars
<1>11. NoneOpensLate'
  <2>1. \A k \in Keys : links[k] # None => links[k] \in Links /\ links[k] # l
    BY <1>4, HeldIs
  <2> QED
    BY <1>1, <1>5, <2>1 DEF TInv, NoneOpensLate, stopVars, stopped
<1>12. StoreCovers'
  BY <1>1, <1>2, <1>5 DEF TInv, StoreCovers, histVars
<1>13. ToldOut'
  BY <1>1, <1>2, <1>6 DEF TInv, ToldOut, Out, Absent, histVars
<1>14. BuildersArrived'
  BY <1>1, <1>2, TakeAdds DEF TInv, BuildersArrived, Arrived, Made
<1>15. ReleasesPast'
  <2>1. /\ \A i \in 1..Len(workq) :
             /\ workq[i].link \in Links /\ Made(workq[i].link)
             /\ workq[i].link # l /\ LinkKey(workq[i].link) \in Keys
        /\ \A k \in Keys : runtime[k] # l
        /\ Len(workq) \in Nat
    BY <1>2, WorkIs, HeldIs DEF IInv, AllMade, TInv, BuildersArrived, Arrived
  <2>2. \A i \in 1..Len(workq) : \A j \in 1..i : j \in 1..Len(workq)
    BY <2>1
  <2> QED
    BY <1>1, <1>5, <1>6, <2>1, <2>2 DEF TInv, ReleasesPast, LinkKey
<1> QED
  BY <1>7, <1>8, <1>9, <1>10, <1>11, <1>12, <1>13, <1>14, <1>15 DEF TInv

\* It takes the link of a failed introduction down.
LEMMA ThreadLoopDrops ==
  ASSUME IInv, TInv, OneThread, RunDrop
  PROVE  TInv'
<1> DEFINE l == Head(loopq).link
<1>1. /\ up /\ loop.at = "idle" /\ loopq # << >> /\ loopq' = Tail(loopq)
      /\ Head(loopq).op = "drop"
      /\ disposed' = disposed \cup {l}
      /\ phase' = Disposed({l})
      /\ \/ /\ HeldLink(l)
            /\ links' = [links EXCEPT ![LinkKey(l)] = None]
            /\ sinks' = [sinks EXCEPT ![LinkKey(l)] = None]
         \/ ~HeldLink(l) /\ links' = links /\ sinks' = sinks
      /\ UNCHANGED <<store, lifeVars, rec, outcome, runtime, loop, workq, api,
                     stopVars, histVars>>
  BY DEF RunDrop, TaskIs, Unlist
<1>2. /\ l \in Links /\ Made(l) /\ LinkKey(l) \in Keys /\ l # None
      /\ \A t \in Apis : api[t].at = "drop" /\ api[t].link = l
      /\ loopq \in Seq(Tasks)
  BY <1>1, HeadIsAsked, HeldIs
<1>3. /\ Shrinks /\ links'[LinkKey(l)] # l
      /\ \A k \in Keys : links'[k] # None => sinks'[k] = sinks[k]
      /\ \A m \in Links : phase'[m] \in {phase[m], "closed"}
  BY <1>1, <1>2, HeldIs DEF Shrinks, IInv, TypeOK, Disposed
<1> HIDE DEF l
<1>4. AskedFor'
  <2>1. \A i \in 1..Len(loopq') : loopq'[i].op \in {"stop", "drop"}
    BY <1>1, <1>2, HeadIsAsked
  <2> QED
    BY <1>1, <2>1, HeadIsAsked DEF AskedFor
<1>5. SavesCover' /\ AnswerFits' /\ LeftKeyEmpty'
  BY <1>1, <1>2 DEF SavesCover, AnswerFits, LeftKeyEmpty
<1>6. HeldListens'
  BY <1>1, <1>3 DEF Shrinks, TInv, HeldListens, stopVars
<1>7. NoneOpensLate'
  <2>1. \A k \in Keys : links[k] # None => links[k] \in Links
    BY HeldIs
  <2> QED
    BY <1>1, <1>3, <2>1 DEF Shrinks, TInv, NoneOpensLate, stopVars
<1>8. CallsOut'
  <2>1. links'[KeyOf[rec'[l]]] # l
    BY <1>1, <1>3 DEF LinkKey
  <2> QED
    BY <1>1, <1>2, <2>1 DEF CallsOut, Out, HeldLink, LinkKey
<1>9. ToldOut'
  <2>1. \A m \in Links : Out(m) => Out(m)'
    BY <1>1, <1>3, OutStays
  <2> QED
    BY <1>1, <1>2, <2>1 DEF TInv, ToldOut, Absent, histVars
<1>10. BuildersArrived'
  BY <1>1, <1>2, TakeAdds DEF TInv, BuildersArrived, Arrived, Made
<1> QED
  BY <1>1, <1>3, <1>4, <1>5, <1>6, <1>7, <1>8, <1>9, <1>10, ThreadFrames
  DEF TInv, lifeVars, stopVars, histVars

\* It disposes of a link that was left, or of all that stop() has collected.
LEMMA ThreadLoopDisposes ==
  ASSUME IInv, TInv, OneThread, RunDispose
  PROVE  TInv'
<1> DEFINE ls == IF Head(loopq).op = "stop" THEN held ELSE {Head(loopq).link}
<1>1. /\ up /\ loop.at = "idle" /\ loopq # << >> /\ loopq' = Tail(loopq)
      /\ Head(loopq).op \in {"dispose", "stop"}
      /\ disposed' = disposed \cup ls
      /\ phase' = Disposed(ls)
      /\ UNCHANGED <<store, lifeVars, rec, links, outcome, appVars, loop, workq,
                     api, stopVars, histVars>>
  BY DEF RunDispose, TaskIs
<1>2. /\ Shrinks /\ loopq \in Seq(Tasks)
      /\ \A m \in Links : phase'[m] \in {phase[m], "closed"}
      /\ \A m \in Links : m \notin ls => phase'[m] = phase[m]
  BY <1>1, HeadIsAsked DEF Shrinks, Disposed
<1>3. AskedFor'
  <2>1. Head(loopq).op = "dispose" =>
          \A i \in 1..Len(loopq') : loopq'[i].op \in {"stop", "dispose"}
    BY <1>1, HeadIsAsked
  <2>2. /\ loopq' \in Seq(Tasks)
        /\ \A i \in 1..Len(loopq') : loopq'[i] \in Tasks
    BY <1>1, <1>2, TailIs
  <2>3. \A i \in 1..Len(loopq') :
          loopq'[i].op = "install" => phase'[loopq'[i].link] = "fresh"
    BY <1>1, <1>2, <2>1, <2>2, HeadIsAsked, NamesAssumption DEF Tasks
  <2> QED
    BY <1>1, <2>3, HeadIsAsked DEF AskedFor, stopVars, histVars
<1> HIDE DEF ls
<1>4. NoneOpensLate'
  <2>1. \A k \in Keys : links[k] # None => links[k] \in Links
    BY HeldIs
  <2> QED
    BY <1>1, <1>2, <2>1 DEF TInv, NoneOpensLate, stopVars
<1>5. \A m \in Links : Out(m) => Out(m)'
  BY <1>1, <1>2, OutStays
<1>6. CallsOut'
  <2>1. CASE Head(loopq).op = "stop"
    <3>1. \A m : /\ Pending(m, {"drop"}) => Pending(m, {"drop"})'
                 /\ Pending(m, {"dispose"}) => Pending(m, {"dispose"})'
      BY <1>1, <1>2, <2>1, TakeKeeps
    <3>2. \A t \in Apis : api[t].at # "idle" => api[t].link \in Links
      BY DEF IInv, TypeOK, Calls, Idle, Call
    <3> QED
      BY <1>1, <1>5, <3>1, <3>2 DEF TInv, CallsOut, Absent
  <2>2. CASE Head(loopq).op = "dispose"
    <3>1. /\ Head(loopq).link \in Links /\ Made(Head(loopq).link)
          /\ \A t \in Apis :
               api[t].at = "dispose" /\ api[t].link = Head(loopq).link
      BY <1>1, <2>2, HeadIsAsked
    <3>2. \A t \in Apis : Out(api[t].link)
      BY <1>1, <3>1, HeldIs DEF TInv, LeftKeyEmpty, Out
    <3> QED
      BY <1>1, <1>5, <3>1, <3>2 DEF CallsOut
  <2> QED
    BY <1>1, <2>1, <2>2
<1>7. ToldOut'
  BY <1>1, <1>5 DEF TInv, ToldOut, Absent, histVars
<1>8. BuildersArrived'
  BY <1>1, <1>2, TakeAdds DEF TInv, BuildersArrived, Arrived, Made, appVars
<1> QED
  BY <1>1, <1>2, <1>3, <1>4, <1>6, <1>7, <1>8, ThreadFrames
  DEF TInv, lifeVars, appVars, stopVars, histVars

-----------------------------------------------------------------------------
(* What the loop writes, and what sockets and timers report.               *)

\* The loop reads the records, or writes those it has read.
LEMMA ThreadLoopPersists ==
  ASSUME IInv, TInv, LoopSnapshot \/ LoopSave
  PROVE  TInv'
<1>1. /\ up /\ Shrinks
      /\ UNCHANGED <<lifeVars, linkVars, appVars, loopq, workq, api, stopVars,
                     histVars>>
      /\ \/ /\ UNCHANGED store /\ loop.at = "persist"
            /\ loop' = [at |-> "save", snap |-> Records]
         \/ store' = loop.snap /\ loop.at = "save" /\ loop'.at = "idle"
  BY DEF LoopSnapshot, LoopSave, LoopIdle, linkVars, Shrinks
<1>2. \A m \in Links : Made(m) /\ Out(m) => Out(m)'
  <2>1. CASE loop' = [at |-> "save", snap |-> Records]
    BY <1>1, <2>1, RecordsAre DEF Out, Absent, HeldLink, LinkKey, linkVars
  <2>2. CASE loop'.at = "idle"
    BY <1>1, <2>2 DEF Out, HeldLink, LinkKey, linkVars
  <2> QED
    BY <1>1, <2>1, <2>2
<1>3. SavesCover'
  BY <1>1, RecordsAre DEF TInv, SavesCover, Covers, linkVars
<1>4. StoreCovers'
  BY <1>1 DEF TInv, SavesCover, Covers, StoreCovers, linkVars, histVars
<1>5. CallsOut'
  <2>1. \A t \in Apis : api[t].at # "idle" =>
          api[t].link \in Links /\ Made(api[t].link)
    BY DEF IInv, TypeOK, AllMade, Calls, Idle, Call
  <2>2. \A l, ops : Pending(l, ops) => Pending(l, ops)'
    BY <1>1 DEF Pending
  <2> QED
    BY <1>1, <1>2, <2>1, <2>2 DEF TInv, CallsOut, Absent, linkVars
<1>6. ToldOut'
  <2>1. \A m \in Links : told[m] # "none" => Made(m)
    BY DEF TInv, ToldMade
  <2>2. \A m \in Links : told[m] \in {"failed", "left"} =>
          Out(m)' /\ Absent(m, store)'
    BY <1>1, <1>2, <2>1 DEF TInv, ToldOut, Out, Absent, linkVars
  <2> QED
    BY <1>1, <2>2 DEF TInv, ToldOut, Absent, linkVars, histVars
<1> QED
  BY <1>1, <1>3, <1>4, <1>5, <1>6, ThreadFrames
  DEF TInv, lifeVars, linkVars, appVars, stopVars, histVars

\* A connection moves on: the link is installed, and if stop() has collected the
\* links it is none that is held.
LEMMA ThreadConnectionMoves ==
  ASSUME IInv, TInv, NEW l \in Links,
         Opened(l) \/ WelcomeArrives(l) \/ ConnectionLost(l)
           \/ TimerExpires(l) \/ Reopen(l)
  PROVE  TInv'
<1>1. /\ up /\ Shrinks
      /\ phase[l] \notin {"fresh", "closed"}
      /\ \A m \in Links : m # l => phase'[m] = phase[m]
      /\ UNCHANGED <<store, lifeVars, rec, links, disposed, appVars, loopq, loop,
                     workq, api, stopVars, histVars>>
  BY DEF Opened, WelcomeArrives, ConnectionLost, TimerExpires, Reopen, Hears,
     Connected, Shrinks, IInv, TypeOK
<1>2. AskedFor'
  <2>1. \A i \in 1..Len(loopq) : loopq[i].op = "install" =>
          loopq[i].link \in Links /\ loopq[i].link # l
    BY <1>1, TasksAre DEF TInv, AskedFor
  <2> QED
    BY <1>1, <2>1 DEF TInv, AskedFor, stopVars, histVars
<1>3. NoneOpensLate'
  <2>1. \A k \in Keys : links[k] # None => links[k] \in Links
    BY HeldIs
  <2> QED
    BY <1>1, <2>1 DEF TInv, NoneOpensLate, stopVars
<1> QED
  BY <1>1, <1>2, <1>3, ThreadFrames
  DEF TInv, lifeVars, appVars, stopVars, histVars

\* Who has a phase beyond the first is not waiting to be installed.
LEMMA ConnectedArrived ==
  ASSUME IInv, TInv, NEW l \in Links, phase[l] # "fresh"
  PROVE  Arrived(l)
<1>1. Made(l)
  BY DEF IInv, AllMade
<1>2. ~Pending(l, {"install"})
  BY TasksAre DEF Pending, TInv, AskedFor
<1> QED
  BY <1>1, <1>2 DEF Arrived

\* The worker's queue, with a task at its end.
LEMMA WorkAdded ==
  ASSUME IInv, NEW e \in Work, workq' = Append(workq, e)
  PROVE  /\ Len(workq) \in Nat /\ Len(workq') = Len(workq) + 1
         /\ \A i \in 1..Len(workq) : workq'[i] = workq[i]
         /\ workq'[Len(workq) + 1] = e
         /\ \A i \in 1..Len(workq') : i \in 1..Len(workq) \/ i = Len(workq) + 1
         /\ \A i \in 1..Len(workq) : \A j \in 1..i : j \in 1..Len(workq)
<1>1. workq \in Seq(Work)
  BY DEF IInv, TypeOK
<1> QED
  BY <1>1, AppendIs

\* A request is queued for the worker.
LEMMA ThreadRequestIsQueued ==
  ASSUME IInv, TInv, NEW l \in Links, NEW op \in Requests, RequestArrives(l, op)
  PROVE  TInv'
<1> DEFINE e == [op |-> op, link |-> l]
<1>1. /\ up /\ Shrinks /\ phase[l] = "welcomed"
      /\ workq' = Append(workq, e)
      /\ UNCHANGED <<store, lifeVars, linkVars, appVars, loopq, loop, api,
                     stopVars, histVars>>
  BY DEF RequestArrives, Hears, Welcomed, linkVars, Shrinks
<1>2. e \in Work /\ e.op # "release" /\ e.link = l /\ Arrived(l)
  BY <1>1, ConnectedArrived DEF Work, Requests
<1> HIDE DEF e
<1>3. BuildersArrived'
  BY <1>1, <1>2, WorkAdded
  DEF TInv, BuildersArrived, Arrived, Made, Pending, linkVars, appVars
<1>4. ReleasesPast'
  <2> SUFFICES ASSUME NEW i \in 1..Len(workq'), workq'[i].op = "release"
               PROVE  LET k == LinkKey(workq'[i].link)
                      IN /\ \A j \in 1..i : LinkKey(workq'[j].link) = k =>
                              ~HeldLink(workq'[j].link)
                         /\ runtime[k] # None => runtime[k] # links[k]
    BY <1>1 DEF ReleasesPast, HeldLink, LinkKey, linkVars, appVars
  <2>1. i \in 1..Len(workq) /\ workq'[i] = workq[i]
    BY <1>1, <1>2, WorkAdded
  <2>2. \A j \in 1..i : j \in 1..Len(workq) /\ workq'[j] = workq[j]
    BY <1>1, <1>2, <2>1, WorkAdded
  <2> QED
    BY <2>1, <2>2 DEF TInv, ReleasesPast
<1> QED
  BY <1>1, <1>3, <1>4, ThreadFrames
  DEF TInv, lifeVars, linkVars, appVars, stopVars, histVars

\* A ticket is refused: what was asked for over its link comes before the
\* release, and nothing is held under its key.
LEMMA ThreadRefused ==
  ASSUME IInv, TInv, NEW l \in Links, TicketRefused(l)
  PROVE  TInv'
<1> DEFINE e == [op |-> "release", link |-> l]
<1>1. /\ up /\ loop.at = "idle" /\ phase[l] # "fresh"
      /\ disposed' = disposed \cup {l}
      /\ phase' = Disposed({l})
      /\ UNCHANGED <<store, lifeVars, rec, runtime, loopq, api, stopVars, told>>
  BY DEF TicketRefused, Hears, Connected
<1>2. /\ Arrived(l) /\ Made(l) /\ LinkKey(l) \in Keys /\ l # None
      /\ e \in Work /\ e.op = "release" /\ e.link = l
  BY <1>1, ConnectedArrived, HeldIs DEF Arrived, Work
<1> HIDE DEF e
<1>3. \/ /\ HeldLink(l)
         /\ links' = [links EXCEPT ![LinkKey(l)] = None]
         /\ sinks' = [sinks EXCEPT ![LinkKey(l)] = None]
         /\ workq' = Append(workq, e)
         /\ loop'.at = "persist"
      \/ UNCHANGED <<links, sinks, workq, loop>>
  BY DEF TicketRefused, Unlist, Release, e
<1>4. /\ Shrinks /\ loop'.at # "save"
      /\ \A k \in Keys : links'[k] # None => sinks'[k] = sinks[k]
      /\ \A m \in Links : phase'[m] \in {phase[m], "closed"}
      /\ \A m \in Links : m # l => phase'[m] = phase[m]
  BY <1>1, <1>2, <1>3 DEF Shrinks, IInv, TypeOK, Disposed
<1>5. AskedFor'
  <2>1. \A i \in 1..Len(loopq) : loopq[i].op = "install" =>
          loopq[i].link \in Links /\ loopq[i].link # l
    BY <1>1, TasksAre DEF TInv, AskedFor
  <2> QED
    BY <1>1, <1>4, <2>1 DEF TInv, AskedFor, stopVars
<1>6. HeldListens'
  BY <1>1, <1>4 DEF Shrinks, TInv, HeldListens, stopVars
<1>7. NoneOpensLate'
  <2>1. \A k \in Keys : links[k] # None => links[k] \in Links
    BY HeldIs
  <2> QED
    BY <1>1, <1>4, <2>1 DEF Shrinks, TInv, NoneOpensLate, stopVars
<1>8. SavesCover'
  BY <1>1, <1>4 DEF Shrinks, TInv, SavesCover, Covers
<1>9. \A m \in Links : Out(m) => Out(m)'
  BY <1>1, <1>4, OutStays
<1>10. CallsOut'
  <2>1. \A t \in Apis : api[t].at # "idle" => api[t].link \in Links
    BY DEF IInv, TypeOK, Calls, Idle, Call
  <2>2. \A m, ops : Pending(m, ops) => Pending(m, ops)'
    BY <1>1 DEF Pending
  <2> QED
    BY <1>1, <1>9, <2>1, <2>2 DEF TInv, CallsOut, Absent
<1>11. ToldOut'
  BY <1>1, <1>9 DEF TInv, ToldOut, Absent
<1>12. BuildersArrived' /\ ReleasesPast'
  <2>1. CASE UNCHANGED <<links, sinks, workq, loop>>
    BY <1>1, <1>4, <2>1, ThreadFrames DEF TInv
  <2>2. CASE /\ HeldLink(l)
             /\ links' = [links EXCEPT ![LinkKey(l)] = None]
             /\ workq' = Append(workq, e)
    <3>1. BuildersArrived'
      BY <1>1, <1>2, <2>2, WorkAdded
      DEF TInv, BuildersArrived, Arrived, Made, Pending
    <3>2. ReleasesPast'
      <4> SUFFICES ASSUME NEW i \in 1..Len(workq'), workq'[i].op = "release"
                   PROVE  LET k == LinkKey(workq'[i].link)
                          IN /\ \A j \in 1..i : LinkKey(workq'[j].link) = k =>
                                  links'[k] # workq'[j].link
                             /\ runtime[k] # None => runtime[k] # links'[k]
        BY <1>1 DEF ReleasesPast, HeldLink, LinkKey
      <4>1. /\ \A j \in 1..i : j \in 1..Len(workq')
            /\ \A j \in 1..Len(workq') : /\ workq'[j].link \in Links
                                         /\ Made(workq'[j].link)
                                         /\ workq'[j].link # None
                                         /\ LinkKey(workq'[j].link) \in Keys
        BY <1>2, <2>2, WorkAdded, WorkIs, HeldIs DEF IInv, AllMade
      <4>2. \A k \in Keys : \A m \in Links :
              Made(m) /\ LinkKey(m) = k /\ ~HeldLink(m) => links'[k] # m
        BY <1>4, HeldIs DEF Shrinks
      <4>3. CASE LinkKey(workq'[i].link) = LinkKey(l)
        <5>1. links'[LinkKey(l)] = None
          BY <1>2, <2>2 DEF IInv, TypeOK
        <5> QED
          BY <4>1, <4>3, <5>1
      <4>4. CASE LinkKey(workq'[i].link) # LinkKey(l)
        <5>1. i \in 1..Len(workq) /\ workq'[i] = workq[i]
          BY <1>2, <2>2, <4>4, WorkAdded
        <5>2. \A j \in 1..i : j \in 1..Len(workq) /\ workq'[j] = workq[j]
          BY <1>2, <2>2, <5>1, WorkAdded
        <5>3. links'[LinkKey(workq[i].link)] = links[LinkKey(workq[i].link)]
          BY <1>2, <2>2, <4>1, <4>4, <5>1 DEF IInv, TypeOK
        <5> QED
          BY <4>1, <4>2, <5>1, <5>2, <5>3 DEF TInv, ReleasesPast
      <4> QED
        BY <4>3, <4>4
    <3> QED
      BY <3>1, <3>2
  <2> QED
    BY <1>3, <2>1, <2>2
<1> QED
  BY <1>1, <1>4, <1>5, <1>6, <1>7, <1>8, <1>10, <1>11, <1>12, ThreadFrames
  DEF TInv, lifeVars, stopVars

-----------------------------------------------------------------------------
(* The worker, stop() and the process.                                     *)

\* The task at the head of the worker's queue, and those that are left.
LEMMA WorkTaken ==
  ASSUME IInv, workq # << >>, workq' = Tail(workq)
  PROVE  /\ 1 \in 1..Len(workq) /\ Head(workq) = workq[1]
         /\ Len(workq) \in Nat /\ Len(workq') = Len(workq) - 1
         /\ \A i \in 1..Len(workq') :
              i + 1 \in 1..Len(workq) /\ workq'[i] = workq[i + 1]
         /\ \A i \in 1..Len(workq') : \A j \in 1..i :
              j \in 1..Len(workq') /\ j + 1 \in 1..(i + 1)
         /\ \A i \in 1..Len(workq') : 1 \in 1..(i + 1)
<1>1. workq \in Seq(Work)
  BY DEF IInv, TypeOK
<1> QED
  BY <1>1, TailIs

\* The worker serves a task: what it builds comes before the releases left.
LEMMA ThreadWorkerServes ==
  ASSUME IInv, TInv, Serve
  PROVE  TInv'
<1> DEFINE w == Head(workq)
           k == LinkKey(w.link)
           built == IF w.op = "provision" THEN w.link ELSE None
<1>1. /\ up /\ Shrinks /\ workq # << >> /\ workq' = Tail(workq)
      /\ runtime' = [runtime EXCEPT ![k] = built]
      /\ UNCHANGED <<store, lifeVars, linkVars, sinks, loopq, loop, api,
                     stopVars, histVars>>
  BY DEF Serve, linkVars, Shrinks
<1>2. /\ w = workq[1] /\ w.link \in Links /\ Made(w.link) /\ k \in Keys
      /\ w.link # None /\ Arrived(w.link)
  BY <1>1, WorkTaken, WorkIs, HeldIs DEF IInv, AllMade, TInv, BuildersArrived
<1>3. built \in {w.link, None}
  OBVIOUS
<1> HIDE DEF w, k, built
<1>4. /\ runtime'[k] = built
      /\ \A j \in Keys : j # k => runtime'[j] = runtime[j]
  BY <1>1, <1>2 DEF IInv, TypeOK
<1>5. BuildersArrived'
  <2>1. \A m : Arrived(m) => Arrived(m)'
    BY <1>1 DEF Arrived, Made, Pending, linkVars
  <2>2. \A i \in 1..Len(workq') : Arrived(workq'[i].link)
    BY <1>1, WorkTaken DEF TInv, BuildersArrived
  <2>3. \A j \in Keys : runtime'[j] # None => Arrived(runtime'[j])
    BY <1>2, <1>3, <1>4 DEF TInv, BuildersArrived
  <2> QED
    BY <1>1, <2>2, <2>3 DEF BuildersArrived, Arrived, Made, Pending, linkVars
<1>6. ReleasesPast'
  <2> SUFFICES ASSUME NEW i \in 1..Len(workq'), workq'[i].op = "release"
               PROVE  LET j == LinkKey(workq'[i].link)
                      IN /\ \A n \in 1..i : LinkKey(workq'[n].link) = j =>
                              ~HeldLink(workq'[n].link)
                         /\ runtime'[j] # None => runtime'[j] # links[j]
    BY <1>1 DEF ReleasesPast, HeldLink, LinkKey, linkVars
  <2> DEFINE j == LinkKey(workq'[i].link)
  <2>1. /\ i + 1 \in 1..Len(workq) /\ workq'[i] = workq[i + 1]
        /\ \A n \in 1..i : n + 1 \in 1..(i + 1) /\ workq'[n] = workq[n + 1]
        /\ 1 \in 1..(i + 1)
    BY <1>1, WorkTaken
  <2>2. /\ \A n \in 1..(i + 1) : LinkKey(workq[n].link) = j =>
             ~HeldLink(workq[n].link)
        /\ runtime[j] # None => runtime[j] # links[j]
        /\ j \in Keys
    BY <2>1, WorkIs, HeldIs DEF IInv, AllMade, TInv, ReleasesPast
  <2>3. j = k => w.link # links[j]
    BY <1>2, <2>1, <2>2, HeldIs DEF k
  <2> QED
    BY <1>3, <1>4, <2>1, <2>2, <2>3
<1> QED
  BY <1>1, <1>5, <1>6, ThreadFrames
  DEF TInv, DownEmpty, lifeVars, linkVars, stopVars, histVars

\* stop() is marked, or has waited and clears the sinks.
LEMMA ThreadStops ==
  ASSUME IInv, TInv, StopMark \/ StopFinish
  PROVE  TInv'
<1>1. /\ up /\ Shrinks
      /\ UNCHANGED <<store, lifeVars, linkVars, runtime, loopq, loop, workq,
                     api, held, histVars>>
      /\ \/ stopping = "no" /\ stopping' = "marked" /\ UNCHANGED sinks
         \/ stopping = "disposing" /\ stopping' = "done"
  BY DEF StopMark, StopFinish, linkVars, appVars, Shrinks
<1>2. HeldListens' /\ NoneOpensLate'
  BY <1>1 DEF TInv, HeldListens, NoneOpensLate, linkVars
<1> QED
  BY <1>1, <1>2, ThreadFrames DEF TInv, lifeVars, linkVars, histVars

\* stop() collects what is held, and the map is empty.
LEMMA ThreadStopCollects ==
  ASSUME IInv, TInv, StopCollect
  PROVE  TInv'
<1> DEFINE e == [op |-> "stop", link |-> None, by |-> Stopper]
<1>1. /\ up /\ Shrinks /\ \A k \in Keys : links'[k] = None
      /\ held' = {links[k] : k \in Keys} \ {None}
      /\ loopq' = Append(loopq, e)
      /\ UNCHANGED <<store, lifeVars, rec, phase, disposed, outcome, appVars,
                     loop, workq, api, histVars>>
  BY DEF StopCollect, Post, Shrinks
<1>2. e \in Tasks /\ e.op = "stop" /\ loopq \in Seq(Tasks)
  BY DEF IInv, TypeOK, Tasks
<1> HIDE DEF e
<1>3. AskedFor'
  <2>1. \A i \in 1..Len(loopq') :
          \/ loopq'[i].op = "stop"
          \/ i \in 1..Len(loopq) /\ loopq'[i] = loopq[i]
    BY <1>1, <1>2, AppendIs
  <2>2. \A i \in 1..Len(loopq) : loopq[i].op = "install" =>
          loopq[i].link \notin held'
    BY <1>1 DEF IInv, InstallsOnce
  <2> QED
    BY <1>1, <2>1, <2>2 DEF TInv, AskedFor, histVars
<1>4. HeldListens' /\ NoneOpensLate'
  BY <1>1 DEF HeldListens, NoneOpensLate
<1>5. CallsOut'
  <2>1. \A m \in Links : Out(m) => Out(m)'
    BY <1>1, OutStays
  <2>2. \A t \in Apis : api[t].at # "idle" => api[t].link \in Links
    BY DEF IInv, TypeOK, Calls, Idle, Call
  <2>3. \A m, ops : Pending(m, ops) => Pending(m, ops)'
    BY <1>1, <1>2, PostKeeps
  <2> QED
    BY <1>1, <2>1, <2>2, <2>3 DEF TInv, CallsOut, Absent
<1>6. BuildersArrived'
  BY <1>1, <1>2, PostAdds DEF TInv, BuildersArrived, Arrived, Made, appVars
<1> QED
  BY <1>1, <1>3, <1>4, <1>5, <1>6, ThreadFrames
  DEF TInv, lifeVars, appVars, histVars

\* Nothing is left when a process is gone, and nothing was there before it.
LEMMA ThreadForgets ==
  ASSUME up' = FALSE, Forget PROVE TInv'
<1>1. /\ loopq' = << >> /\ workq' = << >> /\ loop'.at = "idle"
      /\ \A t \in Apis : api'[t].at = "idle"
      /\ \A l \in Links : told'[l] = "none"
      /\ \A k \in Keys : links'[k] = None /\ runtime'[k] = None
      /\ stopping' = "no"
  BY DEF Forget, LoopIdle, Idle, Call
<1>2. /\ AskedFor' /\ AnswerFits' /\ DownEmpty' /\ ToldMade' /\ LeftKeyEmpty'
      /\ BuildersArrived' /\ ReleasesPast'
  BY <1>1 DEF AskedFor, AnswerFits, DownEmpty, ToldMade, LeftKeyEmpty,
     BuildersArrived, ReleasesPast
<1>3. HeldListens' /\ NoneOpensLate' /\ SavesCover' /\ StoreCovers' /\ CallsOut'
      /\ ToldOut'
  BY <1>1 DEF HeldListens, NoneOpensLate, SavesCover, StoreCovers, CallsOut,
     ToldOut
<1> QED
  BY <1>2, <1>3 DEF TInv

LEMMA ThreadInitially == Init => TInv
<1> SUFFICES ASSUME Init PROVE TInv
  OBVIOUS
<1>1. /\ loopq = << >> /\ workq = << >> /\ loop.at = "idle"
      /\ \A t \in Apis : api[t].at = "idle"
      /\ \A l \in Links : told[l] = "none"
      /\ \A k \in Keys : links[k] = None /\ runtime[k] = None
      /\ stopping = "no"
  BY DEF Init, Memory, LoopIdle, Idle, Call
<1>2. /\ AskedFor /\ AnswerFits /\ DownEmpty /\ ToldMade /\ LeftKeyEmpty
      /\ BuildersArrived /\ ReleasesPast
  BY <1>1 DEF AskedFor, AnswerFits, DownEmpty, ToldMade, LeftKeyEmpty,
     BuildersArrived, ReleasesPast
<1>3. HeldListens /\ NoneOpensLate /\ SavesCover /\ StoreCovers /\ CallsOut
      /\ ToldOut
  BY <1>1 DEF HeldListens, NoneOpensLate, SavesCover, StoreCovers, CallsOut,
     ToldOut
<1> QED
  BY <1>2, <1>3 DEF TInv

\* What restore() makes is listened to, and nobody was told of it.
LEMMA ThreadProcessStarts ==
  ASSUME IInv, TInv, Start PROVE TInv'
<1>1. /\ loopq' = << >> /\ workq' = << >> /\ loop'.at = "idle"
      /\ \A t \in Apis : api'[t].at = "idle"
      /\ \A l \in Links : told'[l] = "none"
      /\ \A k \in Keys : runtime'[k] = None
      /\ stopping' = "no" /\ up'
  BY DEF Start, IInv, TInv, DownBlank, DownEmpty, LoopIdle, Idle, Call, stopVars,
     histVars
<1>2. \A k \in Keys : sinks'[k] = links'[k]
  BY DEF Start
<1>3. /\ AskedFor' /\ AnswerFits' /\ DownEmpty' /\ ToldMade' /\ LeftKeyEmpty'
      /\ BuildersArrived' /\ ReleasesPast'
  BY <1>1 DEF AskedFor, AnswerFits, DownEmpty, ToldMade, LeftKeyEmpty,
     BuildersArrived, ReleasesPast
<1>4. HeldListens' /\ NoneOpensLate' /\ SavesCover' /\ CallsOut' /\ ToldOut'
  BY <1>1, <1>2 DEF HeldListens, NoneOpensLate, SavesCover, CallsOut, ToldOut
<1>5. StoreCovers'
  <2>1. links' \in [Keys -> Links \cup {None}]
    BY ProcessStarts DEF IInv, TypeOK
  <2> QED
    BY <1>1, <2>1 DEF StoreCovers
<1> QED
  BY <1>3, <1>4, <1>5 DEF TInv

-----------------------------------------------------------------------------
(* The theorems.                                                           *)

\* Every step keeps what holds of one request thread.
LEMMA ThreadStepKeeps ==
  ASSUME IInv, TInv, OneThread, [Next]_vars PROVE TInv'
<1>1. CASE Start
  BY <1>1, ThreadProcessStarts
<1>2. CASE Crash \/ Exit
  BY <1>2, ThreadForgets DEF Crash, Exit
<1>3. ASSUME NEW t \in Apis,
             \/ \E tk \in Tickets : Introduce(t, tk)
             \/ \E k \in Keys : Remove(t, k)
             \/ ApiStep(t)
      PROVE  TInv'
  BY <1>3, ThreadIntroduces, ThreadRemoves, ThreadMovesOn, ThreadGivesUp,
     ThreadRemoveSink, ThreadRemoveRuntime, ThreadSnapshot, ThreadSave
  DEF ApiStep
<1>4. CASE LoopStep
  BY <1>4, ThreadLoopInstalls, ThreadLoopDrops, ThreadLoopDisposes,
     ThreadLoopPersists DEF LoopStep
<1>5. ASSUME NEW l \in Links,
             \/ Opened(l) \/ WelcomeArrives(l) \/ ConnectionLost(l)
             \/ TimerExpires(l) \/ Reopen(l) \/ TicketRefused(l)
             \/ \E op \in Requests : RequestArrives(l, op)
      PROVE  TInv'
  BY <1>5, ThreadConnectionMoves, ThreadRefused, ThreadRequestIsQueued
<1>6. CASE Serve
  BY <1>6, ThreadWorkerServes
<1>7. CASE StopMark \/ StopCollect \/ StopFinish
  BY <1>7, ThreadStops, ThreadStopCollects
<1>8. CASE UNCHANGED vars
  <2>1. Shrinks
    BY <1>8 DEF Shrinks, vars, linkVars
  <2>2. DownEmpty'
    BY <1>8 DEF TInv, DownEmpty, vars, lifeVars, appVars, stopVars, histVars
  <2> QED
    BY <1>8, <2>1, <2>2, ThreadFrames
    DEF TInv, vars, lifeVars, linkVars, appVars, stopVars, histVars
<1> QED
  BY <1>1, <1>2, <1>3, <1>4, <1>5, <1>6, <1>7, <1>8 DEF Next

\* With one request thread and a loop that does not stall, what introduce() and
\* remove() of coordinator_links.cpp wait for has been done when they go on,
\* and what they and the loop are about to write is what is held.
THEOREM ThreadInductive ==
  ASSUME OneThread PROVE Spec => [](IInv /\ TInv)
<1>1. Init => IInv /\ TInv
  BY Initially, ThreadInitially
<1>2. IInv /\ TInv /\ [Next]_vars => (IInv /\ TInv)'
  BY StepKeeps, StutterKeeps, ThreadStepKeeps
<1> QED
  BY <1>1, <1>2, PTL DEF Spec

\* A coordinator hears the runtime of every link it has welcomed that is held:
\* no introduction, refusal or stop leaves its sink to another or to nobody.
THEOREM WelcomedAreHeard ==
  ASSUME OneThread PROVE Spec => []WelcomedIsHeard
<1>1. IInv /\ TInv => WelcomedIsHeard
  <2> SUFFICES ASSUME IInv, TInv, NEW l \in Links, HeldLink(l), Welcomed(l)
               PROVE  sinks[LinkKey(l)] = l
    BY DEF WelcomedIsHeard
  <2>1. LinkKey(l) \in Keys /\ links[LinkKey(l)] = l /\ l # None
    BY HeldIs
  <2>2. stopping # "done"
    BY <2>1 DEF TInv, NoneOpensLate, Welcomed
  <2> QED
    BY <2>1, <2>2 DEF TInv, HeldListens
<1> QED
  BY <1>1, ThreadInductive, PTL

\* Once introduce() has said "connected", the ticket is in the LinkStore for as
\* long as the link is held, whatever else is saved meanwhile.
THEOREM ConnectedAreKept ==
  ASSUME OneThread PROVE Spec => []ConnectedIsKept
<1>1. IInv /\ TInv => ConnectedIsKept
  BY HeldIs DEF TInv, StoreCovers, ConnectedIsKept
<1> QED
  BY <1>1, ThreadInductive, PTL

\* Once introduce() has said "failed", its link is disposed of and in no map,
\* and its ticket is in no file.
THEOREM FailuresKeepNothing ==
  ASSUME OneThread PROVE Spec => []FailureKeepsNothing
<1>1. IInv /\ TInv => FailureKeepsNothing
  BY DEF TInv, ToldOut, Out, Absent, FailureKeepsNothing, Forgotten
<1> QED
  BY <1>1, ThreadInductive, PTL

\* Once remove() has returned, the ticket is in no file, and is written to none
\* by what was read before.
THEOREM LeftStayLeft ==
  ASSUME OneThread PROVE Spec => []LeftStaysLeft
<1>1. IInv /\ TInv => LeftStaysLeft
  BY DEF TInv, ToldOut, Absent, LeftStaysLeft, Forgotten
<1> QED
  BY <1>1, ThreadInductive, PTL

\* When the worker serves a request there is one less.
LEMMA ServedIsAskedNoMore ==
  ASSUME IInv, workq # << >>, workq' = Tail(workq),
         Head(workq).op \in Requests
  PROVE  Cardinality(Asked') < Cardinality(Asked)
<1>1. /\ DOMAIN workq = 1..Len(workq) /\ DOMAIN workq' = 1..Len(workq')
      /\ workq' \in Seq(Work)
  <2>1. workq \in Seq(Work) /\ workq' \in Seq(Work)
    BY TailIs DEF IInv, TypeOK
  <2> QED
    BY <2>1, DomainIs
<1>2. IsFiniteSet(Asked) /\ Cardinality(Asked) \in Nat
  <2>1. IsFiniteSet(1..Len(workq))
    BY <1>1, WorkTaken, FS_Interval
  <2> QED
    BY <1>1, <2>1, FS_Subset, FS_CardinalityType DEF Asked
<1>3. 1 \in Asked
  BY <1>1, WorkTaken DEF Asked
<1> DEFINE Rest == Asked \ {1}
           f == [i \in Asked' |-> i + 1]
<1>4. /\ IsFiniteSet(Rest) /\ Cardinality(Rest) = Cardinality(Asked) - 1
  BY <1>2, <1>3, FS_RemoveElement
<1>5. \A i \in Asked' : i \in 1..Len(workq') /\ i + 1 \in Rest
  BY <1>1, WorkTaken DEF Asked
<1>6. f \in Injection(Asked', Rest)
  <2>1. f \in [Asked' -> Rest]
    BY <1>5
  <2>2. \A i, j \in Asked' : f[i] = f[j] => i = j
    BY <1>5
  <2> QED
    BY <2>1, <2>2 DEF Injection, IsInjective
<1>7. IsFiniteSet(Asked') /\ Cardinality(Asked') <= Cardinality(Rest)
  BY <1>4, <1>6, FS_Injection
<1>8. Cardinality(Asked') \in Nat
  BY <1>7, FS_CardinalityType
<1> QED
  BY <1>2, <1>4, <1>7, <1>8

\* The runtime of the link that is held goes by a request, and by nothing else
\* while the process runs: reject() releases what was there before.
THEOREM ReleaseSpares ==
  ASSUME OneThread PROVE Spec => ReleaseSparesHeld
<1>1. ASSUME IInv, TInv, [Next]_vars, NEW k \in Keys, runtime[k] # None,
             runtime[k] = links[k], runtime'[k] = None, up'
      PROVE  Cardinality(Asked') < Cardinality(Asked)
  <2>1. CASE Serve
    <3> DEFINE w == Head(workq)
    <3>1. /\ workq # << >> /\ workq' = Tail(workq)
          /\ runtime' = [runtime EXCEPT ![LinkKey(w.link)] =
                           IF w.op = "provision" THEN w.link ELSE None]
      BY <2>1 DEF Serve
    <3>2. w = workq[1] /\ 1 \in 1..Len(workq)
      BY <1>1, <3>1, WorkTaken
    <3>3. w \in Work /\ w.link \in Links /\ w.link # None
      BY <1>1, <3>2, WorkIs, NamesAssumption DEF IInv
    <3> HIDE DEF w
    <3>4. LinkKey(w.link) = k /\ w.op # "provision"
      BY <1>1, <3>1, <3>3 DEF IInv, TypeOK
    <3>5. w.op # "release"
      BY <1>1, <3>2, <3>4 DEF TInv, ReleasesPast
    <3> QED
      BY <1>1, <3>1, <3>3, <3>4, <3>5, ServedIsAskedNoMore DEF Work, w
  <2>2. ASSUME NEW t \in Apis, RemoveRuntime(t)
        PROVE  FALSE
    <3>1. /\ api[t].at = "release"
          /\ runtime' = [runtime EXCEPT ![LinkKey(api[t].link)] = None]
      BY <2>2 DEF RemoveRuntime
    <3>2. links[LinkKey(api[t].link)] = None
      BY <1>1, <3>1 DEF TInv, LeftKeyEmpty
    <3> QED
      BY <1>1, <3>1, <3>2 DEF IInv, TypeOK
  <2>3. CASE Crash \/ Exit
    BY <1>1, <2>3 DEF Crash, Exit
  <2>4. CASE /\ ~Serve /\ ~(Crash \/ Exit)
             /\ \A t \in Apis : ~RemoveRuntime(t)
    <3>1. runtime' = runtime
      BY <1>1, <2>4 DEF Next, vars, Start, ApiStep, LoopStep, Introduce, Remove,
         Installed, Accepted, GiveUp, Dropped, RemoveSink, Snapshot, Save,
         RunInstall, RunDrop, RunDispose, LoopSnapshot, LoopSave, Opened,
         WelcomeArrives, ConnectionLost, TimerExpires, Reopen, TicketRefused,
         RequestArrives, StopMark, StopCollect, StopFinish, appVars
    <3> QED
      BY <1>1, <3>1
  <2> QED
    BY <2>1, <2>2, <2>3, <2>4
<1>2. IInv /\ TInv /\ [Next]_vars =>
        [\A k \in Keys :
           runtime[k] # None /\ runtime[k] = links[k] /\ runtime'[k] = None /\ up'
             => Cardinality(Asked') < Cardinality(Asked)]_vars
  BY <1>1
<1> QED
  BY <1>2, ThreadInductive, PTL DEF Spec, ReleaseSparesHeld
=============================================================================
