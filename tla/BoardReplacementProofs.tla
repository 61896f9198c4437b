----------------------- MODULE BoardReplacementProofs -----------------------
(***************************************************************************)
(* Proofs about BoardReplacement, for any number of boards, replacements,  *)
(* saves and changes of assets: that a change is made to the board it was  *)
(* started on, and, as long as replacements did not overlap and none ended *)
(* half way, that what runs is the board on the page, that a board is read *)
(* before it is torn down, and which drafts are left by a save.            *)
(***************************************************************************)
EXTENDS BoardReplacement, TLAPS, FiniteSetTheorems, SequenceTheorems

-----------------------------------------------------------------------------
(* The inductive invariant.                                                *)

\* The replacements under way are counted.
Counting ==
  LET underWay == {j \in Jobs : UnderWay(j)} IN
  IsFiniteSet(underWay) /\ replacing = Cardinality(underWay)

\* A change was started in this generation or in an earlier one; if in this one,
\* and outside every replacement, it is of the board on the page.
ChangesInTime ==
  \A c \in Changes : change[c].pc = "sent" =>
    /\ change[c].generation <= generation
    /\ replacing = 0 /\ change[c].generation = generation
         => change[c].load = shown.shell

\* What a document or a save is of was on the page: its replacement is over.
LoadOf(d) == IF d = None THEN None ELSE d.load

NewLoads ==
  \A j \in Jobs : job[j].pc # "done" =>
    /\ shown.load # j /\ seen.load # j
    /\ LoadOf(reading) # j /\ LoadOf(lastWritten) # j
    /\ \A v \in Saves : LoadOf(save[v].what) # j
    /\ \A a \in Addresses : LoadOf(drafts[a]) # j

\* A page of no load has no runtimes on it.  Documents are read at an address,
\* and have no more edits than were made.
NoMoreEdits(d) == LoadOf(d) # None => d.edits <= edits[d.load]

Documented ==
  /\ shown.load = None => shown.ids = {}
  /\ seen.load = None => seen.ids = {}
  /\ \A l \in Loads : doc[l].of # None
  /\ NoMoreEdits(reading) /\ NoMoreEdits(lastWritten)
  /\ \A v \in Saves :
       /\ NoMoreEdits(save[v].what)
       /\ save[v].pc = "reading" =>
            /\ save[v].what # None /\ LoadOf(save[v].what) # None /\ save[v].what.of # None
            /\ save[v].names = {}
       /\ save[v].names # {} => LoadOf(save[v].what) # None
  /\ LoadOf(reading) # None /\ LoadOf(lastWritten) = LoadOf(reading)
       => lastWritten.edits <= reading.edits

\* What is awaited is in the queue.
Awaiting ==
  /\ reading # None => writes # << >>
  /\ \A j \in Jobs : job[j].pc = "flushing" => job[j].left <= Len(writes)
  /\ \A v \in Saves : save[v].pc = "flushing" => save[v].left <= Len(writes)

\* No replacement has begun to tear the board down.
Torn(j) == job[j].pc \in {"removing", "awaiting", "fetching", "restoring"}
Standing == \A j \in Jobs : ~Torn(j)

\* Replacements come one at a time, and what runs is what is on the page until
\* one of them starts its own runtimes.
OneAtATime == \A i, j \in Jobs : UnderWay(i) /\ UnderWay(j) => i = j

RunsAsShown ==
  (\A j \in Jobs : job[j].pc # "restoring") =>
    running = Runtimes(shown) /\ shown.shell = shown.load

Phases ==
  \A j \in Jobs :
    /\ job[j].pc \in {"flushing", "linking"} => seen = shown
    /\ job[j].pc \in {"removing", "awaiting"} => seen.load = shown.load
    /\ job[j].pc \in {"linking", "removing"} => shown.ids = job[j].ids
    /\ job[j].pc = "awaiting" =>
         /\ job[j].it \notin job[j].ids /\ shown.ids = job[j].ids \cup {job[j].it}
         /\ job[j].target # None => job[j].target = << shown.load, job[j].it >>
    /\ job[j].pc = "fetching" => shown = Emptied
    /\ job[j].pc = "restoring" =>
         shown.ids = {} /\ shown.shell = j /\ running \subseteq Fresh(j)

\* While the board stands, what was read of it is of all of it.
OfShown(d) ==
  LoadOf(d) = shown.load /\ shown.load # None =>
    d.of = doc[shown.load].of /\ d.ids = shown.ids

ReadWhole ==
  Standing =>
    /\ OfShown(reading) /\ OfShown(lastWritten)
    /\ seen.load = shown.load /\ shown.load # None => seen.ids = shown.ids
    /\ \A v \in Saves :
         LoadOf(save[v].what) = shown.load /\ shown.load # None => seen = shown

\* The document has load l as it was after e edits, or as it was later.
Covers(d, l, e) == d # None /\ d.load = l /\ d.edits >= e

\* After n more writes, the last one is of load l after e edits or more, when
\* read is being taken and last was the last.
Within(n, l, e, read, last) ==
  \/ n >= 2
  \/ n >= 1 /\ (read = None \/ Covers(read, l, e))
  \/ Covers(last, l, e) /\ (read # None => Covers(read, l, e))

AskedFor ==
  Standing /\ seen = shown /\ seen.load # None =>
    pending \/ Within(Len(writes), seen.load, edits[seen.load], reading, lastWritten)

\* What a replacement found is written before it tears the board down.
Leaving ==
  \A j \in Jobs : seen.load # None =>
    /\ job[j].pc \in {"flushing", "linking", "removing", "awaiting"}
         => job[j].had <= edits[seen.load]
    /\ job[j].pc = "flushing"
         => Within(job[j].left, seen.load, job[j].had, reading, lastWritten)
    /\ job[j].pc \in {"linking", "removing", "awaiting"}
         => Within(0, seen.load, job[j].had, reading, lastWritten)

\* What a save has stored is written before it drops the drafts of it.
Dropping ==
  Standing /\ shown.load # None =>
    \A v \in Saves : LoadOf(save[v].what) = shown.load =>
      /\ save[v].pc = "flushing" =>
           Within(save[v].left, shown.load, save[v].what.edits, reading, lastWritten)
      /\ save[v].pc = "done" =>
           \A a \in save[v].names :
             /\ Within(0, shown.load, save[v].what.edits, reading, lastWritten)
             /\ LoadOf(drafts[a]) = shown.load => drafts[a].edits > save[v].what.edits

Undisturbed ==
  ~disturbed =>
    /\ OneAtATime /\ RunsAsShown /\ Phases
    /\ ReadWhole /\ AskedFor /\ Leaving /\ Dropping

IInv ==
  /\ TypeOK /\ Counting /\ ChangesInTime /\ NewLoads /\ Documented /\ Awaiting
  /\ Undisturbed

-----------------------------------------------------------------------------
(* Documents, and what the writes still to come will have written.          *)

LEMMA DocumentsAre ==
  ASSUME NEW d \in Document
  PROVE  /\ d # None /\ LoadOf(d) = d.load
         /\ d.of \in Addresses \cup {None} /\ d.load \in Loads \cup {None}
         /\ d.ids \in SUBSET Ids /\ d.edits \in 0..MaxEdits /\ d.edits \in Int
BY LoadAssumption, NoneAssumption DEF Document, LoadOf

LEMMA AsReadIs ==
  ASSUME NEW s \in State, TypeOK
  PROVE  /\ AsRead(s) \in Document /\ AsRead(s).load = s.load
         /\ NoMoreEdits(AsRead(s))
         /\ s.load # None =>
              /\ AsRead(s).of = doc[s.load].of /\ AsRead(s).ids = s.ids
              /\ AsRead(s).edits = edits[s.load]
<1>1. CASE s.load = None
  <2>1. AsRead(s) = [of |-> None, load |-> None, ids |-> {}, edits |-> 0]
    BY <1>1 DEF AsRead
  <2>2. 0 \in 0..MaxEdits
    BY LoadAssumption
  <2> QED
    BY <1>1, <2>1, <2>2 DEF Document, NoMoreEdits, LoadOf
<1>2. CASE s.load # None
  <2>1. s.load \in Loads /\ s.ids \in SUBSET Ids
    BY <1>2 DEF State
  <2>2. doc[s.load].of \in Addresses \cup {None} /\ edits[s.load] \in 0..MaxEdits
    BY <2>1, DocumentsAre DEF TypeOK
  <2>3. AsRead(s) = [of |-> doc[s.load].of, load |-> s.load, ids |-> s.ids,
                     edits |-> edits[s.load]]
    BY <1>2 DEF AsRead
  <2>4. AsRead(s) \in Document
    BY <2>1, <2>2, <2>3 DEF Document
  <2> QED
    BY <2>2, <2>3, <2>4 DEF NoMoreEdits, LoadOf
<1> QED
  BY <1>1, <1>2

LEMMA OutcomesAre ==
  ASSUME NEW d \in Document, TypeOK, NoMoreEdits(d), NEW w \in Outcomes(d)
  PROVE  /\ w \in Document /\ w.load = d.load /\ w.of = d.of /\ w.ids = d.ids
         /\ w.edits >= d.edits /\ NoMoreEdits(w)
<1>1. CASE d.load = None
  <2>1. w = d
    BY <1>1 DEF Outcomes
  <2> QED
    BY <2>1, DocumentsAre
<1>2. CASE d.load # None
  <2>1. d.load \in Loads /\ edits[d.load] \in 0..MaxEdits /\ d.edits \in 0..MaxEdits
    BY <1>2, DocumentsAre DEF TypeOK
  <2>2. PICK e \in d.edits..edits[d.load] : w = [d EXCEPT !.edits = e]
    BY <1>2 DEF Outcomes
  <2>3. e \in 0..MaxEdits /\ e >= d.edits /\ e <= edits[d.load]
    BY <2>1, <2>2, LoadAssumption
  <2>4. /\ w \in Document /\ w.load = d.load /\ w.of = d.of /\ w.ids = d.ids
        /\ w.edits = e
    BY <2>2, <2>3 DEF Document
  <2> QED
    BY <2>3, <2>4, DocumentsAre DEF NoMoreEdits
<1> QED
  BY <1>1, <1>2

\* With more writes to come, or fewer edits to cover, no less is written.
LEMMA WithinMore ==
  ASSUME NEW n \in Nat, NEW m \in Nat, n <= m, NEW l, NEW e, NEW read, NEW last,
         Within(n, l, e, read, last)
  PROVE  Within(m, l, e, read, last)
BY DEF Within

LEMMA WithinFewer ==
  ASSUME NEW n \in Nat, NEW l, NEW e \in Int, NEW f \in Int, f <= e,
         NEW read \in Document \cup {None}, NEW last \in Document \cup {None},
         Within(n, l, e, read, last)
  PROVE  Within(n, l, f, read, last)
<1>1. \A d \in Document \cup {None} : Covers(d, l, e) => Covers(d, l, f)
  BY DocumentsAre DEF Covers
<1> QED
  BY <1>1 DEF Within

\* A document is being read that covers the edits.
LEMMA WithinRead ==
  ASSUME NEW n \in Nat, NEW l, NEW e, NEW read, NEW last,
         Within(n, l, e, None, last), Covers(read, l, e)
  PROVE  Within(n, l, e, read, last)
BY DEF Within

\* The write at the head of the queue is made, of what was read or later.
LEMMA WithinWritten ==
  ASSUME NEW n \in Nat, NEW m \in Nat, n = 0 \/ m = n - 1, NEW l, NEW e \in Int,
         NEW read \in Document, NEW last, NEW w \in Document, w.load = read.load,
         w.edits >= read.edits, Within(n, l, e, read, last)
  PROVE  Within(m, l, e, None, w)
<1>1. Covers(read, l, e) => Covers(w, l, e)
  BY DocumentsAre DEF Covers
<1> QED
  BY <1>1, DocumentsAre DEF Within

\* It fails, which one that covers the edits does not.
LEMMA WithinFailed ==
  ASSUME NEW n \in Nat, NEW m \in Nat, n = 0 \/ m = n - 1, NEW l, NEW e \in Int,
         NEW read \in Document, NEW last, Within(n, l, e, read, last),
         n = 0 \/ ~Covers(read, l, e)
  PROVE  Within(m, l, e, None, last)
BY DocumentsAre DEF Within

\* What is pending is queued behind the writes there are, and with it all that
\* was asked for is written.
LEMMA QueuedIs ==
  ASSUME TypeOK
  PROVE  /\ Queued \in Seq(BOOLEAN) /\ Len(Queued) \in Nat /\ Len(writes) \in Nat
         /\ Len(Queued) = IF pending THEN Len(writes) + 1 ELSE Len(writes)
         /\ writes # << >> => Queued # << >>
         /\ writes # << >> <=> Len(writes) > 0
<1>1. writes \in Seq(BOOLEAN) /\ rebasing \in BOOLEAN /\ byPerson \in BOOLEAN
  BY DEF TypeOK
<1>2. (rebasing /\ ~byPerson) \in BOOLEAN
  OBVIOUS
<1>3. Len(writes) \in Nat /\ (writes # << >> <=> Len(writes) > 0)
  BY <1>1, EmptySeq
<1>4. CASE pending
  <2> DEFINE b == rebasing /\ ~byPerson
  <2>1. b \in BOOLEAN /\ Queued = Append(writes, b)
    BY <1>2, <1>4 DEF Queued
  <2> HIDE DEF b
  <2>2. Queued \in Seq(BOOLEAN) /\ Len(Queued) = Len(writes) + 1
    BY <1>1, <2>1, AppendProperties
  <2>3. Queued # << >>
    BY <1>3, <2>2, EmptySeq
  <2> QED
    BY <1>3, <1>4, <2>2, <2>3
<1>5. CASE ~pending
  BY <1>1, <1>3, <1>5 DEF Queued
<1> QED
  BY <1>4, <1>5

LEMMA WithinQueued ==
  ASSUME TypeOK, Awaiting, NEW l, NEW e,
         pending \/ Within(Len(writes), l, e, reading, lastWritten)
  PROVE  Within(Len(Queued), l, e, reading, lastWritten)
<1>1. CASE pending
  <2>1. reading = None \/ Len(writes) > 0
    BY QueuedIs DEF Awaiting
  <2> QED
    BY <1>1, <2>1, QueuedIs DEF Within
<1>2. CASE ~pending
  BY <1>2, QueuedIs
<1> QED
  BY <1>1, <1>2

-----------------------------------------------------------------------------
(* What steps keep that leave the replacements where they are.              *)

\* Where the replacements are, but for what they await.
JobsStay ==
  \A j \in Jobs :
    /\ job'[j].pc = job[j].pc /\ job'[j].had = job[j].had /\ job'[j].ids = job[j].ids
    /\ job'[j].it = job[j].it /\ job'[j].target = job[j].target

LEMMA JobsKeep ==
  ASSUME IInv, JobsStay, UNCHANGED << replacing, running, shown, seen, doc >>
  PROVE  /\ Counting'
         /\ ~disturbed => OneAtATime' /\ RunsAsShown' /\ Phases'
         /\ Standing' <=> Standing
<1>1. Counting'
  <2>1. {j \in Jobs : UnderWay(j)}' = {j \in Jobs : UnderWay(j)}
    BY DEF JobsStay, UnderWay
  <2> QED
    BY <2>1 DEF IInv, Counting
<1>2. ASSUME ~disturbed PROVE OneAtATime' /\ RunsAsShown' /\ Phases'
  <2>1. OneAtATime'
    BY <1>2 DEF IInv, Undisturbed, OneAtATime, JobsStay, UnderWay
  <2>2. RunsAsShown'
    BY <1>2 DEF IInv, Undisturbed, RunsAsShown, JobsStay, Runtimes
  <2>3. Phases'
    BY <1>2 DEF IInv, Undisturbed, Phases, JobsStay, Emptied, Fresh
  <2> QED
    BY <2>1, <2>2, <2>3
<1>3. Standing' <=> Standing
  BY DEF JobsStay, Standing, Torn
<1> QED
  BY <1>1, <1>2, <1>3

\* What is pending is queued, and nothing else of the board happens.
LEMMA FlushMoves ==
  ASSUME IInv, Flush
  PROVE  /\ writes' \in Seq(BOOLEAN) /\ pending' = FALSE
         /\ byPerson' \in BOOLEAN /\ rebasing' \in BOOLEAN
         /\ reading' = reading /\ writes' = Queued
         /\ Len(writes) \in Nat /\ Len(writes') \in Nat /\ Len(writes) <= Len(writes')
         /\ Len(writes') = ToAwait
         /\ reading # None => writes' # << >>
<1>1. /\ writes' = Queued /\ pending' = FALSE /\ reading' = reading
      /\ byPerson' = (byPerson /\ ~pending) /\ rebasing' = (rebasing /\ ~pending)
  BY DEF Flush
<1>2. byPerson' \in BOOLEAN /\ rebasing' \in BOOLEAN
  BY <1>1
<1>3. TypeOK /\ (reading # None => writes # << >>)
  BY DEF IInv, Awaiting
<1> QED
  BY <1>1, <1>2, <1>3, QueuedIs DEF ToAwait

LEMMA FlushAsks ==
  ASSUME IInv, Flush, ~disturbed, Standing, seen = shown, seen.load # None
  PROVE  Within(Len(writes'), seen.load, edits[seen.load], reading, lastWritten)
<1>1. pending \/ Within(Len(writes), seen.load, edits[seen.load], reading, lastWritten)
  BY DEF IInv, Undisturbed, AskedFor
<1>2. TypeOK /\ Awaiting
  BY DEF IInv
<1> QED
  BY <1>1, <1>2, WithinQueued, FlushMoves

LEMMA TimerFiresKeeps == ASSUME IInv, TimerFires PROVE IInv'
<1>1. /\ Flush
      /\ UNCHANGED << route, running, shown, doc, seen, edits, job, replacing, generation,
                      fetched, save, change, lastWritten, drafts, saved, disturbed >>
  BY DEF TimerFires, boardVars, jobVars, keptVars
<1>2. TypeOK'
  BY <1>1, FlushMoves DEF IInv, TypeOK
<1>3. Counting' /\ (~disturbed => OneAtATime' /\ RunsAsShown' /\ Phases')
      /\ (Standing' <=> Standing)
  BY <1>1, JobsKeep DEF JobsStay
<1>4. ChangesInTime'
  BY <1>1 DEF IInv, ChangesInTime
<1>5. NewLoads'
  BY <1>1, FlushMoves DEF IInv, NewLoads, LoadOf
<1>6. Documented'
  BY <1>1, FlushMoves DEF IInv, Documented, LoadOf, NoMoreEdits
<1>7. Awaiting'
  <2>1. \A j \in Jobs : job[j].left \in Nat
    BY DEF IInv, TypeOK, Job
  <2>2. \A v \in Saves : save[v].left \in Nat
    BY DEF IInv, TypeOK, Save
  <2>3. /\ Len(writes) \in Nat /\ Len(writes') \in Nat /\ Len(writes) <= Len(writes')
        /\ reading' # None => writes' # << >>
    BY <1>1, FlushMoves
  <2> QED
    BY <1>1, <2>1, <2>2, <2>3 DEF IInv, Awaiting
<1>8. ASSUME ~disturbed PROVE ReadWhole' /\ AskedFor' /\ Leaving' /\ Dropping'
  <2>1. ReadWhole'
    BY <1>1, <1>3, <1>8, FlushMoves DEF IInv, Undisturbed, ReadWhole, OfShown, LoadOf
  <2>2. AskedFor'
    BY <1>1, <1>3, <1>8, FlushAsks, FlushMoves DEF AskedFor
  <2>3. Leaving'
    BY <1>1, <1>8, FlushMoves DEF IInv, Undisturbed, Leaving
  <2>4. Dropping'
    BY <1>1, <1>3, <1>8, FlushMoves DEF IInv, Undisturbed, Dropping, LoadOf
  <2> QED
    BY <2>1, <2>2, <2>3, <2>4
<1> QED
  BY <1>1, <1>2, <1>3, <1>4, <1>5, <1>6, <1>7, <1>8 DEF IInv, Undisturbed

\* The edits a replacement or a save knows of are numbers.
LEMMA EditsAre ==
  ASSUME TypeOK
  PROVE  /\ \A j \in Jobs : job[j].had \in Int /\ job[j].left \in Nat
         /\ \A v \in Saves : save[v].left \in Nat
         /\ \A v \in Saves : LoadOf(save[v].what) # None => save[v].what.edits \in Int
         /\ \A l \in Loads : edits[l] \in Int
         /\ seen.load # None => seen.load \in Loads
         /\ shown.load # None => shown.load \in Loads
<1>1. \A j \in Jobs : job[j].had \in Int /\ job[j].left \in Nat
  BY LoadAssumption DEF TypeOK, Job
<1>2. \A v \in Saves : save[v].left \in Nat /\ save[v].what \in Document \cup {None}
  BY DEF TypeOK, Save
<1>3. \A v \in Saves : LoadOf(save[v].what) # None => save[v].what.edits \in Int
  BY <1>2, DocumentsAre DEF LoadOf
<1>4. \A l \in Loads : edits[l] \in Int
  BY LoadAssumption DEF TypeOK
<1> QED
  BY <1>1, <1>2, <1>3, <1>4 DEF TypeOK, State

LEMMA ReadBoardKeeps == ASSUME IInv, ReadBoard PROVE IInv'
<1>1. /\ writes # << >> /\ reading = None /\ reading' = AsRead(seen)
      /\ UNCHANGED << route, running, shown, doc, seen, edits, job, replacing, generation,
                      fetched, save, change, pending, byPerson, rebasing, writes,
                      lastWritten, drafts, saved, disturbed >>
  BY DEF ReadBoard, boardVars, jobVars, keptVars, pendingVars
<1>2. seen \in State /\ TypeOK
  BY DEF IInv, TypeOK
<1>3. /\ reading' \in Document /\ reading' # None /\ LoadOf(reading') = seen.load
      /\ NoMoreEdits(reading')
      /\ seen.load # None =>
           /\ reading'.of = doc[seen.load].of /\ reading'.ids = seen.ids
           /\ reading'.edits = edits[seen.load] /\ reading'.load = seen.load
  BY <1>1, <1>2, AsReadIs, DocumentsAre
<1>4. TypeOK'
  BY <1>1, <1>3 DEF IInv, TypeOK
<1>5. Counting' /\ (~disturbed => OneAtATime' /\ RunsAsShown' /\ Phases')
      /\ (Standing' <=> Standing)
  BY <1>1, JobsKeep DEF JobsStay
<1>6. ChangesInTime'
  BY <1>1 DEF IInv, ChangesInTime
<1>7. NewLoads'
  BY <1>1, <1>3 DEF IInv, NewLoads, LoadOf
<1>8. Documented'
  <2>1. NoMoreEdits(reading)'
    BY <1>1, <1>3 DEF NoMoreEdits, LoadOf
  <2>2. LoadOf(reading') # None /\ LoadOf(lastWritten) = LoadOf(reading')
          => lastWritten.edits <= reading'.edits
    BY <1>3 DEF IInv, Documented, NoMoreEdits, LoadOf
  <2> QED
    BY <1>1, <2>1, <2>2 DEF IInv, Documented, NoMoreEdits, LoadOf
<1>9. Awaiting'
  BY <1>1 DEF IInv, Awaiting
<1>10. \A n \in Nat : \A e \in Int :
         seen.load # None /\ e <= edits[seen.load] /\ Within(n, seen.load, e, reading, lastWritten)
           => Within(n, seen.load, e, reading', lastWritten')
  BY <1>1, <1>3, WithinRead DEF Covers
<1>11. ASSUME ~disturbed PROVE ReadWhole' /\ AskedFor' /\ Leaving' /\ Dropping'
  <2>1. ReadWhole'
    BY <1>1, <1>3, <1>5, <1>11 DEF IInv, Undisturbed, ReadWhole, OfShown, LoadOf
  <2>2. AskedFor'
    <3>1. Len(writes) \in Nat
      BY <1>2, QueuedIs
    <3> QED
      BY <1>1, <1>2, <1>5, <1>10, <1>11, <3>1, EditsAre DEF IInv, Undisturbed, AskedFor
  <2>3. Leaving'
    BY <1>1, <1>2, <1>10, <1>11, EditsAre DEF IInv, Undisturbed, Leaving
  <2>4. Dropping'
    <3>1. ASSUME Standing, shown.load # None, NEW v \in Saves,
                 LoadOf(save[v].what) = shown.load
          PROVE  /\ seen = shown /\ save[v].what.edits \in Int
                 /\ save[v].what.edits <= edits[seen.load]
      BY <1>2, <1>11, <3>1, EditsAre
         DEF IInv, Undisturbed, ReadWhole, Documented, NoMoreEdits, LoadOf
    <3> QED
      BY <1>1, <1>2, <1>5, <1>10, <1>11, <3>1, EditsAre
         DEF IInv, Undisturbed, Dropping, LoadOf
  <2> QED
    BY <2>1, <2>2, <2>3, <2>4
<1> QED
  BY <1>1, <1>4, <1>5, <1>6, <1>7, <1>8, <1>9, <1>11 DEF IInv, Undisturbed

\* A write is over: whoever awaits it is one nearer.
LEMMA WrittenMoves ==
  ASSUME IInv, Written
  PROVE  /\ reading \in Document /\ reading # None /\ reading' = None
         /\ writes' \in Seq(BOOLEAN) /\ Len(writes) \in Nat /\ Len(writes) > 0
         /\ Len(writes') = Len(writes) - 1 /\ Len(writes') \in Nat
         /\ job' \in [Jobs -> Job] /\ save' \in [Saves -> Save] /\ JobsStay
         /\ \A j \in Jobs :
              job'[j].left = IF job[j].pc = "flushing" /\ job[j].left > 0
                               THEN job[j].left - 1 ELSE job[j].left
         /\ \A v \in Saves :
              /\ save'[v].pc = save[v].pc /\ save'[v].what = save[v].what
              /\ save'[v].names = save[v].names
              /\ save'[v].left = IF save[v].pc = "flushing" /\ save[v].left > 0
                                   THEN save[v].left - 1 ELSE save[v].left
         /\ UNCHANGED << route, running, shown, doc, seen, edits, replacing, generation,
                         fetched, change, pending, byPerson, rebasing, saved, disturbed >>
<1>1. /\ reading # None /\ reading' = None /\ writes' = Tail(writes)
      /\ job' = [j \in Jobs |-> Nearer(job[j])]
      /\ save' = [v \in Saves |-> Nearer(save[v])]
      /\ UNCHANGED << route, running, shown, doc, seen, edits, replacing, generation,
                      fetched, change, pending, byPerson, rebasing, saved, disturbed >>
  BY DEF Written, boardVars, pendingVars
<1>2. writes \in Seq(BOOLEAN) /\ writes # << >> /\ reading \in Document
  BY <1>1 DEF IInv, Awaiting, TypeOK
<1>3. /\ writes' \in Seq(BOOLEAN) /\ Len(writes) \in Nat /\ Len(writes) > 0
      /\ Len(writes') = Len(writes) - 1 /\ Len(writes') \in Nat
  BY <1>1, <1>2, HeadTailProperties, EmptySeq
<1>4. ASSUME NEW r \in Job
      PROVE  /\ Nearer(r) \in Job /\ Nearer(r).pc = r.pc /\ Nearer(r).had = r.had
             /\ Nearer(r).ids = r.ids /\ Nearer(r).it = r.it /\ Nearer(r).target = r.target
             /\ Nearer(r).left = IF r.pc = "flushing" /\ r.left > 0 THEN r.left - 1 ELSE r.left
  <2>1. CASE r.pc = "flushing" /\ r.left > 0
    <3>1. PICK n \in Nat : n = r.left - 1
      BY <2>1 DEF Job
    <3>2. Nearer(r) = [r EXCEPT !.left = n]
      BY <2>1, <3>1 DEF Nearer
    <3> QED
      BY <2>1, <3>1, <3>2 DEF Job
  <2>2. CASE ~(r.pc = "flushing" /\ r.left > 0)
    BY <2>2 DEF Nearer
  <2> QED
    BY <2>1, <2>2
<1>5. ASSUME NEW r \in Save
      PROVE  /\ Nearer(r) \in Save /\ Nearer(r).pc = r.pc /\ Nearer(r).what = r.what
             /\ Nearer(r).names = r.names
             /\ Nearer(r).left = IF r.pc = "flushing" /\ r.left > 0 THEN r.left - 1 ELSE r.left
  <2>1. CASE r.pc = "flushing" /\ r.left > 0
    <3>1. PICK n \in Nat : n = r.left - 1
      BY <2>1 DEF Save
    <3>2. Nearer(r) = [r EXCEPT !.left = n]
      BY <2>1, <3>1 DEF Nearer
    <3> QED
      BY <2>1, <3>1, <3>2 DEF Save
  <2>2. CASE ~(r.pc = "flushing" /\ r.left > 0)
    BY <2>2 DEF Nearer
  <2> QED
    BY <2>1, <2>2
<1>6. job \in [Jobs -> Job] /\ save \in [Saves -> Save]
  BY DEF IInv, TypeOK
<1>7. /\ job' \in [Jobs -> Job] /\ save' \in [Saves -> Save]
      /\ \A j \in Jobs : job'[j] = Nearer(job[j])
      /\ \A v \in Saves : save'[v] = Nearer(save[v])
  BY <1>1, <1>4, <1>5, <1>6
<1>8. JobsStay
  BY <1>4, <1>6, <1>7 DEF JobsStay
<1> QED
  BY <1>1, <1>2, <1>3, <1>4, <1>5, <1>6, <1>7, <1>8

\* What a write keeps, whether the snapshot is made or not.
LEMMA WrittenKeeps ==
  ASSUME IInv, Written
  PROVE  /\ Counting' /\ (~disturbed => OneAtATime' /\ RunsAsShown' /\ Phases')
         /\ (Standing' <=> Standing) /\ ChangesInTime' /\ Awaiting'
<1>1. Counting' /\ (~disturbed => OneAtATime' /\ RunsAsShown' /\ Phases')
      /\ (Standing' <=> Standing)
  BY WrittenMoves, JobsKeep
<1>2. ChangesInTime'
  BY WrittenMoves DEF IInv, ChangesInTime
<1>3. Awaiting'
  <2>1. \A j \in Jobs : job[j].pc = "flushing" => job'[j].left <= Len(writes')
    BY WrittenMoves, EditsAre DEF IInv, Awaiting
  <2>2. \A v \in Saves : save[v].pc = "flushing" => save'[v].left <= Len(writes')
    BY WrittenMoves, EditsAre DEF IInv, Awaiting
  <2> QED
    BY <2>1, <2>2, WrittenMoves DEF Awaiting, JobsStay
<1> QED
  BY <1>1, <1>2, <1>3

LEMMA WriteSnapshotKeeps == ASSUME IInv, WriteSnapshot PROVE IInv'
<1>1. Written
  BY DEF WriteSnapshot
<1>2. PICK w \in Outcomes(reading) :
        /\ lastWritten' = w
        /\ drafts' = IF w = lastWritten \/ Head(writes) THEN drafts
                     ELSE [drafts EXCEPT ![route] = w]
  BY DEF WriteSnapshot
<1>3. /\ reading \in Document /\ reading # None /\ TypeOK /\ NoMoreEdits(reading)
      /\ lastWritten \in Document \cup {None}
  BY <1>1, WrittenMoves DEF IInv, TypeOK, Documented
<1>4. /\ w \in Document /\ w # None /\ LoadOf(w) = LoadOf(reading) /\ w.load = reading.load
      /\ LoadOf(reading) = reading.load
      /\ w.of = reading.of /\ w.ids = reading.ids /\ w.edits >= reading.edits
      /\ NoMoreEdits(w) /\ w.edits \in Int /\ reading.edits \in Int
  BY <1>2, <1>3, OutcomesAre, DocumentsAre
<1>5. \A a \in Addresses : drafts'[a] = drafts[a] \/ (drafts'[a] = w /\ w # lastWritten)
  BY <1>2 DEF IInv, TypeOK
<1>6. TypeOK'
  <2>1. drafts' \in [Addresses -> Document \cup {None}]
    BY <1>2, <1>4 DEF IInv, TypeOK
  <2> QED
    BY <1>1, <1>2, <1>4, <2>1, WrittenMoves DEF IInv, TypeOK
<1>7. /\ Counting' /\ (~disturbed => OneAtATime' /\ RunsAsShown' /\ Phases')
      /\ (Standing' <=> Standing) /\ ChangesInTime' /\ Awaiting'
  BY <1>1, WrittenKeeps
<1>8. NewLoads'
  <2> SUFFICES ASSUME NEW j \in Jobs, job'[j].pc # "done"
               PROVE  /\ shown'.load # j /\ seen'.load # j
                      /\ LoadOf(reading') # j /\ LoadOf(lastWritten') # j
                      /\ \A v \in Saves : LoadOf(save'[v].what) # j
                      /\ \A a \in Addresses : LoadOf(drafts'[a]) # j
    BY DEF NewLoads, LoadOf
  <2>1. job[j].pc # "done"
    BY <1>1, WrittenMoves DEF JobsStay
  <2>2. /\ shown.load # j /\ seen.load # j /\ LoadOf(reading) # j
        /\ \A v \in Saves : LoadOf(save[v].what) # j
        /\ \A a \in Addresses : LoadOf(drafts[a]) # j
    BY <2>1 DEF IInv, NewLoads
  <2>3. LoadOf(reading') # j
    BY <1>1, WrittenMoves, LoadAssumption DEF LoadOf, Loads
  <2>4. \A v \in Saves : LoadOf(save'[v].what) # j
    BY <1>1, <2>2, WrittenMoves
  <2>5. \A a \in Addresses : LoadOf(drafts'[a]) # j
    BY <1>4, <1>5, <2>2
  <2> QED
    BY <1>1, <1>2, <1>4, <2>2, <2>3, <2>4, <2>5, WrittenMoves
<1>9. Documented'
  <2>1. NoMoreEdits(lastWritten)'
    BY <1>1, <1>2, <1>4, WrittenMoves DEF NoMoreEdits, LoadOf
  <2>2. LoadOf(reading)' = None /\ NoMoreEdits(reading)'
    BY <1>1, WrittenMoves DEF LoadOf, NoMoreEdits
  <2>3. \A v \in Saves :
          /\ NoMoreEdits(save[v].what)'
          /\ (save[v].pc = "reading" =>
                /\ save[v].what # None /\ LoadOf(save[v].what) # None
                /\ save[v].what.of # None /\ save[v].names = {})'
    BY <1>1, WrittenMoves DEF IInv, Documented, NoMoreEdits, LoadOf
  <2> QED
    BY <1>1, <2>1, <2>2, <2>3, WrittenMoves DEF IInv, Documented
<1>10. \A n, m \in Nat : \A l : \A e \in Int :
         (n = 0 \/ m = n - 1) /\ Within(n, l, e, reading, lastWritten)
           => Within(m, l, e, None, w)
  BY <1>3, <1>4, WithinWritten
<1>11. ASSUME ~disturbed PROVE ReadWhole' /\ AskedFor' /\ Leaving' /\ Dropping'
  <2>1. ReadWhole'
    <3>1. Standing => OfShown(reading)
      BY <1>11 DEF IInv, Undisturbed, ReadWhole
    <3>2. Standing => OfShown(w)' /\ OfShown(None)'
      BY <1>1, <1>4, <3>1, WrittenMoves, DocumentsAre DEF OfShown, LoadOf
    <3> QED
      BY <1>1, <1>2, <1>7, <1>11, <3>2, WrittenMoves
         DEF IInv, Undisturbed, ReadWhole, OfShown, LoadOf
  <2>2. AskedFor'
    BY <1>1, <1>2, <1>3, <1>7, <1>10, <1>11, WrittenMoves, EditsAre
       DEF IInv, Undisturbed, AskedFor
  <2>3. Leaving'
    <3> SUFFICES ASSUME NEW j \in Jobs, seen.load # None
                 PROVE  /\ job[j].pc \in {"flushing", "linking", "removing", "awaiting"}
                             => job[j].had <= edits[seen.load]
                        /\ job[j].pc = "flushing"
                             => Within(job'[j].left, seen.load, job[j].had, None, w)
                        /\ job[j].pc \in {"linking", "removing", "awaiting"}
                             => Within(0, seen.load, job[j].had, None, w)
      BY <1>1, <1>2, WrittenMoves DEF Leaving, JobsStay
    <3>1. job[j].left \in Nat /\ job'[j].left \in Nat /\ job[j].had \in Int
      BY <1>1, <1>3, WrittenMoves, EditsAre DEF Job
    <3>2. /\ job[j].pc \in {"flushing", "linking", "removing", "awaiting"}
               => job[j].had <= edits[seen.load]
          /\ job[j].pc = "flushing"
               => Within(job[j].left, seen.load, job[j].had, reading, lastWritten)
          /\ job[j].pc \in {"linking", "removing", "awaiting"}
               => Within(0, seen.load, job[j].had, reading, lastWritten)
      BY <1>11 DEF IInv, Undisturbed, Leaving
    <3>3. job[j].pc = "flushing" => job[j].left = 0 \/ job'[j].left = job[j].left - 1
      BY <1>1, <3>1, WrittenMoves
    <3>4. job[j].pc = "flushing" => Within(job'[j].left, seen.load, job[j].had, None, w)
      BY <1>10, <3>1, <3>2, <3>3
    <3>5. job[j].pc \in {"linking", "removing", "awaiting"}
            => Within(0, seen.load, job[j].had, None, w)
      BY <1>10, <3>1, <3>2
    <3> QED
      BY <3>2, <3>4, <3>5
  <2>4. Dropping'
    <3> SUFFICES ASSUME Standing, shown.load # None, NEW v \in Saves,
                        LoadOf(save[v].what) = shown.load
                 PROVE  /\ save[v].pc = "flushing" =>
                             Within(save'[v].left, shown.load, save[v].what.edits, None, w)
                        /\ save[v].pc = "done" =>
                             \A a \in save[v].names :
                               /\ Within(0, shown.load, save[v].what.edits, None, w)
                               /\ LoadOf(drafts'[a]) = shown.load =>
                                    drafts'[a].edits > save[v].what.edits
      BY <1>1, <1>2, <1>7, WrittenMoves DEF Dropping, LoadOf
    <3>1. /\ save[v].what.edits \in Int /\ save[v].left \in Nat /\ save'[v].left \in Nat
          /\ save[v].names \subseteq Addresses
      BY <1>1, <1>3, WrittenMoves, EditsAre DEF IInv, TypeOK, Save
    <3>2. /\ save[v].pc = "flushing" =>
               Within(save[v].left, shown.load, save[v].what.edits, reading, lastWritten)
          /\ save[v].pc = "done" =>
               \A a \in save[v].names :
                 /\ Within(0, shown.load, save[v].what.edits, reading, lastWritten)
                 /\ LoadOf(drafts[a]) = shown.load => drafts[a].edits > save[v].what.edits
      BY <1>11 DEF IInv, Undisturbed, Dropping
    <3>3. save[v].pc = "flushing" =>
            Within(save'[v].left, shown.load, save[v].what.edits, None, w)
      BY <1>1, <1>10, <3>1, <3>2, WrittenMoves
    <3>4. ASSUME save[v].pc = "done", NEW a \in save[v].names
          PROVE  /\ Within(0, shown.load, save[v].what.edits, None, w)
                 /\ LoadOf(drafts'[a]) = shown.load => drafts'[a].edits > save[v].what.edits
      <4>1. Within(0, shown.load, save[v].what.edits, None, w)
        BY <1>10, <3>1, <3>2, <3>4
      <4>2. CASE drafts'[a] = drafts[a]
        BY <3>2, <3>4, <4>1, <4>2
      <4>3. CASE drafts'[a] = w /\ w # lastWritten
        <5>1. /\ lastWritten # None /\ lastWritten.load = shown.load
              /\ lastWritten.edits >= save[v].what.edits /\ reading.load = shown.load
          BY <1>3, <3>2, <3>4 DEF Within, Covers
        <5>2. lastWritten \in Document /\ LoadOf(lastWritten) = shown.load
              /\ lastWritten.edits \in Int
          BY <1>3, <5>1, DocumentsAre
        <5>3. OfShown(reading) /\ OfShown(lastWritten)
          BY <1>11 DEF IInv, Undisturbed, ReadWhole
        <5>4. w.of = lastWritten.of /\ w.ids = lastWritten.ids /\ w.load = lastWritten.load
          BY <1>4, <5>1, <5>2, <5>3 DEF OfShown
        <5>5. w.edits # lastWritten.edits
          BY <1>4, <4>3, <5>2, <5>4 DEF Document
        <5>6. lastWritten.edits <= reading.edits
          BY <1>4, <5>1, <5>2 DEF IInv, Documented
        <5> QED
          BY <1>4, <3>1, <4>1, <4>3, <5>1, <5>2, <5>5, <5>6
      <4> QED
        BY <1>5, <3>1, <3>4, <4>2, <4>3
    <3> QED
      BY <3>3, <3>4
  <2> QED
    BY <2>1, <2>2, <2>3, <2>4
<1> QED
  BY <1>1, <1>6, <1>7, <1>8, <1>9, <1>11, WrittenMoves DEF IInv, Undisturbed

\* While the board stands, what was read of it can be read to its end.
LEMMA ReadableWhileStanding ==
  ASSUME IInv, ~disturbed, Standing, reading # None, LoadOf(reading) = shown.load,
         shown.load # None
  PROVE  ~Unreadable(reading)
<1>1. running = Runtimes(shown)
  BY DEF IInv, Undisturbed, RunsAsShown, Standing, Torn
<1>2. reading.load = shown.load /\ reading.ids = shown.ids
  BY DEF IInv, Undisturbed, ReadWhole, OfShown, LoadOf
<1> QED
  BY <1>1, <1>2 DEF Unreadable, Runtimes

LEMMA StandsWhileFlushing ==
  ASSUME IInv, ~disturbed, NEW j \in Jobs, job[j].pc \in {"flushing", "linking"}
  PROVE  Standing /\ seen = shown
<1>1. \A i \in Jobs : UnderWay(i) => i = j
  BY DEF IInv, Undisturbed, OneAtATime, UnderWay
<1> QED
  BY <1>1 DEF Standing, Torn, UnderWay, IInv, Undisturbed, Phases

LEMMA WriteFailsKeeps == ASSUME IInv, WriteFails PROVE IInv'
<1>1. Written /\ Unreadable(reading) /\ lastWritten' = lastWritten /\ drafts' = drafts
  BY DEF WriteFails
<1>2. reading \in Document /\ reading # None /\ reading' = None /\ TypeOK
  BY <1>1, WrittenMoves DEF IInv
<1>3. TypeOK'
  BY <1>1, WrittenMoves DEF IInv, TypeOK
<1>4. /\ Counting' /\ (~disturbed => OneAtATime' /\ RunsAsShown' /\ Phases')
      /\ (Standing' <=> Standing) /\ ChangesInTime' /\ Awaiting'
  BY <1>1, WrittenKeeps
<1>5. LoadOf(reading') = None
  BY <1>2 DEF LoadOf
<1>6. NewLoads'
  <2> SUFFICES ASSUME NEW j \in Jobs, job'[j].pc # "done"
               PROVE  /\ shown'.load # j /\ seen'.load # j
                      /\ LoadOf(reading') # j /\ LoadOf(lastWritten') # j
                      /\ \A v \in Saves : LoadOf(save'[v].what) # j
                      /\ \A a \in Addresses : LoadOf(drafts'[a]) # j
    BY DEF NewLoads, LoadOf
  <2>1. job[j].pc # "done"
    BY <1>1, WrittenMoves DEF JobsStay
  <2>2. LoadOf(reading') # j
    BY <1>5, LoadAssumption DEF Loads
  <2> QED
    BY <1>1, <2>1, <2>2, WrittenMoves DEF IInv, NewLoads
<1>7. Documented'
  <2>1. \A v \in Saves :
          /\ NoMoreEdits(save[v].what)'
          /\ (save[v].pc = "reading" =>
                /\ save[v].what # None /\ LoadOf(save[v].what) # None
                /\ save[v].what.of # None /\ save[v].names = {})'
    BY <1>1, WrittenMoves DEF IInv, Documented, NoMoreEdits, LoadOf
  <2>2. LoadOf(reading)' = None /\ NoMoreEdits(reading)' /\ NoMoreEdits(lastWritten)'
    BY <1>1, WrittenMoves DEF IInv, Documented, LoadOf, NoMoreEdits
  <2> QED
    BY <1>1, <2>1, <2>2, WrittenMoves DEF IInv, Documented
<1>8. ASSUME ~disturbed, Standing, shown.load # None
      PROVE  \A e : ~Covers(reading, shown.load, e)
  BY <1>1, <1>2, <1>8, ReadableWhileStanding DEF Covers, LoadOf
<1>9. \A n, m \in Nat : \A l : \A e \in Int :
        (n = 0 \/ m = n - 1) /\ Within(n, l, e, reading, lastWritten)
          /\ (n = 0 \/ ~Covers(reading, l, e))
          => Within(m, l, e, None, lastWritten)
  BY <1>2, WithinFailed
<1>10. ASSUME ~disturbed PROVE ReadWhole' /\ AskedFor' /\ Leaving' /\ Dropping'
  <2>1. ReadWhole'
    <3>1. Standing => OfShown(lastWritten)' /\ OfShown(reading)'
      BY <1>1, <1>5, <1>10, WrittenMoves DEF IInv, Undisturbed, ReadWhole, OfShown, LoadOf
    <3> QED
      BY <1>1, <1>4, <1>10, <3>1, WrittenMoves
         DEF IInv, Undisturbed, ReadWhole, LoadOf
  <2>2. AskedFor'
    <3> SUFFICES ASSUME Standing, seen = shown, seen.load # None, ~pending
                 PROVE  Within(Len(writes'), seen.load, edits[seen.load], None, lastWritten)
      BY <1>1, <1>4, WrittenMoves DEF AskedFor
    <3>1. Within(Len(writes), seen.load, edits[seen.load], reading, lastWritten)
      BY <1>10 DEF IInv, Undisturbed, AskedFor
    <3> QED
      BY <1>1, <1>2, <1>8, <1>9, <1>10, <3>1, WrittenMoves, EditsAre
  <2>3. Leaving'
    <3> SUFFICES ASSUME NEW j \in Jobs, seen.load # None
                 PROVE  /\ job[j].pc \in {"flushing", "linking", "removing", "awaiting"}
                             => job[j].had <= edits[seen.load]
                        /\ job[j].pc = "flushing"
                             => Within(job'[j].left, seen.load, job[j].had, None, lastWritten)
                        /\ job[j].pc \in {"linking", "removing", "awaiting"}
                             => Within(0, seen.load, job[j].had, None, lastWritten)
      BY <1>1, WrittenMoves DEF Leaving, JobsStay
    <3>1. job[j].left \in Nat /\ job'[j].left \in Nat /\ job[j].had \in Int
      BY <1>1, <1>2, WrittenMoves, EditsAre DEF Job
    <3>2. job[j].pc = "flushing" => \A e : ~Covers(reading, seen.load, e)
      BY <1>8, <1>10, StandsWhileFlushing
    <3>3. /\ job[j].pc \in {"flushing", "linking", "removing", "awaiting"}
               => job[j].had <= edits[seen.load]
          /\ job[j].pc = "flushing"
               => Within(job[j].left, seen.load, job[j].had, reading, lastWritten)
          /\ job[j].pc \in {"linking", "removing", "awaiting"}
               => Within(0, seen.load, job[j].had, reading, lastWritten)
      BY <1>10 DEF IInv, Undisturbed, Leaving
    <3>4. job[j].pc = "flushing" => job[j].left = 0 \/ job'[j].left = job[j].left - 1
      BY <1>1, <3>1, WrittenMoves
    <3>5. job[j].pc = "flushing" => Within(job'[j].left, seen.load, job[j].had, None, lastWritten)
      BY <1>9, <3>1, <3>2, <3>3, <3>4
    <3>6. job[j].pc \in {"linking", "removing", "awaiting"}
            => Within(0, seen.load, job[j].had, None, lastWritten)
      BY <1>9, <3>1, <3>3
    <3> QED
      BY <3>3, <3>5, <3>6
  <2>4. Dropping'
    <3> SUFFICES ASSUME Standing, shown.load # None, NEW v \in Saves,
                        LoadOf(save[v].what) = shown.load
                 PROVE  /\ save[v].pc = "flushing" =>
                             Within(save'[v].left, shown.load, save[v].what.edits, None,
                                    lastWritten)
                        /\ save[v].pc = "done" =>
                             \A a \in save[v].names :
                               /\ Within(0, shown.load, save[v].what.edits, None, lastWritten)
                               /\ LoadOf(drafts[a]) = shown.load =>
                                    drafts[a].edits > save[v].what.edits
      BY <1>1, <1>4, WrittenMoves DEF Dropping, LoadOf
    <3>1. /\ save[v].what.edits \in Int /\ save[v].left \in Nat /\ save'[v].left \in Nat
      BY <1>1, <1>2, WrittenMoves, EditsAre
    <3>2. /\ save[v].pc = "flushing" =>
               Within(save[v].left, shown.load, save[v].what.edits, reading, lastWritten)
          /\ save[v].pc = "done" =>
               \A a \in save[v].names :
                 /\ Within(0, shown.load, save[v].what.edits, reading, lastWritten)
                 /\ LoadOf(drafts[a]) = shown.load => drafts[a].edits > save[v].what.edits
      BY <1>10 DEF IInv, Undisturbed, Dropping
    <3>3. ~Covers(reading, shown.load, save[v].what.edits)
      BY <1>8, <1>10
    <3>4. save[v].pc = "flushing" =>
            Within(save'[v].left, shown.load, save[v].what.edits, None, lastWritten)
      BY <1>1, <1>9, <3>1, <3>2, <3>3, WrittenMoves
    <3>5. save[v].pc = "done" =>
            \A a \in save[v].names :
              Within(0, shown.load, save[v].what.edits, None, lastWritten)
      BY <1>9, <3>1, <3>2
    <3> QED
      BY <3>2, <3>4, <3>5
  <2> QED
    BY <2>1, <2>2, <2>3, <2>4
<1> QED
  BY <1>1, <1>3, <1>4, <1>6, <1>7, <1>10, WrittenMoves DEF IInv, Undisturbed

-----------------------------------------------------------------------------
(* What the page, the person and the runtimes do.                          *)

LEMMA RenderKeeps == ASSUME IInv, Render PROVE IInv'
<1>1. /\ seen # shown /\ seen' = shown /\ pending' = TRUE /\ byPerson' = byPerson
      /\ UNCHANGED << route, running, shown, doc, edits, job, replacing, generation,
                      fetched, save, change, rebasing, writes, reading, lastWritten,
                      drafts, saved, disturbed >>
  BY DEF Render, Schedule, boardVars, jobVars, writeVars, keptVars, IInv, TypeOK
<1>2. TypeOK'
  BY <1>1 DEF IInv, TypeOK
<1>3. Counting'
  BY <1>1 DEF IInv, Counting, UnderWay
<1>4. ChangesInTime' /\ NewLoads' /\ Documented' /\ Awaiting'
  BY <1>1 DEF IInv, ChangesInTime, NewLoads, Documented, Awaiting, LoadOf, NoMoreEdits
<1>5. ASSUME ~disturbed
      PROVE  /\ OneAtATime' /\ RunsAsShown' /\ Phases'
             /\ ReadWhole' /\ AskedFor' /\ Leaving' /\ Dropping'
  <2>1. OneAtATime' /\ RunsAsShown'
    BY <1>1, <1>5
       DEF IInv, Undisturbed, OneAtATime, UnderWay, RunsAsShown, Runtimes
  <2>2. Phases'
    BY <1>1, <1>5 DEF IInv, Undisturbed, Phases, Emptied, Fresh
  <2>3. ReadWhole'
    BY <1>1, <1>5 DEF IInv, Undisturbed, ReadWhole, OfShown, LoadOf, Standing, Torn
  <2>4. AskedFor'
    BY <1>1 DEF AskedFor
  <2>5. Leaving'
    BY <1>1, <1>5 DEF IInv, Undisturbed, Leaving, Phases
  <2>6. Dropping'
    BY <1>1, <1>5 DEF IInv, Undisturbed, Dropping, LoadOf, Standing, Torn
  <2> QED
    BY <2>1, <2>2, <2>3, <2>4, <2>5, <2>6
<1> QED
  BY <1>1, <1>2, <1>3, <1>4, <1>5 DEF IInv, Undisturbed

LEMMA EditKeeps == ASSUME IInv, Edit PROVE IInv'
<1>1. /\ seen = shown /\ edits[seen.load] < MaxEdits
      /\ Runtimes(seen) \cap running # {}
      /\ edits' = [edits EXCEPT ![seen.load] = @ + 1]
      /\ pending' = TRUE /\ byPerson' \in BOOLEAN
      /\ UNCHANGED << route, running, shown, doc, seen, job, replacing, generation,
                      fetched, save, change, rebasing, writes, reading, lastWritten,
                      drafts, saved, disturbed >>
  <2>1. PICK b \in BOOLEAN : Schedule(b)
    BY DEF Edit
  <2>2. byPerson' \in BOOLEAN
    BY <2>1 DEF Schedule
  <2> QED
    BY <2>1, <2>2 DEF Edit, Schedule, boardVars, jobVars, writeVars, keptVars
<1>2. seen.load \in Loads
  BY <1>1 DEF IInv, TypeOK, Runtimes
<1>3. /\ edits' \in [Loads -> 0..MaxEdits]
      /\ \A l \in Loads : edits'[l] \in Int /\ edits[l] \in Int /\ edits[l] <= edits'[l]
  <2>1. edits \in [Loads -> 0..MaxEdits] /\ MaxEdits \in Nat
    BY LoadAssumption DEF IInv, TypeOK
  <2> QED
    BY <1>1, <1>2, <2>1
<1>4. TypeOK'
  BY <1>1, <1>3 DEF IInv, TypeOK
<1>5. Counting' /\ (~disturbed => OneAtATime' /\ RunsAsShown' /\ Phases')
      /\ (Standing' <=> Standing)
  BY <1>1, JobsKeep DEF JobsStay
<1>6. ChangesInTime' /\ NewLoads' /\ Awaiting'
  BY <1>1 DEF IInv, ChangesInTime, NewLoads, Awaiting, LoadOf
<1>7. Documented'
  <2>1. ASSUME NEW d \in Document \cup {None}, NoMoreEdits(d)
        PROVE  LoadOf(d) # None => d.edits <= edits'[d.load]
    <3>1. SUFFICES ASSUME LoadOf(d) # None PROVE d.edits <= edits'[d.load]
      OBVIOUS
    <3>2. d \in Document /\ d.load \in Loads /\ d.edits \in Int /\ d.edits <= edits[d.load]
      BY <2>1, <3>1, DocumentsAre DEF LoadOf, NoMoreEdits
    <3> QED
      BY <1>3, <3>2
  <2>2. /\ reading \in Document \cup {None} /\ lastWritten \in Document \cup {None}
        /\ \A v \in Saves : save[v].what \in Document \cup {None}
    BY DEF IInv, TypeOK, Save
  <2>3. /\ NoMoreEdits(reading)' /\ NoMoreEdits(lastWritten)'
        /\ \A v \in Saves : NoMoreEdits(save[v].what)'
    BY <1>1, <2>1, <2>2 DEF IInv, Documented, NoMoreEdits, LoadOf
  <2> QED
    BY <1>1, <2>3 DEF IInv, Documented, LoadOf
<1>8. ASSUME ~disturbed PROVE ReadWhole' /\ AskedFor' /\ Leaving' /\ Dropping'
  <2>1. ReadWhole'
    BY <1>1, <1>5, <1>8 DEF IInv, Undisturbed, ReadWhole, OfShown, LoadOf
  <2>2. AskedFor'
    BY <1>1 DEF AskedFor
  <2>3. Leaving'
    <3>1. \A j \in Jobs : job[j].had \in Int
      BY EditsAre DEF IInv
    <3> QED
      BY <1>1, <1>2, <1>3, <1>8, <3>1 DEF IInv, Undisturbed, Leaving
  <2>4. Dropping'
    BY <1>1, <1>5, <1>8 DEF IInv, Undisturbed, Dropping, LoadOf
  <2> QED
    BY <2>1, <2>2, <2>3, <2>4
<1> QED
  BY <1>1, <1>4, <1>5, <1>6, <1>7, <1>8 DEF IInv, Undisturbed

\* A step that moves a change of assets, and at most asks for a snapshot.
LEMMA ChangeMoves ==
  ASSUME IInv, ChangesInTime',
         change' \in [Changes -> [pc : {"idle", "sent", "made", "dropped"},
                                  load : Loads \cup {None}, generation : Nat]],
         pending' \in BOOLEAN, pending => pending', byPerson' \in BOOLEAN,
         UNCHANGED << route, running, shown, doc, seen, edits, job, replacing, generation,
                      fetched, save >>,
         UNCHANGED << rebasing, writes, reading, lastWritten, drafts, saved, disturbed >>
  PROVE  IInv'
<1>1. TypeOK'
  BY DEF IInv, TypeOK
<1>2. Counting' /\ (~disturbed => OneAtATime' /\ RunsAsShown' /\ Phases')
      /\ (Standing' <=> Standing)
  BY JobsKeep DEF JobsStay
<1>3. NewLoads' /\ Documented' /\ Awaiting'
  BY DEF IInv, NewLoads, Documented, Awaiting, LoadOf, NoMoreEdits
<1>4. ASSUME ~disturbed PROVE ReadWhole' /\ AskedFor' /\ Leaving' /\ Dropping'
  <2>1. ReadWhole'
    BY <1>2, <1>4 DEF IInv, Undisturbed, ReadWhole, OfShown, LoadOf
  <2>2. AskedFor'
    BY <1>2, <1>4 DEF IInv, Undisturbed, AskedFor
  <2>3. Leaving' /\ Dropping'
    BY <1>2, <1>4 DEF IInv, Undisturbed, Leaving, Dropping, LoadOf
  <2> QED
    BY <2>1, <2>2, <2>3
<1> QED
  BY <1>1, <1>2, <1>3, <1>4 DEF IInv, Undisturbed

LEMMA BeginChangeKeeps ==
  ASSUME IInv, NEW c \in Changes, BeginChange(c) PROVE IInv'
<1>1. /\ change' = [change EXCEPT ![c] =
                     [pc |-> "sent", load |-> shown.shell, generation |-> generation]]
      /\ UNCHANGED << route, running, shown, doc, seen, edits, job, replacing, generation,
                      fetched, save, pending, byPerson, rebasing, writes, reading,
                      lastWritten, drafts, saved, disturbed >>
  BY DEF BeginChange, boardVars, jobVars, pendingVars, writeVars, keptVars
<1>2. shown.shell \in Loads \cup {None} /\ generation \in Nat
  BY DEF IInv, TypeOK, State
<1>3. change' \in [Changes -> [pc : {"idle", "sent", "made", "dropped"},
                               load : Loads \cup {None}, generation : Nat]]
  BY <1>1, <1>2 DEF IInv, TypeOK
<1>4. /\ change'[c].load = shown.shell /\ change'[c].generation = generation
      /\ \A d \in Changes \ {c} : change'[d] = change[d]
  BY <1>1 DEF IInv, TypeOK
<1>5. ChangesInTime'
  BY <1>1, <1>2, <1>4 DEF IInv, ChangesInTime
<1> QED
  BY <1>1, <1>3, <1>5, ChangeMoves DEF IInv, TypeOK

LEMMA EndChangeKeeps ==
  ASSUME IInv, NEW c \in Changes, EndChange(c) PROVE IInv'
<1>1. PICK pc \in {"made", "dropped"} :
        change' = [change EXCEPT ![c] = [IdleChange EXCEPT !.pc = pc]]
  BY DEF EndChange
<1>2. UNCHANGED << route, running, shown, doc, seen, edits, job, replacing, generation,
                   fetched, save, writes, reading, lastWritten, drafts, saved, disturbed >>
  BY DEF EndChange, boardVars, jobVars, writeVars, keptVars
<1>3. /\ pending' \in BOOLEAN /\ (pending => pending') /\ byPerson' \in BOOLEAN
      /\ rebasing' = rebasing
  <2>1. CASE StillOn(c)
    BY <2>1 DEF EndChange, Schedule
  <2>2. CASE ~StillOn(c)
    BY <2>2 DEF EndChange, pendingVars, IInv, TypeOK
  <2> QED
    BY <2>1, <2>2
<1> DEFINE r == [IdleChange EXCEPT !.pc = pc]
<1>4. /\ r.pc # "sent"
      /\ r \in [pc : {"idle", "sent", "made", "dropped"},
                load : Loads \cup {None}, generation : Nat]
  BY DEF IdleChange
<1> HIDE DEF r
<1>5. change' \in [Changes -> [pc : {"idle", "sent", "made", "dropped"},
                               load : Loads \cup {None}, generation : Nat]]
  BY <1>1, <1>4 DEF IInv, TypeOK, r
<1>6. change'[c].pc # "sent" /\ \A d \in Changes \ {c} : change'[d] = change[d]
  BY <1>1, <1>4 DEF IInv, TypeOK, r
<1>7. ChangesInTime'
  BY <1>2, <1>6 DEF IInv, ChangesInTime
<1> QED
  BY <1>2, <1>3, <1>5, <1>7, ChangeMoves

-----------------------------------------------------------------------------
(* Saves.                                                                  *)

\* A step of one save, that writes nothing and at most drops drafts.
SaveStep(v, g) ==
  /\ save' = [save EXCEPT ![v] = g]
  /\ Flush \/ UNCHANGED << pending, byPerson, rebasing, writes, reading >>
  /\ \A a \in Addresses : drafts'[a] = drafts[a] \/ drafts'[a] = None
  /\ drafts' \in [Addresses -> Document \cup {None}]
  /\ saved' \in [Addresses -> Document]
  /\ UNCHANGED << route, running, shown, doc, seen, edits, job, replacing, generation >>
  /\ UNCHANGED << fetched, change, lastWritten, disturbed >>
  /\ \A j \in Jobs : job[j].pc # "done" => LoadOf(g.what) # j
  /\ NoMoreEdits(g.what)
  /\ g.pc = "reading" =>
       g.what # None /\ LoadOf(g.what) # None /\ g.what.of # None /\ g.names = {}
  /\ g.names # {} => LoadOf(g.what) # None
  /\ g.pc = "flushing" => g.left <= Len(writes')
  /\ ~disturbed /\ Standing /\ LoadOf(g.what) = shown.load /\ shown.load # None =>
       /\ seen = shown
       /\ g.pc = "flushing" =>
            Within(g.left, shown.load, g.what.edits, reading, lastWritten)
       /\ g.pc = "done" =>
            \A a \in g.names :
              /\ Within(0, shown.load, g.what.edits, reading, lastWritten)
              /\ LoadOf(drafts'[a]) = shown.load => drafts'[a].edits > g.what.edits

LEMMA SaveMoves ==
  ASSUME IInv, NEW v \in Saves, NEW g \in Save, SaveStep(v, g)
  PROVE  IInv'
<1> USE DEF SaveStep
<1>1. /\ reading' = reading /\ writes' \in Seq(BOOLEAN) /\ pending' \in BOOLEAN
      /\ byPerson' \in BOOLEAN /\ rebasing' \in BOOLEAN
      /\ Len(writes) \in Nat /\ Len(writes') \in Nat /\ Len(writes) <= Len(writes')
      /\ reading # None => writes' # << >>
  <2>1. CASE Flush
    BY <2>1, FlushMoves
  <2>2. CASE UNCHANGED << pending, byPerson, rebasing, writes, reading >>
    BY <2>2, QueuedIs DEF IInv, TypeOK, Awaiting
  <2> QED
    BY <2>1, <2>2
<1>2. /\ save' \in [Saves -> Save] /\ save'[v] = g
      /\ \A u \in Saves \ {v} : save'[u] = save[u]
  BY DEF IInv, TypeOK
<1>3. TypeOK'
  BY <1>1, <1>2 DEF IInv, TypeOK
<1>4. Counting' /\ (~disturbed => OneAtATime' /\ RunsAsShown' /\ Phases')
      /\ (Standing' <=> Standing)
  BY JobsKeep DEF JobsStay
<1>5. ChangesInTime'
  BY DEF IInv, ChangesInTime
<1>6. NewLoads'
  <2> SUFFICES ASSUME NEW j \in Jobs, job[j].pc # "done"
               PROVE  /\ \A u \in Saves : LoadOf(save'[u].what) # j
                      /\ \A a \in Addresses : LoadOf(drafts'[a]) # j
    BY <1>1 DEF IInv, NewLoads, LoadOf
  <2>1. \A u \in Saves : LoadOf(save'[u].what) # j
    BY <1>2 DEF IInv, NewLoads
  <2>2. \A a \in Addresses : LoadOf(drafts'[a]) # j
    BY LoadAssumption DEF IInv, NewLoads, LoadOf, Loads
  <2> QED
    BY <2>1, <2>2
<1>7. Documented'
  <2>1. \A u \in Saves :
          /\ NoMoreEdits(save'[u].what)
          /\ save'[u].pc = "reading" =>
                /\ save'[u].what # None /\ LoadOf(save'[u].what) # None
                /\ save'[u].what.of # None /\ save'[u].names = {}
    BY <1>2 DEF IInv, Documented
  <2> QED
    BY <1>1, <2>1 DEF IInv, Documented, NoMoreEdits, LoadOf
<1>8. Awaiting'
  <2>1. TypeOK
    BY DEF IInv
  <2>2. \A j \in Jobs : job[j].pc = "flushing" => job[j].left <= Len(writes')
    BY <1>1, <2>1, EditsAre DEF IInv, Awaiting
  <2>3. \A u \in Saves : save'[u].pc = "flushing" => save'[u].left <= Len(writes')
    BY <1>1, <1>2, <2>1, EditsAre DEF IInv, Awaiting
  <2> QED
    BY <1>1, <2>2, <2>3 DEF Awaiting
<1>9. ASSUME ~disturbed PROVE ReadWhole' /\ AskedFor' /\ Leaving' /\ Dropping'
  <2>1. ReadWhole'
    <3>1. Standing /\ shown.load # None =>
            \A u \in Saves : LoadOf(save'[u].what) = shown.load => seen = shown
      BY <1>2, <1>9 DEF IInv, Undisturbed, ReadWhole
    <3> QED
      BY <1>1, <1>4, <1>9, <3>1 DEF IInv, Undisturbed, ReadWhole, OfShown, LoadOf
  <2>2. AskedFor'
    <3>1. CASE Flush
      BY <1>1, <1>4, <1>9, <3>1, FlushAsks DEF AskedFor
    <3>2. CASE UNCHANGED << pending, byPerson, rebasing, writes, reading >>
      BY <1>4, <1>9, <3>2 DEF IInv, Undisturbed, AskedFor
    <3> QED
      BY <3>1, <3>2
  <2>3. Leaving'
    BY <1>1, <1>9 DEF IInv, Undisturbed, Leaving
  <2>4. Dropping'
    <3> SUFFICES ASSUME Standing, shown.load # None, NEW u \in Saves,
                        LoadOf(save'[u].what) = shown.load
                 PROVE  /\ save'[u].pc = "flushing" =>
                             Within(save'[u].left, shown.load, save'[u].what.edits, reading,
                                    lastWritten)
                        /\ save'[u].pc = "done" =>
                             \A a \in save'[u].names :
                               /\ Within(0, shown.load, save'[u].what.edits, reading,
                                         lastWritten)
                               /\ LoadOf(drafts'[a]) = shown.load =>
                                    drafts'[a].edits > save'[u].what.edits
      BY <1>1, <1>4 DEF Dropping, LoadOf
    <3>1. CASE u = v
      BY <1>2, <1>9, <3>1
    <3>2. CASE u # v
      <4>1. /\ save'[u] = save[u] /\ save[u].names \subseteq Addresses
        BY <1>2, <3>2 DEF IInv, TypeOK, Save
      <4>2. \A a \in Addresses : LoadOf(drafts'[a]) = shown.load => drafts'[a] = drafts[a]
        BY DEF LoadOf
      <4> QED
        BY <1>9, <4>1, <4>2 DEF IInv, Undisturbed, Dropping
    <3> QED
      BY <3>1, <3>2
  <2> QED
    BY <2>1, <2>2, <2>3, <2>4
<1> QED
  BY <1>3, <1>4, <1>5, <1>6, <1>7, <1>8, <1>9 DEF IInv, Undisturbed

LEMMA BeginSaveKeeps ==
  ASSUME IInv, NEW v \in Saves, BeginSave(v) PROVE IInv'
<1>1. /\ seen = shown /\ seen.load # None
      /\ save' = [save EXCEPT ![v] = [IdleSave EXCEPT !.pc = "reading", !.what = AsRead(seen)]]
      /\ UNCHANGED << route, running, shown, doc, seen, edits, job, replacing, generation,
                      fetched, change, pending, byPerson, rebasing, writes, reading,
                      lastWritten, drafts, saved, disturbed >>
  BY DEF BeginSave, boardVars, jobVars, pendingVars, writeVars, keptVars
<1>2. PICK d \in Document :
        /\ d = AsRead(seen) /\ LoadOf(d) = seen.load /\ NoMoreEdits(d) /\ d # None
        /\ d.of = doc[seen.load].of
  <2>1. seen \in State /\ TypeOK
    BY DEF IInv, TypeOK
  <2>2. /\ AsRead(seen) \in Document /\ AsRead(seen).load = seen.load
        /\ NoMoreEdits(AsRead(seen)) /\ AsRead(seen).of = doc[seen.load].of
    BY <1>1, <2>1, AsReadIs
  <2> QED
    BY <2>2, DocumentsAre
<1> DEFINE g == [IdleSave EXCEPT !.pc = "reading", !.what = d]
<1>3. /\ g \in Save /\ g.pc = "reading" /\ g.what = d /\ g.names = {}
  BY DEF IdleSave, Save
<1>4. save' = [save EXCEPT ![v] = g]
  BY <1>1, <1>2
<1> HIDE DEF g
<1>5. d.of # None
  BY <1>1, <1>2, EditsAre DEF IInv, Documented
<1>6. \A j \in Jobs : job[j].pc # "done" => LoadOf(d) # j
  BY <1>2 DEF IInv, NewLoads
<1>7. /\ drafts' \in [Addresses -> Document \cup {None}]
      /\ saved' \in [Addresses -> Document]
  BY <1>1 DEF IInv, TypeOK
<1>8. SaveStep(v, g)
  BY <1>1, <1>2, <1>3, <1>4, <1>5, <1>6, <1>7 DEF SaveStep
<1> QED
  BY <1>8, <1>3, SaveMoves

LEMMA StoreKeeps ==
  ASSUME IInv, NEW v \in Saves, Store(v) PROVE IInv'
<1>1. PICK document \in Outcomes(save[v].what) :
        /\ saved' = [saved EXCEPT ![document.of] = document]
        /\ drafts' = [drafts EXCEPT ![document.of] = None]
        /\ save' = [save EXCEPT ![v] =
                      [pc |-> "flushing", left |-> ToAwait, what |-> document,
                       names |-> {document.of, route}]]
  BY DEF Store
<1>2. /\ save[v].pc = "reading" /\ Flush
      /\ UNCHANGED << route, running, shown, doc, seen, edits, job, replacing, generation,
                      fetched, change, lastWritten, disturbed >>
  BY DEF Store, boardVars, jobVars
<1>3. /\ save[v].what # None /\ LoadOf(save[v].what) # None
      /\ save[v].what.of # None /\ NoMoreEdits(save[v].what)
      /\ save[v].what \in Document
  BY <1>2 DEF IInv, Documented, TypeOK, Save
<1>4. /\ document \in Document /\ document # None /\ LoadOf(document) = LoadOf(save[v].what)
      /\ document.of \in Addresses /\ NoMoreEdits(document) /\ document.edits \in Int
      /\ LoadOf(document) = document.load /\ LoadOf(document) # None
  BY <1>1, <1>3, OutcomesAre, DocumentsAre DEF IInv
<1> DEFINE g == [pc |-> "flushing", left |-> ToAwait, what |-> document,
                 names |-> {document.of, route}]
<1>5. ToAwait \in Nat /\ ToAwait = Len(writes') /\ route \in Addresses
  BY <1>2, FlushMoves DEF IInv, TypeOK
<1>6. /\ g \in Save /\ g.pc = "flushing" /\ g.left = ToAwait /\ g.what = document
  BY <1>4, <1>5 DEF Save
<1>7. save' = [save EXCEPT ![v] = g]
  BY <1>1
<1> HIDE DEF g
<1>8. /\ drafts' \in [Addresses -> Document \cup {None}]
      /\ saved' \in [Addresses -> Document]
      /\ \A a \in Addresses : drafts'[a] = drafts[a] \/ drafts'[a] = None
  BY <1>1, <1>4 DEF IInv, TypeOK
<1>9. \A j \in Jobs : job[j].pc # "done" => LoadOf(document) # j
  BY <1>4 DEF IInv, NewLoads
<1>10. ASSUME ~disturbed, Standing, LoadOf(document) = shown.load, shown.load # None
       PROVE  /\ seen = shown
              /\ Within(ToAwait, shown.load, document.edits, reading, lastWritten)
  <2>1. seen = shown
    BY <1>4, <1>10 DEF IInv, Undisturbed, ReadWhole
  <2>2. Within(ToAwait, shown.load, edits[shown.load], reading, lastWritten)
    BY <1>2, <1>5, <1>10, <2>1, FlushAsks
  <2>3. document.edits <= edits[shown.load] /\ edits[shown.load] \in Int
    BY <1>4, <1>10, EditsAre DEF NoMoreEdits, IInv
  <2>4. reading \in Document \cup {None} /\ lastWritten \in Document \cup {None}
    BY DEF IInv, TypeOK
  <2> QED
    BY <1>4, <1>5, <2>1, <2>2, <2>3, <2>4, WithinFewer
<1>11. SaveStep(v, g)
  BY <1>2, <1>4, <1>5, <1>6, <1>7, <1>8, <1>9, <1>10 DEF SaveStep
<1> QED
  BY <1>11, <1>6, SaveMoves

LEMMA SaveFailsKeeps ==
  ASSUME IInv, NEW v \in Saves, SaveFails(v) PROVE IInv'
<1>1. /\ save[v].pc = "reading"
      /\ save' = [save EXCEPT ![v].pc = "done"]
      /\ UNCHANGED << route, running, shown, doc, seen, edits, job, replacing, generation,
                      fetched, change, pending, byPerson, rebasing, writes, reading,
                      lastWritten, drafts, saved, disturbed >>
  BY DEF SaveFails, boardVars, jobVars, pendingVars, writeVars, keptVars
<1>2. PICK h \in Save : h = save[v]
  BY DEF IInv, TypeOK
<1> DEFINE g == [h EXCEPT !.pc = "done"]
<1>3. g \in Save /\ g.pc = "done" /\ g.what = h.what /\ g.names = h.names
  BY DEF Save
<1>4. save' = [save EXCEPT ![v] = g]
  BY <1>1, <1>2
<1> HIDE DEF g
<1>5. h.names = {} /\ NoMoreEdits(h.what)
  BY <1>1, <1>2 DEF IInv, Documented
<1>6. \A j \in Jobs : job[j].pc # "done" => LoadOf(h.what) # j
  BY <1>2 DEF IInv, NewLoads
<1>7. ASSUME ~disturbed, Standing, LoadOf(h.what) = shown.load, shown.load # None
      PROVE  seen = shown
  BY <1>2, <1>7 DEF IInv, Undisturbed, ReadWhole
<1>8. /\ drafts' \in [Addresses -> Document \cup {None}]
      /\ saved' \in [Addresses -> Document]
  BY <1>1 DEF IInv, TypeOK
<1>9. SaveStep(v, g)
  BY <1>1, <1>3, <1>4, <1>5, <1>6, <1>7, <1>8 DEF SaveStep
<1> QED
  BY <1>9, <1>3, SaveMoves

LEMMA DropDraftsKeeps ==
  ASSUME IInv, NEW v \in Saves, DropDrafts(v) PROVE IInv'
<1>1. /\ save[v].pc = "flushing" /\ save[v].left = 0
      /\ drafts' = [a \in Addresses |-> IF a \in save[v].names THEN None ELSE drafts[a]]
      /\ save' = [save EXCEPT ![v].pc = "done"]
      /\ UNCHANGED << route, running, shown, doc, seen, edits, job, replacing, generation,
                      fetched, change, pending, byPerson, rebasing, writes, reading,
                      lastWritten, saved, disturbed >>
  BY DEF DropDrafts, boardVars, jobVars, pendingVars
<1>2. PICK h \in Save : h = save[v]
  BY DEF IInv, TypeOK
<1> DEFINE g == [h EXCEPT !.pc = "done"]
<1>3. /\ g \in Save /\ g.pc = "done" /\ g.what = h.what /\ g.names = h.names
      /\ h.names \subseteq Addresses
  BY DEF Save
<1>4. save' = [save EXCEPT ![v] = g]
  BY <1>1, <1>2
<1> HIDE DEF g
<1>5. NoMoreEdits(h.what) /\ (h.names # {} => LoadOf(h.what) # None)
  BY <1>2 DEF IInv, Documented
<1>6. \A j \in Jobs : job[j].pc # "done" => LoadOf(h.what) # j
  BY <1>2 DEF IInv, NewLoads
<1>7. /\ \A a \in Addresses : drafts'[a] = drafts[a] \/ drafts'[a] = None
      /\ \A a \in h.names : drafts'[a] = None
      /\ drafts' \in [Addresses -> Document \cup {None}]
      /\ saved' \in [Addresses -> Document]
  BY <1>1, <1>2, <1>3 DEF IInv, TypeOK
<1>8. ASSUME ~disturbed, Standing, LoadOf(h.what) = shown.load, shown.load # None
      PROVE  /\ seen = shown
             /\ Within(0, shown.load, h.what.edits, reading, lastWritten)
             /\ \A a \in h.names : LoadOf(drafts'[a]) # shown.load
  <2>1. seen = shown
    BY <1>2, <1>8 DEF IInv, Undisturbed, ReadWhole
  <2>2. Within(0, shown.load, h.what.edits, reading, lastWritten)
    BY <1>1, <1>2, <1>8 DEF IInv, Undisturbed, Dropping
  <2> QED
    BY <1>7, <1>8, <2>1, <2>2 DEF LoadOf
<1>9. SaveStep(v, g)
  BY <1>1, <1>3, <1>4, <1>5, <1>6, <1>7, <1>8 DEF SaveStep
<1> QED
  BY <1>9, <1>3, SaveMoves

-----------------------------------------------------------------------------
(* Replacements.                                                           *)

LEMMA IdleIs == IdleJob \in Job /\ IdleJob.pc = "idle"
<1>1. 0 \in 0..MaxEdits
  BY LoadAssumption
<1> QED
  BY <1>1 DEF IdleJob, Job

LEMMA BeginKeeps ==
  ASSUME IInv, NEW j \in Jobs, NEW kind \in {"visit", "open", "clear"},
         Begin(j, kind), route' \in Addresses
  PROVE  IInv'
<1>1. /\ job[j].pc = "idle" /\ seen = shown /\ Flush
      /\ replacing' = replacing + 1 /\ generation' = generation + 1
      /\ job' = [job EXCEPT ![j] = [IdleJob EXCEPT !.pc = "flushing", !.kind = kind,
                                      !.left = ToAwait, !.had = AsRead(seen).edits]]
      /\ disturbed' = (disturbed \/ \E i \in Jobs : UnderWay(i))
      /\ UNCHANGED << running, shown, doc, seen, edits, fetched, save, change,
                      lastWritten, drafts, saved >>
  BY DEF Begin, CountOn, boardVars, keptVars
<1>2. TypeOK /\ seen \in State
  BY DEF IInv, TypeOK
<1>3. PICK n \in Nat : n = ToAwait /\ n = Len(writes')
  BY <1>1, FlushMoves
<1>4. PICK e \in 0..MaxEdits :
        e = AsRead(seen).edits /\ (seen.load # None => e = edits[seen.load])
  BY <1>2, AsReadIs, DocumentsAre
<1> DEFINE g == [IdleJob EXCEPT !.pc = "flushing", !.kind = kind, !.left = n, !.had = e]
<1>5. g \in Job /\ g.pc = "flushing" /\ g.left = n /\ g.had = e
  <2>1. PICK i \in Job : i = IdleJob
    BY IdleIs
  <2>2. g = [i EXCEPT !.pc = "flushing", !.kind = kind, !.left = n, !.had = e]
    BY <2>1
  <2> QED
    BY <2>2 DEF Job
<1>6. job' = [job EXCEPT ![j] = g]
  BY <1>1, <1>3, <1>4
<1> HIDE DEF g
<1>7. job' \in [Jobs -> Job] /\ job'[j] = g /\ \A i \in Jobs \ {j} : job'[i] = job[i]
  BY <1>5, <1>6 DEF IInv, TypeOK
<1>8. replacing \in Nat /\ generation \in Nat
  BY DEF IInv, TypeOK
<1>9. TypeOK'
  <2>1. /\ writes' \in Seq(BOOLEAN) /\ pending' \in BOOLEAN /\ byPerson' \in BOOLEAN
        /\ rebasing' \in BOOLEAN /\ reading' = reading
    BY <1>1, FlushMoves
  <2>2. disturbed' \in BOOLEAN
    BY <1>1
  <2> QED
    BY <1>1, <1>7, <1>8, <2>1, <2>2 DEF IInv, TypeOK
<1>10. Counting'
  <2> DEFINE S == {i \in Jobs : UnderWay(i)}
  <2>1. IsFiniteSet(S) /\ replacing = Cardinality(S) /\ j \notin S
    BY <1>1 DEF IInv, Counting, UnderWay
  <2>2. {i \in Jobs : UnderWay(i)}' = S \cup {j}
    BY <1>5, <1>7 DEF UnderWay
  <2> HIDE DEF S
  <2>3. IsFiniteSet(S \cup {j}) /\ Cardinality(S \cup {j}) = Cardinality(S) + 1
    BY <2>1, FS_AddElement
  <2> QED
    BY <1>1, <2>1, <2>2, <2>3 DEF Counting
<1>11. ChangesInTime'
  <2>1. \A c \in Changes : change[c].generation \in Nat
    BY DEF IInv, TypeOK
  <2> QED
    BY <1>1, <1>8, <2>1 DEF IInv, ChangesInTime
<1>12. reading' = reading /\ (reading # None => writes' # << >>)
       /\ Len(writes) \in Nat /\ Len(writes) <= Len(writes')
  BY <1>1, FlushMoves
<1>13. NewLoads'
  BY <1>1, <1>5, <1>7, <1>12 DEF IInv, NewLoads, LoadOf
<1>14. Documented'
  BY <1>1, <1>12 DEF IInv, Documented, NoMoreEdits, LoadOf
<1>15. Awaiting'
  <2>1. \A i \in Jobs : job'[i].pc = "flushing" => job'[i].left <= Len(writes')
    BY <1>2, <1>3, <1>5, <1>7, <1>12, EditsAre DEF IInv, Awaiting
  <2>2. \A v \in Saves : save'[v].pc = "flushing" => save'[v].left <= Len(writes')
    BY <1>1, <1>2, <1>3, <1>12, EditsAre DEF IInv, Awaiting
  <2> QED
    BY <1>12, <2>1, <2>2 DEF Awaiting
<1>16. ASSUME ~disturbed'
       PROVE  /\ OneAtATime' /\ RunsAsShown' /\ Phases'
              /\ ReadWhole' /\ AskedFor' /\ Leaving' /\ Dropping'
  <2>1. ~disturbed /\ \A i \in Jobs : ~UnderWay(i)
    BY <1>1, <1>16
  <2>2. \A i \in Jobs \ {j} : job'[i].pc \in {"idle", "done"}
    BY <1>7, <2>1 DEF UnderWay
  <2>3. Standing /\ Standing'
    BY <1>5, <1>7, <2>1, <2>2 DEF Standing, Torn, UnderWay
  <2>4. seen.load # None => Within(n, seen.load, edits[seen.load], reading, lastWritten)
    BY <1>1, <1>3, <2>1, <2>3, FlushAsks
  <2>5. OneAtATime'
    BY <2>2 DEF OneAtATime, UnderWay
  <2>6. RunsAsShown'
    BY <1>1, <2>1, <2>3 DEF IInv, Undisturbed, RunsAsShown, Runtimes, Standing, Torn
  <2>7. Phases'
    BY <1>1, <1>5, <1>7, <2>2 DEF Phases
  <2>8. ReadWhole'
    BY <1>1, <1>12, <2>1, <2>3 DEF IInv, Undisturbed, ReadWhole, OfShown, LoadOf
  <2>9. AskedFor'
    BY <1>1, <1>3, <1>12, <2>4 DEF AskedFor
  <2>10. Leaving'
    <3>1. seen.load # None => e <= edits[seen.load]
      BY <1>4, LoadAssumption
    <3> QED
      BY <1>1, <1>4, <1>5, <1>7, <1>12, <2>2, <2>4, <3>1 DEF Leaving
  <2>11. Dropping'
    BY <1>1, <1>12, <2>1, <2>3 DEF IInv, Undisturbed, Dropping, LoadOf
  <2> QED
    BY <2>5, <2>6, <2>7, <2>8, <2>9, <2>10, <2>11
<1> QED
  BY <1>9, <1>10, <1>11, <1>13, <1>14, <1>15, <1>16 DEF IInv, Undisturbed

LEMMA NavigateKeeps == ASSUME IInv, NEW j \in Jobs, Navigate(j) PROVE IInv'
BY BeginKeeps DEF Navigate

LEMMA OpenKeeps == ASSUME IInv, NEW j \in Jobs, Open(j) PROVE IInv'
<1>1. PICK kind \in {"visit", "open", "clear"} : Begin(j, kind)
  BY DEF Open
<1>2. route' \in Addresses
  BY DEF Open, IInv, TypeOK
<1> QED
  BY <1>1, <1>2, BeginKeeps

\* What every step of a replacement under way leaves alone.
Frame(j) ==
  /\ job' \in [Jobs -> Job] /\ job'[j].pc \notin {"idle", "flushing"}
  /\ \A i \in Jobs \ {j} : job'[i] = job[i]
  /\ UNCHANGED << route, seen, save, change, pending, byPerson, writes, reading,
                  lastWritten, drafts, saved >>

LEMMA FrameKeeps ==
  ASSUME IInv, NEW j \in Jobs, UnderWay(j), Frame(j),
         shown'.load \in {shown.load, None} \/ (shown'.load = j /\ job'[j].pc = "done")
  PROVE  NewLoads' /\ Awaiting'
<1>1. Awaiting'
  BY DEF IInv, Awaiting, Frame
<1>2. NewLoads'
  <2> SUFFICES ASSUME NEW i \in Jobs, job'[i].pc # "done"
               PROVE  /\ shown'.load # i /\ seen'.load # i
                      /\ LoadOf(reading') # i /\ LoadOf(lastWritten') # i
                      /\ \A v \in Saves : LoadOf(save'[v].what) # i
                      /\ \A a \in Addresses : LoadOf(drafts'[a]) # i
    BY DEF NewLoads, LoadOf
  <2>1. job[i].pc # "done"
    BY DEF Frame, UnderWay
  <2>2. /\ shown.load # i /\ seen.load # i
        /\ LoadOf(reading) # i /\ LoadOf(lastWritten) # i
        /\ \A v \in Saves : LoadOf(save[v].what) # i
        /\ \A a \in Addresses : LoadOf(drafts[a]) # i
    BY <2>1 DEF IInv, NewLoads
  <2>3. i # None
    BY LoadAssumption DEF Loads
  <2> QED
    BY <2>2, <2>3 DEF Frame
<1> QED
  BY <1>1, <1>2

\* A replacement that goes on is still counted.
LEMMA GoesOn ==
  ASSUME IInv, NEW j \in Jobs, UnderWay(j), Frame(j), job'[j].pc # "done",
         replacing' = replacing
  PROVE  /\ Counting' /\ replacing # 0
         /\ ~disturbed => /\ OneAtATime'
                          /\ \A i \in Jobs \ {j} : job[i].pc \in {"idle", "done"}
<1> DEFINE S == {i \in Jobs : UnderWay(i)}
<1>1. {i \in Jobs : UnderWay(i)}' = S
  BY DEF UnderWay, Frame
<1>2. IsFiniteSet(S) /\ replacing = Cardinality(S) /\ j \in S
  BY DEF IInv, Counting
<1>3. S # {} => Cardinality(S) # 0
  BY <1>2, FS_EmptySet
<1>4. Counting'
  BY <1>1, <1>2 DEF Counting
<1>5. ASSUME ~disturbed
      PROVE OneAtATime' /\ \A i \in Jobs \ {j} : job[i].pc \in {"idle", "done"}
  <2>1. \A i \in Jobs \ {j} : job[i].pc \in {"idle", "done"}
    BY <1>5 DEF IInv, Undisturbed, OneAtATime, UnderWay
  <2> QED
    BY <2>1 DEF OneAtATime, UnderWay, Frame
<1> QED
  BY <1>2, <1>3, <1>4, <1>5

\* A change sent before is of an earlier generation.
LEMMA GenerationMoves ==
  ASSUME IInv, change' = change, generation' \in {generation + 1, generation + 2}
  PROVE  ChangesInTime' /\ generation' \in Nat
<1>1. generation \in Nat /\ \A c \in Changes : change[c].generation \in Nat
  BY DEF IInv, TypeOK
<1> QED
  BY <1>1 DEF IInv, ChangesInTime

\* A replacement that ends is counted off; when none was under way beside it,
\* all are at rest.
LEMMA EndMoves ==
  ASSUME IInv, NEW j \in Jobs, UnderWay(j), End(j),
         UNCHANGED << route, seen, save, change, pending, byPerson, writes, reading,
                      lastWritten, drafts, saved >>
  PROVE  /\ Frame(j) /\ job'[j].pc = "done" /\ replacing' \in Nat /\ Counting'
         /\ generation' \in Nat /\ ChangesInTime'
         /\ ~disturbed => /\ \A i \in Jobs : job'[i].pc \in {"idle", "done"}
                          /\ OneAtATime' /\ Phases' /\ Leaving' /\ Standing'
<1>1. /\ job' = [job EXCEPT ![j] = [IdleJob EXCEPT !.pc = "done"]]
      /\ replacing' = replacing - 1 /\ generation' = generation + 1
  BY DEF End, CountOff
<1> DEFINE g == [IdleJob EXCEPT !.pc = "done"]
<1>2. g \in Job /\ g.pc = "done"
  <2>1. PICK i \in Job : i = IdleJob
    BY IdleIs
  <2>2. g = [i EXCEPT !.pc = "done"]
    BY <2>1
  <2> QED
    BY <2>2 DEF Job
<1>3. job' = [job EXCEPT ![j] = g]
  BY <1>1
<1> HIDE DEF g
<1>4. /\ job' \in [Jobs -> Job] /\ job'[j].pc = "done"
      /\ \A i \in Jobs \ {j} : job'[i] = job[i]
  BY <1>2, <1>3 DEF IInv, TypeOK
<1>5. Frame(j)
  BY <1>4 DEF Frame
<1> DEFINE S == {i \in Jobs : UnderWay(i)}
<1>6. {i \in Jobs : UnderWay(i)}' = S \ {j}
  BY <1>4 DEF UnderWay
<1>7. IsFiniteSet(S) /\ replacing = Cardinality(S) /\ j \in S
  BY DEF IInv, Counting
<1> HIDE DEF S
<1>8. /\ IsFiniteSet(S \ {j}) /\ Cardinality(S \ {j}) = Cardinality(S) - 1
      /\ Cardinality(S \ {j}) \in Nat
  BY <1>7, FS_RemoveElement, FS_CardinalityType
<1>9. Counting' /\ replacing' \in Nat
  BY <1>1, <1>6, <1>7, <1>8 DEF Counting
<1>10. ChangesInTime' /\ generation' \in Nat
  BY <1>1, GenerationMoves
<1>11. ASSUME ~disturbed
       PROVE  /\ \A i \in Jobs : job'[i].pc \in {"idle", "done"}
              /\ OneAtATime' /\ Phases' /\ Leaving' /\ Standing'
  <2>1. \A i \in Jobs : job'[i].pc \in {"idle", "done"}
    BY <1>4, <1>11 DEF IInv, Undisturbed, OneAtATime, UnderWay
  <2>2. OneAtATime'
    BY <2>1 DEF OneAtATime, UnderWay
  <2>3. Phases'
    BY <2>1 DEF Phases
  <2>4. Leaving'
    BY <2>1 DEF Leaving
  <2>5. Standing'
    BY <2>1 DEF Standing, Torn
  <2> QED
    BY <2>1, <2>2, <2>3, <2>4, <2>5
<1> QED
  BY <1>4, <1>5, <1>9, <1>10, <1>11

\* A step that only moves the replacement on.
LEMMA OnlyJobKeeps ==
  ASSUME IInv, NEW j \in Jobs, UnderWay(j), Frame(j),
         job'[j].pc \in {"linking", "removing", "awaiting"},
         \/ job[j].pc \in {"flushing", "linking"}
         \/ job[j].pc = "removing" /\ job'[j].pc = "awaiting",
         UNCHANGED << running, shown, doc, edits, replacing, generation, fetched,
                      rebasing, disturbed >>,
         ~disturbed => Phases' /\ Leaving'
  PROVE  IInv'
<1>1. TypeOK'
  BY DEF IInv, TypeOK, Frame
<1>2. Counting' /\ NewLoads' /\ Awaiting'
      /\ (~disturbed => OneAtATime' /\ \A i \in Jobs \ {j} : job[i].pc \in {"idle", "done"})
  BY GoesOn, FrameKeeps
<1>3. ChangesInTime'
  BY DEF IInv, ChangesInTime, Frame
<1>4. Documented'
  BY DEF IInv, Documented, NoMoreEdits, LoadOf, Frame
<1>5. ASSUME ~disturbed PROVE RunsAsShown' /\ ReadWhole' /\ AskedFor' /\ Dropping'
  <2>1. job[j].pc \in {"flushing", "linking", "removing"}
    OBVIOUS
  <2>2. Standing' => Standing
    BY <1>2, <1>5 DEF Standing, Torn, Frame
  <2>3. RunsAsShown'
    BY <1>2, <1>5, <2>1 DEF IInv, Undisturbed, RunsAsShown, Runtimes
  <2>4. ReadWhole'
    BY <1>5, <2>2 DEF IInv, Undisturbed, ReadWhole, OfShown, LoadOf, Frame
  <2>5. AskedFor'
    BY <1>5, <2>2 DEF IInv, Undisturbed, AskedFor, Frame
  <2>6. Dropping'
    BY <1>5, <2>2 DEF IInv, Undisturbed, Dropping, LoadOf, Frame
  <2> QED
    BY <2>3, <2>4, <2>5, <2>6
<1> QED
  BY <1>1, <1>2, <1>3, <1>4, <1>5 DEF IInv, Undisturbed

LEMMA EndFlushKeeps == ASSUME IInv, NEW j \in Jobs, EndFlush(j) PROVE IInv'
<1>1. /\ job[j].pc = "flushing" /\ job[j].left = 0
      /\ job' = [job EXCEPT
                   ![j].pc = IF job[j].kind = "open" THEN "linking" ELSE "removing",
                   ![j].ids = seen.ids]
      /\ UNCHANGED << route, seen, save, change, pending, byPerson, writes, reading,
                      lastWritten, drafts, saved >>
      /\ UNCHANGED << running, shown, doc, edits, replacing, generation, fetched,
                      rebasing, disturbed >>
  BY DEF EndFlush, Flushed, ToRemove, boardVars, pendingVars, writeVars, keptVars
<1>2. PICK h \in Job : h = job[j]
  BY DEF IInv, TypeOK
<1>3. PICK s \in SUBSET Ids : s = seen.ids
  BY DEF IInv, TypeOK, State
<1>4. PICK p \in {"linking", "removing"} :
        p = IF job[j].kind = "open" THEN "linking" ELSE "removing"
  OBVIOUS
<1> DEFINE g == [h EXCEPT !.pc = p, !.ids = s]
<1>5. g \in Job /\ g.pc = p /\ g.ids = s /\ g.had = h.had
  BY <1>2 DEF Job
<1>6. job' = [job EXCEPT ![j] = g]
  BY <1>1, <1>2, <1>3, <1>4 DEF IInv, TypeOK
<1> HIDE DEF g
<1>7. /\ job' \in [Jobs -> Job] /\ job'[j] = g
      /\ \A i \in Jobs \ {j} : job'[i] = job[i]
  BY <1>5, <1>6 DEF IInv, TypeOK
<1>8. Frame(j) /\ UnderWay(j)
  BY <1>1, <1>5, <1>7 DEF Frame, UnderWay
<1>9. ASSUME ~disturbed PROVE Phases' /\ Leaving'
  <2>1. \A i \in Jobs \ {j} : job'[i].pc \in {"idle", "done"}
    BY <1>1, <1>5, <1>7, <1>8, <1>9, GoesOn
  <2>2. seen = shown
    BY <1>1, <1>9 DEF IInv, Undisturbed, Phases
  <2>3. Phases'
    BY <1>1, <1>3, <1>5, <1>7, <2>1, <2>2 DEF Phases
  <2>4. seen.load # None =>
          /\ job[j].had <= edits[seen.load]
          /\ Within(0, seen.load, job[j].had, reading, lastWritten)
    BY <1>1, <1>9 DEF IInv, Undisturbed, Leaving
  <2>5. Leaving'
    BY <1>1, <1>2, <1>5, <1>7, <2>1, <2>4 DEF Leaving
  <2> QED
    BY <2>3, <2>5
<1> QED
  BY <1>1, <1>5, <1>7, <1>8, <1>9, OnlyJobKeeps

LEMMA LinkKeeps == ASSUME IInv, NEW j \in Jobs, Link(j) PROVE IInv'
<1>1. /\ job[j].pc = "linking"
      /\ job' = [job EXCEPT ![j].pc = "removing"]
      /\ UNCHANGED << route, seen, save, change, pending, byPerson, writes, reading,
                      lastWritten, drafts, saved >>
      /\ UNCHANGED << running, shown, doc, edits, replacing, generation, fetched,
                      rebasing, disturbed >>
  BY DEF Link, boardVars, pendingVars, writeVars, keptVars
<1>2. PICK h \in Job : h = job[j]
  BY DEF IInv, TypeOK
<1> DEFINE g == [h EXCEPT !.pc = "removing"]
<1>3. g \in Job /\ g.pc = "removing" /\ g.ids = h.ids /\ g.had = h.had
  BY <1>2 DEF Job
<1>4. job' = [job EXCEPT ![j] = g]
  BY <1>1, <1>2 DEF IInv, TypeOK
<1> HIDE DEF g
<1>5. /\ job' \in [Jobs -> Job] /\ job'[j] = g
      /\ \A i \in Jobs \ {j} : job'[i] = job[i]
  BY <1>3, <1>4 DEF IInv, TypeOK
<1>6. Frame(j) /\ UnderWay(j)
  BY <1>1, <1>3, <1>5 DEF Frame, UnderWay
<1>7. ASSUME ~disturbed PROVE Phases' /\ Leaving'
  <2>1. \A i \in Jobs \ {j} : job'[i].pc \in {"idle", "done"}
    BY <1>1, <1>3, <1>5, <1>6, <1>7, GoesOn
  <2>2. seen = shown /\ shown.ids = h.ids
    BY <1>1, <1>2, <1>7 DEF IInv, Undisturbed, Phases
  <2>3. Phases'
    BY <1>1, <1>3, <1>5, <2>1, <2>2 DEF Phases
  <2>4. seen.load # None =>
          /\ job[j].had <= edits[seen.load]
          /\ Within(0, seen.load, job[j].had, reading, lastWritten)
    BY <1>1, <1>7 DEF IInv, Undisturbed, Leaving
  <2>5. Leaving'
    BY <1>1, <1>2, <1>3, <1>5, <2>1, <2>4 DEF Leaving
  <2> QED
    BY <2>3, <2>5
<1> QED
  BY <1>1, <1>3, <1>5, <1>6, <1>7, OnlyJobKeeps

LEMMA RemoveKeeps == ASSUME IInv, NEW j \in Jobs, Remove(j) PROVE IInv'
<1>1. PICK i \in job[j].ids :
        /\ job[j].pc = "removing"
        /\ job' = [job EXCEPT
                     ![j].pc = "awaiting", ![j].it = i, ![j].ids = @ \ {i},
                     ![j].target = IF i \in seen.ids THEN << seen.load, i >> ELSE None]
        /\ UNCHANGED << route, seen, save, change, pending, byPerson, writes, reading,
                        lastWritten, drafts, saved >>
        /\ UNCHANGED << running, shown, doc, edits, replacing, generation, fetched,
                        rebasing, disturbed >>
  BY DEF Remove, boardVars, pendingVars, writeVars, keptVars
<1>2. PICK h \in Job : h = job[j]
  BY DEF IInv, TypeOK
<1>3. PICK t \in (Loads \X Ids) \cup {None} :
        /\ t = IF i \in seen.ids THEN << seen.load, i >> ELSE None
        /\ t # None => t = << seen.load, i >>
  <2>1. seen.ids # {} => seen.load \in Loads /\ seen.ids \subseteq Ids
    BY DEF IInv, TypeOK, State, Documented
  <2> QED
    BY <2>1
<1>4. h.ids \subseteq Ids /\ i \in h.ids
  BY <1>1, <1>2 DEF Job
<1> DEFINE g == [h EXCEPT !.pc = "awaiting", !.it = i, !.ids = h.ids \ {i}, !.target = t]
<1>5. /\ g \in Job /\ g.pc = "awaiting" /\ g.ids = h.ids \ {i} /\ g.had = h.had
      /\ g.it = i /\ g.target = t
  BY <1>2, <1>3, <1>4 DEF Job
<1>6. job' = [job EXCEPT ![j] = g]
  BY <1>1, <1>2, <1>3 DEF IInv, TypeOK
<1> HIDE DEF g
<1>7. /\ job' \in [Jobs -> Job] /\ job'[j] = g
      /\ \A k \in Jobs \ {j} : job'[k] = job[k]
  BY <1>5, <1>6 DEF IInv, TypeOK
<1>8. Frame(j) /\ UnderWay(j)
  BY <1>1, <1>5, <1>7 DEF Frame, UnderWay
<1>9. ASSUME ~disturbed PROVE Phases' /\ Leaving'
  <2>1. \A k \in Jobs \ {j} : job'[k].pc \in {"idle", "done"}
    BY <1>1, <1>5, <1>7, <1>8, <1>9, GoesOn
  <2>2. seen.load = shown.load /\ shown.ids = h.ids
    BY <1>1, <1>2, <1>9 DEF IInv, Undisturbed, Phases
  <2>3. g.it \notin g.ids /\ shown.ids = g.ids \cup {g.it}
        /\ (g.target # None => g.target = << shown.load, g.it >>)
    BY <1>3, <1>4, <1>5, <2>2
  <2>4. Phases'
    BY <1>1, <1>5, <1>7, <2>1, <2>2, <2>3 DEF Phases
  <2>5. seen.load # None =>
          /\ job[j].had <= edits[seen.load]
          /\ Within(0, seen.load, job[j].had, reading, lastWritten)
    BY <1>1, <1>9 DEF IInv, Undisturbed, Leaving
  <2>6. Leaving'
    BY <1>1, <1>2, <1>5, <1>7, <2>1, <2>5 DEF Leaving
  <2> QED
    BY <2>4, <2>6
<1> QED
  BY <1>1, <1>5, <1>7, <1>8, <1>9, OnlyJobKeeps

\* While a replacement is tearing the board down, or starting the next one, only
\* what runs and what is on the page matters.
LEMMA TornKeeps ==
  ASSUME IInv, NEW j \in Jobs, Frame(j), ~disturbed', Torn(j)',
         OneAtATime', RunsAsShown', Phases', Leaving'
  PROVE  Undisturbed'
<1>1. ~Standing'
  BY DEF Standing
<1>2. ReadWhole' /\ AskedFor' /\ Dropping'
  BY <1>1 DEF ReadWhole, AskedFor, Dropping
<1> QED
  BY <1>2 DEF Undisturbed

LEMMA RemovedKeeps == ASSUME IInv, NEW j \in Jobs, Removed(j) PROVE IInv'
<1>1. /\ job[j].pc = "awaiting" /\ job[j].target # None
      /\ running' = running \ {job[j].target}
      /\ shown' = [shown EXCEPT !.ids = @ \ {job[j].it}]
      /\ job' = [job EXCEPT ![j].pc = "removing"]
      /\ UNCHANGED << route, seen, save, change, pending, byPerson, writes, reading,
                      lastWritten, drafts, saved >>
      /\ UNCHANGED << doc, edits, replacing, generation, fetched, rebasing, disturbed >>
  BY DEF Removed, pendingVars, writeVars, keptVars
<1>2. PICK h \in Job : h = job[j]
  BY DEF IInv, TypeOK
<1> DEFINE g == [h EXCEPT !.pc = "removing"]
<1>3. g \in Job /\ g.pc = "removing" /\ g.ids = h.ids /\ g.had = h.had
  BY <1>2 DEF Job
<1>4. job' = [job EXCEPT ![j] = g]
  BY <1>1, <1>2 DEF IInv, TypeOK
<1> HIDE DEF g
<1>5. /\ job' \in [Jobs -> Job] /\ job'[j] = g
      /\ \A i \in Jobs \ {j} : job'[i] = job[i]
  BY <1>3, <1>4 DEF IInv, TypeOK
<1>6. Frame(j) /\ UnderWay(j)
  BY <1>1, <1>3, <1>5 DEF Frame, UnderWay
<1>7. PICK s \in State : s = shown
  BY DEF IInv, TypeOK
<1>8. /\ shown' \in State /\ shown'.load = s.load /\ shown'.shell = s.shell
      /\ shown'.ids = s.ids \ {h.it}
  BY <1>1, <1>2, <1>7 DEF State
<1>9. TypeOK'
  BY <1>1, <1>5, <1>8 DEF IInv, TypeOK
<1>10. Counting' /\ NewLoads' /\ Awaiting'
       /\ (~disturbed => OneAtATime' /\ \A i \in Jobs \ {j} : job[i].pc \in {"idle", "done"})
  BY <1>1, <1>3, <1>5, <1>6, <1>7, <1>8, GoesOn, FrameKeeps
<1>11. ChangesInTime'
  BY <1>1, <1>7, <1>8 DEF IInv, ChangesInTime
<1>12. Documented'
  BY <1>1, <1>7, <1>8 DEF IInv, Documented, NoMoreEdits, LoadOf
<1>13. ASSUME ~disturbed PROVE Undisturbed'
  <2>1. /\ \A i \in Jobs \ {j} : job[i].pc \in {"idle", "done"}
        /\ \A i \in Jobs \ {j} : job'[i].pc \in {"idle", "done"}
    BY <1>5, <1>10, <1>13
  <2>2. /\ seen.load = s.load /\ h.it \notin h.ids /\ s.ids = h.ids \cup {h.it}
        /\ h.target = << s.load, h.it >>
    BY <1>1, <1>2, <1>7, <1>13 DEF IInv, Undisturbed, Phases
  <2>3. running = {s.load} \X s.ids /\ s.shell = s.load
    BY <1>1, <1>7, <1>13, <2>1 DEF IInv, Undisturbed, RunsAsShown, Runtimes
  <2>4. running' = {s.load} \X (s.ids \ {h.it})
    BY <1>1, <1>2, <2>2, <2>3
  <2>5. RunsAsShown'
    BY <1>8, <2>3, <2>4 DEF RunsAsShown, Runtimes
  <2>6. shown'.ids = h.ids
    BY <1>8, <2>2
  <2>7. Phases'
    BY <1>1, <1>3, <1>5, <1>8, <2>1, <2>2, <2>6 DEF Phases
  <2>8. seen.load # None =>
          /\ job[j].had <= edits[seen.load]
          /\ Within(0, seen.load, job[j].had, reading, lastWritten)
    BY <1>1, <1>13 DEF IInv, Undisturbed, Leaving
  <2>9. Leaving'
    BY <1>1, <1>2, <1>3, <1>5, <2>1, <2>8 DEF Leaving
  <2> QED
    BY <1>1, <1>3, <1>5, <1>6, <1>10, <1>13, <2>5, <2>7, <2>9, TornKeeps DEF Torn
<1> QED
  BY <1>1, <1>9, <1>10, <1>11, <1>12, <1>13 DEF IInv, Undisturbed

\* What is left once every runtime was removed: nothing runs, and the page has
\* no runtimes on it.
LEMMA TornDownIs ==
  ASSUME IInv, NEW j \in Jobs, TornDown(j), ~disturbed
  PROVE  shown.ids = {} /\ running = {}
<1>1. job[j].pc = "removing" /\ job[j].ids = {}
  BY DEF TornDown
<1>2. shown.ids = {}
  BY <1>1 DEF IInv, Undisturbed, Phases
<1>3. \A i \in Jobs : job[i].pc # "restoring"
  BY <1>1 DEF IInv, Undisturbed, OneAtATime, UnderWay
<1>4. running = {shown.load} \X shown.ids
  BY <1>3 DEF IInv, Undisturbed, RunsAsShown, Runtimes
<1> QED
  BY <1>2, <1>4

LEMMA ClearKeeps == ASSUME IInv, NEW j \in Jobs, Clear(j) PROVE IInv'
<1>1. /\ TornDown(j) /\ job[j].kind # "open" /\ shown' = Emptied
      /\ \/ End(j) /\ UNCHANGED fetched
         \/ /\ job' = [job EXCEPT ![j].pc = "fetching"]
            /\ generation' = generation + 2 /\ fetched' = FALSE
            /\ UNCHANGED replacing
      /\ UNCHANGED << route, seen, save, change, pending, byPerson, writes, reading,
                      lastWritten, drafts, saved >>
      /\ UNCHANGED << running, doc, edits, rebasing, disturbed >>
  BY DEF Clear, pendingVars, writeVars, keptVars
<1>2. job[j].pc = "removing" /\ UnderWay(j)
  BY <1>1 DEF TornDown, UnderWay
<1>3. shown' \in State /\ shown'.load = None /\ shown'.ids = {} /\ shown'.shell = None
  BY <1>1 DEF Emptied, State
<1>4. Documented'
  BY <1>1, <1>3 DEF IInv, Documented, NoMoreEdits, LoadOf
<1>5. ~disturbed => running' = Runtimes(shown') /\ shown'.shell = shown'.load
  BY <1>1, <1>3, TornDownIs DEF Runtimes
<1>6. ~disturbed => RunsAsShown'
  BY <1>5 DEF RunsAsShown, Runtimes
<1>7. CASE End(j) /\ UNCHANGED fetched
  <2>1. /\ Frame(j) /\ job'[j].pc = "done" /\ replacing' \in Nat /\ Counting'
        /\ generation' \in Nat /\ ChangesInTime'
        /\ ~disturbed => OneAtATime' /\ Phases' /\ Leaving' /\ Standing'
    BY <1>1, <1>2, <1>7, EndMoves
  <2>2. NewLoads' /\ Awaiting'
    BY <1>2, <1>3, <2>1, FrameKeeps
  <2>3. TypeOK'
    BY <1>1, <1>3, <1>7, <2>1 DEF IInv, TypeOK, Frame
  <2>4. ~disturbed => ReadWhole' /\ AskedFor' /\ Dropping'
    BY <1>1, <1>3 DEF ReadWhole, OfShown, AskedFor, Dropping
  <2> QED
    BY <1>1, <1>4, <1>6, <2>1, <2>2, <2>3, <2>4 DEF IInv, Undisturbed
<1>8. CASE /\ job' = [job EXCEPT ![j].pc = "fetching"]
           /\ generation' = generation + 2 /\ fetched' = FALSE
           /\ UNCHANGED replacing
  <2>1. PICK h \in Job : h = job[j]
    BY DEF IInv, TypeOK
  <2> DEFINE g == [h EXCEPT !.pc = "fetching"]
  <2>2. g \in Job /\ g.pc = "fetching"
    BY <2>1 DEF Job
  <2>3. job' = [job EXCEPT ![j] = g]
    BY <1>8, <2>1 DEF IInv, TypeOK
  <2> HIDE DEF g
  <2>4. /\ job' \in [Jobs -> Job] /\ job'[j] = g
        /\ \A i \in Jobs \ {j} : job'[i] = job[i]
    BY <2>2, <2>3 DEF IInv, TypeOK
  <2>5. Frame(j)
    BY <1>1, <2>2, <2>4 DEF Frame
  <2>6. Counting' /\ NewLoads' /\ Awaiting'
        /\ (~disturbed => OneAtATime' /\ \A i \in Jobs \ {j} : job[i].pc \in {"idle", "done"})
    BY <1>2, <1>3, <1>8, <2>2, <2>4, <2>5, GoesOn, FrameKeeps
  <2>7. ChangesInTime' /\ generation' \in Nat
    BY <1>1, <1>8, GenerationMoves
  <2>8. TypeOK'
    BY <1>1, <1>3, <1>8, <2>4, <2>7 DEF IInv, TypeOK
  <2>9. ASSUME ~disturbed PROVE Undisturbed'
    <3>1. \A i \in Jobs \ {j} : job'[i].pc \in {"idle", "done"}
      BY <2>4, <2>6, <2>9
    <3>2. Phases'
      BY <1>1, <2>2, <2>4, <3>1 DEF Phases, Emptied
    <3>3. Leaving'
      BY <2>2, <2>4, <3>1 DEF Leaving
    <3> QED
      BY <1>1, <1>6, <2>2, <2>4, <2>5, <2>6, <2>9, <3>2, <3>3, TornKeeps DEF Torn
  <2> QED
    BY <1>1, <1>4, <2>6, <2>7, <2>8, <2>9 DEF IInv, Undisturbed
<1> QED
  BY <1>1, <1>7, <1>8

\* The board to restore has the address of this moment.
LEMMA ToRestoreIs ==
  ASSUME IInv, NEW j \in Jobs,
         NEW d, d = IF job[j].kind = "visit" THEN Fetched ELSE Plain(route)
  PROVE  /\ d \in Document /\ d.edits \in 0..MaxEdits
         /\ [d EXCEPT !.of = route] \in Document /\ [d EXCEPT !.of = route].of # None
<1>1. route \in Addresses /\ route # None /\ None \in Loads \cup {None}
  BY LoadAssumption DEF IInv, TypeOK
<1>2. 0 \in 0..MaxEdits
  BY LoadAssumption
<1>3. Plain(route) \in Document
  BY <1>1, <1>2 DEF Plain, Document
<1>4. PICK s \in SUBSET Ids : s = seen.ids
  BY DEF IInv, TypeOK, State
<1>5. [Plain(route) EXCEPT !.ids = s] \in Document
  BY <1>3, <1>4 DEF Document
<1>6. drafts[route] \in Document \cup {None} /\ saved[route] \in Document
  BY <1>1 DEF IInv, TypeOK
<1>7. Fetched \in Document
  BY <1>4, <1>5, <1>6 DEF Fetched
<1>8. d \in Document
  BY <1>3, <1>7
<1> QED
  BY <1>1, <1>8 DEF Document

LEMMA RestoreKeeps == ASSUME IInv, NEW j \in Jobs, Restore(j) PROVE IInv'
<1>1. PICK d : d = IF job[j].kind = "visit" THEN Fetched ELSE Plain(route)
  OBVIOUS
<1>2. PICK w \in Document : w = [d EXCEPT !.of = route] /\ w.of # None
  BY <1>1, ToRestoreIs
<1>3. /\ job[j].pc = "fetching" \/ TornDown(j)
      /\ doc' = [doc EXCEPT ![j] = w] /\ edits' = [edits EXCEPT ![j] = d.edits]
      /\ fetched' = (fetched \/ job[j].kind = "visit")
      /\ shown' = [shown EXCEPT !.shell = j]
      /\ job' = [job EXCEPT ![j].pc = "restoring"]
      /\ UNCHANGED << route, seen, save, change, pending, byPerson, writes, reading,
                      lastWritten, drafts, saved >>
      /\ UNCHANGED << running, replacing, generation, rebasing, disturbed >>
  BY <1>1, <1>2 DEF Restore, pendingVars, writeVars, keptVars
<1>4. PICK h \in Job : h = job[j]
  BY DEF IInv, TypeOK
<1> DEFINE g == [h EXCEPT !.pc = "restoring"]
<1>5. g \in Job /\ g.pc = "restoring"
  BY <1>4 DEF Job
<1>6. job' = [job EXCEPT ![j] = g]
  BY <1>3, <1>4 DEF IInv, TypeOK
<1> HIDE DEF g
<1>7. /\ job' \in [Jobs -> Job] /\ job'[j] = g
      /\ \A i \in Jobs \ {j} : job'[i] = job[i]
  BY <1>5, <1>6 DEF IInv, TypeOK
<1>8. Frame(j) /\ UnderWay(j) /\ job[j].pc # "done"
  BY <1>3, <1>5, <1>7 DEF Frame, UnderWay, TornDown
<1>9. PICK s \in State : s = shown
  BY DEF IInv, TypeOK
<1>10. j \in Loads /\ j # None
  BY LoadAssumption DEF Loads
<1>11. /\ shown' \in State /\ shown'.load = s.load /\ shown'.ids = s.ids
       /\ shown'.shell = j
  BY <1>3, <1>9, <1>10 DEF State
<1>12. /\ doc' \in [Loads -> Document] /\ edits' \in [Loads -> 0..MaxEdits]
       /\ \A l \in Loads \ {j} : doc'[l] = doc[l] /\ edits'[l] = edits[l]
       /\ doc'[j] = w
  BY <1>1, <1>3, <1>10, ToRestoreIs DEF IInv, TypeOK
<1>13. TypeOK'
  <2>1. fetched' \in BOOLEAN
    BY <1>3 DEF IInv, TypeOK
  <2> QED
    BY <1>3, <1>7, <1>11, <1>12, <2>1 DEF IInv, TypeOK
<1>14. Counting' /\ NewLoads' /\ Awaiting' /\ replacing # 0
       /\ (~disturbed => OneAtATime' /\ \A i \in Jobs \ {j} : job[i].pc \in {"idle", "done"})
  BY <1>3, <1>5, <1>7, <1>8, <1>9, <1>11, GoesOn, FrameKeeps
<1>15. ChangesInTime'
  BY <1>3, <1>14 DEF IInv, ChangesInTime
<1>16. Documented'
  <2>1. /\ LoadOf(reading) # j /\ LoadOf(lastWritten) # j
        /\ \A v \in Saves : LoadOf(save[v].what) # j
    BY <1>8 DEF IInv, NewLoads
  <2>2. \A c \in Document \cup {None} : LoadOf(c) # j /\ NoMoreEdits(c) => NoMoreEdits(c)'
    BY <1>12, DocumentsAre DEF NoMoreEdits, LoadOf
  <2>3. /\ reading \in Document \cup {None} /\ lastWritten \in Document \cup {None}
        /\ \A v \in Saves : save[v].what \in Document \cup {None}
    BY DEF IInv, TypeOK, Save
  <2>4. /\ NoMoreEdits(reading)' /\ NoMoreEdits(lastWritten)'
        /\ \A v \in Saves : NoMoreEdits(save[v].what)'
    BY <1>3, <2>1, <2>2, <2>3 DEF IInv, Documented, NoMoreEdits, LoadOf
  <2>5. \A l \in Loads : doc'[l].of # None
    BY <1>2, <1>12 DEF IInv, Documented
  <2> QED
    BY <1>3, <1>9, <1>11, <2>4, <2>5 DEF IInv, Documented, LoadOf
<1>17. ASSUME ~disturbed PROVE Undisturbed'
  <2>1. \A i \in Jobs \ {j} : job'[i].pc \in {"idle", "done"}
    BY <1>7, <1>14, <1>17
  <2>2. shown.ids = {} /\ running = {}
    <3>1. CASE TornDown(j)
      BY <1>17, <3>1, TornDownIs
    <3>2. CASE job[j].pc = "fetching"
      <4>1. shown = Emptied
        BY <1>17, <3>2 DEF IInv, Undisturbed, Phases
      <4>2. \A i \in Jobs : job[i].pc # "restoring"
        BY <1>14, <1>17, <3>2
      <4>3. running = {shown.load} \X shown.ids
        BY <1>17, <4>2 DEF IInv, Undisturbed, RunsAsShown, Runtimes
      <4> QED
        BY <4>1, <4>3 DEF Emptied
    <3> QED
      BY <1>3, <3>1, <3>2
  <2>3. RunsAsShown'
    BY <1>5, <1>7 DEF RunsAsShown
  <2>4. Phases'
    BY <1>3, <1>5, <1>7, <1>9, <1>11, <2>1, <2>2 DEF Phases
  <2>5. Leaving'
    BY <1>5, <1>7, <2>1 DEF Leaving
  <2> QED
    BY <1>3, <1>5, <1>7, <1>8, <1>14, <1>17, <2>3, <2>4, <2>5, TornKeeps DEF Torn
<1> QED
  BY <1>3, <1>13, <1>14, <1>15, <1>16, <1>17 DEF IInv, Undisturbed

\* The runtimes a replacement starts are of its own load.
LEMMA FreshIs ==
  ASSUME IInv, NEW j \in Jobs
  PROVE  Fresh(j) \subseteq Loads \X Ids /\ j \in Loads /\ doc[j].ids \subseteq Ids
<1>1. j \in Loads
  BY DEF Loads
<1>2. doc[j].ids \subseteq Ids
  BY <1>1 DEF IInv, TypeOK, Document
<1> QED
  BY <1>1, <1>2 DEF Fresh

LEMMA StartRuntimeKeeps == ASSUME IInv, NEW j \in Jobs, StartRuntime(j) PROVE IInv'
<1>1. PICK r \in Fresh(j) :
        /\ job[j].pc = "restoring" /\ running' = running \cup {r}
        /\ UNCHANGED << route, seen, save, change, pending, byPerson, writes, reading,
                        lastWritten, drafts, saved >>
        /\ UNCHANGED << shown, doc, edits, job, replacing, generation, fetched,
                        rebasing, disturbed >>
  BY DEF StartRuntime, jobVars, pendingVars, writeVars, keptVars
<1>2. TypeOK'
  BY <1>1, FreshIs DEF IInv, TypeOK
<1>3. Frame(j) /\ UnderWay(j)
  BY <1>1 DEF Frame, UnderWay, IInv, TypeOK
<1>4. Counting' /\ NewLoads' /\ Awaiting'
      /\ (~disturbed => OneAtATime' /\ \A i \in Jobs \ {j} : job[i].pc \in {"idle", "done"})
  BY <1>1, <1>3, GoesOn, FrameKeeps
<1>5. ChangesInTime'
  BY <1>1 DEF IInv, ChangesInTime
<1>6. Documented'
  BY <1>1 DEF IInv, Documented, NoMoreEdits, LoadOf
<1>7. ASSUME ~disturbed PROVE Undisturbed'
  <2>1. RunsAsShown'
    BY <1>1 DEF RunsAsShown
  <2>2. Phases'
    <3>1. shown.ids = {} /\ shown.shell = j /\ running' \subseteq Fresh(j)
      BY <1>1, <1>7 DEF IInv, Undisturbed, Phases
    <3> QED
      BY <1>1, <1>4, <1>7, <3>1 DEF Phases, Fresh
  <2>3. Leaving'
    BY <1>1, <1>7 DEF IInv, Undisturbed, Leaving
  <2> QED
    BY <1>1, <1>3, <1>4, <1>7, <2>1, <2>2, <2>3, TornKeeps DEF Torn
<1> QED
  BY <1>1, <1>2, <1>4, <1>5, <1>6, <1>7 DEF IInv, Undisturbed

LEMMA RestoredKeeps == ASSUME IInv, NEW j \in Jobs, Restored(j) PROVE IInv'
<1>1. /\ job[j].pc = "restoring" /\ Fresh(j) \subseteq running
      /\ shown' = [shown EXCEPT !.load = j, !.ids = doc[j].ids]
      /\ rebasing' = TRUE /\ End(j)
      /\ UNCHANGED << route, seen, save, change, pending, byPerson, writes, reading,
                      lastWritten, drafts, saved >>
      /\ UNCHANGED << running, doc, edits, fetched, disturbed >>
  BY DEF Restored, writeVars, keptVars
<1>2. UnderWay(j) /\ job[j].pc # "done"
  BY <1>1 DEF UnderWay
<1>3. /\ Frame(j) /\ job'[j].pc = "done" /\ replacing' \in Nat /\ Counting'
      /\ generation' \in Nat /\ ChangesInTime'
      /\ ~disturbed => /\ \A i \in Jobs : job'[i].pc \in {"idle", "done"}
                       /\ OneAtATime' /\ Phases' /\ Leaving' /\ Standing'
  BY <1>1, <1>2, EndMoves
<1>4. PICK s \in State : s = shown
  BY DEF IInv, TypeOK
<1>5. j \in Loads /\ j # None /\ doc[j].ids \subseteq Ids
  BY FreshIs, LoadAssumption
<1>6. /\ shown' \in State /\ shown'.load = j /\ shown'.ids = doc[j].ids
      /\ shown'.shell = s.shell
  BY <1>1, <1>4, <1>5 DEF State
<1>7. NewLoads' /\ Awaiting'
  BY <1>2, <1>3, <1>6, FrameKeeps
<1>8. TypeOK'
  BY <1>1, <1>3, <1>6 DEF IInv, TypeOK, Frame
<1>9. Documented'
  BY <1>1, <1>5, <1>6 DEF IInv, Documented, NoMoreEdits, LoadOf
<1>10. ASSUME ~disturbed PROVE RunsAsShown' /\ ReadWhole' /\ AskedFor' /\ Dropping'
  <2>1. /\ seen.load # j /\ LoadOf(reading) # j /\ LoadOf(lastWritten) # j
        /\ \A v \in Saves : LoadOf(save[v].what) # j
    BY <1>2 DEF IInv, NewLoads
  <2>2. s.shell = j /\ running \subseteq Fresh(j)
    BY <1>1, <1>4, <1>10 DEF IInv, Undisturbed, Phases
  <2>3. RunsAsShown'
    BY <1>1, <1>6, <2>2 DEF RunsAsShown, Runtimes, Fresh
  <2>4. ReadWhole'
    BY <1>1, <1>6, <2>1 DEF ReadWhole, OfShown, LoadOf
  <2>5. AskedFor'
    BY <1>1, <1>6, <2>1 DEF AskedFor
  <2>6. Dropping'
    BY <1>1, <1>6, <2>1 DEF Dropping, LoadOf
  <2> QED
    BY <2>3, <2>4, <2>5, <2>6
<1> QED
  BY <1>1, <1>3, <1>7, <1>8, <1>9, <1>10 DEF IInv, Undisturbed

\* A replacement that ends early leaves the page as it is.
LEMMA EndsEarly ==
  ASSUME IInv, NEW j \in Jobs, UnderWay(j), End(j), rebasing' \in BOOLEAN,
         LeavesHalf(j), disturbed' \/ job[j].pc \in {"linking", "fetching"},
         UNCHANGED << route, seen, save, change, pending, byPerson, writes, reading,
                      lastWritten, drafts, saved >>,
         UNCHANGED << running, shown, doc, edits, fetched >>
  PROVE  IInv'
<1>1. /\ Frame(j) /\ job'[j].pc = "done" /\ replacing' \in Nat /\ Counting'
      /\ generation' \in Nat /\ ChangesInTime'
      /\ ~disturbed => /\ \A i \in Jobs : job'[i].pc \in {"idle", "done"}
                       /\ OneAtATime' /\ Phases' /\ Leaving' /\ Standing'
  BY EndMoves
<1>2. NewLoads' /\ Awaiting'
  BY <1>1, FrameKeeps
<1>3. disturbed' \in BOOLEAN /\ (disturbed => disturbed')
  BY DEF LeavesHalf, IInv, TypeOK
<1>4. TypeOK'
  BY <1>1, <1>3 DEF IInv, TypeOK, Frame
<1>5. Documented'
  BY DEF IInv, Documented, NoMoreEdits, LoadOf
<1>6. ASSUME ~disturbed' PROVE RunsAsShown' /\ ReadWhole' /\ AskedFor' /\ Dropping'
  <2>1. ~disturbed /\ job[j].pc \in {"linking", "fetching"}
    BY <1>3, <1>6
  <2>2. \A i \in Jobs \ {j} : job[i].pc \in {"idle", "done"}
    BY <1>1, <2>1 DEF Frame
  <2>3. running = Runtimes(shown) /\ shown.shell = shown.load
    BY <2>1, <2>2 DEF IInv, Undisturbed, RunsAsShown
  <2>4. RunsAsShown'
    BY <2>3 DEF RunsAsShown, Runtimes
  <2>5. CASE job[j].pc = "linking"
    <3>1. Standing
      BY <2>2, <2>5 DEF Standing, Torn
    <3>2. ReadWhole'
      BY <2>1, <3>1 DEF IInv, Undisturbed, ReadWhole, OfShown, LoadOf
    <3>3. AskedFor'
      BY <2>1, <3>1 DEF IInv, Undisturbed, AskedFor
    <3>4. Dropping'
      BY <2>1, <3>1 DEF IInv, Undisturbed, Dropping, LoadOf
    <3> QED
      BY <2>4, <3>2, <3>3, <3>4
  <2>6. CASE job[j].pc = "fetching"
    <3>1. shown.load = None
      BY <2>1, <2>6 DEF IInv, Undisturbed, Phases, Emptied
    <3> QED
      BY <2>4, <3>1 DEF ReadWhole, OfShown, AskedFor, Dropping
  <2> QED
    BY <2>1, <2>5, <2>6
<1> QED
  BY <1>1, <1>2, <1>3, <1>4, <1>5, <1>6 DEF IInv, Undisturbed

LEMMA RefusedKeeps == ASSUME IInv, NEW j \in Jobs, Refused(j) PROVE IInv'
<1>1. /\ job[j].pc \in {"linking", "fetching", "restoring"}
      /\ rebasing' = TRUE /\ End(j) /\ LeavesHalf(j)
      /\ UNCHANGED << route, seen, save, change, pending, byPerson, writes, reading,
                      lastWritten, drafts, saved >>
      /\ UNCHANGED << running, shown, doc, edits, fetched >>
  BY DEF Refused, boardVars, writeVars, keptVars
<1>2. UnderWay(j) /\ (disturbed' \/ job[j].pc \in {"linking", "fetching"})
  BY <1>1 DEF UnderWay, LeavesHalf
<1> QED
  BY <1>1, <1>2, EndsEarly

LEMMA RejectedKeeps == ASSUME IInv, NEW j \in Jobs, Rejected(j) PROVE IInv'
<1>1. /\ job[j].pc \in {"awaiting", "restoring"}
      /\ rebasing' = rebasing /\ End(j) /\ LeavesHalf(j)
      /\ UNCHANGED << route, seen, save, change, pending, byPerson, writes, reading,
                      lastWritten, drafts, saved >>
      /\ UNCHANGED << running, shown, doc, edits, fetched >>
  BY DEF Rejected, boardVars, pendingVars, writeVars, keptVars
<1>2. UnderWay(j) /\ disturbed' /\ rebasing' \in BOOLEAN
  BY <1>1 DEF UnderWay, LeavesHalf, IInv, TypeOK
<1> QED
  BY <1>1, <1>2, EndsEarly

LEMMA ReplaceKeeps == ASSUME IInv, NEW j \in Jobs, Replace(j) PROVE IInv'
BY EndFlushKeeps, LinkKeeps, RemoveKeeps, RemovedKeeps, ClearKeeps, RestoreKeeps,
   StartRuntimeKeeps, RestoredKeeps, RefusedKeeps, RejectedKeeps DEF Replace

-----------------------------------------------------------------------------
(* The invariant, and what follows from it.                                *)

LEMMA InitHolds == Init => IInv
<1> SUFFICES ASSUME Init PROVE IInv
  OBVIOUS
<1>1. /\ route = Home
      /\ shown = [load |-> First, ids |-> Ids, shell |-> First] /\ seen = shown
      /\ running = Runtimes(shown)
      /\ doc = [l \in Loads |-> Plain(Home)] /\ edits = [l \in Loads |-> 0]
      /\ job = [j \in Jobs |-> IdleJob] /\ save = [v \in Saves |-> IdleSave]
      /\ replacing = 0 /\ generation = 0 /\ fetched = TRUE
      /\ change = [c \in Changes |-> IdleChange]
      /\ pending = TRUE /\ byPerson = FALSE /\ rebasing = TRUE
      /\ writes = << >> /\ reading = None /\ lastWritten = None
      /\ drafts = [a \in Addresses |-> None]
      /\ saved = [a \in Addresses |-> Plain(a)]
      /\ disturbed = FALSE
  BY DEF Init
<1>2. First \in Loads /\ First \notin Jobs /\ First # None /\ Home \in Addresses
      /\ None \notin Addresses /\ None \notin Jobs
  BY LoadAssumption DEF Loads
<1>3. 0 \in 0..MaxEdits
  BY LoadAssumption
<1>4. \A a \in Addresses : Plain(a) \in Document /\ Plain(a).of = a
  BY <1>3 DEF Plain, Document
<1>5. IdleSave \in Save /\ IdleSave.pc = "idle" /\ IdleSave.what = None /\ IdleSave.names = {}
  BY DEF IdleSave, Save
<1>6. /\ IdleChange \in [pc : {"idle", "sent", "made", "dropped"},
                         load : Loads \cup {None}, generation : Nat]
      /\ IdleChange.pc = "idle"
  BY DEF IdleChange
<1>7. \A j \in Jobs : job[j] \in Job /\ job[j].pc = "idle"
  BY <1>1, IdleIs
<1>8. shown \in State /\ shown.load = First /\ shown.ids = Ids /\ shown.shell = First
  BY <1>1, <1>2 DEF State
<1>9. TypeOK
  <2>1. running \subseteq Loads \X Ids
    BY <1>1, <1>2, <1>8 DEF Runtimes
  <2>2. job \in [Jobs -> Job] /\ save \in [Saves -> Save]
    BY <1>1, <1>5, IdleIs
  <2>3. doc \in [Loads -> Document] /\ edits \in [Loads -> 0..MaxEdits]
        /\ saved \in [Addresses -> Document]
    BY <1>1, <1>2, <1>3, <1>4
  <2>4. change \in [Changes -> [pc : {"idle", "sent", "made", "dropped"},
                               load : Loads \cup {None}, generation : Nat]]
    BY <1>1, <1>6
  <2>5. /\ writes \in Seq(BOOLEAN) /\ reading \in Document \cup {None}
        /\ lastWritten \in Document \cup {None}
        /\ drafts \in [Addresses -> Document \cup {None}]
    BY <1>1
  <2>6. /\ replacing \in Nat /\ generation \in Nat /\ fetched \in BOOLEAN
        /\ pending \in BOOLEAN /\ byPerson \in BOOLEAN /\ rebasing \in BOOLEAN
        /\ disturbed \in BOOLEAN
    BY <1>1
  <2> QED
    BY <1>1, <1>2, <1>8, <2>1, <2>2, <2>3, <2>4, <2>5, <2>6 DEF TypeOK
<1>10. Counting
  <2>1. {j \in Jobs : UnderWay(j)} = {}
    BY <1>7 DEF UnderWay
  <2> QED
    BY <1>1, <2>1, FS_EmptySet DEF Counting
<1>11. ChangesInTime
  BY <1>1, <1>6 DEF ChangesInTime
<1>12. NewLoads
  BY <1>1, <1>2, <1>5, <1>8 DEF NewLoads, LoadOf
<1>13. Documented
  BY <1>1, <1>2, <1>4, <1>5, <1>8 DEF Documented, NoMoreEdits, LoadOf
<1>14. Awaiting
  BY <1>1, <1>5, <1>7 DEF Awaiting
<1>15. Undisturbed
  <2>1. OneAtATime /\ Phases
    BY <1>7 DEF OneAtATime, Phases, UnderWay
  <2>2. RunsAsShown
    BY <1>1, <1>8 DEF RunsAsShown
  <2>3. ReadWhole
    BY <1>1, <1>2, <1>5, <1>8 DEF ReadWhole, OfShown, LoadOf
  <2>4. AskedFor
    BY <1>1 DEF AskedFor
  <2>5. Leaving
    BY <1>7 DEF Leaving
  <2>6. Dropping
    BY <1>1, <1>5 DEF Dropping
  <2> QED
    BY <2>1, <2>2, <2>3, <2>4, <2>5, <2>6 DEF Undisturbed
<1> QED
  BY <1>9, <1>10, <1>11, <1>12, <1>13, <1>14, <1>15 DEF IInv

LEMMA StutterKeeps == ASSUME IInv, UNCHANGED vars PROVE IInv'
<1>1. /\ UNCHANGED << route, running, shown, doc, seen, edits, job, replacing, generation,
                      fetched, save, change, pending, byPerson, rebasing >>
      /\ UNCHANGED << writes, reading, lastWritten, drafts, saved, disturbed >>
  BY DEF vars, boardVars, jobVars, pendingVars, writeVars, keptVars
<1>2. ChangesInTime'
  BY <1>1 DEF IInv, ChangesInTime
<1> QED
  BY <1>1, <1>2, ChangeMoves DEF IInv, TypeOK

LEMMA NextKeeps == ASSUME IInv, [Next]_vars PROVE IInv'
<1>1. ASSUME NEW j \in Jobs, Navigate(j) \/ Open(j) \/ Replace(j) PROVE IInv'
  BY <1>1, NavigateKeeps, OpenKeeps, ReplaceKeeps
<1>2. ASSUME NEW v \in Saves, BeginSave(v) \/ Keep(v) PROVE IInv'
  BY <1>2, BeginSaveKeeps, StoreKeeps, SaveFailsKeeps, DropDraftsKeeps DEF Keep
<1>3. ASSUME NEW c \in Changes, BeginChange(c) \/ EndChange(c) PROVE IInv'
  BY <1>3, BeginChangeKeeps, EndChangeKeeps
<1>4. CASE Write
  BY <1>4, ReadBoardKeeps, WriteSnapshotKeeps, WriteFailsKeeps DEF Write
<1>5. CASE UNCHANGED vars
  BY <1>5, StutterKeeps
<1> QED
  BY <1>1, <1>2, <1>3, <1>4, <1>5, EditKeeps, RenderKeeps, TimerFiresKeeps DEF Next

\* The invariant holds in every state that the program can reach, with any
\* boards, replacements, saves and changes, however replacements overlap or fail.
THEOREM Inductive == Spec => []IInv
<1>1. IInv /\ [Next]_vars => IInv'
  BY NextKeeps
<1> QED
  BY InitHolds, <1>1, PTL DEF Spec

\* Every part of the state of the board, its replacements and its drafts has its
\* type.
THEOREM TypeCorrect == Spec => []TypeOK
<1>1. IInv => TypeOK
  BY DEF IInv
<1> QED
  BY <1>1, Inductive, PTL

LEMMA NoneUnderWay ==
  ASSUME IInv, replacing = 0 PROVE Standing /\ \A j \in Jobs : ~UnderWay(j)
<1>1. {j \in Jobs : UnderWay(j)} = {}
  BY FS_EmptySet DEF IInv, Counting
<1>2. \A j \in Jobs : ~UnderWay(j)
  BY <1>1
<1> QED
  BY <1>2 DEF Standing, Torn, UnderWay

\* Only the answer of its runtime makes a change, and only on the board that the
\* page still shows.
LEMMA ChangeIsMade ==
  ASSUME IInv, Next, NEW c \in Changes, change[c].pc = "sent", change'[c].pc = "made"
  PROVE  shown.shell = change[c].load
<1>1. change \in [Changes -> [pc : {"idle", "sent", "made", "dropped"},
                              load : Loads \cup {None}, generation : Nat]]
  BY DEF IInv, TypeOK
<1>2. change' # change
  BY DEF IInv
<1>3. ASSUME NEW d \in Changes, BeginChange(d) PROVE FALSE
  <2>1. change[d].pc = "idle" /\ \A e \in Changes \ {d} : change'[e] = change[e]
    BY <1>1, <1>3 DEF BeginChange
  <2> QED
    BY <2>1
<1>4. PICK d \in Changes : EndChange(d)
  <2>1. ASSUME NEW j \in Jobs, Navigate(j) \/ Open(j) \/ Replace(j) PROVE UNCHANGED change
    <3>1. CASE Navigate(j) \/ Open(j)
      BY <3>1 DEF Navigate, Open, Begin
    <3>2. CASE Replace(j)
      BY <3>2 DEF Replace, EndFlush, Link, Remove, Removed, Clear, Restore, StartRuntime,
                  Restored, Refused, Rejected
    <3> QED
      BY <2>1, <3>1, <3>2
  <2>2. ASSUME NEW v \in Saves, BeginSave(v) \/ Keep(v) PROVE UNCHANGED change
    BY <2>2 DEF Keep, BeginSave, Store, SaveFails, DropDrafts
  <2>3. Edit \/ Render \/ TimerFires \/ Write => UNCHANGED change
    BY DEF Edit, Render, TimerFires, Write, ReadBoard, WriteSnapshot, WriteFails, Written
  <2> QED
    BY <1>2, <1>3, <2>1, <2>2, <2>3 DEF Next
<1>5. PICK pc \in {"made", "dropped"} :
        /\ change' = [change EXCEPT ![d] = [IdleChange EXCEPT !.pc = pc]]
        /\ pc = "made" => StillOn(d)
  BY <1>4 DEF EndChange
<1>6. c = d /\ pc = "made"
  <2> DEFINE r == [IdleChange EXCEPT !.pc = pc]
  <2>1. r.pc = pc
    BY DEF IdleChange
  <2> HIDE DEF r
  <2>2. change' = [change EXCEPT ![d] = r]
    BY <1>5 DEF r
  <2>3. change'[d].pc = pc /\ \A e \in Changes \ {d} : change'[e] = change[e]
    BY <1>1, <2>1, <2>2
  <2> QED
    BY <2>3
<1>7. replacing = 0 /\ generation = change[c].generation
  BY <1>5, <1>6 DEF StillOn
<1> QED
  BY <1>7 DEF IInv, ChangesInTime

\* A change of assets or of block parameters is made to the board it was started
\* on, or not at all, whatever is replaced meanwhile (stillOnThisBoard).
THEOREM ChangesStay == Spec => ChangesStayOnTheirBoard
<1>1. IInv /\ [Next]_vars =>
        [\A c \in Changes : change[c].pc = "sent" /\ change'[c].pc = "made"
           => shown.shell = change[c].load]_vars
  BY ChangeIsMade
<1> QED
  BY <1>1, Inductive, PTL DEF Spec, ChangesStayOnTheirBoard

\* Outside the replacements, what runs is what the page shows.
THEOREM NothingRunsOn == Spec => []NothingKeepsRunning
<1>1. ASSUME IInv, replacing = 0, ~disturbed PROVE running = Runtimes(shown)
  BY <1>1, NoneUnderWay DEF IInv, Undisturbed, RunsAsShown, UnderWay
<1>2. IInv => NothingKeepsRunning
  BY <1>1 DEF NothingKeepsRunning
<1> QED
  BY <1>2, Inductive, PTL

\* And the facade, the linkage and the assets are of the board that runs.
THEOREM OneLoad == Spec => []BoardIsOfOneLoad
<1>1. ASSUME IInv, replacing = 0, ~disturbed PROVE shown.shell = shown.load
  BY <1>1, NoneUnderWay DEF IInv, Undisturbed, RunsAsShown, UnderWay
<1>2. IInv => BoardIsOfOneLoad
  BY <1>1 DEF BoardIsOfOneLoad
<1> QED
  BY <1>2, Inductive, PTL

\* A board is read, with every edit there was when its replacement began, before
\* the first of its runtimes is removed.
THEOREM ReadFirst == Spec => []ReadBeforeTornDown
<1>1. ASSUME IInv, ~disturbed, NEW j \in Jobs,
             job[j].pc \in {"removing", "awaiting"}, seen.load # None
      PROVE  /\ lastWritten # None /\ lastWritten.load = seen.load
             /\ lastWritten.edits >= job[j].had
  BY <1>1 DEF IInv, Undisturbed, Leaving, Within, Covers
<1>2. IInv => ReadBeforeTornDown
  BY <1>1 DEF ReadBeforeTornDown
<1> QED
  BY <1>2, Inductive, PTL

\* An edit of the board on the page is in the last snapshot, or a snapshot that
\* will have it is asked for or queued.
THEOREM EditsAsked == Spec => []EditsAreAskedFor
<1>1. ASSUME IInv, replacing = 0, ~disturbed, seen = shown, seen.load # None,
             ~pending, writes = << >>
      PROVE  /\ lastWritten # None /\ lastWritten.load = seen.load
             /\ lastWritten.edits = edits[seen.load]
  <2>1. TypeOK /\ Len(writes) = 0
    BY <1>1 DEF IInv
  <2>2. /\ lastWritten # None /\ lastWritten.load = seen.load
        /\ lastWritten.edits >= edits[seen.load]
    BY <1>1, <2>1, NoneUnderWay DEF IInv, Undisturbed, AskedFor, Within, Covers
  <2>3. lastWritten \in Document /\ lastWritten.edits \in Int /\ edits[seen.load] \in Int
    BY <1>1, <2>1, <2>2, DocumentsAre, EditsAre DEF TypeOK
  <2>4. lastWritten.edits <= edits[seen.load]
    BY <1>1, <2>2, <2>3 DEF IInv, Documented, NoMoreEdits, LoadOf
  <2> QED
    BY <2>2, <2>3, <2>4
<1>2. IInv => EditsAreAskedFor
  BY <1>1 DEF EditsAreAskedFor
<1> QED
  BY <1>2, Inductive, PTL

\* After a save, a draft of the board it saved has an edit that was made later.
THEOREM DraftsLater == Spec => []DraftsAreOfLaterEdits
<1>1. ASSUME IInv, NEW v \in Saves, NEW a \in save[v].names,
             save[v].pc = "done", drafts[a] # None,
             save[v].what.load = drafts[a].load, seen.load = drafts[a].load,
             seen = shown, replacing = 0, ~disturbed
      PROVE  drafts[a].edits > save[v].what.edits
  <2>1. LoadOf(save[v].what) # None
    BY <1>1 DEF IInv, Documented
  <2>2. LoadOf(save[v].what) = shown.load /\ LoadOf(drafts[a]) = shown.load
    BY <1>1, <2>1 DEF LoadOf
  <2> QED
    BY <1>1, <2>1, <2>2, NoneUnderWay DEF IInv, Undisturbed, Dropping
<1>2. IInv => DraftsAreOfLaterEdits
  BY <1>1 DEF DraftsAreOfLaterEdits
<1> QED
  BY <1>2, Inductive, PTL

=============================================================================
