--------------------- MODULE CoordinatorBridgeViewProofs ---------------------
(***************************************************************************)
(* Proofs about what CoordinatorBridge shows, for every number of boards,  *)
(* attachments and changes and every length of what is on the wire: that   *)
(* the page shows states its board really had, never an older one after a  *)
(* newer, and the latest one once nothing is on its way.                   *)
(***************************************************************************)
EXTENDS CoordinatorBridgeProofs, WellFoundedInduction

-----------------------------------------------------------------------------
(* The inductive invariant, beside the one of CoordinatorBridgeProofs.     *)

\* The types the others rest on, and the bound on the changes.
Typed ==
  /\ retry \in SUBSET Attachments
  /\ refused \in Refusals \cup {None}
  /\ store \in StoreStates
  /\ hydrated \in Boards \cup {None}
  /\ hydratedFor \in Boards \cup {None}
  /\ job \in [Attachments -> {"none", "asked", "restoring"}]
  /\ runs \in SUBSET Runs
  /\ changes \in [Boards -> Seq(Runtimes)]
  /\ \A b \in Boards : Len(changes[b]) <= MaxChanges
  /\ seq \in [Attachments -> Versions]
  /\ missed \in SUBSET Attachments
  /\ down \in [Attachments -> Seq(Down)]

\* The page has asked to be told everything again.
AsksAgain(e) == \E i \in 1..Len(up[e]) : up[e][i].type = "resync"

\* The mounted attachment is made for the board that is open.  Only its socket
\* is open, and only over an open one was the page told what it shows.
OfView ==
  /\ effect # None => view # None /\ board[effect] = view
  /\ \A e \in Attachments :
       /\ Open(e) => e \notin closed
       /\ session[e] # None => socket[e] \in {"open", "closing"}
       /\ socket[e] \in {"ticket", "connecting"} => down[e] = << >> /\ ~AsksAgain(e)
  /\ store # Empty =>
       /\ effect # None /\ Open(effect) /\ session[effect] # None
       /\ store.board = view

IsSnapshot(m) == m.type = "snapshot"
IsTold(m) == m.type \in {"snapshot", "serviceState"}

\* In queue d, no snapshot is behind message i, up to message j.
SameCount(d, i, j) == \A k \in (i + 1)..j : ~IsSnapshot(d[k])

\* Messages tell of ever more of the changes there were.  Changes and numbers
\* go up together, but for a snapshot, which may start the numbers over.
Growing(d, had) ==
  \A i \in 1..Len(d) : IsTold(d[i]) =>
    /\ d[i].of <= had
    /\ ~IsSnapshot(d[i]) => d[i].of >= 1
    /\ \A j \in (i + 1)..Len(d) : IsTold(d[j]) =>
         /\ d[i].of <= d[j].of
         /\ SameCount(d, i, j) => d[i].of + d[j].seq = d[j].of + d[i].seq

\* The number of the last change is n.
Ends(d, n, had) ==
  \A i \in 1..Len(d) :
    IsTold(d[i]) /\ SameCount(d, i, Len(d)) => d[i].of + n = had + d[i].seq

\* The messages go on from v changes, the last of which had number q.
From(d, v, q) ==
  \A j \in 1..Len(d) : IsTold(d[j]) =>
    /\ v <= d[j].of
    /\ SameCount(d, 0, j) => v + d[j].seq = d[j].of + q

EndsFrom(d, v, q, n, had) == SameCount(d, 0, Len(d)) => v + n = had + q

\* The last message that tells of a change has number n, or none does.
LastIs(d, n) ==
  \E i \in 1..Len(d) :
    /\ IsTold(d[i]) /\ d[i].seq = n
    /\ \A j \in (i + 1)..Len(d) : ~IsTold(d[j])

NoneTold(d) == \A j \in 1..Len(d) : ~IsTold(d[j])

Had(e) == Len(changes[board[e]])

Counted(e) ==
  /\ Growing(down[e], Had(e))
  /\ session[e] # None => seq[e] <= Had(e) /\ Ends(down[e], seq[e], Had(e))

\* The page shows its board as it was after v changes, from which the messages
\* on their way go on.
ShowsAfter(e, v) ==
  /\ v <= Had(e) /\ store.runtimes = StateAt(board[e], v)
  /\ From(down[e], v, store.seq)
  /\ EndsFrom(down[e], v, store.seq, seq[e], Had(e))

Shows(e) == store # Empty => \E v \in Nat : ShowsAfter(e, v)

\* Unless an update was missed, the last the page will have been told is the
\* last there is, or it will ask for all of it.
ToldLast(e) ==
  session[e] # None /\ e \notin missed =>
    \/ LastIs(down[e], seq[e])
    \/ NoneTold(down[e]) /\ store # Empty /\ store.seq = seq[e]
    \/ NoneTold(down[e]) /\ AsksAgain(e)

\* Nothing is told, and nothing asked for again, before somebody has registered.
Unheard(e) == session[e] = None => NoneTold(down[e]) /\ ~AsksAgain(e)

VInv ==
  /\ Typed /\ OfView
  /\ \A e \in Attachments :
       Open(e) => Counted(e) /\ Shows(e) /\ ToldLast(e) /\ Unheard(e)

-----------------------------------------------------------------------------
(* Numbers, and the state of a board after some of its changes.            *)

\* A set of natural numbers has a least element, as no descent from one goes on
\* for ever, and one that is bounded has a greatest.
LEMMA LeastIs ==
  ASSUME NEW T, T \subseteq Nat, T # {}
  PROVE  \E x \in T : \A y \in T : x <= y
<1> DEFINE R == {ss \in Nat \X Nat : ss[1] < ss[2]}
<1>1. IsWellFoundedOn(R, Nat)
  BY NatLessThanWellFounded DEF OpToRel
<1> HIDE DEF R
<1>2. \E x \in T : \A y \in T : ~ (<<y, x>> \in R)
  BY <1>1, WFMin
<1>3. \A x, y \in T : ~ (<<y, x>> \in R) => x <= y
  BY DEF R
<1> QED
  BY <1>2, <1>3

LEMMA GreatestIs ==
  ASSUME NEW T, T \subseteq Nat, T # {}, NEW n \in Nat, \A x \in T : x <= n
  PROVE  \E x \in T : \A y \in T : y <= x
<1> DEFINE U == {u \in Nat : \A x \in T : x <= u}
<1>1. U \subseteq Nat /\ n \in U
  OBVIOUS
<1>2. PICK u \in U : \A w \in U : u <= w
  BY <1>1, LeastIs
<1>3. u \in Nat /\ \A x \in T : x <= u
  BY <1>2
<1>4. u \in T
  <2> SUFFICES ASSUME u \notin T PROVE FALSE
    OBVIOUS
  <2>1. PICK x \in T : TRUE
    OBVIOUS
  <2>2. \A y \in T : y < u
    BY <1>3
  <2>3. PICK w \in Nat : w + 1 = u
    BY <1>3, <2>1, <2>2
  <2>4. w \in U
    BY <2>2, <2>3
  <2> QED
    BY <1>2, <2>3, <2>4
<1> QED
  BY <1>3, <1>4

\* The latest of some changes is one of them.
LEMMA LatestIs ==
  ASSUME NEW T, T \subseteq Nat, NEW n \in Nat, \A x \in T : x <= n
  PROVE  /\ Latest(T) \in 0..n
         /\ T # {} => Latest(T) \in T /\ \A x \in T : x <= Latest(T)
<1>1. CASE T = {}
  BY <1>1 DEF Latest
<1>2. CASE T # {}
  <2>1. \E x \in T : \A y \in T : y <= x
    BY <1>2, GreatestIs
  <2>2. Latest(T) \in T /\ \A x \in T : x <= Latest(T)
    BY <1>2, <2>1 DEF Latest
  <2>3. Latest(T) \in Nat /\ Latest(T) <= n
    BY <2>2
  <2> QED
    BY <2>2, <2>3
<1> QED
  BY <1>1, <1>2

LEMMA StateIs ==
  ASSUME NEW b, NEW n \in Nat
  PROVE  StateAt(b, n) \in [Runtimes -> 0..n]
<1>1. ASSUME NEW r \in Runtimes PROVE Latest({i \in 1..n : changes[b][i] = r}) \in 0..n
  <2> DEFINE T == {i \in 1..n : changes[b][i] = r}
  <2>1. T \subseteq Nat /\ \A x \in T : x <= n
    OBVIOUS
  <2> HIDE DEF T
  <2>2. Latest(T) \in 0..n
    BY <2>1, LatestIs
  <2> QED
    BY <2>2 DEF T
<1> QED
  BY <1>1 DEF StateAt

\* One more change shows at its runtime only.
LEMMA StateAfter ==
  ASSUME NEW b, NEW n \in Nat
  PROVE  StateAt(b, n + 1) = [StateAt(b, n) EXCEPT ![changes[b][n + 1]] = n + 1]
<1> DEFINE T(k, r) == {i \in 1..k : changes[b][i] = r}
<1>1. ASSUME NEW r \in Runtimes, r # changes[b][n + 1]
      PROVE  T(n + 1, r) = T(n, r)
  <2>1. \A i \in 1..(n + 1) : i = n + 1 \/ i \in 1..n
    OBVIOUS
  <2> QED
    BY <1>1, <2>1
<1>2. Latest(T(n + 1, changes[b][n + 1])) = n + 1
  <2> DEFINE S == T(n + 1, changes[b][n + 1])
  <2>1. n + 1 \in S /\ S \subseteq Nat /\ \A i \in S : i <= n + 1
    OBVIOUS
  <2> HIDE DEF S
  <2>2. Latest(S) \in S /\ n + 1 <= Latest(S) /\ Latest(S) \in 0..(n + 1)
    BY <2>1, LatestIs
  <2>3. Latest(S) = n + 1
    BY <2>1, <2>2
  <2> QED
    BY <2>3 DEF S
<1>3. /\ StateAt(b, n) = [r \in Runtimes |-> Latest(T(n, r))]
      /\ StateAt(b, n + 1) = [r \in Runtimes |-> Latest(T(n + 1, r))]
  BY DEF StateAt
<1>4. \A r \in Runtimes : r # changes[b][n + 1] => Latest(T(n + 1, r)) = Latest(T(n, r))
  BY <1>1
<1> HIDE DEF T
<1> QED
  BY <1>2, <1>3, <1>4

-----------------------------------------------------------------------------
(* Queues of messages to the browser.                                      *)

\* What tells of changes counts them.
LEMMA ToldIs ==
  ASSUME NEW m \in Down, IsTold(m)
  PROVE  /\ m.of \in Versions /\ m.seq \in Versions /\ m.of \in Nat /\ m.seq \in Nat
         /\ m \in Told
BY BoardsAssumption DEF Down, Told, IsTold, Versions

\* Queue p is queue d with message m behind it, or with its first message taken.
Added(p, d, m) ==
  /\ p \in Seq(Down) /\ d \in Seq(Down) /\ m \in Down
  /\ Len(d) \in Nat /\ Len(p) = Len(d) + 1 /\ p[Len(d) + 1] = m
  /\ \A i \in 1..Len(d) : p[i] = d[i] /\ d[i] \in Down

TakenFrom(p, d) ==
  /\ p \in Seq(Down) /\ d \in Seq(Down) /\ Len(d) \in Nat \ {0} /\ Len(p) = Len(d) - 1
  /\ \A i \in 1..Len(p) : i + 1 \in 1..Len(d) /\ p[i] = d[i + 1] /\ p[i] \in Down
  /\ Head(d) = d[1] /\ d[1] \in Down

LEMMA AppendAdds ==
  ASSUME NEW d \in Seq(Down), NEW m \in Down PROVE Added(Append(d, m), d, m)
BY AppendIs DEF Added

LEMMA TailTakes ==
  ASSUME NEW d \in Seq(Down), d # << >> PROVE TakenFrom(Tail(d), d)
BY TailIs DEF TakenFrom

\* What is in front of a message that is added is as it was.
LEMMA AddedCount ==
  ASSUME NEW p, NEW d, NEW m, Added(p, d, m)
  PROVE  /\ \A i \in Nat : \A j \in 0..Len(d) : SameCount(p, i, j) <=> SameCount(d, i, j)
         /\ \A i \in 0..Len(d) : SameCount(p, i, Len(p)) <=>
                                   SameCount(d, i, Len(d)) /\ ~IsSnapshot(m)
         /\ SameCount(p, Len(p), Len(p))
         /\ \A i \in 1..Len(p) : i \in 1..Len(d) \/ i = Len(p)
         /\ Len(p) = Len(d) + 1 /\ Len(d) \in Nat
<1>1. Len(d) \in Nat /\ Len(p) = Len(d) + 1
  BY DEF Added
<1>2. ASSUME NEW i \in Nat, NEW j \in 0..Len(d)
      PROVE  SameCount(p, i, j) <=> SameCount(d, i, j)
  <2>1. \A k \in (i + 1)..j : p[k] = d[k]
    BY <1>1 DEF Added
  <2> QED
    BY <2>1 DEF SameCount
<1>3. ASSUME NEW i \in 0..Len(d)
      PROVE  SameCount(p, i, Len(p)) <=> SameCount(d, i, Len(d)) /\ ~IsSnapshot(m)
  <2>1. \A k \in (i + 1)..Len(d) : p[k] = d[k]
    BY <1>1 DEF Added
  <2>2. \A k \in (i + 1)..Len(p) : k \in (i + 1)..Len(d) \/ k = Len(d) + 1
    BY <1>1
  <2>3. Len(d) + 1 \in (i + 1)..Len(p) /\ (i + 1)..Len(d) \subseteq (i + 1)..Len(p)
    BY <1>1
  <2>4. p[Len(d) + 1] = m
    BY DEF Added
  <2> QED
    BY <2>1, <2>2, <2>3, <2>4 DEF SameCount
<1>4. SameCount(p, Len(p), Len(p))
  BY <1>1 DEF SameCount
<1> QED
  BY <1>1, <1>2, <1>3, <1>4

\* A message that tells of no change leaves the counts as they are.
LEMMA OtherAdded ==
  ASSUME NEW p, NEW d, NEW m, Added(p, d, m), ~IsTold(m), NEW had, NEW n
  PROVE  /\ Growing(d, had) => Growing(p, had)
         /\ Ends(d, n, had) => Ends(p, n, had)
         /\ \A v, q : From(d, v, q) => From(p, v, q)
         /\ \A v, q : EndsFrom(d, v, q, n, had) => EndsFrom(p, v, q, n, had)
         /\ LastIs(d, n) => LastIs(p, n)
         /\ NoneTold(d) => NoneTold(p)
<1>1. /\ Len(d) \in Nat /\ Len(p) = Len(d) + 1 /\ p[Len(p)] = m
      /\ \A i \in 1..Len(d) : p[i] = d[i]
      /\ \A i \in 1..Len(p) : i \in 1..Len(d) \/ i = Len(p)
      /\ ~IsSnapshot(m)
  BY AddedCount DEF Added, IsTold, IsSnapshot
<1>2. /\ \A i \in Nat : \A j \in 0..Len(d) : SameCount(p, i, j) <=> SameCount(d, i, j)
      /\ \A i \in 0..Len(d) : SameCount(p, i, Len(p)) <=> SameCount(d, i, Len(d))
  BY <1>1, AddedCount
<1>3. \A i \in 1..Len(p) : IsTold(p[i]) => i \in 1..Len(d) /\ i \in Nat /\ p[i] = d[i]
  BY <1>1
<1>4. /\ 1..Len(d) \subseteq 0..Len(d) /\ 1..Len(d) \subseteq 1..Len(p) /\ 0 \in 0..Len(d)
      /\ 0 \in Nat
      /\ \A i \in 1..Len(d) : \A j \in (i + 1)..Len(p) :
           (j \in (i + 1)..Len(d) /\ j \in 1..Len(d)) \/ j = Len(p)
  BY <1>1
<1>5. ASSUME Growing(d, had) PROVE Growing(p, had)
  <2> SUFFICES ASSUME NEW i \in 1..Len(p), IsTold(p[i])
               PROVE  /\ p[i].of <= had
                      /\ ~IsSnapshot(p[i]) => p[i].of >= 1
                      /\ \A j \in (i + 1)..Len(p) : IsTold(p[j]) =>
                           /\ p[i].of <= p[j].of
                           /\ SameCount(p, i, j) => p[i].of + p[j].seq = p[j].of + p[i].seq
    BY DEF Growing
  <2>1. i \in 1..Len(d) /\ i \in Nat /\ p[i] = d[i]
    BY <1>3
  <2>2. ASSUME NEW j \in (i + 1)..Len(p), IsTold(p[j])
        PROVE  j \in (i + 1)..Len(d) /\ p[j] = d[j] /\ (SameCount(p, i, j) <=> SameCount(d, i, j))
    BY <1>1, <1>2, <1>4, <2>1, <2>2
  <2> QED
    BY <1>5, <2>1, <2>2 DEF Growing
<1>6. Ends(d, n, had) => Ends(p, n, had)
  BY <1>2, <1>3, <1>4 DEF Ends
<1>7. ASSUME NEW v, NEW q, From(d, v, q) PROVE From(p, v, q)
  BY <1>2, <1>3, <1>4, <1>7 DEF From
<1>8. \A v, q : EndsFrom(d, v, q, n, had) => EndsFrom(p, v, q, n, had)
  BY <1>2, <1>4 DEF EndsFrom
<1>9. LastIs(d, n) => LastIs(p, n)
  BY <1>1, <1>4 DEF LastIs
<1>10. NoneTold(d) => NoneTold(p)
  BY <1>3 DEF NoneTold
<1> QED
  BY <1>5, <1>6, <1>7, <1>8, <1>9, <1>10

\* What SameCount says of a queue that got a message which tells of a change.
LEMMA ToldAdded ==
  ASSUME NEW p, NEW d, NEW m, Added(p, d, m), IsTold(m),
         NEW had \in Nat, NEW more \in Nat, had <= more, m.of = more,
         Growing(d, had), ~IsSnapshot(m) => more >= 1,
         ~IsSnapshot(m) =>
           \A i \in 1..Len(d) : IsTold(d[i]) /\ SameCount(d, i, Len(d)) =>
                                  d[i].of + m.seq = more + d[i].seq
  PROVE  /\ Growing(p, more) /\ Ends(p, m.seq, more) /\ LastIs(p, m.seq)
         /\ \A v \in Nat : \A q \in Nat :
              /\ From(d, v, q) /\ v <= more
              /\ ~IsSnapshot(m) /\ SameCount(d, 0, Len(d)) => v + m.seq = more + q
              => From(p, v, q) /\ EndsFrom(p, v, q, m.seq, more)
<1>1. /\ Len(d) \in Nat /\ Len(p) = Len(d) + 1 /\ p[Len(p)] = m
      /\ \A i \in 1..Len(d) : p[i] = d[i] /\ d[i] \in Down
      /\ \A i \in 1..Len(p) : i \in 1..Len(d) \/ i = Len(p)
      /\ m \in Down
  BY AddedCount DEF Added
<1>2. /\ \A i \in Nat : \A j \in 0..Len(d) : SameCount(p, i, j) <=> SameCount(d, i, j)
      /\ \A i \in 0..Len(d) : SameCount(p, i, Len(p)) <=>
                                SameCount(d, i, Len(d)) /\ ~IsSnapshot(m)
  BY AddedCount
<1>3. m.seq \in Nat /\ m.of \in Nat
  BY <1>1, ToldIs
<1>4. /\ 1..Len(d) \subseteq 0..Len(d) /\ 1..Len(d) \subseteq 1..Len(p) /\ 0 \in 0..Len(d)
      /\ 0 \in Nat /\ 1..Len(d) \subseteq Nat /\ Len(p) \in 1..Len(p)
      /\ \A i \in 1..Len(d) : \A j \in (i + 1)..Len(p) :
           (j \in (i + 1)..Len(d) /\ j \in 1..Len(d)) \/ j = Len(p)
      /\ \A j \in (Len(p) + 1)..Len(p) : FALSE
  BY <1>1
<1>5. \A i \in 1..Len(d) : IsTold(d[i]) =>
        /\ d[i].of \in Nat /\ d[i].seq \in Nat /\ d[i].of <= had
        /\ ~IsSnapshot(d[i]) => d[i].of >= 1
  BY <1>1, ToldIs DEF Growing
<1>6. Growing(p, more)
  <2> SUFFICES ASSUME NEW i \in 1..Len(p), IsTold(p[i])
               PROVE  /\ p[i].of <= more
                      /\ ~IsSnapshot(p[i]) => p[i].of >= 1
                      /\ \A j \in (i + 1)..Len(p) : IsTold(p[j]) =>
                           /\ p[i].of <= p[j].of
                           /\ SameCount(p, i, j) => p[i].of + p[j].seq = p[j].of + p[i].seq
    BY DEF Growing
  <2>1. CASE i = Len(p)
    BY <1>1, <1>4, <2>1
  <2>2. CASE i \in 1..Len(d)
    <3>1. p[i] = d[i] /\ IsTold(d[i]) /\ i \in Nat /\ i \in 0..Len(d)
      BY <1>1, <1>4, <2>2
    <3>2. /\ p[i].of \in Nat /\ p[i].of <= had /\ p[i].of <= more
          /\ ~IsSnapshot(p[i]) => p[i].of >= 1
      BY <1>5, <2>2, <3>1
    <3>3. ASSUME NEW j \in (i + 1)..Len(p), IsTold(p[j])
          PROVE  /\ p[i].of <= p[j].of
                 /\ SameCount(p, i, j) => p[i].of + p[j].seq = p[j].of + p[i].seq
      <4>1. CASE j = Len(p)
        BY <1>1, <1>2, <2>2, <3>1, <3>2, <4>1
      <4>2. CASE j \in (i + 1)..Len(d) /\ j \in 1..Len(d)
        <5>1. p[j] = d[j] /\ (SameCount(p, i, j) <=> SameCount(d, i, j))
          BY <1>1, <1>2, <1>4, <3>1, <4>2
        <5> QED
          BY <2>2, <3>1, <3>3, <4>2, <5>1 DEF Growing
      <4> QED
        BY <1>4, <2>2, <4>1, <4>2
    <3> QED
      BY <3>2, <3>3
  <2> QED
    BY <1>1, <2>1, <2>2
<1>7. Ends(p, m.seq, more)
  <2> SUFFICES ASSUME NEW i \in 1..Len(p), IsTold(p[i]), SameCount(p, i, Len(p))
               PROVE  p[i].of + m.seq = more + p[i].seq
    BY DEF Ends
  <2>1. CASE i = Len(p)
    BY <1>1, <2>1
  <2>2. CASE i \in 1..Len(d)
    BY <1>1, <1>2, <1>4, <2>2
  <2> QED
    BY <1>1, <2>1, <2>2
<1>8. LastIs(p, m.seq)
  BY <1>1, <1>4 DEF LastIs
<1>9. ASSUME NEW v \in Nat, NEW q \in Nat, From(d, v, q), v <= more,
             ~IsSnapshot(m) /\ SameCount(d, 0, Len(d)) => v + m.seq = more + q
      PROVE  From(p, v, q) /\ EndsFrom(p, v, q, m.seq, more)
  <2>1. SameCount(p, 0, Len(p)) => v + m.seq = more + q
    BY <1>2, <1>4, <1>9
  <2>2. ASSUME NEW j \in 1..Len(p), IsTold(p[j])
        PROVE  /\ v <= p[j].of
               /\ SameCount(p, 0, j) => v + p[j].seq = p[j].of + q
    <3>1. CASE j = Len(p)
      BY <1>1, <1>9, <2>1, <3>1
    <3>2. CASE j \in 1..Len(d)
      BY <1>1, <1>2, <1>4, <1>9, <2>2, <3>2 DEF From
    <3> QED
      BY <1>1, <3>1, <3>2
  <2> QED
    BY <2>1, <2>2 DEF From, EndsFrom
<1> QED
  BY <1>6, <1>7, <1>8, <1>9

\* A change of which the bridge is not told.
LEMMA NotTold ==
  ASSUME NEW d \in Seq(Down), NEW had \in Nat, Growing(d, had)
  PROVE  /\ Growing(d, had + 1)
         /\ \A n \in Nat : Ends(d, n, had) => Ends(d, n + 1, had + 1)
         /\ \A n, v, q \in Nat :
              EndsFrom(d, v, q, n, had) => EndsFrom(d, v, q, n + 1, had + 1)
<1>1. \A i \in 1..Len(d) : d[i] \in Down
  OBVIOUS
<1>2. \A i \in 1..Len(d) : IsTold(d[i]) => d[i].of \in Nat /\ d[i].seq \in Nat
  BY <1>1, ToldIs
<1>3. Growing(d, had + 1)
  <2>1. \A i \in 1..Len(d) : IsTold(d[i]) => d[i].of <= had + 1
    BY <1>2 DEF Growing
  <2> QED
    BY <2>1 DEF Growing
<1>4. ASSUME NEW n \in Nat, Ends(d, n, had) PROVE Ends(d, n + 1, had + 1)
  <2> SUFFICES ASSUME NEW i \in 1..Len(d), IsTold(d[i]), SameCount(d, i, Len(d))
               PROVE  d[i].of + (n + 1) = (had + 1) + d[i].seq
    BY DEF Ends
  <2>1. d[i].of + n = had + d[i].seq
    BY <1>4 DEF Ends
  <2>2. PICK x \in Nat, y \in Nat : x = d[i].of /\ y = d[i].seq
    BY <1>2
  <2>3. x + n = had + y
    BY <2>1, <2>2
  <2>4. x + (n + 1) = (had + 1) + y
    BY <2>3
  <2> QED
    BY <2>2, <2>4
<1>5. \A n, v, q \in Nat :
        EndsFrom(d, v, q, n, had) => EndsFrom(d, v, q, n + 1, had + 1)
  BY DEF EndsFrom
<1> QED
  BY <1>3, <1>4, <1>5

\* What is behind the first message is as it was, one place nearer.
LEMMA TakenCount ==
  ASSUME NEW p, NEW d, TakenFrom(p, d)
  PROVE  /\ Len(p) \in Nat /\ Len(d) = Len(p) + 1
         /\ \A i \in 1..Len(p) : i + 1 \in 1..Len(d) /\ p[i] = d[i + 1] /\ p[i] \in Down
         /\ \A i \in Nat : \A j \in 0..Len(p) :
              SameCount(p, i, j) <=> SameCount(d, i + 1, j + 1)
         /\ \A j \in 0..Len(p) :
              SameCount(d, 0, j + 1) <=> SameCount(p, 0, j) /\ ~IsSnapshot(d[1])
         /\ \A i \in 1..Len(d) : i # 1 => \E k \in 1..Len(p) : i = k + 1
<1>1. /\ Len(p) \in Nat /\ Len(d) = Len(p) + 1
      /\ \A i \in 1..Len(p) : i + 1 \in 1..Len(d) /\ p[i] = d[i + 1] /\ p[i] \in Down
  BY DEF TakenFrom
<1>2. ASSUME NEW i \in Nat, NEW j \in 0..Len(p)
      PROVE  SameCount(p, i, j) <=> SameCount(d, i + 1, j + 1)
  <2>1. ASSUME SameCount(p, i, j), NEW k \in (i + 2)..(j + 1) PROVE ~IsSnapshot(d[k])
    <3>1. k - 1 \in (i + 1)..j /\ k - 1 \in 1..Len(p) /\ (k - 1) + 1 = k
      BY <1>1
    <3> QED
      BY <1>1, <2>1, <3>1 DEF SameCount
  <2>2. ASSUME SameCount(d, i + 1, j + 1), NEW k \in (i + 1)..j PROVE ~IsSnapshot(p[k])
    <3>1. k + 1 \in (i + 2)..(j + 1) /\ k \in 1..Len(p)
      BY <1>1
    <3> QED
      BY <1>1, <2>2, <3>1 DEF SameCount
  <2>3. (i + 1) + 1 = i + 2
    OBVIOUS
  <2> QED
    BY <2>1, <2>2, <2>3 DEF SameCount
<1>3. ASSUME NEW j \in 0..Len(p)
      PROVE  SameCount(d, 0, j + 1) <=> SameCount(d, 1, j + 1) /\ ~IsSnapshot(d[1])
  <2>1. \A k \in 1..(j + 1) : k = 1 \/ k \in 2..(j + 1)
    BY <1>1
  <2>2. 1 \in 1..(j + 1) /\ 2..(j + 1) \subseteq 1..(j + 1) /\ 0 + 1 = 1 /\ 1 + 1 = 2
    BY <1>1
  <2> QED
    BY <2>1, <2>2 DEF SameCount
<1>4. \A i \in 1..Len(d) : i # 1 => \E k \in 1..Len(p) : i = k + 1
  <2>1. \A i \in 1..Len(d) : i # 1 => i - 1 \in 1..Len(p) /\ i = (i - 1) + 1
    BY <1>1
  <2> QED
    BY <2>1
<1>5. ASSUME NEW j \in 0..Len(p)
      PROVE  SameCount(d, 0, j + 1) <=> SameCount(p, 0, j) /\ ~IsSnapshot(d[1])
  <2>1. 0 \in Nat /\ 0 + 1 = 1
    OBVIOUS
  <2>2. SameCount(p, 0, j) <=> SameCount(d, 1, j + 1)
    BY <1>2, <2>1
  <2> QED
    BY <1>3, <2>2
<1> QED
  BY <1>1, <1>2, <1>4, <1>5

LEMMA AnyTaken ==
  ASSUME NEW p, NEW d, TakenFrom(p, d), NEW had, NEW n
  PROVE  /\ Growing(d, had) => Growing(p, had)
         /\ Ends(d, n, had) => Ends(p, n, had)
         /\ LastIs(d, n) => LastIs(p, n) \/ (NoneTold(p) /\ IsTold(d[1]) /\ d[1].seq = n)
         /\ NoneTold(d) => NoneTold(p) /\ ~IsTold(d[1])
<1>1. /\ Len(p) \in Nat /\ Len(d) = Len(p) + 1
      /\ \A i \in 1..Len(p) : i + 1 \in 1..Len(d) /\ p[i] = d[i + 1] /\ p[i] \in Down
      /\ \A i \in Nat : \A j \in 0..Len(p) :
           SameCount(p, i, j) <=> SameCount(d, i + 1, j + 1)
      /\ \A i \in 1..Len(d) : i # 1 => \E k \in 1..Len(p) : i = k + 1
  BY TakenCount
<1>2. 1..Len(p) \subseteq Nat /\ 1..Len(p) \subseteq 0..Len(p) /\ Len(p) \in 0..Len(p)
      /\ 1 \in 1..Len(d)
  BY <1>1
<1>3. ASSUME Growing(d, had) PROVE Growing(p, had)
  <2> SUFFICES ASSUME NEW i \in 1..Len(p), IsTold(p[i])
               PROVE  /\ p[i].of <= had
                      /\ ~IsSnapshot(p[i]) => p[i].of >= 1
                      /\ \A j \in (i + 1)..Len(p) : IsTold(p[j]) =>
                           /\ p[i].of <= p[j].of
                           /\ SameCount(p, i, j) => p[i].of + p[j].seq = p[j].of + p[i].seq
    BY DEF Growing
  <2>1. p[i] = d[i + 1] /\ i + 1 \in 1..Len(d) /\ IsTold(d[i + 1])
    BY <1>1
  <2>2. ASSUME NEW j \in (i + 1)..Len(p), IsTold(p[j])
        PROVE  /\ p[i].of <= p[j].of
               /\ SameCount(p, i, j) => p[i].of + p[j].seq = p[j].of + p[i].seq
    <3>1. /\ j \in 1..Len(p) /\ j \in 0..Len(p) /\ p[j] = d[j + 1]
          /\ j + 1 \in ((i + 1) + 1)..Len(d)
          /\ SameCount(p, i, j) <=> SameCount(d, i + 1, j + 1)
      BY <1>1, <1>2
    <3>2. IsTold(d[j + 1])
      BY <2>2, <3>1
    <3> QED
      BY <1>3, <2>1, <3>1, <3>2 DEF Growing
  <2> QED
    BY <1>3, <2>1, <2>2 DEF Growing
<1>4. ASSUME Ends(d, n, had) PROVE Ends(p, n, had)
  BY <1>1, <1>2, <1>4 DEF Ends
<1>5. ASSUME LastIs(d, n)
      PROVE  LastIs(p, n) \/ (NoneTold(p) /\ IsTold(d[1]) /\ d[1].seq = n)
  <2>1. PICK i \in 1..Len(d) : /\ IsTold(d[i]) /\ d[i].seq = n
                               /\ \A j \in (i + 1)..Len(d) : ~IsTold(d[j])
    BY <1>5 DEF LastIs
  <2>2. CASE i = 1
    <3>1. \A j \in 1..Len(p) : j + 1 \in (i + 1)..Len(d) /\ p[j] = d[j + 1]
      BY <1>1, <2>2
    <3> QED
      BY <2>1, <2>2, <3>1 DEF NoneTold
  <2>3. CASE i # 1
    <3>1. PICK k \in 1..Len(p) : i = k + 1
      BY <1>1, <2>3
    <3>2. \A j \in (k + 1)..Len(p) : j + 1 \in (i + 1)..Len(d) /\ p[j] = d[j + 1]
      BY <1>1, <3>1
    <3> QED
      BY <1>1, <2>1, <3>1, <3>2 DEF LastIs
  <2> QED
    BY <2>2, <2>3
<1>6. NoneTold(d) => NoneTold(p) /\ ~IsTold(d[1])
  BY <1>1, <1>2 DEF NoneTold
<1> QED
  BY <1>3, <1>4, <1>5, <1>6

\* The messages go on from the first of them that tells of a change.
LEMMA ToldTaken ==
  ASSUME NEW p, NEW d, TakenFrom(p, d), IsTold(d[1]), NEW had \in Nat, Growing(d, had)
  PROVE  /\ From(p, d[1].of, d[1].seq) /\ d[1].of \in Nat /\ d[1].seq \in Nat
         /\ d[1].of <= had /\ (~IsSnapshot(d[1]) => d[1].of >= 1)
         /\ \A n \in Nat : Ends(d, n, had) => EndsFrom(p, d[1].of, d[1].seq, n, had)
         /\ \A v, q \in Nat : From(d, v, q) =>
              /\ v <= d[1].of
              /\ ~IsSnapshot(d[1]) => v + d[1].seq = d[1].of + q
<1>1. /\ Len(p) \in Nat /\ Len(d) = Len(p) + 1
      /\ \A i \in 1..Len(p) : i + 1 \in 1..Len(d) /\ p[i] = d[i + 1] /\ p[i] \in Down
      /\ \A i \in Nat : \A j \in 0..Len(p) :
           SameCount(p, i, j) <=> SameCount(d, i + 1, j + 1)
      /\ \A j \in 0..Len(p) :
           SameCount(d, 0, j + 1) <=> SameCount(p, 0, j) /\ ~IsSnapshot(d[1])
  BY TakenCount
<1>2. /\ 1..Len(p) \subseteq 0..Len(p) /\ Len(p) \in 0..Len(p) /\ 0 \in 0..Len(p)
      /\ 1 \in 1..Len(d) /\ 0 \in Nat /\ 0 + 1 = 1 /\ d[1] \in Down
  BY <1>1 DEF TakenFrom
<1>3. d[1].of \in Nat /\ d[1].seq \in Nat
  BY <1>2, ToldIs
<1>4. From(p, d[1].of, d[1].seq)
  <2> SUFFICES ASSUME NEW j \in 1..Len(p), IsTold(p[j])
               PROVE  /\ d[1].of <= p[j].of
                      /\ SameCount(p, 0, j) => d[1].of + p[j].seq = p[j].of + d[1].seq
    BY DEF From
  <2>1. /\ p[j] = d[j + 1] /\ j + 1 \in (1 + 1)..Len(d) /\ IsTold(d[j + 1])
        /\ SameCount(p, 0, j) <=> SameCount(d, 1, j + 1)
    BY <1>1, <1>2
  <2> QED
    BY <1>2, <2>1 DEF Growing
<1>5. d[1].of <= had /\ (~IsSnapshot(d[1]) => d[1].of >= 1)
  BY <1>2 DEF Growing
<1>6. ASSUME NEW n \in Nat, Ends(d, n, had) PROVE EndsFrom(p, d[1].of, d[1].seq, n, had)
  <2>1. SameCount(p, 0, Len(p)) <=> SameCount(d, 1, Len(d))
    BY <1>1, <1>2
  <2> QED
    BY <1>2, <1>6, <2>1 DEF Ends, EndsFrom
<1>7. ASSUME NEW v \in Nat, NEW q \in Nat, From(d, v, q)
      PROVE  v <= d[1].of /\ (~IsSnapshot(d[1]) => v + d[1].seq = d[1].of + q)
  <2>1. SameCount(p, 0, 0)
    BY DEF SameCount
  <2>2. ~IsSnapshot(d[1]) => SameCount(d, 0, 1)
    BY <1>1, <1>2, <2>1
  <2> QED
    BY <1>2, <1>7, <2>2 DEF From
<1> QED
  BY <1>3, <1>4, <1>5, <1>6, <1>7

\* They go on from where they did, when the first was no snapshot.
LEMMA OthersTaken ==
  ASSUME NEW p, NEW d, TakenFrom(p, d), ~IsSnapshot(d[1]), NEW v, NEW q, NEW n, NEW had
  PROVE  /\ From(d, v, q) => From(p, v, q)
         /\ EndsFrom(d, v, q, n, had) => EndsFrom(p, v, q, n, had)
<1>1. /\ Len(p) \in Nat /\ Len(d) = Len(p) + 1
      /\ \A i \in 1..Len(p) : i + 1 \in 1..Len(d) /\ p[i] = d[i + 1] /\ p[i] \in Down
      /\ \A j \in 0..Len(p) : SameCount(d, 0, j + 1) <=> SameCount(p, 0, j)
  BY TakenCount
<1>2. 1..Len(p) \subseteq 0..Len(p) /\ Len(p) \in 0..Len(p)
  BY <1>1
<1> QED
  BY <1>1, <1>2 DEF From, EndsFrom

-----------------------------------------------------------------------------
(* The parts of the invariant a step may leave alone.                      *)

Channel(e) == Counted(e) /\ Shows(e) /\ ToldLast(e) /\ Unheard(e)
Known == IInv /\ MadeForBoards /\ VInv

\* Only the mounted attachment is open, and only for the board that is.
LEMMA OneIsOpen ==
  ASSUME Known, NEW e \in Attachments, Open(e)
  PROVE  /\ e = effect /\ e \notin closed /\ board[e] = view /\ view \in Boards
         /\ \A d \in Attachments : Open(d) => d = e
<1>1. \A d \in Attachments : Open(d) => d \notin closed /\ d = effect
  BY DEF Known, IInv, Mounted, VInv, OfView
<1>2. e # None /\ None \notin Boards
  BY BoardsAssumption
<1> QED
  BY <1>1, <1>2 DEF Known, VInv, OfView, MadeForBoards

LEMMA OfViewKeeps ==
  ASSUME OfView, UNCHANGED <<view, effect, board, closed, socket, session, store>>,
         \A e \in Attachments : socket[e] \in {"ticket", "connecting"} =>
           down'[e] = down[e] /\ (AsksAgain(e)' <=> AsksAgain(e))
  PROVE  OfView'
BY DEF OfView, Open

LEMMA ChannelKeeps ==
  ASSUME NEW e \in Attachments, Channel(e), down'[e] = down[e], seq'[e] = seq[e],
         board'[e] = board[e], changes'[board[e]] = changes[board[e]], store' = store,
         session'[e] = None <=> session[e] = None, e \in missed' <=> e \in missed,
         AsksAgain(e)' <=> AsksAgain(e)
  PROVE  Channel(e)'
<1>1. Counted(e)'
  BY DEF Channel, Counted, Had
<1>2. \A v : StateAt(board[e], v)' = StateAt(board[e], v)
  BY DEF StateAt
<1>3. Shows(e)'
  BY <1>2 DEF Channel, Shows, ShowsAfter, Had
<1>4. ToldLast(e)' /\ Unheard(e)'
  BY DEF Channel, ToldLast, Unheard
<1> QED
  BY <1>1, <1>3, <1>4 DEF Channel

\* Messages that ask for something else, or are heard, change nothing about it.
UpKeeps(e) ==
  \/ up'[e] = up[e]
  \/ \E m \in Up : up'[e] = Append(up[e], m) /\ m.type # "resync"
  \/ up[e] # << >> /\ up'[e] = Tail(up[e]) /\ Head(up[e]).type # "resync"

LEMMA AsksKeeps ==
  ASSUME NEW e \in Attachments, up[e] \in Seq(Up), UpKeeps(e)
  PROVE  AsksAgain(e)' <=> AsksAgain(e)
<1>1. CASE up'[e] = up[e]
  BY <1>1 DEF AsksAgain
<1>2. ASSUME NEW m \in Up, up'[e] = Append(up[e], m), m.type # "resync"
      PROVE  AsksAgain(e)' <=> AsksAgain(e)
  <2>1. /\ Len(up[e]) \in Nat /\ Len(up'[e]) = Len(up[e]) + 1
        /\ \A i \in 1..Len(up[e]) : up'[e][i] = up[e][i]
        /\ up'[e][Len(up[e]) + 1] = m
    BY <1>2, AppendIs
  <2>2. /\ \A i \in 1..Len(up'[e]) : i \in 1..Len(up[e]) \/ i = Len(up[e]) + 1
        /\ 1..Len(up[e]) \subseteq 1..Len(up'[e])
    BY <2>1
  <2> QED
    BY <1>2, <2>1, <2>2 DEF AsksAgain
<1>3. CASE up[e] # << >> /\ up'[e] = Tail(up[e]) /\ Head(up[e]).type # "resync"
  <2>1. /\ \A i \in 1..Len(up'[e]) : i + 1 \in 1..Len(up[e]) /\ up'[e][i] = up[e][i + 1]
        /\ up[e][1].type # "resync"
    BY <1>3, TailIs
  <2>2. \A i \in 1..Len(up[e]) :
          i # 1 => i - 1 \in 1..Len(up'[e]) /\ up'[e][i - 1] = up[e][i]
    BY <1>3, TailIs
  <2> QED
    BY <2>1, <2>2 DEF AsksAgain
<1> QED
  BY <1>1, <1>2, <1>3 DEF UpKeeps

\* What a step leaves alone when nothing is said and nothing is shown by it.
Aside ==
  UNCHANGED <<view, effect, board, closed, store, changes, session, seq, missed, down>>

LEMMA AsideKeeps ==
  ASSUME Known, Aside, Typed', socket' = socket,
         \A e \in Attachments : UpKeeps(e)
  PROVE  VInv'
<1>1. \A e \in Attachments : AsksAgain(e)' <=> AsksAgain(e)
  BY AsksKeeps DEF Known, IInv, Types
<1>2. OfView'
  BY <1>1, OfViewKeeps DEF Known, VInv, Aside
<1>3. ASSUME NEW e \in Attachments, Open(e)' PROVE Channel(e)'
  <2>1. Open(e) /\ Channel(e)
    BY <1>3 DEF Open, Known, VInv, Channel
  <2> QED
    BY <1>1, <2>1, ChannelKeeps DEF Aside
<1> QED
  BY <1>2, <1>3 DEF VInv, Channel

-----------------------------------------------------------------------------
(* What is said to the coordinator, and what the board context does.       *)

LEMMA AskShows ==
  ASSUME Known, NEW r \in Requests, Ask(r) PROVE VInv'
<1>1. Aside /\ socket' = socket
  BY DEF Ask, Aside, bridgeVars, contextVars, hydrationVars, sessionVars
<1>2. Typed'
  BY DEF Ask, Known, VInv, Typed, bridgeVars, contextVars, hydrationVars, sessionVars
<1>3. ASSUME NEW e \in Attachments
      PROVE  UpKeeps(e)
  <2> DEFINE m == [type |-> "request", request |-> r]
  <2>1. m \in Up /\ m.type # "resync"
    BY DEF Up
  <2>2. up' = up \/ up' = [up EXCEPT ![wsRef] = Append(@, m)]
    BY DEF Ask
  <2> HIDE DEF m
  <2> QED
    BY <2>1, <2>2 DEF UpKeeps, Known, IInv, Types
<1> QED
  BY <1>1, <1>2, <1>3, AsideKeeps

LEMMA ResolveShows ==
  ASSUME Known, NEW run, Resolve(run) PROVE VInv'
<1>1. Aside /\ socket' = socket
  BY DEF Resolve, Aside, bridgeVars, contextVars, hydrationVars, sessionVars
<1>2. Typed'
  BY DEF Resolve, Known, VInv, Typed, bridgeVars, contextVars, hydrationVars,
     sessionVars
<1>3. ASSUME NEW e \in Attachments
      PROVE  UpKeeps(e)
  <2> DEFINE m == [type |-> "result"]
  <2>1. m \in Up /\ m.type # "resync"
    BY DEF Up
  <2>2. up' = up \/ up' = [up EXCEPT ![run.asked] = Append(@, m)]
    BY DEF Resolve
  <2> HIDE DEF m
  <2> QED
    BY <2>1, <2>2 DEF UpKeeps, Known, IInv, Types
<1> QED
  BY <1>1, <1>2, <1>3, AsideKeeps

\* The registration a replaced board context sends.
LEMMA RegisterSends ==
  ASSUME Known, Register, ctx \in Boards \cup {None}, ctx' \in Boards \cup {None},
         NEW e \in Attachments
  PROVE  UpKeeps(e)
<1>1. Connect(ctx') \in Up /\ Connect(ctx').type # "resync"
  BY IdsAre DEF Connect
<1>2. up' = up \/ up' = [up EXCEPT ![wsRef] = Append(@, Connect(ctx'))]
  BY DEF Register
<1> QED
  BY <1>1, <1>2 DEF UpKeeps, Known, IInv, Types

LEMMA ReplaceShows ==
  ASSUME Known, NEW e \in Attachments, Replace(e) PROVE VInv'
<1>1. board[e] \in Boards \cup {None} /\ ctx \in Boards \cup {None}
  BY DEF Known, MadeForBoards, IInv, Types
<1>2. Aside /\ socket' = socket
  BY DEF Replace, LinkFails, RemoveRuntimes, RestoreBoard, Aside, bridgeVars, sessionVars
<1>3. Typed'
  <2>1. hydratedFor' \in Boards \cup {None}
    BY <1>1 DEF Replace, LinkFails, RemoveRuntimes, RestoreBoard, Hydrated, Known,
       VInv, Typed
  <2>2. job' \in [Attachments -> {"none", "asked", "restoring"}]
    BY DEF Replace, LinkFails, RemoveRuntimes, RestoreBoard, Known, VInv, Typed
  <2>3. UNCHANGED <<retry, refused, hydrated, runs>>
    BY DEF Replace, LinkFails, RemoveRuntimes, RestoreBoard, bridgeVars
  <2> QED
    BY <1>2, <2>1, <2>2, <2>3 DEF Known, VInv, Typed, Aside
<1>4. ASSUME NEW d \in Attachments PROVE UpKeeps(d)
  <2>1. CASE LinkFails(e)
    BY <2>1 DEF LinkFails, UpKeeps
  <2>2. CASE RemoveRuntimes(e) \/ RestoreBoard(e)
    BY <1>1, <2>2, RegisterSends DEF RemoveRuntimes, RestoreBoard
  <2> QED
    BY <2>1, <2>2 DEF Replace
<1> QED
  BY <1>2, <1>3, <1>4, AsideKeeps

LEMMA ResultShows ==
  ASSUME Known, NEW e \in Attachments, HearResult(e) PROVE VInv'
<1>1. Aside /\ socket' = socket
  BY DEF HearResult, Aside, bridgeVars, contextVars, hydrationVars, sessionVars
<1>2. Typed'
  BY DEF HearResult, Known, VInv, Typed, bridgeVars, contextVars, hydrationVars,
     sessionVars
<1>3. /\ up[e] # << >> /\ Head(up[e]).type = "result"
      /\ up' = [up EXCEPT ![e] = Tail(@)]
  BY DEF HearResult, Heard
<1>4. \A d \in Attachments : UpKeeps(d)
  BY <1>3 DEF UpKeeps, Known, IInv, Types
<1> QED
  BY <1>1, <1>2, <1>4, AsideKeeps

LEMMA StutterShows ==
  ASSUME Known, UNCHANGED vars PROVE VInv'
<1>1. Aside /\ socket' = socket /\ up' = up
  BY DEF vars, Aside, bridgeVars, contextVars, hydrationVars, sessionVars
<1>2. Typed'
  BY DEF vars, Known, VInv, Typed, bridgeVars, contextVars, hydrationVars,
     sessionVars
<1> QED
  BY <1>1, <1>2, AsideKeeps DEF UpKeeps

-----------------------------------------------------------------------------
(* Attachments come and go.                                                *)

\* Where an attachment is torn down and perhaps another mounted, nothing is open
\* and nothing is shown.
LEMMA MountShows ==
  ASSUME Known, NEW b \in Boards, NEW e \in Attachments, Remount(b, e), view' = b,
         changes' = changes, retry' \in SUBSET Attachments,
         UNCHANGED <<hydrationVars, runs>>
  PROVE  VInv'
<1> USE BoardsAssumption
<1>1. /\ effect' = e /\ store' = Empty
      /\ board' = [board EXCEPT ![e] = b]
      /\ session' = [session EXCEPT ![e] = None]
      /\ down' = [down EXCEPT ![e] = << >>]
      /\ up' = [up EXCEPT ![e] = << >>]
      /\ seq' = [seq EXCEPT ![e] = 0]
      /\ missed' = missed \ {e} /\ refused' = None
      /\ hydrated' \in {None, hydrated}
      /\ socket' = [d \in Attachments |->
                      IF d = e THEN "ticket"
                      ELSE IF d = effect THEN Shut(d) ELSE socket[d]]
  BY DEF Remount, Cleanup, Clear
<1>2. \A d \in Attachments : d # e =>
        socket'[d] = IF d = effect /\ Open(d) THEN "closing" ELSE socket[d]
  BY <1>1 DEF Shut
<1>3. socket'[e] = "ticket"
  BY <1>1
<1>4. \A d \in Attachments : ~Open(d)'
  <2> SUFFICES ASSUME NEW d \in Attachments, socket'[d] = "open" PROVE FALSE
    BY DEF Open
  <2>1. d # e /\ Open(d)
    BY <1>2, <1>3 DEF Open
  <2> QED
    BY <1>2, <2>1, OneIsOpen
<1>5. Typed'
  <2>1. << >> \in Seq(Down) /\ 0 \in Versions
    BY DEF Versions
  <2>2. /\ down' \in [Attachments -> Seq(Down)] /\ seq' \in [Attachments -> Versions]
        /\ hydrated' \in Boards \cup {None} /\ missed' \in SUBSET Attachments
        /\ store' \in StoreStates
    BY <1>1, <2>1 DEF Known, VInv, Typed, StoreStates
  <2> QED
    BY <1>1, <2>2 DEF Known, VInv, Typed, hydrationVars
<1>6. OfView'
  <2>1. effect' # None => view' # None /\ board'[effect'] = view'
    BY <1>1 DEF Known, MadeForBoards
  <2>2. ASSUME NEW d \in Attachments
        PROVE  /\ session'[d] # None => socket'[d] \in {"open", "closing"}
               /\ socket'[d] \in {"ticket", "connecting"} =>
                    down'[d] = << >> /\ ~AsksAgain(d)'
    <3>1. CASE d = e
      <4>1. session'[d] = None /\ down'[d] = << >> /\ up'[d] = << >>
        BY <1>1, <3>1 DEF Known, IInv, Types, VInv, Typed
      <4>2. ~AsksAgain(d)'
        BY <4>1 DEF AsksAgain
      <4> QED
        BY <4>1, <4>2
    <3>2. CASE d # e
      <4>1. session'[d] = session[d] /\ down'[d] = down[d] /\ up'[d] = up[d]
        BY <1>1, <3>2 DEF Known, IInv, Types, VInv, Typed
      <4>2. AsksAgain(d)' <=> AsksAgain(d)
        BY <4>1 DEF AsksAgain
      <4> QED
        BY <1>2, <3>2, <4>1, <4>2 DEF Known, VInv, OfView, Open
    <3> QED
      BY <3>1, <3>2
  <2> QED
    BY <1>1, <1>4, <2>1, <2>2 DEF OfView
<1> QED
  BY <1>4, <1>5, <1>6 DEF VInv

LEMMA UnmountShows ==
  ASSUME Known, Unmount, view' = None, UNCHANGED <<changes, retry, hydrationVars, runs>>
  PROVE  VInv'
<1> USE BoardsAssumption
<1>1. /\ effect' = None /\ store' = Empty
      /\ UNCHANGED <<board, session, down, up, seq, missed, refused>>
      /\ hydrated' \in {None, hydrated}
      /\ socket' = [d \in Attachments |-> IF d = effect THEN Shut(d) ELSE socket[d]]
  BY DEF Unmount, Cleanup, Clear, sessionVars
<1>2. \A d \in Attachments :
        socket'[d] = IF d = effect /\ Open(d) THEN "closing" ELSE socket[d]
  BY <1>1 DEF Shut
<1>3. \A d \in Attachments : ~Open(d)'
  <2> SUFFICES ASSUME NEW d \in Attachments, socket'[d] = "open" PROVE FALSE
    BY DEF Open
  <2>1. Open(d)
    BY <1>2 DEF Open
  <2> QED
    BY <1>2, <2>1, OneIsOpen
<1>4. Typed'
  BY <1>1 DEF Known, VInv, Typed, hydrationVars, StoreStates
<1>5. \A d \in Attachments : AsksAgain(d)' <=> AsksAgain(d)
  BY <1>1 DEF AsksAgain
<1>6. OfView'
  BY <1>1, <1>2, <1>3, <1>5 DEF Known, VInv, OfView, Open
<1> QED
  BY <1>3, <1>4, <1>6 DEF VInv

LEMMA OpenBoardShows ==
  ASSUME Known, NEW b \in Boards \cup {None}, OpenBoard(b) PROVE VInv'
<1>1. view' = b /\ UNCHANGED <<changes, retry, hydrationVars, runs>>
  BY DEF OpenBoard
<1>2. retry' \in SUBSET Attachments
  BY <1>1 DEF Known, VInv, Typed
<1> QED
  BY <1>1, <1>2, MountShows, UnmountShows DEF OpenBoard

LEMMA RefreshTokenShows ==
  ASSUME Known, RefreshToken PROVE VInv'
<1>1. /\ view' = view /\ view \in Boards
      /\ UNCHANGED <<changes, retry, hydrationVars, runs>>
  BY DEF RefreshToken, Known, MadeForBoards
<1>2. retry' \in SUBSET Attachments
  BY <1>1 DEF Known, VInv, Typed
<1> QED
  BY <1>1, <1>2, MountShows DEF RefreshToken

LEMMA ReconnectShows ==
  ASSUME Known, NEW e \in Attachments, Reconnect(e) PROVE VInv'
<1>1. /\ view' = view /\ UNCHANGED <<changes, hydrationVars, runs>>
      /\ retry' \in SUBSET Attachments
  BY DEF Reconnect, Known, VInv, Typed
<1>2. CASE e \in closed
  <2>1. Aside /\ socket' = socket /\ up' = up /\ UNCHANGED <<refused, hydrated>>
    BY <1>1, <1>2 DEF Reconnect, Aside, sessionVars
  <2>2. Typed'
    BY <1>1, <2>1 DEF Aside, Known, VInv, Typed, hydrationVars
  <2> QED
    BY <2>1, <2>2, AsideKeeps DEF UpKeeps
<1>3. CASE e \notin closed
  <2>1. view \in Boards
    <3>1. e = effect /\ e # None
      BY <1>3, BoardsAssumption DEF Known, IInv, Mounted
    <3> QED
      BY <3>1 DEF Known, VInv, OfView, MadeForBoards
  <2> QED
    BY <1>1, <1>3, <2>1, MountShows DEF Reconnect
<1> QED
  BY <1>2, <1>3

-----------------------------------------------------------------------------
(* Sockets open and close.                                                 *)

LEMMA TicketShows ==
  ASSUME Known, NEW e \in Attachments, TicketComes(e) PROVE VInv'
<1>1. Aside /\ UNCHANGED <<retry, refused, contextVars, runs, up>>
  BY DEF TicketComes, Aside, sessionVars
<1>2. /\ socket[e] = "ticket" /\ socket'[e] \in {"connecting", "closed"}
      /\ \A d \in Attachments : d # e => socket'[d] = socket[d]
  BY DEF TicketComes, Known, IInv, Types
<1>3. \A d \in Attachments : Open(d)' <=> Open(d)
  BY <1>2 DEF Open
<1>4. Typed'
  BY <1>1 DEF Aside, Known, VInv, Typed, contextVars, hydrationVars
<1>5. OfView'
  <2>1. \A d \in Attachments :
          /\ session[d] # None => socket'[d] \in {"open", "closing"}
          /\ socket'[d] \in {"ticket", "connecting"} => down[d] = << >> /\ ~AsksAgain(d)
    BY <1>2 DEF Known, VInv, OfView
  <2>2. effect \in Attachments \cup {None}
    BY DEF Known, IInv, Types
  <2>3. \A d \in Attachments : AsksAgain(d)' <=> AsksAgain(d)
    BY <1>1 DEF AsksAgain
  <2> QED
    BY <1>1, <1>3, <2>1, <2>2, <2>3 DEF Aside, Known, VInv, OfView, MadeForBoards
<1>6. ASSUME NEW d \in Attachments, Open(d)' PROVE Channel(d)'
  <2>1. Channel(d)
    BY <1>3, <1>6 DEF Known, VInv, Channel
  <2>2. AsksAgain(d)' <=> AsksAgain(d)
    BY <1>1 DEF AsksAgain
  <2> QED
    BY <1>1, <2>1, <2>2, ChannelKeeps DEF Aside
<1> QED
  BY <1>4, <1>5, <1>6 DEF VInv, Channel

\* Nothing was said over the socket before it was open, and nothing is shown.
LEMMA OpeningShows ==
  ASSUME Known, NEW e \in Attachments, SocketOpens(e) PROVE VInv'
<1>1. Aside /\ UNCHANGED <<retry, refused, contextVars, runs>>
  BY DEF SocketOpens, Aside, sessionVars
<1>2. /\ socket[e] = "connecting" /\ socket'[e] \in {"open", "closing"}
      /\ e \in closed => socket'[e] = "closing"
      /\ \A d \in Attachments : d # e => socket'[d] = socket[d]
  BY DEF SocketOpens, GivesUp, Known, IInv, Types
<1>3. session[e] = None /\ down[e] = << >> /\ ~AsksAgain(e)
  BY <1>2 DEF Known, VInv, OfView
<1>4. Typed'
  BY <1>1 DEF Aside, Known, VInv, Typed, contextVars, hydrationVars
<1>5. effect \in Attachments \cup {None}
  BY DEF Known, IInv, Types
<1>6. e \notin closed => effect = e
  BY DEF Known, IInv, Mounted
<1>7. OfView'
  <2>1. ASSUME NEW d \in Attachments
        PROVE  /\ socket'[d] = "open" => d \notin closed
               /\ session[d] # None => socket'[d] \in {"open", "closing"}
               /\ socket'[d] \in {"ticket", "connecting"} =>
                    down[d] = << >> /\ ~AsksAgain(d)'
    <3>1. CASE d = e
      BY <1>2, <1>3, <3>1
    <3>2. CASE d # e
      <4>1. up'[d] = up[d]
        BY <3>2 DEF SocketOpens, Known, IInv, Types
      <4>2. AsksAgain(d)' <=> AsksAgain(d)
        BY <4>1 DEF AsksAgain
      <4> QED
        BY <1>2, <3>2, <4>2 DEF Known, VInv, OfView, Open
    <3> QED
      BY <3>1, <3>2
  <2>2. store # Empty => /\ effect # None /\ socket'[effect] = "open" /\ session[effect] # None
                         /\ store.board = view
    BY <1>2, <1>5 DEF Known, VInv, OfView, Open
  <2> QED
    BY <1>1, <2>1, <2>2 DEF Aside, Known, VInv, OfView, Open
<1>8. ASSUME NEW d \in Attachments, Open(d)' PROVE Channel(d)'
  <2>1. CASE d = e
    <3>1. e = effect
      BY <1>2, <1>6, <1>8, <2>1 DEF Open
    <3>2. store = Empty
      BY <1>2, <3>1 DEF Known, VInv, OfView, Open
    <3>3. Len(down[e]) = 0
      BY <1>3
    <3>4. Counted(e)'
      BY <1>1, <1>3, <3>3 DEF Aside, Counted, Growing
    <3>5. Shows(e)' /\ ToldLast(e)'
      BY <1>1, <1>3, <3>2 DEF Aside, Shows, ToldLast
    <3>6. Unheard(e)'
      <4>1. UpKeeps(e)
        <5>1. Connect(ctx) \in Up /\ Connect(ctx).type # "resync"
          BY IdsAre DEF Connect, Known, IInv, Types
        <5> QED
          BY <5>1 DEF SocketOpens, UpKeeps, Known, IInv, Types
      <4>2. ~AsksAgain(e)'
        BY <1>3, <4>1, AsksKeeps DEF Known, IInv, Types
      <4>3. NoneTold(down[e])
        BY <3>3 DEF NoneTold
      <4> QED
        BY <1>1, <4>2, <4>3 DEF Aside, Unheard
    <3> QED
      BY <2>1, <3>4, <3>5, <3>6 DEF Channel
  <2>2. CASE d # e
    <3>1. Channel(d)
      BY <1>2, <1>8, <2>2 DEF Open, Known, VInv, Channel
    <3>2. up'[d] = up[d]
      BY <2>2 DEF SocketOpens, Known, IInv, Types
    <3>3. AsksAgain(d)' <=> AsksAgain(d)
      BY <3>2 DEF AsksAgain
    <3> QED
      BY <1>1, <3>1, <3>3, ChannelKeeps DEF Aside
  <2> QED
    BY <2>1, <2>2
<1> QED
  BY <1>4, <1>7, <1>8 DEF VInv, Channel

\* What the mounted attachment showed is forgotten when its socket closes; what
\* a torn-down socket was told is shown no more already.
LEMMA ClosingShows ==
  ASSUME Known, NEW e \in Attachments, NEW code, SocketCloses(e, code) PROVE VInv'
<1> USE BoardsAssumption
<1>1. /\ UNCHANGED <<view, effect, board, hydrationVars, runs, changes, seq, missed>>
      /\ closed' \in {closed, closed \cup {e}}
      /\ refused' \in {refused, RefusalOf(code)}
      /\ retry' \in {retry, retry \cup {e}}
      /\ e \notin closed => store' = Empty
      /\ e \in closed => store' = store
      /\ hydrated' \in {None, hydrated}
  BY DEF SocketCloses, Retried, Forgets, Clear
<1>2. /\ socket' = [socket EXCEPT ![e] = "closed"]
      /\ session' = [session EXCEPT ![e] = None]
      /\ down' = [down EXCEPT ![e] = << >>]
      /\ up' = [up EXCEPT ![e] = << >>]
  BY DEF SocketCloses
<1>3. \A d \in Attachments :
        IF d = e THEN socket'[d] = "closed" /\ session'[d] = None /\ down'[d] = << >>
        ELSE /\ socket'[d] = socket[d] /\ session'[d] = session[d]
             /\ down'[d] = down[d] /\ up'[d] = up[d]
  BY <1>2 DEF Known, IInv, Types, VInv, Typed
<1>4. Typed'
  <2>1. refused' \in Refusals \cup {None}
    BY <1>1 DEF RefusalOf, Refusals, Known, VInv, Typed
  <2>2. store' \in StoreStates
    BY <1>1 DEF StoreStates, Known, VInv, Typed
  <2>3. down' \in [Attachments -> Seq(Down)]
    BY <1>2 DEF Known, VInv, Typed
  <2> QED
    BY <1>1, <2>1, <2>2, <2>3 DEF Known, VInv, Typed, hydrationVars
<1>5. store' # Empty => e \in closed /\ store' = store /\ ~Open(e)
  BY <1>1 DEF Known, VInv, OfView
<1>6. effect \in Attachments \cup {None}
  BY DEF Known, IInv, Types
<1>7. OfView'
  <2>1. ASSUME NEW d \in Attachments
        PROVE  /\ Open(d)' => d \notin closed'
               /\ session'[d] # None => socket'[d] \in {"open", "closing"}
               /\ socket'[d] \in {"ticket", "connecting"} =>
                    down'[d] = << >> /\ ~AsksAgain(d)'
    <3>1. d # e => (AsksAgain(d)' <=> AsksAgain(d))
      BY <1>3 DEF AsksAgain
    <3> QED
      BY <1>1, <1>3, <3>1 DEF Known, VInv, OfView, Open
  <2>2. store' # Empty => /\ effect # None /\ socket'[effect] = "open" /\ session'[effect] # None
                          /\ store'.board = view
    BY <1>3, <1>5, <1>6 DEF Known, VInv, OfView, Open
  <2> QED
    BY <1>1, <2>1, <2>2 DEF Known, VInv, OfView, Open
<1>8. ASSUME NEW d \in Attachments, Open(d)' PROVE Channel(d)'
  <2>1. d # e /\ Open(d)
    BY <1>3, <1>8 DEF Open
  <2>2. store' = store
    BY <1>1, <2>1, OneIsOpen DEF Known, IInv, Mounted
  <2>3. AsksAgain(d)' <=> AsksAgain(d)
    BY <1>3, <2>1 DEF AsksAgain
  <2>4. Channel(d)
    BY <2>1 DEF Known, VInv, Channel
  <2> QED
    BY <1>1, <1>3, <2>1, <2>2, <2>3, <2>4, ChannelKeeps
<1> QED
  BY <1>4, <1>7, <1>8 DEF VInv, Channel

-----------------------------------------------------------------------------
(* The coordinator tells the browser.                                      *)

\* What lies behind a bridge that is told something is as it was.
Behind ==
  /\ UNCHANGED <<view, effect, board, closed, socket, store>>
  /\ UNCHANGED <<retry, refused, hydrated, hydratedFor, job, runs>>

LEMMA HadIs ==
  ASSUME Known, NEW e \in Attachments, Open(e)
  PROVE  /\ Had(e) \in Nat /\ Had(e) <= MaxChanges /\ Had(e) \in Versions
         /\ changes[board[e]] \in Seq(Runtimes)
         /\ seq[e] \in Nat /\ down[e] \in Seq(Down)
<1>1. board[e] \in Boards
  BY OneIsOpen
<1>2. /\ changes[board[e]] \in Seq(Runtimes) /\ Len(changes[board[e]]) <= MaxChanges
      /\ down[e] \in Seq(Down) /\ seq[e] \in Versions
  BY <1>1 DEF Known, VInv, Typed
<1>3. Len(changes[board[e]]) \in Nat
  BY <1>2
<1> QED
  BY <1>2, <1>3, BoardsAssumption DEF Had, Versions

\* A message that tells of no change: an answer, or input for a runtime.
LEMMA OtherSaid ==
  ASSUME Known, NEW e \in Attachments, Open(e), NEW m \in Down, ~IsTold(m),
         down' = [down EXCEPT ![e] = Append(@, m)],
         Behind, UNCHANGED <<changes, session, seq, missed>>,
         \A d \in Attachments : UpKeeps(d)
  PROVE  VInv'
<1>1. /\ down'[e] = Append(down[e], m)
      /\ \A d \in Attachments : d # e => down'[d] = down[d]
  BY DEF Known, VInv, Typed
<1>2. Typed'
  <2>1. Append(down[e], m) \in Seq(Down)
    BY HadIs, AppendIs
  <2>2. down' \in [Attachments -> Seq(Down)]
    BY <2>1 DEF Known, VInv, Typed
  <2> QED
    BY <2>2 DEF Known, VInv, Typed, Behind
<1>3. \A d \in Attachments : AsksAgain(d)' <=> AsksAgain(d)
  BY AsksKeeps DEF Known, IInv, Types
<1>4. OfView'
  BY <1>1, <1>3, OfViewKeeps DEF Known, VInv, Behind, Open
<1>5. ASSUME NEW d \in Attachments, Open(d)' PROVE Channel(d)'
  <2>1. d = e /\ Channel(e)
    BY <1>5, OneIsOpen DEF Behind, Open, Known, VInv, Channel
  <2>2. Added(down'[e], down[e], m)
    BY <1>1, HadIs, AppendAdds
  <2>3. /\ \A had, n : Growing(down[e], had) => Growing(down'[e], had)
        /\ \A had, n : Ends(down[e], n, had) => Ends(down'[e], n, had)
        /\ \A v, q : From(down[e], v, q) => From(down'[e], v, q)
        /\ \A v, q, had, n :
             EndsFrom(down[e], v, q, n, had) => EndsFrom(down'[e], v, q, n, had)
        /\ \A n : LastIs(down[e], n) => LastIs(down'[e], n)
        /\ NoneTold(down[e]) => NoneTold(down'[e])
    BY <2>2, OtherAdded
  <2>4. Counted(e)'
    BY <2>1, <2>3 DEF Channel, Counted, Had, Behind
  <2>5. \A v : StateAt(board[e], v)' = StateAt(board[e], v)
    BY DEF StateAt, Behind
  <2>6. Shows(e)'
    BY <2>1, <2>3, <2>5 DEF Channel, Shows, ShowsAfter, Had, Behind
  <2>7. ToldLast(e)' /\ Unheard(e)'
    BY <1>3, <2>1, <2>3 DEF Channel, ToldLast, Unheard, Behind
  <2> QED
    BY <2>1, <2>4, <2>6, <2>7 DEF Channel
<1> QED
  BY <1>2, <1>4, <1>5 DEF VInv, Channel

LEMMA RequestShows ==
  ASSUME Known, NEW e \in Attachments, HearRequest(e) PROVE VInv'
<1> DEFINE m == [type |-> "response", request |-> Head(up[e]).request]
<1>1. /\ Open(e) /\ up[e] # << >> /\ Head(up[e]).type = "request"
      /\ up' = [up EXCEPT ![e] = Tail(@)]
      /\ down' = [down EXCEPT ![e] = Append(@, m)]
  BY DEF HearRequest, Heard
<1>2. Behind /\ UNCHANGED <<changes, session, seq, missed>>
  BY DEF HearRequest, Behind, bridgeVars, contextVars, hydrationVars, sessionVars
<1>3. m \in Down /\ ~IsTold(m)
  <2>1. Head(up[e]) \in Up
    BY <1>1, TailIs DEF Known, IInv, Types
  <2> QED
    BY <1>1, <2>1 DEF Up, Down, IsTold
<1>4. \A d \in Attachments : UpKeeps(d)
  BY <1>1 DEF UpKeeps, Known, IInv, Types
<1> HIDE DEF m
<1> QED
  BY <1>1, <1>2, <1>3, <1>4, OtherSaid

LEMMA InputShows ==
  ASSUME Known, NEW e \in Attachments, NEW id \in Ids, AskRuntime(e, id) PROVE VInv'
<1> DEFINE m == [type |-> "processRuntime", runtime |-> id]
<1>1. Open(e) /\ up' = up /\ down' = [down EXCEPT ![e] = Append(@, m)]
  BY DEF AskRuntime
<1>2. Behind /\ UNCHANGED <<changes, session, seq, missed>>
  BY DEF AskRuntime, Behind, bridgeVars, contextVars, hydrationVars, sessionVars
<1>3. m \in Down /\ ~IsTold(m)
  BY DEF Down, IsTold
<1> HIDE DEF m
<1> QED
  BY <1>1, <1>2, <1>3, OtherSaid DEF UpKeeps

\* A snapshot tells all of it, on whatever count.
LEMMA AllSaid ==
  ASSUME Known, NEW e \in Attachments, Open(e), NEW n \in Versions,
         n <= Had(e), TellAll(e, n), Behind, changes' = changes, session'[e] # None,
         \A d \in Attachments : d # e => up'[d] = up[d],
         \A d \in Attachments : d # e => session'[d] = session[d]
  PROVE  VInv'
<1> DEFINE m == Snapshot(e, n)
<1>1. /\ down' = [down EXCEPT ![e] = Append(@, m)]
      /\ seq' = [seq EXCEPT ![e] = n] /\ missed' = missed \ {e}
  BY DEF TellAll
<1>2. /\ m \in Down /\ IsTold(m) /\ IsSnapshot(m) /\ m.of = Had(e) /\ m.seq = n
  BY HadIs DEF Snapshot, Down, Told, IsTold, IsSnapshot, Had
<1> HIDE DEF m
<1>3. down'[e] = Append(down[e], m) /\ seq'[e] = n
  BY <1>1 DEF Known, VInv, Typed
<1>4. \A d \in Attachments : d # e => down'[d] = down[d]
  BY <1>1 DEF Known, VInv, Typed
<1>5. Typed'
  <2>1. Append(down[e], m) \in Seq(Down)
    BY <1>2, HadIs, AppendIs
  <2>2. down' \in [Attachments -> Seq(Down)] /\ seq' \in [Attachments -> Versions]
    BY <1>1, <2>1 DEF Known, VInv, Typed
  <2> QED
    BY <1>1, <2>2 DEF Known, VInv, Typed, Behind
<1>6. OfView'
  <2>1. ASSUME NEW d \in Attachments
        PROVE  /\ socket[d] = "open" => d \notin closed
               /\ session'[d] # None => socket[d] \in {"open", "closing"}
               /\ socket[d] \in {"ticket", "connecting"} =>
                    down'[d] = << >> /\ ~AsksAgain(d)'
    <3>1. d # e => (AsksAgain(d)' <=> AsksAgain(d))
      BY DEF AsksAgain
    <3> QED
      BY <1>4, <3>1 DEF Known, VInv, OfView, Open
  <2>2. effect \in Attachments \cup {None}
    BY DEF Known, IInv, Types
  <2> QED
    BY <2>1, <2>2 DEF Known, VInv, OfView, Open, Behind
<1>7. ASSUME NEW d \in Attachments, Open(d)' PROVE Channel(d)'
  <2>1. d = e /\ Channel(e)
    BY <1>7, OneIsOpen DEF Behind, Open, Known, VInv, Channel
  <2>2. Had(e) \in Nat /\ n \in Nat /\ Added(down'[e], down[e], m)
    BY <1>2, <1>3, HadIs, AppendAdds DEF Versions
  <2>3. Growing(down[e], Had(e))
    BY <2>1 DEF Channel, Counted
  <2>4. /\ Growing(down'[e], Had(e)) /\ Ends(down'[e], n, Had(e)) /\ LastIs(down'[e], n)
        /\ \A v \in Nat : \A q \in Nat :
             From(down[e], v, q) /\ v <= Had(e)
             => From(down'[e], v, q) /\ EndsFrom(down'[e], v, q, n, Had(e))
    <3>1. m.of = Had(e) /\ m.seq = n /\ IsTold(m) /\ IsSnapshot(m) /\ Had(e) <= Had(e)
      BY <1>2, <2>2
    <3> QED
      BY <2>2, <2>3, <3>1, ToldAdded
  <2>5. Had(e)' = Had(e) /\ store' = store /\ board' = board
    BY DEF Had, Behind
  <2>6. Counted(e)'
    BY <1>3, <2>4, <2>5 DEF Counted
  <2>7. \A v : StateAt(board[e], v)' = StateAt(board[e], v)
    BY DEF StateAt, Behind
  <2>8. Shows(e)'
    <3>1. store # Empty => store.seq \in Nat
      BY DEF Known, VInv, Typed, StoreStates, Versions
    <3> QED
      BY <1>3, <2>1, <2>4, <2>5, <2>7, <3>1 DEF Channel, Shows, ShowsAfter
  <2>9. ToldLast(e)'
    BY <1>3, <2>4 DEF ToldLast
  <2> QED
    BY <2>1, <2>6, <2>8, <2>9 DEF Channel, Unheard
<1> QED
  BY <1>5, <1>6, <1>7 DEF VInv, Channel

\* The first registration is answered with everything, another with nothing.
LEMMA ConnectShows ==
  ASSUME Known, NEW e \in Attachments, HearConnect(e) PROVE VInv'
<1>1. /\ Open(e) /\ up[e] # << >> /\ Head(up[e]).type = "connect"
      /\ up' = [up EXCEPT ![e] = Tail(@)]
      /\ session' = [session EXCEPT ![e] = Head(up[e]).ids]
  BY DEF HearConnect, Heard
<1>2. Behind /\ changes' = changes
  BY DEF HearConnect, Behind, bridgeVars, contextVars, hydrationVars
<1>3. Head(up[e]).ids # None
  <2>1. Head(up[e]) \in Up
    BY <1>1, TailIs DEF Known, IInv, Types
  <2>2. Head(up[e]).ids \in SUBSET Ids
    BY <1>1, <2>1 DEF Up
  <2> QED
    BY <2>2, BoardsAssumption DEF Ids
<1>4. /\ session'[e] # None
      /\ \A d \in Attachments : d # e => session'[d] = session[d]
  BY <1>1, <1>3 DEF Known, IInv, Types
<1>5. CASE session[e] = None
  <2>1. TellAll(e, 0) /\ 0 \in Versions /\ 0 <= Had(e)
    BY <1>1, <1>5, HadIs, BoardsAssumption DEF HearConnect, Versions
  <2>2. \A d \in Attachments : d # e => up'[d] = up[d]
    BY <1>1 DEF Known, IInv, Types
  <2> QED
    BY <1>1, <1>2, <1>4, <2>1, <2>2, AllSaid
<1>6. CASE session[e] # None
  <2>1. UNCHANGED <<down, seq, missed>>
    BY <1>6 DEF HearConnect
  <2>2. Typed'
    BY <1>2, <2>1 DEF Known, VInv, Typed, Behind
  <2>3. OfView'
    <3>1. \A d \in Attachments : session'[d] # None <=> session[d] # None
      BY <1>4, <1>6
    <3>2. effect \in Attachments \cup {None}
      BY DEF Known, IInv, Types
    <3>3. \A d \in Attachments : UpKeeps(d)
      BY <1>1 DEF UpKeeps, Known, IInv, Types
    <3>4. \A d \in Attachments : AsksAgain(d)' <=> AsksAgain(d)
      BY <3>3, AsksKeeps DEF Known, IInv, Types
    <3> QED
      BY <1>2, <2>1, <3>1, <3>2, <3>4 DEF Known, VInv, OfView, Open, Behind
  <2>4. ASSUME NEW d \in Attachments, Open(d)' PROVE Channel(d)'
    <3>1. d = e /\ Channel(e)
      BY <1>1, <1>2, <2>4, OneIsOpen DEF Behind, Open, Known, VInv, Channel
    <3>2. AsksAgain(e)' <=> AsksAgain(e)
      <4>1. UpKeeps(e)
        BY <1>1 DEF UpKeeps, Known, IInv, Types
      <4>2. up[e] \in Seq(Up)
        BY DEF Known, IInv, Types
      <4> QED
        BY <4>1, <4>2, AsksKeeps
    <3> QED
      BY <1>2, <1>4, <1>6, <2>1, <3>1, <3>2, ChannelKeeps DEF Behind
  <2> QED
    BY <2>2, <2>3, <2>4 DEF VInv, Channel
<1> QED
  BY <1>5, <1>6

LEMMA ResyncShows ==
  ASSUME Known, NEW e \in Attachments, HearResync(e) PROVE VInv'
<1>1. Open(e) /\ TellAll(e, seq[e]) /\ session' = session
  BY DEF HearResync, Heard
<1>2. Behind /\ changes' = changes
  BY DEF HearResync, Behind, bridgeVars, contextVars, hydrationVars
<1>3. /\ up[e] # << >> /\ Head(up[e]).type = "resync"
      /\ \A d \in Attachments : d # e => up'[d] = up[d]
  BY DEF HearResync, Heard, Known, IInv, Types
<1>4. AsksAgain(e)
  <2>1. 1 \in 1..Len(up[e]) /\ Head(up[e]) = up[e][1]
    BY <1>3, TailIs DEF Known, IInv, Types
  <2> QED
    BY <1>3, <2>1 DEF AsksAgain
<1>5. session[e] # None
  BY <1>1, <1>4 DEF Known, VInv, Unheard
<1>6. seq[e] \in Versions /\ seq[e] <= Had(e)
  BY <1>1, <1>5 DEF Known, VInv, Typed, Counted
<1> QED
  BY <1>1, <1>2, <1>3, <1>5, <1>6, AllSaid

LEMMA RetellShows ==
  ASSUME Known, NEW e \in Attachments, Retell(e) PROVE VInv'
<1>1. Open(e) /\ session' = session /\ up' = up /\ session[e] # None
  BY DEF Retell
<1>2. PICK n \in {0, seq[e]} : TellAll(e, n)
  BY DEF Retell
<1>3. Behind /\ changes' = changes
  BY DEF Retell, Behind, bridgeVars, contextVars, hydrationVars
<1>4. /\ seq[e] \in Versions /\ seq[e] <= Had(e)
      /\ 0 \in Versions /\ 0 <= Had(e)
  BY <1>1, HadIs, BoardsAssumption DEF Known, VInv, Typed, Counted, Versions
<1> QED
  BY <1>1, <1>2, <1>3, <1>4, AllSaid

-----------------------------------------------------------------------------
(* A board changes.                                                        *)

LEMMA StateStays ==
  ASSUME NEW b, NEW v \in Nat, NEW r \in Runtimes, changes[b] \in Seq(Runtimes),
         v <= Len(changes[b]), changes'[b] = Append(changes[b], r)
  PROVE  StateAt(b, v)' = StateAt(b, v)
<1>1. \A i \in 1..v : changes'[b][i] = changes[b][i]
  <2>1. Len(changes[b]) \in Nat
    OBVIOUS
  <2>2. 1..v \subseteq 1..Len(changes[b])
    BY <2>1
  <2> QED
    BY <2>2, AppendIs
<1>2. \A s : {i \in 1..v : changes'[b][i] = s} = {i \in 1..v : changes[b][i] = s}
  BY <1>1
<1> QED
  BY <1>2 DEF StateAt

LEMMA OneMore ==
  ASSUME NEW v \in Nat, NEW n \in Nat, NEW had \in Nat, NEW q \in Nat, v + n = had + q
  PROVE  v + (n + 1) = (had + 1) + q
OBVIOUS

\* The bridge is passed the update: what was under way ends with it.
LEMMA ToldOfChange ==
  ASSUME Known, NEW e \in Attachments, Open(e), session[e] # None,
         NEW r \in Runtimes, Had(e) < MaxChanges,
         changes'[board[e]] = Append(changes[board[e]], r),
         down'[e] = Append(down[e], Update(e)), seq'[e] = seq[e] + 1,
         board' = board, store' = store, session' = session
  PROVE  Channel(e)'
<1> DEFINE m == Update(e)
<1>1. /\ Had(e) \in Nat /\ seq[e] \in Nat /\ down[e] \in Seq(Down)
      /\ changes[board[e]] \in Seq(Runtimes)
  BY HadIs
<1>2. /\ Growing(down[e], Had(e)) /\ seq[e] <= Had(e) /\ Ends(down[e], seq[e], Had(e))
      /\ Shows(e)
  BY DEF Known, VInv, Counted
<1>3. Had(e)' = Had(e) + 1
  BY <1>1, AppendIs DEF Had
<1>4. /\ m \in Down /\ IsTold(m) /\ ~IsSnapshot(m)
      /\ m.seq = seq[e] + 1 /\ m.of = Had(e) + 1
  BY <1>1, <1>2, BoardsAssumption DEF Update, Down, Told, Versions, IsTold, IsSnapshot, Had
<1>5. Added(down'[e], down[e], m)
  BY <1>1, <1>4, AppendAdds
<1>6. \A i \in 1..Len(down[e]) : IsTold(down[e][i]) /\ SameCount(down[e], i, Len(down[e])) =>
        down[e][i].of + m.seq = (Had(e) + 1) + down[e][i].seq
  <2> SUFFICES ASSUME NEW i \in 1..Len(down[e]), IsTold(down[e][i]),
                      SameCount(down[e], i, Len(down[e]))
               PROVE  down[e][i].of + m.seq = (Had(e) + 1) + down[e][i].seq
    OBVIOUS
  <2>1. down[e][i].of + seq[e] = Had(e) + down[e][i].seq
    BY <1>2 DEF Ends
  <2>2. down[e][i] \in Down
    BY <1>1
  <2>3. PICK x \in Nat, y \in Nat : x = down[e][i].of /\ y = down[e][i].seq
    BY <2>2, ToldIs
  <2>4. PICK n \in Nat, had \in Nat : n = seq[e] /\ had = Had(e)
    BY <1>1
  <2>5. x + n = had + y
    BY <2>1, <2>3, <2>4
  <2>6. x + (n + 1) = (had + 1) + y
    BY <2>5
  <2> QED
    BY <1>4, <2>3, <2>4, <2>6
<1> HIDE DEF m
<1>7. Had(e) + 1 \in Nat /\ Had(e) <= Had(e) + 1 /\ Had(e) + 1 >= 1
  BY <1>1
<1>8. /\ Growing(down'[e], Had(e) + 1) /\ Ends(down'[e], m.seq, Had(e) + 1)
      /\ LastIs(down'[e], m.seq)
      /\ \A v \in Nat : \A q \in Nat :
           /\ From(down[e], v, q) /\ v <= Had(e) + 1
           /\ SameCount(down[e], 0, Len(down[e])) => v + m.seq = (Had(e) + 1) + q
           => From(down'[e], v, q) /\ EndsFrom(down'[e], v, q, m.seq, Had(e) + 1)
  <2>1. PICK had \in Nat, more \in Nat : had = Had(e) /\ more = Had(e) + 1
    BY <1>1
  <2>2. /\ had <= more /\ m.of = more /\ more >= 1 /\ Growing(down[e], had)
        /\ \A i \in 1..Len(down[e]) :
             IsTold(down[e][i]) /\ SameCount(down[e], i, Len(down[e])) =>
               down[e][i].of + m.seq = more + down[e][i].seq
    BY <1>2, <1>4, <1>6, <1>7, <2>1
  <2>3. /\ Growing(down'[e], more) /\ Ends(down'[e], m.seq, more)
        /\ LastIs(down'[e], m.seq)
        /\ \A v \in Nat : \A q \in Nat :
             /\ From(down[e], v, q) /\ v <= more
             /\ ~IsSnapshot(m) /\ SameCount(down[e], 0, Len(down[e])) => v + m.seq = more + q
             => From(down'[e], v, q) /\ EndsFrom(down'[e], v, q, m.seq, more)
    BY <1>4, <1>5, <2>2, ToldAdded
  <2> QED
    BY <2>1, <2>3
<1>9. Counted(e)'
  <2>1. seq'[e] <= Had(e) + 1
    BY <1>1, <1>2
  <2> QED
    BY <1>3, <1>4, <1>8, <2>1 DEF Counted
<1>10. Shows(e)'
  <2> SUFFICES ASSUME store # Empty PROVE \E v \in Nat : ShowsAfter(e, v)'
    BY DEF Shows
  <2>1. PICK v \in Nat : ShowsAfter(e, v)
    BY <1>2 DEF Shows
  <2>2. store.seq \in Nat
    BY DEF Known, VInv, Typed, StoreStates, Versions
  <2>3. v <= Had(e) /\ v <= Had(e) + 1
    BY <1>1, <2>1 DEF ShowsAfter
  <2>4. SameCount(down[e], 0, Len(down[e])) => v + m.seq = (Had(e) + 1) + store.seq
    <3>1. SameCount(down[e], 0, Len(down[e])) => v + seq[e] = Had(e) + store.seq
      BY <2>1 DEF ShowsAfter, EndsFrom
    <3>2. SameCount(down[e], 0, Len(down[e])) =>
            v + (seq[e] + 1) = (Had(e) + 1) + store.seq
      BY <1>1, <2>1, <2>2, <3>1, OneMore
    <3>3. m.seq = seq[e] + 1
      BY <1>4
    <3> QED
      BY <3>2, <3>3, Zenon
  <2>5. From(down[e], v, store.seq)
    BY <2>1 DEF ShowsAfter
  <2>6. From(down'[e], v, store.seq) /\ EndsFrom(down'[e], v, store.seq, m.seq, Had(e) + 1)
    BY <1>8, <2>2, <2>3, <2>4, <2>5
  <2>7. StateAt(board[e], v)' = StateAt(board[e], v)
    BY <1>1, <2>3, StateStays DEF Had
  <2>8. ShowsAfter(e, v)'
    BY <1>3, <1>4, <2>1, <2>3, <2>6, <2>7 DEF ShowsAfter
  <2> QED
    BY <2>8
<1>11. ToldLast(e)'
  BY <1>4, <1>8 DEF ToldLast
<1> QED
  BY <1>9, <1>10, <1>11 DEF Channel, Unheard

\* The update is not passed on: the bridge has missed it.
LEMMA MissesChange ==
  ASSUME Known, NEW e \in Attachments, Open(e), session[e] # None,
         NEW r \in Runtimes,
         changes'[board[e]] = Append(changes[board[e]], r),
         down'[e] = down[e], seq'[e] = seq[e] + 1, e \in missed',
         board' = board, store' = store, session' = session
  PROVE  Channel(e)'
<1>1. /\ Had(e) \in Nat /\ seq[e] \in Nat /\ down[e] \in Seq(Down)
      /\ changes[board[e]] \in Seq(Runtimes)
  BY HadIs
<1>2. /\ Growing(down[e], Had(e)) /\ seq[e] <= Had(e) /\ Ends(down[e], seq[e], Had(e))
      /\ Shows(e)
  BY DEF Known, VInv, Counted
<1>3. Had(e)' = Had(e) + 1
  BY <1>1, AppendIs DEF Had
<1>4. /\ Growing(down[e], Had(e) + 1) /\ Ends(down[e], seq[e] + 1, Had(e) + 1)
      /\ \A v, q \in Nat : EndsFrom(down[e], v, q, seq[e], Had(e)) =>
                             EndsFrom(down[e], v, q, seq[e] + 1, Had(e) + 1)
  BY <1>1, <1>2, NotTold
<1>5. Counted(e)'
  <2>1. seq'[e] <= Had(e) + 1
    BY <1>1, <1>2
  <2> QED
    BY <1>3, <1>4, <2>1 DEF Counted
<1>6. Shows(e)'
  <2> SUFFICES ASSUME store # Empty PROVE \E v \in Nat : ShowsAfter(e, v)'
    BY DEF Shows
  <2>1. PICK v \in Nat : ShowsAfter(e, v)
    BY <1>2 DEF Shows
  <2>2. store.seq \in Nat
    BY DEF Known, VInv, Typed, StoreStates, Versions
  <2>3. v <= Had(e) /\ v <= Had(e) + 1
    BY <1>1, <2>1 DEF ShowsAfter
  <2>4. EndsFrom(down[e], v, store.seq, seq[e] + 1, Had(e) + 1)
    BY <1>4, <2>1, <2>2 DEF ShowsAfter
  <2>5. StateAt(board[e], v)' = StateAt(board[e], v)
    BY <1>1, <2>3, StateStays DEF Had
  <2>6. ShowsAfter(e, v)'
    BY <1>3, <2>1, <2>3, <2>4, <2>5 DEF ShowsAfter
  <2> QED
    BY <2>6
<1> QED
  BY <1>5, <1>6 DEF Channel, ToldLast, Unheard

\* Nobody has registered over the bridge: it is told nothing, and shows nothing.
LEMMA UntoldOfChange ==
  ASSUME Known, NEW e \in Attachments, Open(e), session[e] = None,
         NEW r \in Runtimes,
         changes'[board[e]] = Append(changes[board[e]], r), down'[e] = down[e],
         board' = board, store' = store, session' = session, up' = up
  PROVE  Channel(e)'
<1>1. /\ Had(e) \in Nat /\ down[e] \in Seq(Down) /\ changes[board[e]] \in Seq(Runtimes)
  BY HadIs
<1>2. Growing(down[e], Had(e))
  BY DEF Known, VInv, Counted
<1>3. Had(e)' = Had(e) + 1
  BY <1>1, AppendIs DEF Had
<1>4. Growing(down[e], Had(e) + 1)
  BY <1>1, <1>2, NotTold
<1>5. store = Empty
  BY OneIsOpen DEF Known, VInv, OfView
<1>6. Unheard(e)'
  BY DEF Known, VInv, Unheard, AsksAgain
<1> QED
  BY <1>3, <1>4, <1>5, <1>6 DEF Channel, Counted, Shows, ToldLast

LEMMA ChangeShows ==
  ASSUME Known, NEW b \in Boards, NEW r \in Runtimes, Change(b, r) PROVE VInv'
<1>1. /\ Len(changes[b]) < MaxChanges
      /\ changes' = [changes EXCEPT ![b] = Append(@, r)]
      /\ UNCHANGED <<session, up>>
  BY DEF Change
<1>2. Behind
  BY DEF Change, Behind, bridgeVars, contextVars, hydrationVars
<1>3. PICK told \in SUBSET Watching(b) :
        /\ seq' = [e \in Attachments |->
                     IF e \in Watching(b) THEN seq[e] + 1 ELSE seq[e]]
        /\ missed' = (missed \cup Watching(b)) \ told
        /\ down' = [e \in Attachments |->
                      IF e \in told THEN Append(down[e], Update(e)) ELSE down[e]]
  BY DEF Change
<1>4. ASSUME NEW e \in Watching(b)
      PROVE  /\ e \in Attachments /\ Open(e) /\ board[e] = b /\ session[e] # None
             /\ Had(e) < MaxChanges /\ seq[e] + 1 \in Versions
             /\ Append(down[e], Update(e)) \in Seq(Down)
  <2>1. e \in Attachments /\ Open(e) /\ board[e] = b /\ session[e] # None
    BY DEF Watching
  <2>2. Had(e) < MaxChanges /\ Had(e) \in Nat /\ seq[e] \in Nat /\ seq[e] <= Had(e)
    BY <1>1, <2>1, HadIs DEF Had, Known, VInv, Counted
  <2>3. seq[e] + 1 \in Versions /\ Had(e) + 1 \in Versions
    BY <2>2, BoardsAssumption DEF Versions
  <2>4. Update(e) \in Down /\ down[e] \in Seq(Down)
    BY <2>1, <2>3, HadIs DEF Update, Down, Told, Had
  <2> QED
    BY <2>1, <2>2, <2>3, <2>4, AppendIs
<1>5. /\ changes'[b] = Append(changes[b], r)
      /\ \A c \in Boards : c # b => changes'[c] = changes[c]
      /\ changes[b] \in Seq(Runtimes)
  BY <1>1 DEF Known, VInv, Typed
<1>6. Typed'
  <2>1. changes' \in [Boards -> Seq(Runtimes)]
    BY <1>1, <1>5, AppendIs DEF Known, VInv, Typed
  <2>2. \A c \in Boards : Len(changes'[c]) <= MaxChanges
    <3>1. Len(changes'[b]) = Len(changes[b]) + 1 /\ Len(changes[b]) \in Nat
      BY <1>5, AppendIs
    <3>2. Len(changes'[b]) <= MaxChanges
      BY <1>1, <3>1, BoardsAssumption
    <3> QED
      BY <1>5, <3>2 DEF Known, VInv, Typed
  <2>3. seq' \in [Attachments -> Versions]
    BY <1>3, <1>4 DEF Known, VInv, Typed
  <2>4. missed' \in SUBSET Attachments
    BY <1>3, <1>4 DEF Known, VInv, Typed
  <2>5. down' \in [Attachments -> Seq(Down)]
    BY <1>3, <1>4 DEF Known, VInv, Typed
  <2> QED
    BY <1>2, <2>1, <2>2, <2>3, <2>4, <2>5 DEF Known, VInv, Typed, Behind
<1>7. OfView'
  <2>1. \A e \in Attachments :
          socket[e] \in {"ticket", "connecting"} =>
            down'[e] = down[e] /\ (AsksAgain(e)' <=> AsksAgain(e))
    BY <1>1, <1>3, <1>4 DEF Open, AsksAgain
  <2> QED
    BY <1>1, <1>2, <2>1, OfViewKeeps DEF Known, VInv, Behind
<1>8. ASSUME NEW e \in Attachments, Open(e)' PROVE Channel(e)'
  <2>1. Open(e) /\ board[e] \in Boards /\ Channel(e)
    BY <1>2, <1>8, OneIsOpen DEF Behind, Open, Known, VInv, Channel
  <2>2. board' = board /\ store' = store /\ session' = session
    BY <1>1, <1>2 DEF Behind
  <2>3. CASE e \in told
    <3>1. /\ down'[e] = Append(down[e], Update(e)) /\ seq'[e] = seq[e] + 1
          /\ board[e] = b /\ session[e] # None /\ Had(e) < MaxChanges
      BY <1>3, <1>4, <2>3
    <3> QED
      BY <1>5, <2>1, <2>2, <3>1, ToldOfChange
  <2>4. CASE e \in Watching(b) /\ e \notin told
    <3>1. /\ down'[e] = down[e] /\ seq'[e] = seq[e] + 1 /\ e \in missed'
          /\ board[e] = b /\ session[e] # None
      BY <1>3, <1>4, <2>4
    <3> QED
      BY <1>5, <2>1, <2>2, <3>1, MissesChange
  <2>5. CASE e \notin Watching(b)
    <3>1. /\ down'[e] = down[e] /\ seq'[e] = seq[e]
          /\ e \in missed' <=> e \in missed
      BY <1>3, <2>5
    <3>2. CASE board[e] = b
      <4>1. session[e] = None
        BY <2>1, <2>5, <3>2 DEF Watching
      <4> QED
        BY <1>1, <1>5, <2>1, <2>2, <3>1, <3>2, <4>1, UntoldOfChange
    <3>3. CASE board[e] # b
      <4>1. changes'[board[e]] = changes[board[e]]
        BY <1>5, <2>1, <3>3
      <4>2. AsksAgain(e)' <=> AsksAgain(e)
        BY <1>1 DEF AsksAgain
      <4> QED
        BY <2>1, <2>2, <3>1, <4>1, <4>2, ChannelKeeps
    <3> QED
      BY <3>2, <3>3
  <2> QED
    BY <1>3, <2>3, <2>4, <2>5
<1> QED
  BY <1>6, <1>7, <1>8 DEF VInv, Channel

-----------------------------------------------------------------------------
(* The browser takes what it was told.                                     *)

\* The first message is taken from the queue of an open bridge.
Takes(e) ==
  /\ Open(e) /\ down[e] # << >> /\ down' = [down EXCEPT ![e] = Tail(@)]
  /\ UNCHANGED <<view, bridgeVars, changes, sessionVars>>

LEMMA TakesFrom ==
  ASSUME Known, NEW e \in Attachments, Takes(e)
  PROVE  /\ TakenFrom(down'[e], down[e]) /\ Head(down[e]) = down[e][1]
         /\ down'[e] = Tail(down[e]) /\ down' \in [Attachments -> Seq(Down)]
         /\ \A d \in Attachments : d # e => down'[d] = down[d]
         /\ UNCHANGED <<effect, board, closed, socket, retry, wsRef, refused>>
         /\ UNCHANGED <<session, seq, missed>> /\ Had(e)' = Had(e)
         /\ \A v : StateAt(board[e], v)' = StateAt(board[e], v)
         /\ \A d \in Attachments : Open(d)' => d = e
<1>1. down[e] \in Seq(Down) /\ down[e] # << >>
  BY HadIs DEF Takes
<1>2. /\ down'[e] = Tail(down[e]) /\ Tail(down[e]) \in Seq(Down)
      /\ down' \in [Attachments -> Seq(Down)]
      /\ \A d \in Attachments : d # e => down'[d] = down[d]
  BY <1>1, TailIs DEF Takes, Known, VInv, Typed
<1>3. TakenFrom(down'[e], down[e]) /\ Head(down[e]) = down[e][1]
  BY <1>1, <1>2, TailTakes, TailIs
<1>4. /\ UNCHANGED <<effect, board, closed, socket, retry, wsRef, refused>>
      /\ UNCHANGED <<session, seq, missed>> /\ Had(e)' = Had(e)
      /\ \A v : StateAt(board[e], v)' = StateAt(board[e], v)
  BY DEF Takes, bridgeVars, sessionVars, Had, StateAt
<1>5. \A d \in Attachments : Open(d)' => d = e
  BY <1>4, OneIsOpen DEF Takes, Open
<1> QED
  BY <1>2, <1>3, <1>4, <1>5

\* It told of no change.
LEMMA OtherHeard ==
  ASSUME Known, NEW e \in Attachments, Takes(e), ~IsTold(Head(down[e])),
         runs' \in SUBSET Runs, UNCHANGED <<store, hydrated, hydratedFor, job, up>>
  PROVE  VInv'
<1>1. /\ TakenFrom(down'[e], down[e]) /\ Head(down[e]) = down[e][1]
      /\ down' \in [Attachments -> Seq(Down)]
      /\ \A d \in Attachments : d # e => down'[d] = down[d]
      /\ UNCHANGED <<effect, board, closed, socket, retry, wsRef, refused>>
      /\ UNCHANGED <<session, seq, missed>> /\ Had(e)' = Had(e)
      /\ \A v : StateAt(board[e], v)' = StateAt(board[e], v)
      /\ \A d \in Attachments : Open(d)' => d = e
  BY TakesFrom
<1>2. Open(e) /\ view' = view /\ changes' = changes
  BY DEF Takes
<1>3. \A d \in Attachments : AsksAgain(d)' <=> AsksAgain(d)
  BY DEF AsksAgain
<1>4. Typed'
  BY <1>1, <1>2 DEF Known, VInv, Typed
<1>5. OfView'
  BY <1>1, <1>2, <1>3, OfViewKeeps DEF Known, VInv, Open
<1>6. ~IsTold(down[e][1]) /\ ~IsSnapshot(down[e][1])
  BY <1>1 DEF IsTold, IsSnapshot
<1>7. Channel(e)
  BY <1>2 DEF Known, VInv, Channel
<1>8. /\ \A had : Growing(down[e], had) => Growing(down'[e], had)
      /\ \A n, had : Ends(down[e], n, had) => Ends(down'[e], n, had)
      /\ \A n : LastIs(down[e], n) => LastIs(down'[e], n)
      /\ NoneTold(down[e]) => NoneTold(down'[e])
      /\ \A v, q : From(down[e], v, q) => From(down'[e], v, q)
      /\ \A v, q, n, had : EndsFrom(down[e], v, q, n, had) => EndsFrom(down'[e], v, q, n, had)
  BY <1>1, <1>6, AnyTaken, OthersTaken
<1>9. Counted(e)'
  BY <1>1, <1>7, <1>8 DEF Channel, Counted
<1>10. Shows(e)'
  BY <1>1, <1>7, <1>8 DEF Channel, Shows, ShowsAfter
<1>11. ToldLast(e)' /\ Unheard(e)'
  BY <1>1, <1>3, <1>7, <1>8 DEF Channel, ToldLast, Unheard
<1> QED
  BY <1>1, <1>4, <1>5, <1>9, <1>10, <1>11 DEF VInv, Channel

\* It told of changes, and the page shows its board as of the last of them.
LEMMA ToldShown ==
  ASSUME Known, NEW e \in Attachments, Takes(e), IsTold(Head(down[e])),
         store' = [board |-> view, seq |-> Head(down[e]).seq,
                   runtimes |-> StateAt(view, Head(down[e]).of)],
         Hydrate(e), runs' = runs, up' = up
  PROVE  VInv'
<1> DEFINE m == Head(down[e])
<1>1. /\ TakenFrom(down'[e], down[e]) /\ m = down[e][1]
      /\ down' \in [Attachments -> Seq(Down)]
      /\ \A d \in Attachments : d # e => down'[d] = down[d]
      /\ UNCHANGED <<effect, board, closed, socket, retry, wsRef, refused>>
      /\ UNCHANGED <<session, seq, missed>> /\ Had(e)' = Had(e)
      /\ \A v : StateAt(board[e], v)' = StateAt(board[e], v)
      /\ \A d \in Attachments : Open(d)' => d = e
  BY TakesFrom
<1>2. Open(e) /\ view' = view /\ changes' = changes
  BY DEF Takes
<1>3. e = effect /\ board[e] = view /\ view \in Boards
  BY <1>2, OneIsOpen
<1>4. Had(e) \in Nat /\ Had(e) <= MaxChanges /\ seq[e] \in Nat
  BY <1>2, HadIs
<1>5. Channel(e)
  BY <1>2 DEF Known, VInv, Channel
<1>6. IsTold(down[e][1])
  BY <1>1
<1>7. m \in Down /\ m.of \in Versions /\ m.seq \in Versions /\ m.of \in Nat /\ m.seq \in Nat
  BY <1>1, <1>6, ToldIs DEF TakenFrom
<1>8. session[e] # None
  <2>1. TakenFrom(down'[e], down[e]) => 1 \in 1..Len(down[e])
    BY DEF TakenFrom
  <2>2. ~NoneTold(down[e])
    BY <1>1, <1>6, <2>1 DEF NoneTold
  <2> QED
    BY <1>5, <2>2 DEF Channel, Unheard
<1>9. Growing(down[e], Had(e)) /\ Ends(down[e], seq[e], Had(e))
  BY <1>5, <1>8 DEF Channel, Counted
<1> HIDE DEF m
<1>10. /\ From(down'[e], m.of, m.seq) /\ m.of <= Had(e)
       /\ EndsFrom(down'[e], m.of, m.seq, seq[e], Had(e))
  BY <1>1, <1>4, <1>6, <1>9, ToldTaken
<1>11. store' = [board |-> view, seq |-> m.seq, runtimes |-> StateAt(view, m.of)]
  BY DEF m
<1>12. store' # Empty /\ store'.board = view /\ store'.seq = m.seq
       /\ store'.runtimes = StateAt(view, m.of)
  <2>1. view # None
    BY <1>3, BoardsAssumption
  <2>2. store'.board # Empty.board
    BY <1>11, <2>1 DEF Empty
  <2> QED
    BY <1>11, <2>2
<1>13. Typed'
  <2>1. store' \in StoreStates
    <3>1. StateAt(view, m.of) \in [Runtimes -> 0..m.of]
      BY <1>7, StateIs
    <3>2. 0..m.of \subseteq Versions
      BY <1>7, BoardsAssumption DEF Versions
    <3>3. StateAt(view, m.of) \in [Runtimes -> Versions]
      BY <3>1, <3>2
    <3> QED
      BY <1>3, <1>7, <1>11, <3>3 DEF StoreStates
  <2>2. /\ hydrated' \in Boards \cup {None} /\ hydratedFor' \in Boards \cup {None}
        /\ job' \in [Attachments -> {"none", "asked", "restoring"}]
    BY <1>3 DEF Hydrate, contextVars, hydrationVars, Known, VInv, Typed
  <2> QED
    BY <1>1, <1>2, <2>1, <2>2 DEF Known, VInv, Typed
<1>14. \A d \in Attachments : AsksAgain(d)' <=> AsksAgain(d)
  BY DEF AsksAgain
<1>15. OfView'
  <2>1. \A d \in Attachments : socket[d] \in {"ticket", "connecting"} => down'[d] = down[d]
    BY <1>1, <1>2 DEF Open
  <2> QED
    BY <1>1, <1>2, <1>3, <1>8, <1>12, <1>14, <2>1, BoardsAssumption
    DEF Known, VInv, OfView, Open
<1>16. Channel(e)'
  <2>1. Counted(e)'
    <3>1. Growing(down'[e], Had(e)) /\ Ends(down'[e], seq[e], Had(e))
      BY <1>1, <1>9, AnyTaken
    <3> QED
      BY <1>1, <1>5, <1>8, <3>1 DEF Channel, Counted
  <2>2. Shows(e)'
    <3>1. PICK v \in Nat : v = m.of
      BY <1>7
    <3>2. store'.runtimes = StateAt(board[e], v)'
      BY <1>1, <1>3, <1>12, <3>1
    <3>3. ShowsAfter(e, v)'
      BY <1>1, <1>10, <1>12, <3>1, <3>2 DEF ShowsAfter
    <3> QED
      BY <3>3 DEF Shows
  <2>3. ToldLast(e)'
    <3> SUFFICES ASSUME e \notin missed PROVE ToldLast(e)'
      BY <1>1 DEF ToldLast
    <3>1. \/ LastIs(down[e], seq[e])
          \/ NoneTold(down[e])
      BY <1>5, <1>8 DEF Channel, ToldLast
    <3>2. LastIs(down'[e], seq[e]) \/ (NoneTold(down'[e]) /\ m.seq = seq[e])
      BY <1>1, <1>6, <3>1, AnyTaken
    <3> QED
      BY <1>1, <1>12, <3>2 DEF ToldLast
  <2> QED
    BY <1>1, <1>8, <2>1, <2>2, <2>3 DEF Channel, Unheard
<1> QED
  BY <1>1, <1>13, <1>15, <1>16 DEF VInv, Channel

LEMMA SnapshotShows ==
  ASSUME Known, NEW e \in Attachments, TakeSnapshot(e) PROVE VInv'
<1>1. Takes(e) /\ IsTold(Head(down[e])) /\ board[e] = view
  BY OneIsOpen DEF TakeSnapshot, Incoming, Taken, Takes, IsTold
<1>2. store' = [board |-> view, seq |-> Head(down[e]).seq,
                runtimes |-> StateAt(view, Head(down[e]).of)]
  BY <1>1 DEF TakeSnapshot, WithSnapshot
<1>3. Hydrate(e) /\ runs' = runs /\ up' = up
  BY DEF TakeSnapshot
<1> QED
  BY <1>1, <1>2, <1>3, ToldShown

\* An update that is the next one brings the page to the next state.
LEMMA NextIsShown ==
  ASSUME Known, NEW e \in Attachments, Open(e), down[e] # << >>,
         IsTold(Head(down[e])), ~IsSnapshot(Head(down[e])),
         ~NeedsResync(Head(down[e]), changes[board[e]][Head(down[e]).of])
  PROVE  /\ store # Empty
         /\ WithUpdate(Head(down[e]), changes[board[e]][Head(down[e]).of]) =
              [board |-> view, seq |-> Head(down[e]).seq,
               runtimes |-> StateAt(view, Head(down[e]).of)]
<1> DEFINE m == Head(down[e])
           r == changes[board[e]][m.of]
<1>1. board[e] = view /\ Had(e) \in Nat /\ down[e] \in Seq(Down)
  BY HadIs, OneIsOpen
<1>2. TakenFrom(Tail(down[e]), down[e]) /\ m = down[e][1]
  BY <1>1, TailTakes, TailIs
<1>3. Growing(down[e], Had(e)) /\ Shows(e)
  BY DEF Known, VInv, Counted
<1>4. r \in DOMAIN store.runtimes /\ m.seq = store.seq + 1
  BY DEF NeedsResync
<1>5. store # Empty
  <2>1. DOMAIN Empty.runtimes = {}
    BY DEF Empty
  <2> QED
    BY <1>4, <2>1
<1>6. PICK v \in Nat : ShowsAfter(e, v)
  BY <1>3, <1>5 DEF Shows
<1>7. store \in [board : Boards, seq : Versions, runtimes : [Runtimes -> Versions]]
  BY <1>5 DEF Known, VInv, Typed, StoreStates
<1>8. store.seq \in Nat
  BY <1>7 DEF Versions
<1>9. IsTold(m) /\ ~IsSnapshot(m)
  OBVIOUS
<1> HIDE DEF m
<1>10. m.of \in Nat /\ m.seq \in Nat /\ v + m.seq = m.of + store.seq
  BY <1>1, <1>2, <1>3, <1>6, <1>8, <1>9, ToldTaken DEF ShowsAfter
<1>11. m.of = v + 1
  BY <1>4, <1>8, <1>10
<1>12. store.runtimes = StateAt(view, v) /\ store.board = view
  BY <1>1, <1>5, <1>6 DEF ShowsAfter, Known, VInv, OfView
<1>13. [store.runtimes EXCEPT ![r] = m.of] = StateAt(view, m.of)
  <2>1. r = changes[view][v + 1]
    BY <1>1, <1>11
  <2>2. StateAt(view, v + 1) = [StateAt(view, v) EXCEPT ![r] = v + 1]
    BY <2>1, StateAfter
  <2> HIDE DEF r
  <2> QED
    BY <1>11, <1>12, <2>2
<1> HIDE DEF r
<1>14. WithUpdate(m, r) =
         [board |-> store.board, seq |-> m.seq,
          runtimes |-> [store.runtimes EXCEPT ![r] = m.of]]
  BY DEF WithUpdate
<1>15. WithUpdate(m, r) =
         [board |-> view, seq |-> m.seq, runtimes |-> StateAt(view, m.of)]
  BY <1>12, <1>13, <1>14
<1> QED
  BY <1>5, <1>15 DEF m, r

\* One that is not has the page ask for everything.
LEMMA GapAsks ==
  ASSUME Known, NEW e \in Attachments, Takes(e), IsTold(Head(down[e])),
         ~IsSnapshot(Head(down[e])),
         up' = [up EXCEPT ![e] = Append(@, [type |-> "resync"])],
         UNCHANGED <<store, contextVars, runs>>
  PROVE  VInv'
<1>1. /\ TakenFrom(down'[e], down[e]) /\ Head(down[e]) = down[e][1]
      /\ down' \in [Attachments -> Seq(Down)]
      /\ \A d \in Attachments : d # e => down'[d] = down[d]
      /\ UNCHANGED <<effect, board, closed, socket, retry, wsRef, refused>>
      /\ UNCHANGED <<session, seq, missed>> /\ Had(e)' = Had(e)
      /\ \A v : StateAt(board[e], v)' = StateAt(board[e], v)
      /\ \A d \in Attachments : Open(d)' => d = e
  BY TakesFrom
<1>2. Open(e) /\ view' = view /\ changes' = changes
  BY DEF Takes
<1>3. IsTold(down[e][1]) /\ ~IsSnapshot(down[e][1])
  BY <1>1
<1>4. Channel(e)
  BY <1>2 DEF Known, VInv, Channel
<1>5. session[e] # None
  <2>1. TakenFrom(down'[e], down[e]) => 1 \in 1..Len(down[e])
    BY DEF TakenFrom
  <2>2. ~NoneTold(down[e])
    BY <1>1, <1>3, <2>1 DEF NoneTold
  <2> QED
    BY <1>4, <2>2 DEF Channel, Unheard
<1>6. AsksAgain(e)'
  <2> DEFINE m == [type |-> "resync"]
  <2>1. m \in Up /\ m.type = "resync" /\ up[e] \in Seq(Up)
    BY DEF Up, Known, IInv, Types
  <2> HIDE DEF m
  <2>2. up'[e] = Append(up[e], m)
    BY DEF Known, IInv, Types, m
  <2>3. Len(up[e]) + 1 \in 1..Len(up'[e]) /\ up'[e][Len(up[e]) + 1] = m
    BY <2>1, <2>2, AppendIs
  <2> QED
    BY <2>1, <2>3 DEF AsksAgain
<1>7. Typed'
  BY <1>1, <1>2 DEF Known, VInv, Typed, contextVars, hydrationVars
<1>8. OfView'
  <2>1. \A d \in Attachments : d # e => up'[d] = up[d]
    BY DEF Known, IInv, Types
  <2>2. \A d \in Attachments : d # e => (AsksAgain(d)' <=> AsksAgain(d))
    BY <2>1 DEF AsksAgain
  <2>3. \A d \in Attachments : socket[d] \in {"ticket", "connecting"} => d # e
    BY <1>2 DEF Open
  <2> QED
    BY <1>1, <1>2, <2>2, <2>3, OfViewKeeps DEF Known, VInv
<1>9. /\ Growing(down'[e], Had(e)) /\ Ends(down'[e], seq[e], Had(e))
      /\ \A v, q : From(down[e], v, q) => From(down'[e], v, q)
      /\ \A v, q, n, had : EndsFrom(down[e], v, q, n, had) => EndsFrom(down'[e], v, q, n, had)
  BY <1>1, <1>3, <1>4, <1>5, AnyTaken, OthersTaken DEF Channel, Counted
<1>10. Counted(e)'
  BY <1>1, <1>4, <1>5, <1>9 DEF Channel, Counted
<1>11. Shows(e)'
  BY <1>1, <1>4, <1>9 DEF Channel, Shows, ShowsAfter
<1>12. ToldLast(e)'
  <2> SUFFICES ASSUME e \notin missed PROVE ToldLast(e)'
    BY <1>1 DEF ToldLast
  <2>1. LastIs(down[e], seq[e]) \/ NoneTold(down[e])
    BY <1>4, <1>5 DEF Channel, ToldLast
  <2>2. LastIs(down'[e], seq[e]) \/ NoneTold(down'[e])
    BY <1>1, <2>1, AnyTaken
  <2> QED
    BY <1>1, <1>6, <2>2 DEF ToldLast
<1> QED
  BY <1>1, <1>5, <1>7, <1>8, <1>10, <1>11, <1>12 DEF VInv, Unheard

LEMMA UpdateShows ==
  ASSUME Known, NEW e \in Attachments, TakeUpdate(e) PROVE VInv'
<1> DEFINE m == Head(down[e])
           r == changes[board[e]][m.of]
<1>1. Takes(e) /\ IsTold(m) /\ ~IsSnapshot(m) /\ runs' = runs
  BY DEF TakeUpdate, Incoming, Taken, Takes, IsTold, IsSnapshot
<1>2. CASE NeedsResync(m, r)
  BY <1>1, <1>2, GapAsks DEF TakeUpdate
<1>3. CASE ~NeedsResync(m, r)
  <2>1. store' = WithUpdate(m, r) /\ Hydrate(e) /\ up' = up
    BY <1>3 DEF TakeUpdate
  <2>2. Open(e) /\ down[e] # << >>
    BY <1>1 DEF Takes
  <2>3. store' = [board |-> view, seq |-> m.seq, runtimes |-> StateAt(view, m.of)]
    BY <1>1, <1>3, <2>1, <2>2, NextIsShown
  <2> QED
    BY <1>1, <2>1, <2>3, ToldShown
<1> QED
  BY <1>2, <1>3

LEMMA ResponseShows ==
  ASSUME Known, NEW e \in Attachments, TakeResponse(e) PROVE VInv'
<1>1. Takes(e) /\ ~IsTold(Head(down[e]))
  BY DEF TakeResponse, Incoming, Taken, Takes, IsTold
<1>2. runs' \in SUBSET Runs /\ UNCHANGED <<store, hydrated, hydratedFor, job, up>>
  BY DEF TakeResponse, contextVars, hydrationVars, Known, VInv, Typed
<1> QED
  BY <1>1, <1>2, OtherHeard

LEMMA ProcessShows ==
  ASSUME Known, NEW e \in Attachments, TakeProcess(e) PROVE VInv'
<1>1. Takes(e) /\ ~IsTold(Head(down[e]))
  BY DEF TakeProcess, Incoming, Taken, Takes, IsTold
<1>2. UNCHANGED <<store, hydrated, hydratedFor, job, up>>
  BY DEF TakeProcess, contextVars, hydrationVars
<1>3. Head(down[e]).runtime \in Ids
  <2>1. Head(down[e]) \in Down /\ Head(down[e]).type = "processRuntime"
    BY <1>1, HadIs, TailIs DEF Takes, TakeProcess, Incoming
  <2> QED
    BY <2>1 DEF Down, Told
<1>4. runs' \in SUBSET Runs
  BY <1>3 DEF TakeProcess, Runs, Known, VInv, Typed, IInv, Types
<1> QED
  BY <1>1, <1>2, <1>4, OtherHeard

-----------------------------------------------------------------------------
(* Every step keeps the invariant.                                         *)

LEMMA NothingIsShown ==
  ASSUME Init PROVE VInv
<1> USE BoardsAssumption
<1>1. << >> \in Seq(Runtimes) /\ << >> \in Seq(Down) /\ Len(<< >>) = 0
  OBVIOUS
<1>2. Typed
  BY <1>1 DEF Init, Typed, StoreStates, Versions, Runs
<1>3. \A e \in Attachments : ~Open(e) /\ socket[e] = "closed" /\ session[e] = None
  BY DEF Init, Open
<1> QED
  BY <1>2, <1>3 DEF Init, VInv, OfView

LEMMA ViewKeeps ==
  ASSUME Known, [Next]_vars PROVE VInv'
<1>1. CASE Person
  BY <1>1, OpenBoardShows, RefreshTokenShows, AskShows DEF Person
<1>2. ASSUME NEW e \in Attachments, Page(e) PROVE VInv'
  BY <1>2, ReconnectShows, TicketShows, SnapshotShows, UpdateShows, ResponseShows,
     ProcessShows, ReplaceShows DEF Page, Take
<1>3. ASSUME NEW e \in Attachments, Network(e) PROVE VInv'
  BY <1>3, OpeningShows, ClosingShows DEF Network, Closes
<1>4. ASSUME NEW e \in Attachments, Coordinator(e) PROVE VInv'
  BY <1>4, ConnectShows, ResyncShows, RequestShows, ResultShows, RetellShows, InputShows
  DEF Coordinator, Hear
<1>5. ASSUME NEW run \in runs, Resolve(run) PROVE VInv'
  BY <1>5, ResolveShows
<1>6. ASSUME NEW b \in Boards, NEW r \in Runtimes, Change(b, r) PROVE VInv'
  BY <1>6, ChangeShows
<1>7. CASE UNCHANGED vars
  BY <1>7, StutterShows
<1> QED
  BY <1>1, <1>2, <1>3, <1>4, <1>5, <1>6, <1>7 DEF Next

\* The invariants of the connection and of what is shown over it hold together.
THEOREM ViewInductive == Spec => []Known
<1>1. Init => Known
  BY Initially, NothingIsShown DEF Known, Init, MadeForBoards
<1>2. Known /\ [Next]_vars => Known'
  <2>1. ASSUME Known, [Next]_vars PROVE IInv' /\ MadeForBoards' /\ VInv'
    BY <2>1, StepKeeps, MadeKeeps, ViewKeeps DEF Known
  <2> QED
    BY <2>1 DEF Known
<1> QED
  BY <1>1, <1>2, PTL DEF Spec

\* Every variable of the hook, the store, the hydration and the wire keeps its
\* type: no update is numbered beyond the changes there were.
THEOREM TypeCorrect == Spec => []TypeOK
<1>1. Known => TypeOK
  BY DEF Known, VInv, Typed, IInv, Types, MadeForBoards, TypeOK
<1> QED
  BY ViewInductive, <1>1, PTL

\* When nothing is under way on the mounted bridge and its last update was
\* passed on, CoordinatorSnapshotStore holds the board that is open as it is
\* now: however often it was switched, dropped, told anew or missed updates
\* before, and wherever the coordinator starts to count.
THEOREM LatestIsShown == Spec => []ShownIsCurrent
<1>1. Known => ShownIsCurrent
  <2> SUFFICES ASSUME Known, NEW e \in Attachments, Quiet(e), e \notin missed
               PROVE  /\ store.board = view
                      /\ store.runtimes = StateAt(view, Len(changes[view]))
    BY DEF ShownIsCurrent
  <2>1. Open(e) /\ session[e] # None /\ Len(down[e]) = 0 /\ Len(up[e]) = 0
    BY DEF Quiet
  <2>2. Had(e) \in Nat /\ seq[e] \in Nat /\ board[e] = view
    BY <2>1, HadIs, OneIsOpen
  <2>3. ~LastIs(down[e], seq[e]) /\ ~AsksAgain(e)
    BY <2>1 DEF LastIs, AsksAgain
  <2>4. store # Empty /\ store.seq = seq[e]
    BY <2>1, <2>3 DEF Known, VInv, ToldLast
  <2>5. PICK v \in Nat : ShowsAfter(e, v)
    BY <2>1, <2>4 DEF Known, VInv, Shows
  <2>6. SameCount(down[e], 0, Len(down[e]))
    BY <2>1 DEF SameCount
  <2>7. v + seq[e] = Had(e) + seq[e]
    BY <2>4, <2>5, <2>6 DEF ShowsAfter, EndsFrom
  <2>8. v = Had(e)
    BY <2>2, <2>5, <2>7
  <2> QED
    BY <2>2, <2>4, <2>5, <2>8 DEF ShowsAfter, Had, Known, VInv, OfView
<1> QED
  BY ViewInductive, <1>1, PTL

-----------------------------------------------------------------------------
(* The page shows what BoardView promises.                                 *)

LEMMA SameLatest ==
  ASSUME NEW T PROVE Seen!Latest(T) = Latest(T)
BY DEF Seen!Latest, Latest

\* The state after some of the changes is the state of a prefix of them.
LEMMA PrefixState ==
  ASSUME NEW b, NEW n \in Nat, changes[b] \in Seq(Runtimes), n <= Len(changes[b])
  PROVE  Seen!StateOf(Seen!Upto(changes[b], n)) = StateAt(b, n)
<1> DEFINE h == SubSeq(changes[b], 1, n)
<1>1. Len(changes[b]) \in Nat
  OBVIOUS
<1>2. DOMAIN h = 1..n /\ \A i \in 1..n : h[i] = changes[b][i]
  BY <1>1
<1>3. \A r : {i \in DOMAIN h : h[i] = r} = {i \in 1..n : changes[b][i] = r}
  BY <1>2
<1> HIDE DEF h
<1>4. Seen!StateOf(h) = StateAt(b, n)
  BY <1>3, SameLatest DEF Seen!StateOf, StateAt
<1> QED
  BY <1>4 DEF Seen!Upto, h

LEMMA AgeIs ==
  ASSUME NEW b, NEW v \in Nat
  PROVE  Seen!Age(StateAt(b, v)) \in Nat /\ Seen!Age(StateAt(b, v)) <= v
<1> DEFINE T == {StateAt(b, v)[r] : r \in Runtimes}
<1>1. T \subseteq Nat /\ \A x \in T : x <= v
  BY StateIs
<1> HIDE DEF T
<1>2. Latest(T) \in 0..v
  BY <1>1, LatestIs
<1>3. Seen!Latest(T) \in 0..v
  BY <1>2, SameLatest
<1> QED
  BY <1>3 DEF Seen!Age, T

\* Taking a snapshot, or the update that is next, shows a later state.
LEMMA ToldIsSeen ==
  ASSUME Known, NEW e \in Attachments, Takes(e), IsTold(Head(down[e])),
         store' = [board |-> view, seq |-> Head(down[e]).seq,
                   runtimes |-> StateAt(view, Head(down[e]).of)]
  PROVE  Seen!Next
<1> DEFINE m == Head(down[e])
<1>1. /\ TakenFrom(down'[e], down[e]) /\ m = down[e][1] /\ IsTold(down[e][1])
      /\ Open(e) /\ view' = view /\ changes' = changes
  BY TakesFrom DEF Takes
<1>2. e = effect /\ board[e] = view /\ view \in Boards /\ view # None
  BY <1>1, OneIsOpen, BoardsAssumption
<1>3. Had(e) \in Nat /\ changes[view] \in Seq(Runtimes) /\ Had(e) = Len(changes[view])
  BY <1>1, <1>2, HadIs DEF Had
<1>4. Growing(down[e], Had(e)) /\ Shows(e)
  BY <1>1 DEF Known, VInv, Counted
<1>5. m.of \in Nat /\ m.of <= Had(e)
      /\ \A v, q \in Nat : From(down[e], v, q) => v <= m.of
  BY <1>1, <1>3, <1>4, ToldTaken
<1>6. store # Empty => Seen!Age(store.runtimes) <= m.of
  <2> SUFFICES ASSUME store # Empty PROVE Seen!Age(store.runtimes) <= m.of
    OBVIOUS
  <2>1. PICK v \in Nat : ShowsAfter(e, v)
    BY <1>4 DEF Shows
  <2>2. store.seq \in Nat
    BY DEF Known, VInv, Typed, StoreStates, Versions
  <2>3. v <= m.of
    BY <1>5, <2>1, <2>2 DEF ShowsAfter
  <2>4. Seen!Age(store.runtimes) \in Nat /\ Seen!Age(store.runtimes) <= v
    BY <2>1, AgeIs DEF ShowsAfter
  <2> QED
    BY <1>5, <2>1, <2>3, <2>4
<1> HIDE DEF m
<1>7. store' = [board |-> view, seq |-> m.seq, runtimes |-> StateAt(view, m.of)]
  BY DEF m
<1>8. store' # Empty
  <2>1. store'.board # Empty.board
    BY <1>2, <1>7 DEF Empty
  <2> QED
    BY <2>1
<1>9. StateAt(view, m.of) = Seen!StateOf(Seen!Upto(changes[view], m.of))
  BY <1>3, <1>5, PrefixState
<1>10. Seen!Show(m.of)
  BY <1>1, <1>2, <1>3, <1>5, <1>6, <1>7, <1>8, <1>9 DEF Seen!Show
<1>11. m.of \in 0..Len(changes[view])
  BY <1>3, <1>5
<1> QED
  BY <1>2, <1>10, <1>11 DEF Seen!Next

LEMMA StoreSeen ==
  ASSUME UNCHANGED <<view, changes>>, store' \in {store, Empty}
  PROVE  [Seen!Next]_(Seen!vars)
BY DEF Seen!Next, Seen!Forget, Seen!vars

LEMMA PersonSeen ==
  ASSUME Known, Person PROVE [Seen!Next]_(Seen!vars)
<1>1. ASSUME NEW b \in Boards \cup {None}, OpenBoard(b) PROVE Seen!Next
  <2>1. view' = b /\ changes' = changes /\ store' = Empty
    BY <1>1 DEF OpenBoard, Unmount, Remount, Cleanup, Clear
  <2>2. Seen!Switch(b)
    BY <2>1 DEF Seen!Switch
  <2> QED
    BY <2>2 DEF Seen!Next
<1>2. CASE RefreshToken
  BY <1>2, StoreSeen DEF RefreshToken, Remount, Cleanup, Clear
<1>3. ASSUME NEW r \in Requests, Ask(r) PROVE [Seen!Next]_(Seen!vars)
  BY <1>3, StoreSeen DEF Ask
<1> QED
  BY <1>1, <1>2, <1>3 DEF Person

LEMMA TakeSeen ==
  ASSUME Known, NEW e \in Attachments, Take(e) PROVE [Seen!Next]_(Seen!vars)
<1>1. CASE TakeSnapshot(e)
  <2>1. Takes(e) /\ IsTold(Head(down[e])) /\ board[e] = view
    BY <1>1, OneIsOpen DEF TakeSnapshot, Incoming, Taken, Takes, IsTold
  <2>2. store' = [board |-> view, seq |-> Head(down[e]).seq,
                  runtimes |-> StateAt(view, Head(down[e]).of)]
    BY <1>1, <2>1 DEF TakeSnapshot, WithSnapshot
  <2> QED
    BY <2>1, <2>2, ToldIsSeen
<1>2. CASE TakeUpdate(e)
  <2> DEFINE m == Head(down[e])
             r == changes[board[e]][m.of]
  <2>1. Takes(e) /\ IsTold(m) /\ ~IsSnapshot(m)
    BY <1>2 DEF TakeUpdate, Incoming, Taken, Takes, IsTold, IsSnapshot
  <2>2. CASE NeedsResync(m, r)
    BY <1>2, <2>2, StoreSeen DEF TakeUpdate
  <2>3. CASE ~NeedsResync(m, r)
    <3>1. store' = WithUpdate(m, r) /\ Open(e) /\ down[e] # << >>
      BY <1>2, <2>1, <2>3 DEF TakeUpdate, Takes
    <3>2. store' = [board |-> view, seq |-> m.seq, runtimes |-> StateAt(view, m.of)]
      BY <2>1, <2>3, <3>1, NextIsShown
    <3> QED
      BY <2>1, <3>2, ToldIsSeen
  <2> QED
    BY <2>2, <2>3
<1>3. CASE TakeResponse(e) \/ TakeProcess(e)
  BY <1>3, StoreSeen DEF TakeResponse, TakeProcess
<1> QED
  BY <1>1, <1>2, <1>3 DEF Take

LEMMA StepSeen ==
  ASSUME Known, [Next]_vars PROVE [Seen!Next]_(Seen!vars)
<1>1. CASE Person
  BY <1>1, PersonSeen
<1>2. ASSUME NEW e \in Attachments, Page(e) PROVE [Seen!Next]_(Seen!vars)
  <2>1. CASE Reconnect(e)
    BY <2>1, StoreSeen DEF Reconnect, Remount, Cleanup, Clear
  <2>2. CASE TicketComes(e)
    BY <2>2, StoreSeen DEF TicketComes
  <2>3. CASE Take(e)
    BY <2>3, TakeSeen
  <2>4. CASE Replace(e)
    BY <2>4, StoreSeen DEF Replace, LinkFails, RemoveRuntimes, RestoreBoard
  <2> QED
    BY <1>2, <2>1, <2>2, <2>3, <2>4 DEF Page
<1>3. ASSUME NEW e \in Attachments, Network(e) PROVE [Seen!Next]_(Seen!vars)
  BY <1>3, StoreSeen DEF Network, Closes, SocketOpens, SocketCloses, Clear
<1>4. ASSUME NEW e \in Attachments, Coordinator(e) PROVE [Seen!Next]_(Seen!vars)
  BY <1>4, StoreSeen DEF Coordinator, Hear, HearConnect, HearResync, HearRequest,
     HearResult, Retell, AskRuntime
<1>5. ASSUME NEW run \in runs, Resolve(run) PROVE [Seen!Next]_(Seen!vars)
  BY <1>5, StoreSeen DEF Resolve
<1>6. ASSUME NEW b \in Boards, NEW r \in Runtimes, Change(b, r) PROVE Seen!Next
  <2>1. Seen!Change(b, r)
    BY <1>6 DEF Change, Seen!Change
  <2> QED
    BY <2>1 DEF Seen!Next
<1>7. CASE UNCHANGED vars
  BY <1>7, StoreSeen DEF vars
<1> QED
  BY <1>1, <1>2, <1>3, <1>4, <1>5, <1>6, <1>7 DEF Next

\* CoordinatorSnapshotStore implements BoardView: what it holds is nothing or a
\* state the board that is open really had, and never an earlier one than it has
\* held since it last held nothing.
THEOREM Refines == Spec => ShowsWhatWas
<1>1. Init => Seen!Init
  BY DEF Init, Seen!Init
<1>2. Known /\ [Next]_vars => [Seen!Next]_(Seen!vars)
  BY StepSeen
<1> QED
  BY ViewInductive, <1>1, <1>2, PTL DEF Spec, ShowsWhatWas, Seen!Spec

=============================================================================
