------------------------- MODULE RuntimePassesProofs -------------------------
(***************************************************************************)
(* Proofs about RuntimePasses, for every pipeline, every number of threads *)
(* and passes of any depth: in whose run a service is called and an answer *)
(* handed on, and, as long as passes stood beside each other on no two     *)
(* threads, what the depth counts and which results leave.                 *)
(***************************************************************************)
EXTENDS RuntimePasses, TLAPS, SequenceTheorems

-----------------------------------------------------------------------------
(* The frames of one thread.                                               *)

\* They are of one run; one that is inside a service is in processFrom, at a
\* service; those below the innermost wait for it, in process() or inside a
\* service; and at most the outermost has a callback.
Nested(frames) ==
  /\ \A i \in 1..Len(frames) : frames[i].run = frames[1].run
  /\ \A i \in 1..Len(frames) :
       frames[i].pc = "inside" => frames[i].kind = "from" /\ frames[i].at <= Size
  /\ \A i \in 2..Len(frames) :
       frames[i].pc = IF frames[i].kind = "process" THEN "next" ELSE "inside"
  /\ \A i \in 1..Len(frames) : frames[i].awaits => i = Len(frames)

\* Some frame has a callback that waits for the result of run r.
Waits(frames, r) ==
  \E i \in 1..Len(frames) : frames[i].awaits /\ frames[i].run = r

\* The updates of a frame, and what they leave of it.
LEMMA FrameMoves ==
  ASSUME NEW f \in Frame, NEW n \in Int,
         NEW pc \in {"begin", "beginning", "next", "inside", "returned", "end", "ending"}
  PROVE  LET g == [f EXCEPT !.pc = pc, !.n = n] IN
         /\ g \in Frame /\ g.run = f.run /\ g.awaits = f.awaits
         /\ g.kind = f.kind /\ g.at = f.at /\ g.pc = pc /\ g.n = n
BY DEF Frame

LEMMA FrameEnds ==
  ASSUME NEW f \in Frame, NEW val \in {"none", "null", "value"}
  PROVE  LET g == Ending(f, val) IN
         /\ g \in Frame /\ g.run = f.run /\ g.awaits = f.awaits /\ g.pc = "end"
BY DEF Frame, Ending

LEMMA FrameEndsUnawaited ==
  ASSUME NEW f \in Frame, NEW val \in {"none", "null", "value"}
  PROVE  LET g == Ending([f EXCEPT !.awaits = FALSE], val) IN
         /\ g \in Frame /\ g.run = f.run /\ ~g.awaits /\ g.pc = "end"
<1> DEFINE h == [f EXCEPT !.awaits = FALSE]
<1>1. h \in Frame /\ h.run = f.run /\ ~h.awaits
  BY DEF Frame
<1> QED
  BY <1>1, FrameEnds

\* What a step makes of the frames of a thread: they stay nested, in the run
\* they were in, and no callback is added.
Derived(new, frames) ==
  /\ new \in Seq(Frame) /\ Nested(new)
  /\ new # << >> => new[1].run = frames[1].run
  /\ \A r : Waits(new, r) => Waits(frames, r)

LEMMA ReplaceTop ==
  ASSUME NEW s \in Seq(Frame), s # << >>, NEW f \in Frame
  PROVE  LET new == << f >> \o Tail(s) IN
         /\ new \in Seq(Frame) /\ new # << >>
         /\ Len(s) \in Nat \ {0} /\ Len(new) = Len(s)
         /\ Head(new) = f /\ new[1] = f
         /\ \A i \in 2..Len(s) : new[i] = s[i]
         /\ Head(s) = s[1] /\ s[1] \in Frame
<1> DEFINE new == << f >> \o Tail(s)
<1>1. /\ Tail(s) \in Seq(Frame) /\ Len(s) \in Nat \ {0}
      /\ Len(Tail(s)) = Len(s) - 1
      /\ \A i \in 1..Len(Tail(s)) : Tail(s)[i] = s[i + 1]
      /\ Head(s) = s[1] /\ s[1] \in Frame
  BY HeadTailProperties, EmptySeq
<1>2. /\ << f >> \in Seq(Frame) /\ Len(<< f >>) = 1 /\ << f >>[1] = f
  OBVIOUS
<1>3. /\ new \in Seq(Frame) /\ Len(new) = 1 + Len(Tail(s))
      /\ \A i \in 1..(1 + Len(Tail(s))) :
           new[i] = IF i <= 1 THEN << f >>[i] ELSE Tail(s)[i - 1]
  BY <1>1, <1>2, ConcatProperties
<1> HIDE DEF new
<1>4. Len(new) = Len(s) /\ new # << >> /\ new[1] = f /\ Head(new) = f
  BY <1>1, <1>2, <1>3
<1>5. \A i \in 2..Len(s) : new[i] = s[i]
  BY <1>1, <1>3
<1> QED
  BY <1>1, <1>3, <1>4, <1>5 DEF new

LEMMA PushTop ==
  ASSUME NEW s \in Seq(Frame), NEW f \in Frame
  PROVE  LET new == << f >> \o s IN
         /\ new \in Seq(Frame) /\ new # << >>
         /\ Len(s) \in Nat /\ Len(new) = Len(s) + 1
         /\ Head(new) = f /\ new[1] = f
         /\ \A i \in 2..(Len(s) + 1) : new[i] = s[i - 1]
<1> DEFINE new == << f >> \o s
<1>1. /\ << f >> \in Seq(Frame) /\ Len(<< f >>) = 1 /\ << f >>[1] = f
      /\ Len(s) \in Nat
  OBVIOUS
<1>2. /\ new \in Seq(Frame) /\ Len(new) = 1 + Len(s)
      /\ \A i \in 1..(1 + Len(s)) :
           new[i] = IF i <= 1 THEN << f >>[i] ELSE s[i - 1]
  BY <1>1, ConcatProperties
<1> HIDE DEF new
<1>3. new # << >> /\ new[1] = f /\ Head(new) = f
  BY <1>1, <1>2
<1> QED
  BY <1>1, <1>2, <1>3 DEF new

\* Replacing the innermost frame by one of the same run.
LEMMA TopDerives ==
  ASSUME NEW s \in Seq(Frame), s # << >>, Nested(s), NEW f \in Frame,
         f.run = s[1].run, f.awaits => s[1].awaits,
         f.pc = "inside" => f.kind = "from" /\ f.at <= Size
  PROVE  Derived(<< f >> \o Tail(s), s)
<1> DEFINE new == << f >> \o Tail(s)
<1>1. /\ new \in Seq(Frame) /\ new # << >>
      /\ Len(s) \in Nat \ {0} /\ Len(new) = Len(s)
      /\ new[1] = f /\ \A i \in 2..Len(s) : new[i] = s[i]
  BY ReplaceTop
<1> HIDE DEF new
<1>2. \A i \in 1..Len(s) : i = 1 \/ i \in 2..Len(s)
  BY <1>1
<1>3. Nested(new)
  <2>1. \A i \in 1..Len(new) : new[i].run = new[1].run
    BY <1>1, <1>2 DEF Nested
  <2>2. \A i \in 1..Len(new) :
          new[i].pc = "inside" => new[i].kind = "from" /\ new[i].at <= Size
    BY <1>1, <1>2 DEF Nested
  <2>3. \A i \in 2..Len(new) :
          new[i].pc = IF new[i].kind = "process" THEN "next" ELSE "inside"
    BY <1>1 DEF Nested
  <2>4. \A i \in 1..Len(new) : new[i].awaits => i = Len(new)
    BY <1>1, <1>2 DEF Nested
  <2> QED
    BY <2>1, <2>2, <2>3, <2>4 DEF Nested
<1>4. \A r : Waits(new, r) => Waits(s, r)
  BY <1>1, <1>2 DEF Waits
<1> QED
  BY <1>1, <1>3, <1>4 DEF Derived, new

\* A call from the innermost frame, in its run.
LEMMA PushDerives ==
  ASSUME NEW s \in Seq(Frame), s # << >>, Nested(s), NEW f \in Frame,
         f.run = s[1].run, ~f.awaits, f.pc # "inside",
         s[1].pc = IF s[1].kind = "process" THEN "next" ELSE "inside"
  PROVE  Derived(<< f >> \o s, s)
<1> DEFINE new == << f >> \o s
<1>1. /\ new \in Seq(Frame) /\ new # << >>
      /\ Len(s) \in Nat /\ Len(new) = Len(s) + 1
      /\ new[1] = f /\ \A i \in 2..(Len(s) + 1) : new[i] = s[i - 1]
  BY PushTop
<1> HIDE DEF new
<1>2. \A i \in 1..Len(new) : i = 1 \/ (i \in 2..Len(new) /\ i - 1 \in 1..Len(s))
  BY <1>1
<1>3. \A i \in 2..Len(new) : i - 1 = 1 \/ i - 1 \in 2..Len(s)
  BY <1>1
<1>4. Nested(new)
  <2>1. \A i \in 1..Len(new) : new[i].run = new[1].run
    BY <1>1, <1>2 DEF Nested
  <2>2. \A i \in 1..Len(new) :
          new[i].pc = "inside" => new[i].kind = "from" /\ new[i].at <= Size
    BY <1>1, <1>2 DEF Nested
  <2>3. \A i \in 2..Len(new) :
          new[i].pc = IF new[i].kind = "process" THEN "next" ELSE "inside"
    BY <1>1, <1>3 DEF Nested
  <2>4. \A i \in 1..Len(new) : new[i].awaits => i = Len(new)
    BY <1>1, <1>2 DEF Nested
  <2> QED
    BY <2>1, <2>2, <2>3, <2>4 DEF Nested
<1>5. \A r : Waits(new, r) => Waits(s, r)
  BY <1>1, <1>2 DEF Waits
<1> QED
  BY <1>1, <1>4, <1>5 DEF Derived, new

\* The innermost frame returns to its caller.
LEMMA ReturnDerives ==
  ASSUME NEW s \in Seq(Frame), s # << >>, Nested(s),
         NEW val \in {"none", "null", "value"}
  PROVE  LET new == Returned(Tail(s), val) IN
         /\ Derived(new, s)
         /\ Len(s) \in Nat \ {0} /\ Len(new) = Len(s) - 1
         /\ new # << >> => Head(new).pc \in {"end", "inside"}
         /\ s[1].awaits => new = << >>
<1> DEFINE u == Tail(s)
           new == Returned(u, val)
<1>1. /\ u \in Seq(Frame) /\ Len(s) \in Nat \ {0} /\ Len(u) = Len(s) - 1
      /\ \A i \in 1..Len(u) : u[i] = s[i + 1]
      /\ u = << >> <=> Len(u) = 0
      /\ u # << >> => Head(u) = u[1] /\ u[1] \in Frame
  <2>1. /\ u \in Seq(Frame) /\ Len(s) \in Nat \ {0} /\ Len(u) = Len(s) - 1
        /\ \A i \in 1..Len(u) : u[i] = s[i + 1]
    BY HeadTailProperties, EmptySeq
  <2> HIDE DEF u
  <2>2. u = << >> <=> Len(u) = 0
    BY <2>1
  <2>3. u # << >> => Head(u) = u[1] /\ u[1] \in Frame
    BY <2>1
  <2> QED
    BY <2>1, <2>2, <2>3
<1> HIDE DEF u
<1>2. \A i \in 1..Len(u) : i + 1 \in 2..Len(s)
  BY <1>1
<1>3. /\ Nested(u) /\ \A r : Waits(u, r) => Waits(s, r)
      /\ u # << >> => u[1].run = s[1].run
      /\ u # << >> => u[1].pc = IF u[1].kind = "process" THEN "next" ELSE "inside"
  <2>1. \A i \in 1..Len(u) : i + 1 \in 1..Len(s)
    BY <1>1
  <2>2. \A i \in 1..Len(u) : u[i].run = s[1].run
    BY <1>1, <2>1 DEF Nested
  <2>3. \A i \in 1..Len(u) :
          u[i].pc = IF u[i].kind = "process" THEN "next" ELSE "inside"
    BY <1>1, <1>2 DEF Nested
  <2>4. \A i \in 1..Len(u) :
          u[i].pc = "inside" => u[i].kind = "from" /\ u[i].at <= Size
    BY <1>1, <2>1 DEF Nested
  <2>5. \A i \in 1..Len(u) : u[i].awaits => i = Len(u)
    BY <1>1, <2>1 DEF Nested
  <2>6. Len(u) > 0 => 1 \in 1..Len(u)
    BY <1>1
  <2>7. Nested(u)
    <3>1. \A i \in 1..Len(u) : u[i].run = u[1].run
      BY <1>1, <2>2, <2>6
    <3>2. \A i \in 2..Len(u) :
            u[i].pc = IF u[i].kind = "process" THEN "next" ELSE "inside"
      BY <1>1, <2>3
    <3> QED
      BY <2>4, <2>5, <3>1, <3>2 DEF Nested
  <2>8. \A r : Waits(u, r) => Waits(s, r)
    BY <1>1, <2>1 DEF Waits
  <2> QED
    BY <1>1, <2>2, <2>3, <2>6, <2>7, <2>8
<1>4. s[1].awaits => u = << >>
  BY <1>1 DEF Nested
<1>5. CASE u # << >> /\ Head(u).kind = "process"
  <2> DEFINE f == Ending(u[1], val)
  <2>1. new = << f >> \o Tail(u)
    BY <1>1, <1>5 DEF Returned
  <2>2. /\ f \in Frame /\ f.run = u[1].run /\ f.awaits = u[1].awaits
        /\ f.pc = "end"
    BY <1>1, <1>5 DEF Ending, Frame
  <2> HIDE DEF f, new
  <2>3. Derived(new, u)
    BY <1>1, <1>3, <1>5, <2>1, <2>2, TopDerives
  <2>4. Len(new) = Len(u) /\ new # << >> /\ Head(new) = f
    BY <1>1, <1>5, <2>1, <2>2, ReplaceTop
  <2>5. Derived(new, s)
    BY <1>3, <1>5, <2>3 DEF Derived
  <2> QED
    BY <1>1, <1>4, <1>5, <2>2, <2>4, <2>5 DEF new, u
<1>6. CASE ~(u # << >> /\ Head(u).kind = "process")
  <2>1. new = u
    BY <1>6 DEF Returned
  <2>2. Derived(u, s)
    BY <1>1, <1>3 DEF Derived
  <2>3. u # << >> => Head(u).pc = "inside"
    BY <1>1, <1>3, <1>6
  <2> QED
    BY <1>1, <1>4, <2>1, <2>2, <2>3 DEF u
<1> QED
  BY <1>5, <1>6

-----------------------------------------------------------------------------
(* The inductive invariant.                                                *)

Threaded == \A t \in Threads : Nested(stack[t])

\* The callback of a run is in one place: the outermost frame of one thread, or
\* a slot, or it was called.
Waiting ==
  /\ \A t, u \in Threads : \A r \in Runs :
       Waits(stack[t], r) /\ Waits(stack[u], r) => t = u
  /\ \A t \in Threads : \A r \in Runs :
       Waits(stack[t], r) =>
         r <= runs /\ answers[r] = 0 /\ \A i \in Slots : pending[i] # r
  /\ \A i, j \in Slots : pending[i] # None /\ pending[i] = pending[j] => i = j
  /\ \A i \in Slots :
       pending[i] # None => pending[i] <= runs /\ answers[pending[i]] = 0
  /\ \A r \in Runs : answers[r] # 0 => r <= runs

\* A worker has a call while its service is at work, and passes only while it
\* hands on the answer, in the run of that call.
Working ==
  \A s \in Async :
    /\ stage[s] = "idle" <=> s \notin generating
    /\ stage[s] # "idle" => job[s] \in Runs
    /\ deferred[s] # None => deferred[s] = job[s] /\ stage[s] \in {"working", "over"}
    /\ stage[s] # "emitting" => stack[Worker[s]] = << >>
    /\ stack[Worker[s]] # << >> => stack[Worker[s]][1].run = job[s]

\* Passes stand on one thread, and the depth a pass has read is still the depth.
Alone ==
  ~disturbed =>
    /\ \A t, u \in Threads : stack[t] # << >> /\ stack[u] # << >> => t = u
    /\ \A t \in Threads :
         stack[t] # << >> /\ Top(t).pc \in {"beginning", "ending"} => Top(t).n = depth

IInv ==
  /\ TypeOK /\ Threaded /\ Waiting /\ Working /\ Alone
  /\ DepthIsNesting /\ HeardIsFinished

-----------------------------------------------------------------------------
(* What a step of one thread keeps.                                        *)

\* The thread of a worker is one of its own.
LEMMA WorkersAre ==
  /\ \A s \in Async : Worker[s] \in Threads /\ Worker[s] \notin Callers
  /\ \A s, r \in Async : Worker[s] = Worker[r] => s = r
BY WorkerAssumption DEF Threads, Workers

LEMMA FramesMove ==
  ASSUME IInv, NEW t \in Threads, NEW new, Derived(new, stack[t]),
         stack' = [stack EXCEPT ![t] = new]
  PROVE  /\ stack' \in [Threads -> Seq(Frame)] /\ Threaded'
         /\ stack'[t] = new /\ \A u \in Threads \ {t} : stack'[u] = stack[u]
         /\ \A u \in Threads : \A r : Waits(stack'[u], r) => Waits(stack[u], r)
<1>1. /\ stack' \in [Threads -> Seq(Frame)]
      /\ stack'[t] = new /\ \A u \in Threads \ {t} : stack'[u] = stack[u]
  BY DEF IInv, TypeOK, Derived
<1>2. Threaded'
  BY <1>1 DEF IInv, Threaded, Derived, Nested
<1>3. \A u \in Threads : \A r : Waits(stack'[u], r) => Waits(stack[u], r)
  BY <1>1 DEF Derived
<1> QED
  BY <1>1, <1>2, <1>3

LEMMA ThreadsMove ==
  ASSUME IInv, NEW t \in Threads, NEW new, Derived(new, stack[t]),
         stack' = [stack EXCEPT ![t] = new],
         UNCHANGED << runs, pending, answers >>
  PROVE  stack' \in [Threads -> Seq(Frame)] /\ Threaded' /\ Waiting'
<1>1. \A u \in Threads : \A r : Waits(stack'[u], r) => Waits(stack[u], r)
  BY FramesMove
<1>2. \A u \in Threads : \A r \in Runs : Waits(stack[u], r)' => Waits(stack[u], r)
  BY <1>1 DEF Waits
<1>3. Waiting'
  BY <1>2 DEF IInv, Waiting
<1> QED
  BY <1>3, FramesMove

LEMMA WorkersMove ==
  ASSUME IInv, NEW t \in Threads, stack[t] # << >>, NEW new,
         Derived(new, stack[t]), stack' = [stack EXCEPT ![t] = new],
         UNCHANGED << generating, job, stage, deferred >>
  PROVE  Working'
<1> SUFFICES ASSUME NEW s \in Async
             PROVE  /\ stage[s] # "emitting" => stack'[Worker[s]] = << >>
                    /\ stack'[Worker[s]] # << >> => stack'[Worker[s]][1].run = job[s]
  BY DEF IInv, Working
<1>1. stack \in [Threads -> Seq(Frame)] /\ Worker[s] \in Threads
  BY WorkersAre DEF IInv, TypeOK
<1>2. CASE Worker[s] = t
  BY <1>1, <1>2 DEF IInv, Working, Derived
<1>3. CASE Worker[s] # t
  BY <1>1, <1>3 DEF IInv, Working
<1> QED
  BY <1>2, <1>3

LEMMA DepthMoves ==
  ASSUME IInv, NEW t \in Threads, stack[t] # << >>, NEW new \in Seq(Frame),
         stack' = [stack EXCEPT ![t] = new], disturbed' = disturbed,
         ~disturbed =>
           /\ depth' = Counted(new)
           /\ new # << >> /\ Head(new).pc \in {"beginning", "ending"}
                => Head(new).n = depth'
  PROVE  Alone' /\ DepthIsNesting'
<1>1. CASE disturbed
  BY <1>1 DEF Alone, DepthIsNesting
<1>2. CASE ~disturbed
  <2>1. stack'[t] = new /\ \A u \in Threads \ {t} : stack'[u] = << >>
    BY <1>2 DEF IInv, TypeOK, Alone
  <2>2. Alone'
    BY <1>2, <2>1 DEF Alone, Top
  <2>3. \A u \in Threads : stack'[u] # << >> => depth' = Counted(stack'[u])
    BY <1>2, <2>1
  <2>4. (\A u \in Threads : stack'[u] = << >>) => depth' = 0
    BY <1>2, <2>1 DEF Counted
  <2>5. DepthIsNesting'
    BY <2>3, <2>4 DEF DepthIsNesting, Counted
  <2> QED
    BY <2>2, <2>5
<1> QED
  BY <1>1, <1>2

\* A step that moves one thread's frames and nothing of workers and results.
LEMMA Moves ==
  ASSUME IInv, NEW t \in Threads, stack[t] # << >>, NEW new,
         Derived(new, stack[t]), stack' = [stack EXCEPT ![t] = new],
         depth' \in Int,
         ~disturbed =>
           /\ depth' = Counted(new)
           /\ new # << >> /\ Head(new).pc \in {"beginning", "ending"}
                => Head(new).n = depth',
         handedOver' \subseteq Async, bracket' \in [Services -> Int],
         UNCHANGED << runs, workVars, resultVars, disturbed >>
  PROVE  IInv'
<1>1. /\ UNCHANGED << runs, generating, job, stage, deferred, finished, heard,
                      pending, answers, disturbed >>
      /\ new \in Seq(Frame)
  BY DEF workVars, resultVars, Derived
<1>2. stack' \in [Threads -> Seq(Frame)] /\ Threaded' /\ Waiting'
  BY <1>1, ThreadsMove
<1>3. Working'
  BY <1>1, WorkersMove
<1>4. Alone' /\ DepthIsNesting'
  BY <1>1, DepthMoves
<1>5. TypeOK'
  BY <1>1, <1>2 DEF IInv, TypeOK
<1>6. HeardIsFinished'
  BY <1>1 DEF IInv, HeardIsFinished
<1> QED
  BY <1>2, <1>3, <1>4, <1>5, <1>6 DEF IInv

LEMMA TopIs ==
  ASSUME IInv, NEW t \in Threads, stack[t] # << >>
  PROVE  /\ stack[t] \in Seq(Frame) /\ Nested(stack[t])
         /\ Len(stack[t]) \in Nat \ {0}
         /\ Top(t) = stack[t][1] /\ Top(t) \in Frame
         /\ ~disturbed =>
              /\ depth = IF Top(t).pc \in {"begin", "beginning"}
                           THEN Len(stack[t]) - 1 ELSE Len(stack[t])
              /\ Top(t).pc \in {"beginning", "ending"} => Top(t).n = depth
<1>1. stack[t] \in Seq(Frame) /\ Nested(stack[t])
  BY DEF IInv, TypeOK, Threaded
<1>2. Len(stack[t]) \in Nat \ {0}
  BY <1>1, EmptySeq
<1>3. Top(t) = stack[t][1] /\ Top(t) \in Frame
  BY <1>1, <1>2 DEF Top
<1>4. ~disturbed => depth = Counted(stack[t])
  BY DEF IInv, DepthIsNesting
<1> QED
  BY <1>1, <1>2, <1>3, <1>4 DEF IInv, Alone, Counted, Top

\* The end of a call that is announced leaves a count of each service.
LEMMA CountsStay ==
  ASSUME NEW b \in [Services -> Int], NEW s
  PROVE  [b EXCEPT ![s] = @ - 1] \in [Services -> Int]
<1>1. CASE s \in Services
  BY <1>1
<1>2. CASE s \notin Services
  <2>1. \A x \in Services : [b EXCEPT ![s] = @ - 1][x] = b[x]
    BY <1>2
  <2> QED
    BY <2>1
<1> QED
  BY <1>1, <1>2

\* A step that replaces the innermost frame.
LEMMA TopMoves ==
  ASSUME IInv, NEW t \in Threads, stack[t] # << >>, NEW f \in Frame,
         SetTop(t, f), f.run = Top(t).run, f.awaits => Top(t).awaits,
         f.pc = "inside" => f.kind = "from" /\ f.at <= Size,
         depth' \in Int,
         ~disturbed =>
           /\ depth' = IF f.pc \in {"begin", "beginning"}
                         THEN Len(stack[t]) - 1 ELSE Len(stack[t])
           /\ f.pc \in {"beginning", "ending"} => f.n = depth',
         handedOver' \subseteq Async, bracket' \in [Services -> Int],
         UNCHANGED << runs, workVars, resultVars, disturbed >>
  PROVE  IInv'
<1> DEFINE new == << f >> \o Tail(stack[t])
<1>1. Derived(new, stack[t])
  BY TopIs, TopDerives
<1>2. /\ new # << >> /\ Head(new) = f /\ Len(new) = Len(stack[t])
  BY TopIs, ReplaceTop
<1>3. stack' = [stack EXCEPT ![t] = new]
  BY DEF SetTop
<1> HIDE DEF new
<1>4. ~disturbed =>
        /\ depth' = Counted(new)
        /\ Head(new).pc \in {"beginning", "ending"} => Head(new).n = depth'
  BY <1>2 DEF Counted
<1> QED
  BY <1>1, <1>3, <1>4, Moves

\* One that does so within the pass, after onProcessBegin and before the end.
LEMMA TopGoesOn ==
  ASSUME IInv, NEW t \in Threads, stack[t] # << >>,
         Top(t).pc \notin {"begin", "beginning"}, NEW f \in Frame,
         f.pc \in {"next", "inside", "returned", "end"},
         SetTop(t, f), f.run = Top(t).run, f.awaits => Top(t).awaits,
         f.pc = "inside" => f.kind = "from" /\ f.at <= Size, depth' = depth,
         handedOver' \subseteq Async, bracket' \in [Services -> Int],
         UNCHANGED << runs, workVars, resultVars, disturbed >>
  PROVE  IInv'
<1>1. depth' \in Int /\ (~disturbed => depth' = Len(stack[t]))
  BY TopIs DEF IInv, TypeOK
<1> QED
  BY <1>1, TopMoves

LEMMA BeginReadKeeps ==
  ASSUME IInv, NEW t \in Threads, BeginRead(t) PROVE IInv'
<1> DEFINE f == [Top(t) EXCEPT !.pc = "beginning", !.n = depth]
<1>1. stack[t] # << >> /\ Top(t).pc = "begin"
  BY DEF BeginRead, At
<1>2. /\ f \in Frame /\ f.run = Top(t).run /\ f.awaits = Top(t).awaits
      /\ f.pc = "beginning" /\ f.n = depth
  <2>1. PICK g \in Frame : g = Top(t)
    BY <1>1, TopIs
  <2>2. PICK n \in Int : n = depth
    BY DEF IInv, TypeOK
  <2> QED
    BY <2>1, <2>2 DEF Frame
<1>3. /\ SetTop(t, f) /\ depth' = depth /\ depth \in Int
      /\ UNCHANGED << runs, workVars, callVars, resultVars, disturbed >>
  BY DEF BeginRead, IInv, TypeOK
<1>4. handedOver' \subseteq Async /\ bracket' \in [Services -> Int]
  BY <1>3 DEF callVars, IInv, TypeOK
<1> HIDE DEF f
<1> QED
  BY <1>1, <1>2, <1>3, <1>4, TopIs, TopMoves

LEMMA BeginWriteKeeps ==
  ASSUME IInv, NEW t \in Threads, BeginWrite(t) PROVE IInv'
<1> DEFINE f == [Top(t) EXCEPT !.pc = "next", !.n = 0]
<1>1. stack[t] # << >> /\ Top(t).pc = "beginning"
  BY DEF BeginWrite, At
<1>2. /\ f \in Frame /\ f.run = Top(t).run /\ f.awaits = Top(t).awaits
      /\ f.pc = "next"
  <2>1. PICK g \in Frame : g = Top(t)
    BY <1>1, TopIs
  <2>2. PICK n \in Int : n = 0
    OBVIOUS
  <2> QED
    BY <2>1, <2>2 DEF Frame
<1>3. /\ SetTop(t, f) /\ depth' = Top(t).n + 1 /\ Top(t).n \in Int
      /\ UNCHANGED << runs, workVars, callVars, resultVars, disturbed >>
  BY <1>1, TopIs DEF BeginWrite, Frame
<1>4. handedOver' \subseteq Async /\ bracket' \in [Services -> Int]
  BY <1>3 DEF callVars, IInv, TypeOK
<1> HIDE DEF f
<1>5. depth' \in Int /\ (~disturbed => depth' = Len(stack[t]))
  BY <1>1, <1>3, TopIs
<1> QED
  BY <1>1, <1>2, <1>3, <1>4, <1>5, TopIs, TopMoves

\* A new frame in the run of the innermost one.
LEMMA PushMoves ==
  ASSUME IInv, NEW t \in Threads, stack[t] # << >>, NEW f \in Frame,
         NEW s \in Seq(Frame), s # << >>, Derived(s, stack[t]),
         Len(s) = Len(stack[t]),
         Top(t).pc \notin {"begin", "beginning"},
         s[1].pc = IF s[1].kind = "process" THEN "next" ELSE "inside",
         f.run = Top(t).run, ~f.awaits, f.pc = "begin",
         stack' = [stack EXCEPT ![t] = << f >> \o s],
         UNCHANGED << depth, runs, workVars, callVars, resultVars, disturbed >>
  PROVE  IInv'
<1> DEFINE new == << f >> \o s
<1>1. Nested(s) /\ f.run = s[1].run
  BY TopIs DEF Derived
<1>2. Derived(new, s)
  BY <1>1, PushDerives
<1>3. /\ new # << >> /\ Head(new) = f /\ Len(new) = Len(s) + 1
  BY PushTop
<1> HIDE DEF new
<1>4. Derived(new, stack[t])
  BY <1>2 DEF Derived
<1>5. ~disturbed => depth' = Counted(new)
  BY <1>3, TopIs DEF Counted
<1>6. /\ handedOver' \subseteq Async /\ bracket' \in [Services -> Int]
      /\ depth' \in Int
  BY DEF callVars, IInv, TypeOK
<1> QED
  BY <1>3, <1>4, <1>5, <1>6, Moves DEF new

\* A frame that has just been made.
LEMMA NewFrameIs ==
  ASSUME NEW kind \in {"process", "from"}, NEW r \in Runs,
         NEW at \in 1..(Size + 1)
  PROVE  LET f == NewFrame(kind, r, at, FALSE) IN
         /\ f \in Frame /\ f.run = r /\ ~f.awaits /\ f.pc = "begin"
         /\ f.kind = kind
BY DEF NewFrame, Frame

LEMMA EnterKeeps ==
  ASSUME IInv, NEW t \in Threads, Enter(t) PROVE IInv'
<1>1. /\ stack[t] # << >> /\ Top(t).pc = "next" /\ Top(t).kind = "process"
      /\ UNCHANGED << depth, runs, workVars, callVars, resultVars, disturbed >>
  BY DEF Enter, At
<1>2. /\ handedOver' \subseteq Async /\ bracket' \in [Services -> Int]
  BY <1>1 DEF callVars, IInv, TypeOK
<1>3. CASE Size = 0
  <2> DEFINE f == Ending(Top(t), "value")
  <2>1. /\ f \in Frame /\ f.run = Top(t).run /\ f.awaits = Top(t).awaits
        /\ f.pc = "end"
    BY <1>1, TopIs, FrameEnds
  <2>2. SetTop(t, f)
    BY <1>3 DEF Enter
  <2> HIDE DEF f
  <2> QED
    BY <1>1, <1>2, <2>1, <2>2, TopGoesOn
<1>4. CASE Size # 0
  <2> DEFINE f == NewFrame("from", CurrentRun(t), Top(t).at, FALSE)
  <2>1. Top(t).run \in Runs /\ Top(t).at \in 1..(Size + 1)
    BY <1>1, TopIs DEF Frame
  <2>2. f \in Frame /\ f.run = Top(t).run /\ ~f.awaits /\ f.pc = "begin"
    <3>1. PICK r \in Runs, at \in 1..(Size + 1) : r = CurrentRun(t) /\ at = Top(t).at
      BY <2>1 DEF CurrentRun
    <3> QED
      BY <3>1 DEF NewFrame, Frame, CurrentRun
  <2>3. stack' = [stack EXCEPT ![t] = << f >> \o stack[t]]
    BY <1>4 DEF Enter, Push
  <2> HIDE DEF f
  <2>4. Derived(stack[t], stack[t])
    BY <1>1, TopIs DEF Derived
  <2> QED
    BY <1>1, <2>2, <2>3, <2>4, TopIs, PushMoves
<1> QED
  BY <1>3, <1>4

LEMMA CallServiceKeeps ==
  ASSUME IInv, NEW t \in Threads, CallService(t) PROVE IInv'
<1> DEFINE f == [Top(t) EXCEPT !.pc = "inside"]
<1>1. /\ stack[t] # << >> /\ Top(t).pc = "next" /\ Top(t).kind = "from"
      /\ Top(t).at <= Size /\ SetTop(t, f)
      /\ bracket' = [bracket EXCEPT ![Top(t).at] = @ + 1]
      /\ UNCHANGED << depth, runs, workVars, handedOver, resultVars, disturbed >>
  BY DEF CallService, At, MoreServices, Announced
<1>2. Top(t).run \in Runs /\ Top(t).at \in Services
  BY <1>1, TopIs, SizeAssumption DEF Frame, Services
<1>3. /\ f \in Frame /\ f.run = Top(t).run /\ f.awaits = Top(t).awaits
      /\ f.pc = "inside" /\ f.kind = "from" /\ f.at <= Size
  BY <1>1, TopIs DEF Frame
<1>4. handedOver' \subseteq Async /\ bracket' \in [Services -> Int]
  BY <1>1, <1>2 DEF IInv, TypeOK
<1> HIDE DEF f
<1> QED
  BY <1>1, <1>3, <1>4, TopGoesOn

LEMMA ExpireKeeps ==
  ASSUME IInv, NEW t \in Threads, Expire(t) PROVE IInv'
<1> DEFINE f == Ending([Top(t) EXCEPT !.awaits = FALSE], "null")
<1>1. /\ stack[t] # << >> /\ Top(t).pc = "next" /\ SetTop(t, f)
      /\ UNCHANGED << depth, runs, workVars, callVars, resultVars, disturbed >>
  BY DEF Expire, At
<1>2. f \in Frame /\ f.run = Top(t).run /\ ~f.awaits /\ f.pc = "end"
  BY <1>1, TopIs, FrameEndsUnawaited
<1>3. handedOver' \subseteq Async /\ bracket' \in [Services -> Int]
  BY <1>1 DEF callVars, IInv, TypeOK
<1> HIDE DEF f
<1> QED
  BY <1>1, <1>2, <1>3, TopGoesOn

LEMMA PastLastKeeps ==
  ASSUME IInv, NEW t \in Threads, PastLast(t) PROVE IInv'
<1> DEFINE f == Ending(Top(t), "value")
<1>1. /\ stack[t] # << >> /\ Top(t).pc = "next" /\ SetTop(t, f)
      /\ UNCHANGED << depth, runs, workVars, callVars, resultVars, disturbed >>
  BY DEF PastLast, At
<1>2. /\ f \in Frame /\ f.run = Top(t).run /\ f.awaits = Top(t).awaits
      /\ f.pc = "end"
  BY <1>1, TopIs, FrameEnds
<1>3. handedOver' \subseteq Async /\ bracket' \in [Services -> Int]
  BY <1>1 DEF callVars, IInv, TypeOK
<1> HIDE DEF f
<1> QED
  BY <1>1, <1>2, <1>3, TopGoesOn

LEMMA CallInKeeps ==
  ASSUME IInv, NEW t \in Threads, CallIn(t) PROVE IInv'
<1> DEFINE g == [Top(t) EXCEPT !.n = @ + 1]
           s == << g >> \o Tail(stack[t])
<1>1. /\ stack[t] # << >> /\ Top(t).pc = "inside"
      /\ UNCHANGED << depth, runs, workVars, callVars, resultVars, disturbed >>
  BY DEF CallIn, At
<1>2. /\ Top(t).kind = "from" /\ Top(t).at <= Size
      /\ Top(t).run \in Runs /\ Top(t).at + 1 \in 1..(Size + 1)
  <2>1. Top(t).kind = "from" /\ Top(t).at <= Size
    BY <1>1, TopIs DEF Nested
  <2>2. Top(t).run \in Runs /\ Top(t).at \in 1..(Size + 1)
    BY <1>1, TopIs DEF Frame
  <2> QED
    BY <2>1, <2>2, SizeAssumption
<1>3. PICK f \in {NewFrame("from", CurrentRun(t), Top(t).at + 1, FALSE),
                  NewFrame("process", CurrentRun(t), 1, FALSE)} :
        stack' = [stack EXCEPT
                    ![t] = << f, [Top(t) EXCEPT !.n = @ + 1] >> \o Tail(@)]
  BY DEF CallIn
<1>4. f \in Frame /\ f.run = Top(t).run /\ ~f.awaits /\ f.pc = "begin"
  <2>1. 1 \in 1..(Size + 1) /\ CurrentRun(t) = Top(t).run
    BY SizeAssumption DEF CurrentRun
  <2>2. PICK r \in Runs, at \in 1..(Size + 1) :
          r = CurrentRun(t) /\ at = Top(t).at + 1
    BY <1>2, <2>1
  <2>3. f = NewFrame("from", r, at, FALSE) \/ f = NewFrame("process", r, 1, FALSE)
    BY <1>3, <2>2
  <2>4. 1 \in 1..(Size + 1)
    BY SizeAssumption
  <2>5. f \in Frame /\ f.run = r /\ ~f.awaits /\ f.pc = "begin"
    <3>1. CASE f = NewFrame("from", r, at, FALSE)
      BY <3>1 DEF NewFrame, Frame
    <3>2. CASE f = NewFrame("process", r, 1, FALSE)
      BY <2>4, <3>2 DEF NewFrame, Frame
    <3> QED
      BY <2>3, <3>1, <3>2
  <2> QED
    BY <2>2, <2>5 DEF CurrentRun
<1>5. /\ g \in Frame /\ g.run = Top(t).run /\ g.awaits = Top(t).awaits
      /\ g.pc = "inside" /\ g.at <= Size /\ g.kind = "from"
  <2>1. PICK h \in Frame : h = Top(t)
    BY <1>1, TopIs
  <2> QED
    BY <1>1, <1>2, <2>1 DEF Frame
<1>6. stack' = [stack EXCEPT ![t] = << f, g >> \o Tail(stack[t])]
  BY <1>3
<1> HIDE DEF g
<1>7. /\ s \in Seq(Frame) /\ s # << >> /\ s[1] = g /\ Len(s) = Len(stack[t])
  BY <1>1, <1>5, TopIs, ReplaceTop
<1>8. Derived(s, stack[t])
  BY <1>1, <1>5, TopIs, TopDerives
<1>9. << f, g >> \o Tail(stack[t]) = << f >> \o s
  <2>1. Tail(stack[t]) \in Seq(Frame)
    BY <1>1, TopIs
  <2>2. << f >> \in Seq(Frame) /\ << g >> \in Seq(Frame) /\ << f, g >> = << f >> \o << g >>
    BY <1>4, <1>5
  <2> QED
    BY <2>1, <2>2, ConcatAssociative
<1>10. stack' = [stack EXCEPT ![t] = << f >> \o s]
  BY <1>6, <1>9
<1> HIDE DEF s
<1> QED
  BY <1>1, <1>4, <1>5, <1>7, <1>8, <1>10, PushMoves

LEMMA AnswerKeeps ==
  ASSUME IInv, NEW t \in Threads, Answer(t) PROVE IInv'
<1>1. /\ stack[t] # << >> /\ Top(t).pc = "inside"
      /\ bracket' = [bracket EXCEPT ![Top(t).at] = @ - 1]
      /\ UNCHANGED << depth, runs, workVars, handedOver, resultVars, disturbed >>
  BY DEF Answer, At, AnnouncedEnd
<1>2. handedOver' \subseteq Async /\ bracket' \in [Services -> Int]
  BY <1>1, CountsStay DEF IInv, TypeOK
<1>3. PICK g \in Frame : g = Top(t)
  BY <1>1, TopIs
<1>4. CASE SetTop(t, [Top(t) EXCEPT !.pc = "next", !.at = @ + 1, !.n = 0])
  <2> DEFINE f == [g EXCEPT !.pc = "next", !.at = @ + 1, !.n = 0]
  <2>1. SetTop(t, f)
    BY <1>3, <1>4
  <2>2. g.at + 1 \in 1..(Size + 1)
    <3>1. g.at <= Size
      BY <1>1, <1>3, TopIs DEF Nested
    <3> QED
      BY <3>1, SizeAssumption DEF Frame
  <2>3. f \in Frame /\ f.run = g.run /\ f.awaits = g.awaits /\ f.pc = "next"
    <3>1. PICK at \in 1..(Size + 1), n \in Int : at = g.at + 1 /\ n = 0
      BY <2>2
    <3> QED
      BY <3>1 DEF Frame
  <2> HIDE DEF f
  <2> QED
    BY <1>1, <1>2, <1>3, <2>1, <2>3, TopGoesOn
<1>5. CASE SetTop(t, Ending(Top(t), "value"))
  <2> DEFINE f == Ending(g, "value")
  <2>1. SetTop(t, f)
    BY <1>3, <1>5
  <2>2. f \in Frame /\ f.run = g.run /\ f.awaits = g.awaits /\ f.pc = "end"
    BY DEF Frame, Ending
  <2> HIDE DEF f
  <2> QED
    BY <1>1, <1>2, <1>3, <2>1, <2>2, TopGoesOn
<1>6. CASE SetTop(t, Ending([Top(t) EXCEPT !.awaits = FALSE], "null"))
  <2> DEFINE f == Ending([g EXCEPT !.awaits = FALSE], "null")
  <2>1. SetTop(t, f)
    BY <1>3, <1>6
  <2>2. f \in Frame /\ f.run = g.run /\ ~f.awaits /\ f.pc = "end"
    BY FrameEndsUnawaited
  <2> HIDE DEF f
  <2> QED
    BY <1>1, <1>2, <1>3, <2>1, <2>2, TopGoesOn
<1> QED
  BY <1>4, <1>5, <1>6 DEF Answer

LEMMA RefuseKeeps ==
  ASSUME IInv, NEW t \in Threads, Refuse(t) PROVE IInv'
<1>1. /\ stack[t] # << >> /\ Top(t).pc = "inside"
      /\ UNCHANGED << depth, runs, workVars, callVars, resultVars, disturbed >>
  BY DEF Refuse, At
<1>2. handedOver' \subseteq Async /\ bracket' \in [Services -> Int]
  BY <1>1 DEF callVars, IInv, TypeOK
<1>3. PICK g \in Frame : g = Top(t)
  BY <1>1, TopIs
<1> DEFINE f == [g EXCEPT !.pc = "returned"]
<1>4. SetTop(t, f)
  BY <1>3 DEF Refuse
<1>5. f \in Frame /\ f.run = g.run /\ f.awaits = g.awaits /\ f.pc = "returned"
  BY DEF Frame
<1> HIDE DEF f
<1> QED
  BY <1>1, <1>2, <1>3, <1>4, <1>5, TopGoesOn

LEMMA TakeProcessDeferredKeeps ==
  ASSUME IInv, NEW t \in Threads, TakeProcessDeferred(t) PROVE IInv'
<1>1. /\ stack[t] # << >> /\ Top(t).pc = "returned"
      /\ handedOver' \subseteq handedOver
      /\ bracket' = bracket \/ bracket' = [bracket EXCEPT ![Top(t).at] = @ - 1]
      /\ UNCHANGED << depth, runs, workVars, resultVars, disturbed >>
  BY DEF TakeProcessDeferred, At, AnnouncedEnd
<1>2. handedOver' \subseteq Async /\ bracket' \in [Services -> Int]
  BY <1>1, CountsStay DEF IInv, TypeOK
<1>3. PICK g \in Frame : g = Top(t)
  BY <1>1, TopIs
<1> DEFINE f == Ending([g EXCEPT !.awaits = FALSE], "null")
<1>4. SetTop(t, f)
  BY <1>3 DEF TakeProcessDeferred
<1>5. f \in Frame /\ f.run = g.run /\ ~f.awaits /\ f.pc = "end"
  BY FrameEndsUnawaited
<1> HIDE DEF f
<1> QED
  BY <1>1, <1>2, <1>3, <1>4, <1>5, TopGoesOn

LEMMA EndReadKeeps ==
  ASSUME IInv, NEW t \in Threads, EndRead(t) PROVE IInv'
<1>1. /\ stack[t] # << >> /\ Top(t).pc = "end" /\ depth' = depth
      /\ UNCHANGED << runs, workVars, callVars, resultVars, disturbed >>
  BY DEF EndRead, At
<1>2. handedOver' \subseteq Async /\ bracket' \in [Services -> Int]
  BY <1>1 DEF callVars, IInv, TypeOK
<1>3. PICK g \in Frame : g = Top(t)
  BY <1>1, TopIs
<1>4. PICK n \in Int : n = depth
  BY DEF IInv, TypeOK
<1> DEFINE f == [g EXCEPT !.pc = "ending", !.n = n]
<1>5. SetTop(t, f)
  BY <1>3, <1>4 DEF EndRead
<1>6. /\ f \in Frame /\ f.run = g.run /\ f.awaits = g.awaits /\ f.pc = "ending"
      /\ f.n = n
  BY DEF Frame
<1> HIDE DEF f
<1> QED
  BY <1>1, <1>2, <1>3, <1>4, <1>5, <1>6, TopIs, TopMoves

LEMMA DeferKeeps ==
  ASSUME IInv, NEW t \in Threads, Defer(t) PROVE IInv'
<1> DEFINE s == Top(t).at
<1>1. /\ stack[t] # << >> /\ Top(t).pc = "inside" /\ s \in Async /\ s \notin generating
      /\ generating' = generating \cup {s} /\ handedOver' = handedOver \cup {s}
      /\ deferred' = [deferred EXCEPT ![s] = Top(t).run]
      /\ job' = [job EXCEPT ![s] = Top(t).run]
      /\ stage' = [stage EXCEPT ![s] = "working"]
      /\ UNCHANGED << depth, runs, bracket, finished, heard, pending, answers, disturbed >>
  BY DEF Defer, At, CurrentRun, resultVars
<1>2. PICK g \in Frame : g = Top(t)
  BY <1>1, TopIs
<1> DEFINE f == [g EXCEPT !.pc = "returned"]
           new == << f >> \o Tail(stack[t])
<1>3. stack' = [stack EXCEPT ![t] = new]
  BY <1>2 DEF Defer, SetTop
<1>4. f \in Frame /\ f.run = g.run /\ f.awaits = g.awaits /\ f.pc = "returned"
  BY DEF Frame
<1>5. g.run \in Runs
  BY DEF Frame
<1> HIDE DEF f, s
<1>6. Derived(new, stack[t])
  BY <1>1, <1>2, <1>4, TopIs, TopDerives
<1>7. new \in Seq(Frame) /\ new # << >> /\ Head(new) = f /\ Len(new) = Len(stack[t])
  BY <1>1, <1>4, TopIs, ReplaceTop
<1> HIDE DEF new
<1>8. stack' \in [Threads -> Seq(Frame)] /\ Threaded' /\ Waiting'
  BY <1>1, <1>3, <1>6, ThreadsMove
<1>9. Alone' /\ DepthIsNesting'
  <2>1. ~disturbed => depth' = Counted(new)
    BY <1>1, <1>4, <1>7, TopIs DEF Counted
  <2> QED
    BY <1>1, <1>3, <1>4, <1>7, <2>1, DepthMoves
<1>10. TypeOK'
  <2>1. /\ deferred' \in [Async -> Runs \cup {None}] /\ job' \in [Async -> Runs \cup {None}]
        /\ stage' \in [Async -> {"idle", "working", "emitting", "over", "ended"}]
    BY <1>1, <1>2, <1>5 DEF IInv, TypeOK
  <2> QED
    BY <1>1, <1>8, <2>1 DEF IInv, TypeOK
<1>11. Working'
  <2>1. stack[Worker[s]] = << >> /\ Worker[s] # t
    BY <1>1 DEF IInv, Working
  <2>2. stack \in [Threads -> Seq(Frame)] /\ \A r \in Async : Worker[r] \in Threads
    BY WorkersAre DEF IInv, TypeOK
  <2>3. /\ stack'[Worker[s]] = << >> /\ stage'[s] = "working"
        /\ job'[s] \in Runs /\ deferred'[s] = job'[s]
    BY <1>1, <1>2, <1>3, <1>5, <2>1, <2>2 DEF IInv, TypeOK
  <2>4. ASSUME NEW r \in Async, r # s
        PROVE  /\ stage'[r] = stage[r] /\ deferred'[r] = deferred[r] /\ job'[r] = job[r]
               /\ stack[Worker[r]] = << >> => stack'[Worker[r]] = << >>
               /\ stack'[Worker[r]] # << >> =>
                    stack'[Worker[r]][1].run = stack[Worker[r]][1].run
    <3>1. stage'[r] = stage[r] /\ deferred'[r] = deferred[r] /\ job'[r] = job[r]
      BY <1>1, <2>4 DEF IInv, TypeOK
    <3>2. CASE Worker[r] = t
      BY <1>1, <1>3, <1>6, <2>2, <3>1, <3>2 DEF Derived
    <3>3. CASE Worker[r] # t
      BY <1>3, <2>2, <3>1, <3>3
    <3> QED
      BY <3>2, <3>3
  <2> QED
    BY <1>1, <2>3, <2>4 DEF IInv, Working
<1>12. HeardIsFinished'
  BY <1>1 DEF IInv, HeardIsFinished
<1> QED
  BY <1>8, <1>9, <1>10, <1>11, <1>12 DEF IInv

LEMMA ThrowKeeps ==
  ASSUME IInv, NEW t \in Threads, Throw(t) PROVE IInv'
<1>1. /\ stack[t] # << >> /\ stack' = [stack EXCEPT ![t] = << >>] /\ disturbed' = TRUE
      /\ UNCHANGED << depth, runs, generating, job, stage, deferred, handedOver, bracket,
                      finished, heard, pending, answers >>
  BY DEF Throw, At, workVars, callVars, resultVars
<1>2. Derived(<< >>, stack[t])
  BY DEF Derived, Nested, Waits
<1>3. stack' \in [Threads -> Seq(Frame)] /\ Threaded' /\ Waiting'
  BY <1>1, <1>2, ThreadsMove
<1>4. Working'
  BY <1>1, <1>2, WorkersMove
<1>5. Alone' /\ DepthIsNesting' /\ HeardIsFinished'
  BY <1>1 DEF Alone, DepthIsNesting, HeardIsFinished
<1>6. TypeOK'
  BY <1>1, <1>3 DEF IInv, TypeOK
<1> QED
  BY <1>3, <1>4, <1>5, <1>6 DEF IInv

LEMMA EndWriteKeeps ==
  ASSUME IInv, NEW t \in Threads, EndWrite(t) PROVE IInv'
<1> DEFINE f == Top(t)
           new == Returned(Tail(stack[t]), f.val)
<1>1. /\ stack[t] # << >> /\ f.pc = "ending" /\ depth' = f.n - 1
      /\ heard' = heard \cup {r \in {f.run} : Leaves(f) /\ f.val = "value"}
      /\ StorePendingCallback(f)
      /\ finished' =
           finished \cup {r \in {f.run} : Len(stack[t]) = 1 /\ f.val = "value"}
      /\ stack' = [stack EXCEPT ![t] = new]
  BY DEF EndWrite, At
<1>2. UNCHANGED << runs, generating, job, stage, deferred, handedOver, bracket, answers,
                   disturbed >>
  BY DEF EndWrite, workVars, callVars
<1>3. /\ f = stack[t][1] /\ f.run \in Runs /\ f.n \in Int
      /\ f.val \in {"none", "null", "value"}
      /\ stack[t] \in Seq(Frame) /\ Nested(stack[t]) /\ Len(stack[t]) \in Nat \ {0}
  BY <1>1, TopIs DEF Frame
<1>4. /\ Derived(new, stack[t]) /\ Len(new) = Len(stack[t]) - 1
      /\ new # << >> => Head(new).pc \in {"end", "inside"}
      /\ f.awaits => new = << >>
  BY <1>1, <1>3, ReturnDerives
<1>5. ~disturbed => f.n = Len(stack[t])
  BY <1>1, TopIs
<1> HIDE DEF f, new
<1>6. Alone' /\ DepthIsNesting'
  <2>1. new \in Seq(Frame)
    BY <1>4 DEF Derived
  <2>2. ~disturbed => depth' = Counted(new)
    BY <1>1, <1>3, <1>4, <1>5, <2>1 DEF Counted
  <2> QED
    BY <1>1, <1>2, <1>4, <2>1, <2>2, DepthMoves
<1>7. Working'
  BY <1>1, <1>2, <1>4, WorkersMove
<1>8. HeardIsFinished'
  <2>1. ~disturbed => (Leaves(f) <=> Len(stack[t]) = 1)
    BY <1>5 DEF Leaves
  <2> QED
    BY <1>1, <1>2, <2>1 DEF IInv, HeardIsFinished
<1>9. /\ stack' \in [Threads -> Seq(Frame)] /\ Threaded'
      /\ stack'[t] = new /\ \A u \in Threads \ {t} : stack'[u] = stack[u]
      /\ \A u \in Threads : \A r : Waits(stack'[u], r) => Waits(stack[u], r)
  BY <1>1, <1>4, FramesMove
<1>10. CASE pending' = pending
  <2>1. Waiting'
    BY <1>1, <1>2, <1>4, <1>10, ThreadsMove
  <2>2. TypeOK'
    BY <1>1, <1>2, <1>3, <1>9, <1>10 DEF IInv, TypeOK
  <2> QED
    BY <1>6, <1>7, <1>8, <1>9, <2>1, <2>2 DEF IInv
<1>11. CASE pending' # pending
  <2>1. PICK i \in Slots : /\ f.awaits /\ pending[i] = None
                           /\ pending' = [pending EXCEPT ![i] = f.run]
    BY <1>1, <1>11 DEF StorePendingCallback
  <2>2. /\ pending' \in [Slots -> Runs \cup {None}] /\ pending'[i] = f.run
        /\ \A j \in Slots \ {i} : pending'[j] = pending[j]
    BY <1>3, <2>1 DEF IInv, TypeOK
  <2>3. TypeOK'
    BY <1>1, <1>2, <1>3, <1>9, <2>2 DEF IInv, TypeOK
  <2>4. Waits(stack[t], f.run)
    BY <1>3, <2>1 DEF Waits
  <2>5. /\ f.run <= runs /\ answers[f.run] = 0
        /\ \A j \in Slots : pending[j] # f.run
    BY <1>3, <2>4 DEF IInv, Waiting
  <2>6. \A u \in Threads : ~Waits(stack'[u], f.run)
    <3>1. ~Waits(stack'[t], f.run)
      BY <1>4, <1>9, <2>1 DEF Waits
    <3> QED
      BY <1>3, <1>9, <2>4, <3>1 DEF IInv, Waiting
  <2>7. \A u \in Threads : \A r \in Runs :
          Waits(stack[u], r)' => Waits(stack[u], r) /\ r # f.run
    <3>1. \A u \in Threads : \A r \in Runs :
            Waits(stack'[u], r) => Waits(stack[u], r) /\ r # f.run
      BY <1>9, <2>6
    <3> QED
      BY <3>1 DEF Waits
  <2>8. Waiting'
    <3>1. \A u, v \in Threads : \A r \in Runs :
            Waits(stack[u], r)' /\ Waits(stack[v], r)' => u = v
      BY <2>7 DEF IInv, Waiting
    <3>2. \A u \in Threads : \A r \in Runs : Waits(stack[u], r)' =>
            r <= runs' /\ answers'[r] = 0 /\ \A j \in Slots : pending'[j] # r
      BY <1>2, <2>2, <2>7 DEF IInv, Waiting
    <3>3. \A j, k \in Slots : pending'[j] # None /\ pending'[j] = pending'[k] => j = k
      BY <2>2, <2>5 DEF IInv, Waiting
    <3>4. \A j \in Slots :
            pending'[j] # None => pending'[j] <= runs' /\ answers'[pending'[j]] = 0
      BY <1>2, <2>2, <2>5 DEF IInv, Waiting
    <3>5. \A r \in Runs : answers'[r] # 0 => r <= runs'
      BY <1>2 DEF IInv, Waiting
    <3> QED
      BY <3>1, <3>2, <3>3, <3>4, <3>5 DEF Waiting
  <2> QED
    BY <1>6, <1>7, <1>8, <1>9, <2>3, <2>8 DEF IInv
<1> QED
  BY <1>10, <1>11

-----------------------------------------------------------------------------
(* Passes that begin, the work of a worker, and the answers to results.     *)

\* A thread outside any call begins a pass.
LEMMA Begins ==
  ASSUME IInv, NEW t \in Threads, stack[t] = << >>, NEW f \in Frame,
         f.pc = "begin", stack' = [stack EXCEPT ![t] = << f >>],
         disturbed' = Overlapping(t), UNCHANGED depth
  PROVE  /\ stack' \in [Threads -> Seq(Frame)] /\ disturbed' \in BOOLEAN
         /\ stack'[t] = << f >> /\ \A u \in Threads \ {t} : stack'[u] = stack[u]
         /\ Threaded' /\ Alone' /\ DepthIsNesting'
         /\ disturbed => disturbed'
         /\ \A u \in Threads : \A r :
              Waits(stack'[u], r) =>
                Waits(stack[u], r) \/ (u = t /\ f.awaits /\ r = f.run)
<1>1. /\ << f >> \in Seq(Frame) /\ Len(<< f >>) = 1 /\ << f >>[1] = f
      /\ Head(<< f >>) = f /\ << f >> # << >>
  OBVIOUS
<1>2. /\ stack' \in [Threads -> Seq(Frame)]
      /\ stack'[t] = << f >> /\ \A u \in Threads \ {t} : stack'[u] = stack[u]
  BY <1>1 DEF IInv, TypeOK
<1>3. Nested(<< f >>)
  BY <1>1 DEF Nested
<1>4. Threaded'
  <2>1. \A u \in Threads : Nested(stack'[u])
    BY <1>2, <1>3 DEF IInv, Threaded
  <2> QED
    BY <2>1 DEF Threaded, Nested
<1>5. \A u \in Threads : \A r :
        Waits(stack'[u], r) => Waits(stack[u], r) \/ (u = t /\ f.awaits /\ r = f.run)
  BY <1>1, <1>2 DEF Waits
<1>6. disturbed' \in BOOLEAN /\ (disturbed => disturbed')
  BY DEF Overlapping, IInv, TypeOK
<1>7. Alone' /\ DepthIsNesting'
  <2>1. CASE disturbed'
    BY <2>1 DEF Alone, DepthIsNesting
  <2>2. CASE ~disturbed'
    <3>1. ~disturbed /\ \A u \in Threads : stack[u] = << >>
      BY <2>2 DEF Overlapping
    <3>2. depth = 0
      BY <3>1 DEF IInv, DepthIsNesting
    <3>3. \A u \in Threads \ {t} : stack'[u] = << >>
      BY <1>2, <3>1
    <3>4. Alone'
      BY <1>1, <1>2, <3>3 DEF Alone, Top
    <3>5. \A u \in Threads : stack'[u] # << >> => depth' = Counted(stack'[u])
      BY <1>1, <1>2, <3>2, <3>3 DEF Counted
    <3>6. DepthIsNesting'
      BY <1>1, <1>2, <3>5 DEF DepthIsNesting, Counted
    <3> QED
      BY <3>4, <3>6
  <2> QED
    BY <2>1, <2>2
<1> QED
  BY <1>2, <1>4, <1>5, <1>6, <1>7

LEMMA CallKeeps ==
  ASSUME IInv, NEW t \in Callers, Call(t) PROVE IInv'
<1>1. /\ stack[t] = << >> /\ runs < MaxRuns /\ runs' = runs + 1
      /\ disturbed' = Overlapping(t)
      /\ UNCHANGED << depth, generating, job, stage, deferred, handedOver, bracket,
                      finished, heard, pending, answers >>
  BY DEF Call, workVars, callVars, resultVars
<1>2. runs' \in Runs /\ runs' \in 0..MaxRuns /\ runs \in Nat
  BY <1>1, SizeAssumption DEF IInv, TypeOK, Runs
<1>3. PICK f \in Frame : /\ f.pc = "begin" /\ f.run = runs'
                         /\ stack' = [stack EXCEPT ![t] = << f >>]
  <2>1. \A s \in Entries \cup {1} : s \in 1..(Size + 1)
    BY SizeAssumption
  <2>2. \A s \in Entries : s + 1 \in 1..(Size + 1)
    BY SizeAssumption
  <2>3. CASE \E s \in Entries \cup {1} :
               stack' = [stack EXCEPT ![t] = << NewFrame("process", runs + 1, s, FALSE) >>]
    <3>1. PICK s \in Entries \cup {1} :
            stack' = [stack EXCEPT ![t] = << NewFrame("process", runs + 1, s, FALSE) >>]
      BY <2>3
    <3>2. PICK at \in 1..(Size + 1), r \in Runs : at = s /\ r = runs + 1
      BY <1>1, <1>2, <2>1
    <3> DEFINE f == NewFrame("process", r, at, FALSE)
    <3>3. f \in Frame /\ f.run = r /\ f.pc = "begin"
      BY DEF NewFrame, Frame
    <3>4. stack' = [stack EXCEPT ![t] = << f >>]
      BY <3>1, <3>2
    <3> HIDE DEF f
    <3> QED
      BY <1>1, <3>2, <3>3, <3>4
  <2>4. CASE \E s \in Entries, b \in BOOLEAN :
               stack' = [stack EXCEPT ![t] = << NewFrame("from", runs + 1, s + 1, b) >>]
    <3>1. PICK s \in Entries, b \in BOOLEAN :
            stack' = [stack EXCEPT ![t] = << NewFrame("from", runs + 1, s + 1, b) >>]
      BY <2>4
    <3>2. PICK at \in 1..(Size + 1), r \in Runs : at = s + 1 /\ r = runs + 1
      BY <1>1, <1>2, <2>2
    <3> DEFINE f == NewFrame("from", r, at, b)
    <3>3. f \in Frame /\ f.run = r /\ f.pc = "begin"
      BY DEF NewFrame, Frame
    <3>4. stack' = [stack EXCEPT ![t] = << f >>]
      BY <3>1, <3>2
    <3> HIDE DEF f
    <3> QED
      BY <1>1, <3>2, <3>3, <3>4
  <2> QED
    BY <2>3, <2>4 DEF Call
<1>4. t \in Threads
  BY DEF Threads
<1>5. /\ stack' \in [Threads -> Seq(Frame)] /\ disturbed' \in BOOLEAN
      /\ stack'[t] = << f >> /\ \A u \in Threads \ {t} : stack'[u] = stack[u]
      /\ Threaded' /\ Alone' /\ DepthIsNesting'
      /\ disturbed => disturbed'
      /\ \A u \in Threads : \A r :
           Waits(stack'[u], r) => Waits(stack[u], r) \/ (u = t /\ f.awaits /\ r = f.run)
  BY <1>1, <1>3, <1>4, Begins
<1>6. Waiting'
  <2>1. \A u \in Threads : \A r \in Runs :
          Waits(stack[u], r)' => Waits(stack[u], r) \/ (u = t /\ r = runs')
    <3>1. \A u \in Threads : \A r \in Runs :
            Waits(stack'[u], r) => Waits(stack[u], r) \/ (u = t /\ r = runs')
      BY <1>3, <1>5
    <3> QED
      BY <3>1 DEF Waits
  <2>2. /\ answers[runs'] = 0 /\ \A i \in Slots : pending[i] # runs'
        /\ \A u \in Threads : ~Waits(stack[u], runs')
    <3>1. ~(runs' <= runs) /\ runs' # None
      BY <1>1, <1>2, WorkerAssumption
    <3> QED
      BY <1>2, <3>1 DEF IInv, Waiting
  <2>3. \A r \in Runs : r <= runs => r <= runs'
    BY <1>1, <1>2 DEF Runs
  <2>4. \A u, v \in Threads : \A r \in Runs :
          Waits(stack[u], r)' /\ Waits(stack[v], r)' => u = v
    BY <2>1, <2>2 DEF IInv, Waiting
  <2>5. \A u \in Threads : \A r \in Runs : Waits(stack[u], r)' =>
          r <= runs' /\ answers'[r] = 0 /\ \A j \in Slots : pending'[j] # r
    BY <1>1, <1>2, <2>1, <2>2, <2>3 DEF IInv, Waiting
  <2>6. \A i \in Slots : pending[i] # None => pending[i] \in Runs
    BY DEF IInv, TypeOK
  <2> QED
    BY <1>1, <2>3, <2>4, <2>5, <2>6 DEF IInv, Waiting
<1>7. Working'
  <2>1. \A s \in Async : Worker[s] \in Threads \ {t}
    BY WorkersAre
  <2> QED
    BY <1>1, <1>5, <2>1 DEF IInv, Working
<1>8. TypeOK'
  BY <1>1, <1>2, <1>5 DEF IInv, TypeOK
<1>9. HeardIsFinished'
  BY <1>1, <1>5 DEF IInv, HeardIsFinished
<1> QED
  BY <1>5, <1>6, <1>7, <1>8, <1>9 DEF IInv

LEMMA EmitKeeps ==
  ASSUME IInv, NEW s \in Async, Emit(s) PROVE IInv'
<1> DEFINE w == Worker[s]
<1>1. /\ stage[s] = "working" /\ deferred[s] # None
      /\ deferred' = [deferred EXCEPT ![s] = None]
      /\ bracket' = [bracket EXCEPT ![s] = @ - 1]
      /\ stack' = [stack EXCEPT ![w] = << NewFrame("from", deferred[s], s + 1, FALSE) >>]
      /\ stage' = [stage EXCEPT ![s] = "emitting"]
      /\ disturbed' = Overlapping(w)
      /\ UNCHANGED << depth, runs, generating, job, handedOver, finished, heard, pending,
                      answers >>
  BY DEF Emit, AnnouncedEnd, resultVars
<1>2. /\ deferred[s] = job[s] /\ job[s] \in Runs
      /\ stack[w] = << >> /\ w \in Threads
  BY <1>1, WorkersAre DEF IInv, Working
<1>3. PICK f \in Frame : /\ f.pc = "begin" /\ f.run = job[s] /\ ~f.awaits
                         /\ stack' = [stack EXCEPT ![w] = << f >>]
  <2>1. PICK r \in Runs : r = deferred[s]
    BY <1>2
  <2>2. PICK at \in 1..(Size + 1) : at = s + 1
    BY SizeAssumption
  <2>3. stack' = [stack EXCEPT ![w] = << NewFrame("from", r, at, FALSE) >>]
    BY <1>1, <2>1, <2>2
  <2>4. PICK f \in Frame : /\ f = NewFrame("from", r, at, FALSE)
                           /\ f.pc = "begin" /\ f.run = r /\ ~f.awaits
    BY NewFrameIs
  <2>5. stack' = [stack EXCEPT ![w] = << f >>]
    BY <2>3, <2>4
  <2>6. f.run = job[s]
    BY <1>2, <2>1, <2>4
  <2> QED
    BY <2>4, <2>5, <2>6
<1> HIDE DEF w
<1>4. /\ stack' \in [Threads -> Seq(Frame)] /\ disturbed' \in BOOLEAN
      /\ stack'[w] = << f >> /\ \A u \in Threads \ {w} : stack'[u] = stack[u]
      /\ Threaded' /\ Alone' /\ DepthIsNesting'
      /\ disturbed => disturbed'
      /\ \A u \in Threads : \A r :
           Waits(stack'[u], r) => Waits(stack[u], r) \/ (u = w /\ f.awaits /\ r = f.run)
  BY <1>1, <1>2, <1>3, Begins
<1>5. Waiting'
  <2>1. \A u \in Threads : \A r \in Runs : Waits(stack'[u], r) => Waits(stack[u], r)
    BY <1>3, <1>4
  <2>2. \A u \in Threads : \A r \in Runs : Waits(stack[u], r)' => Waits(stack[u], r)
    BY <2>1 DEF Waits
  <2> QED
    BY <1>1, <2>2 DEF IInv, Waiting
<1>6. Working'
  <2>1. stage'[s] = "emitting" /\ deferred'[s] = None
    BY <1>1 DEF IInv, TypeOK
  <2>2. << f >>[1] = f
    OBVIOUS
  <2>3. \A r \in Async \ {s} :
          stage'[r] = stage[r] /\ deferred'[r] = deferred[r] /\ Worker[r] \in Threads \ {w}
    BY <1>1, WorkersAre DEF IInv, TypeOK, w
  <2>4. stack'[Worker[s]][1].run = job[s]
    BY <1>3, <1>4, <2>2 DEF w
  <2>5. s \in generating
    BY <1>1 DEF IInv, Working
  <2>6. ASSUME NEW r \in Async \ {s}
        PROVE  stack'[Worker[r]] = stack[Worker[r]] /\ job'[r] = job[r]
    BY <1>1, <1>4, <2>3
  <2> QED
    BY <1>1, <1>2, <2>1, <2>3, <2>4, <2>5, <2>6 DEF IInv, Working
<1>7. TypeOK'
  <2>1. /\ deferred' \in [Async -> Runs \cup {None}]
        /\ stage' \in [Async -> {"idle", "working", "emitting", "over", "ended"}]
    BY <1>1 DEF IInv, TypeOK
  <2>2. bracket' \in [Services -> Int]
    BY <1>1, CountsStay DEF IInv, TypeOK
  <2> QED
    BY <1>1, <1>4, <2>1, <2>2 DEF IInv, TypeOK
<1>8. HeardIsFinished'
  BY <1>1, <1>4 DEF IInv, HeardIsFinished
<1> QED
  BY <1>4, <1>5, <1>6, <1>7, <1>8 DEF IInv

\* A step that touches no frames.
LEMMA FramesStay ==
  ASSUME IInv, UNCHANGED << stack, depth, disturbed >>
  PROVE  Threaded' /\ Alone' /\ DepthIsNesting'
<1>1. Threaded'
  BY DEF IInv, Threaded, Nested
<1>2. Alone'
  BY DEF IInv, Alone, Top
<1>3. DepthIsNesting'
  BY DEF IInv, DepthIsNesting, Counted
<1> QED
  BY <1>1, <1>2, <1>3

\* A step of a worker that touches no frames, and no results.
LEMMA WorkMoves ==
  ASSUME IInv, Working', UNCHANGED << stack, depth, runs, handedOver, disturbed >>,
         UNCHANGED << finished, heard, pending, answers >>,
         generating' \subseteq Async, bracket' \in [Services -> Int],
         job' \in [Async -> Runs \cup {None}],
         stage' \in [Async -> {"idle", "working", "emitting", "over", "ended"}],
         deferred' \in [Async -> Runs \cup {None}]
  PROVE  IInv'
<1>1. Threaded' /\ Alone' /\ DepthIsNesting'
  BY FramesStay
<1>2. Waiting'
  BY DEF IInv, Waiting, Waits
<1>3. TypeOK' /\ HeardIsFinished'
  BY DEF IInv, TypeOK, HeardIsFinished
<1> QED
  BY <1>1, <1>2, <1>3 DEF IInv

LEMMA WorkOverKeeps ==
  ASSUME IInv, NEW s \in Async, WorkOver(s) PROVE IInv'
<1>1. /\ stage[s] = "working" \/ (stage[s] = "emitting" /\ stack[Worker[s]] = << >>)
      /\ stage' = [stage EXCEPT ![s] = "over"]
      /\ UNCHANGED << stack, depth, runs, generating, job, deferred, handedOver, bracket,
                      finished, heard, pending, answers, disturbed >>
  BY DEF WorkOver, passVars, callVars, resultVars
<1>2. stage' \in [Async -> {"idle", "working", "emitting", "over", "ended"}]
  BY <1>1 DEF IInv, TypeOK
<1>3. Working'
  <2>1. stage'[s] = "over" /\ \A r \in Async \ {s} : stage'[r] = stage[r]
    BY <1>1 DEF IInv, TypeOK
  <2> QED
    BY <1>1, <2>1 DEF IInv, Working
<1> QED
  BY <1>1, <1>2, <1>3, WorkMoves DEF IInv, TypeOK

LEMMA EndDeferredKeeps ==
  ASSUME IInv, NEW s \in Async, EndDeferred(s) PROVE IInv'
<1>1. /\ stage[s] = "over"
      /\ deferred' = [deferred EXCEPT ![s] = None]
      /\ bracket' = bracket \/ bracket' = [bracket EXCEPT ![s] = @ - 1]
      /\ stage' = [stage EXCEPT ![s] = "ended"]
      /\ UNCHANGED << stack, depth, runs, generating, job, handedOver,
                      finished, heard, pending, answers, disturbed >>
  BY DEF EndDeferred, AnnouncedEnd, passVars, resultVars
<1>2. /\ stage' \in [Async -> {"idle", "working", "emitting", "over", "ended"}]
      /\ deferred' \in [Async -> Runs \cup {None}]
  BY <1>1 DEF IInv, TypeOK
<1>3. Working'
  <2>1. /\ stage'[s] = "ended" /\ deferred'[s] = None
        /\ \A r \in Async \ {s} : stage'[r] = stage[r] /\ deferred'[r] = deferred[r]
    BY <1>1 DEF IInv, TypeOK
  <2> QED
    BY <1>1, <2>1 DEF IInv, Working
<1>4. bracket' \in [Services -> Int]
  BY <1>1, CountsStay DEF IInv, TypeOK
<1> QED
  BY <1>1, <1>2, <1>3, <1>4, WorkMoves DEF IInv, TypeOK

LEMMA AdmitKeeps ==
  ASSUME IInv, NEW s \in Async, Admit(s) PROVE IInv'
<1>1. /\ stage[s] = "ended"
      /\ generating' = generating \ {s}
      /\ job' = [job EXCEPT ![s] = None]
      /\ stage' = [stage EXCEPT ![s] = "idle"]
      /\ UNCHANGED << stack, depth, runs, deferred, handedOver, bracket,
                      finished, heard, pending, answers, disturbed >>
  BY DEF Admit, passVars, callVars, resultVars
<1>2. /\ stage' \in [Async -> {"idle", "working", "emitting", "over", "ended"}]
      /\ job' \in [Async -> Runs \cup {None}] /\ generating' \subseteq Async
  BY <1>1 DEF IInv, TypeOK
<1>3. Working'
  <2>1. /\ stage'[s] = "idle" /\ deferred[s] = None /\ stack[Worker[s]] = << >>
        /\ \A r \in Async \ {s} : stage'[r] = stage[r] /\ job'[r] = job[r]
    BY <1>1 DEF IInv, TypeOK, Working
  <2> QED
    BY <1>1, <2>1 DEF IInv, Working
<1> QED
  BY <1>1, <1>2, <1>3, WorkMoves DEF IInv, TypeOK

LEMMA ResolveResultKeeps ==
  ASSUME IInv, NEW r \in Runs, ResolveResult(r) PROVE IInv'
<1>1. PICK i \in Slots : pending[i] = r /\ pending' = [pending EXCEPT ![i] = None]
  <2> DEFINE i == CHOOSE i \in Slots : pending[i] = r
  <2>1. pending' = [pending EXCEPT ![i] = None] /\ \E j \in Slots : pending[j] = r
    BY DEF ResolveResult
  <2>2. i \in Slots /\ pending[i] = r
    BY <2>1
  <2> HIDE DEF i
  <2> QED
    BY <2>1, <2>2
<1>2. /\ answers' = [answers EXCEPT ![r] = @ + 1]
      /\ UNCHANGED << stack, depth, runs, generating, job, stage, deferred, handedOver,
                      bracket, finished, heard, disturbed >>
  BY DEF ResolveResult, passVars, workVars, callVars
<1>3. r # None /\ r <= runs /\ answers[r] = 0 /\ \A t \in Threads : ~Waits(stack[t], r)
  <2>1. r # None
    BY WorkerAssumption DEF Runs
  <2> QED
    BY <1>1, <2>1 DEF IInv, Waiting
<1>4. /\ pending' \in [Slots -> Runs \cup {None}] /\ pending'[i] = None
      /\ \A j \in Slots \ {i} : pending'[j] = pending[j] /\ pending[j] # r
      /\ answers' \in [Runs -> 0..1]
      /\ answers'[r] = 1 /\ \A q \in Runs \ {r} : answers'[q] = answers[q]
  BY <1>1, <1>2, <1>3 DEF IInv, TypeOK, Waiting
<1>5. Waiting'
  <2>1. \A t \in Threads : \A q \in Runs : Waits(stack[t], q)' => Waits(stack[t], q) /\ q # r
    <3>1. \A t \in Threads : \A q \in Runs : Waits(stack[t], q) => q # r
      BY <1>3
    <3> QED
      BY <1>2, <3>1 DEF Waits
  <2>2. \A t, u \in Threads : \A q \in Runs :
          Waits(stack[t], q)' /\ Waits(stack[u], q)' => t = u
    BY <2>1 DEF IInv, Waiting
  <2>3. \A t \in Threads : \A q \in Runs : Waits(stack[t], q)' =>
          q <= runs' /\ answers'[q] = 0 /\ \A j \in Slots : pending'[j] # q
    <3>1. \A q \in Runs : q # None
      BY WorkerAssumption DEF Runs
    <3> QED
      BY <1>2, <1>4, <2>1, <3>1 DEF IInv, Waiting
  <2>4. \A j, k \in Slots : pending'[j] # None /\ pending'[j] = pending'[k] => j = k
    BY <1>4 DEF IInv, Waiting
  <2>5. \A j \in Slots :
          pending'[j] # None => pending'[j] <= runs' /\ answers'[pending'[j]] = 0
    <3>1. \A j \in Slots : pending'[j] # None => j # i /\ pending[j] \in Runs \ {r}
      BY <1>4 DEF IInv, TypeOK
    <3> QED
      BY <1>2, <1>4, <3>1 DEF IInv, Waiting
  <2>6. \A q \in Runs : answers'[q] # 0 => q <= runs'
    BY <1>2, <1>3, <1>4 DEF IInv, Waiting
  <2> QED
    BY <2>2, <2>3, <2>4, <2>5, <2>6 DEF Waiting
<1>6. Working' /\ HeardIsFinished'
  BY <1>2 DEF IInv, Working, HeardIsFinished
<1>7. TypeOK'
  BY <1>2, <1>4 DEF IInv, TypeOK
<1> QED
  BY <1>2, <1>5, <1>6, <1>7, FramesStay DEF IInv

-----------------------------------------------------------------------------
(* The theorems.                                                           *)

LEMMA InitHolds == ASSUME Init PROVE IInv
<1>1. TypeOK
  <2>1. stack \in [Threads -> Seq(Frame)]
    <3>1. << >> \in Seq(Frame)
      OBVIOUS
    <3> QED
      BY <3>1 DEF Init
  <2>2. depth \in Int /\ runs \in 0..MaxRuns
    BY SizeAssumption DEF Init
  <2>3. disturbed \in BOOLEAN
    BY DEF Init
  <2>4. /\ generating \subseteq Async /\ handedOver \subseteq Async
        /\ bracket \in [Services -> Int]
        /\ finished \subseteq Runs /\ heard \subseteq Runs
    BY DEF Init
  <2>5. /\ job \in [Async -> Runs \cup {None}] /\ deferred \in [Async -> Runs \cup {None}]
        /\ stage \in [Async -> {"idle", "working", "emitting", "over", "ended"}]
        /\ pending \in [Slots -> Runs \cup {None}]
    BY DEF Init
  <2>6. answers \in [Runs -> 0..1]
    BY DEF Init
  <2> QED
    BY <2>1, <2>2, <2>3, <2>4, <2>5, <2>6 DEF TypeOK
<1>2. \A t \in Threads : stack[t] = << >>
  BY DEF Init
<1>3. Threaded
  BY <1>2 DEF Threaded, Nested
<1>4. Waiting
  BY <1>2 DEF Init, Waiting, Waits
<1>5. Working
  BY <1>2, WorkersAre DEF Init, Working
<1>6. Alone /\ DepthIsNesting /\ HeardIsFinished
  BY <1>2 DEF Init, Alone, DepthIsNesting, HeardIsFinished
<1> QED
  BY <1>1, <1>3, <1>4, <1>5, <1>6 DEF IInv

LEMMA StutterKeeps == ASSUME IInv, UNCHANGED vars PROVE IInv'
<1>1. UNCHANGED << stack, depth, runs, generating, job, stage, deferred, handedOver,
                   bracket, finished, heard, pending, answers, disturbed >>
  BY DEF vars, passVars, workVars, callVars, resultVars
<1>2. Threaded' /\ Alone' /\ DepthIsNesting'
  BY <1>1, FramesStay
<1>3. Waiting'
  BY <1>1 DEF IInv, Waiting, Waits
<1>4. TypeOK' /\ Working' /\ HeardIsFinished'
  BY <1>1 DEF IInv, TypeOK, Working, HeardIsFinished
<1> QED
  BY <1>2, <1>3, <1>4 DEF IInv

\* Every state the runtime reaches satisfies the invariant: whatever its
\* pipeline, however many threads run passes in it and however they interleave
\* (process, processFrom, nextInRun, nextAsync, emit and the pending callbacks).
THEOREM Inductive == Spec => []IInv
<1>1. ASSUME IInv, [Next]_vars PROVE IInv'
  <2>1. CASE \E t \in Callers : Call(t)
    BY <1>1, <2>1, CallKeeps
  <2>2. ASSUME NEW t \in Threads, Step(t) PROVE IInv'
    <3>1. CASE BeginRead(t)
      BY <1>1, <3>1, BeginReadKeeps
    <3>2. CASE BeginWrite(t)
      BY <1>1, <3>2, BeginWriteKeeps
    <3>3. CASE Enter(t)
      BY <1>1, <3>3, EnterKeeps
    <3>4. CASE CallService(t)
      BY <1>1, <3>4, CallServiceKeeps
    <3>5. CASE Expire(t)
      BY <1>1, <3>5, ExpireKeeps
    <3>6. CASE PastLast(t)
      BY <1>1, <3>6, PastLastKeeps
    <3>7. CASE CallIn(t)
      BY <1>1, <3>7, CallInKeeps
    <3>8. CASE Answer(t)
      BY <1>1, <3>8, AnswerKeeps
    <3>9. CASE Defer(t)
      BY <1>1, <3>9, DeferKeeps
    <3>10. CASE Refuse(t)
      BY <1>1, <3>10, RefuseKeeps
    <3>11. CASE TakeProcessDeferred(t)
      BY <1>1, <3>11, TakeProcessDeferredKeeps
    <3>12. CASE EndRead(t)
      BY <1>1, <3>12, EndReadKeeps
    <3>13. CASE EndWrite(t)
      BY <1>1, <3>13, EndWriteKeeps
    <3>14. CASE Throw(t)
      BY <1>1, <3>14, ThrowKeeps
    <3> QED
      BY <2>2, <3>1, <3>2, <3>3, <3>4, <3>5, <3>6, <3>7, <3>8, <3>9, <3>10, <3>11,
         <3>12, <3>13, <3>14 DEF Step
  <2>3. ASSUME NEW s \in Async, Work(s) PROVE IInv'
    BY <1>1, <2>3, EmitKeeps, WorkOverKeeps, EndDeferredKeeps, AdmitKeeps DEF Work
  <2>4. CASE \E r \in Runs : ResolveResult(r)
    BY <1>1, <2>4, ResolveResultKeeps
  <2>5. CASE UNCHANGED vars
    BY <1>1, <2>5, StutterKeeps
  <2> QED
    BY <1>1, <2>1, <2>2, <2>3, <2>4, <2>5 DEF Next
<1> QED
  BY <1>1, InitHolds, PTL DEF Spec

\* The state has its type; in particular the callback of a run is called at
\* most once (findAndRemovePendingCallback).
THEOREM TypeCorrect == Spec => []TypeOK
<1>1. IInv => TypeOK
  BY DEF IInv
<1> QED
  BY <1>1, Inductive, PTL

\* As long as no thread stood in a pass beside another and nothing threw, the
\* depth is how deeply passes are nested: however deep, through services that
\* call in, defer, refuse, expire or end early (process_depth.h).
THEOREM DepthCountsNesting == Spec => []DepthIsNesting
<1>1. IInv => DepthIsNesting
  BY DEF IInv
<1> QED
  BY <1>1, Inductive, PTL

\* Under the same condition, the results that leave the runtime are those of
\* the outermost passes, all of them and no others (onProcessEnd).
THEOREM HeardAreFinished == Spec => []HeardIsFinished
<1>1. IInv => HeardIsFinished
  BY DEF IInv
<1> QED
  BY <1>1, Inductive, PTL

\* An answer is handed on in the run of the call that started the worker,
\* whatever was called and refused while it worked (deferCompletion, emit).
THEOREM AnswersBelong == Spec => []AnswerBelongsToItsCall
<1>1. ASSUME IInv PROVE AnswerBelongsToItsCall
  <2> SUFFICES ASSUME NEW s \in Async
               PROVE  /\ deferred[s] # None => deferred[s] = job[s] /\ s \in generating
                      /\ stage[s] = "emitting" =>
                           \A i \in 1..Len(stack[Worker[s]]) :
                             stack[Worker[s]][i].run = job[s]
    BY DEF AnswerBelongsToItsCall
  <2>1. deferred[s] # None => deferred[s] = job[s] /\ s \in generating
    BY <1>1 DEF IInv, Working
  <2>2. ASSUME NEW i \in 1..Len(stack[Worker[s]])
        PROVE  stack[Worker[s]][i].run = job[s]
    <3>1. stack[Worker[s]] \in Seq(Frame) /\ Nested(stack[Worker[s]])
      BY <1>1, WorkersAre DEF IInv, TypeOK, Threaded
    <3>2. stack[Worker[s]] # << >>
      BY <3>1, <2>2
    <3>3. stack[Worker[s]][1].run = job[s]
      BY <1>1, <3>2 DEF IInv, Working
    <3> QED
      BY <2>2, <3>1, <3>3 DEF Nested
  <2> QED
    BY <2>1, <2>2
<1> QED
  BY <1>1, Inductive, PTL

\* Everything a thread calls, however deeply its services call in, is called
\* in the run it began or handed on (ContextScope).
THEOREM OneRun == Spec => []OneRunPerThread
<1>1. ASSUME IInv PROVE OneRunPerThread
  BY <1>1 DEF IInv, Threaded, Nested, OneRunPerThread
<1> QED
  BY <1>1, Inductive, PTL
-----------------------------------------------------------------------------
(* What is announced of a service that answers from a worker, when one     *)
(* thread begins passes and one worker answers.                            *)

OneCaller ==
  /\ \A t, u \in Callers : t = u
  /\ \A s, r \in Async : s = r

\* Thread t is in a call of s, or back from it with the flag still to be looked at.
Called(t, s) ==
  /\ stack[t] # << >> /\ Top(t).pc \in {"inside", "returned"} /\ Top(t).at = s

Calls(t, s) == IF Called(t, s) THEN 1 ELSE 0
Deferral(s) == IF deferred[s] # None THEN 1 ELSE 0
Flag(s) == IF s \in handedOver THEN 1 ELSE 0

\* The calls of s that are not over: those a thread is in, and the one its worker
\* is to answer, which until the flag is looked at is also one of the former.
CallsOpen(s) ==
  (IF \E t \in Callers : Called(t, s) THEN 1 ELSE 0)
    + Calls(Worker[s], s) + Deferral(s) - Flag(s)

\* A service that answers from a worker does not call in.
CallersIn(frames) ==
  \A i \in 2..Len(frames) : frames[i].pc = "inside" => frames[i].at \notin Async

Bracketed ==
  \A s \in Async :
    /\ bracket[s] >= CallsOpen(s)
    /\ ~disturbed => bracket[s] = CallsOpen(s)
    /\ s \in handedOver =>
         \E t \in Callers : Called(t, s) /\ Top(t).pc = "returned"
    /\ stage[s] = "working" => deferred[s] # None

BInv == Bracketed /\ \A t \in Threads : CallersIn(stack[t])

\* A step of one thread that keeps the balance of every service.
LEMMA Balance ==
  ASSUME IInv, OneCaller, Bracketed, NEW t \in Threads,
         \A u \in Threads \ {t} : stack'[u] = stack[u],
         ~disturbed' => ~disturbed, bracket' \in [Services -> Int],
         NEW s \in Async,
         bracket'[s] + Calls(t, s) + Deferral(s) - Flag(s)
           >= bracket[s] + Calls(t, s)' + Deferral(s)' - Flag(s)',
         ~disturbed' =>
           bracket'[s] + Calls(t, s) + Deferral(s) - Flag(s)
             = bracket[s] + Calls(t, s)' + Deferral(s)' - Flag(s)'
  PROVE  /\ bracket'[s] >= CallsOpen(s)'
         /\ ~disturbed' => bracket'[s] = CallsOpen(s)'
<1> DEFINE C == IF \E u \in Callers : Called(u, s) THEN 1 ELSE 0
           W == Calls(Worker[s], s)
<1>1. /\ Worker[s] \in Threads \ Callers /\ bracket[s] \in Int /\ bracket'[s] \in Int
      /\ Threads = Callers \cup {Worker[s]}
  <2>1. s \in Services
    BY SizeAssumption DEF Services
  <2>2. Workers = {Worker[s]}
    BY DEF OneCaller, Workers
  <2> QED
    BY <2>1, <2>2, WorkerAssumption DEF IInv, TypeOK, Threads
<1>2. \A u \in Threads \ {t} : Called(u, s)' <=> Called(u, s)
  BY DEF Called, Top
<1>3. C' + W' - (C + W) = Calls(t, s)' - Calls(t, s)
  <2>1. CASE t \in Callers
    <3>1. Callers = {t} /\ Worker[s] \in Threads \ {t}
      BY <1>1, <2>1 DEF OneCaller
    <3>2. C = Calls(t, s) /\ C' = Calls(t, s)'
      BY <3>1 DEF Calls
    <3>3. W' = W
      BY <1>2, <3>1 DEF Calls
    <3>4. W \in Int /\ Calls(t, s) \in Int /\ Calls(t, s)' \in Int
      BY DEF Calls
    <3> HIDE DEF C, W
    <3> QED
      BY <3>2, <3>3, <3>4
  <2>2. CASE t = Worker[s]
    <3>1. \A u \in Callers : Called(u, s)' <=> Called(u, s)
      BY <1>1, <1>2, <2>2 DEF Threads
    <3>2. C' = C
      BY <3>1
    <3>3. C \in Int /\ Calls(t, s) \in Int /\ Calls(t, s)' \in Int
      BY DEF Calls
    <3>4. W = Calls(t, s) /\ W' = Calls(t, s)'
      BY <2>2
    <3> HIDE DEF C, W
    <3> QED
      BY <3>2, <3>3, <3>4
  <2> QED
    BY <1>1, <2>1, <2>2
<1>4. /\ C \in Int /\ C' \in Int /\ W \in Int /\ W' \in Int
      /\ Calls(t, s) \in Int /\ Calls(t, s)' \in Int
      /\ Deferral(s) \in Int /\ Deferral(s)' \in Int
      /\ Flag(s) \in Int /\ Flag(s)' \in Int
  BY DEF Calls, Deferral, Flag
<1>5. /\ CallsOpen(s) = C + W + Deferral(s) - Flag(s)
      /\ CallsOpen(s)' = C' + W' + Deferral(s)' - Flag(s)'
  BY DEF CallsOpen
<1>6. /\ bracket[s] >= CallsOpen(s)
      /\ ~disturbed => bracket[s] = CallsOpen(s)
  BY DEF Bracketed
<1> HIDE DEF C, W
<1>7. bracket'[s] >= CallsOpen(s)'
  BY <1>1, <1>3, <1>4, <1>5, <1>6
<1>8. ASSUME ~disturbed' PROVE bracket'[s] = CallsOpen(s)'
  <2>1. bracket[s] = CallsOpen(s)
    BY <1>6, <1>8
  <2>2. bracket'[s] + Calls(t, s) + Deferral(s) - Flag(s)
          = bracket[s] + Calls(t, s)' + Deferral(s)' - Flag(s)'
    BY <1>8
  <2> QED
    BY <1>1, <1>3, <1>4, <1>5, <2>1, <2>2
<1> QED
  BY <1>7, <1>8

\* A step of one thread that is about no call of such a service.
LEMMA OutsideKeeps ==
  ASSUME IInv, OneCaller, Bracketed, NEW t \in Threads,
         \A u \in Threads \ {t} : stack'[u] = stack[u],
         stack[t] # << >> => Top(t).pc # "returned",
         \A s \in Async : ~Called(t, s) /\ ~Called(t, s)',
         \A s \in Async : bracket'[s] = bracket[s],
         bracket' \in [Services -> Int], ~disturbed' => ~disturbed,
         UNCHANGED << handedOver, deferred >>,
         \A s \in Async : stage'[s] = "working" => stage[s] = "working"
  PROVE  Bracketed'
<1> SUFFICES ASSUME NEW s \in Async
             PROVE  /\ bracket'[s] >= CallsOpen(s)'
                    /\ ~disturbed' => bracket'[s] = CallsOpen(s)'
                    /\ s \in handedOver' =>
                         \E u \in Callers : Called(u, s)' /\ Top(u)'.pc = "returned"
                    /\ stage'[s] = "working" => deferred'[s] # None
  BY DEF Bracketed, CallsOpen, Called, Calls, Top, Deferral, Flag
<1>1. bracket[s] \in Int
  BY SizeAssumption DEF IInv, TypeOK, Services
<1>2. /\ Calls(t, s) = 0 /\ Calls(t, s)' = 0
      /\ Deferral(s)' = Deferral(s) /\ Flag(s)' = Flag(s)
      /\ Deferral(s) \in Int /\ Flag(s) \in Int
  BY DEF Calls, Deferral, Flag
<1>3. bracket'[s] + Calls(t, s) + Deferral(s) - Flag(s)
        = bracket[s] + Calls(t, s)' + Deferral(s)' - Flag(s)'
  BY <1>1, <1>2
<1>4. bracket'[s] + Calls(t, s) + Deferral(s) - Flag(s)
        >= bracket[s] + Calls(t, s)' + Deferral(s)' - Flag(s)'
  BY <1>1, <1>2
<1>5. /\ bracket'[s] >= CallsOpen(s)'
      /\ ~disturbed' => bracket'[s] = CallsOpen(s)'
  BY <1>3, <1>4, Balance
<1>6. ASSUME s \in handedOver'
      PROVE  \E u \in Callers : Called(u, s)' /\ Top(u)'.pc = "returned"
  <2>1. PICK u \in Callers : Called(u, s) /\ Top(u).pc = "returned"
    BY <1>6 DEF Bracketed
  <2>2. u \in Threads \ {t}
    BY <2>1 DEF Called, Threads
  <2> QED
    BY <2>1, <2>2 DEF Called, Top
<1> QED
  BY <1>5, <1>6 DEF Bracketed

\* The frames after the innermost one is replaced, or another put before them.
LEMMA ReplacedTop ==
  ASSUME NEW s \in Seq(Frame), s # << >>, NEW f
  PROVE  LET new == << f >> \o Tail(s) IN
         /\ new # << >> /\ Head(new) = f
         /\ CallersIn(s) => CallersIn(new)
<1> DEFINE S == Frame \cup {f}
           new == << f >> \o Tail(s)
<1>1. /\ s \in Seq(S) /\ Len(s) \in Nat \ {0}
      /\ << f >> \in Seq(S) /\ Len(<< f >>) = 1 /\ << f >>[1] = f
  BY EmptySeq
<1>2. /\ Tail(s) \in Seq(S) /\ Len(Tail(s)) = Len(s) - 1
      /\ \A i \in 1..Len(Tail(s)) : Tail(s)[i] = s[i + 1]
  BY <1>1, HeadTailProperties
<1>3. /\ new \in Seq(S) /\ Len(new) = 1 + Len(Tail(s))
      /\ \A i \in 1..(1 + Len(Tail(s))) :
           new[i] = IF i <= 1 THEN << f >>[i] ELSE Tail(s)[i - 1]
  BY <1>1, <1>2, ConcatProperties
<1> HIDE DEF new, S
<1>4. new # << >> /\ Head(new) = f
  BY <1>1, <1>2, <1>3
<1>5. \A i \in 2..Len(new) : new[i] = s[i] /\ i \in 2..Len(s)
  BY <1>1, <1>2, <1>3
<1> QED
  BY <1>4, <1>5 DEF CallersIn, new

LEMMA PushedTop ==
  ASSUME NEW s \in Seq(Frame), s # << >>, NEW f,
         Head(s).pc = "inside" => Head(s).at \notin Async
  PROVE  LET new == << f >> \o s IN
         /\ new # << >> /\ Head(new) = f
         /\ CallersIn(s) => CallersIn(new)
<1> DEFINE S == Frame \cup {f}
           new == << f >> \o s
<1>1. /\ s \in Seq(S) /\ Len(s) \in Nat \ {0} /\ Head(s) = s[1]
      /\ << f >> \in Seq(S) /\ Len(<< f >>) = 1 /\ << f >>[1] = f
  BY EmptySeq
<1>2. /\ new \in Seq(S) /\ Len(new) = 1 + Len(s)
      /\ \A i \in 1..(1 + Len(s)) :
           new[i] = IF i <= 1 THEN << f >>[i] ELSE s[i - 1]
  BY <1>1, ConcatProperties
<1> HIDE DEF new, S
<1>3. new # << >> /\ Head(new) = f
  BY <1>1, <1>2
<1>4. \A i \in 2..Len(new) : new[i] = s[i - 1] /\ (i - 1 = 1 \/ i - 1 \in 2..Len(s))
  BY <1>1, <1>2
<1> QED
  BY <1>1, <1>3, <1>4 DEF CallersIn, new

\* A step of one thread that is about no call of such a service, by its frames.
LEMMA FramesKeep ==
  ASSUME IInv, OneCaller, BInv, NEW t \in Threads, NEW new,
         stack' = [stack EXCEPT ![t] = new],
         stack[t] # << >> =>
           Top(t).pc # "returned" /\ (Top(t).pc = "inside" => Top(t).at \notin Async),
         new # << >> =>
           Head(new).pc # "returned" /\ (Head(new).pc = "inside" => Head(new).at \notin Async),
         CallersIn(new),
         \A s \in Async : bracket'[s] = bracket[s],
         bracket' \in [Services -> Int], ~disturbed' => ~disturbed,
         UNCHANGED << handedOver, deferred >>,
         \A s \in Async : stage'[s] = "working" => stage[s] = "working"
  PROVE  BInv'
<1>1. stack'[t] = new /\ \A u \in Threads \ {t} : stack'[u] = stack[u]
  BY DEF IInv, TypeOK
<1>2. \A s \in Async : ~Called(t, s) /\ ~Called(t, s)'
  BY <1>1 DEF Called, Top
<1>3. Bracketed'
  BY <1>1, <1>2, OutsideKeeps DEF BInv
<1>4. \A u \in Threads : CallersIn(stack'[u])
  BY <1>1 DEF BInv
<1>5. \A u \in Threads : CallersIn(stack[u])'
  BY <1>4 DEF CallersIn
<1> QED
  BY <1>3, <1>5 DEF BInv

\* The same of one that replaces the innermost frame.
LEMMA TopKeeps ==
  ASSUME IInv, OneCaller, BInv, NEW t \in Threads, stack[t] # << >>, NEW f,
         SetTop(t, f), Top(t).pc \notin {"inside", "returned"},
         f.pc \notin {"inside", "returned"},
         UNCHANGED << handedOver, bracket, deferred, stage, disturbed >>
  PROVE  BInv'
<1> DEFINE new == << f >> \o Tail(stack[t])
<1>1. new # << >> /\ Head(new) = f /\ CallersIn(new)
  BY TopIs, ReplacedTop DEF BInv
<1>2. stack' = [stack EXCEPT ![t] = new]
  BY DEF SetTop
<1>3. bracket' \in [Services -> Int]
  BY DEF IInv, TypeOK
<1> HIDE DEF new
<1> QED
  BY <1>1, <1>2, <1>3, FramesKeep

LEMMA BeginReadBalances ==
  ASSUME IInv, OneCaller, BInv, NEW t \in Threads, BeginRead(t) PROVE BInv'
<1> DEFINE f == [Top(t) EXCEPT !.pc = "beginning", !.n = depth]
<1>1. /\ stack[t] # << >> /\ Top(t).pc = "begin" /\ SetTop(t, f)
      /\ UNCHANGED << handedOver, bracket, deferred, stage, disturbed >>
  BY DEF BeginRead, At, workVars, callVars
<1>2. f.pc = "beginning"
  BY <1>1, TopIs DEF Frame
<1> HIDE DEF f
<1> QED
  BY <1>1, <1>2, TopKeeps

LEMMA BeginWriteBalances ==
  ASSUME IInv, OneCaller, BInv, NEW t \in Threads, BeginWrite(t) PROVE BInv'
<1> DEFINE f == [Top(t) EXCEPT !.pc = "next", !.n = 0]
<1>1. /\ stack[t] # << >> /\ Top(t).pc = "beginning" /\ SetTop(t, f)
      /\ UNCHANGED << handedOver, bracket, deferred, stage, disturbed >>
  BY DEF BeginWrite, At, workVars, callVars
<1>2. f.pc = "next"
  BY <1>1, TopIs DEF Frame
<1> HIDE DEF f
<1> QED
  BY <1>1, <1>2, TopKeeps

LEMMA EndReadBalances ==
  ASSUME IInv, OneCaller, BInv, NEW t \in Threads, EndRead(t) PROVE BInv'
<1> DEFINE f == [Top(t) EXCEPT !.pc = "ending", !.n = depth]
<1>1. /\ stack[t] # << >> /\ Top(t).pc = "end" /\ SetTop(t, f)
      /\ UNCHANGED << handedOver, bracket, deferred, stage, disturbed >>
  BY DEF EndRead, At, workVars, callVars
<1>2. f.pc = "ending"
  BY <1>1, TopIs DEF Frame
<1> HIDE DEF f
<1> QED
  BY <1>1, <1>2, TopKeeps

LEMMA ExpireBalances ==
  ASSUME IInv, OneCaller, BInv, NEW t \in Threads, Expire(t) PROVE BInv'
<1> DEFINE f == Ending([Top(t) EXCEPT !.awaits = FALSE], "null")
<1>1. /\ stack[t] # << >> /\ Top(t).pc = "next" /\ SetTop(t, f)
      /\ UNCHANGED << handedOver, bracket, deferred, stage, disturbed >>
  BY DEF Expire, At, workVars, callVars
<1>2. f.pc = "end"
  BY <1>1, TopIs, FrameEndsUnawaited
<1> HIDE DEF f
<1> QED
  BY <1>1, <1>2, TopKeeps

LEMMA PastLastBalances ==
  ASSUME IInv, OneCaller, BInv, NEW t \in Threads, PastLast(t) PROVE BInv'
<1> DEFINE f == Ending(Top(t), "value")
<1>1. /\ stack[t] # << >> /\ Top(t).pc = "next" /\ SetTop(t, f)
      /\ UNCHANGED << handedOver, bracket, deferred, stage, disturbed >>
  BY DEF PastLast, At, workVars, callVars
<1>2. f.pc = "end"
  BY <1>1, TopIs, FrameEnds
<1> HIDE DEF f
<1> QED
  BY <1>1, <1>2, TopKeeps

LEMMA EnterBalances ==
  ASSUME IInv, OneCaller, BInv, NEW t \in Threads, Enter(t) PROVE BInv'
<1>1. /\ stack[t] # << >> /\ Top(t).pc = "next"
      /\ UNCHANGED << handedOver, bracket, deferred, stage, disturbed >>
  BY DEF Enter, At, workVars, callVars
<1>2. CASE Size = 0
  <2>1. SetTop(t, Ending(Top(t), "value")) /\ Ending(Top(t), "value").pc = "end"
    BY <1>1, <1>2, TopIs, FrameEnds DEF Enter
  <2> QED
    BY <1>1, <2>1, TopKeeps
<1>3. CASE Size # 0
  <2> DEFINE f == NewFrame("from", CurrentRun(t), Top(t).at, FALSE)
             new == << f >> \o stack[t]
  <2>1. stack' = [stack EXCEPT ![t] = new] /\ f.pc = "begin"
    BY <1>3 DEF Enter, Push, NewFrame
  <2>2. Head(stack[t]).pc = "next" /\ stack[t] \in Seq(Frame)
    BY <1>1, TopIs DEF Top
  <2> HIDE DEF f
  <2>3. new # << >> /\ Head(new) = f /\ CallersIn(new)
    BY <1>1, <2>2, PushedTop DEF BInv
  <2>4. bracket' \in [Services -> Int]
    BY <1>1 DEF IInv, TypeOK
  <2> HIDE DEF new
  <2> QED
    BY <1>1, <2>1, <2>3, <2>4, FramesKeep
<1> QED
  BY <1>2, <1>3

LEMMA CallInBalances ==
  ASSUME IInv, OneCaller, BInv, NEW t \in Threads, CallIn(t) PROVE BInv'
<1> DEFINE g == [Top(t) EXCEPT !.n = @ + 1]
           s == << g >> \o Tail(stack[t])
<1>1. /\ stack[t] # << >> /\ Top(t).pc = "inside" /\ Top(t).at \notin Async
      /\ UNCHANGED << handedOver, bracket, deferred, stage, disturbed >>
  BY DEF CallIn, At, workVars, callVars
<1>2. PICK f \in {NewFrame("from", CurrentRun(t), Top(t).at + 1, FALSE),
                  NewFrame("process", CurrentRun(t), 1, FALSE)} :
        stack' = [stack EXCEPT ![t] = << f, g >> \o Tail(stack[t])]
  BY DEF CallIn
<1>3. f.pc = "begin"
  BY <1>2 DEF NewFrame
<1>4. g \in Frame /\ g.at \notin Async
  <2>1. PICK h \in Frame : h = Top(t)
    BY <1>1, TopIs
  <2> QED
    BY <1>1, <2>1 DEF Frame
<1> HIDE DEF g
<1>5. stack[t] \in Seq(Frame) /\ Tail(stack[t]) \in Seq(Frame) /\ CallersIn(stack[t])
  BY <1>1, TopIs DEF BInv
<1>6. s \in Seq(Frame) /\ s # << >> /\ Head(s) = g /\ CallersIn(s)
  BY <1>1, <1>4, <1>5, ReplaceTop, ReplacedTop
<1>7. << f, g >> \o Tail(stack[t]) = << f >> \o s
  <2> DEFINE S == Frame \cup {f}
  <2>1. /\ << f >> \in Seq(S) /\ << g >> \in Seq(S) /\ Tail(stack[t]) \in Seq(S)
        /\ << f, g >> = << f >> \o << g >>
    BY <1>4, <1>5
  <2> HIDE DEF S
  <2> QED
    BY <2>1, ConcatAssociative
<1> DEFINE new == << f >> \o s
<1>8. stack' = [stack EXCEPT ![t] = new]
  BY <1>2, <1>7
<1> HIDE DEF s
<1>9. new # << >> /\ Head(new) = f /\ CallersIn(new)
  BY <1>4, <1>6, PushedTop
<1>10. bracket' \in [Services -> Int]
  BY <1>1 DEF IInv, TypeOK
<1> HIDE DEF new
<1> QED
  BY <1>1, <1>3, <1>8, <1>9, <1>10, FramesKeep

LEMMA AnswerBalances ==
  ASSUME IInv, IInv', OneCaller, BInv, NEW t \in Threads, Answer(t) PROVE BInv'
<1>1. /\ stack[t] # << >> /\ Top(t).pc = "inside" /\ Top(t).at \notin Async
      /\ bracket' = [bracket EXCEPT ![Top(t).at] = @ - 1]
      /\ UNCHANGED << handedOver, deferred, stage, disturbed >>
  BY DEF Answer, At, AnnouncedEnd, workVars
<1>2. PICK f : SetTop(t, f) /\ f.pc \in {"next", "end"}
  <2>1. Top(t) \in Frame
    BY <1>1, TopIs
  <2>2. [Top(t) EXCEPT !.pc = "next", !.at = @ + 1, !.n = 0].pc = "next"
    BY <2>1 DEF Frame
  <2>3. Ending(Top(t), "value").pc = "end"
    BY <2>1, FrameEnds
  <2>4. Ending([Top(t) EXCEPT !.awaits = FALSE], "null").pc = "end"
    BY <2>1, FrameEndsUnawaited
  <2> QED
    BY <2>2, <2>3, <2>4 DEF Answer
<1> DEFINE new == << f >> \o Tail(stack[t])
<1>3. new # << >> /\ Head(new) = f /\ CallersIn(new)
  BY <1>1, TopIs, ReplacedTop DEF BInv
<1>4. stack' = [stack EXCEPT ![t] = new]
  BY <1>2 DEF SetTop
<1>5. bracket' \in [Services -> Int]
  BY DEF IInv, TypeOK
<1>6. \A s \in Async : bracket'[s] = bracket[s]
  BY <1>1, SizeAssumption DEF IInv, TypeOK, Services
<1> HIDE DEF new
<1> QED
  BY <1>1, <1>2, <1>3, <1>4, <1>5, <1>6, FramesKeep

LEMMA EndWriteBalances ==
  ASSUME IInv, OneCaller, BInv, NEW t \in Threads, EndWrite(t) PROVE BInv'
<1> DEFINE u == Tail(stack[t])
           new == Returned(u, Top(t).val)
<1>1. /\ stack[t] # << >> /\ Top(t).pc = "ending"
      /\ stack' = [stack EXCEPT ![t] = new]
      /\ UNCHANGED << handedOver, bracket, deferred, stage, disturbed >>
  BY DEF EndWrite, At, workVars, callVars
<1>2. /\ stack[t] \in Seq(Frame) /\ Nested(stack[t]) /\ CallersIn(stack[t])
      /\ Len(stack[t]) \in Nat \ {0} /\ Top(t).val \in {"none", "null", "value"}
  BY <1>1, TopIs DEF BInv, Frame
<1>3. /\ u \in Seq(Frame) /\ Len(u) = Len(stack[t]) - 1
      /\ \A i \in 1..Len(u) : u[i] = stack[t][i + 1] /\ i + 1 \in 2..Len(stack[t])
  BY <1>2, HeadTailProperties, EmptySeq
<1> HIDE DEF u
<1>4. CallersIn(u)
  BY <1>2, <1>3 DEF CallersIn
<1>5. ASSUME u # << >>
      PROVE  /\ Head(u) \in Frame
             /\ Head(u).pc = "inside" => Head(u).at \notin Async
             /\ Head(u).pc = IF Head(u).kind = "process" THEN "next" ELSE "inside"
  <2>1. Head(u) = u[1] /\ 1 \in 1..Len(u) /\ u[1] \in Frame
    BY <1>3, <1>5
  <2>2. u[1] = stack[t][2] /\ 2 \in 2..Len(stack[t])
    <3>1. u[1] = stack[t][1 + 1] /\ 1 + 1 \in 2..Len(stack[t])
      BY <1>3, <2>1
    <3> QED
      BY <3>1
  <2> QED
    BY <1>2, <2>1, <2>2 DEF CallersIn, Nested
<1>6. /\ CallersIn(new)
      /\ new # << >> =>
           Head(new).pc # "returned" /\ (Head(new).pc = "inside" => Head(new).at \notin Async)
  <2>1. CASE u # << >> /\ Head(u).kind = "process"
    <3> DEFINE f == Ending(Head(u), Top(t).val)
    <3>1. new = << f >> \o Tail(u)
      BY <2>1 DEF Returned
    <3>2. f.pc = "end"
      BY <1>2, <1>5, <2>1, FrameEnds
    <3> HIDE DEF f, new
    <3>3. CallersIn(new) /\ Head(new) = f
      BY <1>3, <1>4, <2>1, <3>1, ReplacedTop
    <3> QED
      BY <3>2, <3>3
  <2>2. CASE ~(u # << >> /\ Head(u).kind = "process")
    <3>1. new = u
      BY <2>2 DEF Returned
    <3> HIDE DEF new
    <3> QED
      BY <1>4, <1>5, <2>2, <3>1
  <2> QED
    BY <2>1, <2>2
<1>7. bracket' \in [Services -> Int]
  BY <1>1 DEF IInv, TypeOK
<1> HIDE DEF new
<1> QED
  BY <1>1, <1>6, <1>7, FramesKeep

LEMMA CallBalances ==
  ASSUME IInv, OneCaller, BInv, NEW t \in Callers, Call(t) PROVE BInv'
<1>1. /\ stack[t] = << >> /\ disturbed' = Overlapping(t)
      /\ UNCHANGED << handedOver, bracket, deferred, stage >>
  BY DEF Call, workVars, callVars
<1>2. PICK f : stack' = [stack EXCEPT ![t] = << f >>] /\ f.pc = "begin"
  <2>1. CASE \E s \in Entries \cup {1} :
               stack' = [stack EXCEPT ![t] = << NewFrame("process", runs + 1, s, FALSE) >>]
    <3>1. PICK s \in Entries \cup {1} :
            stack' = [stack EXCEPT ![t] = << NewFrame("process", runs + 1, s, FALSE) >>]
      BY <2>1
    <3>2. NewFrame("process", runs + 1, s, FALSE).pc = "begin"
      BY DEF NewFrame
    <3> QED
      BY <3>1, <3>2
  <2>2. CASE \E s \in Entries, b \in BOOLEAN :
               stack' = [stack EXCEPT ![t] = << NewFrame("from", runs + 1, s + 1, b) >>]
    <3>1. PICK s \in Entries, b \in BOOLEAN :
            stack' = [stack EXCEPT ![t] = << NewFrame("from", runs + 1, s + 1, b) >>]
      BY <2>2
    <3>2. NewFrame("from", runs + 1, s + 1, b).pc = "begin"
      BY DEF NewFrame
    <3> QED
      BY <3>1, <3>2
  <2> QED
    BY <2>1, <2>2 DEF Call
<1>3. << f >> # << >> /\ Head(<< f >>) = f /\ CallersIn(<< f >>)
  BY DEF CallersIn
<1>4. /\ bracket' \in [Services -> Int] /\ (~disturbed' => ~disturbed)
      /\ t \in Threads
  BY <1>1 DEF IInv, TypeOK, Overlapping, Threads
<1> DEFINE new == << f >>
<1>5. stack' = [stack EXCEPT ![t] = new]
  BY <1>2
<1> HIDE DEF new
<1> QED
  BY <1>1, <1>2, <1>3, <1>4, <1>5, FramesKeep DEF new

\* What a step that replaces the innermost frame makes of a thread's frames.
LEMMA TopMade ==
  ASSUME IInv, BInv, NEW t \in Threads, stack[t] # << >>, NEW f, SetTop(t, f)
  PROVE  /\ stack'[t] # << >> /\ Top(t)' = f
         /\ \A u \in Threads \ {t} : stack'[u] = stack[u]
         /\ \A u \in Threads : CallersIn(stack[u])'
<1> DEFINE new == << f >> \o Tail(stack[t])
<1>1. new # << >> /\ Head(new) = f /\ CallersIn(new)
  BY TopIs, ReplacedTop DEF BInv
<1> HIDE DEF new
<1>2. stack'[t] = new /\ \A u \in Threads \ {t} : stack'[u] = stack[u]
  BY DEF IInv, TypeOK, SetTop, new
<1>3. \A u \in Threads : CallersIn(stack'[u])
  BY <1>1, <1>2 DEF BInv
<1>4. \A u \in Threads : CallersIn(stack[u])'
  BY <1>3 DEF CallersIn
<1> QED
  BY <1>1, <1>2, <1>4 DEF Top

\* A flag that is set is still to be looked at after a step of another thread,
\* or one of a thread that is not back from a call.
LEMMA FlagStays ==
  ASSUME Bracketed, NEW t \in Threads, NEW s \in Async, s \in handedOver,
         stack[t] # << >> => Top(t).pc # "returned",
         \A u \in Threads \ {t} : stack'[u] = stack[u]
  PROVE  \E u \in Callers : Called(u, s)' /\ Top(u)'.pc = "returned"
<1>1. PICK u \in Callers : Called(u, s) /\ Top(u).pc = "returned"
  BY DEF Bracketed
<1>2. u \in Threads \ {t}
  BY <1>1 DEF Called, Threads
<1> QED
  BY <1>1, <1>2 DEF Called, Top

\* A thread that enters a call of a service that answers from a worker, or goes on
\* in one, is a caller, or the service is at work.
LEMMA OnlyCallerDefers ==
  ASSUME IInv, OneCaller, NEW t \in Threads, stack[t] # << >>,
         NEW s \in Async, s \notin generating
  PROVE  t \in Callers /\ \A u \in Callers : u = t
<1>1. t \notin Workers
  <2>1. ASSUME NEW r \in Async, t = Worker[r] PROVE FALSE
    <3>1. r = s
      BY DEF OneCaller
    <3> QED
      BY <2>1, <3>1 DEF IInv, Working
  <2> QED
    BY <2>1 DEF Workers
<1> QED
  BY <1>1 DEF Threads, OneCaller

LEMMA CallServiceBalances ==
  ASSUME IInv, IInv', OneCaller, BInv, NEW t \in Threads, CallService(t) PROVE BInv'
<1> DEFINE f == [Top(t) EXCEPT !.pc = "inside"]
<1>1. /\ stack[t] # << >> /\ Top(t).pc = "next" /\ SetTop(t, f)
      /\ bracket' = [bracket EXCEPT ![Top(t).at] = @ + 1]
      /\ UNCHANGED << handedOver, deferred, stage, disturbed >>
  BY DEF CallService, At, Announced, workVars
<1>2. f.pc = "inside" /\ f.at = Top(t).at
  BY <1>1, TopIs DEF Frame
<1> HIDE DEF f
<1>3. /\ stack'[t] # << >> /\ Top(t)' = f
      /\ \A u \in Threads \ {t} : stack'[u] = stack[u]
      /\ \A u \in Threads : CallersIn(stack[u])'
  BY <1>1, TopMade
<1>4. ASSUME NEW s \in Async
      PROVE  /\ bracket'[s] >= CallsOpen(s)'
             /\ ~disturbed' => bracket'[s] = CallsOpen(s)'
             /\ s \in handedOver' =>
                  \E u \in Callers : Called(u, s)' /\ Top(u)'.pc = "returned"
             /\ stage'[s] = "working" => deferred'[s] # None
  <2>1. ~Called(t, s) /\ (Called(t, s)' <=> s = Top(t).at)
    BY <1>1, <1>2, <1>3 DEF Called
  <2>2. /\ Calls(t, s) = 0 /\ Calls(t, s)' = IF s = Top(t).at THEN 1 ELSE 0
        /\ Deferral(s)' = Deferral(s) /\ Flag(s)' = Flag(s)
        /\ Deferral(s) \in Int /\ Flag(s) \in Int
    BY <1>1, <2>1 DEF Calls, Deferral, Flag
  <2>3. /\ bracket[s] \in Int /\ bracket' \in [Services -> Int]
        /\ bracket'[s] = bracket[s] + IF s = Top(t).at THEN 1 ELSE 0
    BY <1>1, SizeAssumption DEF IInv, TypeOK, Services
  <2>4. bracket'[s] + Calls(t, s) + Deferral(s) - Flag(s)
          = bracket[s] + Calls(t, s)' + Deferral(s)' - Flag(s)'
    BY <2>2, <2>3
  <2>5. bracket'[s] + Calls(t, s) + Deferral(s) - Flag(s)
          >= bracket[s] + Calls(t, s)' + Deferral(s)' - Flag(s)'
    BY <2>2, <2>3
  <2>6. bracket'[s] >= CallsOpen(s)' /\ (~disturbed' => bracket'[s] = CallsOpen(s)')
    BY <1>1, <1>3, <2>3, <2>4, <2>5, Balance DEF BInv
  <2>7. s \in handedOver' =>
          \E u \in Callers : Called(u, s)' /\ Top(u)'.pc = "returned"
    BY <1>1, <1>3, FlagStays DEF BInv
  <2> QED
    BY <1>1, <2>6, <2>7 DEF BInv, Bracketed
<1> QED
  BY <1>3, <1>4 DEF BInv, Bracketed, CallsOpen, Called, Calls, Top, Deferral, Flag

LEMMA RefuseBalances ==
  ASSUME IInv, IInv', OneCaller, BInv, NEW t \in Threads, Refuse(t) PROVE BInv'
<1> DEFINE f == [Top(t) EXCEPT !.pc = "returned"]
<1>1. /\ stack[t] # << >> /\ Top(t).pc = "inside" /\ SetTop(t, f)
      /\ UNCHANGED << handedOver, bracket, deferred, stage, disturbed >>
  BY DEF Refuse, At, callVars, workVars
<1>2. f.pc = "returned" /\ f.at = Top(t).at
  BY <1>1, TopIs DEF Frame
<1> HIDE DEF f
<1>3. /\ stack'[t] # << >> /\ Top(t)' = f
      /\ \A u \in Threads \ {t} : stack'[u] = stack[u]
      /\ \A u \in Threads : CallersIn(stack[u])'
  BY <1>1, TopMade
<1>4. ASSUME NEW s \in Async
      PROVE  /\ bracket'[s] >= CallsOpen(s)'
             /\ ~disturbed' => bracket'[s] = CallsOpen(s)'
             /\ s \in handedOver' =>
                  \E u \in Callers : Called(u, s)' /\ Top(u)'.pc = "returned"
             /\ stage'[s] = "working" => deferred'[s] # None
  <2>1. Called(t, s)' <=> Called(t, s)
    BY <1>1, <1>2, <1>3 DEF Called
  <2>2. /\ Calls(t, s)' = Calls(t, s) /\ Calls(t, s) \in Int
        /\ Deferral(s)' = Deferral(s) /\ Flag(s)' = Flag(s)
        /\ Deferral(s) \in Int /\ Flag(s) \in Int
    BY <1>1, <2>1 DEF Calls, Deferral, Flag
  <2>3. /\ bracket[s] \in Int /\ bracket' \in [Services -> Int]
        /\ bracket'[s] = bracket[s]
    BY <1>1, SizeAssumption DEF IInv, TypeOK, Services
  <2>4. bracket'[s] + Calls(t, s) + Deferral(s) - Flag(s)
          = bracket[s] + Calls(t, s)' + Deferral(s)' - Flag(s)'
    BY <2>2, <2>3
  <2>5. bracket'[s] + Calls(t, s) + Deferral(s) - Flag(s)
          >= bracket[s] + Calls(t, s)' + Deferral(s)' - Flag(s)'
    BY <2>2, <2>3
  <2>6. bracket'[s] >= CallsOpen(s)' /\ (~disturbed' => bracket'[s] = CallsOpen(s)')
    BY <1>1, <1>3, <2>3, <2>4, <2>5, Balance DEF BInv
  <2>7. s \in handedOver' =>
          \E u \in Callers : Called(u, s)' /\ Top(u)'.pc = "returned"
    BY <1>1, <1>3, FlagStays DEF BInv
  <2> QED
    BY <1>1, <2>6, <2>7 DEF BInv, Bracketed
<1> QED
  BY <1>3, <1>4 DEF BInv, Bracketed, CallsOpen, Called, Calls, Top, Deferral, Flag

LEMMA DeferBalances ==
  ASSUME IInv, IInv', OneCaller, BInv, NEW t \in Threads, Defer(t) PROVE BInv'
<1> DEFINE f == [Top(t) EXCEPT !.pc = "returned"]
           a == Top(t).at
<1>1. /\ stack[t] # << >> /\ Top(t).pc = "inside" /\ SetTop(t, f)
      /\ a \in Async /\ a \notin generating
      /\ handedOver' = handedOver \cup {a}
      /\ deferred' = [deferred EXCEPT ![a] = Top(t).run]
      /\ UNCHANGED << bracket, disturbed >>
  BY DEF Defer, At, CurrentRun
<1>2. f.pc = "returned" /\ f.at = a /\ Top(t).run \in Runs
  BY <1>1, TopIs DEF Frame
<1> HIDE DEF f
<1>3. /\ stack'[t] # << >> /\ Top(t)' = f
      /\ \A u \in Threads \ {t} : stack'[u] = stack[u]
      /\ \A u \in Threads : CallersIn(stack[u])'
  BY <1>1, TopMade
<1>4. t \in Callers /\ \A u \in Callers : u = t
  BY <1>1, OnlyCallerDefers
<1>5. a \notin handedOver /\ deferred[a] = None
  BY <1>1, <1>4 DEF BInv, Bracketed, IInv, Working
<1>6. ASSUME NEW s \in Async
      PROVE  /\ bracket'[s] >= CallsOpen(s)'
             /\ ~disturbed' => bracket'[s] = CallsOpen(s)'
             /\ s \in handedOver' =>
                  \E u \in Callers : Called(u, s)' /\ Top(u)'.pc = "returned"
             /\ stage'[s] = "working" => deferred'[s] # None
  <2>1. s = a
    BY <1>1 DEF OneCaller
  <2>2. Called(t, s) /\ Called(t, s)' /\ Top(t)'.pc = "returned"
    BY <1>1, <1>2, <1>3, <2>1 DEF Called
  <2>3. deferred'[s] = Top(t).run /\ Top(t).run # None
    BY <1>1, <1>2, <2>1, WorkerAssumption DEF IInv, TypeOK, Runs
  <2>4. /\ Calls(t, s) = 1 /\ Calls(t, s)' = 1
        /\ Deferral(s) = 0 /\ Deferral(s)' = 1 /\ Flag(s) = 0 /\ Flag(s)' = 1
    BY <1>1, <1>5, <2>1, <2>2, <2>3 DEF Calls, Deferral, Flag
  <2>5. /\ bracket[s] \in Int /\ bracket' \in [Services -> Int]
        /\ bracket'[s] = bracket[s]
    BY <1>1, SizeAssumption DEF IInv, TypeOK, Services
  <2>6. bracket'[s] + Calls(t, s) + Deferral(s) - Flag(s)
          = bracket[s] + Calls(t, s)' + Deferral(s)' - Flag(s)'
    BY <2>4, <2>5
  <2>7. bracket'[s] + Calls(t, s) + Deferral(s) - Flag(s)
          >= bracket[s] + Calls(t, s)' + Deferral(s)' - Flag(s)'
    BY <2>4, <2>5
  <2>8. bracket'[s] >= CallsOpen(s)' /\ (~disturbed' => bracket'[s] = CallsOpen(s)')
    BY <1>1, <1>3, <2>5, <2>6, <2>7, Balance DEF BInv
  <2> QED
    BY <1>4, <2>2, <2>3, <2>8
<1> QED
  BY <1>3, <1>6 DEF BInv, Bracketed, CallsOpen, Called, Calls, Top, Deferral, Flag

LEMMA TakeProcessDeferredBalances ==
  ASSUME IInv, IInv', OneCaller, BInv, NEW t \in Threads, TakeProcessDeferred(t)
  PROVE  BInv'
<1> DEFINE f == Ending([Top(t) EXCEPT !.awaits = FALSE], "null")
           a == Top(t).at
<1>1. /\ stack[t] # << >> /\ Top(t).pc = "returned" /\ SetTop(t, f)
      /\ handedOver' = handedOver \ {a}
      /\ IF a \in handedOver THEN bracket' = bracket
         ELSE bracket' = [bracket EXCEPT ![a] = @ - 1]
      /\ UNCHANGED << deferred, stage, disturbed >>
  BY DEF TakeProcessDeferred, At, AnnouncedEnd, workVars
<1>2. f.pc = "end"
  BY <1>1, TopIs, FrameEndsUnawaited
<1> HIDE DEF f
<1>3. /\ stack'[t] # << >> /\ Top(t)' = f
      /\ \A u \in Threads \ {t} : stack'[u] = stack[u]
      /\ \A u \in Threads : CallersIn(stack[u])'
  BY <1>1, TopMade
<1>4. ASSUME NEW s \in Async
      PROVE  /\ bracket'[s] >= CallsOpen(s)'
             /\ ~disturbed' => bracket'[s] = CallsOpen(s)'
             /\ s \in handedOver' =>
                  \E u \in Callers : Called(u, s)' /\ Top(u)'.pc = "returned"
             /\ stage'[s] = "working" => deferred'[s] # None
  <2>1. (Called(t, s) <=> s = a) /\ ~Called(t, s)'
    BY <1>1, <1>2, <1>3 DEF Called
  <2>2. /\ Calls(t, s) = (IF s = a THEN 1 ELSE 0) /\ Calls(t, s)' = 0
        /\ Deferral(s)' = Deferral(s) /\ Deferral(s) \in Int
        /\ Flag(s) = (IF s \in handedOver THEN 1 ELSE 0)
        /\ Flag(s)' = (IF s \in handedOver /\ s # a THEN 1 ELSE 0)
    BY <1>1, <2>1 DEF Calls, Deferral, Flag
  <2>3. /\ bracket[s] \in Int /\ bracket' \in [Services -> Int]
        /\ bracket'[s] = bracket[s] - IF s = a /\ a \notin handedOver THEN 1 ELSE 0
    <3>1. s \in Services /\ bracket \in [Services -> Int] /\ bracket' \in [Services -> Int]
      BY SizeAssumption DEF IInv, TypeOK, Services
    <3>2. CASE a \in handedOver
      BY <1>1, <3>1, <3>2
    <3>3. CASE a \notin handedOver
      BY <1>1, <3>1, <3>3
    <3> QED
      BY <3>2, <3>3
  <2>4. bracket'[s] + Calls(t, s) + Deferral(s) - Flag(s)
          = bracket[s] + Calls(t, s)' + Deferral(s)' - Flag(s)'
    BY <2>2, <2>3
  <2>5. bracket'[s] + Calls(t, s) + Deferral(s) - Flag(s)
          >= bracket[s] + Calls(t, s)' + Deferral(s)' - Flag(s)'
    BY <2>2, <2>3
  <2>6. bracket'[s] >= CallsOpen(s)' /\ (~disturbed' => bracket'[s] = CallsOpen(s)')
    BY <1>1, <1>3, <2>3, <2>4, <2>5, Balance DEF BInv
  <2>7. ASSUME s \in handedOver'
        PROVE  \E u \in Callers : Called(u, s)' /\ Top(u)'.pc = "returned"
    <3>1. PICK u \in Callers : Called(u, s) /\ Top(u).pc = "returned"
      BY <1>1, <2>7 DEF BInv, Bracketed
    <3>2. u \in Threads \ {t}
      BY <1>1, <2>1, <2>7, <3>1 DEF Threads
    <3> QED
      BY <1>3, <3>1, <3>2 DEF Called, Top
  <2> QED
    BY <1>1, <2>6, <2>7 DEF BInv, Bracketed
<1> QED
  BY <1>3, <1>4 DEF BInv, Bracketed, CallsOpen, Called, Calls, Top, Deferral, Flag

LEMMA ThrowBalances ==
  ASSUME IInv, IInv', OneCaller, BInv, NEW t \in Threads, Throw(t) PROVE BInv'
<1>1. /\ stack[t] # << >> /\ Top(t).pc # "returned"
      /\ stack' = [stack EXCEPT ![t] = << >>] /\ disturbed' = TRUE
      /\ UNCHANGED << handedOver, bracket, deferred, stage >>
  BY DEF Throw, At, callVars, workVars
<1>2. stack'[t] = << >> /\ \A u \in Threads \ {t} : stack'[u] = stack[u]
  BY <1>1 DEF IInv, TypeOK
<1>3. \A u \in Threads : CallersIn(stack[u])'
  <2>1. CallersIn(<< >>)
    BY DEF CallersIn
  <2>2. \A u \in Threads : CallersIn(stack'[u])
    BY <1>2, <2>1 DEF BInv
  <2> QED
    BY <2>2 DEF CallersIn
<1>4. ASSUME NEW s \in Async
      PROVE  /\ bracket'[s] >= CallsOpen(s)'
             /\ ~disturbed' => bracket'[s] = CallsOpen(s)'
             /\ s \in handedOver' =>
                  \E u \in Callers : Called(u, s)' /\ Top(u)'.pc = "returned"
             /\ stage'[s] = "working" => deferred'[s] # None
  <2>1. /\ Calls(t, s) \in {0, 1} /\ Calls(t, s)' = 0
        /\ Deferral(s)' = Deferral(s) /\ Flag(s)' = Flag(s)
        /\ Deferral(s) \in Int /\ Flag(s) \in Int
    BY <1>1, <1>2 DEF Called, Calls, Deferral, Flag
  <2>2. /\ bracket[s] \in Int /\ bracket' \in [Services -> Int]
        /\ bracket'[s] = bracket[s]
    BY <1>1, SizeAssumption DEF IInv, TypeOK, Services
  <2>3. bracket'[s] + Calls(t, s) + Deferral(s) - Flag(s)
          >= bracket[s] + Calls(t, s)' + Deferral(s)' - Flag(s)'
    BY <2>1, <2>2
  <2>4. disturbed'
    BY <1>1
  <2>5. bracket'[s] >= CallsOpen(s)'
    BY <1>2, <2>2, <2>3, <2>4, Balance DEF BInv
  <2>6. s \in handedOver' =>
          \E u \in Callers : Called(u, s)' /\ Top(u)'.pc = "returned"
    BY <1>1, <1>2, FlagStays DEF BInv
  <2> QED
    BY <1>1, <2>4, <2>5, <2>6 DEF BInv, Bracketed
<1> QED
  BY <1>3, <1>4 DEF BInv, Bracketed, CallsOpen, Called, Calls, Top, Deferral, Flag

LEMMA EmitBalances ==
  ASSUME IInv, IInv', OneCaller, BInv, NEW a \in Async, Emit(a) PROVE BInv'
<1> DEFINE t == Worker[a]
           f == NewFrame("from", deferred[a], a + 1, FALSE)
           new == << f >>
<1>1. /\ stage[a] = "working" /\ deferred[a] # None
      /\ deferred' = [deferred EXCEPT ![a] = None]
      /\ bracket' = [bracket EXCEPT ![a] = @ - 1]
      /\ stack' = [stack EXCEPT ![t] = new]
      /\ stage' = [stage EXCEPT ![a] = "emitting"]
      /\ disturbed' = Overlapping(t) /\ UNCHANGED handedOver
  BY DEF Emit, AnnouncedEnd
<1>2. t \in Threads /\ stack[t] = << >>
  BY <1>1, WorkersAre DEF IInv, Working
<1>3. f.pc = "begin"
  BY DEF NewFrame
<1> HIDE DEF f
<1>4. new # << >> /\ Head(new) = f /\ CallersIn(new)
  BY DEF CallersIn
<1> HIDE DEF new, t
<1>5. stack'[t] = new /\ \A u \in Threads \ {t} : stack'[u] = stack[u]
  BY <1>1, <1>2 DEF IInv, TypeOK
<1>6. \A u \in Threads : CallersIn(stack[u])'
  <2>1. \A u \in Threads : CallersIn(stack'[u])
    BY <1>4, <1>5 DEF BInv
  <2> QED
    BY <2>1 DEF CallersIn
<1>7. ~disturbed' => ~disturbed
  BY <1>1 DEF Overlapping
<1>8. ASSUME NEW s \in Async
      PROVE  /\ bracket'[s] >= CallsOpen(s)'
             /\ ~disturbed' => bracket'[s] = CallsOpen(s)'
             /\ s \in handedOver' =>
                  \E u \in Callers : Called(u, s)' /\ Top(u)'.pc = "returned"
             /\ stage'[s] = "working" => deferred'[s] # None
  <2>1. s = a
    BY DEF OneCaller
  <2>2. ~Called(t, s) /\ ~Called(t, s)'
    BY <1>2, <1>3, <1>4, <1>5 DEF Called, Top
  <2>3. deferred'[s] = None /\ stage'[s] = "emitting"
    BY <1>1, <2>1 DEF IInv, TypeOK
  <2>4. /\ Calls(t, s) = 0 /\ Calls(t, s)' = 0
        /\ Deferral(s) = 1 /\ Deferral(s)' = 0
        /\ Flag(s)' = Flag(s) /\ Flag(s) \in Int
    BY <1>1, <2>1, <2>2, <2>3 DEF Calls, Deferral, Flag
  <2>5. /\ bracket[s] \in Int /\ bracket' \in [Services -> Int]
        /\ bracket'[s] = bracket[s] - 1
    BY <1>1, <2>1, SizeAssumption DEF IInv, TypeOK, Services
  <2>6. bracket'[s] + Calls(t, s) + Deferral(s) - Flag(s)
          = bracket[s] + Calls(t, s)' + Deferral(s)' - Flag(s)'
    BY <2>4, <2>5
  <2>7. bracket'[s] + Calls(t, s) + Deferral(s) - Flag(s)
          >= bracket[s] + Calls(t, s)' + Deferral(s)' - Flag(s)'
    BY <2>4, <2>5
  <2>8. bracket'[s] >= CallsOpen(s)' /\ (~disturbed' => bracket'[s] = CallsOpen(s)')
    BY <1>2, <1>5, <1>7, <2>5, <2>6, <2>7, Balance DEF BInv
  <2>9. s \in handedOver' =>
          \E u \in Callers : Called(u, s)' /\ Top(u)'.pc = "returned"
    BY <1>1, <1>2, <1>5, FlagStays DEF BInv
  <2> QED
    BY <2>3, <2>8, <2>9
<1> QED
  BY <1>6, <1>8 DEF BInv, Bracketed, CallsOpen, Called, Calls, Top, Deferral, Flag

LEMMA EndDeferredBalances ==
  ASSUME IInv, IInv', OneCaller, BInv, NEW a \in Async, EndDeferred(a) PROVE BInv'
<1>1. /\ deferred' = [deferred EXCEPT ![a] = None]
      /\ IF deferred[a] = None THEN bracket' = bracket
         ELSE bracket' = [bracket EXCEPT ![a] = @ - 1]
      /\ stage' = [stage EXCEPT ![a] = "ended"]
      /\ UNCHANGED << stack, handedOver, disturbed >>
  BY DEF EndDeferred, AnnouncedEnd, passVars
<1>2. ASSUME NEW s \in Async
      PROVE  /\ bracket'[s] >= CallsOpen(s)'
             /\ ~disturbed' => bracket'[s] = CallsOpen(s)'
             /\ s \in handedOver' =>
                  \E u \in Callers : Called(u, s)' /\ Top(u)'.pc = "returned"
             /\ stage'[s] = "working" => deferred'[s] # None
  <2> DEFINE t == Worker[s]
  <2>1. s = a /\ t \in Threads
    BY WorkersAre DEF OneCaller
  <2>2. deferred'[s] = None /\ stage'[s] = "ended"
    BY <1>1, <2>1 DEF IInv, TypeOK
  <2>3. /\ Calls(t, s)' = Calls(t, s) /\ Calls(t, s) \in Int
        /\ Deferral(s) = (IF deferred[s] = None THEN 0 ELSE 1) /\ Deferral(s)' = 0
        /\ Flag(s)' = Flag(s) /\ Flag(s) \in Int
    BY <1>1, <2>2 DEF Called, Calls, Deferral, Flag, Top
  <2>4. /\ bracket[s] \in Int /\ bracket' \in [Services -> Int]
        /\ bracket'[s] = bracket[s] - IF deferred[s] = None THEN 0 ELSE 1
    <3>1. s \in Services /\ bracket \in [Services -> Int] /\ bracket' \in [Services -> Int]
      BY SizeAssumption DEF IInv, TypeOK, Services
    <3>2. CASE deferred[a] = None
      BY <1>1, <2>1, <3>1, <3>2
    <3>3. CASE deferred[a] # None
      BY <1>1, <2>1, <3>1, <3>3
    <3> QED
      BY <3>2, <3>3
  <2>5. bracket'[s] + Calls(t, s) + Deferral(s) - Flag(s)
          = bracket[s] + Calls(t, s)' + Deferral(s)' - Flag(s)'
    BY <2>3, <2>4
  <2>6. bracket'[s] + Calls(t, s) + Deferral(s) - Flag(s)
          >= bracket[s] + Calls(t, s)' + Deferral(s)' - Flag(s)'
    BY <2>3, <2>4
  <2> HIDE DEF t
  <2>7. bracket'[s] >= CallsOpen(s)' /\ (~disturbed' => bracket'[s] = CallsOpen(s)')
    BY <1>1, <2>1, <2>4, <2>5, <2>6, Balance DEF BInv
  <2>8. s \in handedOver' =>
          \E u \in Callers : Called(u, s)' /\ Top(u)'.pc = "returned"
    BY <1>1 DEF BInv, Bracketed, Called, Top
  <2> QED
    BY <2>2, <2>7, <2>8
<1>3. \A u \in Threads : CallersIn(stack[u])'
  BY <1>1 DEF BInv, CallersIn
<1> QED
  BY <1>2, <1>3 DEF BInv, Bracketed, CallsOpen, Called, Calls, Top, Deferral, Flag

\* Steps that announce nothing and move no frames.
LEMMA QuietKeeps ==
  ASSUME BInv, UNCHANGED << stack, handedOver, bracket, deferred, disturbed >>,
         \A s \in Async : stage'[s] = "working" => stage[s] = "working"
  PROVE  BInv'
BY DEF BInv, Bracketed, CallsOpen, Called, Calls, Top, Deferral, Flag, CallersIn

-----------------------------------------------------------------------------
\* While one thread begins passes and one worker answers, the calls announced
\* of a service are those that go on, until something throws, and never fewer
\* (notifyProcessFinished, takeProcessDeferred, endDeferred).
THEOREM CallsBalance ==
  ASSUME OneCaller PROVE Spec => [](IInv /\ BInv)
<1>1. ASSUME Init PROVE BInv
  <2>1. \A t \in Threads : stack[t] = << >>
    BY <1>1 DEF Init
  <2>2. \A t \in Threads : CallersIn(stack[t])
    BY <2>1 DEF CallersIn
  <2>3. ASSUME NEW s \in Async
        PROVE  /\ bracket[s] = CallsOpen(s) /\ bracket[s] >= CallsOpen(s)
               /\ s \notin handedOver /\ stage[s] # "working"
    <3>1. \A t \in Threads : ~Called(t, s)
      BY <2>1 DEF Called
    <3>2. /\ ~\E t \in Callers : Called(t, s)
          /\ Calls(Worker[s], s) = 0
      BY <3>1, WorkersAre DEF Calls, Threads
    <3>3. /\ Deferral(s) = 0 /\ Flag(s) = 0 /\ bracket[s] = 0
          /\ s \notin handedOver /\ stage[s] # "working"
      BY <1>1, SizeAssumption DEF Init, Deferral, Flag, Services
    <3> QED
      BY <3>2, <3>3 DEF CallsOpen
  <2> QED
    BY <2>2, <2>3 DEF BInv, Bracketed
<1>2. ASSUME IInv, IInv', BInv, OneCaller, [Next]_vars PROVE BInv'
  <2>1. CASE \E t \in Callers : Call(t)
    BY <1>2, <2>1, CallBalances
  <2>2. ASSUME NEW t \in Threads, Step(t) PROVE BInv'
    <3>1. CASE BeginRead(t) \/ BeginWrite(t) \/ EndRead(t) \/ EndWrite(t)
      BY <1>2, <3>1, BeginReadBalances, BeginWriteBalances, EndReadBalances,
         EndWriteBalances
    <3>2. CASE Enter(t) \/ Expire(t) \/ PastLast(t) \/ CallIn(t)
      BY <1>2, <3>2, EnterBalances, ExpireBalances, PastLastBalances, CallInBalances
    <3>3. CASE CallService(t) \/ Answer(t) \/ Throw(t)
      BY <1>2, <3>3, CallServiceBalances, AnswerBalances, ThrowBalances
    <3>4. CASE Defer(t) \/ Refuse(t) \/ TakeProcessDeferred(t)
      BY <1>2, <3>4, DeferBalances, RefuseBalances, TakeProcessDeferredBalances
    <3> QED
      BY <2>2, <3>1, <3>2, <3>3, <3>4 DEF Step
  <2>3. ASSUME NEW s \in Async, Work(s) PROVE BInv'
    <3>1. CASE Emit(s)
      BY <1>2, <3>1, EmitBalances
    <3>2. CASE EndDeferred(s)
      BY <1>2, <3>2, EndDeferredBalances
    <3>3. CASE WorkOver(s) \/ Admit(s)
      <4>1. UNCHANGED << stack, handedOver, bracket, deferred, disturbed >>
        BY <3>3 DEF WorkOver, Admit, passVars, callVars
      <4>2. \A r \in Async : stage'[r] = "working" => stage[r] = "working"
        BY <1>2, <3>3 DEF WorkOver, Admit, IInv, TypeOK
      <4> QED
        BY <1>2, <4>1, <4>2, QuietKeeps
    <3> QED
      BY <2>3, <3>1, <3>2, <3>3 DEF Work
  <2>4. CASE \E r \in Runs : ResolveResult(r)
    BY <1>2, <2>4, QuietKeeps DEF ResolveResult, passVars, workVars, callVars
  <2>5. CASE UNCHANGED vars
    BY <1>2, <2>5, QuietKeeps DEF vars, passVars, workVars, callVars
  <2> QED
    BY <1>2, <2>1, <2>2, <2>3, <2>4, <2>5 DEF Next
<1>3. BInv /\ IInv /\ IInv' /\ [Next]_vars => BInv'
  BY <1>2
<1>4. Init => BInv
  BY <1>1
<1> QED
  BY <1>3, <1>4, Inductive, PTL DEF Spec

\* The bracket of a call stays open while its worker works, and none stays open
\* that nothing is left to close (the indicator of a service covers the real
\* duration of its work: notifyProcessFinished).
THEOREM BracketsCover ==
  ASSUME OneCaller PROVE Spec => []BracketCoversWork
<1>1. ASSUME IInv, BInv, OneCaller PROVE BracketCoversWork
  <2> SUFFICES ASSUME NEW s \in Async
               PROVE  /\ stage[s] = "working" => bracket[s] > 0
                      /\ ~disturbed /\ deferred[s] = None
                         /\ (\A t \in Threads : stack[t] = << >>) => bracket[s] = 0
    BY DEF BracketCoversWork
  <2> DEFINE C == IF \E t \in Callers : Called(t, s) THEN 1 ELSE 0
  <2>1. CallsOpen(s) = C + Calls(Worker[s], s) + Deferral(s) - Flag(s)
    BY DEF CallsOpen
  <2>2. /\ bracket[s] \in Int
        /\ bracket[s] >= CallsOpen(s) /\ (~disturbed => bracket[s] = CallsOpen(s))
        /\ Calls(Worker[s], s) \in {0, 1} /\ C \in {0, 1} /\ Deferral(s) \in {0, 1}
    BY <1>1, SizeAssumption DEF IInv, TypeOK, Services, BInv, Bracketed, Calls, Deferral
  <2>3. Flag(s) \in {0, 1} /\ Flag(s) <= C
    BY <1>1 DEF Flag, BInv, Bracketed
  <2>4. ASSUME stage[s] = "working" PROVE bracket[s] > 0
    <3>1. Deferral(s) = 1
      BY <1>1, <2>4 DEF BInv, Bracketed, Deferral
    <3> HIDE DEF C
    <3> QED
      BY <2>1, <2>2, <2>3, <3>1
  <2>5. ASSUME ~disturbed, deferred[s] = None, \A t \in Threads : stack[t] = << >>
        PROVE  bracket[s] = 0
    <3>1. C = 0 /\ Calls(Worker[s], s) = 0 /\ Deferral(s) = 0
      BY <2>5, WorkersAre DEF Called, Calls, Deferral, Threads
    <3>2. bracket[s] = CallsOpen(s)
      BY <2>2, <2>5
    <3> HIDE DEF C
    <3> QED
      BY <2>1, <2>2, <2>3, <3>1, <3>2
  <2> QED
    BY <2>4, <2>5
<1>2. IInv /\ BInv => BracketCoversWork
  BY <1>1
<1> QED
  BY <1>2, CallsBalance, PTL
=============================================================================
