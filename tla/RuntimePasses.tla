---------------------------- MODULE RuntimePasses ----------------------------
(***************************************************************************)
(* A pass of data through the services of one runtime, and who hears the   *)
(* result: hkp-rt/lib/src/runtime.cpp, service.cpp and process_depth.h,    *)
(* with the services whose work goes on in a worker (speech_to_text.cpp,   *)
(* text_generation.cpp and text_to_speech.cpp share one protocol).         *)
(*                                                                         *)
(* A pass runs to its end on the thread that began it, and any thread may  *)
(* begin one: a request, the socket of a client, a coordinator's message,  *)
(* a timer, an audio callback, a worker that hands on its answer.  A       *)
(* service may run the services after it, or the whole runtime, from       *)
(* inside its own call.  What the threads share is the count of open       *)
(* passes (ProcessDepth), a plain int: reading it and writing it back are  *)
(* two steps.  The services are given by their positions; the data that    *)
(* flows is reduced to whether it is null.  The pipeline is not edited     *)
(* while passes run, except that a service may be gone when a pass is      *)
(* handed on to it, which throws like a service that fails.  Passes that   *)
(* nobody asked for share one run while nothing is logged; here each has   *)
(* its own.                                                                *)
(***************************************************************************)
EXTENDS Integers, Sequences

CONSTANTS
  Callers,   \* threads that begin passes
  Size,      \* number of services in the runtime
  Async,     \* positions of the services that answer from a worker
  Entries,   \* positions at which passes are begun
  Worker,    \* Worker[s]: the worker thread of asynchronous service s
  Slots,     \* the slots of m_pendingResolve (8 in the code)
  MaxRuns,   \* bound on the runs begun
  MaxDepth,  \* bound on how deeply passes nest on a thread
  MaxCallsIn,  \* bound on how often a service calls in from one call
  MayThrow,  \* whether a service may throw
  None

ASSUME SizeAssumption ==
  /\ Size \in Nat /\ Async \subseteq 1..Size /\ Entries \subseteq 1..Size
  /\ MaxRuns \in Nat /\ MaxDepth \in Nat \ {0} /\ MaxCallsIn \in Nat
  /\ MayThrow \in BOOLEAN

ASSUME WorkerAssumption ==
  /\ \A s \in Async : Worker[s] \notin Callers
  /\ \A s, r \in Async : Worker[s] = Worker[r] => s = r
  /\ None \notin Nat

VARIABLES
  stack,       \* stack[t]: the frames of thread t, the innermost first
  depth,       \* m_processDepth
  runs,        \* how many runs have been begun: run r is the r-th
  generating,  \* the asynchronous services at work
  job,         \* job[s]: the run whose call started the worker of s
  stage,       \* stage[s]: what the worker of s is doing
  deferred,    \* deferred[s]: the run of the open deferred call of s, or None
  handedOver,  \* the services whose m_processDeferred is set
  bracket,     \* bracket[s]: calls of s announced, less those announced as finished
  finished,    \* runs whose outermost pass on a thread ended with a value
  heard,       \* runs of which a value left the runtime
  pending,     \* pending[i]: the run whose callback slot i holds, or None
  answers,     \* answers[r]: how often the callback of run r was called
  disturbed    \* whether passes ever stood on two threads, or one was cut short

passVars == << stack, depth, runs >>
workVars == << generating, job, stage, deferred >>
callVars == << handedOver, bracket >>
resultVars == << finished, heard, pending, answers >>
vars == << passVars, workVars, callVars, resultVars, disturbed >>

-----------------------------------------------------------------------------
Runs == 1..MaxRuns
Services == 1..Size
Workers == {Worker[s] : s \in Async}
Threads == Callers \cup Workers

\* A frame is one call of process or of processFrom.  at is the service it
\* calls next; awaits, whether a callback waits for its result; n, the depth it
\* read or, inside a call, how often the service has called in.
Frame ==
  [kind : {"process", "from"}, run : Runs, at : 1..(Size + 1),
   awaits : BOOLEAN, val : {"none", "null", "value"}, n : Int,
   pc : {"begin", "beginning", "next", "inside", "returned", "end", "ending"}]

NewFrame(kind, r, at, awaits) ==
  [kind |-> kind, run |-> r, at |-> at, awaits |-> awaits,
   val |-> "none", n |-> 0, pc |-> "begin"]

Top(t) == Head(stack[t])
At(t, pc) == stack[t] # << >> /\ Top(t).pc = pc

Push(t, f) == stack' = [stack EXCEPT ![t] = << f >> \o @]
SetTop(t, f) == stack' = [stack EXCEPT ![t] = << f >> \o Tail(@)]

\* The frame is over, with this value: what is left is to give its depth back.
Ending(f, val) == [f EXCEPT !.pc = "end", !.val = val]

\* What a frame's caller does when it returns val: process() is at its end,
\* and a service that called in is still inside its own call.
Returned(frames, val) ==
  IF frames # << >> /\ Head(frames).kind = "process"
    THEN << Ending(Head(frames), val) >> \o Tail(frames)
    ELSE frames

\* currentContext(): the run of the nearest frame on the thread.
MutCurrentRun(t) == runs
CurrentRun(t) == Top(t).run

\* The loop of processFrom has a service left to call.
MoreServices(f) == f.at <= Size

\* The pass this frame ends is the outermost there is, by the count it read.
MutLeaves(f) == f.n >= 1
Leaves(f) == f.n = 1


\* A call of service s is announced, and announced as finished: both name the
\* service, and no call.
Announced(s) == bracket' = [bracket EXCEPT ![s] = @ + 1]
AnnouncedEnd(s) == bracket' = [bracket EXCEPT ![s] = @ - 1]

Overlapping(t) == disturbed \/ \E u \in Threads \ {t} : stack[u] # << >>

-----------------------------------------------------------------------------
Init ==
  /\ stack = [t \in Threads |-> << >>] /\ depth = 0 /\ runs = 0
  /\ generating = {} /\ job = [s \in Async |-> None]
  /\ stage = [s \in Async |-> "idle"] /\ deferred = [s \in Async |-> None]
  /\ handedOver = {} /\ bracket = [s \in Services |-> 0]
  /\ finished = {} /\ heard = {}
  /\ pending = [i \in Slots |-> None] /\ answers = [r \in Runs |-> 0]
  /\ disturbed = FALSE

\* A thread outside any call begins a run: process() for a request or a
\* message, processAt() at a service named by it, nextInRun() with a callback
\* for a request to a mounted endpoint, nextAsync() for a source.
Call(t) ==
  /\ stack[t] = << >> /\ runs < MaxRuns
  /\ \/ \E s \in Entries \cup {1} :
          stack' = [stack EXCEPT ![t] = << NewFrame("process", runs + 1, s, FALSE) >>]
     \/ \E s \in Entries, b \in BOOLEAN :
          stack' = [stack EXCEPT ![t] = << NewFrame("from", runs + 1, s + 1, b) >>]
  /\ runs' = runs + 1
  /\ disturbed' = Overlapping(t)
  /\ UNCHANGED << depth, workVars, callVars, resultVars >>

\* onProcessBegin: the depth is read, and written one higher.
BeginRead(t) ==
  /\ At(t, "begin")
  /\ SetTop(t, [Top(t) EXCEPT !.pc = "beginning", !.n = depth])
  /\ UNCHANGED << depth, runs, workVars, callVars, resultVars, disturbed >>

BeginWrite(t) ==
  /\ At(t, "beginning")
  /\ depth' = Top(t).n + 1
  /\ SetTop(t, [Top(t) EXCEPT !.pc = "next", !.n = 0])
  /\ UNCHANGED << runs, workVars, callVars, resultVars, disturbed >>

\* process() runs its services from the one it starts at, and without any the
\* input is the result.
Enter(t) ==
  /\ At(t, "next") /\ Top(t).kind = "process"
  /\ IF Size = 0
       THEN SetTop(t, Ending(Top(t), "value"))
       ELSE Push(t, NewFrame("from", CurrentRun(t), Top(t).at, FALSE))
  /\ UNCHANGED << depth, runs, workVars, callVars, resultVars, disturbed >>

\* processFrom calls the next service, announcing the call.
CallService(t) ==
  /\ At(t, "next") /\ Top(t).kind = "from" /\ MoreServices(Top(t))
  /\ SetTop(t, [Top(t) EXCEPT !.pc = "inside"])
  /\ Announced(Top(t).at)
  /\ UNCHANGED << depth, runs, workVars, handedOver, resultVars, disturbed >>

\* The run is past its deadline: nothing more of it is called.
MutExpire(t) ==
  /\ At(t, "next") /\ Top(t).kind = "from" /\ MoreServices(Top(t))
  /\ stack' = [stack EXCEPT ![t] = Returned(Tail(@), "null")]
  /\ UNCHANGED << depth, runs, workVars, callVars, resultVars, disturbed >>

Expire(t) ==
  /\ At(t, "next") /\ Top(t).kind = "from" /\ MoreServices(Top(t))
  /\ SetTop(t, Ending([Top(t) EXCEPT !.awaits = FALSE], "null"))
  /\ UNCHANGED << depth, runs, workVars, callVars, resultVars, disturbed >>

\* The last service has answered: its value is the result of the frame.
PastLast(t) ==
  /\ At(t, "next") /\ Top(t).kind = "from" /\ ~MoreServices(Top(t))
  /\ SetTop(t, Ending(Top(t), "value"))
  /\ UNCHANGED << depth, runs, workVars, callVars, resultVars, disturbed >>

\* A service that answers in its call may call in first: next() runs the
\* services after it, a pull runs the runtime once more.  Both stay in the run
\* of the caller.
CallIn(t) ==
  /\ At(t, "inside") /\ Top(t).at \notin Async
  /\ Len(stack[t]) < MaxDepth /\ Top(t).n < MaxCallsIn
  /\ \E f \in {NewFrame("from", CurrentRun(t), Top(t).at + 1, FALSE),
               NewFrame("process", CurrentRun(t), 1, FALSE)} :
       stack' = [stack EXCEPT ![t] = << f, [Top(t) EXCEPT !.n = @ + 1] >> \o Tail(@)]
  /\ UNCHANGED << depth, runs, workVars, callVars, resultVars, disturbed >>

\* A service that answers in its call has an answer, one that ends the pass
\* early with it, or nothing to hand on.
Answer(t) ==
  /\ At(t, "inside") /\ Top(t).at \notin Async
  /\ \/ SetTop(t, [Top(t) EXCEPT !.pc = "next", !.at = @ + 1, !.n = 0])
     \/ SetTop(t, Ending(Top(t), "value"))
     \/ SetTop(t, Ending([Top(t) EXCEPT !.awaits = FALSE], "null"))
  /\ AnnouncedEnd(Top(t).at)
  /\ UNCHANGED << depth, runs, workVars, handedOver, resultVars, disturbed >>

\* A service that answers from a worker admits one call at a time.  The call
\* admitted is deferred: the run it is made in is kept for the answer.  A call
\* that is refused, for this or for its input, returns null.
Defer(t) ==
  LET s == Top(t).at IN
  /\ At(t, "inside") /\ s \in Async /\ s \notin generating
  /\ generating' = generating \cup {s}
  /\ handedOver' = handedOver \cup {s}
  /\ deferred' = [deferred EXCEPT ![s] = CurrentRun(t)]
  /\ job' = [job EXCEPT ![s] = CurrentRun(t)]
  /\ stage' = [stage EXCEPT ![s] = "working"]
  /\ SetTop(t, [Top(t) EXCEPT !.pc = "returned"])
  /\ UNCHANGED << depth, runs, bracket, resultVars, disturbed >>

MutRefuse(t) ==
  /\ At(t, "inside") /\ Top(t).at \in Async
  /\ handedOver' = handedOver \cup {Top(t).at}
  /\ deferred' = [deferred EXCEPT ![Top(t).at] = CurrentRun(t)]
  /\ SetTop(t, [Top(t) EXCEPT !.pc = "returned"])
  /\ UNCHANGED << depth, runs, generating, job, stage, bracket, resultVars, disturbed >>

Refuse(t) ==
  /\ At(t, "inside") /\ Top(t).at \in Async
  /\ SetTop(t, [Top(t) EXCEPT !.pc = "returned"])
  /\ UNCHANGED << depth, runs, workVars, callVars, resultVars, disturbed >>

\* takeProcessDeferred(): a call handed over is announced as finished by its
\* worker; one that was not, here.  Either way the pass goes no further.
MutTakeProcessDeferred(t) ==
  /\ At(t, "returned")
  /\ handedOver' = handedOver \ {Top(t).at}
  /\ AnnouncedEnd(Top(t).at)
  /\ SetTop(t, Ending([Top(t) EXCEPT !.awaits = FALSE], "null"))
  /\ UNCHANGED << depth, runs, workVars, resultVars, disturbed >>

TakeProcessDeferred(t) ==
  LET s == Top(t).at IN
  /\ At(t, "returned")
  /\ handedOver' = handedOver \ {s}
  /\ IF s \in handedOver THEN UNCHANGED bracket ELSE AnnouncedEnd(s)
  /\ SetTop(t, Ending([Top(t) EXCEPT !.awaits = FALSE], "null"))
  /\ UNCHANGED << depth, runs, workVars, resultVars, disturbed >>

\* onProcessEnd: the depth is read, and written one lower.  At zero the result
\* leaves the runtime; with a callback, one that found a slot is kept in it.
EndRead(t) ==
  /\ At(t, "end")
  /\ SetTop(t, [Top(t) EXCEPT !.pc = "ending", !.n = depth])
  /\ UNCHANGED << depth, runs, workVars, callVars, resultVars, disturbed >>

StorePendingCallback(f) ==
  IF Leaves(f) /\ f.awaits /\ \E i \in Slots : pending[i] = None
    THEN \E i \in Slots : pending[i] = None /\ pending' = [pending EXCEPT ![i] = f.run]
    ELSE UNCHANGED pending

EndWrite(t) ==
  LET f == Top(t)
      hasValue == f.val = "value"
  IN
  /\ At(t, "ending")
  /\ depth' = f.n - 1
  /\ heard' = heard \cup {r \in {f.run} : Leaves(f) /\ hasValue}
  /\ StorePendingCallback(f)
  /\ finished' = finished \cup {r \in {f.run} : Len(stack[t]) = 1 /\ hasValue}
  /\ stack' = [stack EXCEPT ![t] = Returned(Tail(@), f.val)]
  /\ UNCHANGED << runs, workVars, callVars, answers, disturbed >>

\* A service throws, or the one a pass is handed on to is gone: every frame of
\* the thread is unwound, and whoever began the pass catches it.
Throw(t) ==
  /\ MayThrow
  /\ At(t, "inside") \/ (At(t, "next") /\ Top(t).kind = "from")
  /\ stack' = [stack EXCEPT ![t] = << >>]
  /\ disturbed' = TRUE
  /\ UNCHANGED << depth, runs, workVars, callVars, resultVars >>

-----------------------------------------------------------------------------
(* The worker of an asynchronous service, and the listener of the results.  *)

\* emit(): the answer takes the deferred call, closes its bracket and runs the
\* services after this one in the run of that call.
Emit(s) ==
  LET continued == deferred[s] IN
  /\ stage[s] = "working" /\ continued # None
  /\ deferred' = [deferred EXCEPT ![s] = None]
  /\ AnnouncedEnd(s)
  /\ stack' = [stack EXCEPT ![Worker[s]] =
                 << NewFrame("from", continued, s + 1, FALSE) >>]
  /\ stage' = [stage EXCEPT ![s] = "emitting"]
  /\ disturbed' = Overlapping(Worker[s])
  /\ UNCHANGED << depth, runs, generating, job, handedOver, resultVars >>

\* The work is over: with no answer, or with the answer handed on.
WorkOver(s) ==
  /\ \/ stage[s] = "working"
     \/ stage[s] = "emitting" /\ stack[Worker[s]] = << >>
  /\ stage' = [stage EXCEPT ![s] = "over"]
  /\ UNCHANGED << passVars, generating, job, deferred, callVars, resultVars, disturbed >>

\* endDeferred(): a call that had no answer is announced as finished.
MutEndDeferred(s) ==
  /\ stage[s] = "over" /\ deferred[s] # None
  /\ deferred' = [deferred EXCEPT ![s] = None]
  /\ AnnouncedEnd(s)
  /\ stage' = [stage EXCEPT ![s] = "ended"]
  /\ UNCHANGED << passVars, generating, job, handedOver, resultVars, disturbed >>

EndDeferred(s) ==
  /\ stage[s] = "over"
  /\ deferred' = [deferred EXCEPT ![s] = None]
  /\ IF deferred[s] = None THEN UNCHANGED bracket ELSE AnnouncedEnd(s)
  /\ stage' = [stage EXCEPT ![s] = "ended"]
  /\ UNCHANGED << passVars, generating, job, handedOver, resultVars, disturbed >>

\* The service admits its next call.
Admit(s) ==
  /\ stage[s] = "ended"
  /\ generating' = generating \ {s}
  /\ job' = [job EXCEPT ![s] = None]
  /\ stage' = [stage EXCEPT ![s] = "idle"]
  /\ UNCHANGED << passVars, deferred, callVars, resultVars, disturbed >>

\* findAndRemovePendingCallback(): the next runtime's answer to an awaited
\* result arrives, once or again; only a slot that names its run calls back.
MutResolveResult(r) ==
  /\ \E i \in Slots : pending[i] = r
  /\ answers' = [answers EXCEPT ![r] = @ + 1]
  /\ UNCHANGED << passVars, workVars, callVars, finished, heard, pending, disturbed >>

ResolveResult(r) ==
  /\ \E i \in Slots : pending[i] = r
  /\ LET i == CHOOSE i \in Slots : pending[i] = r IN
       pending' = [pending EXCEPT ![i] = None]
  /\ answers' = [answers EXCEPT ![r] = @ + 1]
  /\ UNCHANGED << passVars, workVars, callVars, finished, heard, disturbed >>

-----------------------------------------------------------------------------
Step(t) ==
  \/ BeginRead(t) \/ BeginWrite(t) \/ Enter(t) \/ CallService(t)
  \/ Expire(t) \/ PastLast(t) \/ CallIn(t) \/ Answer(t) \/ Defer(t)
  \/ Refuse(t) \/ TakeProcessDeferred(t) \/ EndRead(t) \/ EndWrite(t)
  \/ Throw(t)

Work(s) == Emit(s) \/ WorkOver(s) \/ EndDeferred(s) \/ Admit(s)

Next ==
  \/ \E t \in Callers : Call(t)
  \/ \E t \in Threads : Step(t)
  \/ \E s \in Async : Work(s)
  \/ \E r \in Runs : ResolveResult(r)

Spec == Init /\ [][Next]_vars

\* A thread runs, and a worker's call into a model or a server comes back or
\* times out.  Nothing is promised of callers or of who listens.
FairSpec ==
  /\ Spec
  /\ \A t \in Threads : WF_vars(Step(t))
  /\ \A s \in Async : WF_vars(Work(s))

-----------------------------------------------------------------------------
TypeOK ==
  /\ stack \in [Threads -> Seq(Frame)]
  /\ depth \in Int /\ runs \in 0..MaxRuns
  /\ generating \subseteq Async
  /\ job \in [Async -> Runs \cup {None}]
  /\ stage \in [Async -> {"idle", "working", "emitting", "over", "ended"}]
  /\ deferred \in [Async -> Runs \cup {None}]
  /\ handedOver \subseteq Async /\ bracket \in [Services -> Int]
  /\ finished \subseteq Runs /\ heard \subseteq Runs
  /\ pending \in [Slots -> Runs \cup {None}]
  /\ answers \in [Runs -> 0..1]
  /\ disturbed \in BOOLEAN

\* The frames of a thread that the depth counts.
Counted(frames) ==
  IF frames = << >> THEN 0
  ELSE IF Head(frames).pc \in {"begin", "beginning"} THEN Len(frames) - 1
  ELSE Len(frames)

\* The depth is how deeply passes are nested, through services that call in,
\* defer, expire or end early (process_depth.h): as long as no thread stood in
\* a pass beside another and nothing threw.
DepthIsNesting ==
  ~disturbed =>
    /\ \A t \in Threads : stack[t] # << >> => depth = Counted(stack[t])
    /\ (\A t \in Threads : stack[t] = << >>) => depth = 0

\* What leaves the runtime is the result of an outermost pass and never the
\* value of one that a service ran from inside, and none of them is missed
\* (onProcessEnd): under the same condition.
HeardIsFinished == ~disturbed => heard = finished

\* An answer a worker hands on belongs to the call that started it: a call made
\* while it was at work cannot put its own run in place, and so receive the
\* answer under its caller's authority (the comments on deferCompletion and on
\* the overlapping request in speech_to_text.cpp).
AnswerBelongsToItsCall ==
  \A s \in Async :
    /\ deferred[s] # None => deferred[s] = job[s] /\ s \in generating
    /\ stage[s] = "emitting" =>
         \A i \in 1..Len(stack[Worker[s]]) : stack[Worker[s]][i].run = job[s]

\* A thread's frames are all of one run: whatever a service says or hands on
\* from inside a call is said in the run that call was made in, whatever other
\* threads, and the worker it left behind, are doing (ContextScope).
OneRunPerThread ==
  \A t \in Threads : \A i, j \in 1..Len(stack[t]) :
    stack[t][i].run = stack[t][j].run

\* A deferred call's bracket stays open while its worker has the answer to
\* make, however often the service is called meanwhile and refuses, and calls
\* that are over leave none behind (notifyProcessFinished: the indicator covers
\* the real duration; takeProcessDeferred).  It is stated of one caller and one
\* worker: of two callers, one may take the flag that the other's call has set.
BracketCoversWork ==
  \A s \in Async :
    /\ stage[s] = "working" => bracket[s] > 0
    /\ ~disturbed /\ deferred[s] = None /\ (\A t \in Threads : stack[t] = << >>)
         => bracket[s] = 0

\* The depth tells the outermost pass from the nested ones (process_depth.h),
\* and what a source hands on runs where it cannot meet another pass
\* ("thread-safe: posts to App io_context", timer.h): the result of an
\* outermost pass that ended is heard.
FinishedIsHeard == finished \subseteq heard

\* A service that answers from a worker admits calls again, whether the work
\* had an answer, had none or failed, and wherever the answer was handed on.
AdmitsAgain ==
  \A s \in Async : s \in generating ~> s \notin generating
=============================================================================
