--------------------------- MODULE InferenceQueue ---------------------------
(***************************************************************************)
(* core/queue/InferenceQueue.{h,cpp}: the bounded queue in front of the    *)
(* inference engine.  Any number of caller threads run generate(), one     *)
(* worker thread runs worker_loop(), one closing thread runs shutdown()    *)
(* (and, through the destructor, may run it again).  They share mu_, cv_,  *)
(* queue_ and stop_; each accepted job carries a promise whose future the  *)
(* caller blocks on.                                                       *)
(*                                                                         *)
(* A step is what a thread does between two points where another thread    *)
(* can get in: taking mu_, everything done while holding it that another   *)
(* thread cannot see in parts, the notification after it, the engine call, *)
(* the delivery.  cv_.wait is three steps (test the predicate, block and   *)
(* release, be woken and take mu_ again) because that is where a wakeup    *)
(* can be lost.                                                            *)
(***************************************************************************)
EXTENDS Naturals, Sequences

CONSTANTS Callers,         \* threads that call generate()
          Worker,          \* the thread started by the constructor
          Closer,          \* the thread that calls shutdown()
          NoThread,        \* nobody: mu_ is free, or there is no job
          MaxQueueDepth    \* max_queue_depth_

ASSUME QueueConstants ==
  /\ MaxQueueDepth \in Nat
  /\ Worker \notin Callers
  /\ Closer \notin Callers
  /\ NoThread \notin Callers
  /\ Worker # Closer /\ Worker # NoThread /\ Closer # NoThread

VARIABLES mu,        \* the thread that holds mu_
          queue,     \* queue_: a job is named by the caller blocked on it
          stop,      \* stop_
          worker,    \* where worker_loop() is
          job,       \* the Job local to one turn of worker_loop()
          reply,     \* the local `result' of worker_loop()
          caller,    \* where generate() is in each caller
          outcome,   \* the result each caller's promise/return value holds
          closer,    \* where shutdown() is
          joinable   \* worker_.joinable()

vars == <<mu, queue, stop, worker, job, reply, caller, outcome, closer, joinable>>

CallerPCs == {"idle", "lock", "locked", "notify", "get"}
WorkerPCs == {"lock", "test", "wait", "blocked", "woken", "take",
              "decode", "deliver", "exited"}
CloserPCs == {"idle", "lock", "locked", "notify", "join", "done"}

\* What engine_.generate() leaves in `result': a response it returned (whatever
\* its FinishReason) or the error that replaces an exception.
Results == {"response", "exception"}

Init ==
  /\ mu = NoThread
  /\ queue = << >>
  /\ stop = FALSE
  /\ worker = "lock"
  /\ job = NoThread
  /\ reply = "none"
  /\ caller = [c \in Callers |-> "idle"]
  /\ outcome = [c \in Callers |-> "none"]
  /\ closer = "idle"
  /\ joinable = TRUE

-----------------------------------------------------------------------------
(* generate(), in caller c *)

\* The promise and its future are made; the call goes on to take mu_.
Generate(c) ==
  /\ caller[c] = "idle"
  /\ caller' = [caller EXCEPT ![c] = "lock"]
  /\ outcome' = [outcome EXCEPT ![c] = "none"]
  /\ UNCHANGED <<mu, queue, stop, worker, job, reply, closer, joinable>>

CallerLock(c) ==
  /\ caller[c] = "lock"
  /\ mu = NoThread
  /\ mu' = c
  /\ caller' = [caller EXCEPT ![c] = "locked"]
  /\ UNCHANGED <<queue, stop, worker, job, reply, outcome, closer, joinable>>

\* Variant for validation: the bound is off by one.
FullOffByOne == Len(queue) > MaxQueueDepth

Full == Len(queue) >= MaxQueueDepth

\* Overload: return at once, without notifying anyone.
Reject(c) ==
  /\ caller[c] = "locked"
  /\ Full
  /\ mu' = NoThread
  /\ caller' = [caller EXCEPT ![c] = "idle"]
  /\ outcome' = [outcome EXCEPT ![c] = "overloaded"]
  /\ UNCHANGED <<queue, stop, worker, job, reply, closer, joinable>>

\* Note that stop_ is not looked at.
Enqueue(c) ==
  /\ caller[c] = "locked"
  /\ ~Full
  /\ queue' = Append(queue, c)
  /\ mu' = NoThread
  /\ caller' = [caller EXCEPT ![c] = "notify"]
  /\ UNCHANGED <<stop, worker, job, reply, outcome, closer, joinable>>

\* The worker is the only thread that ever waits on cv_, so notify_one and
\* notify_all both wake it if it is blocked, and are lost otherwise.
Awaken == worker' = IF worker = "blocked" THEN "woken" ELSE worker

NotifyOne(c) ==
  /\ caller[c] = "notify"
  /\ Awaken
  /\ caller' = [caller EXCEPT ![c] = "get"]
  /\ UNCHANGED <<mu, queue, stop, job, reply, outcome, closer, joinable>>

\* Variant for validation: the caller gives up waiting, as with wait_for.
ReturnWithoutResult(c) ==
  /\ caller[c] = "get"
  /\ caller' = [caller EXCEPT ![c] = "idle"]
  /\ UNCHANGED <<mu, queue, stop, worker, job, reply, outcome, closer, joinable>>

\* future.get() returns once the promise holds a value.
Return(c) ==
  /\ caller[c] = "get"
  /\ outcome[c] # "none"
  /\ caller' = [caller EXCEPT ![c] = "idle"]
  /\ UNCHANGED <<mu, queue, stop, worker, job, reply, outcome, closer, joinable>>

-----------------------------------------------------------------------------
(* worker_loop() *)

\* Variant for validation: cv_.wait without its predicate, so a wakeup is
\* believed and not tested.
WorkerLockTrustsWakeup ==
  /\ worker \in {"lock", "woken"}
  /\ mu = NoThread
  /\ mu' = Worker
  /\ worker' = IF worker = "woken" THEN "take" ELSE "test"
  /\ UNCHANGED <<queue, stop, job, reply, caller, outcome, closer, joinable>>

\* Taking mu_ at the top of the loop, and taking it again inside cv_.wait.
WorkerLock ==
  /\ worker \in {"lock", "woken"}
  /\ mu = NoThread
  /\ mu' = Worker
  /\ worker' = "test"
  /\ UNCHANGED <<queue, stop, job, reply, caller, outcome, closer, joinable>>

\* Variant for validation: the predicate looks at the queue only.
TestQueueOnly ==
  /\ worker = "test"
  /\ worker' = IF queue # << >> THEN "take" ELSE "wait"
  /\ UNCHANGED <<mu, queue, stop, job, reply, caller, outcome, closer, joinable>>

TestPredicate ==
  /\ worker = "test"
  /\ worker' = IF stop \/ queue # << >> THEN "take" ELSE "wait"
  /\ UNCHANGED <<mu, queue, stop, job, reply, caller, outcome, closer, joinable>>

\* Release mu_ and join the wait set in one step.
Block ==
  /\ worker = "wait"
  /\ mu' = NoThread
  /\ worker' = "blocked"
  /\ UNCHANGED <<queue, stop, job, reply, caller, outcome, closer, joinable>>

SpuriousWakeup ==
  /\ worker = "blocked"
  /\ worker' = "woken"
  /\ UNCHANGED <<mu, queue, stop, job, reply, caller, outcome, closer, joinable>>

\* Variant for validation: stop_ ends the loop with jobs still queued.
ExitWithoutDraining ==
  /\ worker = "take"
  /\ stop
  /\ mu' = NoThread
  /\ worker' = "exited"
  /\ UNCHANGED <<queue, stop, job, reply, caller, outcome, closer, joinable>>

Exit ==
  /\ worker = "take"
  /\ stop /\ queue = << >>
  /\ mu' = NoThread
  /\ worker' = "exited"
  /\ UNCHANGED <<queue, stop, job, reply, caller, outcome, closer, joinable>>

\* Variant for validation: the newest job is served first.
TakeNewest ==
  /\ worker = "take"
  /\ ~(stop /\ queue = << >>)
  /\ job' = queue[Len(queue)]
  /\ queue' = SubSeq(queue, 1, Len(queue) - 1)
  /\ mu' = NoThread
  /\ worker' = "decode"
  /\ UNCHANGED <<stop, reply, caller, outcome, closer, joinable>>

Take ==
  /\ worker = "take"
  /\ ~(stop /\ queue = << >>)
  /\ job' = Head(queue)
  /\ queue' = Tail(queue)
  /\ mu' = NoThread
  /\ worker' = "decode"
  /\ UNCHANGED <<stop, reply, caller, outcome, closer, joinable>>

\* engine_.generate() returns or throws; on_token ran any number of times.
Decode(r) ==
  /\ worker = "decode"
  /\ reply' = r
  /\ worker' = "deliver"
  /\ UNCHANGED <<mu, queue, stop, job, caller, outcome, closer, joinable>>

\* set_value, and the end of the scope of `job' and `result'.
Deliver ==
  /\ worker = "deliver"
  /\ outcome' = [outcome EXCEPT ![job] = reply]
  /\ job' = NoThread
  /\ reply' = "none"
  /\ worker' = "lock"
  /\ UNCHANGED <<mu, queue, stop, caller, closer, joinable>>

-----------------------------------------------------------------------------
(* shutdown(), called by main and again by the destructor *)

ShutdownCall ==
  /\ closer \in {"idle", "done"}
  /\ closer' = "lock"
  /\ UNCHANGED <<mu, queue, stop, worker, job, reply, caller, outcome, joinable>>

\* Variant for validation: stop_ is atomic, so it is stored without mu_.
ShutdownStoresUnlocked ==
  /\ closer = "lock"
  /\ stop' = TRUE
  /\ closer' = "notify"
  /\ UNCHANGED <<mu, queue, worker, job, reply, caller, outcome, joinable>>

ShutdownLock ==
  /\ closer = "lock"
  /\ mu = NoThread
  /\ mu' = Closer
  /\ closer' = "locked"
  /\ UNCHANGED <<queue, stop, worker, job, reply, caller, outcome, joinable>>

ShutdownSetStop ==
  /\ closer = "locked"
  /\ stop' = TRUE
  /\ mu' = NoThread
  /\ closer' = "notify"
  /\ UNCHANGED <<queue, worker, job, reply, caller, outcome, joinable>>

ShutdownNotify ==
  /\ closer = "notify"
  /\ Awaken
  /\ closer' = "join"
  /\ UNCHANGED <<mu, queue, stop, job, reply, caller, outcome, joinable>>

\* worker_.join() returns when the thread is over; a second shutdown() finds
\* it not joinable and skips the join.
ShutdownJoin ==
  /\ closer = "join"
  /\ joinable => worker = "exited"
  /\ joinable' = FALSE
  /\ closer' = "done"
  /\ UNCHANGED <<mu, queue, stop, worker, job, reply, caller, outcome>>

-----------------------------------------------------------------------------

CallerStep(c) == Reject(c) \/ Enqueue(c) \/ NotifyOne(c) \/ Return(c)

CallerNext == \E c \in Callers : Generate(c) \/ CallerLock(c) \/ CallerStep(c)

WorkerStep ==
  \/ TestPredicate \/ Block \/ Exit \/ Take \/ Deliver
  \/ \E r \in Results : Decode(r)

WorkerNext == WorkerLock \/ SpuriousWakeup \/ WorkerStep

ShutdownStep == ShutdownSetStop \/ ShutdownNotify \/ ShutdownJoin

CloserNext == ShutdownCall \/ ShutdownLock \/ ShutdownStep

Next == CallerNext \/ WorkerNext \/ CloserNext

\* Nobody is obliged to call generate() or shutdown().  A thread that can run
\* does run, the engine returns (its decode loop is bounded by max_tokens), and
\* a thread that keeps finding mu_ free gets it in the end: critical sections
\* are a few instructions long and the mutex does not starve a waiter for ever.
Fairness ==
  /\ \A c \in Callers : WF_vars(CallerStep(c)) /\ SF_vars(CallerLock(c))
  /\ WF_vars(WorkerStep) /\ SF_vars(WorkerLock)
  /\ WF_vars(ShutdownStep) /\ SF_vars(ShutdownLock)

Spec == Init /\ [][Next]_vars

FairSpec == Spec /\ Fairness

-----------------------------------------------------------------------------
(* Safety *)

\* Every variable has its type, and the deque never holds more than
\* max_queue_depth_ jobs, however many callers race through generate().
TypeOK ==
  /\ mu \in Callers \cup {Worker, Closer, NoThread}
  /\ queue \in Seq(Callers)
  /\ Len(queue) <= MaxQueueDepth
  /\ stop \in BOOLEAN
  /\ worker \in WorkerPCs
  /\ job \in Callers \cup {NoThread}
  /\ reply \in Results \cup {"none"}
  /\ caller \in [Callers -> CallerPCs]
  /\ outcome \in [Callers -> Results \cup {"none", "overloaded"}]
  /\ closer \in CloserPCs
  /\ joinable \in BOOLEAN

\* mu_ is held by exactly the thread whose code is inside a critical section.
LockDiscipline ==
  /\ \A c \in Callers : mu = c <=> caller[c] = "locked"
  /\ mu = Worker <=> worker \in {"test", "wait", "take"}
  /\ mu = Closer <=> closer = "locked"

Occurs(c, s) == \E i \in 1..Len(s) : s[i] = c
NoRepeats(s) == \A i, j \in 1..Len(s) : s[i] = s[j] => i = j

Queued(c) == Occurs(c, queue)
AtWorker(c) == worker \in {"decode", "deliver"} /\ job = c

\* The caller's request was accepted and its promise holds nothing yet.
Owed(c) == caller[c] \in {"notify", "get"} /\ outcome[c] = "none"

\* No job is lost, duplicated or answered twice: a caller that is owed an
\* answer is in the queue, once, or at the worker, and not both; and nobody
\* else is in either place.  So set_value never finds the promise satisfied,
\* and on_token, which refers to locals of the caller's frame, only runs while
\* that frame is blocked in future.get() or about to be.
JobConservation ==
  /\ NoRepeats(queue)
  /\ \A c \in Callers : Owed(c) <=> Queued(c) \/ AtWorker(c)
  /\ \A c \in Callers : ~(Queued(c) /\ AtWorker(c))
  /\ worker \in {"decode", "deliver"} <=> job # NoThread

\* The worker never sleeps over work or over a stop request unless a
\* notification for it is still to come.  This is what storing stop_ and
\* pushing under mu_ buys, and what the relaxed atomic alone would not.
NoLostWakeup ==
  worker = "blocked" /\ (queue # << >> \/ stop) =>
    closer = "notify" \/ \E c \in Callers : caller[c] = "notify"

\* queue_.front() and pop_front() are only reached with a job in the queue,
\* spurious wakeups and late notifications included.
FrontIsDefined == worker = "take" => stop \/ queue # << >>

\* What the control points of the three threads say about the shared state;
\* with the properties above it makes an inductive invariant.
ControlPoints ==
  /\ worker = "wait" => queue = << >> /\ ~stop
  /\ worker = "deliver" <=> reply # "none"
  /\ \A c \in Callers : caller[c] \in {"lock", "locked"} => outcome[c] = "none"

IInv ==
  /\ TypeOK
  /\ LockDiscipline
  /\ JobConservation
  /\ NoLostWakeup
  /\ FrontIsDefined
  /\ ControlPoints

-----------------------------------------------------------------------------
(* Liveness *)

\* A caller whose job was accepted while the worker still ran is released:
\* shutdown() lets the worker drain the queue before it exits.
AcceptedIsAnswered ==
  \A c \in Callers : (Owed(c) /\ worker # "exited") ~> (caller[c] = "idle")

\* shutdown() returns if generate() calls stop arriving.
ShutdownReturnsWhenQuiet ==
  (<>[][\A c \in Callers : ~Generate(c)]_vars) =>
    ((closer = "lock") ~> (closer = "done"))

-----------------------------------------------------------------------------
(* Refinement *)

\* The queue implements the single-flight service of SingleFlight: the line is
\* queue_, and the caller being served is the one whose job left the queue.
Abstract == INSTANCE SingleFlight WITH
  Capacity <- MaxQueueDepth,
  Answers <- Results,
  Nobody <- NoThread,
  inside <- {c \in Callers : caller[c] # "idle"},
  line <- queue,
  serving <- job,
  answer <- outcome,
  closed <- stop,
  retired <- (worker = "exited")

\* Threads, mutex and condition variable together do no more than that:
\* callers are answered in the order they were accepted, one at a time, and
\* the worker retires only when asked to and with an empty line.
ImplementsSingleFlight == Abstract!SFSpec

-----------------------------------------------------------------------------
(* What the comments of the code promise and the code does not keep *)

\* InferenceQueue.h:34: generate() blocks until the worker completes the
\* request.  A caller is never blocked on a worker that is gone.
NoCallerStranded == worker = "exited" => \A c \in Callers : ~Owed(c)
=============================================================================
