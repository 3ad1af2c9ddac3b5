--------------------------- MODULE GdkShellProofs ---------------------------
(***************************************************************************)
(* Proofs about GdkShell for every max_queue_depth.  Whatever the threads  *)
(* of the program do is a behaviour of InferenceQueue, so what is proved   *)
(* there (QP) holds here; with what the main and the server thread add, it *)
(* gives the safety of the teardown.                                       *)
(***************************************************************************)
EXTENDS GdkShell, SequenceTheorems, TLAPS

QP == INSTANCE InferenceQueueProofs WITH Callers <- {Server}, Closer <- Main

USE ShellConstants DEF ShellConstants

-----------------------------------------------------------------------------
(* The queue within the program *)

LEMMA InitQueue == Init => QP!Init
BY DEF Init, Q!Init, QP!Init

\* A step of the program is a step of the queue or none of its business.
LEMMA StepQueue == [Next]_vars => [QP!Next]_(QP!vars)
<1> SUFFICES ASSUME [Next]_vars PROVE QP!Next \/ UNCHANGED queueVars
  BY DEF queueVars, QP!vars
<1>1. CASE UNCHANGED vars
  BY <1>1 DEF vars
<1>2. CASE LifecycleStop \/ ServerStep \/ AcceptFails
  BY <1>2 DEF LifecycleStop, ServerStep, AcceptFails, RunCheck, RunStart, LoopTest,
              GenerateReturns
<1>3. CASE MainStep
  <2>1. CASE QueueShutdown
    BY <2>1 DEF QueueShutdown, Q!ShutdownCall, QP!Next, QP!CloserNext, QP!ShutdownCall
  <2>2. CASE ~QueueShutdown
    BY <1>3, <2>2 DEF MainStep, Listen, ListenFails, SpawnServer, LifecycleStart,
       LifecycleReturn, ListenerStop, ListenerClose, JoinServer, MainReturn
  <2> QED
    BY <2>1, <2>2
<1>4. CASE ConnectionStep
  <2>1. CASE CallGenerate
    BY <2>1 DEF CallGenerate, Q!Generate, QP!Next, QP!CallerNext, QP!Generate
  <2>2. CASE AcceptConnection \/ CloseConnection
    BY <2>2 DEF AcceptConnection, CloseConnection
  <2> QED
    BY <1>4, <2>1, <2>2 DEF ConnectionStep
<1>5. CASE QueueStep
  <2>1. Q!CallerLock(Server) \/ Q!CallerStep(Server) => QP!CallerNext
    BY DEF Q!CallerLock, Q!CallerStep, Q!Reject, Q!Enqueue, Q!NotifyOne, Q!Return,
       Q!Full, Q!Awaken, QP!CallerNext, QP!CallerLock, QP!CallerStep, QP!Reject,
       QP!Enqueue, QP!NotifyOne, QP!Return, QP!Full, QP!Awaken
  <2>2. Q!WorkerNext => QP!WorkerNext
    BY DEF Q!WorkerNext, Q!WorkerLock, Q!SpuriousWakeup, Q!WorkerStep, Q!TestPredicate,
       Q!Block, Q!Exit, Q!Take, Q!Deliver, Q!Decode, Q!Results,
       QP!WorkerNext, QP!WorkerLock, QP!SpuriousWakeup, QP!WorkerStep, QP!TestPredicate,
       QP!Block, QP!Exit, QP!Take, QP!Deliver, QP!Decode, QP!Results
  <2>3. Q!ShutdownLock \/ Q!ShutdownStep => QP!CloserNext
    BY DEF Q!ShutdownLock, Q!ShutdownStep, Q!ShutdownSetStop, Q!ShutdownNotify,
       Q!ShutdownJoin, Q!Awaken, QP!CloserNext, QP!ShutdownLock, QP!ShutdownStep,
       QP!ShutdownSetStop, QP!ShutdownNotify, QP!ShutdownJoin, QP!Awaken
  <2> QED
    BY <1>5, <2>1, <2>2, <2>3 DEF QueueStep, QP!Next
<1> QED
  BY <1>1, <1>2, <1>3, <1>4, <1>5 DEF Next

\* The threads of the program use the queue as its module says it is used: what
\* InferenceQueueProofs proves of every client holds of this one.
THEOREM ShellUsesQueue == Spec => QP!Spec
<1> QED
  BY InitQueue, StepQueue, PTL DEF Spec, QP!Spec

LEMMA QueueInvariance == Spec => []QP!IInv
<1>1. QP!Spec => []QP!IInv
  BY QP!Invariance DEF QP!QueueConstants
<1> QED
  BY ShellUsesQueue, <1>1, PTL

-----------------------------------------------------------------------------
(* The inductive invariant: what the main and the server thread know of the  *)
(* queue at each point                                                       *)

\* TypeOK without the queue.
ShellTypeOK ==
  /\ main \in {"listen", "failed", "spawn", "start", "loop", "stop", "close", "shutdown",
               "draining", "destroy", "destroying", "exited"}
  /\ {asked, exitReq, running} \subseteq BOOLEAN
  /\ lsock \in {"none", "open", "closed"}
  /\ server \in {"unborn", "entry", "starting", "loop", "accept", "handling", "done"}
  /\ conn \in Conn!Phases
  /\ lsock = "none" <=> ~Constructed
  /\ lsock = "open" <=> main \in {"spawn", "start", "loop", "stop", "close"}
  /\ server = "unborn" <=> main \in {"listen", "failed", "spawn"}
  /\ server = "handling" <=> conn \in {"reading", "generating", "answering"}

\* shutdown() has joined the worker before it returns the first time, and the
\* main thread is past its first call of it when it destroys anything.
InMain ==
  /\ main \in {"draining", "destroy", "destroying", "exited"} <=> closer # "idle"
  /\ closer = "done" => ~joinable
  /\ ~joinable => worker = "exited"
  /\ main \in {"destroy", "destroying", "exited"} => ~joinable /\ server = "done"

\* The server thread is in generate() only while its connection waits for it.
InServer == caller[Server] # "idle" => conn = "generating"

ShellInv == ShellTypeOK /\ InMain /\ InServer

LEMMA InitShell == Init => ShellInv
BY DEF Init, Q!Init, Conn!Init, Conn!Phases, ShellInv, ShellTypeOK, InMain, InServer,
       Constructed

LEMMA StepShell == ShellInv /\ [Next]_vars => ShellInv'
<1> SUFFICES ASSUME ShellInv, [Next]_vars PROVE ShellInv'
  OBVIOUS
<1> USE DEF ShellInv, lifecycle, listener, shell, queueVars
<1>1. CASE UNCHANGED vars
  BY <1>1 DEF vars, ShellTypeOK, Constructed, InMain, InServer
<1>2. CASE LifecycleStop \/ AcceptFails \/ ServerStep
  <2>1. ShellTypeOK'
    BY <1>2 DEF ShellTypeOK, Constructed, Conn!Phases, Conn!EngineReturns, Conn!Turn,
       LifecycleStop, AcceptFails, ServerStep, RunCheck, RunStart, LoopTest, GenerateReturns
  <2>2. InMain' /\ InServer'
    BY <1>2 DEF ShellTypeOK, InMain, InServer, Conn!EngineReturns, Conn!Turn,
       LifecycleStop, AcceptFails, ServerStep, RunCheck, RunStart, LoopTest, GenerateReturns
  <2> QED
    BY <2>1, <2>2
<1>3. CASE MainStep
  <2>1. ShellTypeOK'
    BY <1>3 DEF ShellTypeOK, Constructed, Conn!Phases, MainStep, Listen, ListenFails,
       SpawnServer, LifecycleStart, LifecycleReturn, ListenerStop, ListenerClose,
       QueueShutdown, JoinServer, MainReturn
  <2>2. InServer'
    BY <1>3 DEF InServer, MainStep, Listen, ListenFails,
       SpawnServer, LifecycleStart, LifecycleReturn, ListenerStop, ListenerClose,
       QueueShutdown, Q!ShutdownCall, JoinServer, MainReturn
  <2>3. InMain'
    BY <1>3 DEF InMain, ShellTypeOK, MainStep, Listen, ListenFails,
       SpawnServer, LifecycleStart, LifecycleReturn, ListenerStop, ListenerClose,
       QueueShutdown, Q!ShutdownCall, JoinServer, MainReturn
  <2> QED
    BY <2>1, <2>2, <2>3
<1>4. CASE ConnectionStep
  <2>1. ShellTypeOK'
    BY <1>4 DEF ShellTypeOK, Constructed, Conn!Phases, ConnectionStep, AcceptConnection,
       CallGenerate, CloseConnection, Conn!Open, Conn!CallEngine, Conn!Close, Conn!Turn
  <2>2. InMain' /\ InServer'
    BY <1>4 DEF ShellTypeOK, InMain, InServer, ConnectionStep, AcceptConnection,
       CallGenerate, CloseConnection, Q!Generate, Conn!Open, Conn!CallEngine, Conn!Close,
       Conn!Turn
  <2> QED
    BY <2>1, <2>2
<1>5. CASE QueueStep
  <2>1. UNCHANGED shell
    BY <1>5 DEF QueueStep
  <2>2. ShellTypeOK'
    BY <2>1 DEF ShellTypeOK, Constructed
  <2>3. CASE Q!CallerLock(Server) \/ Q!CallerStep(Server)
    BY <2>1, <2>2, <2>3 DEF InMain, InServer, Q!CallerLock, Q!CallerStep, Q!Reject, Q!Enqueue,
       Q!NotifyOne, Q!Return, Q!Awaken
  <2>4. CASE Q!WorkerNext
    BY <2>1, <2>2, <2>4 DEF InMain, InServer, Q!WorkerNext, Q!WorkerLock, Q!SpuriousWakeup,
       Q!WorkerStep, Q!TestPredicate, Q!Block, Q!Exit, Q!Take, Q!Deliver, Q!Decode
  <2>5. CASE Q!ShutdownLock \/ Q!ShutdownStep
    BY <2>1, <2>2, <2>5 DEF InMain, InServer, Q!ShutdownLock, Q!ShutdownStep, Q!ShutdownSetStop,
       Q!ShutdownNotify, Q!ShutdownJoin, Q!Awaken
  <2> QED
    BY <1>5, <2>2, <2>3, <2>4, <2>5 DEF QueueStep
<1> QED
  BY <1>1, <1>2, <1>3, <1>4, <1>5 DEF Next

LEMMA ShellInvariance == Spec => []ShellInv
<1> QED
  BY InitShell, StepShell, PTL DEF Spec

-----------------------------------------------------------------------------
(* Safety *)

\* The only thread that serves is the only caller of the queue.
LEMMA OneInLine == QP!IInv => Len(queue) <= 1
<1> SUFFICES ASSUME QP!IInv PROVE Len(queue) <= 1
  OBVIOUS
<1>1. queue \in Seq({Server}) /\ QP!NoRepeats(queue)
  BY DEF QP!IInv, QP!TypeOK, QP!JobConservation
<1>2. Len(queue) \in Nat /\ \A i \in 1..Len(queue) : queue[i] = Server
  BY <1>1
<1>3. ~(1 \in 1..Len(queue) /\ 2 \in 1..Len(queue))
  BY <1>1, <1>2 DEF QP!NoRepeats
<1> QED
  BY <1>2, <1>3

\* A request in the queue or at the worker is that of a handler blocked on it.
LEMMA Blocked ==
  ASSUME QP!IInv, ShellInv, queue # << >> \/ worker \in {"decode", "deliver"}
  PROVE  conn = "generating" /\ (worker \in {"decode", "deliver"} => job = Server)
<1>1. worker \in {"decode", "deliver"} => job = Server
  BY DEF QP!IInv, QP!TypeOK, QP!JobConservation
<1>2. queue # << >> => QP!Queued(Server)
  <2>1. queue \in Seq({Server})
    BY DEF QP!IInv, QP!TypeOK
  <2>2. queue # << >> => queue[1] = Server /\ 1 \in 1..Len(queue)
    BY <2>1, EmptySeq, LenProperties
  <2> QED
    BY <2>2 DEF QP!Queued, QP!Occurs
<1>3. QP!Owed(Server)
  BY <1>1, <1>2 DEF QP!IInv, QP!JobConservation, QP!AtWorker
<1> QED
  BY <1>1, <1>3 DEF QP!Owed, ShellInv, InServer

\* The threads, the socket and the queue keep their types; with one serving
\* thread, the queue never holds a second request.
THEOREM ShellTypeCorrect == Spec => []TypeOK
<1>1. QP!IInv /\ ShellInv => TypeOK
  BY OneInLine DEF ShellInv, ShellTypeOK, TypeOK, QP!IInv, QP!TypeOK, Q!TypeOK,
     QP!WorkerPCs, QP!CallerPCs, QP!CloserPCs, QP!Results,
     Q!WorkerPCs, Q!CallerPCs, Q!CloserPCs, Q!Results
<1> QED
  BY QueueInvariance, ShellInvariance, <1>1, PTL

\* run() of main.cpp destroys its locals, the queue before the engine, when no
\* thread can reach them any more.
THEOREM SafeTeardown == Spec => []TeardownIsSafe
<1>1. QP!IInv /\ ShellInv => TeardownIsSafe
  <2> SUFFICES ASSUME QP!IInv, ShellInv PROVE TeardownIsSafe
    OBVIOUS
  <2>1. main \in {"destroy", "destroying", "exited"} =>
          server = "done" /\ worker = "exited" /\ ~joinable
    BY DEF ShellInv, InMain
  <2>2. main = "exited" => queue = << >>
    BY <2>1, Blocked DEF ShellInv, ShellTypeOK
  <2> QED
    BY <2>1, <2>2 DEF TeardownIsSafe
<1> QED
  BY QueueInvariance, ShellInvariance, <1>1, PTL

\* on_token runs only while the handler it writes for is blocked in generate(),
\* whatever the main thread is doing meanwhile.
THEOREM TokensReachALiveHandler == Spec => []TokensGoToALiveHandler
<1>1. QP!IInv /\ ShellInv => TokensGoToALiveHandler
  BY Blocked DEF TokensGoToALiveHandler, Q!AtWorker
<1> QED
  BY QueueInvariance, ShellInvariance, <1>1, PTL
=============================================================================
