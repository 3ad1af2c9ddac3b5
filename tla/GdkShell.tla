------------------------------ MODULE GdkShell ------------------------------
(***************************************************************************)
(* pal/gdk-desktop/main.cpp: the threads of the desktop program and how it *)
(* is brought up and down.  The main thread listens, starts the server     *)
(* thread, blocks in GdkLifecycle::start(), then stops the listener, shuts *)
(* the queue down, joins the server thread and destroys its locals.  The   *)
(* server thread runs GdkSocketListener::run(), whose handler serves a     *)
(* request to its end before the next accept(); it is the only caller of   *)
(* the inference queue.  Some other thread may call GdkLifecycle::stop().  *)
(*                                                                         *)
(* The queue is the module InferenceQueue, with the server thread as its   *)
(* caller and the main thread as its closer; the connection being served   *)
(* is a Connection, which HttpServer implements.                           *)
(***************************************************************************)
EXTENDS Naturals, Sequences

CONSTANTS Server, Worker, Main, NoThread,
          MaxQueueDepth

ASSUME ShellConstants ==
  /\ MaxQueueDepth \in Nat
  /\ Server # Worker /\ Server # Main /\ Server # NoThread
  /\ Worker # Main /\ Worker # NoThread /\ Main # NoThread

VARIABLES main,       \* where run() in main.cpp is
          asked,      \* GdkLifecycle::stop() has been called
          exitReq,    \* exit_requested_
          running,    \* running_
          lsock,      \* the listening socket, and listen_socket_
          server,     \* where the server thread is
          conn,       \* the phase of its connection
          \* the state of the InferenceQueue:
          mu, queue, stop, worker, job, reply, caller, outcome, closer, joinable

Q == INSTANCE InferenceQueue WITH Callers <- {Server}, Closer <- Main

Conn == INSTANCE Connection WITH phase <- conn

lifecycle == <<asked, exitReq>>
listener == <<running, lsock>>
shell == <<main, lifecycle, listener, server, conn>>
queueVars == <<mu, queue, stop, worker, job, reply, caller, outcome, closer, joinable>>
vars == <<shell, queueVars>>

Init ==
  /\ main = "listen"
  /\ asked = FALSE /\ exitReq = FALSE
  /\ running = FALSE
  /\ lsock = "none"
  /\ server = "unborn"
  /\ Conn!Init
  /\ Q!Init

\* The queue, and with it the worker, is constructed once listen() succeeded.
Constructed == main \notin {"listen", "failed"}

-----------------------------------------------------------------------------
(* GdkLifecycle *)

\* From a signal handler or a management thread, at any time.
LifecycleStop ==
  /\ main \notin {"exited", "failed"}
  /\ exitReq' = TRUE
  /\ asked' = TRUE
  /\ UNCHANGED <<main, listener, server, conn, queueVars>>

LifecycleStart ==
  /\ main = "start"
  /\ exitReq' = FALSE
  /\ main' = "loop"
  /\ UNCHANGED <<asked, listener, server, conn, queueVars>>

\* The poll that sees the flag; the others change nothing.
LifecycleReturn ==
  /\ main = "loop"
  /\ exitReq
  /\ main' = "stop"
  /\ UNCHANGED <<lifecycle, listener, server, conn, queueVars>>

-----------------------------------------------------------------------------
(* The main thread *)

\* GdkSocketListener::listen(): the socket is kept if every call succeeds.
Listen ==
  /\ main = "listen"
  /\ lsock' = "open"
  /\ main' = "spawn"
  /\ UNCHANGED <<lifecycle, running, server, conn, queueVars>>

\* WSAStartup(), socket(), bind() or listen() fails, and run() returns 1.
ListenFails ==
  /\ main = "listen"
  /\ main' = "failed"
  /\ UNCHANGED <<lifecycle, listener, server, conn, queueVars>>

SpawnServer ==
  /\ main = "spawn"
  /\ server' = "entry"
  /\ main' = "start"
  /\ UNCHANGED <<lifecycle, listener, conn, queueVars>>

\* Variant for validation: stop() closes the socket before it clears the flag.
ListenerStopClosesFirst ==
  /\ main = "stop"
  /\ lsock' = "closed"
  /\ main' = "close"
  /\ UNCHANGED <<lifecycle, running, server, conn, queueVars>>

\* GdkSocketListener::stop() is two steps: the flag, then the socket.
ListenerStop ==
  /\ main = "stop"
  /\ running' = FALSE
  /\ main' = "close"
  /\ UNCHANGED <<lifecycle, lsock, server, conn, queueVars>>

\* Variant for validation: stop() leaves the socket to the destructor.
ListenerStopFlagOnly ==
  /\ main = "close"
  /\ main' = "shutdown"
  /\ UNCHANGED <<lifecycle, listener, server, conn, queueVars>>

ListenerClose ==
  /\ main = "close"
  /\ lsock' = "closed"
  /\ main' = "shutdown"
  /\ UNCHANGED <<lifecycle, running, server, conn, queueVars>>

\* queue.shutdown(), and again from the destructor of queue.
QueueShutdown ==
  /\ main \in {"shutdown", "destroy"}
  /\ Q!ShutdownCall
  /\ main' = IF main = "shutdown" THEN "draining" ELSE "destroying"
  /\ UNCHANGED <<lifecycle, listener, server, conn>>

\* Variant for validation: the server thread is detached, not joined.
DetachServer ==
  /\ main = "draining"
  /\ closer = "done"
  /\ main' = "destroy"
  /\ UNCHANGED <<lifecycle, listener, server, conn, queueVars>>

JoinServer ==
  /\ main = "draining"
  /\ closer = "done"
  /\ server = "done"
  /\ main' = "destroy"
  /\ UNCHANGED <<lifecycle, listener, server, conn, queueVars>>

MainReturn ==
  /\ main = "destroying"
  /\ closer = "done"
  /\ main' = "exited"
  /\ UNCHANGED <<lifecycle, listener, server, conn, queueVars>>

-----------------------------------------------------------------------------
(* GdkSocketListener::run() *)

RunCheck ==
  /\ server = "entry"
  /\ server' = IF lsock = "open" THEN "starting" ELSE "done"
  /\ UNCHANGED <<main, lifecycle, listener, conn, queueVars>>

RunStart ==
  /\ server = "starting"
  /\ running' = TRUE
  /\ server' = "loop"
  /\ UNCHANGED <<main, lifecycle, lsock, conn, queueVars>>

LoopTest ==
  /\ server = "loop"
  /\ server' = IF running THEN "accept" ELSE "done"
  /\ UNCHANGED <<main, lifecycle, listener, conn, queueVars>>

AcceptConnection ==
  /\ server = "accept"
  /\ lsock = "open"
  /\ Conn!Open
  /\ server' = "handling"
  /\ UNCHANGED <<main, lifecycle, listener, queueVars>>

\* accept() fails: for a reason of its own, or because the socket was closed.
AcceptFails ==
  /\ server = "accept"
  /\ server' = IF running THEN "loop" ELSE "done"
  /\ UNCHANGED <<main, lifecycle, listener, conn, queueVars>>

-----------------------------------------------------------------------------
(* HttpServer::handle_connection, in the accept loop *)

CallGenerate ==
  /\ server = "handling"
  /\ Conn!CallEngine
  /\ Q!Generate(Server)
  /\ UNCHANGED <<main, lifecycle, listener, server>>

\* Variant for validation: the handler stops waiting for the engine, as with
\* a timeout on the future.
GenerateTimesOut ==
  /\ server = "handling"
  /\ Conn!EngineReturns
  /\ UNCHANGED <<main, lifecycle, listener, server, queueVars>>

GenerateReturns ==
  /\ server = "handling"
  /\ Conn!EngineReturns
  /\ caller[Server] = "idle"
  /\ UNCHANGED <<main, lifecycle, listener, server, queueVars>>

\* The handler returns: after the response, or without the engine.
CloseConnection ==
  /\ server = "handling"
  /\ Conn!Close
  /\ server' = "loop"
  /\ UNCHANGED <<main, lifecycle, listener, queueVars>>

\* The steps inside generate(), worker_loop() and shutdown().
QueueStep ==
  /\ Constructed
  /\ \/ Q!CallerLock(Server) \/ Q!CallerStep(Server)
     \/ Q!WorkerNext
     \/ Q!ShutdownLock \/ Q!ShutdownStep
  /\ UNCHANGED shell

-----------------------------------------------------------------------------

MainStep ==
  \/ Listen \/ ListenFails \/ SpawnServer \/ LifecycleStart \/ LifecycleReturn
  \/ ListenerStop \/ ListenerClose
  \/ QueueShutdown \/ JoinServer \/ MainReturn

ServerStep == RunCheck \/ RunStart \/ LoopTest \/ GenerateReturns

ConnectionStep == AcceptConnection \/ CallGenerate \/ CloseConnection

Next == LifecycleStop \/ MainStep \/ ServerStep \/ AcceptFails \/ ConnectionStep \/ QueueStep

\* The threads run, accept() fails once its socket is closed, and a client that
\* is being answered takes its answer or leaves.  No client need come or send what
\* it came for, and nobody need ask the program to stop.
Fairness ==
  /\ WF_vars(MainStep)
  /\ WF_vars(ServerStep)
  /\ WF_vars(AcceptFails /\ lsock = "closed")
  /\ WF_vars(CloseConnection /\ conn = "answering")
  /\ WF_vars(Q!CallerStep(Server) /\ UNCHANGED shell)
  /\ SF_vars(Q!CallerLock(Server) /\ UNCHANGED shell)
  /\ WF_vars(Constructed /\ Q!WorkerStep /\ UNCHANGED shell)
  /\ SF_vars(Constructed /\ Q!WorkerLock /\ UNCHANGED shell)
  /\ WF_vars(Q!ShutdownStep /\ UNCHANGED shell)
  /\ SF_vars(Q!ShutdownLock /\ UNCHANGED shell)

Spec == Init /\ [][Next]_vars

FairSpec == Spec /\ Fairness

-----------------------------------------------------------------------------
(* Safety *)

\* Every variable of the shell has its type, and so have the queue's; the socket
\* is closed by stop() and by nothing before it, there is a server thread from
\* the moment the main thread waits for a stop, and a connection only in its
\* handler.  One thread serves, so the queue never holds a second request, and
\* its answer to an overload is never given in this program.
TypeOK ==
  /\ main \in {"listen", "failed", "spawn", "start", "loop", "stop", "close", "shutdown",
               "draining", "destroy", "destroying", "exited"}
  /\ {asked, exitReq, running} \subseteq BOOLEAN
  /\ lsock \in {"none", "open", "closed"}
  /\ server \in {"unborn", "entry", "starting", "loop", "accept", "handling", "done"}
  /\ conn \in Conn!Phases
  /\ lsock = "none" <=> ~Constructed
  /\ lsock = "open" <=> main \in {"spawn", "start", "loop", "stop", "close"}
  /\ server = "unborn" <=> main \in {"listen", "failed", "spawn"}
  /\ server = "handling" <=> conn \in {"reading", "generating", "answering"}
  /\ Q!TypeOK
  /\ Len(queue) <= 1

\* The locals of run() are destroyed only when no thread can reach them: the
\* server thread is over before the queue goes, and the worker, which uses the
\* engine, is over before the engine goes.
TeardownIsSafe ==
  /\ main \in {"destroy", "destroying", "exited"} => server = "done"
  /\ main = "exited" => worker = "exited" /\ queue = << >> /\ ~joinable

\* on_token writes to the connection, and refers to locals, of a handler that is
\* still blocked on this very request, whatever the main thread is doing.
TokensGoToALiveHandler ==
  worker \in {"decode", "deliver"} => conn = "generating" /\ Q!AtWorker(Server)

-----------------------------------------------------------------------------
(* Liveness *)

\* The server thread is not past the point where a stop still reaches it, or
\* its request was accepted before the worker left.
Stoppable ==
  \/ server \in {"loop", "accept", "done"}
  \/ conn = "generating" /\ Q!Owed(Server) /\ worker # "exited"

\* An orderly shutdown: a listener stopped while it waits for a connection, or
\* while an accepted request is with the engine, lets that request finish and
\* the program exit.
StopIsOrderly ==
  (main = "shutdown" /\ ~running /\ Stoppable) ~> (main = "exited")

-----------------------------------------------------------------------------
(* What the comments of the code promise and the code does not keep *)

\* ISocketListener.h:50: stop() asks run() to return.  A stopped listener's loop
\* ends, or is in a handler.
ListenerStopHonoured ==
  (main = "shutdown") ~> (server \in {"done", "handling"})

\* main.cpp:122: an orderly shutdown.  No request waits for a worker that is gone.
NoRequestStranded == Q!NoCallerStranded
=============================================================================
