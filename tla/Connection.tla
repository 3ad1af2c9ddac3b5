----------------------------- MODULE Connection -----------------------------
(***************************************************************************)
(* One connection as the accept loop, the engine and the shutdown see it:  *)
(* its handler reads, calls the engine at most once, answers, and returns, *)
(* which closes the connection.  HttpServer implements it request by       *)
(* request; GdkShell, where threads and shutdown meet, is built from it.   *)
(***************************************************************************)

VARIABLE phase

Phases == {"none", "reading", "generating", "answering", "closed"}

Init == phase = "none"

Turn(from, to) ==
  /\ phase \in from
  /\ phase' = to

\* on_connection is called, never before the handler of the last one returned.
Open == Turn({"none", "closed"}, "reading")

\* The request is for the engine.
CallEngine == Turn({"reading"}, "generating")

\* Until then the handler is blocked, and on_token may use its connection.
EngineReturns == Turn({"generating"}, "answering")

\* After the answer, or without the engine: an error, a probe, a lost client.
Close == Turn({"reading", "answering"}, "closed")

Next == Open \/ CallEngine \/ EngineReturns \/ Close

Spec == Init /\ [][Next]_phase
=============================================================================
