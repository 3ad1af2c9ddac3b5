-------------------------- MODULE HttpServerProofs --------------------------
(***************************************************************************)
(* Proofs about HttpServer for every request, every length of a line and   *)
(* any number of tokens: what reaches the wire is one response, whole or   *)
(* cut short once, a stream carries the engine's tokens, the handler is a  *)
(* Connection to the rest of the program, what is routed is the request    *)
(* that was sent, and a client that stays gets a whole answer.             *)
(***************************************************************************)
EXTENDS HttpServer, Induction, SequenceTheorems, TLAPS

USE HttpServerConstants DEF HttpServerConstants, theClient, input, output, engine

-----------------------------------------------------------------------------
(* One response per connection *)

Kinds == Replies \cup {"200 stream", "token", "[DONE]", "end", "part"}

Wires == Seq([kind : Kinds, n : Nat])

LastKind == wire[Len(wire)].kind

\* Where the handler is says what it has written last, if no write has failed;
\* and nothing is written before the request is read and the engine has answered.
InAnswer ==
  /\ pc \in {"none", "head", "headers", "body", "route", "collect", "reply"} =>
       wire = << >> /\ ~broken
  /\ pc \in {"stream", "finish"} /\ ~broken =>
       wire # << >> /\ LastKind \in {"200 stream", "token"}
  /\ pc = "terminate" /\ ~broken => wire # << >> /\ LastKind = "[DONE]"

IInv == /\ wire \in Wires /\ decoded \in Nat /\ broken \in BOOLEAN
        /\ InAnswer /\ OneResponse

\* What a piece of each kind may follow.
Follows(k) ==
  CASE k \in Replies \cup {"200 stream"} -> wire = << >>
    [] k \in {"token", "[DONE]"} -> wire # << >> /\ LastKind \in {"200 stream", "token"}
    [] k = "end" -> wire # << >> /\ LastKind = "[DONE]"

\* A write keeps the shape of the response: a piece in its place is added, or a
\* part of it and nothing ever after, or nothing.
LEMMA WriteKeeps ==
  ASSUME wire \in Wires, broken \in BOOLEAN, OneResponse,
         NEW k \in Kinds \ {"part"}, NEW n \in Nat, NEW ok \in BOOLEAN,
         ~broken => Follows(k) /\ (wire # << >> => LastKind # "part"),
         Write([kind |-> k, n |-> n], ok)
  PROVE  /\ wire' \in Wires /\ broken' = ~ok /\ OneResponse'
         /\ ok => wire' # << >> /\ wire'[Len(wire')].kind = k
<1> DEFINE P == [kind : Kinds, n : Nat]
<1>1. [kind |-> k, n |-> n] \in P /\ Piece("part") \in P
  BY DEF Piece, Kinds
<1>2. wire \in Seq(P) /\ Len(wire) \in Nat
  BY DEF Wires
<1>3. CASE UNCHANGED wire /\ ~ok
  BY <1>3 DEF Write, OneResponse
<1>4. ASSUME NEW p \in P, wire' = Append(wire, p), ~broken,
             p.kind = "part" \/ p.kind = k
      PROVE  /\ wire' \in Wires /\ OneResponse'
             /\ wire' # << >> /\ wire'[Len(wire')].kind = p.kind
  <2>1. /\ wire' \in Seq(P)
        /\ Len(wire') = Len(wire) + 1
        /\ \A i \in 1..Len(wire) : wire'[i] = wire[i]
        /\ wire'[Len(wire) + 1] = p
    BY <1>2, <1>4, AppendProperties
  <2>2. wire' # << >>
    BY <1>2, <2>1, EmptySeq
  <2>3. wire # << >> => Len(wire) >= 1
    BY <1>2, EmptySeq
  <2>4. wire = << >> => Len(wire) = 0
    OBVIOUS
  <2>5. wire # << >> => LastKind # "part"
    BY <1>4
  <2>6. Follows(k)
    BY <1>4
  <2>7. ASSUME NEW i \in 1..Len(wire')
        PROVE  LET after == IF i = 1 THEN "nothing" ELSE wire'[i - 1].kind
               IN  /\ wire'[i].kind \in Replies \cup {"200 stream"}
                        <=> i = 1 /\ wire'[i].kind # "part"
                   /\ wire'[i].kind = "token" => after \in {"200 stream", "token"}
                   /\ wire'[i].kind = "[DONE]" => after \in {"200 stream", "token"}
                   /\ wire'[i].kind = "end" => after = "[DONE]"
                   /\ wire'[i].kind = "part" => i = Len(wire')
    <3>1. CASE i \in 1..Len(wire)
      <4>1. wire'[i] = wire[i] /\ (i # 1 => wire'[i - 1] = wire[i - 1])
        <5>1. i # 1 => i - 1 \in 1..Len(wire)
          BY <1>2, <3>1
        <5>2. \A j \in 1..Len(wire) : wire'[j] = wire[j]
          BY <2>1
        <5> QED
          BY <3>1, <5>1, <5>2
      <4>2. wire[i].kind # "part"
        <5>1. wire[i].kind = "part" => i = Len(wire)
          BY <3>1 DEF OneResponse
        <5> QED
          BY <1>2, <2>3, <2>4, <2>5, <3>1, <5>1 DEF LastKind
      <4> QED
        BY <3>1, <4>1, <4>2 DEF OneResponse
    <3>2. CASE i = Len(wire) + 1
      <4>1. wire'[i] = p /\ (i # 1 => wire # << >> /\ wire'[i - 1].kind = LastKind)
        BY SMTT(30), <1>2, <2>1, <2>4, <3>2 DEF LastKind
      <4>2. i = 1 <=> wire = << >>
        BY <1>2, <2>3, <2>4, <3>2
      <4>3. CASE p.kind = "part"
        BY <2>1, <3>2, <4>1, <4>3 DEF Replies
      <4>4. CASE p.kind = k /\ k \in Replies \cup {"200 stream"}
        BY <2>6, <4>1, <4>2, <4>4 DEF Follows, Replies
      <4>5. CASE p.kind = k /\ k \in {"token", "[DONE]"}
        BY <2>6, <4>1, <4>2, <4>5 DEF Follows, Replies
      <4>6. CASE p.kind = k /\ k = "end"
        BY <2>6, <4>1, <4>2, <4>6 DEF Follows, Replies
      <4> QED
        BY <1>4, <4>3, <4>4, <4>5, <4>6 DEF Kinds
    <3>3. i \in 1..Len(wire) \/ i = Len(wire) + 1
      <4>1. Len(wire') = Len(wire) + 1
        BY <2>1
      <4> QED
        BY <1>2, <2>7, <4>1
    <3> QED
      BY <3>1, <3>2, <3>3
  <2>8. OneResponse'
    BY <2>7 DEF OneResponse
  <2>9. wire'[Len(wire')].kind = p.kind
    BY <2>1
  <2> QED
    BY <2>1, <2>2, <2>8, <2>9 DEF Wires
<1>5. CASE ok
  <2>1. wire' = Append(wire, [kind |-> k, n |-> n]) /\ ~broken /\ broken' = broken
    BY <1>5 DEF Write
  <2> QED
    BY <1>1, <1>4, <1>5, <2>1
<1>6. CASE ~ok /\ wire' # wire
  <2>1. wire' = Append(wire, Piece("part")) /\ ~broken /\ broken' = TRUE
    BY <1>6 DEF Write
  <2> QED
    BY <1>1, <1>4, <1>6, <2>1 DEF Piece
<1>7. broken' = ~ok
  BY DEF Write
<1> QED
  BY <1>3, <1>5, <1>6, <1>7

LEMMA InitIInv == Init => IInv
<1> SUFFICES ASSUME Init PROVE IInv
  OBVIOUS
<1>1. wire \in Wires /\ Len(wire) = 0
  BY EmptySeq DEF Init, Wires
<1> QED
  <2>1. wire = << >> /\ ~broken /\ broken \in BOOLEAN /\ decoded \in Nat /\ pc = "none"
    BY DEF Init
  <2>2. OneResponse
    <3>1. 1..Len(wire) = {}
      BY <1>1
    <3> QED
      BY <3>1 DEF OneResponse
  <2> QED
    BY <1>1, <2>1, <2>2 DEF IInv, InAnswer

\* A reply, the last write of its handler.
LEMMA SendKeeps ==
  ASSUME IInv, NEW k \in Kinds \ {"part"}, Send(k),
         ~broken => Follows(k) /\ (wire # << >> => LastKind # "part")
  PROVE  IInv'
<1>1. PICK ok \in BOOLEAN : Write([kind |-> k, n |-> 0], ok)
  BY DEF Send, Piece
<1>2. wire' \in Wires /\ broken' = ~ok /\ OneResponse'
  BY <1>1, WriteKeeps DEF IInv
<1>3. pc' = "closed" /\ decoded' = decoded
  BY DEF Send
<1> QED
  BY <1>2, <1>3 DEF IInv, InAnswer

\* Steps that write nothing.
LEMMA QuietSteps ==
  ASSUME IInv,
         \/ Serve \/ ClientStep
         \/ RequestLine \/ Header \/ HeadersCut \/ ReadBody \/ BodyDropped
         \/ CallEngine \/ AbandonStream
         \/ CollectToken \/ LateToken \/ EngineReturns
         \/ UNCHANGED vars
  PROVE  IInv'
<1>1. UNCHANGED <<wire, broken>> /\ decoded' \in {decoded, decoded + 1}
  BY DEF Serve, ClientStep, ClientSends, ClientStalls, ClientLeaves, RequestLine, Header,
         HeadersCut, ReadBody, BodyDropped, Close, CallEngine, AbandonStream, CollectToken,
         LateToken, EngineReturns, vars
<1>2. \/ pc' = pc \/ pc' = "closed"
      \/ /\ pc \in {"none", "head", "headers", "body", "route", "collect"}
         /\ pc' \in {"head", "headers", "body", "route", "collect", "reply"}
      \/ pc = "stream" /\ pc' = "finish"
  BY DEF Serve, ClientStep, ClientSends, ClientStalls, ClientLeaves, RequestLine, Header,
         HeadersEnd, HeadersCut, ReadBody, BodyDropped, Close, CallEngine, AbandonStream,
         CollectToken, LateToken, EngineReturns, vars
<1>3. InAnswer'
  BY <1>1, <1>2 DEF IInv, InAnswer, LastKind
<1>4. wire' \in Wires /\ broken' \in BOOLEAN /\ decoded' \in Nat
  BY <1>1 DEF IInv
<1>5. OneResponse'
  BY <1>1 DEF IInv, OneResponse
<1> QED
  BY <1>3, <1>4, <1>5 DEF IInv

LEMMA ReplySteps ==
  ASSUME IInv, BadRequest \/ Health \/ NotFound \/ NoMessages \/ Reply \/ Terminate
  PROVE  IInv'
<1>1. CASE BadRequest \/ Health \/ NotFound \/ NoMessages \/ Reply
  <2>1. wire = << >> /\ ~broken
    BY <1>1 DEF BadRequest, Malformed, Health, NotFound, NoMessages, Reply, IInv, InAnswer
  <2>2. PICK k \in Replies : Send(k)
    BY <1>1 DEF BadRequest, Malformed, Health, NotFound, NoMessages, Reply, ReplyFor, Replies
  <2>3. k \in Kinds \ {"part"} /\ Follows(k)
    BY <2>1 DEF Kinds, Replies, Follows
  <2> QED
    BY <2>1, <2>2, <2>3, SendKeeps
<1>2. CASE Terminate
  <2>1. ~broken => Follows("end") /\ LastKind # "part"
    BY <1>2 DEF Terminate, IInv, InAnswer, Follows, Replies
  <2> QED
    BY <1>2, <2>1, SendKeeps DEF Terminate, Kinds, Replies
<1> QED
  BY <1>1, <1>2

LEMMA StreamSteps ==
  ASSUME IInv, StreamHeader \/ StreamToken \/ FinishStream
  PROVE  IInv'
<1>1. CASE StreamHeader
  <2>1. PICK ok \in BOOLEAN :
          Write([kind |-> "200 stream", n |-> 0], ok) /\ pc' = IF ok THEN "stream" ELSE "closed"
    BY <1>1 DEF StreamHeader, Piece
  <2>2. wire = << >> /\ ~broken /\ Follows("200 stream")
    BY <1>1 DEF StreamHeader, IInv, InAnswer, Follows, Replies
  <2>3. /\ wire' \in Wires /\ broken' = ~ok /\ OneResponse'
        /\ ok => wire' # << >> /\ wire'[Len(wire')].kind = "200 stream"
    BY <2>1, <2>2, WriteKeeps DEF IInv, Kinds, Replies
  <2>4. decoded' = decoded
    BY <1>1 DEF StreamHeader
  <2> QED
    BY <2>1, <2>3, <2>4 DEF IInv, InAnswer, LastKind
<1>2. CASE StreamToken
  <2>1. PICK ok \in BOOLEAN : Write([kind |-> "token", n |-> decoded + 1], ok)
    BY <1>2 DEF StreamToken, Token
  <2>2. pc = "stream" /\ pc' = "stream" /\ decoded' = decoded + 1 /\ decoded + 1 \in Nat
    BY <1>2 DEF StreamToken, IInv
  <2>3. ~broken => Follows("token") /\ LastKind # "part"
    BY <2>2 DEF IInv, InAnswer, Follows, Replies
  <2>4. /\ wire' \in Wires /\ broken' = ~ok /\ OneResponse'
        /\ ok => wire' # << >> /\ wire'[Len(wire')].kind = "token"
    BY <2>1, <2>2, <2>3, WriteKeeps DEF IInv, Kinds, Replies
  <2> QED
    BY <2>2, <2>4 DEF IInv, InAnswer, LastKind
<1>3. CASE FinishStream
  <2>1. PICK ok \in BOOLEAN : Write([kind |-> "[DONE]", n |-> 0], ok)
    BY <1>3 DEF FinishStream, Piece
  <2>2. pc = "finish" /\ pc' = "terminate" /\ decoded' = decoded
    BY <1>3 DEF FinishStream
  <2>3. ~broken => Follows("[DONE]") /\ LastKind # "part"
    BY <2>2 DEF IInv, InAnswer, Follows, Replies
  <2>4. /\ wire' \in Wires /\ broken' = ~ok /\ OneResponse'
        /\ ok => wire' # << >> /\ wire'[Len(wire')].kind = "[DONE]"
    BY <2>1, <2>3, WriteKeeps DEF IInv, Kinds, Replies
  <2> QED
    BY <2>2, <2>4 DEF IInv, InAnswer, LastKind
<1> QED
  BY <1>1, <1>2, <1>3

LEMMA StepIInv == IInv /\ [Next]_vars => IInv'
<1> SUFFICES ASSUME IInv, [Next]_vars PROVE IInv'
  OBVIOUS
<1> QED
  BY QuietSteps, ReplySteps, StreamSteps DEF Next, HandlerStep, EngineStep

\* A connection carries one response, in order and whole, or cut short with
\* nothing after the cut, whatever the client, the engine and the queue do.
THEOREM OneResponseEach == Spec => []OneResponse
<1>1. IInv => OneResponse
  BY DEF IInv
<1> QED
  BY InitIInv, StepIInv, <1>1, PTL DEF Spec

-----------------------------------------------------------------------------
(* A stream carries the engine's tokens *)

Numbered == \A i \in 1..Len(wire) : wire[i].kind = "token" => wire[i].n = i - 1

Ended == \A i \in 1..Len(wire) : wire[i].kind = "end" => i = decoded + 3

NoEnd == \A i \in 1..Len(wire) : wire[i].kind # "end"

\* As long as no write has failed the wire has a piece for every token; the last
\* chunk is the last thing the handler does, and the engine has returned by then.
InStream ==
  /\ disconnected => broken
  /\ Numbered
  /\ pc \in {"none", "head", "headers", "body", "route"} => decoded = 0
  /\ pc # "closed" => NoEnd
  /\ NoEnd \/ (Ended /\ result # "none")
  /\ pc \in {"reply", "finish", "terminate"} => result # "none"
  /\ pc \in {"stream", "finish"} /\ ~broken => Len(wire) = 1 + decoded
  /\ pc = "terminate" /\ ~broken => Len(wire) = 2 + decoded

\* A write, cut or not, leaves the tokens in their places if its own is right.
LEMMA WriteNumbers ==
  ASSUME wire \in Wires, Numbered, NoEnd,
         NEW k \in Kinds \ {"part"}, NEW n \in Nat, NEW ok \in BOOLEAN,
         ~broken /\ k = "token" => n = Len(wire),
         Write([kind |-> k, n |-> n], ok)
  PROVE  /\ Numbered'
         /\ ok => Len(wire') = Len(wire) + 1 /\ ~broken
         /\ k # "end" \/ ~ok => NoEnd'
         /\ \A i \in 1..Len(wire') : wire'[i].kind = "end" => i = Len(wire) + 1
<1> DEFINE P == [kind : Kinds, n : Nat]
<1>1. [kind |-> k, n |-> n] \in P /\ Piece("part") \in P
  BY DEF Piece, Kinds
<1>2. wire \in Seq(P) /\ Len(wire) \in Nat
  BY DEF Wires
<1>3. CASE wire' = wire /\ ~ok
  <2>1. 1..Len(wire') = 1..Len(wire)
    BY <1>3
  <2> QED
    BY <1>3, <2>1 DEF Numbered, NoEnd
<1>4. ASSUME NEW p \in P, wire' = Append(wire, p), p.kind = "token" => p.n = Len(wire)
      PROVE  /\ Numbered'
             /\ Len(wire') = Len(wire) + 1
             /\ p.kind # "end" => NoEnd'
             /\ \A i \in 1..Len(wire') : wire'[i].kind = "end" => i = Len(wire) + 1
  <2>1. /\ Len(wire') = Len(wire) + 1
        /\ \A i \in 1..Len(wire) : wire'[i] = wire[i]
        /\ wire'[Len(wire) + 1] = p
    BY <1>2, <1>4, AppendProperties
  <2>2. \A i \in 1..Len(wire') : i \in 1..Len(wire) \/ i = Len(wire) + 1
    BY <1>2, <2>1
  <2>3. Numbered'
    BY <1>2, <1>4, <2>1, <2>2 DEF Numbered
  <2>4. p.kind # "end" => NoEnd'
    BY <2>1, <2>2 DEF NoEnd
  <2>5. \A i \in 1..Len(wire') : wire'[i].kind = "end" => i = Len(wire) + 1
    BY <2>1, <2>2 DEF NoEnd
  <2> QED
    BY <2>1, <2>3, <2>4, <2>5
<1>5. CASE ok
  BY <1>1, <1>4, <1>5 DEF Write
<1>6. CASE ~ok /\ wire' # wire
  <2>1. wire' = Append(wire, Piece("part"))
    BY <1>6 DEF Write
  <2> QED
    BY <1>1, <1>4, <1>6, <2>1 DEF Piece
<1> QED
  BY <1>3, <1>5, <1>6

LEMMA InitStream == Init => InStream
<1> SUFFICES ASSUME Init PROVE InStream
  OBVIOUS
<1>1. Len(wire) = 0 /\ pc = "none"
  BY EmptySeq DEF Init
<1>2. 1..Len(wire) = {}
  BY <1>1
<1> QED
  BY <1>1, <1>2 DEF Init, InStream, Numbered, NoEnd

\* Steps that write nothing.
LEMMA QuietStream ==
  ASSUME IInv, InStream,
         \/ Serve \/ ClientStep
         \/ RequestLine \/ Header \/ HeadersCut \/ ReadBody \/ BodyDropped
         \/ CallEngine \/ AbandonStream
         \/ CollectToken \/ LateToken \/ EngineReturns
         \/ UNCHANGED vars
  PROVE  InStream'
<1>1. UNCHANGED <<wire, broken, disconnected>>
  BY DEF Serve, ClientStep, ClientSends, ClientStalls, ClientLeaves, RequestLine, Header,
         HeadersCut, ReadBody, BodyDropped, Close, CallEngine, AbandonStream, CollectToken,
         LateToken, EngineReturns, output, engine, vars
<1>2. Numbered' /\ (NoEnd => NoEnd') /\ (disconnected => broken)'
  BY <1>1 DEF InStream, Numbered, NoEnd
<1>3. CASE ~NoEnd
  <2>1. pc = "closed"
    BY <1>3 DEF InStream
  <2>2. UNCHANGED <<pc, decoded, result>>
    BY <2>1 DEF Serve, ClientStep, ClientSends, ClientStalls, ClientLeaves, RequestLine, Header,
       HeadersCut, ReadBody, BodyDropped, CallEngine, AbandonStream, CollectToken,
       LateToken, EngineReturns, vars
  <2> QED
    BY <1>1, <1>2, <1>3, <2>1, <2>2 DEF InStream, Ended, NoEnd
<1>4. CASE NoEnd /\ EngineReturns
  <2>1. result' # "none" /\ decoded' = decoded
    BY <1>4 DEF EngineReturns, Results
  <2>2. (pc = "stream" /\ pc' = "finish") \/ pc' = "reply"
    BY <1>4 DEF EngineReturns
  <2> QED
    BY <1>1, <1>2, <1>4, <2>1, <2>2 DEF InStream
<1>5. CASE NoEnd /\ ~EngineReturns
  <2>1. /\ result' = result
        /\ \/ decoded' = decoded
           \/ pc = "collect" /\ pc' = "collect"
           \/ pc = "stream" /\ pc' = "stream" /\ disconnected
        /\ pc' \in {pc, "head", "headers", "body", "route", "collect", "closed"}
    BY <1>5 DEF Serve, ClientStep, ClientSends, ClientStalls, ClientLeaves, RequestLine, Header,
       HeadersEnd, HeadersCut, ReadBody, BodyDropped, Close, CallEngine, AbandonStream,
       CollectToken, LateToken, vars
  <2>2. \/ pc' = pc
        \/ pc \in {"none", "head", "headers", "body", "route"}
        \/ pc' = "closed"
    BY <1>5 DEF Serve, ClientStep, ClientSends, ClientStalls, ClientLeaves, RequestLine, Header,
       HeadersCut, ReadBody, BodyDropped, Close, CallEngine, AbandonStream, CollectToken,
       LateToken, vars
  <2> QED
    <3>1. (pc \in {"none", "head", "headers", "body", "route"} => decoded = 0)'
      BY <2>1, <2>2 DEF InStream
    <3>2. /\ (pc \in {"reply", "finish", "terminate"} => result # "none")'
          /\ (pc \in {"stream", "finish"} /\ ~broken => Len(wire) = 1 + decoded)'
          /\ (pc = "terminate" /\ ~broken => Len(wire) = 2 + decoded)'
      BY <1>1, <1>5, <2>1 DEF InStream
    <3> QED
      BY <1>2, <1>5, <3>1, <3>2 DEF InStream
<1> QED
  BY <1>3, <1>4, <1>5

\* Replies, and the last chunk of a stream.
LEMMA SendStream ==
  ASSUME IInv, InStream,
         BadRequest \/ Health \/ NotFound \/ NoMessages \/ Reply \/ Terminate
  PROVE  InStream'
<1>1. PICK k \in Replies \cup {"end"} :
        Send(k) /\ (k = "end" => pc = "terminate") /\ pc # "closed"
  BY DEF BadRequest, Malformed, Health, NotFound, NoMessages, Reply, Terminate, ReplyFor, Replies
<1>2. PICK ok \in BOOLEAN : Write([kind |-> k, n |-> 0], ok)
  BY <1>1 DEF Send, Piece
<1>3. /\ pc' = "closed" /\ UNCHANGED <<decoded, disconnected, result>>
  BY <1>1 DEF Send, engine
<1>4. k \in Kinds \ {"part"} /\ k # "token"
  BY <1>1 DEF Kinds, Replies
<1>5. /\ Numbered'
      /\ ok => ~broken
      /\ k # "end" \/ ~ok => NoEnd'
      /\ \A i \in 1..Len(wire') : wire'[i].kind = "end" => i = Len(wire) + 1
  BY <1>1, <1>2, <1>4, WriteNumbers DEF IInv, InStream
<1>6. (disconnected => broken)'
  BY <1>2, <1>3, <1>5 DEF Write, InStream
<1>7. NoEnd' \/ (Ended' /\ result' # "none")
  <2>1. k = "end" /\ ok => Len(wire) = 2 + decoded /\ result # "none"
    BY <1>1, <1>5 DEF InStream
  <2>2. k = "end" /\ ok => Ended'
    BY <1>3, <1>5, <2>1 DEF Ended, IInv
  <2> QED
    BY <1>3, <1>5, <2>1, <2>2
<1> QED
  BY <1>3, <1>5, <1>6, <1>7 DEF InStream

\* The header, the tokens, and [DONE].
LEMMA WriteStream ==
  ASSUME IInv, InStream, StreamHeader \/ StreamToken \/ FinishStream
  PROVE  InStream'
<1> Len(wire) \in Nat /\ decoded \in Nat /\ broken \in BOOLEAN
  BY LenProperties DEF IInv, Wires
<1>1. CASE StreamHeader
  <2>1. PICK ok \in BOOLEAN :
          Write([kind |-> "200 stream", n |-> 0], ok) /\ pc' = IF ok THEN "stream" ELSE "closed"
    BY <1>1 DEF StreamHeader, Piece
  <2>2. pc = "route" /\ UNCHANGED <<decoded, disconnected, result>>
    BY <1>1 DEF StreamHeader, engine
  <2>3. Numbered' /\ NoEnd' /\ (ok => Len(wire') = Len(wire) + 1 /\ ~broken)
    BY <2>1, <2>2, WriteNumbers DEF IInv, InStream, Kinds
  <2>4. Len(wire) = 0 /\ ~broken
    BY <2>2 DEF IInv, InAnswer
  <2>5. decoded' = 0 /\ (pc' = "stream" => Len(wire') = 1 + decoded')
    <3>1. decoded = 0 /\ decoded' = decoded
      BY <2>2 DEF InStream
    <3>2. pc' = "stream" => ok
      BY <2>1
    <3>3. pc' = "stream" => Len(wire') = Len(wire) + 1
      BY <2>3, <3>2
    <3> QED
      BY <2>4, <3>1, <3>3
  <2>6. (disconnected => broken)'
    BY <2>2, <2>4 DEF InStream
  <2> QED
    BY <2>1, <2>3, <2>5, <2>6 DEF InStream
<1>2. CASE StreamToken
  <2>1. PICK ok \in BOOLEAN : Write([kind |-> "token", n |-> decoded + 1], ok) /\ disconnected' = ~ok
    BY <1>2 DEF StreamToken, Token
  <2>2. pc = "stream" /\ pc' = "stream" /\ decoded' = decoded + 1 /\ decoded + 1 \in Nat
    BY <1>2 DEF StreamToken, IInv
  <2>3. /\ wire \in Wires /\ Numbered /\ NoEnd /\ "token" \in Kinds \ {"part"}
        /\ ~broken => decoded + 1 = Len(wire)
    BY <2>2 DEF IInv, InStream, Kinds
  <2>4. Numbered' /\ NoEnd' /\ (ok => Len(wire') = Len(wire) + 1 /\ ~broken)
    BY <2>1, <2>2, <2>3, WriteNumbers
  <2>5. broken' = ~ok /\ broken \in BOOLEAN
    BY <2>1 DEF Write, IInv
  <2>6. ~broken' => Len(wire') = 1 + decoded'
    <3>1. ~broken' => ok
      BY <2>5
    <3>2. ~broken' => Len(wire') = Len(wire) + 1 /\ decoded + 1 = Len(wire)
      BY <2>3, <2>4, <3>1
    <3> QED
      BY <2>2, <3>2
  <2>7. (disconnected => broken)'
    BY <2>1, <2>5
  <2> QED
    BY <2>2, <2>4, <2>6, <2>7 DEF InStream
<1>3. CASE FinishStream
  <2>1. PICK ok \in BOOLEAN : Write([kind |-> "[DONE]", n |-> 0], ok)
    BY <1>3 DEF FinishStream, Piece
  <2>2. pc = "finish" /\ pc' = "terminate" /\ UNCHANGED <<decoded, disconnected, result>>
    BY <1>3 DEF FinishStream, engine
  <2>3. Numbered' /\ NoEnd' /\ (ok => Len(wire') = Len(wire) + 1 /\ ~broken)
    BY <2>1, <2>2, WriteNumbers DEF IInv, InStream, Kinds
  <2>4. broken' = ~ok /\ ~disconnected
    BY <1>3, <2>1 DEF Write, IInv, FinishStream
  <2>5. ~broken' => Len(wire') = 2 + decoded'
    <3>1. ~broken' => ok
      BY <2>4
    <3>2. ~broken' => Len(wire') = Len(wire) + 1 /\ Len(wire) = 1 + decoded
      BY <2>2, <2>3, <3>1 DEF InStream
    <3> QED
      BY <2>2, <3>2
  <2>6. (disconnected => broken)' /\ result' # "none"
    BY <2>2, <2>4 DEF InStream
  <2> QED
    BY <2>2, <2>3, <2>5, <2>6 DEF InStream
<1> QED
  BY <1>1, <1>2, <1>3

LEMMA StepStream == IInv /\ InStream /\ [Next]_vars => InStream'
<1> SUFFICES ASSUME IInv, InStream, [Next]_vars PROVE InStream'
  OBVIOUS
<1> QED
  BY QuietStream, SendStream, WriteStream DEF Next, HandlerStep, EngineStep

\* Whatever the client does, the tokens of the engine reach it all, in order and
\* once each, up to the write that fails; the last chunk comes after all of them.
THEOREM StreamFaithful == Spec => []StreamIsFaithful
<1>1. IInv /\ InStream => StreamIsFaithful
  BY DEF IInv, InStream, StreamIsFaithful, Numbered, Ended, NoEnd
<1> QED
  BY InitIInv, StepIInv, InitStream, StepStream, <1>1, PTL DEF Spec

-----------------------------------------------------------------------------
(* The handler as a Connection *)

LEMMA InitConnection == Init => Conn!Init
BY DEF Init, Conn!Init

\* The phase of each control point, as Conn has it.
PhaseOf(p) == CASE p \in {"none", "closed"} -> p
                [] p \in {"head", "headers", "body", "route"} -> "reading"
                [] p \in {"collect", "stream"} -> "generating"
                [] p \in {"reply", "finish", "terminate"} -> "answering"

\* Where the control of a handler goes.
LEMMA Control ==
  ASSUME [Next]_vars
  PROVE  \/ pc' = pc
         \/ pc = "none" /\ pc' = "head"
         \/ /\ pc \in {"head", "headers", "body", "route"}
            /\ pc' \in {"headers", "body", "route", "closed"}
         \/ pc = "route" /\ pc' \in {"collect", "stream"}
         \/ pc = "collect" /\ pc' = "reply"
         \/ pc = "stream" /\ pc' = "finish"
         \/ pc = "finish" /\ pc' = "terminate"
         \/ pc \in {"reply", "finish", "terminate"} /\ pc' = "closed"
<1>1. CASE Serve \/ ClientStep \/ UNCHANGED vars
  BY <1>1 DEF Serve, ClientStep, ClientSends, ClientStalls, ClientLeaves, vars
<1>2. CASE HandlerStep
  BY <1>2 DEF HandlerStep, RequestLine, BadRequest, Malformed, Header, HeadersEnd, HeadersCut,
     ReadBody, BodyDropped, Health, NotFound, NoMessages, CallEngine, StreamHeader, Reply,
     FinishStream, Terminate, AbandonStream, Send, Close
<1>3. CASE EngineStep
  BY <1>3 DEF EngineStep, CollectToken, StreamToken, LateToken, EngineReturns
<1> QED
  BY <1>1, <1>2, <1>3 DEF Next

LEMMA StepConnection ==
  ASSUME [Next]_vars
  PROVE  [Conn!Next]_(PhaseOf(pc))
<1> QED
  BY Control DEF Conn!Next, Conn!Open, Conn!CallEngine, Conn!EngineReturns, Conn!Close,
     Conn!Turn, PhaseOf

\* To the accept loop, the queue and the shutdown, which GdkShell puts together
\* from it, the handler of every request is a Connection: one call of the engine
\* at most, and no return while the engine may still call on_token.
THEOREM HandlerIsConnection == Spec => ImplementsConnection
<1>1. [Next]_vars => [Conn!Next]_(PhaseOf(pc))
  BY StepConnection
<1> QED
  BY InitConnection, <1>1, PTL DEF Spec, ImplementsConnection, Conn!Spec, PhaseOf

-----------------------------------------------------------------------------
(* The text of a request *)

\* The characters the reader looks for.
LEMMA Characters ==
  /\ CR \in Symbols /\ LF \in Symbols /\ SP \in Symbols /\ ":" \in Symbols
  /\ CR # LF /\ CR # SP /\ CR # ":" /\ LF # SP /\ LF # ":"
<1>1. {CR, LF, SP, ":"} \subseteq Symbols
  BY RequestsAssumption DEF RequestsAssumption
<1>2. CR # LF /\ CR # SP /\ CR # ":" /\ LF # SP /\ LF # ":"
  BY DEF CR, LF, SP
<1> QED
  BY <1>1, <1>2

\* Sequences of one, two and three values.
LEMMA Singles ==
  ASSUME NEW S, NEW a \in S
  PROVE  <<a>> \in Seq(S) /\ Len(<<a>>) = 1 /\ <<a>>[1] = a
OBVIOUS

LEMMA Pairs ==
  ASSUME NEW S, NEW a \in S, NEW b \in S
  PROVE  <<a, b>> \in Seq(S) /\ Len(<<a, b>>) = 2 /\ <<a, b>>[1] = a /\ <<a, b>>[2] = b
OBVIOUS

LEMMA Triples ==
  ASSUME NEW S, NEW a \in S, NEW b \in S, NEW c \in S
  PROVE  /\ <<a, b, c>> \in Seq(S) /\ Len(<<a, b, c>>) = 3
         /\ <<a, b, c>>[1] = a /\ <<a, b, c>>[2] = b /\ <<a, b, c>>[3] = c
OBVIOUS

\* Of an end of line only the last character is LF, and before it there may be CR.
LEMMA LineEnds ==
  ASSUME NEW e \in {<<LF>>, <<CR, LF>>}
  PROVE  /\ e \in Seq(Symbols) /\ Len(e) \in {1, 2} /\ e[Len(e)] = LF
         /\ Len(e) = 2 => e[1] = CR
<1>1. <<LF>> \in Seq(Symbols) /\ Len(<<LF>>) = 1 /\ <<LF>>[1] = LF
  BY Characters, Singles
<1>2. <<CR, LF>> \in Seq(Symbols) /\ Len(<<CR, LF>>) = 2
  BY Characters, Pairs
<1>3. <<CR, LF>>[1] = CR /\ <<CR, LF>>[2] = LF
  OBVIOUS
<1>4. CASE e = <<LF>>
  BY <1>1, <1>4
<1>5. CASE e = <<CR, LF>>
  BY <1>2, <1>3, <1>5
<1> QED
  BY <1>4, <1>5

\* What is assumed of a request, and the types that follow.
LEMMA RequestParts ==
  ASSUME NEW r \in Requests
  PROVE  /\ Len(r.headers) \in Nat
         /\ \A i \in 1..Len(r.headers) :
              /\ r.headers[i].name \in Symbols /\ r.headers[i].value \in Seq(Symbols)
              /\ r.headers[i].name \notin {":", SP, CR, LF}
              /\ \A k \in 1..Len(r.headers[i].value) : r.headers[i].value[k] \notin {CR, LF}
              /\ r.headers[i].value # << >> =>
                   /\ r.headers[i].value[1] # SP
                   /\ r.headers[i].value[Len(r.headers[i].value)] # SP
         /\ r.eol \in {<<LF>>, <<CR, LF>>} /\ r.eol \in Seq(Symbols)
         /\ r.body \in Seq(Symbols)
<1> DEFINE H == [name : Symbols, value : Seq(Symbols)]
<1>1. /\ r.headers \in Seq(H)
      /\ r.eol \in {<<LF>>, <<CR, LF>>}
      /\ r.body \in Seq(Symbols)
  BY RequestsAssumption DEF RequestsAssumption
<1>2. /\ Len(r.headers) \in Nat /\ DOMAIN r.headers = 1..Len(r.headers)
  BY <1>1, LenProperties
<1>3. \A i \in 1..Len(r.headers) : r.headers[i] \in H
  BY <1>1, ElementOfSeq
<1>4. ASSUME NEW i \in 1..Len(r.headers)
      PROVE  /\ r.headers[i].name \in Symbols /\ r.headers[i].value \in Seq(Symbols)
             /\ r.headers[i].name \notin {":", SP, CR, LF}
             /\ \A k \in 1..Len(r.headers[i].value) : r.headers[i].value[k] \notin {CR, LF}
             /\ r.headers[i].value # << >> =>
                  /\ r.headers[i].value[1] # SP
                  /\ r.headers[i].value[Len(r.headers[i].value)] # SP
  <2>1. r.headers[i].name \in Symbols /\ r.headers[i].value \in Seq(Symbols)
    BY <1>3
  <2>2. DOMAIN r.headers[i].value = 1..Len(r.headers[i].value)
    BY <2>1, LenProperties
  <2>3. i \in DOMAIN r.headers
    BY <1>2
  <2> HIDE DEF H
  <2> QED
    BY <2>1, <2>2, <2>3, RequestsAssumption DEF RequestsAssumption
<1>5. r.eol \in Seq(Symbols)
  BY <1>1, LineEnds
<1> QED
  BY <1>1, <1>2, <1>4, <1>5

\* l is a header line without its end: a name, a colon and a value.
IsHeader(l, name, value) ==
  /\ l \in Seq(Symbols) /\ Len(l) = 3 + Len(value) /\ Len(value) \in Nat
  /\ l[1] = name /\ l[2] = ":" /\ l[3] = SP
  /\ \A k \in 1..Len(value) : l[k + 3] = value[k]
  /\ \A k \in 1..Len(l) : l[k] \notin {CR, LF}

\* A header line in the text is one, and the end of the line.
LEMMA HeaderLines ==
  ASSUME NEW r \in Requests, NEW i \in 1..Len(r.headers)
  PROVE  \E l \in Seq(Symbols) :
           /\ IsHeader(l, r.headers[i].name, r.headers[i].value)
           /\ HeaderLine(r, r.headers[i]) = l \o r.eol
           /\ HeaderLine(r, r.headers[i]) \in Seq(Symbols)
<1>1. ASSUME NEW a \in Symbols, NEW v \in Seq(Symbols), NEW n \in Seq(Symbols),
             Len(n) = 3, n[1] = a, n[2] = ":", n[3] = SP,
             a \notin {CR, LF}, \A k \in 1..Len(v) : v[k] \notin {CR, LF}
      PROVE  n \o v \in Seq(Symbols) /\ IsHeader(n \o v, a, v)
  <2> DEFINE l == n \o v
  <2>1. Len(v) \in Nat
    BY LenProperties
  <2>2. /\ l \in Seq(Symbols) /\ Len(l) = Len(n) + Len(v)
        /\ \A k \in 1..(Len(n) + Len(v)) :
             l[k] = IF k <= Len(n) THEN n[k] ELSE v[k - Len(n)]
    BY ConcatProperties
  <2> HIDE DEF l
  <2>3. Len(l) = 3 + Len(v) /\ \A k \in 1..(3 + Len(v)) : l[k] = IF k <= 3 THEN n[k] ELSE v[k - 3]
    BY <1>1, <2>2
  <2>4. 1 \in 1..(3 + Len(v)) /\ 2 \in 1..(3 + Len(v)) /\ 3 \in 1..(3 + Len(v))
    BY <2>1
  <2>5. l[1] = n[1] /\ l[2] = n[2] /\ l[3] = n[3]
    BY <2>3, <2>4
  <2>6. ASSUME NEW k \in 1..Len(v) PROVE l[k + 3] = v[k]
    <3>1. k + 3 \in 1..(3 + Len(v)) /\ ~(k + 3 <= 3) /\ (k + 3) - 3 = k
      BY <2>1
    <3> QED
      BY <2>3, <3>1
  <2>7. ASSUME NEW k \in 1..Len(l) PROVE l[k] \notin {CR, LF}
    <3>1. k \in {1, 2, 3} \/ (k - 3 \in 1..Len(v) /\ l[k] = v[k - 3])
      BY <2>1, <2>3
    <3>2. l[1] \notin {CR, LF} /\ l[2] \notin {CR, LF} /\ l[3] \notin {CR, LF}
      BY <1>1, <2>5, Characters
    <3> QED
      BY <1>1, <3>1, <3>2
  <2>8. IsHeader(l, a, v)
    BY <1>1, <2>1, <2>2, <2>3, <2>5, <2>6, <2>7 DEF IsHeader
  <2> QED
    BY <2>2, <2>8 DEF l
<1> DEFINE h == r.headers[i]  n == <<h.name, ":", SP>>
<1>2. /\ h.name \in Symbols /\ h.value \in Seq(Symbols) /\ r.eol \in Seq(Symbols)
      /\ h.name \notin {CR, LF} /\ \A k \in 1..Len(h.value) : h.value[k] \notin {CR, LF}
  BY RequestParts
<1>3. HeaderLine(r, h) = (n \o h.value) \o r.eol
  BY DEF HeaderLine
<1> HIDE DEF h
<1>4. n \in Seq(Symbols) /\ Len(n) = 3 /\ n[1] = h.name /\ n[2] = ":" /\ n[3] = SP
  BY <1>2, Characters, Triples
<1> HIDE DEF n
<1>5. n \o h.value \in Seq(Symbols) /\ IsHeader(n \o h.value, h.name, h.value)
  BY <1>1, <1>2, <1>4
<1>6. HeaderLine(r, h) \in Seq(Symbols)
  BY <1>2, <1>3, <1>5, ConcatProperties
<1> QED
  BY <1>3, <1>5, <1>6 DEF h

\* The text from a header line on is that line and the text from the next; after
\* the last there are an empty line and the body.
LEMMA TextOfHeaders ==
  ASSUME NEW r \in Requests
  PROVE  /\ \A k \in 1..(Len(r.headers) + 1) : TextFrom(r, k) \in Seq(Symbols)
         /\ TextFrom(r, Len(r.headers) + 1) = r.eol \o r.body
         /\ \A k \in 1..Len(r.headers) :
              TextFrom(r, k) = HeaderLine(r, r.headers[k]) \o TextFrom(r, k + 1)
<1> DEFINE N == Len(r.headers)
           a == r.eol \o r.body
           h == [k \in 1..N |-> HeaderLine(r, r.headers[k])]
           from == CHOOSE f : f = [i \in 1..(N + 1) |->
                     IF i > N THEN a ELSE HeaderLine(r, r.headers[i]) \o f[i + 1]]
<1>1. N \in Nat /\ a \in Seq(Symbols)
  BY RequestParts, ConcatProperties
<1>2. h \in [1..N -> Seq(Symbols)]
  BY HeaderLines
<1>3. \A k : TextFrom(r, k) = from[k]
  BY DEF TextFrom
<1>4. \A f : IsJoined(f, N, a, h) <=>
               f = [i \in 1..(N + 1) |->
                     IF i > N THEN a ELSE HeaderLine(r, r.headers[i]) \o f[i + 1]]
  <2>1. \A i \in 1..(N + 1) : ~(i > N) => h[i] = HeaderLine(r, r.headers[i])
    BY <1>1
  <2> HIDE DEF h, a
  <2>2. ASSUME NEW f
        PROVE  [i \in 1..(N + 1) |-> IF i > N THEN a ELSE h[i] \o f[i + 1]] =
               [i \in 1..(N + 1) |->
                     IF i > N THEN a ELSE HeaderLine(r, r.headers[i]) \o f[i + 1]]
    BY <2>1
  <2> QED
    BY <2>2 DEF IsJoined
<1> HIDE DEF h, a, N
<1>5. PICK f : IsJoined(f, N, a, h)
  BY <1>1, <1>2, JoinedExists
<1>6. from = [i \in 1..(N + 1) |->
                IF i > N THEN a ELSE HeaderLine(r, r.headers[i]) \o from[i + 1]]
  BY <1>4, <1>5
<1> HIDE DEF from
<1>7. IsJoined(from, N, a, h)
  BY <1>4, <1>6
<1>8. \A k \in 1..(N + 1) : from[k] \in Seq(Symbols)
  BY <1>1, <1>2, <1>7, JoinedIsSeq
<1>9. Unrolls(from, N, a, h)
  BY <1>1, <1>7, Joined
<1> QED
  BY <1>3, <1>8, <1>9 DEF Unrolls, h, a, N

-----------------------------------------------------------------------------
(* Reading a line *)

\* The two parts of a sequence.
LEMMA Parts ==
  ASSUME NEW S, NEW s \in Seq(S), NEW m \in 0..Len(s)
  PROVE  /\ SubSeq(s, 1, m) \in Seq(S) /\ Len(SubSeq(s, 1, m)) = m
         /\ \A k \in 1..m : SubSeq(s, 1, m)[k] = s[k]
         /\ SubSeq(s, m + 1, Len(s)) \in Seq(S) /\ Len(SubSeq(s, m + 1, Len(s))) = Len(s) - m
         /\ SubSeq(s, 1, m) \o SubSeq(s, m + 1, Len(s)) = s
<1>1. Len(s) \in Nat /\ m \in Nat /\ m + 1 \in Int
  BY LenProperties
<1>2. \A k \in 1..Len(s) : s[k] \in S
  BY ElementOfSeq
<1>3. /\ SubSeq(s, 1, m) \in Seq(S)
      /\ Len(SubSeq(s, 1, m)) = IF 1 <= m THEN m - 1 + 1 ELSE 0
      /\ \A k \in 1..(m - 1 + 1) : SubSeq(s, 1, m)[k] = s[1 + k - 1]
  <2>1. \A k \in 1..m : s[k] \in S
    BY <1>1, <1>2
  <2> QED
    BY <1>1, <2>1, SubSeqProperties
<1>4. /\ SubSeq(s, m + 1, Len(s)) \in Seq(S)
      /\ Len(SubSeq(s, m + 1, Len(s))) = IF m + 1 <= Len(s) THEN Len(s) - (m + 1) + 1 ELSE 0
  <2>1. \A k \in (m + 1)..Len(s) : s[k] \in S
    BY <1>1, <1>2
  <2> QED
    BY <1>1, <2>1, SubSeqProperties
<1>5. SubSeq(s, 1, m) \o SubSeq(s, m + 1, Len(s)) = s
  <2>1. /\ 1 \in 1..(Len(s) + 1) /\ m \in (1 - 1)..Len(s) /\ Len(s) \in m..Len(s)
    BY <1>1
  <2>2. SubSeq(s, 1, m) \o SubSeq(s, m + 1, Len(s)) = SubSeq(s, 1, Len(s))
    BY <2>1, ConcatAdjacentSubSeq
  <2> QED
    BY <2>2, SubSeqFull
<1> QED
  <2>1. Len(SubSeq(s, 1, m)) = m /\ \A k \in 1..m : SubSeq(s, 1, m)[k] = s[k]
    BY <1>1, <1>3
  <2>2. Len(SubSeq(s, m + 1, Len(s))) = Len(s) - m
    BY <1>1, <1>4
  <2> QED
    BY <1>3, <1>4, <1>5, <2>1, <2>2

\* The smaller of two numbers.
LEMMA MinOfTwo ==
  ASSUME NEW a \in Int, NEW b \in Int
  PROVE  Min({a, b}) = IF a <= b THEN a ELSE b
<1> DEFINE m == IF a <= b THEN a ELSE b
<1>1. m \in {a, b} /\ \A y \in {a, b} : m <= y
  OBVIOUS
<1>2. \A x \in {a, b} : (\A y \in {a, b} : x <= y) => x = m
  OBVIOUS
<1> HIDE DEF m
<1>3. Min({a, b}) = m
  BY <1>1, <1>2 DEF Min
<1> QED
  BY <1>3 DEF m

\* What was sent and is not read begins with the line l, its end e, and t.
LineAhead(l, e, t) ==
  /\ l \in Seq(Symbols) /\ e \in {<<LF>>, <<CR, LF>>} /\ t \in Seq(Symbols)
  /\ \A k \in 1..Len(l) : l[k] # LF
  /\ arrived \in Seq(Symbols) /\ unsent \in Seq(Symbols)
  /\ arrived \o unsent = (l \o e) \o t

\* The symbols that have arrived of it.
IsAhead(l, e) ==
  /\ Len(l) \in Nat /\ Len(e) \in {1, 2} /\ Len(arrived) \in Nat
  /\ \A k \in 1..Len(arrived) :
       /\ k <= Len(l) => arrived[k] = l[k]
       /\ Len(l) < k /\ k < Len(l) + Len(e) => arrived[k] = CR
       /\ k = Len(l) + Len(e) => arrived[k] = LF

LEMMA AheadSymbols ==
  ASSUME NEW l, NEW e, NEW t, LineAhead(l, e, t)
  PROVE  IsAhead(l, e)
<1> DEFINE s == (l \o e) \o t
<1>1. /\ l \in Seq(Symbols) /\ e \in Seq(Symbols) /\ t \in Seq(Symbols)
      /\ arrived \in Seq(Symbols) /\ unsent \in Seq(Symbols)
      /\ Len(e) \in {1, 2} /\ e[Len(e)] = LF /\ (Len(e) = 2 => e[1] = CR)
      /\ arrived \o unsent = s
  BY LineEnds DEF LineAhead
<1>2. Len(l) \in Nat /\ Len(arrived) \in Nat /\ Len(t) \in Nat /\ Len(unsent) \in Nat
  BY <1>1, LenProperties
<1>3. /\ l \o e \in Seq(Symbols) /\ Len(l \o e) = Len(l) + Len(e)
      /\ \A k \in 1..(Len(l) + Len(e)) :
           (l \o e)[k] = IF k <= Len(l) THEN l[k] ELSE e[k - Len(l)]
  BY <1>1, ConcatProperties
<1>4. /\ Len(s) = Len(l \o e) + Len(t)
      /\ \A k \in 1..(Len(l \o e) + Len(t)) :
           s[k] = IF k <= Len(l \o e) THEN (l \o e)[k] ELSE t[k - Len(l \o e)]
  BY <1>1, <1>3, ConcatProperties
<1>5. /\ Len(arrived \o unsent) = Len(arrived) + Len(unsent)
      /\ \A k \in 1..(Len(arrived) + Len(unsent)) :
           (arrived \o unsent)[k] = IF k <= Len(arrived) THEN arrived[k]
                                    ELSE unsent[k - Len(arrived)]
  BY <1>1, ConcatProperties
<1> HIDE DEF s
<1>6. ASSUME NEW k \in 1..Len(arrived)
      PROVE  /\ k <= Len(l) => arrived[k] = l[k]
             /\ Len(l) < k /\ k < Len(l) + Len(e) => arrived[k] = CR
             /\ k = Len(l) + Len(e) => arrived[k] = LF
  <2>1. k \in 1..(Len(arrived) + Len(unsent)) /\ k <= Len(arrived)
    BY <1>2
  <2>2. arrived[k] = s[k] /\ k <= Len(s)
    BY <1>1, <1>2, <1>5, <2>1
  <2>3. k \in Nat /\ k >= 1
    BY <1>2
  <2>4. Len(e) \in {1, 2} => Len(e) \in Nat /\ Len(e) >= 1
    OBVIOUS
  <2>5. Len(e) \in Nat /\ Len(e) >= 1
    BY <1>1, <2>4
  <2>6. ASSUME k <= Len(l) + Len(e)
        PROVE  s[k] = IF k <= Len(l) THEN l[k] ELSE e[k - Len(l)]
    <3>1. k \in 1..(Len(l \o e) + Len(t)) /\ k <= Len(l \o e) /\ k \in 1..(Len(l) + Len(e))
      BY <1>2, <1>3, <2>3, <2>5, <2>6
    <3> QED
      BY <1>3, <1>4, <3>1
  <2>7. Len(l) < k /\ k < Len(l) + Len(e) => Len(e) = 2 /\ k - Len(l) = 1
    BY <1>1, <1>2
  <2>8. k = Len(l) + Len(e) => k - Len(l) = Len(e) /\ ~(k <= Len(l))
    BY <1>2, <2>3, <2>5
  <2> QED
    BY <1>1, <1>2, <2>2, <2>6, <2>7, <2>8
<1> QED
  BY <1>1, <1>2, <1>6 DEF IsAhead

\* read_line sees the end of that line and no other.
LEMMA LineEndAhead ==
  ASSUME NEW l, NEW e, NEW t, LineAhead(l, e, t)
  PROVE  \A n : n \in LineEnd <=> /\ n = Len(l) + Len(e)
                                  /\ n <= MaxLine /\ n <= Len(arrived)
<1>1. IsAhead(l, e)
  BY AheadSymbols
<1>2. Len(l) \in Nat /\ Len(e) \in {1, 2} /\ Len(arrived) \in Nat
  BY <1>1 DEF IsAhead
<1>3. \A k \in 1..Len(l) : l[k] # LF
  BY DEF LineAhead
<1>4. \A k \in 1..Len(arrived) : k < Len(l) + Len(e) => arrived[k] # LF
  <2>1. ASSUME NEW k \in 1..Len(arrived), k < Len(l) + Len(e) PROVE arrived[k] # LF
    <3>1. CASE k <= Len(l)
      BY <1>1, <1>2, <1>3, <3>1 DEF IsAhead
    <3>2. CASE Len(l) < k
      <4>1. arrived[k] = CR
        BY <1>1, <2>1, <3>2 DEF IsAhead
      <4> QED
        BY <4>1, Characters
    <3> QED
      BY <1>2, <3>1, <3>2
  <2> QED
    BY <2>1
<1>5. Len(l) + Len(e) \in 1..Len(arrived) => arrived[Len(l) + Len(e)] = LF
  BY <1>1, <1>2 DEF IsAhead
<1>6. MaxLine \in Nat /\ Min({MaxLine, Len(arrived)}) = IF MaxLine <= Len(arrived) THEN MaxLine ELSE Len(arrived)
  BY <1>2, MinOfTwo
<1>7. \A n : n \in LineEnd <=> /\ n \in 1..Len(arrived) /\ n <= MaxLine
                               /\ arrived[n] = LF /\ \A k \in 1..(n - 1) : arrived[k] # LF
  BY <1>2, <1>6 DEF LineEnd
<1>8. ASSUME NEW n \in 1..Len(arrived), arrived[n] = LF, \A k \in 1..(n - 1) : arrived[k] # LF
      PROVE  n = Len(l) + Len(e)
  <2>1. ~(n < Len(l) + Len(e))
    BY <1>4, <1>8
  <2>2. ~(n > Len(l) + Len(e))
    <3>1. n > Len(l) + Len(e) => Len(l) + Len(e) \in 1..(n - 1) /\ Len(l) + Len(e) \in 1..Len(arrived)
      BY <1>2
    <3> QED
      BY <1>5, <1>8, <3>1
  <2> QED
    BY <1>2, <2>1, <2>2
<1>9. ASSUME Len(l) + Len(e) <= Len(arrived), NEW k \in 1..(Len(l) + Len(e) - 1)
      PROVE  arrived[k] # LF
  BY <1>2, <1>4, <1>9
<1>10. Len(l) + Len(e) <= Len(arrived) => Len(l) + Len(e) \in 1..Len(arrived)
  BY <1>2
<1> QED
  BY <1>5, <1>7, <1>8, <1>9, <1>10

\* What read_line returns are parts of what has arrived.
LEMMA ReadTyped ==
  ASSUME arrived \in Seq(Symbols), NEW r \in read_line
  PROVE  r.line \in Seq(Symbols) /\ r.rest \in Seq(Symbols)
<1>1. Len(arrived) \in Nat /\ MaxLine \in Nat \ {0}
  BY LenProperties
<1>2. ASSUME NEW n \in LineEnd
      PROVE  n - 1 \in 0..Len(arrived) /\ n \in 0..Len(arrived)
  BY <1>1, <1>2, MinOfTwo DEF LineEnd
<1>3. ASSUME NEW s \in Seq(Symbols) PROVE WithoutCR(s) \in Seq(Symbols)
  <2>1. CASE s # << >>
    <3>1. Len(s) - 1 \in 0..Len(s)
      BY <2>1, EmptySeq
    <3>2. SubSeq(s, 1, Len(s) - 1) \in Seq(Symbols)
      BY <3>1, Parts
    <3> QED
      BY <3>2 DEF WithoutCR
  <2> QED
    BY <2>1 DEF WithoutCR
<1>4. ASSUME NEW n \in 0..Len(arrived)
      PROVE  SubSeq(arrived, 1, n) \in Seq(Symbols) /\ After(n) \in Seq(Symbols)
  BY Parts DEF After
<1>5. ASSUME NEW n \in LineEnd,
             r = [line |-> WithoutCR(SubSeq(arrived, 1, n - 1)), rest |-> After(n)]
      PROVE  r.line \in Seq(Symbols) /\ r.rest \in Seq(Symbols)
  <2>1. SubSeq(arrived, 1, n - 1) \in Seq(Symbols) /\ After(n) \in Seq(Symbols)
    BY <1>2, <1>4
  <2> QED
    BY <1>3, <1>5, <2>1
<1>6. ASSUME MaxLine <= Len(arrived),
             r = [line |-> SubSeq(arrived, 1, MaxLine), rest |-> After(MaxLine)]
      PROVE  r.line \in Seq(Symbols) /\ r.rest \in Seq(Symbols)
  <2>1. MaxLine \in 0..Len(arrived)
    BY <1>1, <1>6
  <2> QED
    BY <1>4, <1>6, <2>1
<1> QED
  BY <1>5, <1>6 DEF read_line

\* Of two ways to cut a sequence at the same place the parts are the same.
LEMMA SameCut ==
  ASSUME NEW S, NEW a \in Seq(S), NEW b \in Seq(S), NEW c \in Seq(S), NEW d \in Seq(S),
         Len(a) = Len(b), a \o c = b \o d
  PROVE  c = d
<1>1. /\ Len(a) \in Nat /\ Len(c) \in Nat /\ Len(d) \in Nat
      /\ Len(a \o c) = Len(a) + Len(c) /\ Len(b \o d) = Len(a) + Len(d)
  BY ConcatProperties, LenProperties
<1>2. Len(c) = Len(d)
  BY <1>1
<1>3. ASSUME NEW k \in 1..Len(c) PROVE c[k] = d[k]
  <2> DEFINE m == Len(a) + k
  <2>1. /\ m \in 1..(Len(a) + Len(c)) /\ m \in 1..(Len(b) + Len(d))
        /\ ~(m <= Len(a)) /\ m - Len(a) = k
    BY <1>1, <1>2
  <2> HIDE DEF m
  <2>2. (a \o c)[m] = c[m - Len(a)]
    BY <2>1, ConcatProperties
  <2>3. (b \o d)[m] = d[m - Len(b)]
    BY <2>1, ConcatProperties
  <2> QED
    BY <2>1, <2>2, <2>3
<1> QED
  BY <1>2, <1>3, SeqEqual

\* A line is read without its end, and only the carriage return that may be
\* before the line feed is taken off.
LEMMA ReadsLine ==
  ASSUME NEW l, NEW e, NEW t, LineAhead(l, e, t), l # << >> => l[Len(l)] # CR,
         Len(l) + Len(e) <= Len(arrived)
  PROVE  WithoutCR(SubSeq(arrived, 1, Len(l) + Len(e) - 1)) = l
<1> DEFINE a == SubSeq(arrived, 1, Len(l) + Len(e) - 1)
<1>1. IsAhead(l, e)
  BY AheadSymbols
<1>2. l \in Seq(Symbols) /\ arrived \in Seq(Symbols)
  BY DEF LineAhead
<1>3. Len(l) \in Nat /\ Len(e) \in {1, 2} /\ Len(arrived) \in Nat
  BY <1>1 DEF IsAhead
<1>4. Len(l) + Len(e) - 1 \in 0..Len(arrived)
  BY <1>3
<1>5. /\ a \in Seq(Symbols) /\ Len(a) = Len(l) + Len(e) - 1
      /\ \A k \in 1..(Len(l) + Len(e) - 1) : a[k] = arrived[k]
  BY <1>2, <1>4, Parts
<1> HIDE DEF a
<1>6. ASSUME NEW k \in 1..Len(l) PROVE a[k] = l[k]
  <2>1. k \in 1..(Len(l) + Len(e) - 1) /\ k \in 1..Len(arrived) /\ k <= Len(l)
    BY <1>3
  <2> QED
    BY <1>1, <1>5, <2>1 DEF IsAhead
<1>7. CASE Len(e) = 1
  <2>1. Len(a) = Len(l)
    BY <1>3, <1>5, <1>7
  <2>2. a = l
    BY <1>2, <1>5, <1>6, <2>1, SeqEqual
  <2> QED
    BY <2>2 DEF WithoutCR, a
<1>8. CASE Len(e) = 2
  <2>1. Len(a) = Len(l) + 1 /\ Len(a) - 1 = Len(l)
    BY <1>3, <1>5, <1>8
  <2>2. Len(a) \in 1..Len(arrived) /\ Len(l) < Len(a) /\ Len(a) < Len(l) + Len(e)
    BY <1>3, <1>8, <2>1
  <2>3. arrived[Len(a)] = CR
    BY <1>1, <2>2 DEF IsAhead
  <2>4. Len(a) \in 1..(Len(l) + Len(e) - 1)
    BY <1>3, <1>8, <2>1
  <2>5. a[Len(a)] = CR
    BY <1>5, <2>3, <2>4
  <2>6. a # << >>
    BY <1>3, <2>1, EmptySeq
  <2>7. Len(l) \in 0..Len(a)
    BY <1>3, <2>1
  <2>8. /\ SubSeq(a, 1, Len(l)) \in Seq(Symbols) /\ Len(SubSeq(a, 1, Len(l))) = Len(l)
        /\ \A k \in 1..Len(l) : SubSeq(a, 1, Len(l))[k] = a[k]
    BY <1>5, <2>7, Parts
  <2>9. SubSeq(a, 1, Len(l)) = l
    BY <1>2, <1>6, <2>8, SeqEqual
  <2> QED
    BY <2>1, <2>5, <2>6, <2>9 DEF WithoutCR, a
<1> QED
  BY <1>3, <1>7, <1>8

\* What is left after a line is what follows it.
LEMMA LeavesRest ==
  ASSUME NEW l, NEW e, NEW t, LineAhead(l, e, t), Len(l) + Len(e) <= Len(arrived)
  PROVE  /\ After(Len(l) + Len(e)) \in Seq(Symbols)
         /\ After(Len(l) + Len(e)) \o unsent = t
<1> DEFINE n == Len(l) + Len(e)
<1>1. /\ l \in Seq(Symbols) /\ e \in Seq(Symbols) /\ t \in Seq(Symbols)
      /\ arrived \in Seq(Symbols) /\ unsent \in Seq(Symbols)
      /\ arrived \o unsent = (l \o e) \o t
  BY LineEnds DEF LineAhead
<1>2. Len(l) \in Nat /\ Len(e) \in Nat /\ Len(arrived) \in Nat
  BY <1>1, LenProperties
<1>3. n \in 0..Len(arrived)
  BY <1>2
<1>4. l \o e \in Seq(Symbols) /\ Len(l \o e) = n
  BY <1>1, ConcatProperties
<1> HIDE DEF n
<1>5. /\ SubSeq(arrived, 1, n) \in Seq(Symbols) /\ Len(SubSeq(arrived, 1, n)) = n
      /\ After(n) \in Seq(Symbols) /\ SubSeq(arrived, 1, n) \o After(n) = arrived
  BY <1>1, <1>3, Parts DEF After
<1>6. After(n) \o unsent \in Seq(Symbols)
  BY <1>1, <1>5, ConcatProperties
<1>7. SubSeq(arrived, 1, n) \o (After(n) \o unsent) = (l \o e) \o t
  <2>1. \A a, b, c \in Seq(Symbols) : (a \o b) \o c = a \o (b \o c)
    BY SMTT(30), ConcatAssociative
  <2>2. (SubSeq(arrived, 1, n) \o After(n)) \o unsent = (l \o e) \o t
    BY <1>1, <1>5
  <2> DEFINE a == SubSeq(arrived, 1, n)  b == After(n)
  <2>3. a \in Seq(Symbols) /\ b \in Seq(Symbols) /\ unsent \in Seq(Symbols)
    BY <1>1, <1>5
  <2>4. (a \o b) \o unsent = (l \o e) \o t
    BY <2>2
  <2> HIDE DEF a, b
  <2>5. a \o (b \o unsent) = (l \o e) \o t
    BY <2>1, <2>3, <2>4
  <2> QED
    BY <2>5 DEF a, b
<1>8. After(n) \o unsent = t
  BY <1>1, <1>4, <1>5, <1>6, <1>7, SameCut
<1> QED
  BY <1>5, <1>8 DEF n

\* A line the reader has room for is read whole, and what follows it is left.
LEMMA ReadWhole ==
  ASSUME NEW l, NEW e, NEW t, LineAhead(l, e, t), l # << >> => l[Len(l)] # CR,
         Len(l) + Len(e) <= MaxLine, NEW r \in read_line
  PROVE  r.line = l /\ r.rest \in Seq(Symbols) /\ r.rest \o unsent = t
<1>1. Len(l) \in Nat /\ Len(e) \in {1, 2} /\ Len(arrived) \in Nat /\ MaxLine \in Nat
  BY AheadSymbols DEF IsAhead
<1>2. \A n : n \in LineEnd <=> /\ n = Len(l) + Len(e)
                               /\ n <= MaxLine /\ n <= Len(arrived)
  BY LineEndAhead
<1>3. LineEnd = {} => ~(MaxLine <= Len(arrived))
  BY <1>1, <1>2
<1>4. Len(l) + Len(e) <= Len(arrived)
      /\ r = [line |-> WithoutCR(SubSeq(arrived, 1, Len(l) + Len(e) - 1)),
              rest |-> After(Len(l) + Len(e))]
  BY <1>2, <1>3 DEF read_line
<1> QED
  BY <1>4, ReadsLine, LeavesRest

\* Once all of such a line has arrived, it can be read.
LEMMA Ready ==
  ASSUME NEW l, NEW e, NEW t, LineAhead(l, e, t), Len(l) + Len(e) <= MaxLine,
         unsent = << >>
  PROVE  read_line # {}
<1>1. Len(l) \in Nat /\ Len(e) \in {1, 2} /\ Len(arrived) \in Nat
  BY AheadSymbols DEF IsAhead
<1>2. /\ l \in Seq(Symbols) /\ e \in Seq(Symbols) /\ t \in Seq(Symbols)
      /\ arrived \in Seq(Symbols) /\ arrived \o unsent = (l \o e) \o t
  BY LineEnds DEF LineAhead
<1>3. arrived = (l \o e) \o t
  BY <1>2, ConcatEmptySeq
<1>4. /\ l \o e \in Seq(Symbols) /\ Len(l \o e) = Len(l) + Len(e)
      /\ Len((l \o e) \o t) = Len(l \o e) + Len(t) /\ Len(t) \in Nat
  BY <1>2, ConcatProperties, LenProperties
<1>5. Len(l) + Len(e) <= Len(arrived)
  BY <1>1, <1>3, <1>4
<1>6. Len(l) + Len(e) \in LineEnd
  BY <1>5, LineEndAhead
<1> QED
  BY <1>6 DEF read_line

\* Of a line the reader has no room for it reads the front, with a carriage
\* return perhaps.
LEMMA ReadAny ==
  ASSUME NEW l, NEW e, NEW t, LineAhead(l, e, t), NEW r \in read_line
  PROVE  /\ r.line \in Seq(Symbols)
         /\ \A k \in 1..Len(r.line) : r.line[k] = IF k <= Len(l) THEN l[k] ELSE CR
<1>1. IsAhead(l, e) /\ arrived \in Seq(Symbols)
  BY AheadSymbols DEF LineAhead
<1>2. Len(l) \in Nat /\ Len(e) \in {1, 2} /\ Len(arrived) \in Nat /\ MaxLine \in Nat
  BY <1>1 DEF IsAhead
<1>3. ASSUME NEW m \in 0..Len(arrived), m < Len(l) + Len(e)
      PROVE  /\ SubSeq(arrived, 1, m) \in Seq(Symbols)
             /\ Len(SubSeq(arrived, 1, m)) = m
             /\ \A k \in 1..m : SubSeq(arrived, 1, m)[k] = IF k <= Len(l) THEN l[k] ELSE CR
  <2>1. /\ SubSeq(arrived, 1, m) \in Seq(Symbols) /\ Len(SubSeq(arrived, 1, m)) = m
        /\ \A k \in 1..m : SubSeq(arrived, 1, m)[k] = arrived[k]
    BY <1>1, Parts
  <2>2. ASSUME NEW k \in 1..m PROVE arrived[k] = IF k <= Len(l) THEN l[k] ELSE CR
    <3>1. k \in 1..Len(arrived) /\ k < Len(l) + Len(e) /\ (~(k <= Len(l)) => Len(l) < k)
      BY <1>2, <1>3
    <3> QED
      BY <1>1, <3>1 DEF IsAhead
  <2> QED
    BY <2>1, <2>2
<1> DEFINE IsFront(s) == /\ s \in Seq(Symbols)
                       /\ \A k \in 1..Len(s) : s[k] = IF k <= Len(l) THEN l[k] ELSE CR
<1>4. ASSUME NEW m \in 0..Len(arrived), m < Len(l) + Len(e)
      PROVE  IsFront(SubSeq(arrived, 1, m))
  BY <1>3, <1>4
<1>5. ASSUME NEW s, IsFront(s) PROVE IsFront(WithoutCR(s))
  <2>1. CASE s # << >>
    <3>1. Len(s) \in Nat /\ Len(s) - 1 \in 0..Len(s)
      BY <1>5, <2>1, EmptySeq, LenProperties
    <3>2. /\ SubSeq(s, 1, Len(s) - 1) \in Seq(Symbols) /\ Len(SubSeq(s, 1, Len(s) - 1)) = Len(s) - 1
          /\ \A k \in 1..(Len(s) - 1) : SubSeq(s, 1, Len(s) - 1)[k] = s[k]
      BY ZenonT(30), <1>5, <3>1, Parts
    <3>3. \A k \in 1..(Len(s) - 1) : k \in 1..Len(s)
      BY <3>1
    <3>4. IsFront(SubSeq(s, 1, Len(s) - 1))
      BY <1>5, <3>2, <3>3
    <3> QED
      BY <1>5, <3>4 DEF WithoutCR
  <2> QED
    BY <1>5, <2>1 DEF WithoutCR
<1> HIDE DEF IsFront
<1>6. \A n : n \in LineEnd <=> /\ n = Len(l) + Len(e)
                               /\ n <= MaxLine /\ n <= Len(arrived)
  BY LineEndAhead
<1>7. ASSUME NEW n \in LineEnd,
             r = [line |-> WithoutCR(SubSeq(arrived, 1, n - 1)), rest |-> After(n)]
      PROVE  IsFront(r.line)
  <2>1. n - 1 \in 0..Len(arrived) /\ n - 1 < Len(l) + Len(e)
    <3>1. n = Len(l) + Len(e) /\ n <= Len(arrived)
      BY <1>6
    <3>2. Len(e) \in Nat /\ Len(e) >= 1
      BY SMTT(30), <1>2
    <3> QED
      BY <1>2, <3>1, <3>2
  <2> QED
    BY <1>4, <1>5, <1>7, <2>1
<1>8. ASSUME LineEnd = {}, MaxLine <= Len(arrived),
             r = [line |-> SubSeq(arrived, 1, MaxLine), rest |-> After(MaxLine)]
      PROVE  IsFront(r.line)
  <2>1. MaxLine \in 0..Len(arrived) /\ MaxLine < Len(l) + Len(e)
    BY <1>2, <1>6, <1>8
  <2> QED
    BY <1>4, <1>8, <2>1
<1> QED
  BY <1>7, <1>8 DEF read_line, IsFront

\* Such a line is as long as it was sent, or as the reader has room for.
LEMMA ReadLength ==
  ASSUME NEW l, NEW e, NEW t, LineAhead(l, e, t), l # << >> => l[Len(l)] # CR, NEW r \in read_line
  PROVE  Len(r.line) \in {Len(l), MaxLine}
<1>1. Len(l) \in Nat /\ Len(e) \in {1, 2} /\ Len(arrived) \in Nat /\ MaxLine \in Nat
  BY AheadSymbols DEF IsAhead
<1>2. \A n : n \in LineEnd <=> /\ n = Len(l) + Len(e)
                               /\ n <= MaxLine /\ n <= Len(arrived)
  BY LineEndAhead
<1>3. ASSUME NEW n \in LineEnd,
             r = [line |-> WithoutCR(SubSeq(arrived, 1, n - 1)), rest |-> After(n)]
      PROVE  r.line = l
  <2>1. n = Len(l) + Len(e) /\ Len(l) + Len(e) <= Len(arrived)
    BY <1>2
  <2>2. WithoutCR(SubSeq(arrived, 1, Len(l) + Len(e) - 1)) = l
    BY <2>1, ReadsLine
  <2> QED
    BY <1>3, <2>1, <2>2
<1>4. ASSUME MaxLine <= Len(arrived),
             r = [line |-> SubSeq(arrived, 1, MaxLine), rest |-> After(MaxLine)]
      PROVE  Len(r.line) = MaxLine
  <2>1. MaxLine \in 0..Len(arrived) /\ arrived \in Seq(Symbols)
    BY <1>1, <1>4 DEF LineAhead
  <2>2. Len(SubSeq(arrived, 1, MaxLine)) = MaxLine
    BY <2>1, Parts
  <2> QED
    BY <1>4, <2>2
<1> QED
  BY <1>3, <1>4 DEF read_line

-----------------------------------------------------------------------------
(* The request line and the headers *)

\* What is assumed of the first line of a request.
LEMMA LineParts ==
  ASSUME NEW r \in Requests
  PROVE  /\ r.method \in Seq(Symbols) /\ r.gap \in Seq(Symbols)
         /\ r.path \in Seq(Symbols) /\ r.tail \in Seq(Symbols)
         /\ {Len(r.method), Len(r.gap), Len(r.path), Len(r.tail)} \subseteq Nat
         /\ \A i \in 1..Len(r.method) : r.method[i] \notin {SP, CR, LF}
         /\ \A i \in 1..Len(r.gap) : r.gap[i] = SP
         /\ \A i \in 1..Len(r.path) : r.path[i] \notin {SP, CR, LF}
         /\ \A i \in 1..Len(r.tail) : r.tail[i] \notin {CR, LF}
         /\ Len(r.path) # 0 => Len(r.method) # 0 /\ Len(r.gap) # 0
         /\ Len(r.tail) # 0 => Len(r.path) # 0 /\ r.tail[1] = SP
<1>1. /\ r.method \in Seq(Symbols \ {SP, CR, LF}) /\ r.path \in Seq(Symbols \ {SP, CR, LF})
      /\ r.gap \in Seq({SP}) /\ r.tail \in Seq(Symbols \ {CR, LF})
      /\ r.path # << >> => r.method # << >> /\ r.gap # << >>
      /\ r.tail # << >> => r.path # << >> /\ r.tail[1] = SP
  BY RequestsAssumption DEF RequestsAssumption
<1>2. ASSUME NEW S, NEW s \in Seq(S), S \subseteq Symbols
      PROVE  /\ s \in Seq(Symbols) /\ Len(s) \in Nat /\ \A i \in 1..Len(s) : s[i] \in S
             /\ Len(s) = 0 <=> s = << >>
  <2>1. /\ Len(s) \in Nat /\ s = [i \in 1..Len(s) |-> s[i]]
        /\ \A i \in 1..Len(s) : s[i] \in S
    BY <1>2, LenProperties, ElementOfSeq
  <2>2. [i \in 1..Len(s) |-> s[i]] \in Seq(Symbols)
    BY <1>2, <2>1, IsASeq
  <2> QED
    BY <2>1, <2>2, EmptySeq
<1>3. {SP} \subseteq Symbols
  BY Characters
<1>4. /\ r.method \in Seq(Symbols) /\ Len(r.method) \in Nat
      /\ \A i \in 1..Len(r.method) : r.method[i] \in Symbols \ {SP, CR, LF}
      /\ Len(r.method) = 0 <=> r.method = << >>
  BY <1>1, <1>2
<1>5. /\ r.gap \in Seq(Symbols) /\ Len(r.gap) \in Nat
      /\ \A i \in 1..Len(r.gap) : r.gap[i] \in {SP}
      /\ Len(r.gap) = 0 <=> r.gap = << >>
  BY <1>1, <1>2, <1>3
<1>6. /\ r.path \in Seq(Symbols) /\ Len(r.path) \in Nat
      /\ \A i \in 1..Len(r.path) : r.path[i] \in Symbols \ {SP, CR, LF}
      /\ Len(r.path) = 0 <=> r.path = << >>
  BY <1>1, <1>2
<1>7. /\ r.tail \in Seq(Symbols) /\ Len(r.tail) \in Nat
      /\ \A i \in 1..Len(r.tail) : r.tail[i] \in Symbols \ {CR, LF}
      /\ Len(r.tail) = 0 <=> r.tail = << >>
  BY <1>1, <1>2
<1> QED
  BY <1>1, <1>4, <1>5, <1>6, <1>7

\* The first line without its end.
Spaced(r) == (r.method \o r.gap) \o (r.path \o r.tail)

\* Where its parts stand.
LEMMA SpacedLine ==
  ASSUME NEW r \in Requests
  PROVE  LET m == Len(r.method)
             g == Len(r.gap)
             p == Len(r.path)
             l == Spaced(r)
         IN  /\ l \in Seq(Symbols) /\ LineText(r) = l \o r.eol
             /\ Len(l) = (m + g) + (p + Len(r.tail))
             /\ \A k \in 1..Len(l) :
                  /\ l[k] \notin {CR, LF}
                  /\ k <= m => l[k] = r.method[k] /\ l[k] # SP
                  /\ m < k /\ k <= m + g => l[k] = SP
                  /\ m + g < k /\ k <= m + g + p => l[k] = r.path[k - (m + g)] /\ l[k] # SP
                  /\ k = m + g + p + 1 => l[k] = SP
<1> DEFINE m == Len(r.method)
           g == Len(r.gap)
           p == Len(r.path)
           t == Len(r.tail)
           a == r.method \o r.gap
           b == r.path \o r.tail
           l == a \o b
<1>1. /\ r.method \in Seq(Symbols) /\ r.gap \in Seq(Symbols)
      /\ r.path \in Seq(Symbols) /\ r.tail \in Seq(Symbols)
      /\ m \in Nat /\ g \in Nat /\ p \in Nat /\ t \in Nat
  BY LineParts
<1>2. /\ a \in Seq(Symbols) /\ Len(a) = m + g
      /\ \A k \in 1..(m + g) : a[k] = IF k <= m THEN r.method[k] ELSE r.gap[k - m]
  BY <1>1, ConcatProperties
<1>3. /\ b \in Seq(Symbols) /\ Len(b) = p + t
      /\ \A k \in 1..(p + t) : b[k] = IF k <= p THEN r.path[k] ELSE r.tail[k - p]
  BY <1>1, ConcatProperties
<1>4. LineText(r) = l \o r.eol /\ Spaced(r) = l
  BY DEF LineText, Spaced
<1> HIDE DEF a, b, m, g, p, t
<1>5. /\ l \in Seq(Symbols) /\ Len(l) = (m + g) + (p + t)
      /\ \A k \in 1..((m + g) + (p + t)) : l[k] = IF k <= m + g THEN a[k] ELSE b[k - (m + g)]
  <2>1. \A x, y \in Seq(Symbols) :
          /\ x \o y \in Seq(Symbols) /\ Len(x \o y) = Len(x) + Len(y)
          /\ \A k \in 1..(Len(x) + Len(y)) :
               (x \o y)[k] = IF k <= Len(x) THEN x[k] ELSE y[k - Len(x)]
    BY ConcatProperties
  <2>2. /\ l \in Seq(Symbols) /\ Len(l) = Len(a) + Len(b)
        /\ \A k \in 1..(Len(a) + Len(b)) : l[k] = IF k <= Len(a) THEN a[k] ELSE b[k - Len(a)]
    BY ZenonT(30), <1>2, <1>3, <2>1
  <2> HIDE DEF l
  <2> QED
    BY <1>2, <1>3, <2>2
<1>6. /\ \A i \in 1..m : r.method[i] \notin {SP, CR, LF}
      /\ \A i \in 1..g : r.gap[i] = SP
      /\ \A i \in 1..p : r.path[i] \notin {SP, CR, LF}
      /\ \A i \in 1..t : r.tail[i] \notin {CR, LF}
      /\ t # 0 => r.tail[1] = SP
  BY LineParts DEF m, g, p, t
<1> HIDE DEF l
<1>7. ASSUME NEW k \in 1..((m + g) + (p + t))
      PROVE  /\ l[k] \notin {CR, LF}
             /\ k <= m => l[k] = r.method[k] /\ l[k] # SP
             /\ m < k /\ k <= m + g => l[k] = SP
             /\ m + g < k /\ k <= m + g + p => l[k] = r.path[k - (m + g)] /\ l[k] # SP
             /\ k = m + g + p + 1 => l[k] = SP
  <2>1. CASE k <= m
    <3>1. k \in 1..m /\ k \in 1..(m + g) /\ k <= m + g /\ ~(m < k)
          /\ k # m + g + p + 1 /\ ~(m + g < k)
      BY <1>1, <2>1
    <3>2. l[k] = r.method[k]
      BY <1>2, <1>5, <2>1, <3>1
    <3>3. l[k] \notin {SP, CR, LF}
      BY <1>6, <3>1, <3>2
    <3> QED
      BY <3>1, <3>2, <3>3
  <2>2. CASE m < k /\ k <= m + g
    <3>1. k - m \in 1..g /\ k \in 1..(m + g) /\ ~(k <= m) /\ ~(m + g < k) /\ k # m + g + p + 1
      BY <1>1, <2>2
    <3>2. l[k] = r.gap[k - m]
      BY <1>2, <1>5, <2>2, <3>1
    <3>3. l[k] = SP
      BY <1>6, <3>1, <3>2
    <3> QED
      BY <3>1, <3>3, Characters
  <2>3. CASE m + g < k
    <3> DEFINE j == k - (m + g)
    <3>1. j \in 1..(p + t) /\ ~(k <= m + g) /\ ~(k <= m)
      BY <1>1, <2>3
    <3>2. l[k] = b[j]
      BY <1>5, <3>1
    <3>3. CASE j <= p
      <4>1. j \in 1..p /\ k <= m + g + p /\ k # m + g + p + 1
        BY <1>1, <2>3, <3>1, <3>3
      <4>2. l[k] = r.path[j]
        BY <1>3, <3>1, <3>2, <3>3
      <4>3. l[k] \notin {SP, CR, LF}
        BY <1>6, <4>1, <4>2
      <4> QED
        BY <3>1, <4>1, <4>2, <4>3
    <3>4. CASE ~(j <= p)
      <4>1. j - p \in 1..t /\ ~(k <= m + g + p) /\ t # 0
        BY <1>1, <2>3, <3>1, <3>4
      <4>2. l[k] = r.tail[j - p]
        BY <1>3, <3>1, <3>2, <3>4
      <4>3. l[k] \notin {CR, LF}
        BY <1>6, <4>1, <4>2
      <4>4. k = m + g + p + 1 => j - p = 1
        BY <1>1
      <4>5. k = m + g + p + 1 => l[k] = SP
        BY <1>6, <4>1, <4>2, <4>4
      <4> QED
        BY <3>1, <4>1, <4>3, <4>5
    <3> QED
      BY <3>3, <3>4
  <2> QED
    BY <1>1, <2>1, <2>2, <2>3
<1> QED
  BY <1>4, <1>5, <1>7 DEF m, g, p, t

\* A place the scan for a word, or for blanks, comes to.
LEMMA Places ==
  ASSUME NEW line \in Seq(Symbols), NEW a \in 1..(Len(line) + 1), NEW q \in a..(Len(line) + 1)
  PROVE  /\ /\ \A i \in a..(q - 1) : line[i] \in {SP, CR}
            /\ q <= Len(line) => line[q] \notin {SP, CR}
            => WordAt(line, a) = q
         /\ /\ \A i \in a..(q - 1) : line[i] \notin {SP, CR}
            /\ q <= Len(line) => line[q] \in {SP, CR}
            => GapAt(line, a) = q
<1> DEFINE n == Len(line)
<1>1. n \in Nat
  BY LenProperties
<1> HIDE DEF n
<1>2. ASSUME NEW P, P \subseteq a..n, \A i \in a..(q - 1) : i \notin P, q <= n => q \in P
      PROVE  Min({n + 1} \cup P) = q
  <2> DEFINE S == {n + 1} \cup P
  <2>1. a \in Nat /\ q \in Nat /\ a <= q /\ q <= n + 1
    BY <1>1 DEF n
  <2>2. S \subseteq Nat
    BY <1>1, <1>2, <2>1
  <2>3. q \in S
    <3>1. q <= n \/ q = n + 1
      BY <1>1, <2>1
    <3> QED
      BY <1>2, <3>1
  <2>4. ASSUME NEW y \in S PROVE q <= y
    <3>1. CASE y = n + 1
      BY <2>1, <3>1
    <3>2. CASE y \in P
      <4>1. y \in a..n /\ y \notin a..(q - 1)
        BY <1>2, <3>2
      <4> QED
        BY <1>1, <2>1, <4>1
    <3> QED
      BY <3>1, <3>2
  <2>5. \A x \in S : (\A y \in S : x <= y) => x = q
    BY <2>1, <2>2, <2>3, <2>4
  <2> HIDE DEF S
  <2>6. Min(S) = q
    BY <2>3, <2>4, <2>5 DEF Min
  <2> QED
    BY <2>6 DEF S
<1>3. q <= n => q \in a..n
  BY <1>1
<1>4. ASSUME \A i \in a..(q - 1) : line[i] \in {SP, CR}, q <= n => line[q] \notin {SP, CR}
      PROVE  WordAt(line, a) = q
  <2> DEFINE P == {i \in a..n : line[i] \notin {SP, CR}}
  <2>1. /\ P \subseteq a..n /\ \A i \in a..(q - 1) : i \notin P /\ (q <= n => q \in P)
    BY <1>3, <1>4
  <2>2. q <= n => q \in P
    BY <1>3, <1>4
  <2> HIDE DEF P
  <2>3. Min({n + 1} \cup P) = q
    BY <1>2, <2>1, <2>2
  <2> QED
    BY <2>3 DEF WordAt, P, n
<1>5. ASSUME \A i \in a..(q - 1) : line[i] \notin {SP, CR}, q <= n => line[q] \in {SP, CR}
      PROVE  GapAt(line, a) = q
  <2> DEFINE P == {i \in a..n : line[i] \in {SP, CR}}
  <2>1. /\ P \subseteq a..n /\ \A i \in a..(q - 1) : i \notin P
    BY <1>5
  <2>2. q <= n => q \in P
    BY <1>3, <1>5
  <2> HIDE DEF P
  <2>3. Min({n + 1} \cup P) = q
    BY <1>2, <2>1, <2>2
  <2> QED
    BY <2>3 DEF GapAt, P, n
<1> QED
  BY <1>4, <1>5 DEF n

\* A part of a sequence that stands in another.
LEMMA PartIs ==
  ASSUME NEW s \in Seq(Symbols), NEW x \in Seq(Symbols), NEW o \in Nat, NEW j \in 0..Len(x),
         o + j <= Len(s), \A k \in 1..j : s[o + k] = x[k]
  PROVE  SubSeq(s, o + 1, o + j) = SubSeq(x, 1, j)
<1>1. Len(s) \in Nat /\ Len(x) \in Nat /\ j \in Nat
  BY LenProperties
<1>2. /\ SubSeq(x, 1, j) \in Seq(Symbols) /\ Len(SubSeq(x, 1, j)) = j
      /\ \A k \in 1..j : SubSeq(x, 1, j)[k] = x[k]
  BY Parts
<1>3. /\ SubSeq(s, o + 1, o + j) \in Seq(Symbols)
      /\ Len(SubSeq(s, o + 1, o + j)) = IF o + 1 <= o + j THEN (o + j) - (o + 1) + 1 ELSE 0
      /\ \A k \in 1..((o + j) - (o + 1) + 1) :
           SubSeq(s, o + 1, o + j)[k] = s[(o + 1) + k - 1]
  <2>1. \A i \in (o + 1)..(o + j) : i \in 1..Len(s)
    BY <1>1
  <2>2. \A i \in (o + 1)..(o + j) : s[i] \in Symbols
    BY <2>1, ElementOfSeq
  <2>3. o + 1 \in Int /\ o + j \in Int
    BY <1>1
  <2> QED
    BY <2>2, <2>3, SubSeqProperties
<1>4. Len(SubSeq(s, o + 1, o + j)) = j
  BY <1>1, <1>3
<1>5. ASSUME NEW k \in 1..j PROVE SubSeq(s, o + 1, o + j)[k] = SubSeq(x, 1, j)[k]
  <2>1. k \in 1..((o + j) - (o + 1) + 1) /\ (o + 1) + k - 1 = o + k
    BY <1>1
  <2> QED
    BY <1>2, <1>3, <2>1
<1> QED
  BY <1>2, <1>3, <1>4, <1>5, SeqEqual

\* line is the front of the first line, with a carriage return perhaps.
FrontOfLine(line, r) ==
  /\ line \in Seq(Symbols)
  /\ \A k \in 1..Len(line) : line[k] = IF k <= Len(Spaced(r)) THEN Spaced(r)[k] ELSE CR

\* What stands at each place of such a line.
LEMMA FrontSymbols ==
  ASSUME NEW r \in Requests, NEW line, FrontOfLine(line, r)
  PROVE  LET m == Len(r.method)
             g == Len(r.gap)
             p == Len(r.path)
         IN  \A k \in 1..Len(line) :
               /\ k <= m => line[k] = r.method[k] /\ line[k] \notin {SP, CR}
               /\ m < k /\ k <= m + g => line[k] = SP
               /\ m + g < k /\ k <= m + g + p =>
                    line[k] = r.path[k - (m + g)] /\ line[k] \notin {SP, CR}
               /\ k = m + g + p + 1 => line[k] \in {SP, CR}
               /\ m + g < k /\ p = 0 => line[k] \in {SP, CR}
<1> DEFINE m == Len(r.method)
           g == Len(r.gap)
           p == Len(r.path)
           t == Len(r.tail)
           l == Spaced(r)
<1>1. m \in Nat /\ g \in Nat /\ p \in Nat /\ t \in Nat /\ (p = 0 => t = 0)
  BY LineParts
<1>2. /\ Len(l) = (m + g) + (p + t)
      /\ \A k \in 1..Len(l) :
           /\ l[k] \notin {CR, LF}
           /\ k <= m => l[k] = r.method[k] /\ l[k] # SP
           /\ m < k /\ k <= m + g => l[k] = SP
           /\ m + g < k /\ k <= m + g + p => l[k] = r.path[k - (m + g)] /\ l[k] # SP
           /\ k = m + g + p + 1 => l[k] = SP
  BY SpacedLine
<1>3. /\ line \in Seq(Symbols) /\ Len(line) \in Nat
      /\ \A k \in 1..Len(line) : line[k] = IF k <= Len(l) THEN l[k] ELSE CR
  BY LenProperties DEF FrontOfLine
<1> HIDE DEF m, g, p, t, l
<1>4. ASSUME NEW k \in 1..Len(line)
      PROVE  /\ k <= m => line[k] = r.method[k] /\ line[k] \notin {SP, CR}
             /\ m < k /\ k <= m + g => line[k] = SP
             /\ m + g < k /\ k <= m + g + p =>
                  line[k] = r.path[k - (m + g)] /\ line[k] \notin {SP, CR}
             /\ k = m + g + p + 1 => line[k] \in {SP, CR}
             /\ m + g < k /\ p = 0 => line[k] \in {SP, CR}
  <2>1. CASE k <= Len(l)
    <3>1. k \in 1..Len(l) /\ line[k] = l[k]
      BY <1>1, <1>2, <1>3, <2>1
    <3>2. ~(m + g < k /\ p = 0)
      BY <1>1, <1>2, <2>1
    <3> QED
      BY <1>2, <3>1, <3>2
  <2>2. CASE ~(k <= Len(l))
    <3>1. line[k] = CR
      BY <1>3, <2>2
    <3>2. ~(k <= m) /\ ~(k <= m + g) /\ ~(k <= m + g + p)
      BY <1>1, <1>2, <2>2
    <3> QED
      BY <3>1, <3>2
  <2> QED
    BY <2>1, <2>2
<1> QED
  BY <1>4 DEF m, g, p, t, l

\* The first words of such a line are the method and the path of the request, or
\* the front of the path if the line is cut there; if it is cut before, there are
\* no two words.
LEMMA FirstWordsRead ==
  ASSUME NEW r \in Requests, NEW line, FrontOfLine(line, r), FirstWords(line)[2] # << >>
  PROVE  \E n \in 1..Len(r.path) :
           /\ FirstWords(line) = <<r.method, SubSeq(r.path, 1, n)>>
           /\ Len(line) >= Len(r.method) + Len(r.gap) + Len(r.path) => n = Len(r.path)
<1> DEFINE m == Len(r.method)
           g == Len(r.gap)
           p == Len(r.path)
           N == Len(line)
           first == SubSeq(line, WordAt(line, 1), GapAt(line, WordAt(line, 1)) - 1)
           b == WordAt(line, GapAt(line, WordAt(line, 1)))
           second == SubSeq(line, b, GapAt(line, b) - 1)
<1>1. /\ r.method \in Seq(Symbols) /\ r.path \in Seq(Symbols)
      /\ m \in Nat /\ g \in Nat /\ p \in Nat
      /\ p # 0 => m # 0 /\ g # 0
  BY LineParts
<1>2. line \in Seq(Symbols) /\ N \in Nat
  BY LenProperties DEF FrontOfLine
<1>3. \A k \in 1..N :
        /\ k <= m => line[k] = r.method[k] /\ line[k] \notin {SP, CR}
        /\ m < k /\ k <= m + g => line[k] = SP
        /\ m + g < k /\ k <= m + g + p =>
             line[k] = r.path[k - (m + g)] /\ line[k] \notin {SP, CR}
        /\ k = m + g + p + 1 => line[k] \in {SP, CR}
        /\ m + g < k /\ p = 0 => line[k] \in {SP, CR}
  BY FrontSymbols
<1>4. FirstWords(line) = <<first, second>> /\ second # << >>
  BY DEF FirstWords
<1> HIDE DEF first, second, b
<1>5. \A a \in 1..(N + 1) : \A q \in a..(N + 1) :
        /\ /\ \A i \in a..(q - 1) : line[i] \in {SP, CR}
           /\ q <= N => line[q] \notin {SP, CR}
           => WordAt(line, a) = q
        /\ /\ \A i \in a..(q - 1) : line[i] \notin {SP, CR}
           /\ q <= N => line[q] \in {SP, CR}
           => GapAt(line, a) = q
  BY <1>2, Places
<1> HIDE DEF m, g, p, N
<1>6. N + 1 \in 1..(N + 1) /\ N + 1 \in (N + 1)..(N + 1) /\ ~(N + 1 <= N)
      /\ (N + 1)..((N + 1) - 1) = {}
  BY <1>2
<1>7. WordAt(line, N + 1) = N + 1 /\ GapAt(line, N + 1) = N + 1
  BY <1>5, <1>6
\* Without a second word
<1>8. b # N + 1
  <2>1. ASSUME b = N + 1 PROVE second = << >>
    <3>1. second = SubSeq(line, N + 1, (N + 1) - 1)
      BY <1>7, <2>1 DEF second
    <3>2. N + 1 \in Int /\ (N + 1) - 1 \in Int /\ (N + 1) - 1 < N + 1
      BY <1>2
    <3> QED
      BY <3>1, <3>2, SubSeqEmpty
  <2> QED
    BY <1>4, <2>1
<1>9. ASSUME NEW a \in 1..(N + 1), \A i \in a..N : line[i] \in {SP, CR}
      PROVE  WordAt(line, a) = N + 1
  <2>1. N + 1 \in a..(N + 1) /\ (N + 1) - 1 = N
    BY <1>2
  <2> QED
    BY <1>5, <1>6, <1>9, <2>1
<1>10. m >= 1 /\ N >= 1
  <2>1. ASSUME ~(m >= 1) \/ ~(N >= 1) PROVE FALSE
    <3>1. \A i \in 1..N : line[i] \in {SP, CR}
      <4>1. CASE ~(N >= 1)
        BY <1>2, <4>1
      <4>2. CASE ~(m >= 1)
        <5>1. m = 0 /\ p = 0
          BY <1>1, <4>2
        <5>2. \A i \in 1..N : m < i /\ (i <= m + g \/ m + g < i)
          BY <1>1, <1>2, <5>1
        <5> QED
          BY <1>3, <5>1, <5>2
      <4> QED
        BY <2>1, <4>1, <4>2
    <3>2. 1 \in 1..(N + 1)
      BY <1>2
    <3>3. WordAt(line, 1) = N + 1
      BY <1>9, <3>1, <3>2
    <3> QED
      BY <1>7, <1>8, <3>3 DEF b
  <2> QED
    BY <2>1
<1>11. WordAt(line, 1) = 1
  <2>1. 1 \in 1..(N + 1) /\ 1..(1 - 1) = {} /\ 1 \in 1..N /\ 1 <= m
    BY <1>1, <1>2, <1>10
  <2>2. line[1] \notin {SP, CR}
    BY <1>3, <2>1
  <2> QED
    BY <1>5, <2>1, <2>2
<1>12. p # 0 /\ m + g < N
  <2>1. ASSUME p = 0 \/ ~(m + g < N) PROVE FALSE
    <3> DEFINE q == IF m <= N THEN m + 1 ELSE N + 1
    <3>1. q \in 1..(N + 1) /\ (q <= N => q = m + 1) /\ \A i \in 1..(q - 1) : i \in 1..N /\ i <= m
      BY <1>1, <1>2, <1>10
    <3>2. \A i \in 1..(q - 1) : line[i] \notin {SP, CR}
      BY <1>3, <3>1
    <3>3. \A i \in 1..N : m < i => line[i] \in {SP, CR}
      <4>1. ASSUME NEW i \in 1..N, m < i PROVE i <= m + g \/ (m + g < i /\ p = 0)
        BY <1>1, <1>2, <2>1, <4>1
      <4> QED
        BY <1>3, <4>1
    <3>4. q <= N => line[q] \in {SP, CR}
      <4>1. q <= N => q \in 1..N /\ m < q
        BY <1>1, <1>2, <3>1
      <4> QED
        BY <3>3, <4>1
    <3>5. GapAt(line, 1) = q
      <4>1. 1 \in 1..(N + 1)
        BY <1>2
      <4> QED
        BY <1>5, <3>1, <3>2, <3>4, <4>1
    <3>6. \A i \in q..N : i \in 1..N /\ m < i
      BY <1>1, <1>2, <3>1
    <3>7. WordAt(line, q) = N + 1
      BY <1>9, <3>1, <3>3, <3>6
    <3> HIDE DEF q
    <3> QED
      BY <1>8, <1>11, <3>5, <3>7 DEF b
  <2> QED
    BY <2>1
<1>13. p \in Nat /\ p >= 1 /\ g >= 1 /\ m + g + 1 <= N
  BY <1>1, <1>2, <1>12
\* The method
<1>14. GapAt(line, 1) = m + 1
  <2>1. 1 \in 1..(N + 1) /\ m + 1 \in 1..(N + 1) /\ m + 1 \in 1..N /\ m < m + 1 /\ m + 1 <= m + g
        /\ \A i \in 1..((m + 1) - 1) : i \in 1..N /\ i <= m
    BY <1>1, <1>2, <1>10, <1>13
  <2>2. line[m + 1] \in {SP, CR} /\ \A i \in 1..((m + 1) - 1) : line[i] \notin {SP, CR}
    BY <1>3, <2>1
  <2> QED
    BY <1>5, <2>1, <2>2
<1>15. first = r.method
  <2>1. m \in 0..Len(r.method) /\ 0 + m <= N /\ 0 \in Nat
    <3>1. m \in 0..m /\ 0 + m <= N /\ 0 \in Nat
      BY <1>1, <1>2, <1>13
    <3>2. m = Len(r.method)
      BY DEF m
    <3> QED
      BY <3>1, <3>2
  <2>2. \A k \in 1..m : 0 + k = k /\ k \in 1..N /\ k <= m
    BY <1>1, <1>2, <1>13
  <2>3. \A k \in 1..m : line[0 + k] = r.method[k]
    BY <1>3, <2>2
  <2>4. SubSeq(line, 0 + 1, 0 + m) = SubSeq(r.method, 1, m)
    BY <1>1, <1>2, <2>1, <2>3, PartIs DEF N
  <2>5. SubSeq(r.method, 1, m) = r.method
    BY <1>1, SubSeqFull DEF m
  <2>6. 0 + 1 = 1 /\ 0 + m = (m + 1) - 1
    BY <1>1
  <2> QED
    BY <1>11, <1>14, <2>4, <2>5, <2>6 DEF first
\* The path
<1>16. b = m + g + 1
  <2>1. m + 1 \in 1..(N + 1) /\ m + g + 1 \in (m + 1)..(N + 1) /\ m + g + 1 \in 1..N
        /\ \A i \in (m + 1)..((m + g + 1) - 1) : i \in 1..N /\ m < i /\ i <= m + g
        /\ m + g < m + g + 1 /\ m + g + 1 <= m + g + p
    BY <1>1, <1>2, <1>13
  <2>2. \A i \in (m + 1)..((m + g + 1) - 1) : line[i] \in {SP, CR}
    BY <1>3, <2>1
  <2>3. line[m + g + 1] \notin {SP, CR}
    <3> DEFINE q == m + g + 1
    <3>1. q \in 1..N /\ m + g < q /\ q <= m + g + p
      BY <1>1, <1>2, <1>13
    <3> HIDE DEF q
    <3>2. m + g < q /\ q <= m + g + p => line[q] = r.path[q - (m + g)] /\ line[q] \notin {SP, CR}
      BY <1>3, <3>1
    <3>3. line[q] \notin {SP, CR}
      BY <3>1, <3>2
    <3> QED
      BY <3>3 DEF q
  <2>4. WordAt(line, m + 1) = m + g + 1
    BY <1>5, <2>1, <2>2, <2>3
  <2> QED
    BY <1>11, <1>14, <2>4 DEF b
<1> DEFINE n == IF m + g + p <= N THEN p ELSE N - (m + g)
<1>17. n \in 1..p /\ m + g + n <= N /\ (N >= m + g + p => n = p)
       /\ (m + g + n + 1 <= N => n = p)
  BY <1>1, <1>2, <1>13
<1> HIDE DEF n
<1>18. GapAt(line, m + g + 1) = m + g + n + 1
  <2> DEFINE q == m + g + n + 1
  <2>1. m + g + 1 \in 1..(N + 1) /\ q \in (m + g + 1)..(N + 1)
        /\ \A i \in (m + g + 1)..(q - 1) : i \in 1..N /\ m + g < i /\ i <= m + g + p
    BY <1>1, <1>2, <1>13, <1>17
  <2>2. \A i \in (m + g + 1)..(q - 1) : line[i] \notin {SP, CR}
    BY <1>3, <2>1
  <2>3. q <= N => q \in 1..N /\ q = m + g + p + 1
    BY <1>1, <1>2, <1>17
  <2>4. q <= N => line[q] \in {SP, CR}
    BY <1>3, <2>3
  <2> HIDE DEF q
  <2>5. GapAt(line, m + g + 1) = q
    BY <1>5, <2>1, <2>2, <2>4
  <2> QED
    BY <2>5 DEF q
<1>19. second = SubSeq(r.path, 1, n)
  <2>1. m + g \in Nat /\ n \in 0..Len(r.path) /\ (m + g) + n <= N
    BY <1>1, <1>17 DEF p
  <2>2. \A k \in 1..n : (m + g) + k \in 1..N /\ m + g < (m + g) + k
                        /\ (m + g) + k <= m + g + p /\ ((m + g) + k) - (m + g) = k
    BY <1>1, <1>2, <1>17
  <2>3. \A k \in 1..n : line[(m + g) + k] = r.path[k]
    BY <1>3, <2>2
  <2>4. SubSeq(line, (m + g) + 1, (m + g) + n) = SubSeq(r.path, 1, n)
    BY <1>1, <1>2, <2>1, <2>3, PartIs DEF N
  <2>5. (m + g + n + 1) - 1 = (m + g) + n
    BY <1>1, <1>17
  <2> QED
    BY <1>16, <1>18, <2>4, <2>5 DEF second
<1>20. FirstWords(line) = <<r.method, SubSeq(r.path, 1, n)>>
  BY <1>4, <1>15, <1>19
<1> QED
  BY <1>17, <1>20 DEF m, g, p, N

\* trim leaves what is between the first and the last symbol that are no blanks.
IsTrimmed(s, a, b) ==
  /\ a \in 1..b /\ b \in 1..Len(s) /\ s \in Seq(Symbols)
  /\ s[a] # SP /\ s[b] \notin {SP, CR}
  /\ \A i \in 1..Len(s) : i < a => s[i] = SP
  /\ \A i \in 1..Len(s) : i > b => s[i] \in {SP, CR}

LEMMA Trims ==
  ASSUME NEW s, NEW a, NEW b, IsTrimmed(s, a, b)
  PROVE  trim(s) = SubSeq(s, a, b)
<1> DEFINE ends == {0} \cup {i \in DOMAIN s : s[i] \notin {SP, CR}}
           starts == {Max(ends) + 1} \cup {i \in 1..Max(ends) : s[i] # SP}
<1>1. s \in Seq(Symbols) /\ DOMAIN s = 1..Len(s)
  BY LenProperties DEF IsTrimmed
<1>2. Len(s) \in Nat
  BY <1>1, LenProperties
<1>3. a \in 1..b /\ b \in 1..Len(s)
  BY DEF IsTrimmed
<1>4. a \in Nat /\ b \in Nat /\ a <= b /\ a >= 1 /\ b <= Len(s)
  BY <1>2, <1>3
<1>5. b \in ends
  BY <1>1, <1>3 DEF IsTrimmed
<1>6. \A i \in ends : i = 0 \/ (i \in 1..Len(s) /\ s[i] \notin {SP, CR})
  BY <1>1
<1>7. ASSUME NEW i \in ends PROVE i \in Nat /\ b >= i
  <2>1. CASE i = 0
    BY <1>4, <2>1
  <2>2. CASE i \in 1..Len(s) /\ s[i] \notin {SP, CR}
    <3>1. ~(i > b)
      BY <2>2 DEF IsTrimmed
    <3> QED
      BY <1>2, <1>4, <2>2, <3>1
  <2> QED
    BY <1>6, <2>1, <2>2
<1>8. trim(s) = SubSeq(s, Min(starts), Max(ends))
  BY DEF trim
<1> HIDE DEF ends
<1>9. Max(ends) = b
  <2>1. \A x \in ends : (\A y \in ends : x >= y) => x = b
    BY <1>4, <1>5, <1>7
  <2> QED
    BY <1>5, <1>7, <2>1 DEF Max
<1>10. starts = {b + 1} \cup {i \in 1..b : s[i] # SP}
  BY <1>9
<1>11. a \in starts
  BY <1>3, <1>10 DEF IsTrimmed
<1>12. \A i \in starts : i = b + 1 \/ (i \in 1..b /\ s[i] # SP)
  BY <1>10
<1> HIDE DEF starts
<1>13. ASSUME NEW i \in starts PROVE i \in Nat /\ a <= i
  <2>1. CASE i = b + 1
    BY <1>4, <2>1
  <2>2. CASE i \in 1..b /\ s[i] # SP
    <3>1. i \in 1..Len(s)
      BY <1>2, <1>4, <2>2
    <3>2. ~(i < a)
      BY <2>2, <3>1 DEF IsTrimmed
    <3> QED
      BY <1>4, <2>2, <3>2
  <2> QED
    BY <1>12, <2>1, <2>2
<1>14. Min(starts) = a
  <2>1. \A x \in starts : (\A y \in starts : x <= y) => x = a
    BY <1>4, <1>11, <1>13
  <2> QED
    BY <1>11, <1>13, <2>1 DEF Min
<1> QED
  BY <1>8, <1>9, <1>14

\* Of blanks it leaves nothing.
LEMMA TrimsBlank ==
  ASSUME NEW s \in Seq(Symbols), Len(s) = 1, s[1] = SP
  PROVE  trim(s) = << >>
<1> DEFINE ends == {0} \cup {i \in DOMAIN s : s[i] \notin {SP, CR}}
           starts == {Max(ends) + 1} \cup {i \in 1..Max(ends) : s[i] # SP}
<1>1. DOMAIN s = 1..1
  BY LenProperties
<1>2. ends = {0}
  BY <1>1
<1>3. trim(s) = SubSeq(s, Min(starts), Max(ends))
  BY DEF trim
<1> HIDE DEF ends
<1>4. Max(ends) = 0
  BY <1>2 DEF Max
<1>5. starts = {1}
  BY <1>4
<1> HIDE DEF starts
<1>6. Min(starts) = 1
  BY <1>5 DEF Min
<1>7. SubSeq(s, 1, 0) = << >>
  <2>1. 1 \in Int /\ 0 \in Int /\ 0 < 1
    OBVIOUS
  <2> QED
    BY <2>1, SubSeqEmpty
<1> QED
  BY <1>3, <1>4, <1>6, <1>7

\* Nothing is trimmed off a name, and of what follows the colon the blank before
\* the value is.
LEMMA TrimsHeader ==
  ASSUME NEW l, NEW name, NEW value, IsHeader(l, name, value), name \notin {SP, CR},
         value \in Seq(Symbols),
         value # << >> => value[1] # SP /\ value[Len(value)] # SP
  PROVE  /\ trim(SubSeq(l, 1, 1)) = <<name>>
         /\ trim(SubSeq(l, 3, Len(l))) = value
<1>1. /\ l \in Seq(Symbols) /\ Len(l) = 3 + Len(value) /\ Len(value) \in Nat
      /\ l[1] = name /\ l[3] = SP
      /\ \A k \in 1..Len(value) : l[k + 3] = value[k]
      /\ \A k \in 1..Len(l) : l[k] \notin {CR, LF}
  BY DEF IsHeader
<1> DEFINE n == Len(value)  a == SubSeq(l, 1, 1)  b == SubSeq(l, 3, Len(l))
<1>2. a \in Seq(Symbols) /\ Len(a) = 1 /\ a[1] = name
  <2>1. 1 \in 0..Len(l) /\ 1 \in 1..1
    BY <1>1
  <2> QED
    BY <1>1, <2>1, Parts
<1>3. b \in Seq(Symbols) /\ Len(b) = n + 1 /\ \A k \in 1..(n + 1) : b[k] = l[k + 2]
  <2>1. \A i \in 3..Len(l) : l[i] \in Symbols
    <3>1. \A i \in 3..Len(l) : i \in 1..Len(l)
      OBVIOUS
    <3> QED
      BY <1>1, <3>1, ElementOfSeq
  <2>2. Len(l) \in Int /\ 3 <= Len(l) /\ Len(l) - 3 + 1 = n + 1
    BY <1>1
  <2>3. /\ b \in Seq(Symbols) /\ Len(b) = IF 3 <= Len(l) THEN Len(l) - 3 + 1 ELSE 0
        /\ \A k \in 1..(Len(l) - 3 + 1) : b[k] = l[3 + k - 1]
    BY <2>1, <2>2, SubSeqProperties
  <2>4. \A k \in 1..(n + 1) : 3 + k - 1 = k + 2
    OBVIOUS
  <2> HIDE DEF b, n
  <2> QED
    BY <2>2, <2>3, <2>4
<1> HIDE DEF a, b
<1>4. trim(a) = <<name>>
  <2>1. IsTrimmed(a, 1, 1)
    <3>1. 1 \in 1..1 /\ \A i \in 1..1 : ~(i < 1) /\ ~(i > 1)
      OBVIOUS
    <3> QED
      BY <1>2, <3>1, Characters DEF IsTrimmed
  <2>2. SubSeq(a, 1, 1) = a
    BY <1>2, SubSeqFull
  <2>3. a = <<name>>
    BY <1>2, SeqEqual
  <2> QED
    BY <2>1, <2>2, <2>3, Trims
<1>5. CASE n = 0
  <2>1. Len(b) = 1 /\ b[1] = SP
    <3>1. n + 1 = 1 /\ 1 \in 1..(n + 1) /\ 1 + 2 = 3
      BY <1>5
    <3> QED
      BY <1>1, <1>3, <3>1
  <2>2. value = << >>
    BY <1>5, EmptySeq
  <2> QED
    BY <1>3, <1>4, <2>1, <2>2, TrimsBlank DEF a, b
<1>6. CASE n >= 1
  <2>1. n \in Nat
    BY <1>1
  <2>2. value # << >>
    BY <1>6, EmptySeq
  <2>3. value[1] # SP /\ value[n] # SP
    BY <2>2
  <2>4. \A k \in 1..n : l[k + 3] = value[k]
    BY <1>1
  <2>5. Len(l) = 3 + n
    BY <1>1
  <2> HIDE DEF n
  <2>6. /\ 1 \in 1..n /\ n \in 1..n /\ 1 \in 1..(n + 1) /\ 2 \in 1..(n + 1) /\ n + 1 \in 1..(n + 1)
        /\ 2 \in 1..(n + 1) /\ (n + 1) + 2 = n + 3 /\ n + 3 \in 1..Len(l)
    BY <1>6, <2>1, <2>5
  <2>7. ASSUME NEW k \in 1..n PROVE b[k + 1] = value[k]
    <3>1. k + 1 \in 1..(n + 1) /\ (k + 1) + 2 = k + 3
      BY <2>1
    <3> QED
      BY <1>3, <2>4, <3>1
  <2>8. b[n + 1] = l[n + 3] /\ b[n + 1] = value[n] /\ b[1 + 1] = value[1]
    BY <1>3, <2>6, <2>7
  <2>9. b[1] = SP
    <3>1. 1 + 2 = 3
      OBVIOUS
    <3> QED
      BY <1>1, <1>3, <2>6, <3>1
  <2>10. b[2] # SP /\ b[n + 1] \notin {SP, CR}
    <3>1. l[n + 3] # CR
      BY <1>1, <2>6
    <3>2. 1 + 1 = 2
      OBVIOUS
    <3> QED
      BY <2>3, <2>8, <3>1, <3>2
  <2>11. IsTrimmed(b, 2, n + 1)
    <3>1. \A i \in 1..(n + 1) : i < 2 => i = 1
      BY <2>1
    <3>2. \A i \in 1..(n + 1) : ~(i > n + 1)
      BY <2>1
    <3> QED
      BY <1>3, <2>6, <2>9, <2>10, <3>1, <3>2 DEF IsTrimmed
  <2>12. trim(b) = SubSeq(b, 2, n + 1)
    BY <2>11, Trims
  <2>13. /\ SubSeq(b, 2, n + 1) \in Seq(Symbols) /\ Len(SubSeq(b, 2, n + 1)) = n
         /\ \A k \in 1..n : SubSeq(b, 2, n + 1)[k] = b[k + 1]
    <3>1. \A i \in 2..(n + 1) : b[i] \in Symbols
      <4>1. \A i \in 2..(n + 1) : i \in 1..(n + 1)
        BY <2>1
      <4> QED
        BY <1>3, <4>1, ElementOfSeq
    <3>2. 2 \in Int /\ n + 1 \in Int
      BY <2>1
    <3>3. /\ SubSeq(b, 2, n + 1) \in Seq(Symbols)
          /\ Len(SubSeq(b, 2, n + 1)) = IF 2 <= n + 1 THEN (n + 1) - 2 + 1 ELSE 0
          /\ \A k \in 1..((n + 1) - 2 + 1) : SubSeq(b, 2, n + 1)[k] = b[2 + k - 1]
      BY <3>1, <3>2, SubSeqProperties
    <3>4. (n + 1) - 2 + 1 = n /\ 2 <= n + 1 /\ \A k \in 1..n : 2 + k - 1 = k + 1
      BY <1>6, <2>1
    <3> QED
      BY <3>3, <3>4
  <2>14. SubSeq(b, 2, n + 1) = value
    <3>1. \A k \in 1..n : SubSeq(b, 2, n + 1)[k] = value[k]
      BY <2>7, <2>13
    <3> QED
      BY <2>13, <3>1, SeqEqual DEF n
  <2> QED
    BY <1>4, <2>12, <2>14 DEF a, b
<1> QED
  <2>1. n = 0 \/ n >= 1
    BY <1>1
  <2> QED
    BY <1>5, <1>6, <2>1

\* So a header line sets the length if that is its name, and else keeps it.
LEMMA LengthAfterHeader ==
  ASSUME NEW l, NEW name, NEW value, IsHeader(l, name, value), name \notin {":", SP, CR},
         value \in Seq(Symbols),
         value # << >> => value[1] # SP /\ value[Len(value)] # SP
  PROVE  LengthAfter(l) =
           IF iequal(<<name>>, <<"content-length">>) THEN Stoi(value) ELSE length
<1> DEFINE colons == {i \in DOMAIN l : l[i] = ":"}
<1>1. l \in Seq(Symbols) /\ l[1] = name /\ l[2] = ":" /\ Len(l) = 3 + Len(value) /\ Len(value) \in Nat
  BY DEF IsHeader
<1>2. DOMAIN l = 1..Len(l)
  BY <1>1, LenProperties
<1>3. 2 \in colons
  BY <1>1, <1>2
<1>4. \A i \in colons : i \in 1..Len(l) /\ i # 1
  BY <1>1, <1>2
<1> HIDE DEF colons
<1>5. \A i \in colons : i \in Int /\ 2 <= i
  BY <1>4
<1>6. Min(colons) = 2
  <2>1. \A x \in colons : (\A y \in colons : x <= y) => x = 2
    BY <1>3, <1>5
  <2> QED
    BY <1>3, <1>5, <2>1 DEF Min
<1>7. trim(SubSeq(l, 1, 1)) = <<name>> /\ trim(SubSeq(l, 3, Len(l))) = value
  BY TrimsHeader
<1>8. Min(colons) - 1 = 1 /\ Min(colons) + 1 = 3
  BY <1>6
<1>9. LengthAfter(l) =
        IF colons # {} /\ iequal(trim(SubSeq(l, 1, Min(colons) - 1)), <<"content-length">>)
        THEN Stoi(trim(SubSeq(l, Min(colons) + 1, Len(l)))) ELSE length
  BY DEF LengthAfter, colons
<1> QED
  BY <1>3, <1>7, <1>8, <1>9

\* What is announced after a header is what it says, or what was before.
LEMMA AnnouncedNext ==
  ASSUME NEW r, NEW k \in Nat
  PROVE  /\ Announced(r, 0) = 0
         /\ k >= 1 => Announced(r, k) =
              IF iequal(<<r.headers[k].name>>, <<"content-length">>)
              THEN Stoi(r.headers[k].value) ELSE Announced(r, k - 1)
<1> DEFINE says(i) == iequal(<<r.headers[i].name>>, <<"content-length">>)
           at(j) == {i \in 1..j : says(i)}
<1>1. \A j : Announced(r, j) = IF at(j) = {} THEN 0 ELSE Stoi(r.headers[Max(at(j))].value)
  BY DEF Announced
<1> HIDE DEF says
<1>2. at(0) = {}
  OBVIOUS
<1>3. ASSUME k >= 1, says(k)
      PROVE  Announced(r, k) = Stoi(r.headers[k].value)
  <2>1. k \in at(k) /\ \A i \in at(k) : k >= i /\ i \in Int
    BY <1>3
  <2> HIDE DEF at
  <2>2. \A x \in at(k) : (\A y \in at(k) : x >= y) => x = k
    BY <2>1
  <2>3. Max(at(k)) = k
    BY <2>1, <2>2 DEF Max
  <2> QED
    BY <1>1, <2>1, <2>3
<1>4. ASSUME k >= 1, ~says(k)
      PROVE  Announced(r, k) = Announced(r, k - 1)
  <2>1. \A i : i \in 1..k <=> i \in 1..(k - 1) \/ i = k
    BY <1>4
  <2>2. at(k) = at(k - 1)
    BY <1>4, <2>1
  <2> HIDE DEF at
  <2> QED
    BY <1>1, <2>2
<1> HIDE DEF at
<1> QED
  BY <1>1, <1>2, <1>3, <1>4 DEF says

LEMMA StoiRange ==
  ASSUME NEW value
  PROVE  Stoi(value) \in -1..3
<1>1. \A n \in {"-1", "1", "2", "3"} : Numeral[n] \in {-1, 1, 2, 3}
  BY DEF Numeral
<1>2. DOMAIN Numeral = {"-1", "1", "2", "3"}
  BY DEF Numeral
<1>3. Stoi(value) \in {-1, 0, 1, 2, 3}
  BY <1>1, <1>2 DEF Stoi
<1> QED
  BY <1>3

LEMMA AnnouncedRange ==
  ASSUME NEW r, NEW k
  PROVE  Announced(r, k) \in -1..3
BY StoiRange DEF Announced

LEMMA LengthRange ==
  ASSUME NEW line, length \in -1..3
  PROVE  LengthAfter(line) \in -1..3
BY StoiRange DEF LengthAfter

-----------------------------------------------------------------------------
(* What is read is what was sent *)

Ahead == arrived \o unsent

\* The next line is the k-th header, or the empty line after the last, and the
\* headers before it have been taken in.
BetweenHeaders ==
  \E k \in 1..(Len(request.headers) + 1) :
    Ahead = TextFrom(request, k) /\ length = Announced(request, k - 1)

\* What is read of the body and what is to be read make up the body.
BodyAhead == length = Len(request.body) /\ body \o Ahead = request.body

\* The connection was cut within the headers.
Lost ==
  /\ body = << >> /\ arrived = << >>
  /\ client # "there" /\ (client = "ended" => unsent # << >>)

Routed == {"route", "collect", "reply", "stream", "finish", "terminate"}

InputTypes ==
  /\ request \in Requests
  /\ client \in {"there", "ended", "gone"}
  /\ pc \in {"none", "head", "headers", "body", "closed"} \cup Routed
  /\ unsent \in Seq(Symbols) /\ arrived \in Seq(Symbols) /\ body \in Seq(Symbols)
  /\ Len(target) \in {0, 2}
  /\ length \in -1..3
  /\ body = << >> \/ Len(body) <= length
  /\ pc \in {"none", "head", "headers"} => body = << >>
  /\ pc = "body" => Len(body) < length

\* At every place in the handler, what is left to read is the rest of the text.
Reads ==
  /\ pc \in {"none", "head"} => Ahead = Text(request) /\ length = 0
  /\ pc \in {"headers", "body"} \cup Routed => IsTargetOf(target, request)
  /\ pc = "headers" /\ WellFramed(request) => BetweenHeaders
  /\ pc = "body" /\ WellFramed(request) => BodyAhead \/ Lost
  /\ pc \in Routed /\ WellFramed(request) => body = request.body \/ Lost

\* The text begins with the request line.
LEMMA TextParts ==
  ASSUME NEW r \in Requests
  PROVE  /\ TextFrom(r, 1) \in Seq(Symbols) /\ Text(r) \in Seq(Symbols)
         /\ Text(r) = (Spaced(r) \o r.eol) \o TextFrom(r, 1)
<1>1. Spaced(r) \in Seq(Symbols) /\ r.eol \in Seq(Symbols) /\ LineText(r) = Spaced(r) \o r.eol
  BY SpacedLine, RequestParts
<1>2. TextFrom(r, 1) \in Seq(Symbols)
  <2>1. Len(r.headers) \in Nat
    BY RequestParts
  <2>2. 1 \in 1..(Len(r.headers) + 1)
    BY <2>1
  <2> QED
    BY <2>2, TextOfHeaders
<1>3. Text(r) = (Spaced(r) \o r.eol) \o TextFrom(r, 1)
  BY <1>1 DEF Text
<1> QED
  BY <1>1, <1>2, <1>3, ConcatProperties

\* A well-framed request has lines the reader has room for, and the body it
\* announces.
LEMMA Framed ==
  ASSUME NEW r \in Requests, WellFramed(r)
  PROVE  /\ Len(Spaced(r)) + Len(r.eol) <= MaxLine /\ Len(r.eol) <= MaxLine
         /\ \A i \in 1..Len(r.headers) : Len(HeaderLine(r, r.headers[i])) <= MaxLine
         /\ Len(r.body) = Announced(r, Len(r.headers))
<1>1. Spaced(r) \in Seq(Symbols) /\ r.eol \in Seq(Symbols) /\ LineText(r) = Spaced(r) \o r.eol
  BY SpacedLine, RequestParts
<1>2. Len(LineText(r)) = Len(Spaced(r)) + Len(r.eol) /\ Len(Spaced(r)) \in Nat /\ Len(r.eol) \in Nat
  BY <1>1, ConcatProperties, LenProperties
<1>3. Len(LineText(r)) <= MaxLine
  BY DEF WellFramed, Fits
<1>4. DOMAIN r.headers = 1..Len(r.headers)
  <2>1. r.headers \in Seq([name : Symbols, value : Seq(Symbols)])
    BY RequestsAssumption DEF RequestsAssumption
  <2> QED
    BY <2>1, LenProperties
<1>5. \A i \in 1..Len(r.headers) : Len(HeaderLine(r, r.headers[i])) <= MaxLine
  BY <1>4 DEF WellFramed, Fits
<1>6. Len(r.body) = Announced(r, Len(r.headers))
  BY DEF WellFramed
<1>7. Len(r.eol) <= MaxLine
  BY <1>2, <1>3
<1> QED
  BY <1>2, <1>3, <1>5, <1>6, <1>7

LEMMA InitReads == Init => InputTypes /\ Reads
<1> SUFFICES ASSUME Init PROVE InputTypes /\ Reads
  OBVIOUS
<1>1. /\ request \in Requests /\ unsent = Text(request) /\ client = "there" /\ pc = "none"
      /\ arrived = << >> /\ target = << >> /\ body = << >>
  BY DEF Init
<1>2. length = 0
  BY DEF Init
<1>3. Text(request) \in Seq(Symbols)
  BY <1>1, TextParts
<1>4. arrived \in Seq(Symbols) /\ body \in Seq(Symbols) /\ Len(target) = 0 /\ unsent \in Seq(Symbols)
  BY <1>1, <1>3, EmptySeq
<1>5. arrived \o unsent = Text(request)
  BY <1>1, <1>3, ConcatEmptySeq
<1>6. length \in -1..3 /\ Len(target) \in {0, 2}
  BY <1>2, <1>4
<1> QED
  BY <1>1, <1>2, <1>4, <1>5, <1>6 DEF InputTypes, Reads, Ahead, Routed

\* Steps that read nothing and send nothing: the client may end or leave, and
\* the handler goes from none to head, within what follows the reading, or ends.
LEMMA KeepsReads ==
  ASSUME InputTypes, Reads, UNCHANGED <<request, unsent, input>>,
         client' = client \/ (client # "gone" /\ client' = "gone")
           \/ (client = "there" /\ client' = "ended"),
         pc' = pc \/ pc' = "closed" \/ (pc = "none" /\ pc' = "head") \/ {pc, pc'} \subseteq Routed
  PROVE  InputTypes' /\ Reads'
<1>1. Ahead' = Ahead
  BY DEF Ahead
<1>2. InputTypes'
  BY DEF InputTypes, Routed
<1>3. BetweenHeaders' <=> BetweenHeaders
  BY <1>1 DEF BetweenHeaders
<1>4. BodyAhead' <=> BodyAhead
  BY <1>1 DEF BodyAhead
<1>5. Lost => Lost'
  BY DEF Lost
<1>6. Reads'
  BY <1>1, <1>3, <1>4, <1>5 DEF Reads, Routed
<1> QED
  BY <1>2, <1>6

LEMMA SendsReads ==
  ASSUME InputTypes, Reads, ClientSends
  PROVE  InputTypes' /\ Reads'
<1>1. PICK n \in DOMAIN unsent :
        /\ arrived' = arrived \o SubSeq(unsent, 1, n)
        /\ unsent' = SubSeq(unsent, n + 1, Len(unsent))
  BY DEF ClientSends
<1>2. arrived \in Seq(Symbols) /\ unsent \in Seq(Symbols)
  BY DEF InputTypes
<1>3. n \in 0..Len(unsent)
  BY <1>2, LenProperties
<1> DEFINE a == SubSeq(unsent, 1, n)  b == SubSeq(unsent, n + 1, Len(unsent))
<1>4. a \in Seq(Symbols) /\ b \in Seq(Symbols) /\ a \o b = unsent
  BY <1>2, <1>3, Parts
<1>5. arrived' = arrived \o a /\ unsent' = b
  BY <1>1
<1> HIDE DEF a, b
<1>6. (arrived \o a) \o b = arrived \o (a \o b)
  <2>1. \A x, y, z \in Seq(Symbols) : (x \o y) \o z = x \o (y \o z)
    BY SMTT(30), ConcatAssociative
  <2> QED
    BY ZenonT(30), <1>2, <1>4, <2>1
<1>7. Ahead' = Ahead /\ arrived' \in Seq(Symbols) /\ unsent' \in Seq(Symbols)
  BY <1>2, <1>4, <1>5, <1>6, ConcatProperties DEF Ahead
<1>8. client = "there" /\ UNCHANGED <<request, client, pc, target, length, body>>
  BY DEF ClientSends
<1>9. InputTypes'
  BY <1>7, <1>8 DEF InputTypes
<1>10. (BetweenHeaders' <=> BetweenHeaders) /\ (BodyAhead' <=> BodyAhead)
  BY <1>7, <1>8 DEF BetweenHeaders, BodyAhead
<1>11. ~Lost
  BY <1>8 DEF Lost
<1>12. Reads'
  BY <1>7, <1>8, <1>10, <1>11 DEF Reads
<1> QED
  BY <1>9, <1>12

LEMMA RequestLineReads ==
  ASSUME InputTypes, Reads, RequestLine
  PROVE  InputTypes' /\ Reads'
<1> DEFINE l == Spaced(request)  e == request.eol  t == TextFrom(request, 1)
<1>1. PICK r \in read_line : /\ target' = FirstWords(r.line) /\ target'[2] # << >>
                              /\ arrived' = r.rest
  BY DEF RequestLine
<1>2. /\ pc = "head" /\ pc' = "headers" /\ UNCHANGED <<theClient, length, body>>
  BY DEF RequestLine
<1>3. /\ request \in Requests /\ arrived \in Seq(Symbols) /\ unsent \in Seq(Symbols)
      /\ body = << >> /\ length = 0 /\ Ahead = Text(request)
  BY <1>2 DEF InputTypes, Reads
<1>4. /\ l \in Seq(Symbols) /\ \A k \in 1..Len(l) : l[k] \notin {CR, LF}
      /\ e \in {<<LF>>, <<CR, LF>>} /\ t \in Seq(Symbols)
  BY <1>3, SpacedLine, RequestParts, TextParts
<1>5. LineAhead(l, e, t)
  <2>1. arrived \o unsent = (l \o e) \o t
    BY <1>3, TextParts DEF Ahead
  <2> QED
    BY <1>3, <1>4, <2>1 DEF LineAhead
<1> HIDE DEF e, t
<1>6. IsTargetOf(target', request) /\ Len(target') = 2
  <2>1. FrontOfLine(r.line, request)
    BY <1>5, ReadAny DEF FrontOfLine, l
  <2>2. PICK n \in 1..Len(request.path) :
          /\ target' = <<request.method, SubSeq(request.path, 1, n)>>
          /\ Len(r.line) >= Len(request.method) + Len(request.gap) + Len(request.path) =>
               n = Len(request.path)
    BY <1>1, <1>3, <2>1, FirstWordsRead
  <2>3. l # << >> => l[Len(l)] # CR
    <3>1. l # << >> => Len(l) \in 1..Len(l)
      BY <1>4, EmptySeq
    <3> QED
      BY <1>4, <3>1
  <2>4. Len(r.line) \in {Len(l), MaxLine}
    BY <1>5, <2>3, ReadLength
  <2>5. Len(l) >= Len(request.method) + Len(request.gap) + Len(request.path)
    <3> DEFINE m == Len(request.method)  g == Len(request.gap)
               p == Len(request.path)  u == Len(request.tail)  d == Len(l)
    <3>1. m \in Nat /\ g \in Nat /\ p \in Nat /\ u \in Nat
      BY <1>3, LineParts
    <3>2. d = (m + g) + (p + u)
      BY <1>3, SpacedLine DEF l
    <3>3. d >= m + g + p
      <4> HIDE DEF m, g, p, u, d
      <4> QED
        BY <3>1, <3>2
    <3> QED
      BY <3>3
  <2>6. TargetFits(request) => n = Len(request.path)
    BY <2>2, <2>4, <2>5 DEF TargetFits
  <2> QED
    BY <2>2, <2>6 DEF IsTargetOf
<1> HIDE DEF l
<1>7. r.rest \in Seq(Symbols)
  BY <1>3, ReadTyped
<1>8. InputTypes'
  <2>1. Len(target') \in {0, 2} /\ length' \in -1..3
    BY <1>2, <1>3, <1>6
  <2> QED
    BY <1>1, <1>2, <1>3, <1>7, <2>1 DEF InputTypes
<1>9. ASSUME WellFramed(request) PROVE BetweenHeaders'
  <2>1. Len(l) + Len(e) <= MaxLine
    BY <1>3, <1>9, Framed DEF l, e
  <2>2. l # << >> => l[Len(l)] # CR
    <3>1. l # << >> => Len(l) \in 1..Len(l)
      BY <1>4, EmptySeq
    <3> QED
      BY <1>4, <3>1
  <2>3. r.rest \o unsent = t
    BY <1>5, <2>1, <2>2, ReadWhole
  <2>4. Ahead' = TextFrom(request', 1) /\ length' = Announced(request', 1 - 1)
    <3>1. Announced(request, 1 - 1) = 0
      <4>1. 1 - 1 = 0 /\ 0 \in Nat
        OBVIOUS
      <4> QED
        BY <4>1, AnnouncedNext
    <3> QED
      BY <1>1, <1>2, <1>3, <2>3, <3>1 DEF Ahead, t
  <2>5. 1 \in 1..(Len(request'.headers) + 1)
    <3>1. Len(request.headers) \in Nat
      BY <1>3, RequestParts
    <3> QED
      BY <1>2, <3>1
  <2> QED
    BY <2>4, <2>5 DEF BetweenHeaders
<1>10. WellFramed(request') => BetweenHeaders'
  BY <1>2, <1>9
<1>11. Reads'
  BY <1>2, <1>6, <1>10 DEF Reads, Routed
<1> QED
  BY <1>8, <1>11

\* The next line is the k-th header: it is taken in, and the next line is the one
\* after it.
LEMMA HeaderRead ==
  ASSUME InputTypes, WellFramed(request), NEW k \in 1..Len(request.headers),
         Ahead = TextFrom(request, k), length = Announced(request, k - 1), NEW r \in read_line
  PROVE  /\ r.line # << >> /\ r.rest \o unsent = TextFrom(request, k + 1)
         /\ LengthAfter(r.line) = Announced(request, (k + 1) - 1)
<1> DEFINE h == request.headers[k]  e == request.eol  t == TextFrom(request, k + 1)
<1>1. request \in Requests /\ arrived \in Seq(Symbols) /\ unsent \in Seq(Symbols)
  BY DEF InputTypes
<1>2. /\ h.name \notin {":", SP, CR, LF} /\ h.value \in Seq(Symbols)
      /\ h.value # << >> => h.value[1] # SP /\ h.value[Len(h.value)] # SP
      /\ e \in {<<LF>>, <<CR, LF>>} /\ e \in Seq(Symbols)
  BY <1>1, RequestParts
<1>3. Len(request.headers) \in Nat
  BY <1>1, RequestParts
<1>4. t \in Seq(Symbols) /\ TextFrom(request, k) = HeaderLine(request, h) \o t
  <2>1. k + 1 \in 1..(Len(request.headers) + 1)
    BY <1>3
  <2> QED
    BY <1>1, <2>1, TextOfHeaders
<1>5. Len(HeaderLine(request, h)) <= MaxLine
  BY <1>1, Framed
<1>6. PICK l \in Seq(Symbols) : IsHeader(l, h.name, h.value) /\ HeaderLine(request, h) = l \o e
  BY <1>1, HeaderLines
<1> HIDE DEF h, e, t
<1>7. /\ Len(l) \in Nat /\ Len(l) >= 1 /\ \A i \in 1..Len(l) : l[i] \notin {CR, LF}
  BY <1>6 DEF IsHeader
<1>8. Len(l) + Len(e) <= MaxLine
  BY <1>2, <1>5, <1>6, ConcatProperties
<1>9. LineAhead(l, e, t)
  <2>1. arrived \o unsent = (l \o e) \o t
    BY <1>4, <1>6 DEF Ahead
  <2> QED
    BY <1>1, <1>2, <1>4, <1>7, <2>1 DEF LineAhead
<1>10. l # << >> /\ l[Len(l)] # CR
  <2>1. Len(l) \in 1..Len(l)
    BY <1>7
  <2>2. l # << >>
    BY <1>7, EmptySeq
  <2> QED
    BY <1>7, <2>1, <2>2
<1>11. r.line = l /\ r.rest \o unsent = t
  BY <1>8, <1>9, <1>10, ReadWhole
<1>12. LengthAfter(l) = IF iequal(<<h.name>>, <<"content-length">>) THEN Stoi(h.value) ELSE length
  BY <1>2, <1>6, LengthAfterHeader
<1>13. k \in Nat /\ k >= 1 /\ (k + 1) - 1 = k
  BY <1>3
<1>14. LengthAfter(l) = Announced(request, k)
  BY <1>12, <1>13, AnnouncedNext DEF h
<1> QED
  BY <1>10, <1>11, <1>13, <1>14 DEF t

\* After the last header there is the empty line, and then the body.
LEMMA EmptyLineAhead ==
  ASSUME InputTypes, Ahead = TextFrom(request, Len(request.headers) + 1)
  PROVE  LineAhead(<< >>, request.eol, request.body) /\ Len(<< >>) = 0
<1> DEFINE e == request.eol
<1>1. request \in Requests /\ arrived \in Seq(Symbols) /\ unsent \in Seq(Symbols)
  BY DEF InputTypes
<1>2. e \in {<<LF>>, <<CR, LF>>} /\ e \in Seq(Symbols) /\ request.body \in Seq(Symbols)
  BY <1>1, RequestParts
<1>3. Ahead = e \o request.body
  BY <1>1, TextOfHeaders
<1> HIDE DEF e
<1>4. << >> \in Seq(Symbols) /\ Len(<< >>) = 0
  BY EmptySeq
<1>5. << >> \o e = e
  BY <1>2, ConcatEmptySeq
<1>6. 1..Len(<< >>) = {}
  BY <1>4
<1>7. arrived \o unsent = (<< >> \o e) \o request.body
  BY <1>3, <1>5 DEF Ahead
<1>8. LineAhead(<< >>, e, request.body)
  BY <1>1, <1>2, <1>4, <1>6, <1>7 DEF LineAhead
<1> QED
  BY <1>4, <1>8 DEF e

LEMMA HeaderReads ==
  ASSUME InputTypes, Reads, Header
  PROVE  InputTypes' /\ Reads'
<1> DEFINE N == Len(request.headers)
<1>1. PICK r \in read_line :
        /\ arrived' = r.rest
        /\ length' = IF r.line = << >> THEN length ELSE LengthAfter(r.line)
        /\ IF r.line = << >> THEN HeadersEnd(length) ELSE UNCHANGED pc
  BY DEF Header
<1>2. pc = "headers" /\ UNCHANGED <<theClient, target, body>>
  BY DEF Header
<1>3. /\ request \in Requests /\ arrived \in Seq(Symbols) /\ unsent \in Seq(Symbols)
      /\ body = << >> /\ length \in -1..3 /\ IsTargetOf(target, request)
  BY <1>2 DEF InputTypes, Reads
<1>4. r.rest \in Seq(Symbols) /\ length' \in -1..3
  <2>1. r.rest \in Seq(Symbols)
    BY <1>3, ReadTyped
  <2>2. LengthAfter(r.line) \in -1..3
    BY <1>3, LengthRange
  <2> QED
    BY <1>1, <1>3, <2>1, <2>2
<1>5. \/ r.line # << >> /\ pc' = "headers"
      \/ r.line = << >> /\ length' = length /\ length > 0 /\ pc' = "body"
      \/ r.line = << >> /\ length' = length /\ ~(length > 0) /\ pc' = "route"
  BY <1>1, <1>2 DEF HeadersEnd
<1>6. InputTypes'
  <2>1. Len(body) = 0
    BY <1>3, EmptySeq
  <2>2. pc' = "body" => Len(body') < length'
    BY <1>2, <1>5, <2>1
  <2> QED
    BY <1>1, <1>2, <1>3, <1>4, <1>5, <2>2 DEF InputTypes, Routed
<1>7. ASSUME WellFramed(request)
      PROVE  \/ pc' = "headers" /\ BetweenHeaders'
             \/ pc' = "body" /\ BodyAhead'
             \/ pc' = "route" /\ body' = request'.body
  <2>1. PICK k \in 1..(N + 1) : Ahead = TextFrom(request, k) /\ length = Announced(request, k - 1)
    BY <1>2, <1>7 DEF Reads, BetweenHeaders
  <2>2. N \in Nat
    BY <1>3, RequestParts
  <2> HIDE DEF N
  <2>3. CASE k \in 1..N
    <3>1. /\ r.line # << >> /\ r.rest \o unsent = TextFrom(request, k + 1)
          /\ LengthAfter(r.line) = Announced(request, (k + 1) - 1)
      BY <1>7, <2>1, <2>3, HeaderRead DEF N
    <3>2. Ahead' = TextFrom(request', k + 1) /\ length' = Announced(request', (k + 1) - 1)
      BY <1>1, <1>2, <3>1 DEF Ahead
    <3>3. k + 1 \in 1..(N + 1)
      BY <2>2, <2>3
    <3>4. k + 1 \in 1..(Len(request'.headers) + 1)
      BY <1>2, <3>3 DEF N
    <3> QED
      BY <1>5, <3>1, <3>2, <3>4 DEF BetweenHeaders
  <2>4. CASE k = N + 1
    <3>1. LineAhead(<< >>, request.eol, request.body) /\ Len(<< >>) = 0
      BY <2>1, <2>4, EmptyLineAhead DEF N
    <3>2. Len(request.eol) <= MaxLine /\ Len(request.body) = Announced(request, N)
      BY <1>3, <1>7, Framed DEF N
    <3>3. Len(<< >>) + Len(request.eol) <= MaxLine
      <4>1. Len(request.eol) \in Nat
        BY <1>3, RequestParts, LenProperties
      <4> QED
        BY <3>1, <3>2, <4>1
    <3>4. r.line = << >> /\ r.rest \o unsent = request.body
      BY <3>1, <3>3, ReadWhole
    <3>5. length = Len(request.body)
      <4>1. k - 1 = N
        BY <2>2, <2>4
      <4> QED
        BY <2>1, <3>2, <4>1
    <3>6. request.body \in Seq(Symbols) /\ Len(request.body) \in Nat
      BY <1>3, RequestParts, LenProperties
    <3>7. CASE length > 0
      <4>1. Ahead' = request.body
        BY <1>1, <1>2, <3>4 DEF Ahead
      <4>2. body' \o Ahead' = request'.body
        BY <1>2, <1>3, <3>6, <4>1, ConcatEmptySeq
      <4>3. length' = Len(request'.body)
        BY <1>2, <1>5, <3>4, <3>5
      <4> QED
        BY <1>5, <3>4, <3>7, <4>2, <4>3 DEF BodyAhead
    <3>8. CASE ~(length > 0)
      <4>1. Len(request.body) = 0
        BY <3>5, <3>6, <3>8
      <4>2. request.body = << >>
        BY <3>6, <4>1, EmptySeq
      <4> QED
        BY <1>2, <1>3, <1>5, <3>4, <3>8, <4>2
    <3> QED
      BY <3>7, <3>8
  <2>5. k \in 1..N \/ k = N + 1
    BY <2>2
  <2> QED
    BY <2>3, <2>4, <2>5
<1>8. WellFramed(request') => WellFramed(request)
  BY <1>2
<1>9. IsTargetOf(target', request')
  <2>1. IsTargetOf(target, request) /\ target' = target /\ request' = request
    BY <1>2, <1>3
  <2> QED
    BY <2>1
<1>10. pc' \in {"headers", "body", "route"}
  BY <1>5
<1>11. Reads'
  BY <1>7, <1>8, <1>9, <1>10 DEF Reads, Routed
<1> QED
  BY <1>6, <1>11

\* If the client has sent all of it and the reader has room for its lines, there
\* is a line to read.
LEMMA HeadersNotCut ==
  ASSUME InputTypes, Reads, pc = "headers", WellFramed(request), unsent = << >>
  PROVE  read_line # {}
<1> DEFINE N == Len(request.headers)
<1>1. request \in Requests /\ arrived \in Seq(Symbols) /\ unsent \in Seq(Symbols)
  BY DEF InputTypes
<1>2. PICK k \in 1..(N + 1) : Ahead = TextFrom(request, k) /\ length = Announced(request, k - 1)
  BY DEF Reads, BetweenHeaders
<1>3. N \in Nat
  BY <1>1, RequestParts
<1> HIDE DEF N
<1>4. CASE k \in 1..N
  <2> DEFINE h == request.headers[k]  e == request.eol  t == TextFrom(request, k + 1)
  <2>1. e \in {<<LF>>, <<CR, LF>>} /\ e \in Seq(Symbols)
    BY <1>1, RequestParts
  <2>2. t \in Seq(Symbols) /\ TextFrom(request, k) = HeaderLine(request, h) \o t
    <3>1. k + 1 \in 1..(N + 1)
      BY <1>3, <1>4
    <3> QED
      BY <1>1, <1>4, <3>1, TextOfHeaders DEF N
  <2>3. Len(HeaderLine(request, h)) <= MaxLine
    BY <1>1, <1>4, Framed DEF N
  <2>4. PICK l \in Seq(Symbols) : IsHeader(l, h.name, h.value) /\ HeaderLine(request, h) = l \o e
    BY <1>1, <1>4, HeaderLines DEF N
  <2> HIDE DEF h, e, t
  <2>5. Len(l) + Len(e) <= MaxLine
    BY <2>1, <2>3, <2>4, ConcatProperties
  <2>6. \A i \in 1..Len(l) : l[i] \notin {CR, LF}
    BY <2>4 DEF IsHeader
  <2>7. arrived \o unsent = (l \o e) \o t
    BY <1>2, <2>2, <2>4 DEF Ahead
  <2>8. LineAhead(l, e, t)
    BY <1>1, <2>1, <2>2, <2>6, <2>7 DEF LineAhead
  <2> QED
    BY <2>5, <2>8, Ready
<1>5. CASE k = N + 1
  <2>1. LineAhead(<< >>, request.eol, request.body) /\ Len(<< >>) = 0
    BY <1>2, <1>5, EmptyLineAhead DEF N
  <2>2. Len(request.eol) <= MaxLine /\ Len(request.eol) \in Nat
    BY <1>1, Framed, RequestParts, LenProperties
  <2>3. Len(<< >>) + Len(request.eol) <= MaxLine
    BY <2>1, <2>2
  <2> QED
    BY <2>1, <2>3, Ready
<1>6. k \in 1..N \/ k = N + 1
  BY <1>3
<1> QED
  BY <1>4, <1>5, <1>6

LEMMA HeadersCutReads ==
  ASSUME InputTypes, Reads, HeadersCut
  PROVE  InputTypes' /\ Reads'
<1>1. /\ pc = "headers" /\ ReadEnds(read_line # {}) /\ HeadersEnd(length)
      /\ arrived' = << >> /\ UNCHANGED <<theClient, target, length, body>>
  BY DEF HeadersCut
<1>2. /\ body = << >> /\ length \in -1..3 /\ IsTargetOf(target, request)
  BY <1>1 DEF InputTypes, Reads
<1>3. Len(body) = 0 /\ arrived' \in Seq(Symbols)
  BY <1>1, <1>2, EmptySeq
<1>4. \/ length > 0 /\ pc' = "body"
      \/ pc' = "route"
  BY <1>1 DEF HeadersEnd
<1>5. InputTypes'
  <2>1. pc' = "body" => Len(body') < length'
    BY <1>1, <1>3, <1>4
  <2> QED
    BY <1>1, <1>2, <1>3, <1>4, <2>1 DEF InputTypes, Routed
<1>6. ASSUME WellFramed(request) PROVE Lost'
  <2>1. client # "there" /\ (client = "ended" => read_line = {})
    BY <1>1 DEF ReadEnds
  <2>2. client = "ended" => unsent # << >>
    BY <1>1, <1>6, <2>1, HeadersNotCut
  <2> QED
    BY <1>1, <1>2, <2>1, <2>2 DEF Lost
<1>7. WellFramed(request') => Lost'
  BY <1>1, <1>6
<1>8. IsTargetOf(target', request') /\ pc' \in {"body", "route"}
  <2>1. IsTargetOf(target, request) /\ target' = target /\ request' = request
    BY <1>1, <1>2
  <2> QED
    BY <1>4, <2>1
<1>9. Reads'
  BY <1>7, <1>8 DEF Reads, Routed
<1> QED
  BY <1>5, <1>9

LEMMA ReadBodyReads ==
  ASSUME InputTypes, Reads, ReadBody
  PROVE  InputTypes' /\ Reads'
<1>1. PICK n \in 1..Min({length - Len(body), Len(arrived)}) :
        body' = body \o SubSeq(arrived, 1, n) /\ arrived' = After(n)
  BY DEF ReadBody
<1>2. /\ pc = "body" /\ UNCHANGED <<theClient, target, length>>
      /\ pc' = IF Len(body') = length THEN "route" ELSE "body"
  BY DEF ReadBody
<1>3. /\ request \in Requests /\ arrived \in Seq(Symbols) /\ unsent \in Seq(Symbols)
      /\ body \in Seq(Symbols) /\ length \in -1..3 /\ IsTargetOf(target, request)
      /\ Len(body) < length
  BY <1>2 DEF InputTypes, Reads
<1>4. Len(arrived) \in Nat /\ Len(body) \in Nat /\ length \in Int
  BY <1>3, LenProperties
<1>5. n \in 1..Len(arrived) /\ n \in 0..Len(arrived) /\ n <= length - Len(body)
  BY <1>4, MinOfTwo
<1> DEFINE a == SubSeq(arrived, 1, n)
<1>6. /\ a \in Seq(Symbols) /\ Len(a) = n /\ After(n) \in Seq(Symbols)
      /\ a \o After(n) = arrived
  BY <1>3, <1>5, Parts DEF After
<1>7. body' = body \o a
  BY <1>1
<1> HIDE DEF a
<1>8. body' \in Seq(Symbols) /\ Len(body') = Len(body) + n
  BY <1>3, <1>6, <1>7, ConcatProperties
<1>9. Len(body') <= length /\ (Len(body') # length => Len(body') < length)
  BY <1>4, <1>5, <1>8
<1>10. InputTypes'
  BY <1>1, <1>2, <1>3, <1>6, <1>8, <1>9 DEF InputTypes, Routed
<1>11. body' \o Ahead' = body \o Ahead
  <2>1. \A x, y, z \in Seq(Symbols) : (x \o y) \o z = x \o (y \o z)
    BY SMTT(30), ConcatAssociative
  <2> DEFINE b == After(n)  c == b \o unsent
  <2>2. b \in Seq(Symbols) /\ a \o b = arrived /\ c \in Seq(Symbols)
    BY <1>3, <1>6, ConcatProperties
  <2>3. Ahead' = c /\ c = b \o unsent
    BY <1>1, <1>2 DEF Ahead
  <2> HIDE DEF b, c
  <2>4. (body \o a) \o c = body \o (a \o c)
    BY ZenonT(30), <1>3, <1>6, <2>1, <2>2
  <2>5. a \in Seq(Symbols) /\ b \in Seq(Symbols) /\ unsent \in Seq(Symbols)
    BY <1>3, <1>6, <2>2
  <2>6. (a \o b) \o unsent = a \o (b \o unsent)
    BY <2>1, <2>5
  <2> QED
    BY <1>7, <2>2, <2>3, <2>4, <2>6 DEF Ahead
<1>12. ~Lost
  <2>1. Len(arrived) # 0
    BY <1>4, <1>5
  <2> QED
    BY <2>1, EmptySeq DEF Lost
<1>13. ASSUME WellFramed(request)
       PROVE  BodyAhead' /\ (pc' = "route" => body' = request'.body)
  <2>1. length = Len(request.body) /\ body \o Ahead = request.body
    BY <1>2, <1>12, <1>13 DEF Reads, BodyAhead
  <2>2. BodyAhead'
    BY <1>2, <1>11, <2>1 DEF BodyAhead
  <2>3. ASSUME Len(body') = length PROVE body' = request.body
    <3>1. Ahead' \in Seq(Symbols)
      BY <1>1, <1>2, <1>3, <1>6, ConcatProperties DEF Ahead
    <3>2. body' \o Ahead' = request.body
      BY <1>11, <2>1
    <3>3. Len(request.body) = Len(body') + Len(Ahead') /\ Len(Ahead') \in Nat /\ Len(body') \in Nat
      BY <1>8, <3>1, <3>2, ConcatProperties, LenProperties
    <3>4. Len(Ahead') = 0
      BY <2>1, <2>3, <3>3
    <3>5. Ahead' = << >>
      BY <3>1, <3>4, EmptySeq
    <3> QED
      BY <1>8, <3>2, <3>5, ConcatEmptySeq
  <2> QED
    BY <1>2, <2>2, <2>3
<1>14. WellFramed(request') => WellFramed(request)
  BY <1>2
<1>15. IsTargetOf(target', request') /\ pc' \in {"body", "route"}
  <2>1. IsTargetOf(target, request) /\ target' = target /\ request' = request
    BY <1>2, <1>3
  <2> QED
    BY <1>2, <2>1
<1>16. Reads'
  BY <1>13, <1>14, <1>15 DEF Reads, Routed
<1> QED
  BY <1>10, <1>16

LEMMA StepReads == InputTypes /\ Reads /\ [Next]_vars => InputTypes' /\ Reads'
<1> SUFFICES ASSUME InputTypes, Reads, [Next]_vars PROVE InputTypes' /\ Reads'
  OBVIOUS
<1>1. CASE \/ Serve \/ ClientStalls \/ \E how \in {"ended", "gone"} : ClientLeaves(how)
           \/ BadRequest \/ BodyDropped \/ UNCHANGED vars
  <2>1. /\ UNCHANGED <<request, unsent, input>>
        /\ pc' = pc \/ pc' = "closed" \/ (pc = "none" /\ pc' = "head")
    BY <1>1 DEF Serve, ClientStalls, ClientLeaves, BadRequest, Malformed, BodyDropped, Send, Close, vars
  <2>2. \/ client' = client \/ (client # "gone" /\ client' = "gone")
        \/ (client = "there" /\ client' = "ended")
    BY <1>1 DEF Serve, ClientStalls, ClientLeaves, BadRequest, Malformed, BodyDropped, Send, Close, vars
  <2> QED
    BY <2>1, <2>2, KeepsReads
<1>2. CASE \/ Health \/ NotFound \/ NoMessages \/ CallEngine \/ StreamHeader \/ Reply
           \/ FinishStream \/ Terminate \/ AbandonStream \/ EngineStep
  <2>1. UNCHANGED <<theClient, input>>
    BY <1>2 DEF Health, NotFound, NoMessages, CallEngine, StreamHeader, Reply, FinishStream,
                Terminate, AbandonStream, EngineStep, CollectToken, StreamToken, LateToken,
                EngineReturns, Send, Close
  <2>2. pc' = pc \/ pc' = "closed" \/ {pc, pc'} \subseteq Routed
    BY <1>2 DEF Health, NotFound, NoMessages, CallEngine, StreamHeader, Reply, FinishStream,
                Terminate, AbandonStream, EngineStep, CollectToken, StreamToken, LateToken,
                EngineReturns, Send, Close, Routed
  <2> QED
    BY <2>1, <2>2, KeepsReads
<1>3. CASE ClientSends
  BY <1>3, SendsReads
<1>4. CASE RequestLine
  BY <1>4, RequestLineReads
<1>5. CASE Header
  BY <1>5, HeaderReads
<1>6. CASE HeadersCut
  BY <1>6, HeadersCutReads
<1>7. CASE ReadBody
  BY <1>7, ReadBodyReads
<1> QED
  BY <1>1, <1>2, <1>3, <1>4, <1>5, <1>6, <1>7 DEF Next, ClientStep, HandlerStep

\* However the bytes were cut into reads, the request that is routed has the method
\* and the path that were sent, or the front of a path that the line has no room for;
\* and the body of a well-framed request is the one that was sent, or, if the
\* connection was cut within the headers, it has none.
THEOREM RequestRead == Spec => []RequestIsRead
<1>1. InputTypes /\ Reads => RequestIsRead
  BY DEF InputTypes, Reads, Routed, Lost, RequestIsRead
<1> QED
  BY InitReads, StepReads, <1>1, PTL DEF Spec

-----------------------------------------------------------------------------
(* Types, and what the writes mean *)

OutputTypes ==
  /\ stalled \in BOOLEAN /\ broken \in BOOLEAN /\ disconnected \in BOOLEAN
  /\ wire \in Seq(Pieces)
  /\ disconnected => broken
  /\ broken => client = "gone"
  /\ decoded \in 0..MaxTokens
  /\ result \in Results \cup {"none"}

LEMMA PieceTypes ==
  /\ \A k \in Replies \cup {"200 stream", "[DONE]", "end", "part"} : Piece(k) \in Pieces
  /\ \A i \in 0..MaxTokens : Token(i) \in Pieces
<1>1. 0 \in 0..MaxTokens
  OBVIOUS
<1> QED
  BY <1>1, Zenon DEF Piece, Token, Pieces

\* A write adds its piece, or fails, and it fails only when the client is gone.
LEMMA WriteTyped ==
  ASSUME OutputTypes, NEW piece \in Pieces, NEW ok \in BOOLEAN, Write(piece, ok)
  PROVE  /\ wire' \in Seq(Pieces) /\ broken' \in BOOLEAN /\ (broken' => client = "gone")
         /\ ok => wire' # << >> /\ wire'[Len(wire')] = piece /\ ~broken'
         /\ ~ok => broken' /\ client = "gone"
<1>1. wire \in Seq(Pieces) /\ broken \in BOOLEAN /\ (broken => client = "gone")
  BY DEF OutputTypes
<1>2. Piece("part") \in Pieces
  BY PieceTypes
<1>3. ASSUME NEW p \in Pieces
      PROVE  /\ Append(wire, p) \in Seq(Pieces) /\ Append(wire, p) # << >>
             /\ Append(wire, p)[Len(Append(wire, p))] = p
  BY <1>1, AppendProperties
<1>4. CASE ok
  <2>1. ~broken /\ wire' = Append(wire, piece) /\ broken' = broken
    BY <1>4 DEF Write
  <2> QED
    BY <1>1, <1>3, <1>4, <2>1
<1>5. CASE ~ok
  <2>1. /\ client = "gone" /\ broken' = TRUE
        /\ wire' = wire \/ wire' = Append(wire, Piece("part"))
    BY <1>5 DEF Write
  <2> QED
    BY <1>1, <1>2, <1>3, <1>5, <2>1
<1> QED
  BY <1>4, <1>5

\* The last thing on the wire is a whole reply or the last chunk of a stream.
WholeAnswer == wire # << >> /\ wire[Len(wire)].kind \in Replies \cup {"end"}

\* Why the connection may be closed.
Answered ==
  pc = "closed" =>
    \/ WholeAnswer \/ client = "gone"
    \/ client = "ended" /\ (WellFramed(request) => unsent # << >>)

LEMMA SendAnswers ==
  ASSUME OutputTypes, NEW k \in Replies \cup {"end"}, Send(k)
  PROVE  OutputTypes' /\ Answered'
<1>1. PICK ok \in BOOLEAN : Write(Piece(k), ok)
  BY DEF Send
<1>2. Piece(k) \in Pieces /\ Piece(k).kind = k
  BY PieceTypes DEF Piece
<1>3. UNCHANGED <<theClient, engine>>
  BY DEF Send
<1>4. /\ wire' \in Seq(Pieces) /\ broken' \in BOOLEAN /\ (broken' => client = "gone")
      /\ ok => wire' # << >> /\ wire'[Len(wire')] = Piece(k) /\ ~broken'
      /\ ~ok => broken' /\ client = "gone"
  BY <1>1, <1>2, WriteTyped
<1>5. /\ stalled \in BOOLEAN /\ disconnected \in BOOLEAN /\ decoded \in 0..MaxTokens
      /\ result \in Results \cup {"none"}
      /\ disconnected => broken /\ client = "gone"
  BY DEF OutputTypes
<1>6. disconnected' => broken'
  <2>1. broken => broken'
    BY <1>1 DEF Write
  <2> QED
    BY <1>3, <1>5, <2>1
<1>7. OutputTypes'
  BY <1>3, <1>4, <1>5, <1>6 DEF OutputTypes
<1>8. ok => WholeAnswer'
  BY <1>2, <1>4 DEF WholeAnswer
<1>9. ~ok => client' = "gone"
  BY <1>3, <1>4
<1> QED
  BY <1>7, <1>8, <1>9 DEF Answered

\* The header of a stream, its [DONE] and a token.
LEMMA StreamWrites ==
  ASSUME OutputTypes, StreamHeader \/ FinishStream \/ StreamToken
  PROVE  OutputTypes' /\ Answered'
<1>1. /\ stalled \in BOOLEAN /\ broken \in BOOLEAN /\ disconnected \in BOOLEAN
      /\ decoded \in 0..MaxTokens /\ result \in Results \cup {"none"}
      /\ disconnected => broken
  BY DEF OutputTypes
<1>2. CASE StreamHeader \/ FinishStream
  <2>1. PICK k \in {"200 stream", "[DONE]"}, ok \in BOOLEAN :
          Write(Piece(k), ok) /\ (pc' # "closed" \/ ~ok)
    <3>1. CASE StreamHeader
      <4>1. PICK ok \in BOOLEAN :
              Write(Piece("200 stream"), ok) /\ pc' = IF ok THEN "stream" ELSE "closed"
        BY <3>1 DEF StreamHeader
      <4> QED
        BY <4>1
    <3>2. CASE FinishStream
      <4>1. PICK ok \in BOOLEAN : Write(Piece("[DONE]"), ok)
        BY <3>2 DEF FinishStream
      <4>2. pc' # "closed"
        BY <3>2 DEF FinishStream
      <4> QED
        BY <4>1, <4>2, Zenon
    <3> QED
      BY <1>2, <3>1, <3>2
  <2>2. Piece(k) \in Pieces
    BY PieceTypes, Zenon
  <2>3. UNCHANGED <<theClient, engine>>
    BY <1>2 DEF StreamHeader, FinishStream
  <2>4. /\ wire' \in Seq(Pieces) /\ broken' \in BOOLEAN /\ (broken' => client = "gone")
        /\ ~ok => broken' /\ client = "gone"
    BY <2>1, <2>2, WriteTyped
  <2>5. broken => broken'
    BY <2>1 DEF Write
  <2>6. OutputTypes'
    BY <1>1, <2>3, <2>4, <2>5 DEF OutputTypes
  <2>7. pc' = "closed" => client' = "gone"
    BY <2>1, <2>3, <2>4
  <2> QED
    BY <2>6, <2>7 DEF Answered
<1>3. CASE StreamToken
  <2>1. PICK ok \in BOOLEAN : Write(Token(decoded'), ok) /\ disconnected' = ~ok
    BY <1>3 DEF StreamToken
  <2>2. /\ pc = "stream" /\ decoded' = decoded + 1 /\ decoded < MaxTokens
        /\ UNCHANGED <<theClient, pc, result>>
    BY <1>3 DEF StreamToken
  <2>3. decoded' \in 0..MaxTokens
    BY <1>1, <2>2
  <2>4. Token(decoded') \in Pieces
    BY <2>3, PieceTypes
  <2>5. /\ wire' \in Seq(Pieces) /\ broken' \in BOOLEAN /\ (broken' => client = "gone")
        /\ ~ok => broken' /\ client = "gone"
    BY <2>1, <2>4, WriteTyped
  <2>6. OutputTypes'
    BY <1>1, <2>1, <2>2, <2>3, <2>5 DEF OutputTypes
  <2> QED
    BY <2>2, <2>6 DEF Answered
<1> QED
  BY <1>2, <1>3

\* Steps that write nothing and do not close.
LEMMA QuietTypes ==
  ASSUME OutputTypes, Answered, InputTypes,
         \/ Serve \/ ClientStep \/ RequestLine \/ Header \/ HeadersCut \/ ReadBody
         \/ CallEngine \/ CollectToken \/ LateToken \/ EngineReturns \/ UNCHANGED vars
  PROVE  OutputTypes' /\ Answered'
<1>1. UNCHANGED <<wire, broken, disconnected>>
  BY DEF Serve, ClientStep, ClientSends, ClientStalls, ClientLeaves, RequestLine, Header,
         HeadersCut, ReadBody, CallEngine, CollectToken, LateToken, EngineReturns, vars
<1>2. decoded' = decoded \/ (decoded < MaxTokens /\ decoded' = decoded + 1)
  BY DEF Serve, ClientStep, ClientSends, ClientStalls, ClientLeaves, RequestLine, Header,
         HeadersCut, ReadBody, CallEngine, CollectToken, LateToken, EngineReturns, vars
<1>3. result' = result \/ result' \in Results
  BY DEF Serve, ClientStep, ClientSends, ClientStalls, ClientLeaves, RequestLine, Header,
         HeadersCut, ReadBody, CallEngine, CollectToken, LateToken, EngineReturns, vars
<1>4. stalled' \in BOOLEAN /\ (client = "gone" => client' = "gone")
  BY DEF OutputTypes, Serve, ClientStep, ClientSends, ClientStalls, ClientLeaves, RequestLine,
         Header, HeadersCut, ReadBody, CallEngine, CollectToken, LateToken, EngineReturns, vars
<1>5. pc' # "closed" \/ UNCHANGED <<theClient, pc>>
  BY DEF InputTypes, Routed, Serve, ClientStep, ClientSends, ClientStalls, ClientLeaves,
         RequestLine, Header, HeadersEnd, HeadersCut, ReadBody, CallEngine, CollectToken,
         LateToken, EngineReturns, vars
<1>6. decoded' \in 0..MaxTokens
  <2>1. decoded \in 0..MaxTokens
    BY DEF OutputTypes
  <2> QED
    BY <1>2, <2>1
<1>7. OutputTypes'
  BY <1>1, <1>3, <1>4, <1>6 DEF OutputTypes
<1>8. Answered'
  <2>1. WholeAnswer' <=> WholeAnswer
    BY <1>1 DEF WholeAnswer
  <2> QED
    BY <1>5, <2>1 DEF Answered
<1> QED
  BY <1>7, <1>8

\* A connection that is given up within the body or within a stream.
LEMMA ClosesTypes ==
  ASSUME OutputTypes, InputTypes, Reads, BodyDropped \/ AbandonStream
  PROVE  OutputTypes' /\ Answered'
<1>1. /\ UNCHANGED <<theClient, wire, broken, decoded, disconnected, result>>
  BY DEF BodyDropped, AbandonStream, Close
<1>2. OutputTypes'
  BY <1>1 DEF OutputTypes
<1>3. CASE AbandonStream
  <2>1. client' = "gone"
    BY <1>1, <1>3 DEF AbandonStream, OutputTypes
  <2> QED
    BY <1>2, <2>1 DEF Answered
<1>4. CASE BodyDropped
  <2>1. pc = "body" /\ (client = "gone" \/ (client = "ended" /\ arrived = << >>))
    BY <1>4 DEF BodyDropped, ReadEnds
  <2>2. ASSUME WellFramed(request), client = "ended", arrived = << >>, unsent = << >>
        PROVE  FALSE
    <3>1. BodyAhead
      BY <2>1, <2>2 DEF Reads, Lost
    <3>2. Ahead = << >>
      BY <2>2, ConcatEmptySeq, EmptySeq DEF Ahead
    <3>3. body \in Seq(Symbols) /\ Len(body) < length
      BY <2>1 DEF InputTypes
    <3>4. body = request.body
      BY <3>1, <3>2, <3>3, ConcatEmptySeq DEF BodyAhead
    <3>5. Len(body) = length /\ Len(body) \in Nat
      BY <3>1, <3>3, <3>4, LenProperties DEF BodyAhead
    <3> QED
      BY <3>3, <3>5
  <2>3. client' = "gone" \/ (client' = "ended" /\ (WellFramed(request') => unsent' # << >>))
    BY <1>1, <2>1, <2>2
  <2> QED
    BY <1>2, <2>3 DEF Answered
<1> QED
  BY <1>3, <1>4

LEMMA StepTypes ==
  InputTypes /\ Reads /\ OutputTypes /\ Answered /\ [Next]_vars => OutputTypes' /\ Answered'
<1> SUFFICES ASSUME InputTypes, Reads, OutputTypes, Answered, [Next]_vars
             PROVE  OutputTypes' /\ Answered'
  OBVIOUS
<1>1. CASE BadRequest \/ Health \/ NotFound \/ NoMessages \/ Reply \/ Terminate
  <2>1. PICK k \in Replies \cup {"end"} : Send(k)
    BY <1>1 DEF BadRequest, Malformed, Health, NotFound, NoMessages, Reply, ReplyFor, Replies, Terminate
  <2> QED
    BY <2>1, SendAnswers
<1>2. CASE StreamHeader \/ FinishStream \/ StreamToken
  BY <1>2, StreamWrites
<1>3. CASE BodyDropped \/ AbandonStream
  BY <1>3, ClosesTypes
<1>4. CASE \/ Serve \/ ClientStep \/ RequestLine \/ Header \/ HeadersCut \/ ReadBody
           \/ CallEngine \/ CollectToken \/ LateToken \/ EngineReturns \/ UNCHANGED vars
  BY <1>4, QuietTypes
<1> QED
  BY <1>1, <1>2, <1>3, <1>4 DEF Next, HandlerStep, EngineStep

LEMMA InitTypes == Init => OutputTypes /\ Answered
<1> SUFFICES ASSUME Init PROVE OutputTypes /\ Answered
  OBVIOUS
<1>1. /\ wire = << >> /\ broken = FALSE /\ decoded = 0 /\ disconnected = FALSE
      /\ result = "none" /\ stalled = FALSE /\ pc = "none"
  BY DEF Init
<1>2. wire \in Seq(Pieces) /\ decoded \in 0..MaxTokens
  BY <1>1, EmptySeq
<1> QED
  BY <1>1, <1>2 DEF OutputTypes, Answered

\* Every variable keeps its type, the handler takes the client for gone only when
\* a write has failed, and a write fails only when it is.
THEOREM TypeCorrect == Spec => []TypeOK
<1>1. InputTypes /\ OutputTypes => TypeOK
  <2> SUFFICES ASSUME InputTypes, OutputTypes PROVE TypeOK
    OBVIOUS
  <2>1. length \in Int /\ Len(body) \in Nat /\ (body = << >> => Len(body) = 0)
    BY EmptySeq, LenProperties DEF InputTypes
  <2>2. Max({length, 0}) = IF length >= 0 THEN length ELSE 0
    <3> DEFINE m == IF length >= 0 THEN length ELSE 0
    <3>1. m \in {length, 0} /\ \A y \in {length, 0} : m >= y
      BY <2>1
    <3>2. \A x \in {length, 0} : (\A y \in {length, 0} : x >= y) => x = m
      BY <2>1
    <3> HIDE DEF m
    <3>3. Max({length, 0}) = m
      BY <3>1, <3>2 DEF Max
    <3> QED
      BY <3>3 DEF m
  <2>3. body = << >> \/ Len(body) <= length
    BY DEF InputTypes
  <2>4. Len(body) <= Max({length, 0})
    BY <2>1, <2>2, <2>3
  <2>5. pc \in PCs
    BY DEF InputTypes, Routed, PCs
  <2> QED
    BY <2>4, <2>5 DEF InputTypes, OutputTypes, TypeOK
<1> QED
  BY InitReads, StepReads, InitTypes, StepTypes, <1>1, PTL DEF Spec

\* The connection of a client that stays, or that has sent all of a well-framed
\* request, is closed only after a whole answer, whatever was asked and whatever
\* the engine did.
THEOREM StayingClientAnswered == Spec => []StayingClientIsAnswered
<1>1. Answered => StayingClientIsAnswered
  BY DEF Answered, StayingClientIsAnswered, WholeAnswer
<1> QED
  BY InitReads, StepReads, InitTypes, StepTypes, <1>1, PTL DEF Spec
=============================================================================
