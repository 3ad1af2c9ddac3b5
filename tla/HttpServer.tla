----------------------------- MODULE HttpServer -----------------------------
(***************************************************************************)
(* core/server/HttpServer.cpp: one connection, from the first byte of the  *)
(* request to the close.  The handler reads the request line by line,      *)
(* routes it, and either answers at once or calls the engine (through the  *)
(* queue), whose worker calls back once per token; a streamed answer is    *)
(* one chunk per token.  The client may stop sending, stop taking what is  *)
(* sent, or leave, anywhere; then reads end, or fail, and a write waits,   *)
(* or fails sooner or later, having delivered part of its bytes or none.   *)
(*                                                                         *)
(* What is read is a sequence of symbols.  A character the reader looks    *)
(* for is one; the method, the path and the value of a header are any      *)
(* number of them, and a line that is too long may be cut within each.     *)
(* What is written is the sequence of the pieces that reached the wire,    *)
(* "part" for one cut short; the chunk of a token carries its number.      *)
(***************************************************************************)
EXTENDS Integers, Sequences, SequencesExt

CONSTANTS
  Symbols,       \* the characters of requests, and runs of others
  Requests,      \* what a client may send: records, see Text
  MaxLine,       \* max_len of read_line
  MaxTokens      \* bound on the tokens the engine decodes

CR == "\r"
LF == "\n"
SP == " "      \* any blank but these

ASSUME HttpServerConstants == MaxTokens \in Nat /\ MaxLine \in Nat \ {0}

\* A request's first line is a method, blanks, a path and a tail, which begins with
\* a blank; the line may end after any of them.  A header's value has no blank at
\* either end.
ASSUME RequestsAssumption ==
  /\ {CR, LF, SP, ":"} \subseteq Symbols
  /\ \A r \in Requests :
       /\ {r.method, r.path} \subseteq Seq(Symbols \ {SP, CR, LF})
       /\ r.gap \in Seq({SP}) /\ r.tail \in Seq(Symbols \ {CR, LF})
       /\ r.path # << >> => r.method # << >> /\ r.gap # << >>
       /\ r.tail # << >> => r.path # << >> /\ r.tail[1] = SP
       /\ r.headers \in Seq([name : Symbols, value : Seq(Symbols)])
       /\ \A i \in DOMAIN r.headers :
            LET value == r.headers[i].value
            IN  /\ r.headers[i].name \notin {":", SP, CR, LF}
                /\ \A k \in DOMAIN value : value[k] \notin {CR, LF}
                /\ value # << >> => value[1] # SP /\ value[Len(value)] # SP
       /\ r.eol \in {<<LF>>, <<CR, LF>>}
       /\ r.body \in Seq(Symbols)

VARIABLES
  \* the client
  request,       \* what it is sending
  unsent,        \* the part of its text it has still to send
  client,        \* "there", "ended" (sends no more), or "gone"
  stalled,       \* it takes nothing, and the buffers are full
  \* the handler
  pc,            \* where it is
  arrived,       \* what was sent and is not read
  target,        \* the method and the path of the request line
  length,        \* content_length
  body,          \* the part of the body that is read
  \* the answer
  wire,          \* what was written to the connection
  broken,        \* a write has failed, and so will every later one
  decoded,       \* how many tokens the engine has handed to on_token
  disconnected,  \* client_disconnected
  result         \* what engine_.generate() returned

theClient == <<request, unsent, client, stalled>>
input == <<arrived, target, length, body>>
output == <<wire, broken>>
engine == <<decoded, disconnected, result>>
vars == <<theClient, pc, input, output, engine>>

\* What generate() returns: the queue's refusal, or the engine's finish reason.
Results == {"stop", "length", "error", "overloaded"}

\* Replies with Content-Length, written in one piece.
Replies == {"400", "404", "200 health", "200 stop", "200 length"}

\* A request: its first line, its headers (a name and a value each), its end of
\* line, and its body.
HeaderLine(r, h) == <<h.name, ":", SP>> \o h.value \o r.eol

LineText(r) == (r.method \o r.gap) \o (r.path \o r.tail) \o r.eol

\* From the k-th header line to the end.
TextFrom(r, k) ==
  LET from[i \in 1..(Len(r.headers) + 1)] ==
        IF i > Len(r.headers) THEN r.eol \o r.body
        ELSE HeaderLine(r, r.headers[i]) \o from[i + 1]
  IN  from[k]

Text(r) == LineText(r) \o TextFrom(r, 1)

Init ==
  /\ request \in Requests
  /\ unsent = Text(request)
  /\ client = "there" /\ stalled = FALSE
  /\ pc = "none"
  /\ arrived = << >> /\ target = << >> /\ length = 0 /\ body = << >>
  /\ wire = << >> /\ broken = FALSE
  /\ decoded = 0 /\ disconnected = FALSE /\ result = "none"

\* serve(): the listener hands the connection over.
Serve ==
  /\ pc = "none"
  /\ pc' = "head"
  /\ UNCHANGED <<theClient, input, output, engine>>

-----------------------------------------------------------------------------
(* The client *)

ClientSends ==
  /\ client = "there"
  /\ pc # "closed"
  /\ \E n \in DOMAIN unsent :
       /\ arrived' = arrived \o SubSeq(unsent, 1, n)
       /\ unsent' = SubSeq(unsent, n + 1, Len(unsent))
  /\ UNCHANGED <<request, client, stalled, pc, target, length, body, output, engine>>

\* shutdown() of its side, or a close or a loss of the connection.
ClientLeaves(how) ==
  /\ client \in {"there", "ended"} \ {how}
  /\ pc # "closed"
  /\ client' = how
  /\ UNCHANGED <<request, unsent, stalled, pc, input, output, engine>>

\* It stops reading, for a while or for good.
ClientStalls ==
  /\ client # "gone"
  /\ pc # "closed"
  /\ stalled' = ~stalled
  /\ UNCHANGED <<request, unsent, client, pc, input, output, engine>>

-----------------------------------------------------------------------------
(* Reading *)

\* The place of the line end, if it is among the symbols read_line looks at.
LineEnd == {n \in 1..Min({MaxLine, Len(arrived)}) :
              arrived[n] = LF /\ \A k \in 1..(n - 1) : arrived[k] # LF}

After(n) == SubSeq(arrived, n + 1, Len(arrived))

WithoutCR(s) == IF s # << >> /\ s[Len(s)] = CR THEN SubSeq(s, 1, Len(s) - 1) ELSE s

\* The line read_line returns, once it has arrived, and what is left.  A line
\* that is too long is cut, without an error, and its rest is left.
read_line ==
  {[line |-> WithoutCR(SubSeq(arrived, 1, n - 1)), rest |-> After(n)] : n \in LineEnd}
  \cup {[line |-> SubSeq(arrived, 1, n), rest |-> After(n)] :
          n \in {k \in {MaxLine} : LineEnd = {} /\ k <= Len(arrived)}}

\* recv() returns 0 at the end of what was sent, and fails once the connection
\* is reset, whether or not something is left to read.
ReadEnds(ready) == client = "gone" \/ (client = "ended" /\ ~ready)

\* The place from p on where the next word begins, and where blanks begin.
WordAt(line, p) ==
  Min({Len(line) + 1} \cup {i \in p..Len(line) : line[i] \notin {SP, CR}})
GapAt(line, p) ==
  Min({Len(line) + 1} \cup {i \in p..Len(line) : line[i] \in {SP, CR}})

\* The first two words of a line, empty where it has none.
FirstWords(line) ==
  LET m == WordAt(line, 1)
      p == WordAt(line, GapAt(line, m))
  IN  <<SubSeq(line, m, GapAt(line, m) - 1), SubSeq(line, p, GapAt(line, p) - 1)>>

\* trim: blanks at both ends, and CR at the right.
trim(s) ==
  LET last == Max({0} \cup {i \in DOMAIN s : s[i] \notin {SP, CR}})
  IN  SubSeq(s, Min({last + 1} \cup {i \in 1..last : s[i] # SP}), last)

iequal(s, t) == s = t \/ (s = <<"Content-Length">> /\ t = <<"content-length">>)

Numeral == [n \in {"-1", "1", "2", "3"} |->
  CASE n = "-1" -> -1 [] n = "1" -> 1 [] n = "2" -> 2 [] n = "3" -> 3]

\* std::stoi reads the number at the front; what is none, or too large, throws.
Stoi(value) ==
  IF value # << >> /\ value[1] \in DOMAIN Numeral THEN Numeral[value[1]] ELSE 0

\* content_length after a header line.
LengthAfter(line) ==
  LET colons == {i \in DOMAIN line : line[i] = ":"}
      name == trim(SubSeq(line, 1, Min(colons) - 1))
      value == trim(SubSeq(line, Min(colons) + 1, Len(line)))
  IN  IF colons # {} /\ iequal(name, <<"content-length">>) THEN Stoi(value) ELSE length

-----------------------------------------------------------------------------
(* Writing *)

Piece(k) == [kind |-> k, n |-> 0]
Token(i) == [kind |-> "token", n |-> i]

\* write_all: all of the piece, or, if the client has left, a part or nothing;
\* as long as a client takes nothing it waits.
Write(piece, ok) ==
  \/ /\ ok
     /\ ~broken /\ ~stalled
     /\ wire' = Append(wire, piece)
     /\ UNCHANGED broken
  \/ /\ ~ok
     /\ client = "gone"
     /\ wire' \in {wire} \cup (IF broken THEN {} ELSE {Append(wire, Piece("part"))})
     /\ broken' = TRUE

\* send_response, whose failure is ignored, and the return from the handler.
Send(reply) ==
  /\ \E ok \in BOOLEAN : Write(Piece(reply), ok)
  /\ pc' = "closed"
  /\ UNCHANGED <<theClient, input, engine>>

Close ==
  /\ pc' = "closed"
  /\ UNCHANGED <<theClient, input, output, engine>>

-----------------------------------------------------------------------------
(* handle_connection *)

RequestLine ==
  /\ pc = "head"
  /\ \E r \in read_line :
       /\ target' = FirstWords(r.line)
       /\ target'[2] # << >>
       /\ arrived' = r.rest
  /\ pc' = "headers"
  /\ UNCHANGED <<theClient, length, body, output, engine>>

\* No line, or one of fewer than two words.
Malformed ==
  /\ pc = "head"
  /\ ReadEnds(read_line # {}) \/ \E r \in read_line : FirstWords(r.line)[2] = << >>

BadRequest ==
  /\ Malformed
  /\ Send("400")

\* Once the headers are read there is a body if they say so.
HeadersEnd(l) == pc' = IF l > 0 THEN "body" ELSE "route"

Header ==
  /\ pc = "headers"
  /\ \E r \in read_line :
       /\ arrived' = r.rest
       /\ length' = IF r.line = << >> THEN length ELSE LengthAfter(r.line)
       /\ IF r.line = << >> THEN HeadersEnd(length) ELSE UNCHANGED pc
  /\ UNCHANGED <<theClient, target, body, output, engine>>

\* The connection ends within the headers, part of a line may be lost: parse_ok
\* all the same.
HeadersCut ==
  /\ pc = "headers"
  /\ ReadEnds(read_line # {})
  /\ HeadersEnd(length)
  /\ arrived' = << >>
  /\ UNCHANGED <<theClient, target, length, body, output, engine>>

\* Variant for validation: what one read returns is taken for the body.
ReadBodyOnce ==
  /\ pc = "body"
  /\ \E n \in 1..Min({length - Len(body), Len(arrived)}) :
       /\ body' = body \o SubSeq(arrived, 1, n)
       /\ arrived' = After(n)
  /\ pc' = "route"
  /\ UNCHANGED <<theClient, target, length, output, engine>>

\* One read of read_body, which goes on until it has as much as was announced.
ReadBody ==
  /\ pc = "body"
  /\ \E n \in 1..Min({length - Len(body), Len(arrived)}) :
       /\ body' = body \o SubSeq(arrived, 1, n)
       /\ arrived' = After(n)
  /\ pc' = IF Len(body') = length THEN "route" ELSE "body"
  /\ UNCHANGED <<theClient, target, length, output, engine>>

\* Variant for validation: a read of 0 bytes is not taken as the end.
BodyDroppedOnErrorOnly ==
  /\ pc = "body"
  /\ client = "gone"
  /\ Close

\* The connection dropped while the body was read: nothing is answered.
BodyDropped ==
  /\ pc = "body"
  /\ ReadEnds(arrived # << >>)
  /\ Close

Chat == target = << <<"POST">>, <<"/", "v1/chat/completions">> >>
Probe == target \in {<< <<"GET">>, <<"/">> >>, << <<"GET">>, <<"/", "health">> >>}

Health ==
  /\ pc = "route"
  /\ Probe
  /\ Send("200 health")

NotFound ==
  /\ pc = "route"
  /\ ~Chat /\ ~Probe
  /\ Send("404")

-----------------------------------------------------------------------------
(* handle_chat *)

\* What JsonUtils finds in the body (see there): whether it has a message, and
\* whether the answer is to be streamed.
HasMessages == "messages" \in ToSet(body)
Streams == "stream" \in ToSet(body)

\* Variant for validation: the return after send_error is missing.
NoMessagesGoesOn ==
  /\ pc = "route"
  /\ Chat /\ ~HasMessages
  /\ \E ok \in BOOLEAN : Write(Piece("400"), ok)
  /\ pc' = "collect"
  /\ UNCHANGED <<theClient, input, engine>>

NoMessages ==
  /\ pc = "route"
  /\ Chat /\ ~HasMessages
  /\ Send("400")

CallEngine ==
  /\ pc = "route"
  /\ Chat /\ HasMessages /\ ~Streams
  /\ pc' = "collect"
  /\ UNCHANGED <<theClient, input, output, engine>>

\* The headers of a stream are written before the engine is called, and the
\* engine is not called if that fails.
StreamHeader ==
  /\ pc = "route"
  /\ Chat /\ HasMessages /\ Streams
  /\ \E ok \in BOOLEAN :
       /\ Write(Piece("200 stream"), ok)
       /\ pc' = IF ok THEN "stream" ELSE "closed"
  /\ UNCHANGED <<theClient, input, engine>>

\* on_token of a collected answer accepts every token.
CollectToken ==
  /\ pc = "collect"
  /\ decoded < MaxTokens
  /\ decoded' = decoded + 1
  /\ UNCHANGED <<theClient, pc, input, output, disconnected, result>>

\* Variant for validation: the chunk is sent for the token before.
StreamTokenLate ==
  /\ pc = "stream"
  /\ ~disconnected
  /\ decoded < MaxTokens
  /\ decoded' = decoded + 1
  /\ \E ok \in BOOLEAN : Write(Token(decoded), ok) /\ disconnected' = ~ok
  /\ UNCHANGED <<theClient, pc, input, result>>

\* Variant for validation: the result of write_sse_chunk is taken the wrong way.
StreamTokenInverted ==
  /\ pc = "stream"
  /\ ~disconnected
  /\ decoded < MaxTokens
  /\ decoded' = decoded + 1
  /\ \E ok \in BOOLEAN : Write(Token(decoded'), ok) /\ disconnected' = ok
  /\ UNCHANGED <<theClient, pc, input, result>>

\* Variant for validation: the connection is closed under the engine.
StreamTokenCloses ==
  /\ pc = "stream"
  /\ ~disconnected
  /\ decoded < MaxTokens
  /\ decoded' = decoded + 1
  /\ \E ok \in BOOLEAN :
       /\ Write(Token(decoded'), ok)
       /\ disconnected' = ~ok
       /\ pc' = IF ok THEN "stream" ELSE "closed"
  /\ UNCHANGED <<theClient, input, result>>

\* on_token of a stream: one chunk, or a refusal from the first failure on.
StreamToken ==
  /\ pc = "stream"
  /\ ~disconnected
  /\ decoded < MaxTokens
  /\ decoded' = decoded + 1
  /\ \E ok \in BOOLEAN : Write(Token(decoded'), ok) /\ disconnected' = ~ok
  /\ UNCHANGED <<theClient, pc, input, result>>

\* An engine that calls again after on_token returned false is refused again
\* (the contract, Generation, has no such engine).
LateToken ==
  /\ pc = "stream"
  /\ disconnected
  /\ decoded < MaxTokens
  /\ decoded' = decoded + 1
  /\ UNCHANGED <<theClient, pc, input, output, disconnected, result>>

\* generate() returns; the queue refuses only before the first token.
EngineReturns ==
  /\ pc \in {"collect", "stream"}
  /\ result' \in (IF decoded = 0 THEN Results ELSE Results \ {"overloaded"})
  /\ pc' = IF pc = "collect" THEN "reply" ELSE "finish"
  /\ UNCHANGED <<theClient, input, output, decoded, disconnected>>

\* finish_reason: everything that is not Length is "stop".
ReplyFor(r) == IF r = "length" THEN "200 length" ELSE "200 stop"

Reply ==
  /\ pc = "reply"
  /\ Send(ReplyFor(result))

\* Variant for validation: the last chunk is not written.
FinishWithoutTerminator ==
  /\ pc = "finish"
  /\ ~disconnected
  /\ \E ok \in BOOLEAN : Write(Piece("[DONE]"), ok)
  /\ pc' = "closed"
  /\ UNCHANGED <<theClient, input, engine>>

\* The end of a stream, whatever generate() returned: [DONE] and the last chunk.
FinishStream ==
  /\ pc = "finish"
  /\ ~disconnected
  /\ \E ok \in BOOLEAN : Write(Piece("[DONE]"), ok)
  /\ pc' = "terminate"
  /\ UNCHANGED <<theClient, input, engine>>

Terminate ==
  /\ pc = "terminate"
  /\ Send("end")

AbandonStream ==
  /\ pc = "finish"
  /\ disconnected
  /\ Close

-----------------------------------------------------------------------------

HandlerStep ==
  \/ RequestLine \/ BadRequest \/ Header \/ HeadersCut \/ ReadBody \/ BodyDropped
  \/ Health \/ NotFound \/ NoMessages
  \/ CallEngine \/ StreamHeader \/ Reply
  \/ FinishStream \/ Terminate \/ AbandonStream

EngineStep == CollectToken \/ StreamToken \/ LateToken \/ EngineReturns

ClientStep ==
  \/ ClientSends \/ ClientStalls
  \/ \E how \in {"ended", "gone"} : ClientLeaves(how)

Next == Serve \/ ClientStep \/ HandlerStep \/ EngineStep

\* The handler runs, and the engine decodes and returns: its decode loop is
\* bounded by max_tokens.  Nothing is asked of the client.
Fairness == WF_vars(HandlerStep) /\ WF_vars(EngineStep)

Spec == Init /\ [][Next]_vars

FairSpec == Spec /\ Fairness

-----------------------------------------------------------------------------
(* Safety *)

PCs == {"none", "head", "headers", "body", "route", "collect", "reply", "stream",
        "finish", "terminate", "closed"}
Pieces == [kind : Replies \cup {"200 stream", "token", "[DONE]", "end", "part"},
           n : 0..MaxTokens]

\* Every variable has its type; the handler takes the client for gone only when
\* a write has failed, and a write fails only when the client is gone.
TypeOK ==
  /\ request \in Requests
  /\ client \in {"there", "ended", "gone"}
  /\ pc \in PCs
  /\ {unsent, arrived, body} \subseteq Seq(Symbols)
  /\ Len(target) \in {0, 2}
  /\ length \in -1..3 /\ Len(body) <= Max({length, 0})
  /\ {stalled, broken, disconnected} \subseteq BOOLEAN
  /\ wire \in Seq(Pieces)
  /\ disconnected => broken
  /\ broken => client = "gone"
  /\ decoded \in 0..MaxTokens
  /\ result \in Results \cup {"none"}

\* A client whose lines, with their ends, the reader has room for, and that says
\* how long its body is.
Fits(text) == Len(text) <= MaxLine

\* What the last content-length of the first k headers says.
Announced(r, k) ==
  LET at == {i \in 1..k : iequal(<<r.headers[i].name>>, <<"content-length">>)}
  IN  IF at = {} THEN 0 ELSE Stoi(r.headers[Max(at)].value)

WellFramed(r) ==
  /\ Fits(LineText(r))
  /\ \A i \in DOMAIN r.headers : Fits(HeaderLine(r, r.headers[i]))
  /\ Len(r.body) = Announced(r, Len(r.headers))

\* The line has room for the path.
TargetFits(r) == Len(r.method) + Len(r.gap) + Len(r.path) <= MaxLine

\* The method and the path of a request, or the front of a path that is cut.
IsTargetOf(t, r) ==
  \E n \in 1..Len(r.path) :
    /\ t = <<r.method, SubSeq(r.path, 1, n)>>
    /\ TargetFits(r) => n = Len(r.path)

\* What is routed is what the client wrote: its method and its path, whatever
\* follows them, or, of a path the line has no room for, the front; and, however
\* the bytes were cut into reads, all of the body of a well-framed request or, if
\* the connection was cut within the headers, none of it.
RequestIsRead ==
  pc \notin {"none", "head", "headers", "body", "closed"} =>
    /\ IsTargetOf(target, request)
    /\ WellFramed(request) =>
         \/ body = request.body
         \/ body = << >> /\ client # "there" /\ (client = "ended" => unsent # << >>)

\* One response per connection: a reply and nothing after it, or the header of
\* a stream, the tokens, [DONE] and the last chunk, in that order and each once;
\* and nothing follows a piece that was cut short.
OneResponse ==
  \A i \in 1..Len(wire) :
    LET k == wire[i].kind
        after == IF i = 1 THEN "nothing" ELSE wire[i - 1].kind
    IN  /\ k \in Replies \cup {"200 stream"} <=> i = 1 /\ k # "part"
        /\ k = "token" => after \in {"200 stream", "token"}
        /\ k = "[DONE]" => after \in {"200 stream", "token"}
        /\ k = "end" => after = "[DONE]"
        /\ k = "part" => i = Len(wire)

\* The stream carries the engine's tokens, all of them, in order, once each, up
\* to the write that failed; the last chunk is only seen after all of them and
\* after the engine has returned.  (The first piece is the header.)
StreamIsFaithful ==
  /\ \A i \in 1..Len(wire) : wire[i].kind = "token" => wire[i].n = i - 1
  /\ pc \in {"stream", "finish"} /\ ~broken => Len(wire) = 1 + decoded
  /\ \A i \in 1..Len(wire) : wire[i].kind = "end" => i = decoded + 3 /\ result # "none"

\* A client that stays gets a whole response before the connection is closed,
\* whatever the request and the engine do; and so does one that has sent all of
\* a request that says how long it is and sends no more.
StayingClientIsAnswered ==
  /\ pc = "closed"
  /\ \/ client = "there"
     \/ client = "ended" /\ unsent = << >> /\ WellFramed(request)
  => wire # << >> /\ wire[Len(wire)].kind \in Replies \cup {"end"}

\* To the accept loop and the engine this is a Connection: the engine is called
\* at most once, and while it runs the handler neither answers nor returns.
Conn == INSTANCE Connection WITH
  phase <- CASE pc \in {"none", "closed"} -> pc
             [] pc \in {"head", "headers", "body", "route"} -> "reading"
             [] pc \in {"collect", "stream"} -> "generating"
             [] pc \in {"reply", "finish", "terminate"} -> "answering"

ImplementsConnection == Conn!Spec

-----------------------------------------------------------------------------
(* Liveness *)

\* The next thing the handler does is a send().
Sends ==
  \/ Malformed
  \/ pc = "route" /\ ~(Chat /\ HasMessages /\ ~Streams)
  \/ pc \in {"stream", "finish"} /\ ~disconnected
  \/ pc \in {"reply", "terminate"}

\* The handler is in recv(), and the client neither sends nor leaves; or it is in
\* send(), and the client takes nothing and does not leave.
Starved ==
  \/ /\ client = "there"
     /\ \/ pc \in {"head", "headers"} /\ read_line = {}
        \/ pc = "body" /\ arrived = << >>
  \/ client # "gone" /\ stalled /\ Sends

\* The accept loop gets its thread back from every connection, unless a client
\* keeps it waiting, again and again or for good: nothing else can hold the handler.
ConnectionEnds == []<>(pc \in {"none", "closed"} \/ Starved)
=============================================================================
