------------------------- MODULE OgaInferenceEngine -------------------------
(***************************************************************************)
(* core/inference/OgaInferenceEngine.cpp: loading a model and decoding one *)
(* request with the ORT-GenAI C library, every call of which may fail.     *)
(* load() and generate() are called by one thread at a time (core/queue    *)
(* sees to that), so a step is one call of the library, or one of on_token.*)
(*                                                                         *)
(* A prompt is the number of its tokens, and a decoded token is named by   *)
(* its place in the completion.  An int32_t holds IntMin..IntMax.          *)
(***************************************************************************)
EXTENDS Integers, Sequences

CONSTANTS Models,      \* the models load() is called with
          NoModel,     \* a null pointer
          MaxPrompt,   \* bound on the tokens of a prompt
          IntMax       \* the largest int32_t

ASSUME EngineConstants ==
  /\ NoModel \notin Models
  /\ MaxPrompt \in Nat /\ IntMax \in Nat
  /\ MaxPrompt <= IntMax

IntMin == -IntMax - 1

VARIABLES
  \* the object
  model,        \* what model_ points to
  tokenizer,    \* the model the tokenizer at tokenizer_ was made from
  template,     \* the model whose type model_type_ holds; NoModel: the default
  \* the call in progress
  pc,           \* where it is
  wanted,       \* the model load() is loading
  maxTokens,    \* request.max_tokens
  prompt,       \* the number of tokens of the prompt
  next,         \* the next of the calls of Setup
  held,         \* the library's objects the guards of generate() own
  limit,        \* max_length
  length,       \* the number of tokens in the generator
  eos,          \* the generator has met the end of the sequence
  completion,   \* completion_tokens
  content,      \* the tokens in resp.content
  cancelled,    \* cancelled
  resp,         \* what the last generate() returned
  \* history, for the properties
  delivered,    \* the tokens on_token was called with
  unread        \* a token was decoded and its data could not be read

object == <<model, tokenizer, template>>
setup == <<wanted, maxTokens, prompt, next, limit>>
decode == <<length, eos, completion, content, cancelled>>
history == <<delivered, unread>>
vars == <<object, pc, setup, held, decode, resp, history>>

\* The calls that prepare a generation, in order, and what each one creates.
\* (Setting the temperature is left out: its failure is ignored.)
Setup == <<"sequences", "encode", "params", "max_length", "generator", "append",
           "stream">>
Creates(call) ==
  IF call \in {"sequences", "params", "generator", "stream"} THEN {call} ELSE {}

NoResponse == [finish |-> "none", completion |-> 0]

Init ==
  /\ model = NoModel /\ tokenizer = NoModel /\ template = NoModel
  /\ pc = "idle"
  /\ wanted = NoModel /\ maxTokens = 0 /\ prompt = 0 /\ next = 1 /\ limit = 0
  /\ held = {}
  /\ length = 0 /\ eos = FALSE /\ completion = 0 /\ content = << >> /\ cancelled = FALSE
  /\ resp = NoResponse
  /\ delivered = << >> /\ unread = FALSE

-----------------------------------------------------------------------------
(* load() *)

\* Variant for validation: model_type_ is only ever written, never cleared.
LoadKeepsTemplate(m) ==
  /\ pc = "idle"
  /\ wanted' = m
  /\ model' = NoModel /\ tokenizer' = NoModel
  /\ template' \in {m, template}
  /\ pc' = "load model"
  /\ UNCHANGED <<maxTokens, prompt, next, limit, held, decode, resp, history>>

\* What was loaded is dropped first.  A config that is absent or does not parse
\* leaves the default template.
Load(m) ==
  /\ pc = "idle"
  /\ wanted' = m
  /\ model' = NoModel /\ tokenizer' = NoModel
  /\ template' \in {m, NoModel}
  /\ pc' = "load model"
  /\ UNCHANGED <<maxTokens, prompt, next, limit, held, decode, resp, history>>

CreateModel ==
  /\ pc = "load model"
  /\ model' = wanted
  /\ pc' = "load tokenizer"
  /\ UNCHANGED <<tokenizer, template, setup, held, decode, resp, history>>

CreateTokenizer ==
  /\ pc = "load tokenizer"
  /\ tokenizer' = model
  /\ pc' = "idle"
  /\ UNCHANGED <<model, template, setup, held, decode, resp, history>>

\* Either creation fails; a model already created is kept.
LoadFails ==
  /\ pc \in {"load model", "load tokenizer"}
  /\ pc' = "idle"
  /\ UNCHANGED <<object, setup, held, decode, resp, history>>

-----------------------------------------------------------------------------
(* generate(): up to the decode loop *)

\* Every return destroys the locals, and with them the guards' objects.
Return(finish, n) ==
  /\ pc' = "idle"
  /\ held' = {}
  /\ resp' = [finish |-> finish, completion |-> n]

Loaded == model # NoModel /\ tokenizer # NoModel

NotLoaded ==
  /\ pc = "idle"
  /\ ~Loaded
  /\ Return("error", 0)
  /\ content' = << >> /\ cancelled' = FALSE /\ delivered' = << >>
  /\ UNCHANGED <<object, setup, length, eos, completion, unread>>

Generate(max, n) ==
  /\ pc = "idle"
  /\ Loaded
  /\ maxTokens' = max
  /\ prompt' = n
  /\ next' = 1
  /\ limit' = 0
  /\ length' = 0 /\ eos' = FALSE /\ completion' = 0 /\ content' = << >>
  /\ cancelled' = FALSE
  /\ resp' = NoResponse
  /\ delivered' = << >> /\ unread' = FALSE
  /\ pc' = "setup"
  /\ UNCHANGED <<object, wanted, held>>

Wrap(n) == ((n - IntMin) % (IntMax - IntMin + 1)) + IntMin

\* Variant for validation: the cap takes no account of the prompt.
CapWithoutPrompt == {maxTokens}

\* The sum is formed in int32_t and then made a double.  When it overflows, the
\* compiler may have it wrap around or have formed it in a wider register.
MaxLength == {prompt + maxTokens, Wrap(prompt + maxTokens)}

\* The generator refuses a prompt that is longer than max_length.
Accepts(call) == call = "append" => prompt <= limit

SetupCall ==
  /\ pc = "setup"
  /\ Accepts(Setup[next])
  /\ held' = held \cup Creates(Setup[next])
  /\ limit' \in (IF Setup[next] = "max_length" THEN MaxLength ELSE {limit})
  /\ length' = IF Setup[next] = "append" THEN prompt ELSE length
  /\ next' = next + 1
  /\ pc' = IF next = Len(Setup) THEN "loop" ELSE "setup"
  /\ UNCHANGED <<object, wanted, maxTokens, prompt, eos, completion, content, cancelled,
                 resp, history>>

\* Variant for validation: an early return that does not destroy what was made.
SetupFailsAndLeaks ==
  /\ pc = "setup"
  /\ pc' = "idle"
  /\ resp' = [finish |-> "error", completion |-> 0]
  /\ UNCHANGED <<object, setup, held, decode, history>>

SetupFails ==
  /\ pc = "setup"
  /\ Return("error", 0)
  /\ UNCHANGED <<object, setup, decode, history>>

-----------------------------------------------------------------------------
(* generate(): the decode loop *)

\* OgaGenerator_IsDone
IsDone == eos \/ length >= limit

NextToken ==
  /\ pc = "loop"
  /\ ~IsDone
  /\ length' = length + 1
  /\ eos' \in BOOLEAN
  /\ completion' = completion + 1
  /\ pc' = "decode"
  /\ UNCHANGED <<object, setup, held, content, cancelled, resp, history>>

\* GetSequenceData gives nothing: the token is not counted.
NextTokenUnread ==
  /\ pc = "loop"
  /\ ~IsDone
  /\ length' = length + 1
  /\ eos' \in BOOLEAN
  /\ unread' = TRUE
  /\ UNCHANGED <<object, pc, setup, held, completion, content, cancelled, resp, delivered>>

\* The token count of the response is left at 0.
NextTokenFails ==
  /\ pc = "loop"
  /\ ~IsDone
  /\ Return("error", 0)
  /\ UNCHANGED <<object, setup, decode, history>>

DecodeText ==
  /\ pc = "decode"
  /\ content' = Append(content, completion)
  /\ pc' = "deliver"
  /\ UNCHANGED <<object, setup, held, length, eos, completion, cancelled, resp, history>>

\* Variant for validation: a token that cannot be decoded is generated again.
DecodeRetried ==
  /\ pc = "decode"
  /\ length' = length - 1 /\ completion' = completion - 1
  /\ pc' = "loop"
  /\ UNCHANGED <<object, setup, held, eos, content, cancelled, resp, history>>

\* The token has no text yet, or cannot be decoded: it is counted and skipped.
DecodeNothing ==
  /\ pc = "decode"
  /\ pc' = "loop"
  /\ UNCHANGED <<object, setup, held, decode, resp, history>>

\* Variant for validation: the loop goes on after on_token has returned false.
DeliverGoesOn(ok) ==
  /\ pc = "deliver"
  /\ delivered' = Append(delivered, completion)
  /\ cancelled' = (cancelled \/ ~ok)
  /\ pc' = "loop"
  /\ UNCHANGED <<object, setup, held, length, eos, completion, content, resp, unread>>

\* on_token, which may ask to stop.
Deliver(ok) ==
  /\ pc = "deliver"
  /\ delivered' = Append(delivered, completion)
  /\ cancelled' = ~ok
  /\ pc' = IF ok THEN "loop" ELSE "end"
  /\ UNCHANGED <<object, setup, held, length, eos, completion, content, resp, unread>>

LoopEnds ==
  /\ pc = "loop"
  /\ IsDone
  /\ pc' = "end"
  /\ UNCHANGED <<object, setup, held, decode, resp, history>>

FinishReason ==
  IF ~cancelled /\ completion >= maxTokens THEN "length" ELSE "stop"

Finish ==
  /\ pc = "end"
  /\ Return(FinishReason, completion)
  /\ UNCHANGED <<object, setup, decode, history>>

-----------------------------------------------------------------------------

Call ==
  \/ \E m \in Models : Load(m)
  \/ \E max \in IntMin..IntMax, n \in 1..MaxPrompt : Generate(max, n)
  \/ NotLoaded

Step ==
  \/ CreateModel \/ CreateTokenizer \/ LoadFails
  \/ SetupCall \/ SetupFails
  \/ NextToken \/ NextTokenUnread \/ NextTokenFails
  \/ DecodeText \/ DecodeNothing
  \/ \E ok \in BOOLEAN : Deliver(ok)
  \/ LoopEnds \/ Finish

Next == Call \/ Step

\* Each call of the library and of on_token returns.  Nobody need call again.
Spec == Init /\ [][Next]_vars /\ WF_vars(Step)

-----------------------------------------------------------------------------
(* Safety *)

PCs == {"idle", "load model", "load tokenizer", "setup", "loop", "decode", "deliver",
        "end"}
Tokens == 1..IntMax

\* Every variable has its type, and nothing a call created outlives the call.
TypeOK ==
  /\ {model, tokenizer, template, wanted} \subseteq Models \cup {NoModel}
  /\ pc \in PCs
  /\ maxTokens \in IntMin..IntMax
  /\ limit \in IntMin..(IntMax + MaxPrompt)
  /\ prompt \in 0..MaxPrompt
  /\ next \in 1..(Len(Setup) + 1)
  /\ held \subseteq {"sequences", "params", "generator", "stream"}
  /\ pc \notin {"setup", "loop", "decode", "deliver", "end"} => held = {}
  /\ length \in 0..(IntMax + MaxPrompt) /\ completion \in 0..IntMax
  /\ {eos, cancelled, unread} \subseteq BOOLEAN
  /\ content \in Seq(Tokens) /\ delivered \in Seq(Tokens)
  /\ resp \in [finish : {"none", "stop", "length", "error"}, completion : 0..IntMax]

\* Whatever mix of loads succeeded and failed before, a request is formatted,
\* encoded and decoded for one and the same model; and a tokenizer is never
\* kept beyond the model it was made from.
OneModel ==
  /\ tokenizer \in {model, NoModel}
  /\ pc \in PCs \ {"idle", "load model", "load tokenizer"} => tokenizer = model /\ Loaded
  /\ Loaded => template \in {model, NoModel}

\* The finish reason is true as far as the count of the tokens is: "length" for
\* exactly max_tokens tokens, and no request, whatever its max_tokens, counts more
\* than it asked for.  "stop" stands for the end of the sequence or a client's wish
\* only in a call that could read every token it decoded.  In another it need not,
\* against core/pal/types.h:38, "Stop: model emitted end-of-sequence": a token that
\* GetSequenceData does not give is not counted, the count ends below max_tokens, and
\* a completion cut off at max_length is reported as a stop.
FinishIsTrue ==
  /\ pc \in {"loop", "decode", "deliver", "end"} => completion <= maxTokens
  /\ resp.finish = "length" => resp.completion = maxTokens /\ ~cancelled
  /\ resp.finish = "stop" /\ ~unread => cancelled \/ eos

-----------------------------------------------------------------------------
(* Refinement *)

\* The engine keeps the contract of IInferenceEngine: the tokens it hands to
\* on_token come once each and in order, none after a refusal, and resp.content
\* is what was handed over, the token that was refused included.
Contract == INSTANCE Generation WITH
  running <- pc \notin {"idle", "load model", "load tokenizer"},
  tokens <- delivered,
  refused <- cancelled,
  response <- [finish |-> resp.finish,
               content |-> IF resp.finish = "none" THEN << >> ELSE content]

ImplementsGeneration == Contract!Spec

-----------------------------------------------------------------------------
(* Liveness *)

\* generate() and load() return: the decode loop is bounded by max_length.
CallsReturn == (pc # "idle") ~> (pc = "idle")
=============================================================================
