---------------------- MODULE OgaInferenceEngineProofs ----------------------
(***************************************************************************)
(* Proofs about OgaInferenceEngine for every set of models, every width of *)
(* the integers and every bound on the prompts: nothing leaks, one model   *)
(* serves a request, the finish reason is true, and the engine keeps the   *)
(* contract of Generation.                                                 *)
(***************************************************************************)
EXTENDS OgaInferenceEngine, SequenceTheorems, TLAPS

USE EngineConstants DEF EngineConstants

Generating == {"setup", "loop", "decode", "deliver", "end"}

-----------------------------------------------------------------------------
(* The inductive invariant *)

\* Nothing of the model loaded before is left while another one is loaded.
InLoad ==
  /\ pc = "load model" => model = NoModel
  /\ pc = "load tokenizer" => model = wanted
  /\ pc \in {"load model", "load tokenizer"} =>
       tokenizer = NoModel /\ template \in {wanted, NoModel}

\* What the calls of Setup that have been made have left behind.
InSetup ==
  pc = "setup" =>
    /\ next \in 1..7
    /\ next > 4 => limit \in MaxLength
    /\ next > 6 => length = prompt /\ prompt <= limit
    /\ completion = 0 /\ content = << >> /\ delivered = << >> /\ unread = FALSE

\* The generator's length counts the prompt and every decoded token, read or not;
\* and max_length is the sum that was meant: had it wrapped, the prompt would
\* not have been accepted.
InLoop ==
  pc \in {"loop", "decode", "deliver", "end"} =>
    /\ limit = prompt + maxTokens
    /\ prompt + completion <= length /\ length <= limit
    /\ unread \/ length = prompt + completion
    /\ pc \in {"decode", "deliver"} => completion >= 1
    /\ pc = "end" => cancelled \/ eos \/ length >= limit

\* A call in progress has no response yet, and goes on only if nobody asked to
\* stop.
NoneYet ==
  pc \in Generating => resp = NoResponse /\ (cancelled => pc = "end")

\* What on_token has seen, and when the token in hand is added to the content.
Texts ==
  /\ content = IF pc = "deliver" THEN Append(delivered, completion) ELSE delivered
  /\ \A i \in 1..Len(delivered) :
       IF pc \in {"decode", "deliver"} THEN delivered[i] < completion
                                       ELSE delivered[i] <= completion

IInv == TypeOK /\ OneModel /\ InLoad /\ InSetup /\ InLoop /\ NoneYet /\ Texts /\ FinishIsTrue

-----------------------------------------------------------------------------
(* The sum in 32 bits *)

LEMMA OnceAround ==
  ASSUME NEW M \in Nat \ {0}, NEW a \in 0..(2 * M - 1)
  PROVE  a % M = a \/ a % M = a - M
<1>1. CASE a < M
  BY <1>1
<1>2. CASE a >= M
  BY <1>2
<1> QED
  BY <1>1, <1>2

\* A sum that does not come out as it should comes out negative.
LEMMA WrapsBelowZero ==
  ASSUME NEW n \in IntMin..(IntMax + MaxPrompt)
  PROVE  Wrap(n) \in IntMin..(IntMax + MaxPrompt) /\ (Wrap(n) = n \/ Wrap(n) < 0)
<1> DEFINE M == IntMax - IntMin + 1  a == n - IntMin
<1>1. M \in Nat \ {0} /\ a \in 0..(2 * M - 1)
  BY DEF IntMin
<1>2. a % M = a \/ a % M = a - M
  BY <1>1, OnceAround
<1>3. Wrap(n) = (a % M) + IntMin
  BY DEF Wrap
<1>4. a % M = a - M => a >= M
  BY <1>1
<1> QED
  BY <1>1, <1>2, <1>3, <1>4 DEF IntMin

-----------------------------------------------------------------------------
(* The invariant holds *)

LEMMA SetupLength == Len(Setup) = 7
BY DEF Setup

LEMMA InitIInv == Init => IInv
<1> SUFFICES ASSUME Init PROVE IInv
  OBVIOUS
<1>1. limit \in IntMin..(IntMax + MaxPrompt) /\ maxTokens \in IntMin..IntMax
  BY DEF Init, IntMin
<1>2. content \in Seq(Tokens) /\ delivered \in Seq(Tokens)
  BY EmptySeq DEF Init
<1>3. TypeOK
  <2>1. {model, tokenizer, template, wanted} \subseteq Models \cup {NoModel}
    BY DEF Init
  <2>2. pc \in PCs /\ held = {} /\ {eos, cancelled, unread} \subseteq BOOLEAN
    BY DEF Init, PCs
  <2>3. /\ prompt \in 0..MaxPrompt /\ next \in 1..(Len(Setup) + 1)
        /\ length \in 0..(IntMax + MaxPrompt) /\ completion \in 0..IntMax
    BY SetupLength DEF Init
  <2>4. resp \in [finish : {"none", "stop", "length", "error"}, completion : 0..IntMax]
    BY DEF Init, NoResponse
  <2> QED
    BY <1>1, <1>2, <2>1, <2>2, <2>3, <2>4 DEF TypeOK
<1>4. OneModel /\ InLoad /\ InSetup /\ InLoop /\ NoneYet /\ FinishIsTrue
  BY DEF Init, OneModel, Loaded, InLoad, InSetup, InLoop, NoneYet, FinishIsTrue, Generating,
         NoResponse, PCs
<1>5. Texts
  BY DEF Init, Texts
<1> QED
  BY <1>3, <1>4, <1>5 DEF IInv

\* Loads touch nothing of a generation.
LEMMA LoadSteps ==
  ASSUME IInv,
         (\E m \in Models : Load(m)) \/ CreateModel \/ CreateTokenizer \/ LoadFails
  PROVE  IInv'
<1> USE DEF IInv
<1>1. /\ pc \in {"idle", "load model", "load tokenizer"}
      /\ pc' \in {"idle", "load model", "load tokenizer"}
      /\ UNCHANGED <<maxTokens, prompt, next, limit, held, length, eos, completion, content,
                     cancelled, resp, delivered, unread>>
  BY DEF Load, CreateModel, CreateTokenizer, LoadFails, object, setup, decode, history
<1>2. {model', tokenizer', template', wanted'} \subseteq Models \cup {NoModel}
  <2>1. {model, tokenizer, template, wanted} \subseteq Models \cup {NoModel}
    BY DEF TypeOK
  <2>2. CASE \E m \in Models : Load(m)
    BY <2>1, <2>2 DEF Load
  <2>3. CASE CreateModel
    BY <2>1, <2>3 DEF CreateModel, setup
  <2>4. CASE CreateTokenizer
    BY <2>1, <2>4 DEF CreateTokenizer, setup
  <2>5. CASE LoadFails
    BY <2>1, <2>5 DEF LoadFails, object, setup
  <2> QED
    BY <2>2, <2>3, <2>4, <2>5
<1>3. TypeOK'
  BY <1>1, <1>2 DEF TypeOK, PCs
<1>4. OneModel' /\ InLoad'
  <2>1. CASE \E m \in Models : Load(m)
    BY <2>1 DEF Load, OneModel, Loaded, InLoad
  <2>2. CASE CreateModel \/ CreateTokenizer \/ LoadFails
    BY <2>2 DEF CreateModel, CreateTokenizer, LoadFails, OneModel, Loaded, InLoad, object, setup
  <2> QED
    BY <2>1, <2>2
<1>5. InSetup' /\ InLoop' /\ NoneYet'
  BY <1>1 DEF InSetup, InLoop, NoneYet, Generating
<1>6. FinishIsTrue'
  BY <1>1 DEF FinishIsTrue
<1>7. Texts'
  BY <1>1 DEF Texts
<1> QED
  BY <1>3, <1>4, <1>5, <1>6, <1>7

LEMMA Begins ==
  ASSUME IInv,
         NotLoaded \/ \E max \in IntMin..IntMax, n \in 1..MaxPrompt : Generate(max, n)
  PROVE  IInv'
<1> USE DEF IInv, object, setup, decode, history
<1>1. CASE NotLoaded
  <2>1. /\ pc = "idle" /\ pc' = "idle" /\ held' = {}
        /\ resp' = [finish |-> "error", completion |-> 0]
        /\ content' = << >> /\ cancelled' = FALSE /\ delivered' = << >>
        /\ UNCHANGED <<model, tokenizer, template, wanted, maxTokens, prompt, next, limit,
                       length, eos, completion, unread>>
    BY <1>1 DEF NotLoaded, Return
  <2>2. content' \in Seq(Tokens) /\ delivered' \in Seq(Tokens)
    BY <2>1, EmptySeq
  <2>3. TypeOK'
    <3>1. resp' \in [finish : {"none", "stop", "length", "error"}, completion : 0..IntMax]
      BY <2>1
    <3>2. {eos', cancelled', unread'} \subseteq BOOLEAN
      BY <2>1 DEF TypeOK
    <3> QED
      BY <2>1, <2>2, <3>1, <3>2 DEF TypeOK, PCs
  <2>4. OneModel' /\ InLoad'
    BY <2>1 DEF OneModel, Loaded, InLoad, PCs
  <2>5. InSetup' /\ InLoop' /\ NoneYet' /\ FinishIsTrue' /\ Texts'
    BY <2>1 DEF InSetup, InLoop, NoneYet, FinishIsTrue, Texts, Generating
  <2> QED
    BY <2>3, <2>4, <2>5
<1>2. CASE \E max \in IntMin..IntMax, n \in 1..MaxPrompt : Generate(max, n)
  <2>1. /\ maxTokens' \in IntMin..IntMax /\ prompt' \in 0..MaxPrompt /\ next' = 1
        /\ pc = "idle" /\ pc' = "setup" /\ Loaded
        /\ limit' = 0 /\ length' = 0 /\ completion' = 0
        /\ eos' = FALSE /\ cancelled' = FALSE /\ unread' = FALSE
        /\ content' = << >> /\ delivered' = << >>
        /\ resp' = NoResponse
        /\ UNCHANGED <<model, tokenizer, template, wanted, held>>
    BY <1>2 DEF Generate
  <2>2. content' \in Seq(Tokens) /\ delivered' \in Seq(Tokens) /\ limit' \in IntMin..(IntMax + MaxPrompt)
    BY <2>1, EmptySeq DEF IntMin
  <2>3. TypeOK'
    <3>1. resp' \in [finish : {"none", "stop", "length", "error"}, completion : 0..IntMax]
      BY <2>1 DEF NoResponse
    <3>2. {eos', cancelled', unread'} \subseteq BOOLEAN
      BY <2>1
    <3>3. next' \in 1..(Len(Setup) + 1) /\ length' \in 0..(IntMax + MaxPrompt) /\ completion' \in 0..IntMax
      BY <2>1, SetupLength
    <3>4. {model', tokenizer', template', wanted'} \subseteq Models \cup {NoModel}
      BY <2>1 DEF TypeOK
    <3>5. pc' \in PCs /\ held' \subseteq {"sequences", "params", "generator", "stream"}
      BY <2>1 DEF TypeOK, PCs
    <3> QED
      BY <2>1, <2>2, <3>1, <3>2, <3>3, <3>4, <3>5 DEF TypeOK
  <2>4. OneModel' /\ InLoad'
    BY <2>1 DEF OneModel, Loaded, InLoad, PCs
  <2>5. InSetup' /\ InLoop' /\ NoneYet' /\ FinishIsTrue' /\ Texts'
    BY <2>1 DEF InSetup, InLoop, NoneYet, FinishIsTrue, Texts, Generating, NoResponse
  <2> QED
    BY <2>3, <2>4, <2>5
<1> QED
  BY <1>1, <1>2

LEMMA SetupSteps ==
  ASSUME IInv, SetupCall \/ SetupFails
  PROVE  IInv'
<1> USE DEF IInv, object, setup, decode, history
<1>1. CASE SetupFails
  <2>1. TypeOK'
    BY <1>1 DEF TypeOK, PCs, SetupFails, Return
  <2>2. OneModel' /\ InLoad'
    BY <1>1 DEF OneModel, Loaded, InLoad, SetupFails, Return, PCs
  <2>3. InSetup' /\ InLoop' /\ NoneYet' /\ FinishIsTrue'
    BY <1>1 DEF InSetup, InLoop, NoneYet, FinishIsTrue, Generating, SetupFails, Return
  <2>4. Texts'
    BY <1>1 DEF Texts, SetupFails, Return, InSetup
  <2> QED
    BY <2>1, <2>2, <2>3, <2>4
<1>2. CASE SetupCall
  <2>1. /\ next \in 1..7 /\ next' = next + 1
        /\ pc' = IF next = 7 THEN "loop" ELSE "setup"
        /\ limit' \in (IF next = 4 THEN MaxLength ELSE {limit})
        /\ length' = IF next = 6 THEN prompt ELSE length
        /\ next = 6 => prompt <= limit
    BY <1>2, SetupLength DEF SetupCall, InSetup, Setup, Accepts
  <2>2. MaxLength \subseteq IntMin..(IntMax + MaxPrompt) /\ MaxLength' = MaxLength
    <3>1. prompt + maxTokens \in IntMin..(IntMax + MaxPrompt)
      BY DEF TypeOK, IntMin
    <3> QED
      BY <1>2, <3>1, WrapsBelowZero DEF MaxLength, SetupCall, Wrap
  <2>3. TypeOK'
    <3>1. held' \subseteq {"sequences", "params", "generator", "stream"}
      BY <1>2 DEF TypeOK, SetupCall, Creates
    <3>2. length' \in 0..(IntMax + MaxPrompt) /\ limit' \in IntMin..(IntMax + MaxPrompt)
      BY <2>1, <2>2 DEF TypeOK
    <3> QED
      BY <1>2, <2>1, <3>1, <3>2, SetupLength DEF TypeOK, PCs, SetupCall
  <2>4. OneModel' /\ InLoad'
    BY <1>2, <2>1 DEF OneModel, Loaded, InLoad, SetupCall, PCs, TypeOK
  <2>5. InSetup'
    BY <1>2, <2>1, <2>2 DEF InSetup, SetupCall
  <2>6. InLoop'
    <3> SUFFICES ASSUME next = 7 PROVE InLoop'
      BY <2>1 DEF InLoop
    <3>1. length' = prompt /\ prompt <= limit /\ limit' = limit /\ limit \in MaxLength
      BY <1>2, <2>1 DEF InSetup, SetupCall
    <3>2. prompt + maxTokens \in IntMin..(IntMax + MaxPrompt) /\ prompt >= 0
      BY DEF TypeOK, IntMin
    <3>3. Wrap(prompt + maxTokens) = prompt + maxTokens \/ Wrap(prompt + maxTokens) < 0
      BY <3>2, WrapsBelowZero
    <3>4. limit = prompt + maxTokens
      BY <3>1, <3>2, <3>3 DEF MaxLength, TypeOK
    <3> QED
      BY <1>2, <2>1, <3>1, <3>2, <3>4 DEF InLoop, InSetup, SetupCall, TypeOK
  <2>7. NoneYet' /\ Texts'
    BY <1>2, <2>1 DEF NoneYet, Texts, InSetup, SetupCall, Generating
  <2>8. FinishIsTrue'
    BY <1>2, <2>1, <2>6 DEF FinishIsTrue, InLoop, SetupCall, NoneYet, Generating, NoResponse, TypeOK
  <2> QED
    BY <2>3, <2>4, <2>5, <2>6, <2>7, <2>8
<1> QED
  BY <1>1, <1>2

LEMMA TokenSteps ==
  ASSUME IInv, NextToken \/ NextTokenUnread \/ NextTokenFails
  PROVE  IInv'
<1> USE DEF IInv, object, setup, decode, history
<1>1. pc = "loop"
  BY DEF NextToken, NextTokenUnread, NextTokenFails
<1>2. CASE NextTokenFails
  <2>1. TypeOK' /\ OneModel' /\ InLoad'
    BY <1>2 DEF TypeOK, OneModel, Loaded, InLoad, PCs, NextTokenFails, Return
  <2>2. InSetup' /\ InLoop' /\ NoneYet' /\ FinishIsTrue' /\ Texts'
    BY <1>1, <1>2 DEF InSetup, InLoop, NoneYet, FinishIsTrue, Texts, Generating,
                      NextTokenFails, Return
  <2> QED
    BY <2>1, <2>2
<1>3. CASE NextToken \/ NextTokenUnread
  <2>1. /\ pc' \in {"loop", "decode"}
        /\ eos' \in BOOLEAN /\ unread' \in BOOLEAN
        /\ length' = length + 1
        /\ pc' = "decode" => completion' = completion + 1 /\ unread' = unread
        /\ pc' = "loop" => completion' = completion /\ unread'
        /\ UNCHANGED <<object, setup, held, content, cancelled, resp, delivered>>
    BY <1>3 DEF NextToken, NextTokenUnread, TypeOK
  <2>2. /\ prompt \in Nat /\ completion \in Nat /\ length \in Nat
        /\ maxTokens \in Int /\ maxTokens <= IntMax /\ limit \in Int
    BY DEF TypeOK, IntMin
  <2>3. length < limit
    BY <1>3, <2>2 DEF NextToken, NextTokenUnread, IsDone
  <2>4. /\ limit = prompt + maxTokens
        /\ prompt + completion <= length
        /\ unread \/ length = prompt + completion
    BY <1>1 DEF InLoop
  <2>5. completion + 1 <= maxTokens
    BY <2>2, <2>3, <2>4
  <2>6. length + 1 \in 0..(IntMax + MaxPrompt) /\ completion' \in 0..IntMax
    BY <2>1, <2>2, <2>3, <2>5 DEF TypeOK, IntMin
  <2>7. TypeOK'
    BY <1>1, <2>1, <2>6 DEF TypeOK, PCs
  <2>8. OneModel' /\ InLoad'
    BY <1>1, <2>1 DEF OneModel, Loaded, InLoad, PCs
  <2>9. InSetup' /\ InLoop'
    BY <2>1, <2>2, <2>3, <2>4 DEF InSetup, InLoop
  <2>10. NoneYet'
    BY <1>1, <2>1 DEF NoneYet, Generating
  <2>11. Texts'
    <3>1. content' = delivered' /\ Len(delivered') = Len(delivered)
      BY <1>1, <2>1 DEF Texts
    <3>2. \A i \in 1..Len(delivered) : delivered[i] <= completion /\ delivered[i] \in Nat
      BY <1>1 DEF Texts, TypeOK, Tokens
    <3> QED
      BY <2>1, <2>2, <3>1, <3>2 DEF Texts
  <2>12. FinishIsTrue'
    BY <1>1, <2>1, <2>2, <2>5 DEF FinishIsTrue, NoneYet, Generating, NoResponse
  <2> QED
    BY <2>7, <2>8, <2>9, <2>10, <2>11, <2>12
<1> QED
  BY <1>2, <1>3

LEMMA DecodeSteps ==
  ASSUME IInv, DecodeText \/ DecodeNothing
  PROVE  IInv'
<1> USE DEF IInv, object, setup, decode, history
<1>1. /\ pc = "decode" /\ pc' \in {"deliver", "loop"}
      /\ content' = IF pc' = "deliver" THEN Append(content, completion) ELSE content
      /\ UNCHANGED <<object, setup, held, length, eos, completion, cancelled, resp,
                     delivered, unread>>
  BY DEF DecodeText, DecodeNothing
<1>2. completion \in Tokens /\ content = delivered /\ delivered \in Seq(Tokens)
  BY <1>1 DEF InLoop, Texts, TypeOK, Tokens
<1>3. content' \in Seq(Tokens)
  BY <1>1, <1>2
<1>4. TypeOK'
  BY <1>1, <1>3 DEF TypeOK, PCs
<1>5. OneModel' /\ InLoad' /\ InSetup' /\ InLoop' /\ NoneYet' /\ FinishIsTrue'
  BY <1>1 DEF OneModel, Loaded, InLoad, PCs, InSetup, InLoop, NoneYet, FinishIsTrue,
              Generating
<1>6. Texts'
  <2>1. \A i \in 1..Len(delivered) :
           delivered[i] < completion /\ delivered[i] \in Nat /\ completion \in Nat
    BY <1>1, <1>2 DEF Texts, Tokens
  <2> QED
    BY <1>1, <1>2, <2>1 DEF Texts
<1> QED
  BY <1>4, <1>5, <1>6

LEMMA DeliverSteps ==
  ASSUME IInv, NEW ok \in BOOLEAN, Deliver(ok)
  PROVE  IInv'
<1> USE DEF IInv, object, setup, decode, history
<1>1. /\ pc = "deliver" /\ pc' = IF ok THEN "loop" ELSE "end"
      /\ delivered' = Append(delivered, completion)
      /\ cancelled' = ~ok
      /\ UNCHANGED <<object, setup, held, length, eos, completion, content, resp, unread>>
  BY DEF Deliver
<1>2. completion \in Tokens /\ delivered \in Seq(Tokens)
  BY <1>1 DEF InLoop, TypeOK, Tokens
<1>3. TypeOK'
  BY <1>1, <1>2 DEF TypeOK, PCs
<1>4. OneModel' /\ InLoad' /\ InSetup' /\ InLoop'
  BY <1>1 DEF OneModel, Loaded, InLoad, PCs, InSetup, InLoop
<1>6. NoneYet' /\ FinishIsTrue'
  <2>1. resp = NoResponse /\ ~cancelled /\ completion <= maxTokens
    BY <1>1 DEF NoneYet, FinishIsTrue, Generating
  <2>2. resp'.finish = "none"
    BY <1>1, <2>1 DEF NoResponse
  <2> QED
    BY <1>1, <2>1, <2>2 DEF NoneYet, FinishIsTrue, Generating
<1>5. Texts'
  <2>1. Len(delivered') = Len(delivered) + 1 /\ Len(delivered) \in Nat
    BY <1>1, <1>2
  <2>2. \A i \in 1..Len(delivered') :
          delivered'[i] = IF i = Len(delivered') THEN completion ELSE delivered[i]
    BY <1>1, <1>2, AppendProperties
  <2>3. \A i \in 1..Len(delivered) : delivered[i] < completion /\ delivered[i] \in Nat
    BY <1>1, <1>2 DEF Texts, Tokens
  <2>4. \A i \in 1..Len(delivered') : delivered'[i] <= completion
    BY <1>2, <2>1, <2>2, <2>3 DEF Tokens
  <2>5. content' = delivered'
    BY <1>1 DEF Texts
  <2> QED
    BY <1>1, <2>4, <2>5 DEF Texts
<1> QED
  BY <1>3, <1>4, <1>5, <1>6

LEMMA EndSteps ==
  ASSUME IInv, LoopEnds \/ Finish
  PROVE  IInv'
<1> USE DEF IInv, object, setup, decode, history
<1>1. CASE LoopEnds
  <2>1. TypeOK' /\ OneModel' /\ InLoad'
    BY <1>1 DEF TypeOK, OneModel, Loaded, InLoad, PCs, LoopEnds
  <2>2. InSetup' /\ InLoop' /\ NoneYet' /\ FinishIsTrue' /\ Texts'
    BY <1>1 DEF InSetup, InLoop, NoneYet, FinishIsTrue, Texts, Generating, LoopEnds, IsDone
  <2> QED
    BY <2>1, <2>2
<1>2. CASE Finish
  <2>1. TypeOK'
    BY <1>2 DEF TypeOK, PCs, Finish, Return, FinishReason
  <2>2. OneModel' /\ InLoad' /\ InSetup' /\ InLoop' /\ NoneYet' /\ Texts'
    BY <1>2 DEF OneModel, Loaded, InLoad, PCs, InSetup, InLoop, NoneYet, Texts, Generating,
                Finish, Return
  <2>3. FinishIsTrue'
    <3>1. /\ pc = "end" /\ pc' = "idle"
          /\ resp' = [finish |-> FinishReason, completion |-> completion]
          /\ UNCHANGED <<maxTokens, cancelled, eos, unread, completion>>
      BY <1>2 DEF Finish, Return
    <3>2. completion <= maxTokens /\ (cancelled \/ eos \/ unread \/ completion >= maxTokens)
      BY <3>1 DEF InLoop, TypeOK, IntMin
    <3>3. completion \in Int /\ maxTokens \in Int
      BY DEF TypeOK, IntMin
    <3>4. resp'.finish = FinishReason /\ resp'.completion = completion
      BY <3>1
    <3> QED
      BY <3>1, <3>2, <3>3, <3>4 DEF FinishIsTrue, FinishReason
  <2> QED
    BY <2>1, <2>2, <2>3
<1> QED
  BY <1>1, <1>2

LEMMA StepIInv == IInv /\ [Next]_vars => IInv'
<1> SUFFICES ASSUME IInv, [Next]_vars PROVE IInv'
  OBVIOUS
<1>1. CASE Call
  BY <1>1, LoadSteps, Begins DEF Call
<1>2. CASE Step
  BY <1>2, LoadSteps, SetupSteps, TokenSteps, DecodeSteps, DeliverSteps, EndSteps DEF Step
<1>3. CASE UNCHANGED vars
  <2> USE <1>3 DEF IInv, vars, object, setup, decode, history
  <2>1. TypeOK'
    BY DEF TypeOK
  <2>2. OneModel' /\ InLoad' /\ NoneYet' /\ FinishIsTrue'
    BY DEF OneModel, Loaded, InLoad, NoneYet, FinishIsTrue
  <2>3. InSetup' /\ InLoop' /\ Texts'
    BY DEF InSetup, MaxLength, Wrap, InLoop, Texts
  <2> QED
    BY <2>1, <2>2, <2>3
<1> QED
  BY <1>1, <1>2, <1>3 DEF Next

LEMMA EngineInvariance == Spec => []IInv
<1> QED
  BY InitIInv, StepIInv, PTL DEF Spec

-----------------------------------------------------------------------------
(* The properties of the runs, for every value of the constants *)

\* Nothing a call of generate() creates outlives the call, on any of its early
\* returns, and no count or max_length leaves its range, however large a
\* max_tokens a client sends.
THEOREM EngineTypeCorrect == Spec => []TypeOK
<1> QED
  BY EngineInvariance, PTL DEF IInv

\* Whatever loads succeeded and failed before, a request is formatted, encoded
\* and decoded for one and the same model.
THEOREM OneModelServes == Spec => []OneModel
<1> QED
  BY EngineInvariance, PTL DEF IInv

\* generate() never counts more tokens than were asked for, "length" stands for
\* exactly that many, and "stop" for the end of the sequence or a client's wish in a
\* call that could read every token it decoded (in another it need not).
THEOREM FinishReasonTrue == Spec => []FinishIsTrue
<1> QED
  BY EngineInvariance, PTL DEF IInv

-----------------------------------------------------------------------------
(* The engine keeps the contract of IInferenceEngine *)

USE DEF object, setup, decode, history

LEMMA InitContract == Init => Contract!Init
BY DEF Init, Contract!Init, Contract!NoResponse, NoResponse

\* What the contract sees does not change.
LEMMA Silent ==
  ASSUME IInv,
         \/ \E m \in Models : Load(m)
         \/ CreateModel \/ CreateTokenizer \/ LoadFails
         \/ SetupCall \/ NextToken \/ NextTokenUnread
         \/ DecodeText \/ DecodeNothing \/ LoopEnds
  PROVE  UNCHANGED Contract!vars
<1>1. /\ UNCHANGED <<delivered, cancelled, resp>>
      /\ (pc' \in {"idle", "load model", "load tokenizer"})
           <=> (pc \in {"idle", "load model", "load tokenizer"})
  BY SetupLength DEF Load, CreateModel, CreateTokenizer, LoadFails, SetupCall, NextToken,
     NextTokenUnread, DecodeText, DecodeNothing, LoopEnds
<1>2. content' = content \/ resp.finish = "none"
  <2>1. CASE DecodeText
    BY <2>1 DEF IInv, NoneYet, Generating, NoResponse, DecodeText
  <2>2. CASE ~DecodeText
    BY <2>2 DEF Load, CreateModel, CreateTokenizer, LoadFails, SetupCall, NextToken,
       NextTokenUnread, DecodeNothing, LoopEnds
  <2> QED
    BY <2>1, <2>2
<1> QED
  BY <1>1, <1>2 DEF Contract!vars

LEMMA BeginsContract ==
  ASSUME \E max \in IntMin..IntMax, n \in 1..MaxPrompt : Generate(max, n)
  PROVE  Contract!Begin
<1>1. /\ pc = "idle" /\ pc' = "setup"
      /\ delivered' = << >> /\ cancelled' = FALSE /\ resp' = NoResponse
  BY DEF Generate
<1> QED
  BY <1>1 DEF Contract!Begin, Contract!NoResponse, NoResponse

LEMMA RejectsContract == NotLoaded => Contract!Reject
BY DEF NotLoaded, Return, Contract!Reject

LEMMA DeliversContract ==
  ASSUME IInv, NEW ok \in BOOLEAN, Deliver(ok)
  PROVE  Contract!Deliver
<1>1. /\ pc = "deliver" /\ pc' \in {"loop", "end"}
      /\ delivered' = Append(delivered, completion)
      /\ cancelled' = ~ok
      /\ UNCHANGED <<completion, content, resp>>
  BY DEF Deliver
<1>2. completion \in Nat /\ delivered \in Seq(Nat)
  <2>1. completion \in Tokens /\ delivered \in Seq(Tokens)
    BY <1>1 DEF IInv, InLoop, TypeOK, Tokens
  <2> QED
    BY <2>1 DEF Tokens
<1>3. ~cancelled /\ resp.finish = "none"
  BY <1>1 DEF IInv, NoneYet, Generating, NoResponse
<1>4. delivered' \in Seq(Nat) /\ Len(delivered') = Len(delivered) + 1
  BY <1>1, <1>2
<1>5. delivered'[Len(delivered')] = completion
  BY <1>1, <1>2, AppendProperties
<1>6. \A i \in 1..Len(delivered) : delivered'[i] = delivered[i] /\ delivered[i] < completion
  BY <1>1, <1>2, AppendProperties DEF IInv, Texts
<1> QED
  BY <1>1, <1>3, <1>4, <1>5, <1>6 DEF Contract!Deliver

LEMMA ReturnsContract ==
  ASSUME IInv, SetupFails \/ NextTokenFails \/ Finish
  PROVE  Contract!Return
<1>1. /\ pc \in {"setup", "loop", "end"} /\ pc' = "idle"
      /\ UNCHANGED <<delivered, cancelled, content>>
      /\ pc # "end" => resp'.finish = "error"
      /\ pc = "end" => resp'.finish = FinishReason
  BY DEF SetupFails, NextTokenFails, Finish, Return
<1>2. content = delivered /\ (cancelled => pc = "end")
  BY <1>1 DEF IInv, Texts, NoneYet, Generating
<1>3. resp'.finish \in IF cancelled THEN {"stop"} ELSE {"stop", "length", "error"}
  BY <1>1, <1>2 DEF FinishReason
<1> QED
  BY <1>1, <1>2, <1>3 DEF Contract!Return

LEMMA StepContract == IInv /\ [Next]_vars => [Contract!Next]_(Contract!vars)
<1> SUFFICES ASSUME IInv, [Next]_vars PROVE [Contract!Next]_(Contract!vars)
  OBVIOUS
<1>1. CASE Call
  BY <1>1, Silent, BeginsContract, RejectsContract DEF Call, Contract!Next
<1>2. CASE Step
  BY <1>2, Silent, DeliversContract, ReturnsContract DEF Step, Contract!Next
<1>3. CASE UNCHANGED vars
  BY <1>3 DEF vars, Contract!vars
<1> QED
  BY <1>1, <1>2, <1>3 DEF Next

\* The decode loop keeps the contract of generate(): tokens reach on_token once
\* each and in order, none after a refusal, and resp.content is what was handed
\* over.
THEOREM KeepsContract == Spec => ImplementsGeneration
<1> QED
  BY EngineInvariance, InitContract, StepContract, PTL
  DEF Spec, ImplementsGeneration, Contract!Spec
=============================================================================
