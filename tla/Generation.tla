----------------------------- MODULE Generation -----------------------------
(***************************************************************************)
(* core/pal/IInferenceEngine.h: what an engine promises to whoever calls   *)
(* generate().  One generation at a time; the tokens go to on_token one by *)
(* one, in the order of decoding and each once, until on_token refuses     *)
(* one; the call returns one response, whose content is what was handed    *)
(* over and whose finish reason does not hide a refusal.  A token is named *)
(* by its place in the completion; one without text has none to hand over. *)
(***************************************************************************)
EXTENDS Naturals, Sequences

VARIABLES running,    \* generate() is running
          tokens,     \* what on_token was called with
          refused,    \* on_token has returned false
          response    \* what the last call returned

vars == <<running, tokens, refused, response>>

NoResponse == [finish |-> "none", content |-> << >>]

Init ==
  /\ running = FALSE
  /\ tokens = << >>
  /\ refused = FALSE
  /\ response = NoResponse

Begin ==
  /\ ~running
  /\ running' = TRUE
  /\ tokens' = << >>
  /\ refused' = FALSE
  /\ response' = NoResponse

\* A call that cannot be served returns at once (no model, a full queue).
Reject ==
  /\ ~running
  /\ tokens' = << >>
  /\ refused' = FALSE
  /\ response' = [finish |-> "error", content |-> << >>]
  /\ UNCHANGED running

Deliver ==
  /\ running
  /\ ~refused
  /\ tokens' \in Seq(Nat)
  /\ Len(tokens') = Len(tokens) + 1
  /\ \A i \in 1..Len(tokens) :
       tokens'[i] = tokens[i] /\ tokens[i] < tokens'[Len(tokens')]
  /\ refused' \in BOOLEAN
  /\ UNCHANGED <<running, response>>

Return ==
  /\ running
  /\ running' = FALSE
  /\ \E f \in IF refused THEN {"stop"} ELSE {"stop", "length", "error"} :
       response' = [finish |-> f, content |-> tokens]
  /\ UNCHANGED <<tokens, refused>>

Next == Begin \/ Reject \/ Deliver \/ Return

Spec == Init /\ [][Next]_vars
=============================================================================
