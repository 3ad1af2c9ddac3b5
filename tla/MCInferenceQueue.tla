-------------------------- MODULE MCInferenceQueue --------------------------
(***************************************************************************)
(* The instance of InferenceQueue for TLC: one caller more than there are  *)
(* places, so that callers race for the last one and one is refused.       *)
(***************************************************************************)
EXTENDS InferenceQueue
=============================================================================
