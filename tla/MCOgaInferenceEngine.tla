------------------------ MODULE MCOgaInferenceEngine ------------------------
(* The instance of OgaInferenceEngine for TLC: two models, and integers small  *)
(* enough for prompt plus max_tokens to overflow.                              *)
EXTENDS OgaInferenceEngine
=============================================================================
