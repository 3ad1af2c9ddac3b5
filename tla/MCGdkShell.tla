----------------------------- MODULE MCGdkShell -----------------------------
(* The instance of GdkShell for TLC: the program has one thread of each kind. *)
EXTENDS GdkShell
=============================================================================
