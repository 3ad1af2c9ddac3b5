-------------------------- MODULE MCHfDownloadProbe --------------------------
(* The instances of HfDownloadProbe for TLC: two files and two launches, so    *)
(* that the second finds what a kill of the first has left at any moment.      *)
EXTENDS HfDownloadProbe
=============================================================================
