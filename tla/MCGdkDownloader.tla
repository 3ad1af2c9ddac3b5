--------------------------- MODULE MCGdkDownloader ---------------------------
(* Instances of GdkDownloader for TLC. *)
EXTENDS GdkDownloader

\* Two items, one of them fetched in more than one read, so that a transfer can
\* break in the middle and progress carries over from one item to the next.
MCSizes == <<2, 1>>

\* One item of two reads, for the runs that need several starts.
MCOneItem == <<2>>

\* An error page as long as a part of an item, and one longer than any.
MCPageSizes == {1, 3}

\* No error pages: HEAD gives the length of the file or nothing.
MCNoPages == {}
=============================================================================
