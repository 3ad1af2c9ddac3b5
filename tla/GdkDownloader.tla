---------------------------- MODULE GdkDownloader ----------------------------
(***************************************************************************)
(* pal/gdk-desktop/GdkDownloader.{h,cpp}: a set of files is fetched over   *)
(* HTTP into a directory by one worker thread (worker_fn, download_file),  *)
(* started, cancelled and destroyed from other threads.  Each file is      *)
(* written to <dest>.tmp and renamed; a HEAD request gives the length the  *)
(* result is checked against.  The process may die at any moment and start *)
(* again over the directory it left.                                       *)
(*                                                                         *)
(* A file is the sequence of the units written to it; the units of item i  *)
(* are 1..Sizes[i] in that order on the server.  A unit stands for the     *)
(* bytes one ReadData call returns (at most 64 KiB).                       *)
(***************************************************************************)
EXTENDS Integers, Sequences

CONSTANTS Sizes,           \* what the server holds: a length for each item
          Absent,          \* no such file
          PageSizes,       \* what Content-Length an error page may have
          MaxStarts        \* bound on the calls of start()

ASSUME DownloaderConstants ==
  /\ Sizes \in Seq(Nat) /\ Sizes # << >>
  /\ Absent \notin Seq(Nat)
  /\ PageSizes \subseteq Nat
  /\ MaxStarts \in Nat

Items == 1..Len(Sizes)

VARIABLES server,     \* what the server is like; it does not change
          dest,       \* the file at dest_path of each item
          tmp,        \* the file at dest_path + ".tmp"
          unflushed,  \* the items of which close() once lost a part, unseen
          bad,        \* the items of the current set whose URL does not parse
          owner,      \* the thread in start() or in the destructor
          accepted,   \* what the last start() returned
          starts,     \* how often start() was called
          cancelled,  \* cancelled_
          worker,     \* where the worker thread is
          idx,        \* i, in the loop the worker is in
          sizes,      \* remote_sizes
          onDisk,     \* on_disk of the item in hand
          resume,     \* resume_from
          pos,        \* how much of the item the server has sent
          fileBytes,  \* file_bytes
          base,       \* global_bytes_done
          shown,      \* bytes_done of the last progress report
          done        \* the calls of on_done for the current set

disk == <<dest, tmp, unflushed>>
api == <<server, bad, owner, accepted, starts>>
transfer == <<idx, sizes, onDisk, resume, pos, fileBytes>>
progress == <<base, shown>>
vars == <<disk, api, cancelled, worker, transfer, progress, done>>

\* In download_file.
Fetching == {"get", "send", "read", "verify", "remove", "rename"}

\* In worker_fn: the session, the pre-pass, the download pass.
Running == {"open", "size", "pick"} \cup Fetching

\* The first n units of an item, as the server sends them.
Units(n) == [k \in 1..n |-> k]
Intact(i) == Units(Sizes[i])

OnDisk(i) == IF dest[i] = Absent THEN 0 ELSE Len(dest[i])

\* The bytes of the first n items, added up one by one.
BytesUpTo(length, n) ==
  LET sum[k \in 0..Len(Sizes)] == IF k = 0 THEN 0 ELSE sum[k - 1] + length[k]
  IN  sum[n]

\* total_bytes, the denominator of every progress report: 0 unless every length is
\* known and positive.
TotalBytes ==
  IF \A i \in Items : sizes[i] > 0 THEN BytesUpTo(sizes, Len(Sizes)) ELSE 0

NoSizes == [i \in Items |-> -1]

\* lengths: HEAD always gives the length of the file; otherwise it may give it,
\* or nothing, or the length of an error page.
\* ranges: Range requests are answered with 206 or 416, not with the whole file.
Servers == [lengths : BOOLEAN, ranges : BOOLEAN]

Init ==
  /\ server \in Servers
  /\ dest = [i \in Items |-> Absent]
  /\ tmp = [i \in Items |-> Absent]
  /\ unflushed = {}
  /\ bad = {}
  /\ owner = "idle" /\ accepted = "none" /\ starts = 0
  /\ cancelled = FALSE
  /\ worker = "none"
  /\ idx = 1
  /\ sizes = NoSizes
  /\ onDisk = 0 /\ resume = 0 /\ pos = 0 /\ fileBytes = 0
  /\ base = 0 /\ shown = 0
  /\ done = << >>

-----------------------------------------------------------------------------
(* start(), cancel() and the destructor *)

\* A call with an empty set, which is reported as done at once; the set in
\* flight, whose callbacks are others, is left alone.
StartEmpty ==
  /\ owner = "idle"
  /\ starts < MaxStarts
  /\ starts' = starts + 1
  /\ accepted' = "true"
  /\ UNCHANGED <<server, disk, bad, owner, cancelled, worker, transfer, progress, done>>

\* A call with a set of items.
StartCall ==
  /\ owner = "idle"
  /\ starts < MaxStarts
  /\ starts' = starts + 1
  /\ owner' = "joining"
  /\ UNCHANGED <<server, disk, bad, accepted, cancelled, worker, transfer, progress, done>>

\* worker_.join() of the previous set, if there was one.
StartJoin ==
  /\ owner = "joining"
  /\ worker \notin Running
  /\ worker' = "none"
  /\ owner' = "reset"
  /\ UNCHANGED <<server, disk, bad, accepted, starts, cancelled, transfer, progress, done>>

StartReset ==
  /\ owner = "reset"
  /\ cancelled' = FALSE
  /\ owner' = "launch"
  /\ done' = << >>
  /\ UNCHANGED <<server, disk, bad, accepted, starts, worker, transfer, progress>>

StartLaunch ==
  /\ owner = "launch"
  /\ owner' = "idle"
  /\ accepted' = "true"
  /\ bad' \in SUBSET Items
  /\ worker' = "open"
  /\ idx' = 1
  /\ sizes' = NoSizes
  /\ base' = 0 /\ shown' = 0
  /\ UNCHANGED <<server, disk, starts, cancelled, onDisk, resume, pos, fileBytes, done>>

StartLaunchFails ==
  /\ owner = "launch"
  /\ owner' = "idle"
  /\ accepted' = "false"
  /\ done' = Append(done, FALSE)
  /\ UNCHANGED <<server, disk, bad, starts, cancelled, worker, transfer, progress>>

\* From any thread, at any time.
Cancel ==
  /\ owner # "destroyed"
  /\ cancelled' = TRUE
  /\ UNCHANGED <<disk, api, worker, transfer, progress, done>>

Destroy ==
  /\ owner = "idle"
  /\ cancelled' = TRUE
  /\ owner' = "destroying"
  /\ UNCHANGED <<server, disk, bad, accepted, starts, worker, transfer, progress, done>>

DestroyJoin ==
  /\ owner = "destroying"
  /\ worker \notin Running
  /\ owner' = "destroyed"
  /\ UNCHANGED <<server, disk, bad, accepted, starts, cancelled, worker, transfer, progress, done>>

-----------------------------------------------------------------------------
(* worker_fn: on_done is called once, and the thread is over *)

Finish(ok) ==
  /\ done' = Append(done, ok)
  /\ worker' = "over"

\* The units written since the temporary file was opened.  While it is open any
\* number of them may still be in the stream.
Unwritten == IF worker = "read" THEN fileBytes - resume ELSE 0

\* What is left of the temporary file when the stream is closed, by close() or
\* by its destructor, and the disk does not take what was in it.
Left == {SubSeq(tmp[idx], 1, n) : n \in (Len(tmp[idx]) - Unwritten)..Len(tmp[idx])}

\* Every early exit of worker_fn: on_done(false, error).
Fail ==
  /\ Finish(FALSE)
  /\ IF worker = "read"
       THEN \E f \in Left : tmp' = [tmp EXCEPT ![idx] = f]
       ELSE UNCHANGED tmp
  /\ UNCHANGED <<dest, unflushed, api, cancelled, transfer, progress>>

\* The check at the top of both loops and at the top of download_file, and the
\* one before each chunk.
SeeCancelled ==
  /\ worker \in {"size", "pick"} => idx <= Len(Sizes)
  /\ worker \in {"size", "pick", "get", "read"}
  /\ cancelled
  /\ Fail

\* WinHttpOpen.
OpenSession ==
  /\ worker = "open"
  /\ worker' = "size"
  /\ UNCHANGED <<disk, api, cancelled, transfer, progress, done>>

OpenSessionFails ==
  /\ worker = "open"
  /\ Fail

\* Content-Length is taken from any response: its status is not looked at.
HeadReplies(i) ==
  IF i \in bad THEN {-1}
  ELSE {Sizes[i]} \cup (IF server.lengths THEN {} ELSE {-1} \cup PageSizes)

\* One item of the pre-pass.
SizeItem ==
  /\ worker = "size"
  /\ idx <= Len(Sizes)
  /\ ~cancelled
  /\ \E s \in HeadReplies(idx) : sizes' = [sizes EXCEPT ![idx] = s]
  /\ idx' = idx + 1
  /\ UNCHANGED <<disk, api, cancelled, worker, onDisk, resume, pos, fileBytes,
                 progress, done>>

BeginDownloads ==
  /\ worker = "size"
  /\ idx > Len(Sizes)
  /\ worker' = "pick"
  /\ idx' = 1
  /\ base' = 0
  /\ UNCHANGED <<disk, api, cancelled, sizes, onDisk, resume, pos, fileBytes, shown, done>>

Complete(i) == sizes[i] > 0 /\ OnDisk(i) = sizes[i]

Skip ==
  /\ worker = "pick"
  /\ idx <= Len(Sizes)
  /\ ~cancelled
  /\ Complete(idx)
  /\ base' = base + sizes[idx]
  /\ shown' = base'
  /\ onDisk' = OnDisk(idx)
  /\ idx' = idx + 1
  /\ UNCHANGED <<disk, api, cancelled, worker, sizes, resume, pos, fileBytes, done>>

\* The partial file that is resumed is the one at dest_path.
BeginItem ==
  /\ worker = "pick"
  /\ idx <= Len(Sizes)
  /\ ~cancelled
  /\ ~Complete(idx)
  /\ idx \notin bad
  /\ onDisk' = OnDisk(idx)
  /\ resume' = IF sizes[idx] < 0 \/ onDisk' < sizes[idx] THEN onDisk' ELSE 0
  /\ worker' = "get"
  /\ UNCHANGED <<disk, api, cancelled, idx, sizes, pos, fileBytes, progress, done>>

\* Variant for validation: on_done(false) without the return after it.
MalformedUrlGoesOn ==
  /\ worker = "pick"
  /\ idx \in bad
  /\ ~cancelled
  /\ ~Complete(idx)
  /\ done' = Append(done, FALSE)
  /\ idx' = idx + 1
  /\ UNCHANGED <<disk, api, cancelled, worker, sizes, onDisk, resume, pos, fileBytes,
                 progress>>

MalformedUrl ==
  /\ worker = "pick"
  /\ idx \in bad
  /\ ~cancelled
  /\ ~Complete(idx)
  /\ Fail

\* After the last item on_done(true) is called without looking at cancelled_.
AllDone ==
  /\ worker = "pick"
  /\ idx > Len(Sizes)
  /\ Finish(TRUE)
  /\ UNCHANGED <<disk, api, cancelled, transfer, progress>>

-----------------------------------------------------------------------------
(* download_file *)

\* Append mode when resuming, truncate otherwise: of the file at tmp_path.
OpenTmp ==
  /\ worker = "get"
  /\ ~cancelled
  /\ tmp' = [tmp EXCEPT ![idx] =
               IF resume > 0 /\ tmp[idx] # Absent THEN tmp[idx] ELSE << >>]
  /\ worker' = "send"
  /\ UNCHANGED <<dest, unflushed, api, cancelled, transfer, progress, done>>

OpenFails ==
  /\ worker = "get"
  /\ ~cancelled
  /\ Fail

\* A Range request past the end is answered with 416, which is a failure.
Ranged == resume > 0 /\ server.ranges

\* Variant for validation: file_bytes goes on from the item before.
RespondKeepsCount ==
  /\ worker = "send"
  /\ Ranged => resume < Sizes[idx]
  /\ pos' = IF Ranged THEN resume ELSE 0
  /\ fileBytes' = fileBytes + resume
  /\ worker' = "read"
  /\ UNCHANGED <<disk, api, cancelled, idx, sizes, onDisk, resume, progress, done>>

Respond ==
  /\ worker = "send"
  /\ Ranged => resume < Sizes[idx]
  /\ pos' = IF Ranged THEN resume ELSE 0
  /\ fileBytes' = resume
  /\ worker' = "read"
  /\ UNCHANGED <<disk, api, cancelled, idx, sizes, onDisk, resume, progress, done>>

\* No connection, no response, or a status other than 200 and 206.
RequestFails ==
  /\ worker = "send"
  /\ Fail

ReadChunk ==
  /\ worker = "read"
  /\ ~cancelled
  /\ pos < Sizes[idx]
  /\ pos' = pos + 1
  /\ tmp' = [tmp EXCEPT ![idx] = Append(@, pos + 1)]
  /\ fileBytes' = fileBytes + 1
  /\ shown' = base + fileBytes'
  /\ UNCHANGED <<dest, unflushed, api, cancelled, worker, idx, sizes, onDisk, resume, base, done>>

WriteFails ==
  /\ worker = "read"
  /\ ~cancelled
  /\ pos < Sizes[idx]
  /\ Fail

\* Variant for validation: an empty read is tried again, not taken as the end.
EmptyReadRetried ==
  /\ worker = "read"
  /\ ~cancelled
  /\ UNCHANGED vars

\* The end of the response and a lost connection leave the loop the same way.
\* The result of close() is not looked at.
EndOfBody ==
  /\ worker = "read"
  /\ ~cancelled
  /\ \E f \in Left :
       /\ tmp' = [tmp EXCEPT ![idx] = f]
       /\ unflushed' = IF f = tmp[idx] THEN unflushed ELSE unflushed \cup {idx}
  /\ worker' = "verify"
  /\ UNCHANGED <<dest, api, cancelled, transfer, progress, done>>

\* Variant for validation: the length is not checked.
NeverWrongSize == FALSE

WrongSize == sizes[idx] > 0 /\ fileBytes # sizes[idx]

SizeMismatch ==
  /\ worker = "verify"
  /\ WrongSize
  /\ Fail

Accept ==
  /\ worker = "verify"
  /\ ~WrongSize
  /\ worker' = "remove"
  /\ UNCHANGED <<disk, api, cancelled, transfer, progress, done>>

\* The result of remove() is not looked at.
RemoveOld ==
  /\ worker = "remove"
  /\ \E f \in {Absent, dest[idx]} : dest' = [dest EXCEPT ![idx] = f]
  /\ worker' = "rename"
  /\ UNCHANGED <<tmp, unflushed, api, cancelled, transfer, progress, done>>

\* Variant for validation: what was on disk is counted, not what was fetched.
RenameCountsOnDisk ==
  /\ worker = "rename"
  /\ dest' = [dest EXCEPT ![idx] = tmp[idx]]
  /\ tmp' = [tmp EXCEPT ![idx] = Absent]
  /\ base' = base + onDisk
  /\ idx' = idx + 1
  /\ worker' = "pick"
  /\ UNCHANGED <<unflushed, api, cancelled, sizes, onDisk, resume, pos, fileBytes, shown,
                 done>>

\* Variant for validation: the index is advanced here and again by the loop.
RenameAdvancesTwice ==
  /\ worker = "rename"
  /\ dest' = [dest EXCEPT ![idx] = tmp[idx]]
  /\ tmp' = [tmp EXCEPT ![idx] = Absent]
  /\ base' = base + (IF sizes[idx] > 0 THEN sizes[idx] ELSE onDisk)
  /\ idx' = idx + 2
  /\ worker' = "pick"
  /\ UNCHANGED <<unflushed, api, cancelled, sizes, onDisk, resume, pos, fileBytes, shown,
                 done>>

Rename ==
  /\ worker = "rename"
  /\ dest' = [dest EXCEPT ![idx] = tmp[idx]]
  /\ tmp' = [tmp EXCEPT ![idx] = Absent]
  /\ base' = base + (IF sizes[idx] > 0 THEN sizes[idx] ELSE onDisk)
  /\ idx' = idx + 1
  /\ worker' = "pick"
  /\ UNCHANGED <<unflushed, api, cancelled, sizes, onDisk, resume, pos, fileBytes, shown,
                 done>>

\* Variant for validation: the error code of rename() is not looked at.
RenameErrorIgnored ==
  /\ worker = "rename"
  /\ base' = base + sizes[idx]
  /\ idx' = idx + 1
  /\ worker' = "pick"
  /\ UNCHANGED <<disk, api, cancelled, sizes, onDisk, resume, pos, fileBytes, shown, done>>

RenameFails ==
  /\ worker = "rename"
  /\ Fail

-----------------------------------------------------------------------------

\* The process dies, and what the stream had not written dies with it.
Crash ==
  /\ owner # "destroyed"
  /\ worker # "none"
  /\ IF worker = "read"
       THEN \E f \in Left : tmp' = [tmp EXCEPT ![idx] = f]
       ELSE UNCHANGED tmp
  /\ bad' = {}
  /\ owner' = "idle" /\ accepted' = "none"
  /\ cancelled' = FALSE
  /\ worker' = "none"
  /\ idx' = 1
  /\ sizes' = NoSizes
  /\ onDisk' = 0 /\ resume' = 0 /\ pos' = 0 /\ fileBytes' = 0
  /\ base' = 0 /\ shown' = 0
  /\ done' = << >>
  /\ UNCHANGED <<server, dest, unflushed, starts>>

OwnerStep ==
  \/ StartJoin \/ StartReset \/ StartLaunch \/ StartLaunchFails \/ DestroyJoin

WorkerStep ==
  \/ OpenSession \/ OpenSessionFails
  \/ SeeCancelled \/ SizeItem \/ BeginDownloads
  \/ Skip \/ BeginItem \/ MalformedUrl \/ AllDone
  \/ OpenTmp \/ OpenFails \/ Respond \/ RequestFails
  \/ ReadChunk \/ WriteFails \/ EndOfBody
  \/ SizeMismatch \/ Accept \/ RemoveOld \/ Rename \/ RenameFails

Next == StartEmpty \/ StartCall \/ Cancel \/ Destroy \/ OwnerStep \/ WorkerStep \/ Crash

\* The threads that were started run, and each request to the network returns:
\* WinHTTP gives every wait a timeout.  Nobody has to call anything.
Fairness == WF_vars(OwnerStep) /\ WF_vars(WorkerStep)

Spec == Init /\ [][Next]_vars

FairSpec == Spec /\ Fairness

-----------------------------------------------------------------------------
(* Safety *)

Files == Seq(Nat) \cup {Absent}

\* Every variable has its type.
TypeOK ==
  /\ server \in Servers
  /\ dest \in [Items -> Files] /\ tmp \in [Items -> Files]
  /\ unflushed \subseteq Items
  /\ bad \subseteq Items
  /\ owner \in {"idle", "joining", "reset", "launch", "destroying", "destroyed"}
  /\ accepted \in {"none", "true", "false"}
  /\ starts \in 0..MaxStarts
  /\ cancelled \in BOOLEAN
  /\ worker \in Running \cup {"none", "over"}
  /\ idx \in 1..(Len(Sizes) + 1)
  /\ worker \in Fetching => idx \in Items
  /\ sizes \in [Items -> Int]
  /\ onDisk \in Nat /\ resume \in Nat /\ pos \in Nat
  /\ fileBytes \in Nat /\ base \in Nat /\ shown \in Nat
  /\ done \in Seq(BOOLEAN)

\* Where HEAD tells the lengths, a file a reader finds at its final path is
\* whole: nothing a failed, cancelled or interrupted transfer leaves behind,
\* over any number of restarts, ever carries the final name.  Excepted are the
\* items of which close() lost a part, which the code cannot see; such a loss
\* harms no other item.
DestIntact ==
  server.lengths => \A i \in Items \ unflushed : dest[i] \in {Absent, Intact(i)}

\* on_done(true) means that the given items are complete (IDownloader.h:32).
OkIsTrueOf(S) ==
  worker = "over" /\ done = <<TRUE>> => \A i \in S : dest[i] = Intact(i)

\* So it does where HEAD tells the lengths, of every item close() wrote whole.
OkMeansComplete == server.lengths => OkIsTrueOf(Items \ unflushed)

\* on_done is called exactly once, and it is the last thing the worker does.
DoneExactlyOnce ==
  /\ worker \in Running => done = << >>
  /\ worker = "over" => Len(done) = 1

\* While a set with known lengths is in flight bytes_done never goes back,
\* whatever was skipped or fetched before.
ProgressIsMonotone ==
  [][(worker \in Running /\ worker' \in Running /\ TotalBytes > 0) => shown' >= shown]_vars

\* A fetch starts at the length it is counted from: the server honours Range, or
\* there is nothing short on the disk to resume.
CountedFromTheStart == server.ranges \/ (server.lengths /\ unflushed = {})

\* Nor does it pass the total it is reported with, when the lengths that HEAD
\* gave are the lengths of the files; unless a file that is short, because its
\* transfer could not be checked, is resumed at a server that sends the whole
\* file again.
ProgressInRange ==
  worker \in Running /\ TotalBytes > 0 /\ sizes = Sizes /\ CountedFromTheStart =>
    shown <= TotalBytes

-----------------------------------------------------------------------------
(* What makes them inductive *)

\* A temporary file is there from the moment it was opened to its rename.
Opened ==
  worker \in {"send", "read", "verify", "remove", "rename"} => tmp[idx] # Absent

\* start() launches a set with no worker left, nothing reported, and the first
\* item in hand.
FreshSet ==
  /\ owner \in {"reset", "launch"} => worker = "none"
  /\ owner = "launch" => done = << >>
  /\ worker = "open" => idx = 1

\* Inductive for every server and every disk.
ControlInv == TypeOK /\ Opened /\ FreshSet /\ DoneExactlyOnce

\* After the pre-pass the length of every item with a URL is the server's, and
\* only such items are fetched.
LengthsKnown ==
  /\ \A i \in Items : sizes[i] \in {-1, Sizes[i]}
  /\ \A i \in Items \ bad :
       \/ worker = "size" /\ i < idx
       \/ worker \in {"pick"} \cup Fetching
       => sizes[i] = Sizes[i]
  /\ worker \in Fetching => idx \notin bad

\* The temporary file holds what the server has sent so far, from the start.
Transferred ==
  idx \notin unflushed =>
    /\ worker \in {"get", "send"} => resume = 0
    /\ worker = "send" => tmp[idx] = << >>
    /\ worker \in {"read", "verify"} =>
         tmp[idx] = Units(pos) /\ pos <= Sizes[idx] /\ fileBytes = pos
    /\ worker \in {"remove", "rename"} => tmp[idx] = Intact(idx)

\* The items before the one in hand are complete.
EarlierComplete ==
  worker \in {"pick"} \cup Fetching =>
    \A i \in Items \ unflushed : i < idx => dest[i] = Intact(i)

\* Inductive with ControlInv.
ContentInv ==
  server.lengths =>
    /\ DestIntact /\ LengthsKnown /\ Transferred /\ EarlierComplete
    /\ OkIsTrueOf(Items \ unflushed)

-----------------------------------------------------------------------------
(* Liveness *)

\* A set that was started comes to its end, and so do start() and the
\* destructor, which wait for it.
EverythingReturns ==
  /\ (worker \in Running) ~> (worker \notin Running)
  /\ (owner # "idle") ~> (owner \in {"idle", "destroyed"})

-----------------------------------------------------------------------------
(* What the comments of the code promise and the code does not keep *)

\* IDownloader.h:32: on_done(true) means that all items are complete, at least where
\* HEAD tells the lengths and the result can be checked.
CheckedOkIsTrue == server.lengths => OkIsTrueOf(Items)

\* GdkDownloader.cpp:8: a partial file is resumed with Range.  Where the server
\* answers with the range and nothing is lost at close(), what passes the length
\* check is the file.
AcceptedIsIntact ==
  server.ranges /\ unflushed = {} /\ worker = "remove" /\ sizes[idx] > 0 =>
    tmp[idx] = Intact(idx)
=============================================================================
