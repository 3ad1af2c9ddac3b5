--------------------------- MODULE HfDownloadProbe ---------------------------
(***************************************************************************)
(* xbprobe/xbprobe/HfDownloadProbe.cpp with the part of App.cpp around it: *)
(* the model's files are fetched one after the other by transfers that the *)
(* system carries on with while the app is dead.  A worker starts or joins *)
(* the transfer of each file and waits for it; progress handlers run on    *)
(* other threads; both rewrite the report, under g_mtx.  The window thread *)
(* polls g_complete for the colour of the screen.                          *)
(*                                                                         *)
(* Sizes are counted in units, the granularity of progress.                *)
(***************************************************************************)
EXTENDS Integers, Sequences

CONSTANTS NumFiles,      \* the length of kFiles
          Size,          \* the expected size of each file
          MaxLaunches    \* bound on the launches of the app

ASSUME ProbeConstants == NumFiles \in Nat \ {0} /\ Size \in Nat \ {0} /\ MaxLaunches \in Nat

Files == 1..NumFiles
NoFile == 0
NoReport == [lines |-> << >>, live |-> NoFile]

VARIABLES
  \* outside the process
  served,     \* the size of each file on the server
  disk,       \* the size of each file in the folder, -1 if there is none
  transfer,   \* the system's transfer to each file
  report,     \* the report file: its lines, and the live line after them
  full,       \* the disk may refuse a part of what is written
  launches,   \* how often the app was started
  \* in the process
  worker,     \* where DownloadWorker() is
  idx,        \* the index of the file in hand
  current,    \* the files with a transfer when the worker asked
  status,     \* how the transfer waited for ended
  handlers,   \* the progress handlers about to take g_mtx
  body,       \* g_body
  live,       \* g_live: the file of the live line
  complete,   \* g_complete
  blue        \* the screen shows that the file set is complete

system == <<served, disk, transfer, full, launches>>
log == <<report, body, live>>
vars == <<system, log, worker, idx, current, status, handlers, complete, blue>>

Running == {"head", "folders", "current", "file", "attach", "create", "start", "await",
            "ended", "count", "summary"}

Init ==
  /\ served \in [Files -> {Size - 1, Size}]    \* a file may have changed
  /\ disk = [f \in Files |-> -1]
  /\ transfer = [f \in Files |-> "none"]
  /\ report = NoReport
  /\ full \in BOOLEAN
  /\ launches = 0
  /\ worker = "off" /\ idx = 1 /\ current = {} /\ status = "none"
  /\ handlers = {}
  /\ body = << >> /\ live = NoFile
  /\ complete = FALSE /\ blue = FALSE

-----------------------------------------------------------------------------
(* The report *)

\* What a write that is cut short leaves of a report.
Cuts(lines) == {[lines |-> SubSeq(lines, 1, n), live |-> NoFile] : n \in 0..Len(lines)}

\* The file is truncated and written anew.  Nothing happens if it cannot be
\* opened (somebody who reads it is enough); what WriteFile wrote is not looked
\* at.
WriteReport(lines, f) ==
  \/ report' = report
  \/ report' = [lines |-> lines, live |-> f]
  \/ full /\ report' \in Cuts(lines)

\* AppendBody, under g_mtx: the line is added, the live line goes, and the
\* whole report is written.
AppendBody(what, f) ==
  /\ body' = Append(body, [what |-> what, file |-> f])
  /\ live' = NoFile
  /\ WriteReport(body', NoFile)

\* Variant for validation: the handler forms the report before it takes g_mtx.
FlushStale(h) ==
  /\ live' = h.file
  /\ WriteReport(SubSeq(body, 1, h.seen), h.file)
  /\ handlers' = handlers \ {h}
  /\ UNCHANGED <<system, worker, idx, current, status, body, complete, blue>>

\* The end of a progress handler, which may be late.
HandlerFlush(h) ==
  /\ live' = h.file
  /\ WriteReport(body, h.file)
  /\ handlers' = handlers \ {h}
  /\ UNCHANGED <<system, worker, idx, current, status, body, complete, blue>>

-----------------------------------------------------------------------------
(* The app and the system *)

\* ProbeView::Run: the capability report, and the worker.
Launch ==
  /\ worker = "off"
  /\ launches < MaxLaunches
  /\ launches' = launches + 1
  /\ WriteReport(<< >>, NoFile)
  /\ worker' = "head"
  /\ UNCHANGED <<served, disk, transfer, full, idx, current, status, handlers, body, live,
                 complete, blue>>

Poll ==
  /\ complete /\ ~blue
  /\ blue' = TRUE
  /\ UNCHANGED <<system, log, worker, idx, current, status, handlers, complete>>

\* The app is closed or killed; a report being written is cut short.
Terminate ==
  /\ worker # "off"
  /\ report' \in {report} \cup Cuts(body)
  /\ worker' = "off" /\ idx' = 1 /\ current' = {} /\ status' = "none"
  /\ handlers' = {}
  /\ body' = << >> /\ live' = NoFile
  /\ complete' = FALSE /\ blue' = FALSE
  /\ UNCHANGED system

\* A transfer goes on, whether the app runs or not; if it is waited for, a
\* progress handler may start (one in flight at a time, as the bound).
Fetch(f) ==
  /\ transfer[f] = "active"
  /\ disk[f] < served[f]
  /\ disk' = [disk EXCEPT ![f] = @ + 1]
  /\ handlers' \in {handlers} \cup
       (IF worker = "await" /\ idx = f /\ handlers = {}
        THEN {{[file |-> f, seen |-> Len(body)]}} ELSE {})
  /\ UNCHANGED <<served, transfer, full, launches, log, worker, idx, current, status,
                 complete, blue>>

TransferEnds(f) ==
  /\ transfer[f] = "active"
  /\ transfer' \in {[transfer EXCEPT ![f] = "failed"]} \cup
       (IF disk[f] = served[f] THEN {[transfer EXCEPT ![f] = "completed"]} ELSE {})
  /\ UNCHANGED <<served, disk, full, launches, log, worker, idx, current, status, handlers,
                 complete, blue>>

\* The disk fills up, or is given room.
RoomChanges ==
  /\ full' = ~full
  /\ UNCHANGED <<served, disk, transfer, launches, log, worker, idx, current, status,
                 handlers, complete, blue>>

-----------------------------------------------------------------------------
(* DownloadWorker() *)

Head0 == [what |-> "T4", file |-> NoFile]

WriteHead ==
  /\ worker = "head"
  /\ body' = <<Head0>>
  /\ WriteReport(body', live)
  /\ worker' = "folders"
  /\ UNCHANGED <<system, live, idx, current, status, handlers, complete, blue>>

OpenFolders ==
  /\ worker = "folders"
  /\ worker' = "current"
  /\ UNCHANGED <<system, log, idx, current, status, handlers, complete, blue>>

\* GetCurrentDownloadsAsync also lists what ended while nobody was waiting.
GetCurrent ==
  /\ worker = "current"
  /\ current' = {f \in Files : transfer[f] # "none"}
  /\ AppendBody("current", NoFile)
  /\ worker' = "file"
  /\ UNCHANGED <<system, idx, status, handlers, complete, blue>>

Attach ==
  /\ worker = "file"
  /\ idx \in current
  /\ AppendBody("resume", idx)
  /\ worker' = "attach"
  /\ UNCHANGED <<system, idx, current, status, handlers, complete, blue>>

AttachAsync ==
  /\ worker = "attach"
  /\ worker' = "await"
  /\ UNCHANGED <<system, log, idx, current, status, handlers, complete, blue>>

Skip ==
  /\ worker = "file"
  /\ idx \in Files \ current
  /\ disk[idx] = Size
  /\ AppendBody("skip", idx)
  /\ idx' = idx + 1
  /\ UNCHANGED <<system, worker, current, status, handlers, complete, blue>>

\* Variant for validation: only the disk is looked at.
BeginIgnoresCurrent ==
  /\ worker = "file"
  /\ idx \in Files
  /\ disk[idx] # Size
  /\ AppendBody("start", idx)
  /\ worker' = "create"
  /\ UNCHANGED <<system, idx, current, status, handlers, complete, blue>>

Begin ==
  /\ worker = "file"
  /\ idx \in Files \ current
  /\ disk[idx] # Size
  /\ AppendBody("start", idx)
  /\ worker' = "create"
  /\ UNCHANGED <<system, idx, current, status, handlers, complete, blue>>

\* ReplaceExisting: whatever was there is gone.
CreateFile ==
  /\ worker = "create"
  /\ disk' = [disk EXCEPT ![idx] = 0]
  /\ worker' = "start"
  /\ UNCHANGED <<served, transfer, full, launches, log, idx, current, status, handlers,
                 complete, blue>>

\* Variant for validation: CreateDownload without StartAsync.
TransferNotStarted ==
  /\ worker = "start"
  /\ worker' = "await"
  /\ UNCHANGED <<system, log, idx, current, status, handlers, complete, blue>>

StartTransfer ==
  /\ worker = "start"
  /\ transfer' = [transfer EXCEPT ![idx] = "active"]
  /\ worker' = "await"
  /\ UNCHANGED <<served, disk, full, launches, log, idx, current, status, handlers, complete,
                 blue>>

\* Variant for validation: the event is set when the transfer has succeeded.
AwaitSuccess ==
  /\ worker = "await"
  /\ transfer[idx] = "completed"
  /\ status' = transfer[idx]
  /\ transfer' = [transfer EXCEPT ![idx] = "none"]
  /\ worker' = "ended"
  /\ UNCHANGED <<served, disk, full, launches, log, idx, current, handlers, complete, blue>>

\* The Completed handler has set the event, and AwaitDownload returns.
AwaitReturns ==
  /\ worker = "await"
  /\ transfer[idx] \in {"completed", "failed"}
  /\ status' = transfer[idx]
  /\ transfer' = [transfer EXCEPT ![idx] = "none"]
  /\ worker' = "ended"
  /\ UNCHANGED <<served, disk, full, launches, log, idx, current, handlers, complete, blue>>

\* Variant for validation: the size is not compared.
VerdictOfStatus == IF status = "completed" THEN "ok" ELSE "fail"

Verdict == IF status = "completed" /\ disk[idx] = Size THEN "ok" ELSE "fail"

WriteVerdict ==
  /\ worker = "ended"
  /\ AppendBody(Verdict, idx)
  /\ idx' = idx + 1
  /\ worker' = "file"
  /\ UNCHANGED <<system, current, status, handlers, complete, blue>>

AllFilesSeen ==
  /\ worker = "file"
  /\ idx > NumFiles
  /\ worker' = "count"
  /\ UNCHANGED <<system, log, idx, current, status, handlers, complete, blue>>

Present == {f \in Files : disk[f] = Size}

Count ==
  /\ worker = "count"
  /\ complete' = (Present = Files)
  /\ worker' = "summary"
  /\ UNCHANGED <<system, log, idx, current, status, handlers, blue>>

WriteSummary ==
  /\ worker = "summary"
  /\ AppendBody(IF complete THEN "complete" ELSE "incomplete", NoFile)
  /\ worker' = "over"
  /\ UNCHANGED <<system, idx, current, status, handlers, complete, blue>>

\* Any call between the waits throws: the files that are left are not tried.
Exception ==
  /\ worker \in Running \ {"head", "await"}
  /\ AppendBody("exception", NoFile)
  /\ worker' = "over"
  /\ UNCHANGED <<system, idx, current, status, handlers, complete, blue>>

-----------------------------------------------------------------------------

WorkerStep ==
  \/ WriteHead \/ OpenFolders \/ GetCurrent
  \/ Attach \/ AttachAsync \/ Skip \/ Begin \/ CreateFile \/ StartTransfer
  \/ AwaitReturns \/ WriteVerdict \/ AllFilesSeen \/ Count \/ WriteSummary
  \/ Exception

SystemStep(f) == Fetch(f) \/ TransferEnds(f)

Next ==
  \/ Launch \/ Poll \/ Terminate \/ RoomChanges
  \/ WorkerStep
  \/ \E f \in Files : SystemStep(f)
  \/ \E h \in handlers : HandlerFlush(h)

\* The worker runs and the system brings every transfer to some end.  Nobody
\* need launch the app again.
Fairness == WF_vars(WorkerStep) /\ \A f \in Files : WF_vars(SystemStep(f))

Spec == Init /\ [][Next]_vars /\ Fairness

-----------------------------------------------------------------------------
(* Safety *)

Lines == [what : {"T4", "current", "resume", "skip", "start", "ok", "fail", "complete",
                  "incomplete", "exception"},
          file : 0..NumFiles]

\* Every variable has its type, and a transfer is waited for only if there is one.
TypeOK ==
  /\ served \in [Files -> 0..Size] /\ disk \in [Files -> -1..Size]
  /\ transfer \in [Files -> {"none", "active", "completed", "failed"}]
  /\ report \in [lines : Seq(Lines), live : 0..NumFiles]
  /\ full \in BOOLEAN /\ launches \in 0..MaxLaunches
  /\ worker \in Running \cup {"off", "over"}
  /\ idx \in 1..(NumFiles + 1)
  /\ current \subseteq Files
  /\ status \in {"none", "completed", "failed"}
  /\ handlers \subseteq [file : Files, seen : Nat]
  /\ body \in Seq(Lines) /\ live \in 0..NumFiles
  /\ {complete, blue} \subseteq BOOLEAN
  /\ worker = "await" => transfer[idx] # "none"

\* An interrupted transfer resumes rather than restarts: while the system has a
\* transfer to a file, over any number of launches, no byte of the file is lost.
NeverRestarted ==
  [][\A f \in Files : transfer[f] = "active" => disk'[f] >= disk[f]]_vars

\* What the probe says is true, at once and from then on: the flag and the colour of
\* the screen, that every file is whole, and each verdict in the report, that its file
\* is.
VerdictsAreTrue ==
  /\ complete \/ blue => \A f \in Files : disk[f] = Size
  /\ \A i \in 1..Len(body) : body[i].what \in {"ok", "skip"} => disk[body[i].file] = Size

\* Whatever was lost of the report, by a kill while it was written, because it
\* could not be opened or because the disk was full, the next write that gets
\* through brings back: while there is room a write leaves every line of this
\* launch, also when it comes from a progress handler that is late.
ReportKeepsLines ==
  [][worker' # "off" =>
       /\ report' # report /\ ~full => report'.lines = body'
       /\ Len(body') >= Len(body)]_vars

-----------------------------------------------------------------------------
(* Liveness *)

\* A launch comes to a verdict, whatever fails, if the app is left alone.
LaunchEnds == (worker \in Running) ~> (worker \in {"over", "off"})
=============================================================================
