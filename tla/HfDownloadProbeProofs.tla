----------------------- MODULE HfDownloadProbeProofs -----------------------
(***************************************************************************)
(* Proofs about HfDownloadProbe for any number and size of files and any   *)
(* number of launches: no transfer is restarted, and neither the report    *)
(* nor the colour of the screen says more than what is on disk.            *)
(***************************************************************************)
EXTENDS HfDownloadProbe, SequenceTheorems, TLAPS

USE ProbeConstants DEF ProbeConstants

-----------------------------------------------------------------------------
(* The inductive invariant *)

Reports == [lines : Seq(Lines), live : 0..NumFiles]

InHand == {"attach", "create", "start", "await", "ended"}

\* What is cleared by a kill, or not yet written.
Fresh ==
  /\ worker \in {"off", "head"} => body = << >> /\ handlers = {}
  /\ worker \in {"off", "head", "folders", "current"} => idx = 1

\* The worker's list of transfers stays right for the files it has not come to:
\* nobody else starts a transfer, and none is forgotten until it is waited for.
ListIsRight ==
  /\ worker \in InHand => idx \in Files
  /\ worker = "attach" => idx \in current
  /\ worker \in {"create", "start"} => idx \notin current
  /\ worker \in InHand \cup {"file"} =>
       \A f \in Files :
         f > idx \/ (f = idx /\ worker \in {"file", "attach", "create", "start"}) =>
           (f \in current <=> transfer[f] # "none")
  /\ worker = "await" => transfer[idx] # "none"

\* A verdict is about a file the worker has done with, and such a file is left
\* alone.
DoneWith ==
  \A i \in 1..Len(body) : body[i].what \in {"ok", "skip"} =>
    body[i].file \in Files /\ body[i].file < idx /\ disk[body[i].file] = Size

\* The flag is set after the last file, by a look at the disk.
SetAtTheEnd ==
  complete \/ blue => worker \in {"summary", "over"} /\ \A f \in Files : disk[f] = Size

IInv == TypeOK /\ Fresh /\ ListIsRight /\ DoneWith /\ SetAtTheEnd

-----------------------------------------------------------------------------
(* The report *)

LEMMA AReport ==
  ASSUME NEW l \in Seq(Lines), NEW f \in 0..NumFiles
  PROVE  [lines |-> l, live |-> f] \in Reports
<1> DEFINE S == Seq(Lines)
<1>1. l \in S
  OBVIOUS
<1> HIDE DEF S
<1>2. [lines |-> l, live |-> f] \in [lines : S, live : 0..NumFiles]
  BY <1>1
<1> QED
  BY <1>2 DEF Reports, S

\* A report that is cut short is a report.
LEMMA CutsAreReports ==
  ASSUME NEW l \in Seq(Lines)
  PROVE  Cuts(l) \subseteq Reports
<1>1. Len(l) \in Nat /\ NoFile \in 0..NumFiles
  BY LenProperties DEF NoFile
<1>2. SUFFICES ASSUME NEW n \in 0..Len(l)
               PROVE  [lines |-> SubSeq(l, 1, n), live |-> NoFile] \in Reports
  BY DEF Cuts
<1>3. \A i \in 1..n : i \in 1..Len(l)
  BY <1>1
<1>4. \A i \in 1..n : l[i] \in Lines
  BY <1>3, ElementOfSeq
<1>5. SubSeq(l, 1, n) \in Seq(Lines)
  BY <1>1, <1>4, SubSeqProperties
<1> QED
  BY <1>1, <1>5, AReport

\* Whatever becomes of a write, a report is left, and the whole one while there
\* is room.
LEMMA WriteLeavesAReport ==
  ASSUME report \in Reports, NEW l \in Seq(Lines), NEW f \in 0..NumFiles, WriteReport(l, f)
  PROVE  /\ report' \in Reports
         /\ report' # report /\ ~full => report'.lines = l
BY AReport, CutsAreReports DEF WriteReport

LEMMA NothingWritten == NoReport \in Reports /\ << >> \in Seq(Lines) /\ NoFile \in 0..NumFiles
<1>1. << >> \in Seq(Lines) /\ NoFile \in 0..NumFiles
  BY EmptySeq DEF NoFile
<1> QED
  BY <1>1, AReport DEF NoReport

\* What AppendBody leaves: one more line, and the others as they were.
LEMMA OneMoreLine ==
  ASSUME body \in Seq(Lines), report \in Reports,
         NEW what, NEW f, [what |-> what, file |-> f] \in Lines, AppendBody(what, f)
  PROVE  /\ body' \in Seq(Lines) /\ report' \in Reports /\ live' \in 0..NumFiles
         /\ Len(body') = Len(body) + 1
         /\ \A i \in 1..Len(body) : body'[i] = body[i]
         /\ body'[Len(body) + 1] = [what |-> what, file |-> f]
         /\ report' # report /\ ~full => report'.lines = body'
<1>1. body' = Append(body, [what |-> what, file |-> f]) /\ live' = NoFile
  BY DEF AppendBody
<1>2. /\ body' \in Seq(Lines)
      /\ Len(body') = Len(body) + 1
      /\ \A i \in 1..Len(body) : body'[i] = body[i]
      /\ body'[Len(body) + 1] = [what |-> what, file |-> f]
  BY <1>1, AppendProperties
<1>3. NoFile \in 0..NumFiles
  BY DEF NoFile
<1>4. report' \in Reports /\ (report' # report /\ ~full => report'.lines = body')
  BY <1>2, <1>3, WriteLeavesAReport DEF AppendBody
<1> QED
  BY <1>1, <1>2, <1>3, <1>4

\* A line that is no verdict, or a true one about a file that is done with.
LEMMA AddsLine ==
  ASSUME IInv, NEW what, NEW f \in 0..NumFiles,
         [what |-> what, file |-> f] \in Lines, AppendBody(what, f),
         idx' \in {idx, idx + 1}, idx \in Int, UNCHANGED disk,
         what \in {"ok", "skip"} => f \in Files /\ f < idx' /\ disk[f] = Size
  PROVE  /\ body' \in Seq(Lines) /\ report' \in Reports /\ live' \in 0..NumFiles
         /\ DoneWith'
<1>1. body \in Seq(Lines) /\ report \in Reports /\ Len(body) \in Nat
  BY DEF IInv, TypeOK, Reports
<1>2. /\ body' \in Seq(Lines) /\ report' \in Reports /\ live' \in 0..NumFiles
      /\ Len(body') = Len(body) + 1
      /\ \A i \in 1..Len(body) : body'[i] = body[i]
      /\ body'[Len(body) + 1] = [what |-> what, file |-> f]
  BY <1>1, OneMoreLine
<1>3. ASSUME NEW i \in 1..Len(body'), body'[i].what \in {"ok", "skip"}
      PROVE  body'[i].file \in Files /\ body'[i].file < idx' /\ disk'[body'[i].file] = Size
  <2>1. CASE i = Len(body) + 1
    BY <1>2, <1>3, <2>1
  <2>2. CASE i \in 1..Len(body)
    <3>1. body[i].file \in Files /\ body[i].file < idx /\ disk[body[i].file] = Size
      BY <1>2, <1>3, <2>2 DEF IInv, DoneWith
    <3> QED
      BY <1>2, <2>2, <3>1 DEF Files
  <2> QED
    BY <1>1, <1>2, <2>1, <2>2
<1> QED
  BY <1>2, <1>3 DEF DoneWith

-----------------------------------------------------------------------------
(* The invariant holds *)

LEMMA InitIInv == Init => IInv
<1> SUFFICES ASSUME Init PROVE IInv
  OBVIOUS
<1>1. body \in Seq(Lines) /\ Len(body) = 0 /\ << >> \in Seq(Lines)
  BY EmptySeq DEF Init
<1>2. report \in Reports
  BY NothingWritten DEF Init
<1>3. served \in [Files -> 0..Size] /\ disk \in [Files -> -1..Size]
  BY DEF Init
<1>4. transfer \in [Files -> {"none", "active", "completed", "failed"}]
  BY DEF Init
<1>5. launches \in 0..MaxLaunches /\ idx \in 1..(NumFiles + 1) /\ live \in 0..NumFiles
  BY DEF Init, NoFile
<1>6. worker = "off" /\ current = {} /\ status = "none" /\ handlers = {} /\ ~complete /\ ~blue
  BY DEF Init
<1>7. TypeOK
  BY <1>1, <1>2, <1>3, <1>4, <1>5, <1>6 DEF Init, TypeOK, Reports
<1> QED
  BY <1>1, <1>6, <1>7 DEF Init, IInv, Fresh, ListIsRight, DoneWith, SetAtTheEnd, InHand

\* The app is launched, shows its colour, and is killed.
LEMMA AppSteps ==
  ASSUME IInv, Launch \/ Poll \/ Terminate \/ RoomChanges
  PROVE  IInv'
<1> USE DEF IInv, system, log
<1>1. << >> \in Seq(Lines)
  BY EmptySeq
<1>2. CASE Launch
  <2>1. report' \in Reports
    BY <1>1, <1>2, NothingWritten, WriteLeavesAReport DEF Launch, TypeOK, Reports
  <2>2. /\ worker = "off" /\ worker' = "head" /\ launches' \in 0..MaxLaunches
        /\ UNCHANGED <<served, disk, transfer, full, idx, current, status, handlers, body, live,
                       complete, blue>>
    BY <1>2 DEF Launch, TypeOK
  <2>3. TypeOK'
    BY <2>1, <2>2 DEF TypeOK, Running, Reports
  <2> QED
    BY <2>2, <2>3 DEF Fresh, ListIsRight, DoneWith, SetAtTheEnd, InHand
<1>3. CASE Poll
  <2>1. TypeOK'
    BY <1>3 DEF TypeOK, Poll
  <2> QED
    BY <1>3, <2>1 DEF Poll, Fresh, ListIsRight, DoneWith, SetAtTheEnd
<1>4. CASE Terminate
  <2>1. report' \in Reports
    BY <1>4, CutsAreReports DEF Terminate, TypeOK, Reports
  <2>2. /\ worker' = "off" /\ idx' = 1 /\ current' = {} /\ status' = "none"
        /\ handlers' = {} /\ body' = << >> /\ live' = NoFile
        /\ complete' = FALSE /\ blue' = FALSE
        /\ UNCHANGED <<served, disk, transfer, full, launches>>
    BY <1>4 DEF Terminate
  <2>3. TypeOK'
    <3>1. body' \in Seq(Lines) /\ live' \in 0..NumFiles /\ idx' \in 1..(NumFiles + 1)
      BY <2>2, NothingWritten
    <3>2. current' \subseteq Files /\ handlers' \subseteq [file : Files, seen : Nat]
      BY <2>2
    <3> QED
      BY <2>1, <2>2, <3>1, <3>2 DEF TypeOK, Reports
  <2> QED
    BY <2>2, <2>3 DEF Fresh, ListIsRight, DoneWith, SetAtTheEnd, InHand
<1>5. CASE RoomChanges
  BY <1>5 DEF RoomChanges, TypeOK, Fresh, ListIsRight, DoneWith, SetAtTheEnd
<1> QED
  BY <1>2, <1>3, <1>4, <1>5

\* The system fetches, and ends what it has fetched.
LEMMA TransferSteps ==
  ASSUME IInv, NEW f \in Files, SystemStep(f)
  PROVE  IInv'
<1> USE DEF IInv, system, log
<1>1. CASE Fetch(f)
  <2>1. /\ disk' = [disk EXCEPT ![f] = @ + 1]
        /\ disk[f] < served[f] /\ served[f] \in 0..Size /\ disk[f] \in -1..Size
        /\ UNCHANGED <<served, transfer, full, launches, report, body, live, worker, idx,
                       current, status, complete, blue>>
    BY <1>1 DEF Fetch, TypeOK
  <2>2. disk' \in [Files -> -1..Size] /\ disk[f] # Size
    BY <2>1 DEF TypeOK
  <2>3. /\ handlers' \subseteq [file : Files, seen : Nat]
        /\ worker \in {"off", "head"} => handlers' = handlers
    <3>1. Len(body) \in Nat
      BY DEF TypeOK
    <3> QED
      BY <1>1, <3>1 DEF Fetch, TypeOK
  <2>4. TypeOK'
    BY <2>1, <2>2, <2>3 DEF TypeOK
  <2>5. Fresh' /\ ListIsRight'
    BY <2>1, <2>3 DEF Fresh, ListIsRight
  <2>6. \A g \in Files : disk[g] = Size => disk'[g] = Size
    BY <2>1, <2>2 DEF TypeOK
  <2>7. DoneWith' /\ SetAtTheEnd'
    BY <2>1, <2>6 DEF DoneWith, SetAtTheEnd
  <2> QED
    BY <2>4, <2>5, <2>7
<1>2. CASE TransferEnds(f)
  <2>1. /\ transfer[f] = "active"
        /\ \E e \in {"failed", "completed"} : transfer' = [transfer EXCEPT ![f] = e]
        /\ UNCHANGED <<served, disk, full, launches, report, body, live, worker, idx,
                       current, status, handlers, complete, blue>>
    BY <1>2 DEF TransferEnds
  <2>2. /\ transfer' \in [Files -> {"none", "active", "completed", "failed"}]
        /\ \A g \in Files : transfer'[g] = "none" <=> transfer[g] = "none"
    BY <2>1 DEF TypeOK
  <2>3. TypeOK'
    BY <2>1, <2>2 DEF TypeOK, ListIsRight, InHand
  <2>4. Fresh' /\ DoneWith' /\ SetAtTheEnd'
    BY <2>1 DEF Fresh, DoneWith, SetAtTheEnd
  <2>5. ListIsRight'
    BY <2>1, <2>2 DEF ListIsRight, InHand
  <2> QED
    BY <2>3, <2>4, <2>5
<1> QED
  BY <1>1, <1>2 DEF SystemStep

LEMMA HandlerSteps ==
  ASSUME IInv, NEW h \in handlers, HandlerFlush(h)
  PROVE  IInv'
<1> USE DEF IInv, system
<1>1. /\ live' = h.file /\ handlers' = handlers \ {h}
      /\ UNCHANGED <<served, disk, transfer, full, launches, worker, idx, current, status, body,
                     complete, blue>>
  BY DEF HandlerFlush
<1>2. h.file \in 0..NumFiles
  BY DEF TypeOK, Files
<1>3. report' \in Reports
  BY <1>2, WriteLeavesAReport DEF HandlerFlush, TypeOK, Reports
<1>4. TypeOK'
  BY <1>1, <1>2, <1>3 DEF TypeOK, Reports
<1>5. Fresh' /\ ListIsRight' /\ DoneWith' /\ SetAtTheEnd'
  BY <1>1 DEF Fresh, ListIsRight, DoneWith, SetAtTheEnd
<1> QED
  BY <1>4, <1>5

\* Steps of the worker that write nothing to the report.
LEMMA QuietSteps ==
  ASSUME IInv, OpenFolders \/ AttachAsync \/ CreateFile \/ StartTransfer \/ AwaitReturns
               \/ AllFilesSeen \/ Count
  PROVE  IInv'
<1> USE DEF IInv, system, log
<1>1. UNCHANGED <<served, full, launches, report, body, live, idx, current, handlers, blue>>
  BY DEF OpenFolders, AttachAsync, CreateFile, StartTransfer, AwaitReturns, AllFilesSeen,
         Count
<1>2. CASE OpenFolders \/ AttachAsync \/ AllFilesSeen
  <2>1. /\ UNCHANGED <<disk, transfer, status, complete>>
        /\ \/ worker = "folders" /\ worker' = "current"
           \/ worker = "attach" /\ worker' = "await"
           \/ worker = "file" /\ worker' = "count"
    BY <1>2 DEF OpenFolders, AttachAsync, AllFilesSeen
  <2>2. ListIsRight'
    BY <1>1, <2>1 DEF ListIsRight, InHand
  <2>3. TypeOK'
    BY <1>1, <2>1, <2>2 DEF TypeOK, Running, ListIsRight
  <2> QED
    BY <1>1, <2>1, <2>2, <2>3 DEF Fresh, DoneWith, SetAtTheEnd
<1>3. CASE CreateFile
  <2>1. /\ worker = "create" /\ worker' = "start" /\ idx \in Files
        /\ disk' = [disk EXCEPT ![idx] = 0]
        /\ UNCHANGED <<transfer, status, complete>>
    BY <1>3 DEF CreateFile, ListIsRight, InHand
  <2>2. /\ disk' \in [Files -> -1..Size]
        /\ \A f \in Files : f < idx => disk'[f] = disk[f]
    BY <2>1 DEF TypeOK, Files
  <2>3. TypeOK'
    BY <1>1, <2>1, <2>2 DEF TypeOK, Running
  <2>4. Fresh' /\ ListIsRight' /\ SetAtTheEnd'
    BY <1>1, <2>1 DEF Fresh, ListIsRight, InHand, SetAtTheEnd
  <2>5. DoneWith'
    BY <1>1, <2>1, <2>2 DEF DoneWith
  <2> QED
    BY <2>3, <2>4, <2>5
<1>4. CASE StartTransfer \/ AwaitReturns
  <2>1. /\ idx \in Files
        /\ \/ worker = "start" /\ worker' = "await"
              /\ transfer' = [transfer EXCEPT ![idx] = "active"] /\ status' = status
           \/ worker = "await" /\ worker' = "ended"
              /\ transfer' = [transfer EXCEPT ![idx] = "none"]
              /\ status' \in {"completed", "failed"}
        /\ UNCHANGED <<disk, complete>>
    BY <1>4 DEF StartTransfer, AwaitReturns, ListIsRight, InHand
  <2>2. /\ transfer' \in [Files -> {"none", "active", "completed", "failed"}]
        /\ \A f \in Files : f # idx => transfer'[f] = transfer[f]
        /\ worker' = "await" => transfer'[idx] # "none"
    BY <2>1 DEF TypeOK
  <2>3. ListIsRight'
    BY <1>1, <2>1, <2>2 DEF ListIsRight, InHand, Files
  <2>4. TypeOK'
    BY <1>1, <2>1, <2>2 DEF TypeOK, Running
  <2> QED
    BY <1>1, <2>1, <2>3, <2>4 DEF Fresh, DoneWith, SetAtTheEnd
<1>5. CASE Count
  <2>1. /\ worker = "count" /\ worker' = "summary"
        /\ complete' = (Present = Files)
        /\ UNCHANGED <<disk, transfer, status>>
    BY <1>5 DEF Count
  <2>2. complete' \in BOOLEAN /\ (complete' => \A f \in Files : disk[f] = Size) /\ ~blue
    BY <2>1 DEF Present, SetAtTheEnd
  <2>3. TypeOK'
    BY <1>1, <2>1, <2>2 DEF TypeOK, Running
  <2> QED
    BY <1>1, <2>1, <2>2, <2>3 DEF Fresh, ListIsRight, DoneWith, SetAtTheEnd, InHand
<1> QED
  BY <1>2, <1>3, <1>4, <1>5

\* The first line of a report.
LEMMA FirstLine == IInv /\ WriteHead => IInv'
<1> SUFFICES ASSUME IInv, WriteHead PROVE IInv'
  OBVIOUS
<1> USE DEF IInv, system
<1>1. /\ worker = "head" /\ worker' = "folders" /\ body' = <<Head0>>
      /\ UNCHANGED <<served, disk, transfer, full, launches, live, idx, current, status, handlers,
                     complete, blue>>
  BY DEF WriteHead
<1>2. Head0 \in Lines /\ Head0.what = "T4"
  BY DEF Head0, Lines, NoFile
<1>3. body' \in Seq(Lines) /\ Len(body') = 1 /\ body'[1] = Head0
  BY <1>1, <1>2
<1>4. report' \in Reports
  BY <1>3, WriteLeavesAReport DEF WriteHead, TypeOK, Reports
<1>5. TypeOK'
  BY <1>1, <1>3, <1>4 DEF TypeOK, Reports, Running
<1>6. DoneWith'
  BY <1>1, <1>2, <1>3 DEF DoneWith
<1> QED
  BY <1>1, <1>5, <1>6 DEF Fresh, ListIsRight, SetAtTheEnd, InHand

\* What a step of the worker that adds a line adds.
LEMMA AddedLine ==
  ASSUME IInv, GetCurrent \/ Attach \/ Skip \/ Begin \/ WriteVerdict \/ WriteSummary
               \/ Exception
  PROVE  \E what \in {"current", "resume", "skip", "start", "ok", "fail", "complete",
                      "incomplete", "exception"}, f \in 0..NumFiles :
           /\ AppendBody(what, f)
           /\ [what |-> what, file |-> f] \in Lines
           /\ what \in {"ok", "skip"} => f = idx /\ idx' = idx + 1 /\ f \in Files /\ disk[f] = Size
           /\ idx' \in {idx, idx + 1} /\ idx' \in 1..(NumFiles + 1)
<1> USE DEF IInv, system, Lines
<1>0. idx \in 1..(NumFiles + 1) /\ NoFile \in 0..NumFiles /\ Files \subseteq 0..NumFiles
  BY DEF TypeOK, NoFile, Files
<1>1. CASE GetCurrent
  BY <1>0, <1>1 DEF GetCurrent
<1>2. CASE Attach
  BY <1>0, <1>2 DEF Attach, TypeOK
<1>3. CASE Skip
  BY <1>0, <1>3 DEF Skip, Files
<1>4. CASE Begin
  BY <1>0, <1>4 DEF Begin
<1>5. CASE WriteVerdict
  <2>1. idx \in Files /\ idx' = idx + 1 /\ AppendBody(Verdict, idx)
    BY <1>5 DEF WriteVerdict, ListIsRight, InHand
  <2>2. Verdict \in {"ok", "fail"} /\ (Verdict = "ok" => disk[idx] = Size)
    BY DEF Verdict
  <2> QED
    BY <1>0, <2>1, <2>2 DEF Files
<1>6. CASE WriteSummary
  BY <1>0, <1>6 DEF WriteSummary
<1>7. CASE Exception
  BY <1>0, <1>7 DEF Exception
<1> QED
  BY <1>1, <1>2, <1>3, <1>4, <1>5, <1>6, <1>7

\* Steps of the worker that add a line.
LEMMA WritingSteps ==
  ASSUME IInv, GetCurrent \/ Attach \/ Skip \/ Begin \/ WriteVerdict \/ WriteSummary
               \/ Exception
  PROVE  IInv'
<1> USE DEF IInv, system
<1>1. /\ UNCHANGED <<served, disk, transfer, full, launches, status, handlers, complete, blue>>
      /\ worker \notin {"off", "head"} /\ worker' \notin {"off", "head"}
  BY DEF GetCurrent, Attach, Skip, Begin, WriteVerdict, WriteSummary, Exception, Running
<1>2. PICK what \in {"current", "resume", "skip", "start", "ok", "fail", "complete",
                     "incomplete", "exception"}, f \in 0..NumFiles :
        /\ AppendBody(what, f)
        /\ [what |-> what, file |-> f] \in Lines
        /\ what \in {"ok", "skip"} => f = idx /\ idx' = idx + 1 /\ f \in Files /\ disk[f] = Size
        /\ idx' \in {idx, idx + 1} /\ idx' \in 1..(NumFiles + 1)
  BY AddedLine
<1>4. body' \in Seq(Lines) /\ report' \in Reports /\ live' \in 0..NumFiles /\ DoneWith'
  <2>1. idx \in Int /\ idx < idx + 1
    BY DEF TypeOK
  <2> QED
    BY <1>1, <1>2, <2>1, AddsLine
<1>5. ListIsRight' /\ current' \subseteq Files /\ worker' \in Running \cup {"over"}
  <2>1. CASE GetCurrent
    BY <1>1, <2>1 DEF GetCurrent, ListIsRight, InHand, Running
  <2>2. CASE Attach
    BY <1>1, <2>2 DEF Attach, ListIsRight, InHand, Running, TypeOK
  <2>3. CASE Skip
    BY <1>1, <2>3 DEF Skip, ListIsRight, InHand, Running, TypeOK, Files
  <2>4. CASE Begin
    BY <1>1, <2>4 DEF Begin, ListIsRight, InHand, Running, TypeOK
  <2>5. CASE WriteVerdict
    BY <1>1, <2>5 DEF WriteVerdict, ListIsRight, InHand, Running, TypeOK, Files
  <2>6. CASE WriteSummary \/ Exception
    BY <1>1, <2>6 DEF WriteSummary, Exception, ListIsRight, InHand, Running, TypeOK
  <2> QED
    BY <2>1, <2>2, <2>3, <2>4, <2>5, <2>6
<1>6. TypeOK'
  BY <1>1, <1>2, <1>4, <1>5 DEF TypeOK, Reports, ListIsRight
<1>7. Fresh'
  BY <1>1 DEF Fresh, GetCurrent, Attach, Skip, Begin, WriteVerdict, WriteSummary, Exception
<1>8. SetAtTheEnd'
  BY <1>1 DEF SetAtTheEnd, GetCurrent, Attach, Skip, Begin, WriteVerdict, WriteSummary,
              Exception
<1> QED
  BY <1>4, <1>5, <1>6, <1>7, <1>8

LEMMA StepIInv == IInv /\ [Next]_vars => IInv'
<1> SUFFICES ASSUME IInv, [Next]_vars PROVE IInv'
  OBVIOUS
<1>1. CASE WorkerStep
  BY <1>1, QuietSteps, FirstLine, WritingSteps DEF WorkerStep
<1>2. CASE UNCHANGED vars
  BY <1>2 DEF vars, system, log, IInv, TypeOK, Fresh, ListIsRight, DoneWith, SetAtTheEnd
<1> QED
  BY <1>1, <1>2, AppSteps, TransferSteps, HandlerSteps DEF Next

LEMMA Invariance == Spec => []IInv
<1> QED
  BY InitIInv, StepIInv, PTL DEF Spec

-----------------------------------------------------------------------------
(* Safety *)

\* The worker waits only for a transfer that exists, and the report, the list of
\* transfers and the place in it keep their types over any number of kills.
THEOREM ProbeTypeCorrect == Spec => []TypeOK
<1> QED
  BY Invariance, PTL DEF IInv

\* The screen turns blue, and g_complete is set, only with every file whole on
\* disk, and a file the report calls complete or skips as complete is whole too; they
\* stay whole as long as it is said.
THEOREM VerdictsTrue == Spec => []VerdictsAreTrue
<1>1. IInv => VerdictsAreTrue
  BY DEF IInv, SetAtTheEnd, DoneWith, VerdictsAreTrue
<1> QED
  BY Invariance, <1>1, PTL

\* ReplaceExisting never meets a file the system is fetching: an interrupted
\* transfer is joined, not restarted, over any number of launches.
THEOREM TransfersResume == Spec => NeverRestarted
<1>1. ASSUME IInv, [Next]_vars, NEW f \in Files, transfer[f] = "active"
      PROVE  disk'[f] >= disk[f]
  <2>1. disk[f] \in Int /\ disk \in [Files -> -1..Size]
    BY <1>1 DEF IInv, TypeOK
  <2>2. CASE CreateFile
    <3>1. idx \in Files /\ transfer[idx] = "none"
      BY <1>1, <2>2 DEF IInv, CreateFile, ListIsRight, InHand
    <3> QED
      BY <1>1, <2>1, <2>2, <3>1 DEF CreateFile
  <2>3. CASE \E g \in Files : Fetch(g)
    BY <2>1, <2>3 DEF Fetch
  <2>4. CASE ~CreateFile /\ ~\E g \in Files : Fetch(g)
    <3>1. disk' = disk
      BY <1>1, <2>4 DEF Next, WorkerStep, SystemStep, vars, system, Launch, Poll, Terminate,
         WriteHead, OpenFolders, GetCurrent, Attach, AttachAsync, Skip, Begin,
         StartTransfer, AwaitReturns, WriteVerdict, AllFilesSeen, Count, WriteSummary,
         Exception, TransferEnds, HandlerFlush, RoomChanges
    <3> QED
      BY <2>1, <3>1
  <2> QED
    BY <2>2, <2>3, <2>4
<1>2. IInv /\ [Next]_vars =>
        [\A f \in Files : transfer[f] = "active" => disk'[f] >= disk[f]]_vars
  BY <1>1
<1> QED
  BY Invariance, <1>2, PTL DEF Spec, NeverRestarted

\* A launch never loses a line of its report: what is in memory only grows, and
\* while the disk has room every write that gets through, a late progress
\* handler's too, leaves all of it.
THEOREM ReportComplete == Spec => ReportKeepsLines
<1>1. ASSUME IInv, [Next]_vars, worker' # "off"
      PROVE  (report' # report /\ ~full => report'.lines = body') /\ Len(body') >= Len(body)
  <2> USE DEF system, log
  <2>1. /\ body \in Seq(Lines) /\ report \in Reports /\ Len(body) \in Nat
        /\ worker \in {"off", "head"} => body = << >> /\ handlers = {}
        /\ \A h \in handlers : h.file \in 0..NumFiles
        /\ live \in 0..NumFiles
    BY SMTT(30), <1>1 DEF IInv, TypeOK, Fresh, Reports, Files
  <2>2. CASE Launch
    <3>1. /\ body = << >> /\ body' = body
          /\ WriteReport(<< >>, NoFile)
      BY <2>1, <2>2 DEF Launch
    <3>2. report' # report /\ ~full => report'.lines = << >>
      BY <2>1, <3>1, NothingWritten, WriteLeavesAReport
    <3> QED
      BY <2>1, <3>1, <3>2
  <2>3. CASE WriteHead
    <3>1. /\ body' = <<Head0>> /\ Len(body) = 0 /\ Len(body') = 1
          /\ WriteReport(body', live)
      BY <2>1, <2>3 DEF WriteHead
    <3>2. body' \in Seq(Lines)
      BY <3>1 DEF Head0, Lines, NoFile
    <3>3. report' # report /\ ~full => report'.lines = body'
      BY <2>1, <3>1, <3>2, WriteLeavesAReport
    <3> QED
      BY <3>1, <3>3
  <2>4. CASE \E h \in handlers : HandlerFlush(h)
    BY <2>1, <2>4, WriteLeavesAReport DEF HandlerFlush
  <2>5. CASE GetCurrent \/ Attach \/ Skip \/ Begin \/ WriteVerdict \/ WriteSummary \/ Exception
    <3>1. PICK what, f : AppendBody(what, f) /\ [what |-> what, file |-> f] \in Lines
      BY <1>1, <2>5, AddedLine
    <3>2. Len(body') = Len(body) + 1 /\ (report' # report /\ ~full => report'.lines = body')
      BY <2>1, <3>1, OneMoreLine
    <3> QED
      BY <2>1, <3>2
  <2>6. CASE UNCHANGED <<report, body>>
    BY <2>1, <2>6
  <2> QED
    BY <1>1, <2>2, <2>3, <2>4, <2>5, <2>6 DEF Next, WorkerStep, SystemStep, vars, Poll,
       Terminate, RoomChanges, Fetch, TransferEnds, OpenFolders, AttachAsync, CreateFile,
       StartTransfer, AwaitReturns, AllFilesSeen, Count
<1>2. IInv /\ [Next]_vars =>
        [worker' # "off" =>
           /\ report' # report /\ ~full => report'.lines = body'
           /\ Len(body') >= Len(body)]_vars
  BY <1>1
<1> QED
  BY Invariance, <1>2, PTL DEF Spec, ReportKeepsLines
=============================================================================
