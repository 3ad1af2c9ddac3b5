------------------------- MODULE GdkDownloaderProofs -------------------------
(***************************************************************************)
(* Proofs about GdkDownloader for every set of items, every kind of server *)
(* and every number of starts.  ControlInv is inductive whatever the       *)
(* server and the disk do; ContentInv, about servers whose HEAD tells the  *)
(* lengths, is inductive beside it; Counted is about progress.             *)
(***************************************************************************)
EXTENDS GdkDownloader, Induction, SequenceTheorems, TLAPS

-----------------------------------------------------------------------------
(* Facts about files *)

\* The first n units are a file of n units.
LEMMA UnitsAreAFile ==
  ASSUME NEW n \in Nat
  PROVE  Units(n) \in Seq(Nat) /\ Len(Units(n)) = n
<1>1. Units(n) \in [1..n -> Nat]
  BY DEF Units
<1> QED
  BY <1>1, SeqDef DEF Units

\* What one ReadData adds to the first n units makes the first n + 1.
LEMMA NextUnit ==
  ASSUME NEW n \in Nat
  PROVE  Append(Units(n), n + 1) = Units(n + 1)
<1> DEFINE a == Append(Units(n), n + 1)  u == Units(n + 1)
<1>1. Units(n) \in Seq(Nat) /\ Len(Units(n)) = n
  BY UnitsAreAFile
<1>2. /\ a \in Seq(Nat) /\ Len(a) = n + 1
      /\ \A i \in 1..n : a[i] = Units(n)[i]
      /\ a[n + 1] = n + 1
  BY <1>1, AppendProperties
<1>3. u \in Seq(Nat) /\ Len(u) = n + 1
  BY UnitsAreAFile
<1>4. \A i \in 1..(n + 1) : u[i] = i
  BY DEF Units
<1>5. \A i \in 1..n : Units(n)[i] = i
  BY DEF Units
<1> HIDE DEF a, u
<1>6. \A i \in 1..(n + 1) : a[i] = u[i]
  <2>1. \A i \in 1..(n + 1) : i = n + 1 \/ i \in 1..n
    OBVIOUS
  <2> QED
    BY <1>2, <1>4, <1>5, <2>1
<1>7. a = u
  BY <1>2, <1>3, <1>6, SeqEqual
<1> QED
  BY <1>7 DEF a, u

\* No units are no file contents.
LEMMA NoUnits == Units(0) = << >>
<1>1. Units(0) \in Seq(Nat) /\ Len(Units(0)) = 0
  BY UnitsAreAFile
<1> QED
  BY <1>1, EmptySeq

\* What the sizes of the items are.
LEMMA Lengths ==
  /\ Len(Sizes) \in Nat
  /\ \A i \in Items : Sizes[i] \in Nat
BY DownloaderConstants, LenProperties, ElementOfSeq DEF DownloaderConstants, Items

-----------------------------------------------------------------------------
(* The control of start(), the destructor and the worker *)

\* A fresh process has no set and no worker.
LEMMA InitControl == Init => ControlInv
<1> SUFFICES ASSUME Init PROVE ControlInv
  OBVIOUS
<1> USE DEF Init
<1>1. done \in Seq(BOOLEAN)
  BY EmptySeq
<1>2. Len(Sizes) \in Nat /\ MaxStarts \in Nat
  BY Lengths, DownloaderConstants DEF DownloaderConstants
<1>3. dest \in [Items -> Files] /\ tmp \in [Items -> Files] /\ sizes \in [Items -> Int]
  BY DEF Files, NoSizes
<1>4. idx \in 1..(Len(Sizes) + 1) /\ starts \in 0..MaxStarts
  BY <1>2
<1>5. TypeOK
  BY <1>1, <1>3, <1>4 DEF TypeOK, Running, Fetching
<1> QED
  BY <1>5 DEF ControlInv, Opened, FreshSet, DoneExactlyOnce, Running, Fetching

\* on_done is called from a running worker or from a start() that has failed:
\* for the first time either way.
LEMMA FirstCall ==
  ASSUME done = << >>, NEW ok \in BOOLEAN
  PROVE  /\ Append(done, ok) \in Seq(BOOLEAN)
         /\ Len(Append(done, ok)) = 1
         /\ Append(done, ok)[1] = ok
<1>1. << >> \in Seq(BOOLEAN) /\ Len(<< >>) = 0
  BY EmptySeq
<1> QED
  BY <1>1, AppendProperties

\* on_done(false) is not the report of a complete set.
LEMMA FailureIsNotOk == Append(<< >>, FALSE) # <<TRUE>>
<1>1. Append(<< >>, FALSE)[1] = FALSE
  BY FirstCall
<1>2. <<TRUE>>[1] = TRUE
  OBVIOUS
<1> QED
  BY <1>1, <1>2

\* What is left of the temporary file is a file.
LEMMA LeftAreFiles ==
  ASSUME ControlInv, worker = "read"
  PROVE  Left \subseteq Seq(Nat)
<1>1. tmp[idx] \in Seq(Nat) /\ Len(tmp[idx]) \in Nat
  BY LenProperties DEF ControlInv, TypeOK, Opened, Files, Fetching
<1>2. fileBytes \in Nat /\ resume \in Nat
  BY DEF ControlInv, TypeOK
<1>3. SUFFICES ASSUME NEW n \in (Len(tmp[idx]) - Unwritten)..Len(tmp[idx])
               PROVE  SubSeq(tmp[idx], 1, n) \in Seq(Nat)
  BY DEF Left
<1>4. n \in Int /\ n <= Len(tmp[idx])
  BY <1>1, <1>2 DEF Unwritten
<1>5. \A i \in 1..n : i \in 1..Len(tmp[idx])
  BY <1>1, <1>4
<1>6. \A i \in 1..n : tmp[idx][i] \in Nat
  BY <1>1, <1>5, ElementOfSeq
<1> QED
  BY <1>4, <1>6, SubSeqProperties

\* Every operation, and a crash, keeps ControlInv.
LEMMA StepControl == ControlInv /\ [Next]_vars => ControlInv'
<1> SUFFICES ASSUME ControlInv, [Next]_vars PROVE ControlInv'
  OBVIOUS
<1>c. /\ Len(Sizes) \in Nat /\ MaxStarts \in Nat
      /\ \A i \in Items : Sizes[i] \in Nat
      /\ Absent \notin Seq(Nat)
  BY Lengths, DownloaderConstants DEF DownloaderConstants
<1>d. \A f \in Seq(Nat) : Len(f) \in Nat
  BY LenProperties
<1>e. << >> \in Seq(Nat) /\ << >> \in Seq(BOOLEAN)
  BY EmptySeq
<1> USE <1>c DEF ControlInv, TypeOK, Opened, FreshSet, DoneExactlyOnce, Running, Fetching,
          Files, Items
<1> USE DEF vars, disk, api, transfer, progress
<1>0. CASE StartEmpty
  BY <1>0 DEF StartEmpty
<1>1. CASE StartCall
  BY <1>1 DEF StartCall
<1>2. CASE StartJoin
  BY <1>2 DEF StartJoin
<1>3. CASE StartReset
  BY <1>3, <1>e DEF StartReset
<1>4. CASE StartLaunch
  BY <1>4 DEF StartLaunch, NoSizes
<1>5. CASE StartLaunchFails
  BY <1>5, FirstCall DEF StartLaunchFails
<1>6. CASE Cancel
  BY <1>6 DEF Cancel
<1>7. CASE Destroy
  BY <1>7 DEF Destroy
<1>8. CASE DestroyJoin
  BY <1>8 DEF DestroyJoin
<1>l. worker = "read" => Left \subseteq Seq(Nat)
  BY LeftAreFiles
<1>9. ASSUME worker \in Running, Fail PROVE ControlInv'
  <2>1. tmp' \in [Items -> Files]
    BY <1>9, <1>l DEF Fail
  <2>2. done' \in Seq(BOOLEAN) /\ Len(done') = 1
    BY <1>9, FirstCall DEF Fail, Finish
  <2> QED
    BY <1>9, <2>1, <2>2 DEF Fail, Finish
<1>24. CASE OpenSession
  BY <1>24 DEF OpenSession
<1>10. CASE SizeItem
  <2>1. PICK s \in HeadReplies(idx) : sizes' = [sizes EXCEPT ![idx] = s]
    BY <1>10 DEF SizeItem
  <2>2. s \in Int
    BY <1>10, <2>1 DEF SizeItem, HeadReplies
  <2> QED
    BY <1>10, <2>1, <2>2 DEF SizeItem
<1>11. CASE BeginDownloads
  BY <1>11 DEF BeginDownloads
<1>12. CASE Skip
  BY <1>12, <1>d DEF Skip, Complete, OnDisk
<1>13. CASE BeginItem
  BY <1>13, <1>d DEF BeginItem, OnDisk
<1>14. CASE AllDone
  BY <1>14, FirstCall DEF AllDone, Finish
<1>15. CASE OpenTmp
  BY <1>15, <1>e DEF OpenTmp
<1>16. CASE Respond
  BY <1>16 DEF Respond
<1>17. CASE ReadChunk
  <2>1. tmp[idx] \in Seq(Nat) /\ pos + 1 \in Nat
    BY <1>17 DEF ReadChunk
  <2>2. Append(tmp[idx], pos + 1) \in Seq(Nat)
    BY <2>1, AppendProperties
  <2>3. tmp' \in [Items -> Files]
    BY <1>17, <2>2 DEF ReadChunk
  <2>4. pos' \in Nat /\ fileBytes' \in Nat /\ shown' \in Nat
    BY <1>17 DEF ReadChunk
  <2>5. tmp'[idx] # Absent
    BY <1>17, <2>2 DEF ReadChunk
  <2> QED
    BY <1>17, <2>3, <2>4, <2>5 DEF ReadChunk
<1>18. CASE EndOfBody
  <2>1. PICK f \in Left : /\ tmp' = [tmp EXCEPT ![idx] = f]
                          /\ unflushed' \in {unflushed, unflushed \cup {idx}}
    BY <1>18 DEF EndOfBody
  <2>2. f \in Seq(Nat) /\ idx \in Items
    BY <1>18, <2>1, <1>l DEF EndOfBody
  <2> QED
    BY <1>18, <2>1, <2>2 DEF EndOfBody
<1>19. CASE Accept
  BY <1>19 DEF Accept
<1>20. CASE RemoveOld
  BY <1>20 DEF RemoveOld
<1>21. CASE Rename
  <2>1. base' \in Nat
    <3>1. sizes[idx] \in Int /\ onDisk \in Nat /\ base \in Nat
      BY <1>21 DEF Rename
    <3>2. base' = base + (IF sizes[idx] > 0 THEN sizes[idx] ELSE onDisk)
      BY <1>21 DEF Rename
    <3> HIDE DEF TypeOK, ControlInv
    <3> QED
      BY <3>1, <3>2
  <2>2. idx' \in 1..(Len(Sizes) + 1)
    BY <1>21 DEF Rename
  <2>3. dest' \in [Items -> Files] /\ tmp' \in [Items -> Files]
    BY <1>21 DEF Rename
  <2> QED
    BY <1>21, <2>1, <2>2, <2>3 DEF Rename
<1>22. CASE Crash
  <2>1. tmp' \in [Items -> Files]
    BY <1>22, <1>l DEF Crash
  <2>2. sizes' \in [Items -> Int] /\ idx' \in 1..(Len(Sizes) + 1)
    BY <1>22 DEF Crash, NoSizes
  <2> QED
    BY <1>22, <2>1, <2>2, <1>e DEF Crash
<1>23. CASE UNCHANGED vars
  BY <1>23
<1> QED
  BY <1>0, <1>1, <1>2, <1>3, <1>4, <1>5, <1>6, <1>7, <1>8, <1>9, <1>10, <1>11, <1>12,
     <1>13, <1>14, <1>15, <1>16, <1>17, <1>18, <1>19, <1>20, <1>21, <1>22, <1>23, <1>24
  DEF Next, OwnerStep, WorkerStep, OpenSessionFails, SeeCancelled, MalformedUrl, OpenFails,
      RequestFails, WriteFails, SizeMismatch, RenameFails

-----------------------------------------------------------------------------
(* What the files hold, at a server that tells the lengths *)

Content ==
  /\ DestIntact /\ LengthsKnown /\ Transferred /\ EarlierComplete
  /\ OkIsTrueOf(Items \ unflushed)

\* A fresh directory holds no files.
LEMMA InitContent == Init => ContentInv
BY DEF Init, ContentInv, DestIntact, LengthsKnown, Transferred, EarlierComplete, OkIsTrueOf,
   Running, Fetching, NoSizes

\* A file at dest_path is whole or absent, so it is either skipped or replaced,
\* and never resumed.
LEMMA NeverPartial ==
  ASSUME ControlInv, ContentInv, server.lengths, worker = "pick", idx \in Items \ unflushed
  PROVE  /\ Complete(idx) => dest[idx] = Intact(idx)
         /\ idx \notin bad => sizes[idx] = Sizes[idx]
         /\ ~Complete(idx) /\ idx \notin bad =>
              (IF sizes[idx] < 0 \/ OnDisk(idx) < sizes[idx] THEN OnDisk(idx) ELSE 0) = 0
<1>1. dest[idx] \in {Absent, Intact(idx)}
  BY DEF ContentInv, DestIntact
<1>2. Sizes[idx] \in Nat /\ Len(Intact(idx)) = Sizes[idx] /\ Intact(idx) # Absent
  BY Lengths, UnitsAreAFile, DownloaderConstants DEF Intact, DownloaderConstants
<1>3. OnDisk(idx) = IF dest[idx] = Absent THEN 0 ELSE Sizes[idx]
  BY <1>1, <1>2 DEF OnDisk
<1>4. idx \notin bad => sizes[idx] = Sizes[idx]
  BY DEF ContentInv, LengthsKnown, Running, Fetching
<1>5. sizes[idx] \in Int
  BY DEF ControlInv, TypeOK
<1>6. Complete(idx) => dest[idx] = Intact(idx)
  BY <1>1, <1>3 DEF Complete
<1>7. ~Complete(idx) /\ idx \notin bad =>
        (IF sizes[idx] < 0 \/ OnDisk(idx) < sizes[idx] THEN OnDisk(idx) ELSE 0) = 0
  BY <1>2, <1>3, <1>4 DEF Complete
<1> QED
  BY <1>4, <1>6, <1>7

\* No step changes the server.
LEMMA ServerFixed == [Next]_vars => server' = server
<1> USE DEF vars, disk, api, transfer, progress, Fail
<1>1. StartEmpty \/ StartCall \/ Cancel \/ Destroy \/ Crash \/ UNCHANGED vars => server' = server
  BY DEF StartEmpty, StartCall, Cancel, Destroy, Crash
<1>2. OwnerStep => server' = server
  BY DEF OwnerStep, StartJoin, StartReset, StartLaunch, StartLaunchFails, DestroyJoin
<1>3. OpenSession \/ OpenSessionFails \/ SeeCancelled \/ SizeItem \/ BeginDownloads \/ Skip
      \/ BeginItem \/ MalformedUrl \/ AllDone => server' = server
  BY DEF OpenSession, OpenSessionFails, SeeCancelled, SizeItem, BeginDownloads, Skip, BeginItem,
     MalformedUrl, AllDone
<1>4. OpenTmp \/ OpenFails \/ Respond \/ RequestFails \/ ReadChunk \/ WriteFails
      \/ EndOfBody => server' = server
  BY DEF OpenTmp, OpenFails, Respond, RequestFails, ReadChunk, WriteFails, EndOfBody
<1>5. SizeMismatch \/ Accept \/ RemoveOld \/ Rename \/ RenameFails => server' = server
  BY DEF SizeMismatch, Accept, RemoveOld, Rename, RenameFails
<1> HIDE DEF vars, disk, api, transfer, progress, Fail
<1> QED
  BY <1>1, <1>2, <1>3, <1>4, <1>5 DEF Next, WorkerStep

\* Every operation, and a crash, keeps ContentInv beside ControlInv.
LEMMA StepContent ==
  ControlInv /\ ControlInv' /\ ContentInv /\ [Next]_vars => ContentInv'
<1> SUFFICES ASSUME ControlInv, ControlInv', ContentInv, [Next]_vars PROVE ContentInv'
  OBVIOUS
<1>s. server' = server
  BY ServerFixed
<1> SUFFICES ASSUME server.lengths PROVE Content'
  BY <1>s DEF ContentInv, Content
<1>c. /\ Len(Sizes) \in Nat
      /\ \A i \in Items : Sizes[i] \in Nat
      /\ Absent \notin Seq(Nat)
  BY Lengths, DownloaderConstants DEF DownloaderConstants
<1>x. idx \in Nat /\ idx >= 1 /\ idx <= Len(Sizes) + 1
  BY <1>c DEF ControlInv, TypeOK
<1>j. idx <= Len(Sizes) => idx \in Items
  BY <1>c, <1>x DEF Items
<1>t. /\ worker \in Running \cup {"none", "over"}
      /\ dest \in [Items -> Files] /\ tmp \in [Items -> Files] /\ sizes \in [Items -> Int]
      /\ worker \in Fetching => idx \in Items
  BY DEF ControlInv, TypeOK
<1>o. /\ worker \in Running => done = << >>
      /\ owner \in {"reset", "launch"} => worker = "none"
  BY DEF ControlInv, DoneExactlyOnce, FreshSet
<1>i. Content
  BY DEF ContentInv, Content
<1> USE <1>s, <1>c, <1>x, <1>t, <1>o, <1>i DEF Running, Fetching, Items
<1> USE DEF Content, DestIntact, LengthsKnown, Transferred, EarlierComplete, OkIsTrueOf
<1> USE DEF vars, disk, api, transfer, progress
<1>1. CASE StartEmpty \/ StartCall
  BY <1>1 DEF StartEmpty, StartCall
<1>2. CASE StartJoin
  BY <1>2 DEF StartJoin
<1>3. CASE StartReset
  BY <1>3 DEF StartReset
<1>4. CASE StartLaunch
  BY <1>4 DEF StartLaunch, NoSizes
<1>5. CASE StartLaunchFails
  BY <1>5 DEF StartLaunchFails
<1>6. CASE Cancel
  BY <1>6 DEF Cancel
<1>7. CASE Destroy
  BY <1>7 DEF Destroy
<1>8. CASE DestroyJoin
  BY <1>8 DEF DestroyJoin
<1>9. ASSUME worker \in Running, Fail PROVE Content'
  <2>1. done = << >> /\ done' = Append(done, FALSE)
    BY <1>9 DEF Fail, Finish
  <2>3. done' # <<TRUE>>
    BY <2>1, FailureIsNotOk
  <2> QED
    BY <1>9, <2>3 DEF Fail, Finish
<1>24. CASE OpenSession
  <2>1. idx = 1
    BY <1>24 DEF OpenSession, ControlInv, FreshSet
  <2> QED
    BY <1>24, <2>1 DEF OpenSession
<1>10. CASE SizeItem
  <2>1. PICK s \in HeadReplies(idx) : sizes' = [sizes EXCEPT ![idx] = s]
    BY <1>10 DEF SizeItem
  <2>2. idx \in Items
    BY <1>10, <1>j DEF SizeItem
  <2>3. s \in {-1, Sizes[idx]} /\ (idx \notin bad => s = Sizes[idx])
    BY <2>1 DEF HeadReplies
  <2> QED
    BY <1>10, <2>1, <2>2, <2>3 DEF SizeItem
<1>11. CASE BeginDownloads
  BY <1>11 DEF BeginDownloads
<1>12. CASE Skip
  <2>1. idx \notin unflushed => dest[idx] = Intact(idx)
    BY <1>12, <1>j, NeverPartial DEF Skip
  <2> QED
    BY <1>12, <2>1 DEF Skip
<1>13. CASE BeginItem
  <2>1. idx \notin unflushed => resume' = 0
    BY <1>13, <1>j, NeverPartial DEF BeginItem
  <2> QED
    BY <1>13, <2>1 DEF BeginItem
<1>14. CASE AllDone
  <2>1. \A i \in Items : i < idx
    BY <1>14 DEF AllDone
  <2>2. \A i \in Items \ unflushed : dest[i] = Intact(i)
    BY <1>14, <2>1 DEF AllDone
  <2> QED
    BY <1>14, <2>2 DEF AllDone, Finish
<1>15. CASE OpenTmp
  BY <1>15 DEF OpenTmp
<1>16. CASE Respond
  BY <1>16, NoUnits DEF Respond, Ranged
<1>17. CASE ReadChunk
  <2> SUFFICES ASSUME idx \notin unflushed
               PROVE  tmp'[idx] = Units(pos') /\ pos' <= Sizes[idx] /\ fileBytes' = pos'
    BY <1>17 DEF ReadChunk
  <2>1. tmp[idx] = Units(pos) /\ pos \in Nat /\ pos < Sizes[idx] /\ fileBytes = pos
    BY <1>17 DEF ReadChunk, ControlInv, TypeOK
  <2>2. tmp'[idx] = Units(pos + 1) /\ pos + 1 <= Sizes[idx]
    <3>1. tmp'[idx] = Append(tmp[idx], pos + 1)
      BY <1>17 DEF ReadChunk
    <3>2. Append(Units(pos), pos + 1) = Units(pos + 1)
      BY <2>1, NextUnit
    <3>3. idx \in Items
      BY <1>17 DEF ReadChunk
    <3>4. Sizes[idx] \in Nat
      BY <3>3
    <3>5. pos + 1 <= Sizes[idx]
      BY <2>1, <3>4
    <3> QED
      BY <2>1, <3>1, <3>2, <3>5
  <2> QED
    BY <1>17, <2>1, <2>2 DEF ReadChunk
<1>18. CASE EndOfBody
  <2>1. idx \in Items
    BY <1>18 DEF EndOfBody
  <2>2. unflushed \subseteq unflushed'
    BY <1>18 DEF EndOfBody
  <2>3. idx \notin unflushed' => tmp'[idx] = tmp[idx] /\ idx \notin unflushed
    BY <1>18, <2>1 DEF EndOfBody
  <2> QED
    BY <1>18, <2>1, <2>2, <2>3 DEF EndOfBody
<1>19. CASE Accept
  <2> SUFFICES ASSUME idx \notin unflushed
               PROVE  tmp[idx] = Intact(idx)
    BY <1>19 DEF Accept
  <2>1. sizes[idx] = Sizes[idx] /\ fileBytes = pos /\ pos \in Nat /\ pos <= Sizes[idx]
    BY <1>19 DEF Accept, ControlInv, TypeOK
  <2>2. pos = Sizes[idx]
    BY <1>19, <2>1 DEF Accept, WrongSize
  <2> QED
    BY <1>19, <2>2 DEF Accept, Intact
<1>20. CASE RemoveOld
  BY <1>20 DEF RemoveOld
<1>21. CASE Rename
  BY <1>21 DEF Rename
<1>22. CASE Crash
  BY <1>22 DEF Crash, NoSizes
<1>23. CASE UNCHANGED vars
  BY <1>23
<1> QED
  BY <1>1, <1>2, <1>3, <1>4, <1>5, <1>6, <1>7, <1>8, <1>9, <1>10, <1>11, <1>12,
     <1>13, <1>14, <1>15, <1>16, <1>17, <1>18, <1>19, <1>20, <1>21, <1>22, <1>23, <1>24
  DEF Next, OwnerStep, WorkerStep, OpenSessionFails, SeeCancelled, MalformedUrl, OpenFails,
      RequestFails, WriteFails, SizeMismatch, RenameFails

-----------------------------------------------------------------------------
(* Safety *)

\* Both invariants hold throughout: what every theorem below rests on.
THEOREM DownloaderInvariance == Spec => [](ControlInv /\ ContentInv)
<1>1. Init => ControlInv /\ ContentInv
  BY InitControl, InitContent
<1>2. ControlInv /\ ContentInv /\ [Next]_vars => (ControlInv /\ ContentInv)'
  BY StepControl, StepContent
<1> QED
  BY <1>1, <1>2, PTL DEF Spec

\* Type correctness of GdkDownloader, for any items and any number of starts.
THEOREM DownloaderTypeCorrect == Spec => []TypeOK
<1>1. ControlInv => TypeOK
  BY DEF ControlInv
<1> QED
  BY DownloaderInvariance, <1>1, PTL

\* worker_fn calls on_done exactly once and last, whatever fails and whenever
\* the set is cancelled.
THEOREM DoneOnce == Spec => []DoneExactlyOnce
<1>1. ControlInv => DoneExactlyOnce
  BY DEF ControlInv
<1> QED
  BY DownloaderInvariance, <1>1, PTL

\* Where HEAD tells the lengths, only whole files are ever found under their
\* final names, whatever crashed or was cancelled before, except of the items of
\* which close() lost a part unseen.
THEOREM FilesIntact == Spec => []DestIntact
<1>1. ContentInv => DestIntact
  BY DEF ContentInv, DestIntact
<1> QED
  BY DownloaderInvariance, <1>1, PTL

\* Where HEAD tells the lengths, on_done(true) means that every item is complete
\* of which close() never lost a part.
THEOREM OkIsComplete == Spec => []OkMeansComplete
<1>1. ContentInv => OkMeansComplete
  BY DEF ContentInv, OkMeansComplete
<1> QED
  BY DownloaderInvariance, <1>1, PTL

-----------------------------------------------------------------------------
(* Progress *)

KnownLengths == \A i \in Items : sizes[i] > 0

\* What has been reported is behind what is counted; an item that is accepted
\* counts for as much as was fetched of it.
Counted ==
  /\ worker \in {"open", "size"} => base = 0 /\ shown = 0
  /\ worker \in {"pick", "get", "send"} /\ KnownLengths => shown <= base
  /\ worker \in {"read", "verify", "remove", "rename"} /\ KnownLengths =>
       shown <= base + fileBytes
  /\ worker \in {"remove", "rename"} /\ KnownLengths => fileBytes = sizes[idx]

LEMMA StepCounted == ControlInv /\ ControlInv' /\ Counted /\ [Next]_vars => Counted'
<1> SUFFICES ASSUME ControlInv, ControlInv', Counted, [Next]_vars PROVE Counted'
  OBVIOUS
<1> USE DEF vars, disk, api, transfer, progress
<1>1. /\ sizes \in [Items -> Int] /\ worker \in Running \cup {"none", "over"}
      /\ base \in Nat /\ shown \in Nat /\ fileBytes \in Nat /\ resume \in Nat
      /\ worker \in Fetching => idx \in Items
      /\ worker = "pick" /\ idx <= Len(Sizes) => idx \in Items
      /\ base' \in Nat /\ shown' \in Nat /\ fileBytes' \in Nat
      /\ owner \in {"reset", "launch"} => worker = "none"
  BY Lengths DEF ControlInv, TypeOK, FreshSet, Items
<1>2. CASE worker' \notin Running
  BY <1>2 DEF Counted, Running, Fetching
<1>3. CASE UNCHANGED <<worker, idx, sizes, fileBytes, base, shown>>
  BY <1>3 DEF Counted, KnownLengths
<1>4. CASE StartLaunch
  BY <1>4 DEF StartLaunch, Counted
<1>5. CASE OpenSession \/ SizeItem \/ BeginDownloads
  BY <1>5 DEF OpenSession, SizeItem, BeginDownloads, Counted
<1>6. CASE Skip
  BY <1>1, <1>6 DEF Skip, Counted, KnownLengths
<1>7. CASE BeginItem \/ OpenTmp
  BY <1>7 DEF BeginItem, OpenTmp, Counted, KnownLengths
<1>8. CASE Respond
  BY <1>1, <1>8 DEF Respond, Counted, KnownLengths
<1>9. CASE ReadChunk
  BY <1>1, <1>9 DEF ReadChunk, Counted, KnownLengths
<1>10. CASE EndOfBody \/ RemoveOld
  BY <1>10 DEF EndOfBody, RemoveOld, Counted, KnownLengths
<1>11. CASE Accept
  BY <1>1, <1>11 DEF Accept, WrongSize, Counted, KnownLengths, Running, Fetching
<1>12. CASE Rename
  <2>1. KnownLengths => base' = base + fileBytes
    BY <1>1, <1>12 DEF Rename, Counted, KnownLengths, Running, Fetching
  <2> QED
    BY <1>1, <1>12, <2>1 DEF Rename, Counted, KnownLengths
<1> QED
  BY <1>2, <1>3, <1>4, <1>5, <1>6, <1>7, <1>8, <1>9, <1>10, <1>11, <1>12
  DEF Next, OwnerStep, WorkerStep, StartEmpty, StartCall, StartJoin, StartReset, StartLaunchFails,
      Cancel, Destroy, DestroyJoin, OpenSessionFails, SeeCancelled, MalformedUrl, AllDone,
      OpenFails, RequestFails, WriteFails, SizeMismatch, RenameFails, Fail, Finish, Crash,
     Running, Fetching

LEMMA CountedInvariance == Spec => []Counted
<1>1. Init => Counted
  BY DEF Init, Counted
<1> QED
  BY <1>1, StepCounted, DownloaderInvariance, PTL DEF Spec

\* While a set with known lengths is in flight the bytes_done of its progress
\* reports never goes back, at any kind of server and whatever is resumed,
\* skipped or sent again.
THEOREM ProgressMonotone == Spec => ProgressIsMonotone
<1>1. ASSUME ControlInv, Counted, [Next]_vars,
             worker \in Running, worker' \in Running, TotalBytes > 0
      PROVE  shown' >= shown
  <2>1. /\ KnownLengths /\ base \in Nat /\ shown \in Nat /\ fileBytes \in Nat
        /\ sizes \in [Items -> Int]
        /\ worker = "pick" /\ idx <= Len(Sizes) => idx \in Items
    BY <1>1, Lengths DEF ControlInv, TypeOK, TotalBytes, KnownLengths, Items
  <2>2. CASE Skip
    BY <1>1, <2>1, <2>2 DEF Skip, Counted, KnownLengths
  <2>3. CASE ReadChunk
    BY <1>1, <2>1, <2>3 DEF ReadChunk, Counted
  <2>4. CASE ~Skip /\ ~ReadChunk
    <3>1. UNCHANGED shown
      BY <1>1, <2>4 DEF Next, OwnerStep, WorkerStep, StartEmpty, StartCall, StartJoin, StartReset,
         StartLaunch, StartLaunchFails, Cancel, Destroy, DestroyJoin, OpenSession,
         OpenSessionFails, SeeCancelled, SizeItem, BeginDownloads, BeginItem, MalformedUrl,
         AllDone, OpenTmp, OpenFails,
         Respond, RequestFails, WriteFails, EndOfBody, SizeMismatch, Accept, RemoveOld,
         Rename, RenameFails, Fail, Finish, Crash, ControlInv, FreshSet, Running, Fetching,
         vars, progress
    <3> QED
      BY <2>1, <3>1
  <2> QED
    BY <2>2, <2>3, <2>4
<1>2. ControlInv /\ Counted /\ [Next]_vars =>
        [(worker \in Running /\ worker' \in Running /\ TotalBytes > 0) => shown' >= shown]_vars
  BY <1>1
<1> QED
  BY <1>2, DownloaderInvariance, CountedInvariance, PTL DEF Spec, ProgressIsMonotone

-----------------------------------------------------------------------------
(* The sum that progress is measured against *)

\* What BytesUpTo adds up, one item after the other.
LEMMA Sums ==
  ASSUME NEW f \in [Items -> Nat]
  PROVE  /\ BytesUpTo(f, 0) = 0
         /\ \A n \in 0..Len(Sizes) : BytesUpTo(f, n) \in Nat
         /\ \A n \in Items : BytesUpTo(f, n) = BytesUpTo(f, n - 1) + f[n]
         /\ \A m, n \in 0..Len(Sizes) : m <= n => BytesUpTo(f, m) <= BytesUpTo(f, n)
<1> DEFINE sum == CHOOSE s : IsRunningTotal(s, f, Len(Sizes))
<1>1. Len(Sizes) \in Nat /\ Items = 1..Len(Sizes)
  BY Lengths DEF Items
<1>2. IsRunningTotal(sum, f, Len(Sizes))
  BY <1>1, RunningTotalExists
<1>3. \A n : BytesUpTo(f, n) = sum[n]
  BY DEF BytesUpTo, IsRunningTotal
<1> HIDE DEF sum
<1>4. f \in [1..Len(Sizes) -> Nat]
  BY <1>1
<1>5. /\ sum[0] = 0
      /\ \A n \in 1..Len(Sizes) : sum[n] = sum[n - 1] + f[n]
      /\ \A n \in 0..Len(Sizes) : sum[n] \in Nat
      /\ \A m, n \in 0..Len(Sizes) : m <= n => sum[m] <= sum[n]
  BY <1>1, <1>2, <1>4, RunningTotal
<1> QED
  BY <1>1, <1>3, <1>5

\* Where the lengths are known, what is counted is the items before the one in
\* hand, skipped or fetched, each for its whole length.
CountedExactly ==
  KnownLengths /\ worker \in {"pick"} \cup Fetching => base = BytesUpTo(sizes, idx - 1)

\* Of the item in hand no more is counted than there is of it, where a fetch
\* starts at the length it is counted from.
FetchedInRange ==
  CountedFromTheStart /\ worker \in {"read", "verify", "remove", "rename"} =>
    fileBytes = pos /\ pos <= Sizes[idx]

\* The sum over the lengths, one by one, when all of them are known.
LEMMA KnownSums ==
  ASSUME ControlInv, KnownLengths
  PROVE  /\ BytesUpTo(sizes, 0) = 0
         /\ \A n \in 0..Len(Sizes) : BytesUpTo(sizes, n) \in Nat
         /\ \A n \in Items : BytesUpTo(sizes, n) = BytesUpTo(sizes, n - 1) + sizes[n]
         /\ \A m, n \in 0..Len(Sizes) : m <= n => BytesUpTo(sizes, m) <= BytesUpTo(sizes, n)
<1>1. sizes \in [Items -> Int]
  BY DEF ControlInv, TypeOK
<1>2. sizes \in [Items -> Nat]
  BY <1>1 DEF KnownLengths
<1> QED
  BY <1>2, Sums

LEMMA StepCountedExactly ==
  ControlInv /\ ControlInv' /\ CountedExactly /\ [Next]_vars => CountedExactly'
<1> SUFFICES ASSUME ControlInv, ControlInv', CountedExactly, [Next]_vars,
                    KnownLengths', worker' \in {"pick"} \cup Fetching
             PROVE  base' = BytesUpTo(sizes', idx' - 1)
  BY DEF CountedExactly, KnownLengths, BytesUpTo
<1> USE DEF vars, disk, api, transfer, progress
<1>1. /\ sizes \in [Items -> Int] /\ worker \in Running \cup {"none", "over"}
      /\ idx \in 1..(Len(Sizes) + 1) /\ Len(Sizes) \in Nat /\ base \in Nat
      /\ worker \in Fetching => idx \in Items
      /\ worker = "pick" /\ idx <= Len(Sizes) => idx \in Items
      /\ owner \in {"reset", "launch"} => worker = "none"
  BY Lengths DEF ControlInv, TypeOK, FreshSet, Items
<1>2. ASSUME UNCHANGED <<idx, sizes, base>>, worker \in {"pick"} \cup Fetching
      PROVE  base' = BytesUpTo(sizes', idx' - 1)
  BY <1>2 DEF CountedExactly, KnownLengths
<1>3. CASE BeginDownloads
  <2>1. base' = 0 /\ idx' - 1 = 0 /\ sizes' = sizes /\ KnownLengths
    BY <1>3 DEF BeginDownloads, KnownLengths
  <2> QED
    BY <2>1, KnownSums
<1>4. ASSUME idx \in Items, worker \in {"pick"} \cup Fetching, sizes' = sizes, idx' = idx + 1,
             base' = base + sizes[idx]
      PROVE  base' = BytesUpTo(sizes', idx' - 1)
  <2>1. KnownLengths
    BY <1>4 DEF KnownLengths
  <2>2. base = BytesUpTo(sizes, idx - 1)
    BY <1>4, <2>1 DEF CountedExactly
  <2>3. BytesUpTo(sizes, idx) = BytesUpTo(sizes, idx - 1) + sizes[idx]
    BY <1>4, <2>1, KnownSums
  <2>4. idx' - 1 = idx
    BY <1>1, <1>4
  <2> QED
    BY <1>4, <2>2, <2>3, <2>4
<1>5. CASE Skip
  BY <1>1, <1>4, <1>5 DEF Skip, Running, Fetching
<1>6. CASE Rename
  <2>1. sizes[idx] > 0
    BY <1>1, <1>6 DEF Rename, KnownLengths, Running, Fetching
  <2> QED
    BY <1>1, <1>4, <1>6, <2>1 DEF Rename, Running, Fetching
<1>7. CASE UNCHANGED vars \/ StartEmpty \/ StartCall \/ Cancel \/ Destroy \/ StartReset
           \/ StartLaunchFails \/ DestroyJoin
  <2>1. UNCHANGED <<worker, idx, sizes, base>>
    BY <1>7 DEF StartEmpty, StartCall, Cancel, Destroy, StartReset, StartLaunchFails, DestroyJoin
  <2> QED
    BY <1>2, <2>1
<1>8. CASE BeginItem \/ OpenTmp \/ Respond \/ ReadChunk \/ EndOfBody \/ Accept \/ RemoveOld
  BY <1>2, <1>8 DEF BeginItem, OpenTmp, Respond, ReadChunk, EndOfBody, Accept, RemoveOld,
     Running, Fetching
<1>9. CASE StartJoin \/ StartLaunch \/ OpenSession \/ SizeItem \/ AllDone \/ Fail \/ Crash
  BY <1>9 DEF StartJoin, StartLaunch, OpenSession, SizeItem, AllDone, Fail, Finish, Crash,
     Running, Fetching
<1> QED
  BY <1>3, <1>5, <1>6, <1>7, <1>8, <1>9
  DEF Next, OwnerStep, WorkerStep, OpenSessionFails, SeeCancelled, MalformedUrl, OpenFails,
      RequestFails, WriteFails, SizeMismatch, RenameFails

LEMMA StepFetchedInRange ==
  ControlInv /\ ControlInv' /\ ContentInv /\ FetchedInRange /\ [Next]_vars => FetchedInRange'
<1> SUFFICES ASSUME ControlInv, ControlInv', ContentInv, FetchedInRange, [Next]_vars,
                    CountedFromTheStart'
             PROVE  FetchedInRange'
  BY DEF FetchedInRange
<1> USE DEF vars, disk, api, transfer, progress
<1>1. /\ \A i \in Items : Sizes[i] \in Nat
      /\ worker \in Running \cup {"none", "over"}
      /\ worker \in Fetching => idx \in Items
      /\ pos \in Nat /\ resume \in Nat
      /\ server' = server
  BY Lengths, ServerFixed DEF ControlInv, TypeOK
<1>2. ASSUME unflushed \subseteq unflushed',
             UNCHANGED <<worker, idx, fileBytes, pos>>
      PROVE  FetchedInRange'
  BY <1>1, <1>2 DEF FetchedInRange, CountedFromTheStart
<1>3. CASE worker' \notin {"read", "verify", "remove", "rename"}
  BY <1>3 DEF FetchedInRange
<1>4. CASE Respond
  <2>1. CountedFromTheStart
    BY <1>1, <1>4 DEF Respond, CountedFromTheStart
  <2>2. server.lengths /\ unflushed = {} => resume = 0
    BY <1>4 DEF Respond, ContentInv, Transferred
  <2>3. fileBytes' = resume /\ pos' = (IF Ranged THEN resume ELSE 0)
    BY <1>4 DEF Respond
  <2>4. idx \in Items /\ (Ranged => resume < Sizes[idx])
    BY <1>1, <1>4 DEF Respond, Fetching
  <2>5. ~Ranged => resume = 0
    BY <1>1, <2>1, <2>2 DEF Ranged, CountedFromTheStart
  <2> QED
    BY <1>1, <1>4, <2>3, <2>4, <2>5 DEF Respond, FetchedInRange
<1>5. CASE ReadChunk
  BY <1>1, <1>5 DEF ReadChunk, FetchedInRange, CountedFromTheStart, Fetching
<1>6. CASE EndOfBody \/ Accept \/ RemoveOld
  BY <1>1, <1>6 DEF EndOfBody, Accept, RemoveOld, FetchedInRange, CountedFromTheStart
<1> QED
  BY <1>2, <1>3, <1>4, <1>5, <1>6
  DEF Next, OwnerStep, WorkerStep, StartEmpty, StartCall, StartJoin, StartReset, StartLaunch,
      StartLaunchFails, Cancel, Destroy, DestroyJoin, OpenSession, OpenSessionFails,
      SeeCancelled, SizeItem, BeginDownloads, Skip, BeginItem, MalformedUrl, AllDone, OpenTmp,
      OpenFails, RequestFails, WriteFails, SizeMismatch, Rename, RenameFails, Fail, Finish, Crash

LEMMA ProgressInvariance == Spec => [](CountedExactly /\ FetchedInRange)
<1>1. Init => CountedExactly /\ FetchedInRange
  BY DEF Init, CountedExactly, FetchedInRange, Fetching
<1>2. ControlInv /\ ControlInv' /\ ContentInv /\ CountedExactly /\ FetchedInRange /\ [Next]_vars =>
        (CountedExactly /\ FetchedInRange)'
  BY StepCountedExactly, StepFetchedInRange
<1> QED
  BY <1>1, <1>2, DownloaderInvariance, PTL DEF Spec

\* A set whose total is that of the files never reports more bytes than the
\* total, however many items there are, whatever was skipped and wherever a
\* fetch was resumed; only where a file that is short is resumed at a server
\* that ignores Range may it pass the total.
THEOREM ProgressWithinTotal == Spec => []ProgressInRange
<1>1. ASSUME ControlInv, Counted, CountedExactly, FetchedInRange,
             worker \in {"pick"} \cup Fetching, TotalBytes > 0, sizes = Sizes,
             CountedFromTheStart
      PROVE  shown <= TotalBytes
  <2>1. /\ KnownLengths /\ TotalBytes = BytesUpTo(sizes, Len(Sizes))
        /\ idx \in 1..(Len(Sizes) + 1) /\ Len(Sizes) \in Nat
        /\ shown \in Nat /\ base \in Nat /\ fileBytes \in Nat
        /\ worker \in Fetching => idx \in Items
    BY <1>1, Lengths DEF ControlInv, TypeOK, TotalBytes, KnownLengths
  <2>2. base = BytesUpTo(sizes, idx - 1)
    BY <1>1, <2>1 DEF CountedExactly
  <2>3. BytesUpTo(sizes, Len(Sizes)) \in Nat /\ base <= BytesUpTo(sizes, Len(Sizes))
    BY <1>1, <2>1, <2>2, KnownSums
  <2>4. CASE worker \in {"pick", "get", "send"}
    BY <1>1, <2>1, <2>3, <2>4 DEF Counted
  <2>5. CASE worker \in {"read", "verify", "remove", "rename"}
    <3>1. idx \in Items
      BY <1>1, <2>1, <2>5
    <3>2. fileBytes <= sizes[idx] /\ sizes[idx] \in Nat
      <4>1. sizes[idx] = Sizes[idx] /\ Sizes[idx] \in Nat
        BY <3>1, <1>1, Lengths
      <4> QED
        BY <1>1, <2>5, <4>1 DEF FetchedInRange
    <3>3. BytesUpTo(sizes, idx) = base + sizes[idx]
      BY <1>1, <2>1, <2>2, <3>1, KnownSums
    <3>4. BytesUpTo(sizes, idx) <= BytesUpTo(sizes, Len(Sizes)) /\ BytesUpTo(sizes, idx) \in Nat
      <4>1. idx \in 0..Len(Sizes) /\ Len(Sizes) \in 0..Len(Sizes) /\ idx <= Len(Sizes)
        BY <2>1, <3>1 DEF Items
      <4> QED
        BY <1>1, <2>1, <4>1, KnownSums
    <3>5. shown <= base + fileBytes
      BY <1>1, <2>1, <2>5 DEF Counted
    <3> QED
      BY <2>1, <2>3, <3>2, <3>3, <3>4, <3>5
  <2> QED
    BY <1>1, <2>4, <2>5 DEF Running, Fetching
<1>2. ASSUME ControlInv, Counted, worker \in {"open", "size"}, TotalBytes > 0
      PROVE  shown <= TotalBytes
  <2>1. KnownLengths /\ TotalBytes = BytesUpTo(sizes, Len(Sizes))
    BY <1>2 DEF TotalBytes, KnownLengths
  <2>2. BytesUpTo(sizes, Len(Sizes)) \in Nat
    BY <1>2, <2>1, Lengths, KnownSums
  <2> QED
    BY <1>2, <2>1, <2>2 DEF Counted
<1>3. ControlInv /\ Counted /\ CountedExactly /\ FetchedInRange => ProgressInRange
  <2> SUFFICES ASSUME ControlInv, Counted, CountedExactly, FetchedInRange,
                      worker \in Running, TotalBytes > 0, sizes = Sizes, CountedFromTheStart
               PROVE  shown <= TotalBytes
    BY DEF ProgressInRange
  <2> QED
    BY <1>1, <1>2 DEF Running
<1> QED
  BY <1>3, DownloaderInvariance, CountedInvariance, ProgressInvariance, PTL
=============================================================================
