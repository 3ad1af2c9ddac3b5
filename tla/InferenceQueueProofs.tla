------------------------ MODULE InferenceQueueProofs ------------------------
(***************************************************************************)
(* Proofs about InferenceQueue for every set of callers and every depth:   *)
(* the inductive invariant IInv, the safety properties it contains, and    *)
(* the refinement of SingleFlight.                                         *)
(***************************************************************************)
EXTENDS InferenceQueue, SequenceTheorems, TLAPS

-----------------------------------------------------------------------------
(* Facts about the deque *)

\* What push_back does to the contents of the deque.
LEMMA PushBack ==
  ASSUME NEW S, NEW s \in Seq(S), NEW e \in S
  PROVE  /\ Append(s, e) \in Seq(S)
         /\ Len(Append(s, e)) = Len(s) + 1
         /\ Append(s, e) # << >>
         /\ \A c : Occurs(c, Append(s, e)) <=> Occurs(c, s) \/ c = e
         /\ NoRepeats(s) /\ ~Occurs(e, s) => NoRepeats(Append(s, e))
<1> DEFINE t == Append(s, e)
<1>1. /\ t \in Seq(S) /\ t # << >>
      /\ Len(t) = Len(s) + 1
      /\ \A i \in 1..Len(s) : t[i] = s[i]
      /\ t[Len(s) + 1] = e
      /\ Len(s) \in Nat
  BY AppendProperties, LenProperties
<1> HIDE DEF t
<1>2. \A c : Occurs(c, t) <=> Occurs(c, s) \/ c = e
  BY <1>1 DEF Occurs
<1>3. NoRepeats(s) /\ ~Occurs(e, s) => NoRepeats(t)
  BY <1>1 DEF NoRepeats, Occurs
<1> QED
  BY <1>1, <1>2, <1>3 DEF t

\* What front and pop_front do to it.
LEMMA PopFront ==
  ASSUME NEW S, NEW s \in Seq(S), s # << >>
  PROVE  /\ Head(s) \in S
         /\ Tail(s) \in Seq(S)
         /\ Len(Tail(s)) = Len(s) - 1
         /\ Occurs(Head(s), s)
         /\ \A c : Occurs(c, s) <=> Occurs(c, Tail(s)) \/ c = Head(s)
         /\ NoRepeats(s) => NoRepeats(Tail(s)) /\ ~Occurs(Head(s), Tail(s))
<1> DEFINE t == Tail(s)  h == Head(s)
<1>1. /\ h \in S /\ t \in Seq(S)
      /\ Len(s) \in Nat /\ Len(s) > 0
      /\ Len(t) = Len(s) - 1
      /\ \A i \in 1..Len(t) : t[i] = s[i + 1]
      /\ h = s[1]
  BY HeadTailProperties, EmptySeq, LenProperties
<1> HIDE DEF t, h
<1>2. ASSUME NEW c PROVE Occurs(c, s) <=> Occurs(c, t) \/ c = h
  <2>1. ASSUME Occurs(c, s) PROVE Occurs(c, t) \/ c = h
    <3>1. PICK i \in 1..Len(s) : s[i] = c
      BY <2>1 DEF Occurs
    <3>2. CASE i = 1
      BY <3>1, <3>2, <1>1
    <3>3. CASE i # 1
      <4>1. i - 1 \in 1..Len(t) /\ t[i - 1] = s[i - 1 + 1]
        BY <3>3, <1>1
      <4> QED
        BY <4>1, <3>1, <1>1 DEF Occurs
    <3> QED
      BY <3>2, <3>3
  <2>2. ASSUME Occurs(c, t) PROVE Occurs(c, s)
    BY <2>2, <1>1 DEF Occurs
  <2>3. ASSUME c = h PROVE Occurs(c, s)
    BY <2>3, <1>1 DEF Occurs
  <2> QED
    BY <2>1, <2>2, <2>3
<1>3. ASSUME NoRepeats(s) PROVE NoRepeats(t) /\ ~Occurs(h, t)
  <2>1. ASSUME NEW i \in 1..Len(t)
        PROVE  i + 1 \in 1..Len(s) /\ t[i] = s[i + 1] /\ i + 1 # 1
    BY <1>1
  <2>2. NoRepeats(t)
    BY <2>1, <1>1, <1>3 DEF NoRepeats
  <2>3. ~Occurs(h, t)
    BY <2>1, <1>1, <1>3 DEF NoRepeats, Occurs
  <2> QED
    BY <2>2, <2>3
<1> QED
  BY <1>1, <1>2, <1>3 DEF t, h

-----------------------------------------------------------------------------
(* The inductive invariant *)

LEMMA InitIInv == Init => IInv
<1> SUFFICES ASSUME Init PROVE IInv
  OBVIOUS
<1> USE QueueConstants DEF Init, QueueConstants
<1>1. TypeOK
  <2>1. queue \in Seq(Callers) /\ Len(queue) = 0
    BY EmptySeq
  <2>2. Len(queue) <= MaxQueueDepth
    BY <2>1
  <2>3. caller \in [Callers -> CallerPCs]
    BY DEF CallerPCs
  <2>4. outcome \in [Callers -> Results \cup {"none", "overloaded"}]
    OBVIOUS
  <2> QED
    BY <2>1, <2>2, <2>3, <2>4 DEF TypeOK, WorkerPCs, CloserPCs
<1>2. LockDiscipline
  BY DEF LockDiscipline
<1>3. JobConservation
  BY EmptySeq DEF JobConservation, NoRepeats, Queued, Occurs, AtWorker, Owed
<1>4. NoLostWakeup /\ FrontIsDefined /\ ControlPoints
  BY DEF NoLostWakeup, FrontIsDefined, ControlPoints
<1> QED
  BY <1>1, <1>2, <1>3, <1>4 DEF IInv

LEMMA StepIInv == IInv /\ [Next]_vars => IInv'
<1> SUFFICES ASSUME IInv, [Next]_vars PROVE IInv'
  OBVIOUS
<1> USE QueueConstants DEF QueueConstants, IInv
<1> USE DEF TypeOK, CallerPCs, WorkerPCs, CloserPCs, Results
<1>1. ASSUME NEW c \in Callers, Generate(c) PROVE IInv'
  BY <1>1 DEF Generate, LockDiscipline, JobConservation, NoLostWakeup,
     FrontIsDefined, ControlPoints, Queued, AtWorker, Owed
<1>2. ASSUME NEW c \in Callers, CallerLock(c) PROVE IInv'
  BY <1>2 DEF CallerLock, LockDiscipline, JobConservation, NoLostWakeup,
     FrontIsDefined, ControlPoints, Queued, AtWorker, Owed
<1>3. ASSUME NEW c \in Callers, Reject(c) PROVE IInv'
  BY <1>3 DEF Reject, LockDiscipline, JobConservation, NoLostWakeup,
     FrontIsDefined, ControlPoints, Queued, AtWorker, Owed
<1>4. ASSUME NEW c \in Callers, Enqueue(c) PROVE IInv'
  <2> USE <1>4
  <2>1. /\ queue' \in Seq(Callers) /\ Len(queue') = Len(queue) + 1
        /\ queue' # << >>
        /\ \A d : Occurs(d, queue') <=> Occurs(d, queue) \/ d = c
        /\ NoRepeats(queue) /\ ~Occurs(c, queue) => NoRepeats(queue')
    BY PushBack DEF Enqueue
  <2>2. ~Owed(c) /\ outcome[c] = "none"
    BY DEF Enqueue, Owed, ControlPoints
  <2>3. TypeOK'
    BY <2>1, LenProperties DEF Enqueue, Full
  <2>4. LockDiscipline'
    BY DEF Enqueue, LockDiscipline
  <2>5. JobConservation'
    <3>1. ~Occurs(c, queue) /\ ~AtWorker(c)
      BY <2>2 DEF JobConservation, Queued
    <3>2. NoRepeats(queue')
      BY <2>1, <3>1 DEF JobConservation
    <3>3. ASSUME NEW d \in Callers
          PROVE  /\ Owed(d)' <=> Queued(d)' \/ AtWorker(d)'
                 /\ ~(Queued(d)' /\ AtWorker(d)')
      BY <2>1, <2>2, <3>1 DEF JobConservation, Queued, AtWorker, Owed, Enqueue
    <3> QED
      BY <3>2, <3>3 DEF JobConservation, Enqueue
  <2>6. NoLostWakeup' /\ FrontIsDefined' /\ ControlPoints'
    BY <2>1 DEF Enqueue, NoLostWakeup, FrontIsDefined, ControlPoints, LockDiscipline
  <2> QED
    BY <2>3, <2>4, <2>5, <2>6
<1>5. ASSUME NEW c \in Callers, NotifyOne(c) PROVE IInv'
  BY <1>5 DEF NotifyOne, Awaken, LockDiscipline, JobConservation, NoLostWakeup,
     FrontIsDefined, ControlPoints, Queued, AtWorker, Owed
<1>6. ASSUME NEW c \in Callers, Return(c) PROVE IInv'
  BY <1>6 DEF Return, LockDiscipline, JobConservation, NoLostWakeup,
     FrontIsDefined, ControlPoints, Queued, AtWorker, Owed
<1>7. CASE WorkerLock
  BY <1>7 DEF WorkerLock, LockDiscipline, JobConservation, NoLostWakeup,
     FrontIsDefined, ControlPoints, Queued, AtWorker, Owed
<1>8. CASE TestPredicate
  BY <1>8 DEF TestPredicate, LockDiscipline, JobConservation, NoLostWakeup,
     FrontIsDefined, ControlPoints, Queued, AtWorker, Owed
<1>9. CASE Block
  BY <1>9 DEF Block, LockDiscipline, JobConservation, NoLostWakeup,
     FrontIsDefined, ControlPoints, Queued, AtWorker, Owed
<1>10. CASE SpuriousWakeup
  BY <1>10 DEF SpuriousWakeup, LockDiscipline, JobConservation, NoLostWakeup,
     FrontIsDefined, ControlPoints, Queued, AtWorker, Owed
<1>11. CASE Exit
  BY <1>11 DEF Exit, LockDiscipline, JobConservation, NoLostWakeup,
     FrontIsDefined, ControlPoints, Queued, AtWorker, Owed
<1>12. CASE Take
  <2> USE <1>12
  <2>1. queue # << >>
    BY DEF Take, FrontIsDefined
  <2>2. /\ job' \in Callers /\ queue' \in Seq(Callers)
        /\ Len(queue') = Len(queue) - 1
        /\ Occurs(job', queue)
        /\ \A d : Occurs(d, queue) <=> Occurs(d, queue') \/ d = job'
        /\ NoRepeats(queue) => NoRepeats(queue') /\ ~Occurs(job', queue')
    BY <2>1, PopFront DEF Take
  <2>3. TypeOK'
    BY <2>2, LenProperties DEF Take
  <2>4. LockDiscipline'
    BY DEF Take, LockDiscipline
  <2>5. JobConservation'
    BY <2>2 DEF JobConservation, Queued, AtWorker, Owed, Take
  <2>6. NoLostWakeup' /\ FrontIsDefined' /\ ControlPoints'
    BY DEF Take, NoLostWakeup, FrontIsDefined, ControlPoints
  <2> QED
    BY <2>3, <2>4, <2>5, <2>6
<1>13. ASSUME NEW r \in Results, Decode(r) PROVE IInv'
  BY <1>13 DEF Decode, LockDiscipline, JobConservation, NoLostWakeup,
     FrontIsDefined, ControlPoints, Queued, AtWorker, Owed
<1>14. CASE Deliver
  <2> USE <1>14
  <2>1. /\ job \in Callers /\ reply \in Results
        /\ outcome' = [outcome EXCEPT ![job] = reply]
        /\ Owed(job)
    BY DEF Deliver, JobConservation, ControlPoints, AtWorker
  <2>2. TypeOK' /\ LockDiscipline'
    BY <2>1 DEF Deliver, LockDiscipline
  <2>3. JobConservation'
    BY <2>1 DEF Deliver, JobConservation, Queued, AtWorker, Owed
  <2>4. NoLostWakeup' /\ FrontIsDefined' /\ ControlPoints'
    BY <2>1 DEF Deliver, NoLostWakeup, FrontIsDefined, ControlPoints, Owed
  <2> QED
    BY <2>2, <2>3, <2>4
<1>15. CASE ShutdownCall
  BY <1>15 DEF ShutdownCall, LockDiscipline, JobConservation, NoLostWakeup,
     FrontIsDefined, ControlPoints, Queued, AtWorker, Owed
<1>16. CASE ShutdownLock
  BY <1>16 DEF ShutdownLock, LockDiscipline, JobConservation, NoLostWakeup,
     FrontIsDefined, ControlPoints, Queued, AtWorker, Owed
<1>17. CASE ShutdownSetStop
  BY <1>17 DEF ShutdownSetStop, LockDiscipline, JobConservation, NoLostWakeup,
     FrontIsDefined, ControlPoints, Queued, AtWorker, Owed
<1>18. CASE ShutdownNotify
  BY <1>18 DEF ShutdownNotify, Awaken, LockDiscipline, JobConservation, NoLostWakeup,
     FrontIsDefined, ControlPoints, Queued, AtWorker, Owed
<1>19. CASE ShutdownJoin
  BY <1>19 DEF ShutdownJoin, LockDiscipline, JobConservation, NoLostWakeup,
     FrontIsDefined, ControlPoints, Queued, AtWorker, Owed
<1>20. CASE UNCHANGED vars
  BY <1>20 DEF vars, LockDiscipline, JobConservation, NoLostWakeup,
     FrontIsDefined, ControlPoints, Queued, AtWorker, Owed
<1> QED
  BY <1>1, <1>2, <1>3, <1>4, <1>5, <1>6, <1>7, <1>8, <1>9, <1>10, <1>11, <1>12,
     <1>13, <1>14, <1>15, <1>16, <1>17, <1>18, <1>19, <1>20
  DEF Next, CallerNext, CallerStep, WorkerNext, WorkerStep, CloserNext, ShutdownStep

-----------------------------------------------------------------------------
(* Safety *)

\* IInv is an invariant: the property every theorem below rests on.
THEOREM Invariance == Spec => []IInv
<1>1. Init => IInv
  BY InitIInv
<1>2. IInv /\ [Next]_vars => IInv'
  BY StepIInv
<1> QED
  BY <1>1, <1>2, PTL DEF Spec

\* Type correctness, and the bound max_queue_depth_ on queue_, for any number
\* of callers that race through generate().
THEOREM TypeCorrect == Spec => []TypeOK
<1>1. IInv => TypeOK
  BY DEF IInv
<1> QED
  BY Invariance, <1>1, PTL

\* No job of generate() is lost, duplicated or answered twice, and on_token
\* never runs over a frame that has gone.
THEOREM JobsConserved == Spec => []JobConservation
<1>1. IInv => JobConservation
  BY DEF IInv
<1> QED
  BY Invariance, <1>1, PTL

\* worker_loop() never sleeps over work or over a stop request with no
\* notification to come.
THEOREM NoWakeupIsLost == Spec => []NoLostWakeup
<1>1. IInv => NoLostWakeup
  BY DEF IInv
<1> QED
  BY Invariance, <1>1, PTL

\* queue_.front() is never called on an empty deque.
THEOREM FrontDefined == Spec => []FrontIsDefined
<1>1. IInv => FrontIsDefined
  BY DEF IInv
<1> QED
  BY Invariance, <1>1, PTL

-----------------------------------------------------------------------------
(* Refinement *)

\* The initial state is one of the service's.
LEMMA InitRefines == Init => Abstract!SFInit
BY DEF Init, Abstract!SFInit

\* Every step of a thread is a step of the service or changes nothing of it.
LEMMA StepRefines ==
  IInv /\ [Next]_vars => [Abstract!SFNext]_Abstract!sfVars
<1> SUFFICES ASSUME IInv, [Next]_vars
             PROVE  Abstract!SFNext \/ UNCHANGED Abstract!sfVars
  OBVIOUS
<1> USE QueueConstants DEF QueueConstants, IInv, TypeOK
<1>1. ASSUME NEW c \in Callers, Generate(c) PROVE Abstract!Ask(c)
  BY <1>1 DEF Generate, Abstract!Ask, CallerPCs
<1>2. ASSUME NEW c \in Callers, CallerLock(c) PROVE UNCHANGED Abstract!sfVars
  <2>1. {d \in Callers : caller'[d] # "idle"} = {d \in Callers : caller[d] # "idle"}
    BY <1>2 DEF CallerLock, CallerPCs
  <2> QED
    BY <1>2, <2>1 DEF CallerLock, Abstract!sfVars
<1>3. ASSUME NEW c \in Callers, caller[c] = "locked"
      PROVE  /\ outcome[c] = "none"
             /\ ~Abstract!InLine(c)
             /\ job # c
  BY <1>3 DEF ControlPoints, JobConservation, Owed, Queued, Occurs, AtWorker,
     Abstract!InLine
<1>4. ASSUME NEW c \in Callers, Reject(c) PROVE Abstract!Refuse(c)
  <2>1. {d \in Callers : caller'[d] # "idle"}
          = {d \in Callers : caller[d] # "idle"} \ {c}
    BY <1>4 DEF Reject, CallerPCs
  <2> QED
    BY <1>3, <1>4, <2>1 DEF Reject, Full, Abstract!Refuse
<1>5. ASSUME NEW c \in Callers, Enqueue(c) PROVE Abstract!Accept(c)
  <2>1. {d \in Callers : caller'[d] # "idle"} = {d \in Callers : caller[d] # "idle"}
    BY <1>5 DEF Enqueue, CallerPCs
  <2>2. worker' = worker /\ Len(queue) < MaxQueueDepth
    BY <1>5, LenProperties DEF Enqueue, Full
  <2> QED
    BY <1>3, <1>5, <2>1, <2>2 DEF Enqueue, Abstract!Accept
<1>6. ASSUME NEW c \in Callers, NotifyOne(c) PROVE UNCHANGED Abstract!sfVars
  <2>1. {d \in Callers : caller'[d] # "idle"} = {d \in Callers : caller[d] # "idle"}
    BY <1>6 DEF NotifyOne, CallerPCs
  <2> QED
    BY <1>6, <2>1 DEF NotifyOne, Awaken, Abstract!sfVars
<1>7. ASSUME NEW c \in Callers, Return(c) PROVE Abstract!Leave(c)
  BY <1>7 DEF Return, CallerPCs, Abstract!Leave
<1>8. CASE WorkerLock
  BY <1>8 DEF WorkerLock, Abstract!sfVars
<1>9. CASE TestPredicate
  BY <1>9 DEF TestPredicate, Abstract!sfVars
<1>10. CASE Block
  BY <1>10 DEF Block, Abstract!sfVars
<1>11. CASE SpuriousWakeup
  BY <1>11 DEF SpuriousWakeup, Abstract!sfVars
<1>12. ASSUME Exit PROVE Abstract!Retire
  BY <1>12 DEF Exit, JobConservation, Abstract!Retire
<1>13. ASSUME Take PROVE Abstract!Serve
  BY <1>13 DEF Take, FrontIsDefined, JobConservation, Abstract!Serve
<1>14. ASSUME NEW r \in Results, Decode(r) PROVE UNCHANGED Abstract!sfVars
  BY <1>14 DEF Decode, Abstract!sfVars
<1>15. CASE Deliver
  <2>1. reply \in Results /\ job \in Callers /\ Owed(job)
    BY <1>15 DEF Deliver, ControlPoints, JobConservation, AtWorker
  <2>2. Abstract!Answer(reply)
    BY <1>15, <2>1 DEF Deliver, Owed, Abstract!Answer
  <2> QED
    BY <2>1, <2>2 DEF Abstract!SFNext
<1>16. CASE ShutdownCall
  BY <1>16 DEF ShutdownCall, Abstract!sfVars
<1>17. CASE ShutdownLock
  BY <1>17 DEF ShutdownLock, Abstract!sfVars
<1>18. ASSUME ShutdownSetStop PROVE Abstract!Close
  BY <1>18 DEF ShutdownSetStop, Abstract!Close
<1>19. CASE ShutdownNotify
  BY <1>19 DEF ShutdownNotify, Awaken, Abstract!sfVars
<1>20. CASE ShutdownJoin
  BY <1>20 DEF ShutdownJoin, Abstract!sfVars
<1>21. CASE UNCHANGED vars
  BY <1>21 DEF vars, Abstract!sfVars
<1> QED
  BY <1>1, <1>2, <1>4, <1>5, <1>6, <1>7, <1>8, <1>9, <1>10, <1>11, <1>12, <1>13,
     <1>14, <1>15, <1>16, <1>17, <1>18, <1>19, <1>20, <1>21
  DEF Next, CallerNext, CallerStep, WorkerNext, WorkerStep, CloserNext,
      ShutdownStep, Abstract!SFNext

\* The queue implements the single-flight service for any number of callers:
\* answers come in the order of acceptance, one job at a time.
THEOREM Refines == Spec => ImplementsSingleFlight
<1>1. Init => Abstract!SFInit
  BY InitRefines
<1>2. IInv /\ [Next]_vars => [Abstract!SFNext]_Abstract!sfVars
  BY StepRefines
<1> QED
  BY <1>1, <1>2, Invariance, PTL DEF Spec, ImplementsSingleFlight, Abstract!SFSpec
=============================================================================
