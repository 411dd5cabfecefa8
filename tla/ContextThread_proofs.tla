------------------------ MODULE ContextThread_proofs ------------------------
(***************************************************************************)
(* That a context thread does its work in order and once each, for any     *)
(* work, any signals and whoever attaches, cancels and quits.              *)
(***************************************************************************)
EXTENDS ContextThread, SequenceTheorems, TLAPS

(* Only the running loop has sources in hand.                              *)
ThreadInv ==
    /\ ThreadTypeOK
    /\ doing # Nothing \/ batch # <<>> => thread = "looping"

LEMMA NoSource == <<>> \in Seq(Works) /\ <<>> \in Seq(Signals)
OBVIOUS

LEMMA ThreadInvInit == ThreadInit => ThreadInv
BY NoSource DEF ThreadInit, ThreadInv, ThreadTypeOK

LEMMA ThreadInvStep == ThreadInv /\ [ThreadNext]_threadVars => ThreadInv'
<1> SUFFICES ASSUME ThreadInv, [ThreadNext]_threadVars PROVE ThreadInv'
  OBVIOUS
<1> USE DEF ThreadInv, ThreadTypeOK
<1>1. CASE BeforeLoop
  BY <1>1 DEF BeforeLoop
<1>2. CASE CheckCancelled
  BY <1>2 DEF CheckCancelled
<1>3. CASE RunLoop
  BY <1>3 DEF RunLoop
<1>4. CASE Gather
  <2>1. /\ thread = "looping" /\ doing = Nothing
        /\ batch' \in Seq(Works) \cup Seq(Signals)
        /\ works' \in Seq(Works) /\ signals' \in Seq(Signals)
        /\ UNCHANGED <<thread, cancelled, running, doing>>
    BY <1>4, NoSource DEF Gather, AtRest
  <2>2. QED
    BY <2>1
<1>5. CASE Dispatch
  <2>1. batch # <<>> /\ thread = "looping" /\ doing' = Head(batch) /\ batch' = Tail(batch)
    BY <1>5 DEF Dispatch
  <2>2. CASE batch \in Seq(Works)
    <3>1. Head(batch) \in Works /\ Tail(batch) \in Seq(Works)
      BY <2>1, <2>2
    <3>2. QED
      BY <1>5, <2>1, <3>1 DEF Dispatch, Sources
  <2>3. CASE batch \in Seq(Signals)
    <3>1. Head(batch) \in Signals /\ Tail(batch) \in Seq(Signals)
      BY <2>1, <2>3
    <3>2. QED
      BY <1>5, <2>1, <3>1 DEF Dispatch, Sources
  <2>4. QED
    BY <2>2, <2>3
<1>6. CASE LeaveLoop
  BY <1>6 DEF LeaveLoop, AtRest
<1>7. CASE AfterLoop
  BY <1>7, NoSource DEF AfterLoop
<1>8. CASE Return
  BY <1>8 DEF Return
<1>9. ASSUME NEW w \in Works, Attach(w) PROVE ThreadInv'
  <2>1. Append(works, w) \in Seq(Works)
    BY <1>9
  <2>2. QED
    BY <1>9, <2>1 DEF Attach
<1>10. ASSUME NEW s \in Signals, Signal(s) PROVE ThreadInv'
  <2>1. Append(signals, s) \in Seq(Signals)
    BY <1>10
  <2>2. QED
    BY <1>10, <2>1 DEF Signal
<1>11. CASE Cancel
  BY <1>11 DEF Cancel
<1>12. CASE QuitLoop
  BY <1>12 DEF QuitLoop
<1>13. CASE UNCHANGED threadVars
  BY <1>13 DEF threadVars
<1>14. QED
  BY <1>1, <1>2, <1>3, <1>4, <1>5, <1>6, <1>7, <1>8, <1>9, <1>10, <1>11, <1>12, <1>13
     DEF ThreadNext, Loop
-----------------------------------------------------------------------------
(* Sequences: taking the first element off and putting it back.            *)
LEMMA HeadBack ==
    ASSUME NEW S, NEW s \in Seq(S), s # <<>>
    PROVE  <<Head(s)>> \o Tail(s) = s
<1>1. Head(s) \in S /\ Tail(s) \in Seq(S) /\ Len(s) \in Nat \ {0} /\ Len(Tail(s)) = Len(s) - 1
      /\ \A i \in 1..Len(Tail(s)) : Tail(s)[i] = s[i + 1]
  BY HeadTailProperties, EmptySeq
<1>2. <<Head(s)>> \in Seq(S) /\ Len(<<Head(s)>>) = 1 /\ <<Head(s)>>[1] = s[1]
  BY <1>1
<1> DEFINE t == <<Head(s)>> \o Tail(s)
<1>3. t \in Seq(S) /\ Len(t) = Len(s)
      /\ \A i \in 1..Len(s) : t[i] = IF i <= 1 THEN <<Head(s)>>[i] ELSE Tail(s)[i - 1]
  BY <1>1, <1>2, ConcatProperties
<1>4. \A i \in 1..Len(s) : t[i] = s[i]
  BY <1>1, <1>2, <1>3
<1>5. QED
  BY <1>3, <1>4, SeqEqual

LEMMA TailOfCons ==
    ASSUME NEW S, NEW e \in S, NEW s \in Seq(S)
    PROVE  <<e>> \o s # <<>> /\ Tail(<<e>> \o s) = s
<1> DEFINE t == <<e>> \o s
<1>1. t \in Seq(S) /\ Len(t) = 1 + Len(s) /\ Len(s) \in Nat
      /\ \A i \in 1..(1 + Len(s)) : t[i] = IF i <= 1 THEN <<e>>[i] ELSE s[i - 1]
  BY <<e>> \in Seq(S), Len(<<e>>) = 1, ConcatProperties, LenProperties
<1>2. t # <<>>
  BY <1>1, EmptySeq
<1>3. Tail(t) \in Seq(S) /\ Len(Tail(t)) = Len(s)
      /\ \A i \in 1..Len(Tail(t)) : Tail(t)[i] = t[i + 1]
  BY <1>1, <1>2, HeadTailProperties
<1>4. \A i \in 1..Len(s) : Tail(t)[i] = s[i]
  BY <1>1, <1>3
<1>5. QED
  BY <1>2, <1>3, <1>4, SeqEqual

(* What is in hand, without the work that only waits.                      *)
Current == IF doing \in Works THEN <<doing>> ELSE <<>>

LEMMA WaitingType ==
    ASSUME ThreadInv
    PROVE  /\ Current \in Seq(Works) /\ OnlyWorks(batch) \in Seq(Works) /\ works \in Seq(Works)
           /\ Waiting = (Current \o OnlyWorks(batch)) \o works
           /\ Waiting \in Seq(Works)
<1>1. Current \in Seq(Works) /\ OnlyWorks(batch) \in Seq(Works) /\ works \in Seq(Works)
  BY DEF Current, OnlyWorks, ThreadInv, ThreadTypeOK
<1>2. Waiting = (Current \o OnlyWorks(batch)) \o works
  BY DEF Waiting, Current
<1>3. QED
  BY <1>1, <1>2, ConcatProperties

(* Signals are no work: a batch of them leaves nothing in the queue.       *)
LEMMA NoWorkInSignals ==
    ASSUME NEW s \in Seq(Signals)
    PROVE  OnlyWorks(s) = <<>>
<1>1. CASE s = <<>>
  BY <1>1 DEF OnlyWorks
<1>2. CASE s # <<>>
  <2>1. Head(s) \in Signals
    BY <1>2
  <2>2. s \in Seq(Works) => Head(s) \in Works
    BY <1>2
  <2>3. s \notin Seq(Works)
    BY <2>1, <2>2, SourceAssumption
  <2>4. QED
    BY <2>3 DEF OnlyWorks
<1>3. QED
  BY <1>1, <1>2
-----------------------------------------------------------------------------
LEMMA GatherKeeps == ThreadInv /\ Gather => UNCHANGED Waiting
<1> SUFFICES ASSUME ThreadInv, Gather PROVE Waiting' = Waiting
  OBVIOUS
<1> USE DEF ThreadInv, ThreadTypeOK
<1>1. doing = Nothing /\ doing' = Nothing /\ batch = <<>>
  BY DEF Gather, AtRest
<1>2. Waiting = <<>> \o <<>> \o works /\ Waiting' = <<>> \o OnlyWorks(batch') \o works'
  BY <1>1, SourceAssumption DEF Waiting, OnlyWorks
<1>3. Waiting = works
  BY <1>2, ConcatEmptySeq, NoSource
<1>4. CASE batch' = signals /\ works' = works
  <2>1. OnlyWorks(batch') = <<>>
    BY <1>4, NoWorkInSignals
  <2>2. QED
    BY <1>2, <1>4, <2>1
<1>5. CASE batch' = works /\ works' = <<>>
  <2>1. OnlyWorks(batch') = works
    BY <1>5 DEF OnlyWorks
  <2>2. <<>> \o works = works /\ works \o <<>> = works
    BY ConcatEmptySeq
  <2>3. QED
    BY <1>2, <1>3, <1>5, <2>1, <2>2
<1>6. QED
  BY <1>4, <1>5 DEF Gather

LEMMA DispatchKeeps == ThreadInv /\ Dispatch => UNCHANGED Waiting
<1> SUFFICES ASSUME ThreadInv, Dispatch PROVE Waiting' = Waiting
  OBVIOUS
<1> USE DEF ThreadInv, ThreadTypeOK
<1>1. doing = Nothing /\ batch # <<>> /\ doing' = Head(batch) /\ batch' = Tail(batch) /\ works' = works
  BY DEF Dispatch
<1>2. Waiting = <<>> \o OnlyWorks(batch) \o works
  BY <1>1, SourceAssumption DEF Waiting
<1>3. CASE batch \in Seq(Works)
  <2>1. Head(batch) \in Works /\ Tail(batch) \in Seq(Works)
    BY <1>1, <1>3
  <2>2. Waiting' = <<Head(batch)>> \o Tail(batch) \o works
    BY <1>1, <2>1 DEF Waiting, OnlyWorks
  <2>3. Waiting = <<>> \o batch \o works
    BY <1>2, <1>3 DEF OnlyWorks
  <2>4. <<>> \o batch = batch /\ <<Head(batch)>> \o Tail(batch) = batch
    BY <1>1, <1>3, HeadBack, ConcatEmptySeq
  <2>5. QED
    BY <2>2, <2>3, <2>4
<1>4. CASE batch \in Seq(Signals)
  <2>1. Head(batch) \in Signals /\ Tail(batch) \in Seq(Signals)
    BY <1>1, <1>4
  <2>2. OnlyWorks(batch) = <<>> /\ OnlyWorks(Tail(batch)) = <<>>
    BY <1>4, <2>1, NoWorkInSignals
  <2>3. Waiting' = <<>> \o OnlyWorks(Tail(batch)) \o works
    BY <1>1, <2>1, SourceAssumption DEF Waiting, OnlyWorks
  <2>4. QED
    BY <1>2, <2>2, <2>3
<1>5. QED
  BY <1>3, <1>4

(* What is being done is the oldest of what waits, and returning takes it  *)
(* off; a signal that returns leaves the work alone.                       *)
LEMMA DoingFirst ==
    ASSUME ThreadInv, doing \in Works
    PROVE  /\ Waiting \in Seq(Works) /\ Waiting # <<>>
           /\ Waiting[1] = doing
           /\ Tail(Waiting) = OnlyWorks(batch) \o works
<1> DEFINE rest == OnlyWorks(batch) \o works
<1>1. OnlyWorks(batch) \in Seq(Works) /\ works \in Seq(Works) /\ rest \in Seq(Works)
  BY WaitingType, ConcatProperties
<1>2. Waiting = <<doing>> \o OnlyWorks(batch) \o works /\ Waiting \in Seq(Works)
  BY WaitingType DEF Waiting
<1>3. <<doing>> \in Seq(Works) /\ Len(<<doing>>) = 1 /\ <<doing>>[1] = doing
  OBVIOUS
<1>4. Waiting = <<doing>> \o rest
  BY <1>1, <1>2, <1>3, ConcatAssociative
<1>5. Waiting # <<>> /\ Tail(Waiting) = rest
  BY <1>1, <1>4, TailOfCons
<1>6. Waiting[1] = doing
  <2>1. /\ Len(rest) \in Nat
        /\ \A i \in 1..Len(<<doing>>) + Len(rest) :
              (<<doing>> \o rest)[i] = IF i <= Len(<<doing>>) THEN <<doing>>[i]
                                       ELSE rest[i - Len(<<doing>>)]
    BY <1>1, <1>3, ConcatProperties, LenProperties
  <2> HIDE DEF rest
  <2>2. (<<doing>> \o rest)[1] = <<doing>>[1]
    BY <1>3, <2>1
  <2>3. QED
    BY <1>3, <1>4, <2>2
<1>7. QED
  BY <1>2, <1>5, <1>6

LEMMA ReturnTakes ==
    ASSUME ThreadInv, Return
    PROVE  IF doing \in Works THEN Waiting' = Tail(Waiting) ELSE UNCHANGED Waiting
<1>1. doing # Nothing /\ doing' = Nothing /\ batch' = batch /\ works' = works
  BY DEF Return
<1>2. Waiting' = <<>> \o OnlyWorks(batch) \o works
  BY <1>1, SourceAssumption DEF Waiting, OnlyWorks
<1>3. CASE doing \notin Works
  BY <1>1, <1>2, <1>3 DEF Waiting
<1>4. CASE doing \in Works
  <2>1. <<>> \o OnlyWorks(batch) = OnlyWorks(batch)
    BY WaitingType, ConcatEmptySeq
  <2>2. QED
    BY <1>2, <1>4, <2>1, DoingFirst
<1>5. QED
  BY <1>3, <1>4

LEMMA ReturnPerforms ==
    ThreadInv /\ Return => UNCHANGED Waiting \/ Queue!Perform
<1> SUFFICES ASSUME ThreadInv, Return PROVE Waiting' = Waiting \/ Queue!Perform
  OBVIOUS
<1>1. thread = "looping" /\ thread' = thread
  BY DEF Return, ThreadInv
<1>2. QED
  BY <1>1, ReturnTakes, DoingFirst DEF Queue!Perform

LEMMA AttachAppends ==
    ASSUME ThreadInv, NEW w \in Works, Attach(w)
    PROVE  Waiting' = Append(Waiting, w)
<1>1. doing' = doing /\ batch' = batch /\ works' = Append(works, w)
  BY DEF Attach
<1> DEFINE first == Current \o OnlyWorks(batch)
<1>2. first \in Seq(Works) /\ works \in Seq(Works) /\ Waiting = first \o works /\ Waiting \in Seq(Works)
  BY WaitingType, ConcatProperties
<1>3. Waiting' = first \o Append(works, w)
  BY <1>1 DEF Waiting, Current, OnlyWorks
<1>4. Append(works, w) = works \o <<w>> /\ <<w>> \in Seq(Works)
  BY <1>2, AppendIsConcat
<1>5. first \o (works \o <<w>>) = (first \o works) \o <<w>>
  BY <1>2, <1>4, ConcatAssociative
<1>6. Append(Waiting, w) = Waiting \o <<w>>
  BY <1>2, AppendIsConcat
<1>7. QED
  BY <1>2, <1>3, <1>4, <1>5, <1>6

LEMMA AttachAccepts ==
    ASSUME ThreadInv, NEW w \in Works, Attach(w)
    PROVE  Queue!Accept
BY AttachAppends DEF Attach, Queue!Accept

LEMMA WaitingSame == UNCHANGED <<works, batch, doing>> => UNCHANGED Waiting
BY DEF Waiting, OnlyWorks

LEMMA LoopKeeps == ThreadInv /\ Loop => UNCHANGED Waiting
BY WaitingSame, GatherKeeps, DispatchKeeps
   DEF Loop, BeforeLoop, CheckCancelled, RunLoop, LeaveLoop, AtRest, AfterLoop

(* Each step of the thread and of those around it is a step of the queue.  *)
LEMMA QueueStep == ThreadInv /\ [ThreadNext]_threadVars => [Queue!Next]_Queue!vars
<1> SUFFICES ASSUME ThreadInv, [ThreadNext]_threadVars PROVE [Queue!Next]_Queue!vars
  OBVIOUS
<1> USE DEF Queue!Next, Queue!vars
<1>1. CASE AfterLoop
  BY <1>1, WaitingSame DEF AfterLoop, Queue!Stop
<1>2. CASE BeforeLoop \/ CheckCancelled \/ RunLoop \/ LeaveLoop \/ Cancel \/ QuitLoop
  BY <1>2, WaitingSame DEF BeforeLoop, CheckCancelled, RunLoop, LeaveLoop, AtRest, Cancel, QuitLoop
<1>3. CASE \E s \in Signals : Signal(s)
  BY <1>3, WaitingSame DEF Signal
<1>4. CASE Gather
  BY <1>4, GatherKeeps DEF Gather, AtRest
<1>5. CASE Dispatch
  BY <1>5, DispatchKeeps DEF Dispatch
<1>6. CASE Return
  BY <1>6, ReturnPerforms DEF Return
<1>7. CASE \E w \in Works : Attach(w)
  BY <1>7, AttachAccepts
<1>8. CASE UNCHANGED threadVars
  BY <1>8, WaitingSame DEF threadVars
<1>9. QED
  BY <1>1, <1>2, <1>3, <1>4, <1>5, <1>6, <1>7, <1>8 DEF ThreadNext, Loop

LEMMA QueueInit == ThreadInit => Queue!Init
<1> SUFFICES ASSUME ThreadInit PROVE Waiting = <<>> /\ thread # "ended"
  BY DEF Queue!Init
<1>1. Waiting = <<>> \o <<>> \o <<>>
  BY SourceAssumption DEF ThreadInit, Waiting, OnlyWorks
<1>2. QED
  BY <1>1, ConcatEmptySeq, NoSource DEF ThreadInit

(* The context thread does what it is given in the order it is given it,   *)
(* once each, until it has ended, whoever attaches, signals and quits.     *)
THEOREM QueueImplemented == ThreadSpec => ImplementsWorkQueue
<1>1. ThreadSpec => []ThreadInv
  BY ThreadInvInit, ThreadInvStep, PTL DEF ThreadSpec
<1>2. QED
  BY <1>1, QueueInit, QueueStep, PTL DEF ThreadSpec, ImplementsWorkQueue, Queue!Spec
=============================================================================
