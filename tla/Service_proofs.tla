---------------------------- MODULE Service_proofs ----------------------------
(***************************************************************************)
(* Theorems about Service, for every number of overlays and addresses,     *)
(* with and without Mir.                                                   *)
(***************************************************************************)
EXTENDS Service, ContextThread_proofs

(* The types, and that the tracker's thread is between the two halves of   *)
(* adding an overlay only while it adds one.                               *)
Adds == {Add(o) : o \in Overlays}

TypeInv ==
    /\ TypeOK
    /\ ThreadInv
    /\ step = "created" => doing \in Adds

LEMMA Bounds == 0 \in 0..MaxOverlays /\ <<>> \in Seq(Event)
BY TrackerAssumption

LEMMA TypeInvInit == Init => TypeInv
BY Bounds, ThreadInvInit
   DEF Init, OverlayInit, ThreadInv, TypeInv, TypeOK, OverlayTypeOK

(* What is attached is work, and what the bus brings are signals.          *)
LEMMA WorkOrSignal ==
    /\ \A o \in Overlays : Add(o) \in Works /\ Stopped(o) \in Signals
    /\ \A a \in Addresses : Remove(a) \in Works
    /\ Clear \in Works
BY TrackerAssumption DEF TrackerWorks, TrackerSignals

LEMMA AddsOf == \A w \in Adds : w.of \in Overlays
BY DEF Adds, Add

LEMMA NextOverlay == added \in 0..MaxOverlays /\ added < MaxOverlays => added + 1 \in Overlays
BY TrackerAssumption DEF Overlays
-----------------------------------------------------------------------------
(* A step of the service is one of its thread, or leaves the thread alone. *)
LEMMA ServiceTakesThreadSteps == TypeInv /\ [Next]_vars => [ThreadNext]_threadVars
<1> SUFFICES ASSUME TypeInv, [Next]_vars PROVE [ThreadNext]_threadVars
  OBVIOUS
<1> USE DEF ThreadNext
<1>1. CASE UNCHANGED vars
  BY <1>1 DEF vars, overlayVars
<1>2. CASE MainThread
  <2>1. CASE DispatcherInit \/ BusGot \/ SigTerm \/ LoopReturns \/ Exit
    BY <2>1 DEF DispatcherInit, BusGot, SigTerm, LoopReturns, Exit, Goto, overlayVars
  <2>2. CASE TrackerDelete
    BY <2>2, WorkOrSignal DEF TrackerDelete, Destroy, Call, overlayVars
  <2>3. CASE MainStep
    BY <2>3 DEF MainStep, Connect, Returns, ReleaseMir, Quit
  <2>4. QED
    BY <1>2, <2>1, <2>2, <2>3 DEF MainThread
<1>3. CASE TrackerThread
  BY <1>3 DEF TrackerThread, LoopStep, Callback, CreateSession, CreateSessionFails,
     StartHelper, StartHelperFails, RemoveSession, NothingToRemove, HelperStopped, Done, Release
<1>4. CASE MirThread
  <2>1. ASSUME PassOn PROVE \E w \in Works : Attach(w)
    <3>1. notice \in Addresses
      BY <2>1 DEF PassOn, TypeInv, TypeOK, OverlayTypeOK
    <3>2. QED
      BY <2>1, <3>1, WorkOrSignal DEF PassOn
  <2>2. ASSUME TellTracker PROVE UNCHANGED threadVars
    BY <2>2 DEF TellTracker
  <2>3. ASSUME Released PROVE Return \/ UNCHANGED threadVars
    BY <2>3 DEF Released, Done
  <2>4. ASSUME NEW o \in Overlays, MirReleases(o) PROVE UNCHANGED threadVars
    BY <2>4 DEF MirReleases
  <2>5. QED
    BY <1>4, <2>1, <2>2, <2>3, <2>4 DEF MirThread, MirStep
<1>5. CASE SendToOverlay
  <2>1. added + 1 \in Overlays
    BY <1>5, NextOverlay DEF SendToOverlay, AddOverlay, TypeInv, TypeOK, OverlayTypeOK
  <2>2. QED
    BY <1>5, <2>1, WorkOrSignal DEF SendToOverlay, AddOverlay, Call
<1>6. CASE BusFails \/ NameLost
  BY <1>6 DEF BusFails, NameLost, Goto, overlayVars
<1>7. CASE Around
  BY <1>7 DEF Around, Sigterm, MirStops, HelperEnds, overlayVars
<1>8. CASE \E o \in Overlays : Launch(o)
  BY <1>8, WorkOrSignal
     DEF Launch, LaunchStep, UrlOverlay, HelperObeys, HelperReported
<1>9. QED
  BY <1>1, <1>2, <1>3, <1>4, <1>5, <1>6, <1>7, <1>8 DEF Next
-----------------------------------------------------------------------------
LEMMA EventsOf == \A o \in Overlays :
    /\ [kind |-> "started", of |-> o] \in Event
    /\ [kind |-> "stopped", of |-> o] \in Event
    /\ [kind |-> "released", of |-> o] \in Event
BY DEF Event

LEMMA TypedEvent == ASSUME events \in Seq(Event), NEW e \in Event
                    PROVE  Append(events, e) \in Seq(Event)
OBVIOUS

LEMMA TypedEvents == ASSUME events \in Seq(Event), NEW d \in Event, NEW e \in Event
                     PROVE  events \o <<d, e>> \in Seq(Event)
OBVIOUS

LEMMA HeadEvent == events \in Seq(Event) /\ events # <<>> =>
    /\ Head(events).of \in Overlays
    /\ Tail(events) \in Seq(Event)
<1> SUFFICES ASSUME events \in Seq(Event), events # <<>>
             PROVE  /\ Head(events).of \in Overlays
                    /\ Tail(events) \in Seq(Event)
  OBVIOUS
<1>1. Head(events) \in Event /\ Tail(events) \in Seq(Event)
  OBVIOUS
<1>2. QED
  BY <1>1 DEF Event

(* The variables of the thread are typed by the lemma about its steps; the *)
(* rest, action by action.                                                 *)
LEMMA TypeInvStep == TypeInv /\ [Next]_vars => TypeInv'
<1> SUFFICES ASSUME TypeInv, [Next]_vars PROVE TypeInv'
  OBVIOUS
<1> USE DEF TypeInv, TypeOK, OverlayTypeOK
<1>1. ThreadInv'
  BY ServiceTakesThreadSteps, ThreadInvStep
<1>2. ThreadTypeOK'
  BY <1>1 DEF ThreadInv
<1>3. CASE UNCHANGED vars
  BY <1>1, <1>3 DEF vars, overlayVars, trackerVars, mirVars, threadVars, serviceVars, ThreadInv
<1>4. CASE DispatcherInit \/ BusGot \/ SigTerm \/ LoopReturns \/ Exit \/ BusFails \/ NameLost
            \/ Sigterm
  <2>1. UNCHANGED overlayVars
    BY <1>4 DEF DispatcherInit, BusGot, SigTerm, LoopReturns, Exit, BusFails, NameLost, Sigterm,
       Goto
  <2>2. OverlayTypeOK' /\ step' = step /\ doing' = doing
    BY <1>2, <2>1 DEF overlayVars, trackerVars, mirVars, threadVars
  <2>3. phase' \in {phase, "loop", "failed", "shutdown", "exited", "aborted"}
    BY <1>4 DEF DispatcherInit, BusGot, SigTerm, LoopReturns, Exit, BusFails, NameLost, Sigterm,
       Goto
  <2>4. bus' \in BOOLEAN /\ term' \in BOOLEAN /\ quitting' \in BOOLEAN
    BY <1>4 DEF DispatcherInit, BusGot, SigTerm, LoopReturns, Exit, BusFails, NameLost, Sigterm,
       Goto
  <2>5. QED
    BY <1>1, <2>2, <2>3, <2>4
<1>5. CASE TrackerDelete
  BY <1>1, <1>2, <1>5
     DEF TrackerDelete, Destroy, Call, Attach, overlayVars, trackerVars, mirVars, threadVars
<1>6. CASE SendToOverlay
  <2>1. added + 1 \in 0..MaxOverlays
    BY <1>6, NextOverlay DEF SendToOverlay, AddOverlay, Overlays
  <2>2. QED
    BY <1>1, <1>2, <1>6, <2>1
       DEF SendToOverlay, AddOverlay, Call, Attach, serviceVars, trackerVars, mirVars, threadVars
<1>7. CASE MainStep /\ UNCHANGED serviceVars
  <2>1. doing' = doing
    BY <1>7 DEF MainStep, Connect, Returns, ReleaseMir, Quit, Cancel, QuitLoop, threadVars
  <2>2. CASE Connect
    BY <1>1, <1>2, <1>7, <2>1, <2>2 DEF Connect, serviceVars
  <2>3. CASE Returns
    BY <1>1, <1>2, <1>7, <2>1, <2>3 DEF Returns, serviceVars, mirVars
  <2>4. CASE ReleaseMir
    BY <1>1, <1>2, <1>7, <2>1, <2>4, Bounds DEF ReleaseMir, MainGoesOn, serviceVars
  <2>5. CASE Quit
    BY <1>1, <1>2, <1>7, <2>1, <2>5 DEF Quit, MainGoesOn, serviceVars
  <2>6. QED
    BY <1>7, <2>2, <2>3, <2>4, <2>5 DEF MainStep
<1>8. CASE TrackerThread
  <2>1. CASE LoopStep
    <3>1. step = "created" => doing' = doing
      BY <1>8, <2>1, WorkOrSignal, SourceAssumption
         DEF LoopStep, Loop, BeforeLoop, CheckCancelled, RunLoop, Gather, Dispatch, LeaveLoop,
             AfterLoop, AtRest, Adds
    <3>2. QED
      BY <1>1, <1>2, <1>8, <2>1, <3>1 DEF LoopStep, TrackerThread, trackerVars, mirVars, serviceVars
  <2>2. CASE CreateSession
    <3>1. doing.of \in Overlays /\ doing \in Adds
      BY <2>2, AddsOf DEF CreateSession, Adds
    <3>2. events' \in Seq(Event)
      BY <2>2, <3>1, EventsOf, TypedEvent DEF CreateSession
    <3>3. QED
      BY <1>1, <1>2, <1>8, <2>2, <3>1, <3>2
         DEF CreateSession, TrackerThread, serviceVars, threadVars
  <2>3. CASE CreateSessionFails \/ NothingToRemove
    BY <1>1, <1>2, <1>8, <2>3
       DEF CreateSessionFails, NothingToRemove, Done, TrackerThread, serviceVars, mirVars
  <2>4. CASE StartHelper
    BY <1>1, <1>2, <1>8, <2>4, AddsOf DEF StartHelper, Done, TrackerThread, serviceVars, mirVars
  <2>5. CASE StartHelperFails
    BY <1>1, <1>2, <1>8, <2>5, AddsOf
       DEF StartHelperFails, Release, TrackerThread, serviceVars, threadVars
  <2>6. CASE RemoveSession
    <3>1. PICK o \in ongoing : StopHelper(o) /\ ongoing' = ongoing \ {o} /\ Release(o)
      BY <2>6 DEF RemoveSession, Matches
    <3>2. helper' \in [Overlays -> {"none", "preparing", "running", "stopping", "ended",
                                    "reported"}]
      BY <3>1 DEF StopHelper
    <3>3. /\ ongoing' \subseteq Overlays
          /\ session' \in [Overlays -> {"none", "open", "closing", "asked", "released"}]
          /\ step' = "release"
      BY <3>1 DEF Release
    <3>4. UNCHANGED <<main, added, reply, mir, address, ended, events, notice>>
      BY <3>1 DEF Release
    <3>5. QED
      BY <1>1, <1>2, <1>8, <3>2, <3>3, <3>4 DEF TrackerThread, serviceVars
  <2>7. CASE HelperStopped
    BY <1>1, <1>2, <1>8, <2>7
       DEF HelperStopped, Release, Done, TrackerThread, serviceVars, mirVars, threadVars
  <2>8. QED
    BY <1>8, <2>1, <2>2, <2>3, <2>4, <2>5, <2>6, <2>7 DEF TrackerThread, Callback
<1>9. CASE MirThread
  <2>1. CASE TellTracker
    <3>1. events # <<>> /\ events' = Tail(events)
      BY <2>1 DEF TellTracker, SessionStateChanged, NextEvent
    <3>2. Head(events).of \in Overlays /\ events' \in Seq(Event)
      BY <3>1, HeadEvent
    <3>3. QED
      BY <1>1, <1>2, <1>9, <2>1, <3>2
         DEF TellTracker, SessionStateChanged, MirThread, serviceVars, threadVars
  <2>2. CASE PassOn
    BY <1>1, <1>2, <1>9, <2>2 DEF PassOn, Attach, MirThread, serviceVars, trackerVars
  <2>3. CASE Released
    <3>1. events # <<>> /\ events' = Tail(events)
      BY <2>3 DEF Released, NextEvent
    <3>2. Head(events).of \in Overlays /\ events' \in Seq(Event)
      BY <3>1, HeadEvent
    <3>3. QED
      BY <1>1, <1>2, <1>9, <2>3, <3>2 DEF Released, Done, MirThread, serviceVars, threadVars
  <2>4. ASSUME NEW o \in Overlays, MirReleases(o) PROVE TypeInv'
    <3>1. events' \in Seq(Event)
      <4> DEFINE s == [kind |-> "stopped", of |-> o]
                 r == [kind |-> "released", of |-> o]
      <4>1. s \in Event /\ r \in Event
        BY EventsOf
      <4>2. Append(events, r) \in Seq(Event) /\ events \o <<s, r>> \in Seq(Event)
        BY <4>1, TypedEvent, TypedEvents
      <4>3. events' = Append(events, r) \/ events' = events \o <<s, r>>
        BY <2>4 DEF MirReleases
      <4>4. QED
        BY <4>2, <4>3
    <3>2. QED
      BY <1>1, <1>2, <1>9, <2>4, <3>1
         DEF MirReleases, MirThread, serviceVars, trackerVars, threadVars
  <2>5. QED
    BY <1>9, <2>1, <2>2, <2>3, <2>4 DEF MirThread, MirStep
<1>10. ASSUME NEW o \in Overlays, MirStops(o) \/ HelperEnds(o), UNCHANGED serviceVars PROVE TypeInv'
  <2>1. CASE MirStops(o)
    <3>1. events' \in Seq(Event)
      BY <2>1, EventsOf, TypedEvent DEF MirStops
    <3>2. QED
      BY <1>1, <1>2, <1>10, <2>1, <3>1 DEF MirStops, serviceVars, trackerVars, threadVars
  <2>2. CASE HelperEnds(o)
    BY <1>1, <1>2, <1>10, <2>2
       DEF HelperEnds, HelperMoves, serviceVars, trackerVars, mirVars, threadVars
  <2>3. QED
    BY <1>10, <2>1, <2>2
<1>11. ASSUME NEW o \in Overlays, Launch(o) PROVE TypeInv'
  <2>1. doing' = doing
    BY <1>11 DEF Launch, LaunchStep, UrlOverlay, HelperObeys, HelperReported, Signal, threadVars
  <2>2. QED
    BY <1>1, <1>2, <1>11, <2>1
       DEF Launch, LaunchStep, UrlOverlay, HelperObeys, HelperReported, HelperMoves, serviceVars,
           trackerVars, mirVars
<1>12. QED
  BY <1>3, <1>4, <1>5, <1>6, <1>7, <1>8, <1>9, <1>10, <1>11 DEF Next, MainThread, Around

LEMMA InvHolds == Spec => []TypeInv
BY TypeInvInit, TypeInvStep, PTL DEF Spec

(* Every variable of the service keeps its type: the phases of service.c,  *)
(* the tracker's and its thread's state, and what Mir and helpers do.      *)
THEOREM TypeCorrect == Spec => []TypeOK
<1>1. TypeInv => TypeOK
  BY DEF TypeInv
<1>2. QED
  BY <1>1, InvHolds, PTL

(* The service uses its thread as a thread may be used, whatever Mir, the  *)
(* helpers and SIGTERM do: what it attaches is done in order, once each,   *)
(* until the thread has ended.                                             *)
THEOREM ServiceQueue == Spec => ImplementsWorkQueue
<1>1. Init => ThreadInit
  BY DEF Init, OverlayInit
<1>2. Spec => ThreadSpec
  BY <1>1, InvHolds, ServiceTakesThreadSteps, PTL DEF Spec, ThreadSpec
<1>3. QED
  BY <1>2, QueueImplemented
=============================================================================
