---------------------------- MODULE Tracker_proofs ----------------------------
(***************************************************************************)
(* That the overlay tracker leaves nothing behind, shuts down in order and *)
(* stops no helper before its time, within the life of the service and for *)
(* every number of overlays and addresses.                                 *)
(***************************************************************************)
EXTENDS Service_proofs

(* What a step does to the tracker and to those around it.                 *)
OfOverlay(o) == \/ MirStops(o) \/ MirReleases(o)
                \/ UrlOverlay(o) \/ HelperEnds(o) \/ HelperObeys(o) \/ HelperReported(o)

OverlayNext ==
    \/ UNCHANGED overlayVars
    \/ MainStep
    \/ AddOverlay \/ Destroy
    \/ LoopStep \/ Callback
    \/ TellTracker \/ PassOn \/ Released
    \/ \E o \in Overlays : OfOverlay(o)

LEMMA StepCases == [Next]_vars => OverlayNext
<1> SUFFICES ASSUME [Next]_vars PROVE OverlayNext
  OBVIOUS
<1> USE DEF OverlayNext, OfOverlay
<1>1. CASE MainThread
  BY <1>1 DEF MainThread, DispatcherInit, BusGot, SigTerm, LoopReturns, TrackerDelete, Exit, Goto
<1>2. CASE TrackerThread \/ MirThread \/ SendToOverlay
  BY <1>2 DEF TrackerThread, MirThread, MirStep, SendToOverlay
<1>3. CASE BusFails \/ NameLost
  BY <1>3 DEF BusFails, NameLost, Goto
<1>4. CASE Around
  BY <1>4 DEF Around, Sigterm
<1>5. CASE \E o \in Overlays : Launch(o)
  BY <1>5 DEF Launch, LaunchStep
<1>6. CASE UNCHANGED vars
  BY <1>6 DEF vars
<1>7. QED
  BY <1>1, <1>2, <1>3, <1>4, <1>5, <1>6 DEF Next

(* The sources the thread gets.                                            *)
LEMMA Kinds ==
    /\ \A o, p \in Overlays : Add(o) = Add(p) => o = p
    /\ \A o, p \in Overlays : Stopped(o) = Stopped(p) => o = p
    /\ \A a \in Addresses : Remove(a) \notin Adds \cup {Clear} \cup Signals
    /\ Clear \notin Adds \cup Signals
    /\ Adds \cap Signals = {}
    /\ Adds \subseteq Works
    /\ Nothing \notin Adds \cup {Clear} \cup Works \cup Signals
    /\ \A w \in Works : w.do = "add" => w \in Adds
    /\ \A s \in Signals : s.do # "add" /\ \E o \in Overlays : s = Stopped(o)
<1>1. /\ \A o, p \in Overlays : Add(o) = Add(p) => o = p
      /\ \A o, p \in Overlays : Stopped(o) = Stopped(p) => o = p
  BY DEF Add, Stopped
<1>2. Works = Adds \cup {Remove(a) : a \in Addresses} \cup {Clear} /\ Works \cap Signals = {}
      /\ Nothing \notin Works \cup Signals
  BY TrackerAssumption, SourceAssumption DEF TrackerWorks, Adds
<1>3. \A a \in Addresses : Remove(a) \notin Adds /\ Remove(a) # Clear /\ Remove(a).do # "add"
  BY DEF Adds, Add, Remove, Clear
<1>4. Clear \notin Adds /\ Clear.do # "add"
  BY DEF Adds, Add, Clear
<1>5. \A s \in Signals : s.do # "add" /\ \E o \in Overlays : s = Stopped(o)
  BY TrackerAssumption DEF TrackerSignals, Stopped
<1>6. \A w \in Works : w.do = "add" => w \in Adds
  BY <1>2, <1>3, <1>4
<1>7. QED
  BY <1>1, <1>2, <1>3, <1>4, <1>5, <1>6
-----------------------------------------------------------------------------
(* The order in which the tracker is taken down: nobody stops the thread   *)
(* before Mir's is gone, so that Mir's thread never meets one that refuses *)
(* work.                                                                   *)
OrderInv ==
    /\ main # "terminated"
    /\ mir = "up" => main \in {"idle", "adding", "clearing", "mir"}
    /\ mir = "released" => main \in {"cancel", "quit", "join", "none"}
    /\ cancelled => main \in {"quit", "join", "none"}

LEMMA OrderSame == OrderInv /\ UNCHANGED <<main, mir, cancelled>> => OrderInv'
BY DEF OrderInv

LEMMA NeverRefused == OrderInv /\ TellTracker => main' = main
BY DEF OrderInv, TellTracker, SessionStateChanged, NextEvent

LEMMA OrderStep == ASSUME TypeInv, OrderInv, OverlayNext PROVE OrderInv'
<1>1. CASE MainStep
  <2>1. CASE Connect
    BY <2>1 DEF Connect, OrderInv, threadVars, TypeInv, TypeOK, OverlayTypeOK
  <2>2. CASE Returns
    BY <2>2 DEF Returns, OrderInv, threadVars, mirVars
  <2>3. CASE ReleaseMir
    BY <2>3 DEF ReleaseMir, MainGoesOn, OrderInv, threadVars
  <2>4. CASE Quit
    BY <2>4 DEF Quit, MainGoesOn, Cancel, QuitLoop, OrderInv, threadVars
  <2>5. QED
    BY <1>1, <2>1, <2>2, <2>3, <2>4 DEF MainStep
<1>2. CASE AddOverlay \/ Destroy
  BY <1>2 DEF AddOverlay, Destroy, Call, Attach, OrderInv, mirVars
<1>3. CASE LoopStep
  <2>1. cancelled' = cancelled
    BY <1>3 DEF LoopStep, Loop, BeforeLoop, CheckCancelled, RunLoop, Gather, Dispatch, LeaveLoop,
       AfterLoop
  <2>2. QED
    BY <1>3, <2>1, OrderSame DEF LoopStep, trackerVars, mirVars
<1>4. CASE Callback
  BY <1>4, OrderSame
     DEF Callback, CreateSession, CreateSessionFails, StartHelper, StartHelperFails,
         RemoveSession, NothingToRemove, HelperStopped, Done, Return, Release, threadVars, mirVars
<1>5. CASE TellTracker
  BY <1>5, NeverRefused, OrderSame DEF TellTracker, threadVars
<1>6. CASE PassOn \/ Released
  BY <1>6, OrderSame DEF PassOn, Attach, Released, Done, Return, threadVars, trackerVars
<1>7. ASSUME NEW o \in Overlays, OfOverlay(o) PROVE OrderInv'
  BY <1>7, OrderSame
     DEF OfOverlay, MirStops, MirReleases, UrlOverlay, HelperEnds, HelperObeys, HelperReported,
         HelperMoves, Signal, trackerVars, mirVars, threadVars
<1>8. CASE UNCHANGED overlayVars
  BY <1>8, OrderSame DEF overlayVars, threadVars, trackerVars, mirVars
<1>9. QED
  BY <1>1, <1>2, <1>3, <1>4, <1>5, <1>6, <1>7, <1>8 DEF OverlayNext
-----------------------------------------------------------------------------
(* The main loop waits for one call at a time, and for as long as it does  *)
(* the call is with the thread and not answered.                           *)
Asks(k)    == Waiting[k] \in Adds \cup {Clear}
Awaited(o) == \E k \in DOMAIN Waiting : Waiting[k] = Add(o)

CallInv ==
    /\ \A j, k \in DOMAIN Waiting : Asks(j) /\ Asks(k) => j = k
    /\ \A k \in DOMAIN Waiting :
          Asks(k) => /\ reply = "none"
                     /\ \/ main = "adding" /\ Waiting[k] = Add(added)
                        \/ main = "clearing" /\ Waiting[k] = Clear

LEMMA CallSame == CallInv /\ UNCHANGED <<Waiting, reply, main, added>> => CallInv'
BY DEF CallInv, Asks

LEMMA NobodyWaits ==
    ASSUME CallInv, main \notin {"adding", "clearing"} \/ reply # "none"
    PROVE  /\ \A k \in DOMAIN Waiting : ~Asks(k)
           /\ Waiting' = Waiting => CallInv'
BY DEF CallInv, Asks

(* What is done is the first that waits, so that the rest asks nothing if  *)
(* it was a call.                                                          *)
LEMMA TailFacts ==
    ASSUME TypeInv, Return, doing \in Works
    PROVE  /\ 1 \in DOMAIN Waiting /\ Waiting[1] = doing
           /\ \A k \in DOMAIN Waiting' :
                 k + 1 \in DOMAIN Waiting /\ Waiting'[k] = Waiting[k + 1] /\ k + 1 # 1
           /\ \A j, k \in DOMAIN Waiting' : j + 1 = k + 1 => j = k
<1>1. Waiting \in Seq(Works) /\ Waiting # <<>> /\ Waiting[1] = doing /\ Waiting' = Tail(Waiting)
  BY DoingFirst, ReturnTakes DEF TypeInv
<1>2. /\ Len(Waiting) \in Nat \ {0} /\ DOMAIN Waiting = 1..Len(Waiting)
      /\ DOMAIN Waiting' = 1..(Len(Waiting) - 1)
      /\ \A k \in 1..(Len(Waiting) - 1) : Waiting'[k] = Waiting[k + 1]
  BY <1>1, HeadTailProperties, LenProperties, EmptySeq
<1>3. QED
  BY <1>1, <1>2

LEMMA CallReturn ==
    ASSUME TypeInv, CallInv, Return, UNCHANGED <<main, added>>,
           reply' = reply \/ doing \in Adds \cup {Clear}
    PROVE  CallInv'
<1>1. CASE doing \notin Works
  <2>1. Waiting' = Waiting /\ reply' = reply
    BY <1>1, ReturnTakes, Kinds, WorkOrSignal DEF TypeInv
  <2>2. QED
    BY <2>1, CallSame
<1>2. CASE doing \in Works
  <2>1. \A k \in DOMAIN Waiting' : Asks(k)' = Asks(k + 1)
    BY <1>2, TailFacts DEF Asks
  <2>2. \A k \in DOMAIN Waiting' : Asks(k)' => reply' = reply
    BY <1>2, <2>1, TailFacts DEF CallInv, Asks
  <2>3. \A j, k \in DOMAIN Waiting' : Asks(j)' /\ Asks(k)' => j = k
    BY <1>2, <2>1, TailFacts DEF CallInv
  <2>4. \A k \in DOMAIN Waiting' :
           Asks(k)' => /\ reply' = "none"
                       /\ \/ main' = "adding" /\ Waiting'[k] = Add(added)
                          \/ main' = "clearing" /\ Waiting'[k] = Clear
    BY <1>2, <2>1, <2>2, TailFacts DEF CallInv
  <2>5. QED
    BY <2>3, <2>4 DEF CallInv, Add, Clear
<1>3. QED
  BY <1>1, <1>2

LEMMA AppendFacts ==
    ASSUME TypeInv, NEW w \in Works, Attach(w)
    PROVE  /\ Len(Waiting) + 1 \in DOMAIN Waiting' /\ Waiting'[Len(Waiting) + 1] = w
           /\ \A k \in DOMAIN Waiting : k \in DOMAIN Waiting' /\ Waiting'[k] = Waiting[k]
           /\ \A k \in DOMAIN Waiting' : k \in DOMAIN Waiting \/ k = Len(Waiting) + 1
<1>1. Waiting \in Seq(Works) /\ Waiting' = Append(Waiting, w)
  BY WaitingType, AttachAppends DEF TypeInv
<1>2. QED
  BY <1>1, AppendProperties, LenProperties

LEMMA CallAsk ==
    ASSUME TypeInv, TypeInv', CallInv, NEW w, NEW waiting,
           \/ w = Add(added') /\ waiting = "adding" /\ added' \in Overlays
           \/ w = Clear /\ waiting = "clearing" /\ added' = added,
           Call(w, waiting)
    PROVE  CallInv'
<1>1. w \in Works /\ Attach(w) /\ main' = waiting /\ reply' = "none" /\ main = "idle"
  BY WorkOrSignal DEF Call
<1>2. \A k \in DOMAIN Waiting : ~Asks(k)
  BY <1>1, NobodyWaits
<1>3. \A k \in DOMAIN Waiting' : Asks(k)' => k = Len(Waiting) + 1 /\ Waiting'[k] = w
  BY <1>1, <1>2, AppendFacts DEF Asks
<1>4. QED
  BY <1>1, <1>3 DEF CallInv, Add, Clear

LEMMA CallStep == ASSUME TypeInv, TypeInv', OrderInv, CallInv, OverlayNext PROVE CallInv'
<1>1. CASE UNCHANGED overlayVars
  BY <1>1, WaitingSame, CallSame DEF overlayVars, threadVars, trackerVars
<1>2. CASE MainStep
  <2>1. UNCHANGED <<works, batch, doing>>
    BY <1>2 DEF MainStep, Connect, Returns, ReleaseMir, Quit, Cancel, QuitLoop, threadVars
  <2>2. main \notin {"adding", "clearing"} \/ reply # "none"
    BY <1>2 DEF MainStep, Connect, Returns, ReleaseMir, Quit, MainGoesOn
  <2>3. QED
    BY <2>1, <2>2, WaitingSame, NobodyWaits
<1>3. CASE AddOverlay
  <2>1. added' \in Overlays
    BY <1>3, NextOverlay DEF AddOverlay, TypeInv, TypeOK, OverlayTypeOK
  <2>2. Call(Add(added'), "adding")
    BY <1>3 DEF AddOverlay
  <2>3. QED
    BY <2>1, <2>2, CallAsk
<1>4. CASE Destroy
  BY <1>4, CallAsk DEF Destroy
<1>5. CASE LoopStep
  BY <1>5, LoopKeeps, CallSame DEF LoopStep, TypeInv, trackerVars
<1>6. CASE CreateSession \/ StartHelperFails \/ RemoveSession
  <2>1. UNCHANGED <<works, batch, doing, reply, main, added>>
    BY <1>6 DEF CreateSession, StartHelperFails, RemoveSession, Release, threadVars
  <2>2. QED
    BY <2>1, WaitingSame, CallSame
<1>7. CASE CreateSessionFails \/ StartHelper \/ NothingToRemove
  <2>1. Return /\ UNCHANGED <<main, added>>
    BY <1>7 DEF CreateSessionFails, StartHelper, NothingToRemove, Done
  <2>2. reply' = reply \/ doing \in Adds \cup {Clear}
    BY <1>7 DEF CreateSessionFails, StartHelper, NothingToRemove, Done, Adds, TypeInv
  <2>3. QED
    BY <2>1, <2>2, CallReturn
<1>8. CASE HelperStopped
  <2>1. CASE doing.of \in ongoing
    <3>1. UNCHANGED <<works, batch, doing, reply, main, added>>
      BY <1>8, <2>1 DEF HelperStopped, Release, threadVars
    <3>2. QED
      BY <3>1, WaitingSame, CallSame
  <2>2. CASE doing.of \notin ongoing
    BY <1>8, <2>2, CallReturn DEF HelperStopped, Done
  <2>3. QED
    BY <2>1, <2>2
<1>9. CASE TellTracker
  <2>1. UNCHANGED <<works, batch, doing, reply, main, added>>
    BY <1>9, NeverRefused DEF TellTracker, threadVars
  <2>2. QED
    BY <2>1, WaitingSame, CallSame
<1>10. CASE PassOn
  <2>1. PICK a \in Addresses : Attach(Remove(a))
    BY <1>10 DEF PassOn, TypeInv, TypeOK, OverlayTypeOK
  <2>2. \A k \in DOMAIN Waiting' : Asks(k)' => k \in DOMAIN Waiting /\ Waiting'[k] = Waiting[k]
    BY <2>1, AppendFacts, WorkOrSignal, Kinds DEF Asks
  <2>3. UNCHANGED <<reply, main, added>>
    BY <1>10 DEF PassOn, trackerVars
  <2>4. QED
    BY <2>2, <2>3 DEF CallInv, Asks, Add, Clear
<1>11. CASE Released
  <2>1. CASE doing = Clear
    <3>1. UNCHANGED <<works, batch, doing, reply, main, added>>
      BY <1>11, <2>1 DEF Released, threadVars
    <3>2. QED
      BY <3>1, WaitingSame, CallSame
  <2>2. CASE doing # Clear
    <3>1. Return /\ UNCHANGED <<main, added>>
      BY <1>11, <2>2 DEF Released, Done
    <3>2. reply' = reply \/ doing \in Adds
      BY <1>11, <2>2, <3>1, Kinds
         DEF Released, Done, Return, TypeInv, TypeOK, OverlayTypeOK, ThreadTypeOK, Sources
    <3>3. QED
      BY <3>1, <3>2, CallReturn
  <2>3. QED
    BY <2>1, <2>2
<1>12. ASSUME NEW o \in Overlays, OfOverlay(o) PROVE CallInv'
  <2>1. UNCHANGED <<works, batch, doing, reply, main, added>>
    BY <1>12 DEF OfOverlay, MirStops, MirReleases, UrlOverlay, HelperEnds, HelperObeys,
       HelperReported, HelperMoves, Signal, trackerVars, threadVars
  <2>2. QED
    BY <2>1, WaitingSame, CallSame
<1>13. QED
  BY <1>1, <1>2, <1>3, <1>4, <1>5, <1>6, <1>7, <1>8, <1>9, <1>10, <1>11, <1>12
     DEF OverlayNext, Callback
-----------------------------------------------------------------------------
LEMMA DoingCall ==
    ASSUME TypeInv, CallInv
    PROVE  /\ doing \in Adds => /\ main = "adding" /\ reply = "none" /\ doing = Add(added)
                               /\ added \in Overlays /\ doing.of = added /\ Awaited(added)
           /\ doing = Clear => main = "clearing" /\ reply = "none"
<1>1. ASSUME doing \in Works PROVE 1 \in DOMAIN Waiting /\ Waiting[1] = doing
  BY <1>1, DoingFirst, LenProperties, EmptySeq DEF TypeInv
<1>2. ASSUME doing \in Adds
      PROVE  /\ main = "adding" /\ reply = "none" /\ doing = Add(added)
             /\ added \in Overlays /\ doing.of = added /\ Awaited(added)
  <2>1. main = "adding" /\ reply = "none" /\ doing = Add(added) /\ Awaited(added)
    BY <1>1, <1>2, Kinds DEF CallInv, Asks, Awaited
  <2>2. doing.of \in Overlays /\ doing.of = added
    BY <1>2, <2>1, AddsOf DEF Add
  <2>3. QED
    BY <2>1, <2>2
<1>3. ASSUME doing = Clear PROVE main = "clearing" /\ reply = "none"
  <2>1. 1 \in DOMAIN Waiting /\ Waiting[1] = Clear
    BY <1>1, <1>3, WorkOrSignal
  <2>2. Clear # Add(added)
    BY DEF Clear, Add
  <2>3. QED
    BY <2>1, <2>2 DEF CallInv, Asks
<1>4. QED
  BY <1>2, <1>3

(* Which overlays are waited for after a step: the one that is asked for,  *)
(* or those of before without the one that is done.                        *)
LEMMA AwaitedSame == UNCHANGED Waiting => \A o \in Overlays : Awaited(o)' = Awaited(o)
BY DEF Awaited

LEMMA AwaitedStep ==
    ASSUME TypeInv, TypeInv', CallInv, OverlayNext, NEW o \in Overlays
    PROVE  /\ o > added' => o > added
           /\ Awaited(o)' => \/ Awaited(o) /\ (doing = Add(o) => doing' = doing)
                             \/ o > added /\ doing # Add(o) /\ UNCHANGED <<doing, step>>
<1> USE DEF TypeInv, TypeOK, OverlayTypeOK
<1> added \in Nat /\ o \in Nat
  BY TrackerAssumption DEF Overlays
<1>1. ASSUME UNCHANGED <<Waiting, added>>, doing' = doing \/ doing \notin Adds
      PROVE  /\ o > added' => o > added
             /\ Awaited(o)' => Awaited(o) /\ (doing = Add(o) => doing' = doing)
  BY <1>1, AwaitedSame DEF Adds
<1>2. ASSUME Return, UNCHANGED added
      PROVE  Awaited(o)' => Awaited(o) /\ doing # Add(o)
  <2>1. CASE doing \notin Works
    BY <1>2, <2>1, ReturnTakes, AwaitedSame, WorkOrSignal
  <2>2. CASE doing \in Works
    <3> SUFFICES ASSUME NEW k \in DOMAIN Waiting', Waiting'[k] = Add(o)
                 PROVE  Awaited(o) /\ doing # Add(o)
      BY DEF Awaited, Add
    <3>1. /\ k + 1 \in DOMAIN Waiting /\ Waiting[k + 1] = Add(o) /\ k + 1 # 1
          /\ 1 \in DOMAIN Waiting /\ Waiting[1] = doing
      BY <1>2, <2>2, TailFacts
    <3>2. doing # Add(o)
      BY <3>1 DEF CallInv, Asks, Adds
    <3>3. QED
      BY <3>1, <3>2 DEF Awaited
  <2>3. QED
    BY <2>1, <2>2
<1>3. CASE UNCHANGED overlayVars \/ MainStep
  <2>1. UNCHANGED <<works, batch, doing, added>>
    BY <1>3 DEF MainStep, Connect, Returns, ReleaseMir, Quit, Cancel, QuitLoop, threadVars,
       MainGoesOn, overlayVars, trackerVars
  <2>2. QED
    BY <1>1, <2>1, WaitingSame
<1>4. CASE AddOverlay \/ Destroy
  <2>1. PICK w \in Works : /\ Attach(w) /\ main = "idle" /\ UNCHANGED <<doing, step>>
                           /\ \/ added' = added + 1 /\ w = Add(added + 1)
                              \/ added' = added /\ w = Clear
    <3>1. CASE AddOverlay
      <4>1. added + 1 \in Overlays
        BY <3>1, NextOverlay DEF AddOverlay
      <4>2. QED
        BY <3>1, <4>1, WorkOrSignal DEF AddOverlay, Call, Attach
    <3>2. CASE Destroy
      BY <3>2, WorkOrSignal DEF Destroy, Call, Attach
    <3>3. QED
      BY <1>4, <3>1, <3>2
  <2>2. doing # Add(o)
    <3>1. doing \notin Adds
      BY <2>1, DoingCall
    <3>2. QED
      BY <3>1 DEF Adds
  <2>3. Awaited(o)' => Awaited(o) \/ w = Add(o)
    <3>1. \A k \in DOMAIN Waiting' :
             \/ k \in DOMAIN Waiting /\ Waiting'[k] = Waiting[k]
             \/ Waiting'[k] = w
      BY <2>1, AppendFacts
    <3>2. QED
      BY <3>1 DEF Awaited, Add
  <2>4. w = Add(o) => o > added
    BY <2>1, Kinds DEF Add, Clear
  <2>5. QED
    BY <2>1, <2>2, <2>3, <2>4
<1>5. CASE LoopStep
  <2>1. doing' = doing \/ doing = Nothing
    BY <1>5 DEF LoopStep, Loop, BeforeLoop, CheckCancelled, RunLoop, Gather, Dispatch, LeaveLoop,
       AfterLoop
  <2>2. Waiting' = Waiting /\ added' = added
    BY <1>5, LoopKeeps DEF LoopStep, trackerVars
  <2>3. QED
    BY <1>1, <2>1, <2>2, Kinds
<1>6. CASE Callback
  <2>1. added' = added /\ (Return \/ UNCHANGED <<works, batch, doing>>)
    BY <1>6 DEF Callback, CreateSession, CreateSessionFails, StartHelper, StartHelperFails,
       RemoveSession, NothingToRemove, HelperStopped, Done, Release, threadVars
  <2>2. QED
    BY <1>1, <1>2, <2>1, WaitingSame
<1>7. CASE TellTracker \/ Released \/ OfOverlay(o) \/ \E p \in Overlays : OfOverlay(p)
  <2>1. added' = added /\ (Return \/ UNCHANGED <<works, batch, doing>>)
    BY <1>7 DEF TellTracker, Released, Done, OfOverlay, MirStops, MirReleases, UrlOverlay,
       HelperEnds, HelperObeys, HelperReported, HelperMoves, Signal, trackerVars, threadVars
  <2>2. QED
    BY <1>1, <1>2, <2>1, WaitingSame
<1>8. CASE PassOn
  <2>1. PICK a \in Addresses : Attach(Remove(a))
    BY <1>8 DEF PassOn
  <2>2. UNCHANGED <<doing, added>>
    BY <1>8 DEF PassOn, Attach, trackerVars
  <2>3. Remove(a) # Add(o)
    BY DEF Remove, Add
  <2>4. Awaited(o)' => Awaited(o)
    <3>1. \A k \in DOMAIN Waiting' :
             \/ k \in DOMAIN Waiting /\ Waiting'[k] = Waiting[k]
             \/ Waiting'[k] = Remove(a)
      BY <2>1, AppendFacts, WorkOrSignal
    <3>2. QED
      BY <2>3, <3>1 DEF Awaited, Add
  <2>5. QED
    BY <2>2, <2>4
<1>9. QED
  BY <1>3, <1>4, <1>5, <1>6, <1>7, <1>8 DEF OverlayNext
-----------------------------------------------------------------------------
(* The sessions. An open one is tracked, or its overlay is half added; one *)
(* at a time is being released, which the thread waits for; and an overlay *)
(* that is not taken up yet has neither session nor helper.                *)
Releasing(o) == session[o] \in {"closing", "asked"}
Gone(o)      == session[o] \in {"none", "released"}
Begun(o)     == doing = Add(o) /\ step # "begin"

SessionInv ==
    /\ step # "begin" => doing # Nothing
    /\ step = "created" => session[doing.of] = "open" /\ doing.of \notin ongoing
    /\ \A o \in ongoing : session[o] = "open"
    /\ \A o \in Overlays :
          session[o] = "open" => o \in ongoing \/ (doing = Add(o) /\ step = "created")
    /\ \A o \in Overlays : Releasing(o) => step = "release"
    /\ \A o, p \in Overlays : Releasing(o) /\ Releasing(p) => o = p

EventInv ==
    /\ \A k \in DOMAIN events : events[k].kind = "released" => session[events[k].of] = "asked"
    /\ \A j, k \in DOMAIN events :
          events[j].kind = "released" /\ events[k].kind = "released" => j = k

FreshInv ==
    \A o \in Overlays :
       /\ o > added \/ Awaited(o) => helper[o] = "none"
       /\ o > added \/ (Awaited(o) /\ ~Begun(o)) => session[o] = "none"

SessionFacts == SessionInv /\ EventInv

LEMMA SessionSame ==
    SessionFacts /\ UNCHANGED <<step, doing, session, ongoing, events>> => SessionFacts'
BY DEF SessionFacts, SessionInv, EventInv, Releasing, Add

(* How the queue of Mir's thread changes.                                  *)
LEMMA EventTyped == TypeInv => \A k \in DOMAIN events : events[k].of \in Overlays
<1> SUFFICES ASSUME TypeInv, NEW k \in DOMAIN events PROVE events[k].of \in Overlays
  OBVIOUS
<1>1. events \in Seq(Event)
  BY DEF TypeInv, TypeOK, OverlayTypeOK
<1>2. events[k] \in Event
  BY <1>1
<1>3. QED
  BY <1>2 DEF Event

LEMMA EventsTail ==
    ASSUME TypeInv, events # <<>>, events' = Tail(events)
    PROVE  /\ 1 \in DOMAIN events /\ Head(events) = events[1] /\ events[1].of \in Overlays
           /\ \A k \in DOMAIN events' :
                 k + 1 \in DOMAIN events /\ events'[k] = events[k + 1] /\ k + 1 # 1
           /\ \A j, k \in DOMAIN events' : j + 1 = k + 1 => j = k
<1>1. events \in Seq(Event)
  BY DEF TypeInv, TypeOK, OverlayTypeOK
<1>2. /\ Len(events) \in Nat \ {0} /\ DOMAIN events = 1..Len(events)
      /\ DOMAIN events' = 1..(Len(events) - 1)
      /\ \A k \in 1..(Len(events) - 1) : events'[k] = events[k + 1]
      /\ Head(events) = events[1]
  BY <1>1, HeadTailProperties, LenProperties, EmptySeq
<1>3. QED
  BY <1>1, <1>2, HeadEvent

LEMMA EventsAppend ==
    ASSUME TypeInv, NEW e \in Event, events' = Append(events, e)
    PROVE  /\ \A k \in DOMAIN events : k \in DOMAIN events' /\ events'[k] = events[k]
           /\ \A k \in DOMAIN events' : k \in DOMAIN events \/ events'[k] = e
           /\ \A j, k \in DOMAIN events' :
                 j \notin DOMAIN events /\ k \notin DOMAIN events => j = k
<1>1. events \in Seq(Event)
  BY DEF TypeInv, TypeOK, OverlayTypeOK
<1>2. QED
  BY <1>1, AppendProperties, LenProperties

LEMMA EventsAppendTwo ==
    ASSUME TypeInv, NEW d \in Event, NEW e \in Event, d # e, events' = events \o <<d, e>>
    PROVE  /\ \A k \in DOMAIN events : k \in DOMAIN events' /\ events'[k] = events[k]
           /\ \A k \in DOMAIN events' : k \in DOMAIN events \/ events'[k] \in {d, e}
           /\ \A j, k \in DOMAIN events' :
                 j \notin DOMAIN events /\ k \notin DOMAIN events /\ events'[j] = events'[k] => j = k
<1>1. events \in Seq(Event)
  BY DEF TypeInv, TypeOK, OverlayTypeOK
<1> DEFINE t == <<d, e>>
<1>2. t \in Seq(Event) /\ Len(t) = 2 /\ t[1] = d /\ t[2] = e
  OBVIOUS
<1>3. events' = events \o t
  OBVIOUS
<1> HIDE DEF t
<1>4. /\ events \o t \in Seq(Event)
      /\ Len(events \o t) = Len(events) + Len(t)
      /\ \A i \in 1..Len(events) + Len(t) :
            (events \o t)[i] = IF i <= Len(events) THEN events[i] ELSE t[i - Len(events)]
  BY <1>1, <1>2, ConcatProperties
<1>5. /\ Len(events) \in Nat /\ DOMAIN events = 1..Len(events)
      /\ DOMAIN events' = 1..(Len(events) + 2)
      /\ \A i \in 1..Len(events) : events'[i] = events[i]
      /\ events'[Len(events) + 1] = d
      /\ events'[Len(events) + 2] = e
  BY <1>1, <1>2, <1>3, <1>4, LenProperties
<1>6. \A k \in DOMAIN events' : \/ k \in DOMAIN events \/ k = Len(events) + 1
                                \/ k = Len(events) + 2
  BY <1>5
<1>7. QED
  BY <1>5, <1>6

(* The thread gives a session back and waits.                              *)
LEMMA ReleaseKeeps ==
    ASSUME TypeInv, SessionFacts, NEW o \in Overlays, session[o] = "open", Release(o),
           ongoing' = ongoing \ {o}, doing # Nothing,
           step = "begin" \/ (step = "created" /\ doing.of = o)
    PROVE  SessionFacts'
<1> USE DEF SessionFacts, SessionInv, EventInv, Releasing
<1>1. /\ session' = [session EXCEPT ![o] = "closing"] /\ step' = "release"
      /\ doing' = doing /\ events' = events
      /\ session \in [Overlays -> {"none", "open", "closing", "asked", "released"}]
      /\ ongoing \subseteq Overlays
  BY DEF Release, threadVars, TypeInv, TypeOK, OverlayTypeOK
<1>2. \A p \in Overlays : ~Releasing(p)
  OBVIOUS
<1>3. \A p \in Overlays : Releasing(p)' => p = o
  BY <1>1, <1>2
<1>4. \A p \in ongoing' : session'[p] = "open"
  BY <1>1
<1>5. \A p \in Overlays : session'[p] = "open" => p \in ongoing'
  <2> SUFFICES ASSUME NEW p \in Overlays, session'[p] = "open" PROVE p \in ongoing'
    OBVIOUS
  <2>1. p # o /\ session[p] = "open"
    BY <1>1
  <2>2. doing = Add(p) => doing.of = p
    BY DEF Add
  <2>3. QED
    BY <2>1, <2>2
<1>6. \A k \in DOMAIN events : events[k].kind # "released"
  <2> SUFFICES ASSUME NEW k \in DOMAIN events, events[k].kind = "released" PROVE FALSE
    OBVIOUS
  <2>1. events[k].of \in Overlays
    BY EventTyped
  <2>2. QED
    BY <1>2, <2>1
<1>7. QED
  BY <1>1, <1>3, <1>4, <1>5, <1>6

LEMMA ReturnKeeps ==
    ASSUME SessionFacts, step = "begin", Return, step' = "begin",
           UNCHANGED <<session, ongoing, events>>
    PROVE  SessionFacts'
BY DEF SessionFacts, SessionInv, EventInv, Releasing, Return

LEMMA CreateKeeps ==
    ASSUME TypeInv, CallInv, FreshInv, SessionFacts, CreateSession
    PROVE  SessionFacts' /\ doing = Add(added) /\ doing' = doing /\ session[added] = "none"
<1> USE DEF SessionFacts, SessionInv, EventInv, Releasing
<1>1. /\ doing = Add(added) /\ added \in Overlays /\ doing.of = added /\ Awaited(added)
      /\ doing' = doing
  BY DoingCall DEF CreateSession, Adds, threadVars
<1>2. session[added] = "none" /\ added \notin ongoing
  BY <1>1 DEF FreshInv, Begun, CreateSession
<1>3. /\ session' = [session EXCEPT ![added] = "open"] /\ step' = "created"
      /\ ongoing' = ongoing /\ ongoing \subseteq Overlays
      /\ session \in [Overlays -> {"none", "open", "closing", "asked", "released"}]
      /\ step = "begin"
  BY <1>1 DEF CreateSession, TypeInv, TypeOK, OverlayTypeOK
<1>4. SessionInv'
  <2>1. \A o \in Overlays : ~Releasing(o)
    BY <1>3
  <2>2. \A o \in Overlays : Releasing(o)' => FALSE
    BY <1>3, <2>1
  <2>3. \A o \in Overlays : session'[o] = "open" => o \in ongoing' \/ o = added
    BY <1>3
  <2>4. doing' # Nothing
    BY <1>1, Kinds DEF CreateSession, Adds
  <2>5. \A o \in ongoing' : session'[o] = "open"
    BY <1>3
  <2>6. session'[doing'.of] = "open" /\ doing'.of \notin ongoing'
    BY <1>1, <1>2, <1>3
  <2>7. QED
    BY <1>1, <1>3, <2>2, <2>3, <2>4, <2>5, <2>6 DEF Add
<1>5. EventInv'
  <2>1. \A k \in DOMAIN events : events[k].kind # "released"
    <3> SUFFICES ASSUME NEW k \in DOMAIN events, events[k].kind = "released" PROVE FALSE
      OBVIOUS
    <3>1. events[k].of \in Overlays
      BY EventTyped
    <3>2. QED
      BY <1>3, <3>1
  <2>2. PICK e \in Event : e.kind = "started" /\ events' = Append(events, e)
    BY <1>1, EventsOf DEF CreateSession
  <2>3. \A k \in DOMAIN events' : events'[k].kind # "released"
    BY <2>1, <2>2, EventsAppend
  <2>4. QED
    BY <2>3
<1>6. QED
  BY <1>1, <1>2, <1>4, <1>5

(* Mir's part in releasing a session.                                      *)
LEMMA MirReleasesKeeps ==
    ASSUME TypeInv, SessionFacts, NEW o \in Overlays, MirReleases(o)
    PROVE  SessionFacts'
<1> USE DEF SessionFacts, SessionInv, EventInv, Releasing
<1>1. /\ session[o] = "closing" /\ session' = [session EXCEPT ![o] = "asked"]
      /\ UNCHANGED <<step, doing, ongoing>>
      /\ session \in [Overlays -> {"none", "open", "closing", "asked", "released"}]
      /\ ongoing \subseteq Overlays
  BY DEF MirReleases, trackerVars, threadVars, TypeInv, TypeOK, OverlayTypeOK
<1>2. \A p \in Overlays : Releasing(p)' => p = o
  BY <1>1
<1>3. \A p \in Overlays : p # o => session'[p] = session[p]
  BY <1>1
<1>4. SessionInv'
  <2>1. \A p \in ongoing : p # o
    BY <1>1
  <2>2. step = "created" => FALSE
    BY <1>1
  <2>3. QED
    BY <1>1, <1>2, <1>3, <2>1, <2>2
<1>5. \A k \in DOMAIN events : events[k].kind # "released"
  <2> SUFFICES ASSUME NEW k \in DOMAIN events, events[k].kind = "released" PROVE FALSE
    OBVIOUS
  <2>1. events[k].of \in Overlays
    BY EventTyped
  <2>2. QED
    BY <1>1, <2>1
<1> DEFINE st == [kind |-> "stopped", of |-> o]
           re == [kind |-> "released", of |-> o]
<1>6. st \in Event /\ re \in Event /\ st # re /\ st.kind # "released" /\ re.of = o
  BY EventsOf
<1>7. events' = Append(events, re) \/ events' = events \o <<st, re>>
  BY DEF MirReleases
<1> HIDE DEF st, re
<1>8. \A k \in DOMAIN events' : events'[k].kind = "released" =>
         k \notin DOMAIN events /\ events'[k] = re
  BY <1>5, <1>6, <1>7, EventsAppend, EventsAppendTwo
<1>9. \A j, k \in DOMAIN events' :
         events'[j].kind = "released" /\ events'[k].kind = "released" => j = k
  BY <1>6, <1>7, <1>8, EventsAppend, EventsAppendTwo
<1>10. EventInv'
  BY <1>1, <1>6, <1>8, <1>9
<1>11. QED
  BY <1>4, <1>10

(* The next event, when it says that a session is released.                *)
LEMMA ReleasedFacts ==
    ASSUME TypeInv, SessionFacts, Released
    PROVE  \E o \in Overlays :
              /\ session[o] = "asked" /\ session' = [session EXCEPT ![o] = "released"]
              /\ step = "release"
              /\ \A p \in Overlays : Releasing(p) => p = o
              /\ \A k \in DOMAIN events' : events'[k].kind # "released"
<1>1. events # <<>> /\ events' = Tail(events) /\ Head(events).kind = "released"
  BY DEF Released, NextEvent
<1>2. /\ 1 \in DOMAIN events /\ events[1].kind = "released" /\ events[1].of \in Overlays
      /\ session[events[1].of] = "asked"
      /\ session' = [session EXCEPT ![events[1].of] = "released"]
  BY <1>1, EventsTail DEF Released, SessionFacts, EventInv
<1>3. \A k \in DOMAIN events' : events'[k].kind # "released"
  BY <1>1, <1>2, EventsTail DEF SessionFacts, EventInv
<1>4. QED
  BY <1>2, <1>3 DEF SessionFacts, SessionInv, Releasing

LEMMA ReleasedKeeps ==
    ASSUME TypeInv, CallInv, SessionFacts, Released
    PROVE  SessionFacts'
<1> USE DEF SessionFacts, SessionInv, EventInv, Releasing
<1>1. PICK o \in Overlays :
         /\ session[o] = "asked" /\ session' = [session EXCEPT ![o] = "released"]
         /\ step = "release"
         /\ \A p \in Overlays : Releasing(p) => p = o
         /\ \A k \in DOMAIN events' : events'[k].kind # "released"
  BY ReleasedFacts
<1>2. session \in [Overlays -> {"none", "open", "closing", "asked", "released"}]
      /\ ongoing \subseteq Overlays
  BY DEF TypeInv, TypeOK, OverlayTypeOK
<1>3. step' = "begin" /\ ongoing' = ongoing
  BY DEF Released, Done
<1>4. \A p \in Overlays : ~Releasing(p)'
  BY <1>1, <1>2
<1>5. \A p \in Overlays : session'[p] = "open" => p \in ongoing
  BY <1>1, <1>2
<1>6. \A p \in ongoing : session'[p] = "open"
  BY <1>1, <1>2
<1>7. QED
  BY <1>1, <1>3, <1>4, <1>5, <1>6

LEMMA SessionStep ==
    ASSUME TypeInv, CallInv, FreshInv, SessionFacts, OverlayNext
    PROVE  SessionFacts'
<1>1. CASE UNCHANGED overlayVars \/ MainStep
  <2>1. UNCHANGED <<step, doing, session, ongoing>> /\ (events' = events \/ events' = <<>>)
    BY <1>1 DEF MainStep, Connect, Returns, ReleaseMir, Quit, Cancel, QuitLoop, threadVars,
       MainGoesOn, overlayVars, trackerVars, mirVars
  <2>2. CASE events' = <<>>
    BY <2>1, <2>2 DEF SessionFacts, SessionInv, EventInv, Releasing, Add
  <2>3. QED
    BY <2>1, <2>2, SessionSame
<1>2. CASE AddOverlay \/ Destroy \/ PassOn
  BY <1>2, SessionSame DEF AddOverlay, Destroy, Call, PassOn, Attach, trackerVars, mirVars
<1>3. CASE LoopStep
  <2>1. doing' = doing \/ doing = Nothing
    BY <1>3 DEF LoopStep, Loop, BeforeLoop, CheckCancelled, RunLoop, Gather, Dispatch, LeaveLoop,
       AfterLoop
  <2>2. UNCHANGED <<step, session, ongoing, events>>
    BY <1>3 DEF LoopStep, trackerVars, mirVars
  <2>3. CASE doing = Nothing
    BY <2>2, <2>3 DEF SessionFacts, SessionInv, EventInv, Releasing
  <2>4. QED
    BY <2>1, <2>2, <2>3, SessionSame
<1>4. CASE CreateSession
  BY <1>4, CreateKeeps
<1>5. CASE CreateSessionFails \/ NothingToRemove
  BY <1>5, ReturnKeeps DEF CreateSessionFails, NothingToRemove, Done, mirVars
<1>6. CASE StartHelper
  <2>1. /\ step = "created" /\ step' = "begin" /\ session' = session /\ events' = events
        /\ ongoing' = ongoing \cup {doing.of}
    BY <1>6 DEF StartHelper, Done, mirVars
  <2>2. \A o \in Overlays : doing = Add(o) => doing.of = o
    BY DEF Add
  <2>3. QED
    BY <2>1, <2>2 DEF SessionFacts, SessionInv, EventInv, Releasing
<1>7. CASE StartHelperFails
  <2>1. doing.of \in Overlays /\ doing # Nothing
    BY <1>7, AddsOf, Kinds DEF StartHelperFails, TypeInv
  <2>2. /\ step = "created" /\ Release(doing.of) /\ ongoing' = ongoing
        /\ session[doing.of] = "open" /\ doing.of \notin ongoing
    BY <1>7 DEF StartHelperFails, SessionFacts, SessionInv
  <2>3. ongoing' = ongoing \ {doing.of}
    BY <2>2
  <2>4. QED
    BY <2>1, <2>2, <2>3, ReleaseKeeps
<1>8. CASE RemoveSession
  <2>1. PICK o \in ongoing : ongoing' = ongoing \ {o} /\ Release(o)
    BY <1>8 DEF RemoveSession, Matches
  <2>2. doing # Nothing /\ step = "begin"
    BY <1>8, WorkOrSignal, SourceAssumption DEF RemoveSession
  <2>3. o \in Overlays /\ session[o] = "open"
    BY <2>1 DEF TypeInv, TypeOK, OverlayTypeOK, SessionFacts, SessionInv
  <2>4. QED
    BY <2>1, <2>2, <2>3, ReleaseKeeps
<1>9. CASE HelperStopped
  <2>1. step = "begin" /\ ongoing' = ongoing \ {doing.of} /\ doing # Nothing
    BY <1>9, TrackerAssumption, SourceAssumption DEF HelperStopped
  <2>2. CASE doing.of \in ongoing
    <3>1. doing.of \in Overlays /\ session[doing.of] = "open" /\ Release(doing.of)
      BY <1>9, <2>2 DEF HelperStopped, TypeInv, TypeOK, OverlayTypeOK, SessionFacts, SessionInv
    <3>2. QED
      BY <2>1, <3>1, ReleaseKeeps
  <2>3. CASE doing.of \notin ongoing
    <3>1. ongoing' = ongoing
      BY <2>1, <2>3
    <3>2. QED
      BY <1>9, <2>3, <3>1, ReturnKeeps DEF HelperStopped, Done, mirVars
  <2>4. QED
    BY <2>2, <2>3
<1>10. CASE TellTracker
  <2>1. events # <<>> /\ events' = Tail(events) /\ UNCHANGED <<step, doing, session, ongoing>>
    BY <1>10 DEF TellTracker, SessionStateChanged, NextEvent, threadVars
  <2>2. EventInv'
    BY <2>1, EventsTail DEF SessionFacts, EventInv
  <2>3. SessionInv'
    BY <2>1 DEF SessionFacts, SessionInv, Releasing, Add
  <2>4. QED
    BY <2>2, <2>3 DEF SessionFacts
<1>11. CASE Released
  BY <1>11, ReleasedKeeps
<1>12. ASSUME NEW o \in Overlays, OfOverlay(o) PROVE SessionFacts'
  <2>1. CASE MirReleases(o)
    BY <2>1, MirReleasesKeeps
  <2>2. CASE MirStops(o)
    <3> DEFINE e == [kind |-> "stopped", of |-> o]
    <3>1. e \in Event /\ e.kind # "released" /\ events' = Append(events, e)
          /\ UNCHANGED <<step, doing, session, ongoing>>
      BY <2>2, EventsOf DEF MirStops, trackerVars, threadVars
    <3> HIDE DEF e
    <3>2. EventInv'
      BY <3>1, EventsAppend DEF SessionFacts, EventInv
    <3>3. SessionInv'
      BY <3>1 DEF SessionFacts, SessionInv, Releasing, Add
    <3>4. QED
      BY <3>2, <3>3 DEF SessionFacts
  <2>3. CASE UrlOverlay(o) \/ HelperEnds(o) \/ HelperObeys(o) \/ HelperReported(o)
    BY <2>3, SessionSame
       DEF UrlOverlay, HelperEnds, HelperObeys, HelperReported, HelperMoves, Signal, trackerVars,
           mirVars, threadVars
  <2>4. QED
    BY <1>12, <2>1, <2>2, <2>3 DEF OfOverlay
<1>13. QED
  BY <1>1, <1>2, <1>3, <1>4, <1>5, <1>6, <1>7, <1>8, <1>9, <1>10, <1>11, <1>12
     DEF OverlayNext, Callback

(* The life of a session: it is opened for the overlay that is asked for,  *)
(* and goes from open over closing and asked to released.                  *)
LEMMA SessionMoves ==
    ASSUME TypeInv, CallInv, FreshInv, SessionFacts, OverlayNext, NEW o \in Overlays
    PROVE  \/ session'[o] = session[o] /\ address'[o] = address[o]
           \/ /\ CreateSession /\ doing = Add(o) /\ o = added /\ doing' = doing
              /\ session[o] = "none" /\ session'[o] = "open"
              /\ address'[o] \in Addresses \ Held
           \/ /\ address'[o] = address[o]
              /\ \/ session[o] = "open" /\ session'[o] = "closing" /\ Callback
                 \/ session[o] = "closing" /\ session'[o] = "asked"
                 \/ session[o] = "asked" /\ session'[o] = "released" /\ Released
<1> session \in [Overlays -> {"none", "open", "closing", "asked", "released"}]
    /\ address \in [Overlays -> Addresses \cup {NoAddress}] /\ ongoing \subseteq Overlays
  BY DEF TypeInv, TypeOK, OverlayTypeOK
<1>1. CASE CreateSession
  <2>1. PICK a \in Addresses \ Held : /\ session' = [session EXCEPT ![added] = "open"]
                                     /\ address' = [address EXCEPT ![added] = a]
    BY <1>1, CreateKeeps, DoingCall DEF CreateSession, Adds
  <2>2. doing = Add(added) /\ doing' = doing /\ session[added] = "none"
    BY <1>1, CreateKeeps
  <2>3. QED
    BY <1>1, <2>1, <2>2
<1>2. ASSUME NEW p \in Overlays, session[p] = "open", Release(p), Callback
      PROVE  /\ address'[o] = address[o]
             /\ session'[o] = session[o] \/ (session[o] = "open" /\ session'[o] = "closing")
  BY <1>2 DEF Release
<1>3. CASE StartHelperFails
  <2>1. doing.of \in Overlays /\ session[doing.of] = "open" /\ Release(doing.of)
    BY <1>3, AddsOf DEF StartHelperFails, TypeInv, SessionFacts, SessionInv
  <2>2. QED
    BY <1>2, <1>3, <2>1 DEF Callback
<1>4. CASE RemoveSession
  <2>1. PICK p \in ongoing : Release(p)
    BY <1>4 DEF RemoveSession, Matches
  <2>2. p \in Overlays /\ session[p] = "open"
    BY <2>1 DEF SessionFacts, SessionInv
  <2>3. QED
    BY <1>2, <1>4, <2>1, <2>2 DEF Callback
<1>5. CASE HelperStopped
  <2>1. CASE doing.of \in ongoing
    <3>1. doing.of \in Overlays /\ session[doing.of] = "open" /\ Release(doing.of)
      BY <1>5, <2>1 DEF HelperStopped, SessionFacts, SessionInv
    <3>2. QED
      BY <1>2, <1>5, <3>1 DEF Callback
  <2>2. CASE doing.of \notin ongoing
    BY <1>5, <2>2 DEF HelperStopped, mirVars
  <2>3. QED
    BY <2>1, <2>2
<1>6. CASE Released
  <2>1. PICK p \in Overlays : session[p] = "asked" /\ session' = [session EXCEPT ![p] = "released"]
    BY <1>6, ReleasedFacts
  <2>2. address' = address
    BY <1>6 DEF Released
  <2>3. QED
    BY <1>6, <2>1, <2>2
<1>7. CASE \E p \in Overlays : OfOverlay(p)
  BY <1>7 DEF OfOverlay, MirStops, MirReleases, UrlOverlay, HelperEnds, HelperObeys,
     HelperReported, HelperMoves, mirVars
<1>8. CASE \/ UNCHANGED overlayVars \/ MainStep \/ AddOverlay \/ Destroy \/ LoopStep
           \/ CreateSessionFails \/ StartHelper \/ NothingToRemove \/ TellTracker \/ PassOn
  BY <1>8 DEF overlayVars, mirVars, MainStep, Connect, Returns, ReleaseMir, Quit, MainGoesOn,
     AddOverlay, Destroy, Call, LoopStep, CreateSessionFails, StartHelper, NothingToRemove,
     TellTracker, PassOn
<1>9. QED
  BY <1>1, <1>3, <1>4, <1>5, <1>6, <1>7, <1>8 DEF OverlayNext, Callback
-----------------------------------------------------------------------------
(* The helpers. A helper that is live is tracked, and what ubuntu-app-     *)
(* launch says has stopped was reported.                                   *)
Signalled ==
    {signals[k] : k \in DOMAIN signals} \cup {batch[k] : k \in DOMAIN batch} \cup {doing}

HelperInv ==
    /\ \A o \in Overlays : Stopped(o) \in Signalled => helper[o] = "reported"
    /\ \A o \in Overlays : Live(o) => o \in ongoing

LEMMA HelperMovesOn ==
    ASSUME TypeInv, CallInv, FreshInv, OverlayNext, NEW o \in Overlays
    PROVE  \/ helper'[o] = helper[o]
           \/ /\ StartHelper /\ doing = Add(o) /\ o = added /\ doing' = Nothing
              /\ helper[o] = "none" /\ helper'[o] = "preparing"
           \/ /\ RemoveSession /\ o \in Matches(doing) /\ ongoing' = ongoing \ {o}
              /\ helper[o] \in {"preparing", "running"} /\ helper'[o] = "stopping"
           \/ helper[o] = "preparing" /\ helper'[o] \in {"running", "ended"} /\ ongoing' = ongoing
           \/ helper[o] \in {"running", "stopping"} /\ helper'[o] = "ended" /\ ongoing' = ongoing
           \/ helper[o] = "ended" /\ helper'[o] = "reported" /\ ongoing' = ongoing
<1> helper \in [Overlays -> {"none", "preparing", "running", "stopping", "ended", "reported"}]
  BY DEF TypeInv, TypeOK, OverlayTypeOK
<1>1. CASE StartHelper
  <2>1. /\ doing = Add(added) /\ added \in Overlays /\ doing.of = added
        /\ helper[added] = "none"
    BY <1>1, DoingCall DEF StartHelper, TypeInv, FreshInv
  <2>2. helper' = [helper EXCEPT ![added] = "preparing"] /\ doing' = Nothing
    BY <1>1, <2>1 DEF StartHelper, Done, Return
  <2>3. QED
    BY <1>1, <2>1, <2>2
<1>2. CASE RemoveSession
  <2>1. PICK p \in Matches(doing) : StopHelper(p) /\ ongoing' = ongoing \ {p}
    BY <1>2 DEF RemoveSession
  <2>2. QED
    BY <1>2, <2>1 DEF StopHelper
<1>3. CASE \E p \in Overlays : OfOverlay(p)
  BY <1>3 DEF OfOverlay, MirStops, MirReleases, UrlOverlay, HelperEnds, HelperObeys,
     HelperReported, HelperMoves, trackerVars
<1>4. CASE \/ CreateSession \/ CreateSessionFails \/ StartHelperFails \/ NothingToRemove
           \/ HelperStopped
  BY <1>4 DEF CreateSession, CreateSessionFails, StartHelperFails, NothingToRemove, HelperStopped
<1>5. CASE \/ UNCHANGED overlayVars \/ MainStep \/ AddOverlay \/ Destroy \/ LoopStep
           \/ TellTracker \/ PassOn \/ Released
  BY <1>5 DEF overlayVars, MainStep, Connect, Returns, ReleaseMir, Quit, MainGoesOn,
     AddOverlay, Destroy, Call, LoopStep, TellTracker, PassOn, Released
<1>6. QED
  BY <1>1, <1>2, <1>3, <1>4, <1>5 DEF OverlayNext, Callback

(* How what is tracked changes.                                            *)
LEMMA OngoingMoves ==
    ASSUME TypeInv, OverlayNext
    PROVE  \/ ongoing' = ongoing
           \/ StartHelper /\ ongoing' = ongoing \cup {doing.of} /\ doing \in Adds
           \/ /\ RemoveSession /\ ongoing # {}
              /\ \E o \in ongoing : StopHelper(o) /\ ongoing' = ongoing \ {o}
           \/ HelperStopped /\ ongoing' = ongoing \ {doing.of}
<1>1. CASE StartHelper
  BY <1>1 DEF StartHelper, TypeInv
<1>2. CASE RemoveSession
  BY <1>2 DEF RemoveSession, Matches
<1>3. CASE HelperStopped
  BY <1>3 DEF HelperStopped
<1>4. CASE CreateSession \/ CreateSessionFails \/ StartHelperFails \/ NothingToRemove
  BY <1>4 DEF CreateSession, CreateSessionFails, StartHelperFails, NothingToRemove
<1>5. CASE \/ UNCHANGED overlayVars \/ MainStep \/ AddOverlay \/ Destroy \/ LoopStep
           \/ TellTracker \/ PassOn \/ Released
  BY <1>5 DEF overlayVars, trackerVars, MainStep, Connect, Returns, ReleaseMir, Quit, MainGoesOn,
     AddOverlay, Destroy, Call, LoopStep, TellTracker, PassOn, Released
<1>6. CASE \E p \in Overlays : OfOverlay(p)
  BY <1>6 DEF OfOverlay, MirStops, MirReleases, UrlOverlay, HelperEnds, HelperObeys,
     HelperReported, HelperMoves, trackerVars
<1>7. QED
  BY <1>1, <1>2, <1>3, <1>4, <1>5, <1>6 DEF OverlayNext, Callback

(* Only a report brings a signal.                                          *)
LEMMA SignalledSame ==
    UNCHANGED <<signals, batch>> /\ (doing' = doing \/ doing' = Nothing) =>
       \A o \in Overlays : Stopped(o) \in Signalled' => Stopped(o) \in Signalled
<1> SUFFICES ASSUME UNCHANGED <<signals, batch>>, doing' = doing \/ doing' = Nothing,
                    NEW o \in Overlays, Stopped(o) \in Signalled'
             PROVE  Stopped(o) \in Signalled
  OBVIOUS
<1>1. Stopped(o) # Nothing
  BY WorkOrSignal, SourceAssumption
<1>2. QED
  BY <1>1 DEF Signalled

LEMMA SignalledLoop ==
    ASSUME TypeInv, LoopStep, NEW o \in Overlays, Stopped(o) \in Signalled'
    PROVE  Stopped(o) \in Signalled
<1>1. works \in Seq(Works) /\ signals \in Seq(Signals) /\ batch \in Seq(Works) \cup Seq(Signals)
  BY DEF TypeInv, TypeOK, OverlayTypeOK, ThreadTypeOK
<1>2. Stopped(o) \in Signals /\ Stopped(o) \notin Works
  BY WorkOrSignal, SourceAssumption
<1>3. CASE BeforeLoop \/ CheckCancelled \/ RunLoop \/ LeaveLoop
  BY <1>3, SignalledSame DEF BeforeLoop, CheckCancelled, RunLoop, LeaveLoop
<1>4. CASE Gather
  <2>1. doing' = doing
    BY <1>4 DEF Gather
  <2>2. CASE batch' = signals /\ signals' = <<>>
    BY <2>1, <2>2 DEF Signalled
  <2>3. CASE batch' = works /\ signals' = signals
    <3>1. \A k \in DOMAIN works : works[k] # Stopped(o)
      BY <1>1, <1>2
    <3>2. QED
      BY <2>1, <2>3, <3>1 DEF Signalled
  <2>4. QED
    BY <1>4, <2>2, <2>3 DEF Gather
<1>5. CASE Dispatch
  <2>1. batch # <<>> /\ doing' = Head(batch) /\ batch' = Tail(batch) /\ signals' = signals
    BY <1>5 DEF Dispatch
  <2>2. batch \in Seq(Sources)
    BY <1>1, SeqMonotonic DEF Sources
  <2>3. Head(batch) = batch[1] /\ 1 \in DOMAIN batch
    BY <2>1, <2>2, HeadTailProperties
  <2>4. \A k \in DOMAIN batch' : k + 1 \in DOMAIN batch /\ batch'[k] = batch[k + 1]
    BY <2>1, <2>2, HeadTailProperties, LenProperties
  <2>5. QED
    BY <2>1, <2>3, <2>4 DEF Signalled
<1>6. CASE AfterLoop
  BY <1>6 DEF AfterLoop, Signalled
<1>7. QED
  BY <1>3, <1>4, <1>5, <1>6 DEF LoopStep, Loop

LEMMA SignalledStep ==
    ASSUME TypeInv, OverlayNext, NEW o \in Overlays, Stopped(o) \in Signalled'
    PROVE  Stopped(o) \in Signalled \/ helper'[o] = "reported"
<1>1. CASE UNCHANGED overlayVars \/ MainStep \/ AddOverlay \/ Destroy
  BY <1>1, SignalledSame DEF overlayVars, MainStep, Connect, Returns, ReleaseMir, Quit, Cancel,
     QuitLoop, MainGoesOn, AddOverlay, Destroy, Call, Attach, threadVars
<1>2. CASE LoopStep
  BY <1>2, SignalledLoop
<1>3. CASE Callback
  BY <1>3, SignalledSame
     DEF Callback, CreateSession, CreateSessionFails, StartHelper, StartHelperFails,
         RemoveSession, NothingToRemove, HelperStopped, Done, Return, Release, threadVars
<1>4. CASE TellTracker \/ PassOn \/ Released
  BY <1>4, SignalledSame DEF TellTracker, PassOn, Attach, Released, Done, Return, threadVars
<1>5. ASSUME NEW p \in Overlays, OfOverlay(p)
      PROVE  Stopped(o) \in Signalled \/ helper'[o] = "reported"
  <2>1. CASE HelperReported(p) /\ Listening
    <3>1. helper' = [helper EXCEPT ![p] = "reported"] /\ signals' = Append(signals, Stopped(p))
          /\ UNCHANGED <<batch, doing>>
      BY <2>1 DEF HelperReported, HelperMoves, Signal
    <3>2. signals \in Seq(Signals)
          /\ helper \in [Overlays -> {"none", "preparing", "running", "stopping", "ended",
                                      "reported"}]
      BY DEF TypeInv, TypeOK, OverlayTypeOK, ThreadTypeOK
    <3>3. \A k \in DOMAIN signals' : \/ k \in DOMAIN signals /\ signals'[k] = signals[k]
                                     \/ signals'[k] = Stopped(p)
      BY <3>1, <3>2, WorkOrSignal, AppendProperties, LenProperties
    <3>4. Stopped(o) \in Signalled \/ Stopped(o) = Stopped(p)
      BY <3>1, <3>3 DEF Signalled
    <3>5. QED
      BY <3>1, <3>2, <3>4, Kinds
  <2>2. CASE ~(HelperReported(p) /\ Listening)
    BY <1>5, <2>2, SignalledSame
       DEF OfOverlay, MirStops, MirReleases, UrlOverlay, HelperEnds, HelperObeys, HelperReported,
           HelperMoves, threadVars
  <2>3. QED
    BY <2>1, <2>2
<1>6. QED
  BY <1>1, <1>2, <1>3, <1>4, <1>5 DEF OverlayNext

LEMMA HelperStep ==
    ASSUME TypeInv, CallInv, FreshInv, HelperInv, OverlayNext
    PROVE  HelperInv'
<1> helper \in [Overlays -> {"none", "preparing", "running", "stopping", "ended", "reported"}]
  BY DEF TypeInv, TypeOK, OverlayTypeOK
<1>1. ASSUME NEW o \in Overlays, Stopped(o) \in Signalled' PROVE helper'[o] = "reported"
  <2>1. CASE helper'[o] = "reported"
    BY <2>1
  <2>2. CASE Stopped(o) \in Signalled
    <3>1. helper[o] = "reported"
      BY <2>2 DEF HelperInv
    <3>2. QED
      BY <3>1, HelperMovesOn
  <2>3. QED
    BY <1>1, <2>1, <2>2, SignalledStep
<1>2. ASSUME NEW o \in Overlays, Live(o)' PROVE o \in ongoing'
  <2>1. helper'[o] \in {"preparing", "running"}
    BY <1>2 DEF Live
  <2>2. CASE helper[o] = "none"
    <3>1. StartHelper /\ doing = Add(o)
      BY <2>1, <2>2, HelperMovesOn
    <3>2. QED
      BY <3>1 DEF StartHelper, Add
  <2>3. CASE helper[o] # "none"
    <3>1. Live(o) /\ o \in ongoing
      BY <2>1, <2>3, HelperMovesOn DEF Live, HelperInv
    <3>2. CASE RemoveSession
      <4>1. PICK p \in ongoing : StopHelper(p) /\ ongoing' = ongoing \ {p}
        BY <3>2 DEF RemoveSession, Matches
      <4>2. o # p
        BY <2>1, <3>1, <4>1 DEF StopHelper, Live
      <4>3. QED
        BY <3>1, <4>1, <4>2
    <3>3. CASE HelperStopped
      <4>1. PICK p \in Overlays : doing = Stopped(p) /\ doing.of = p
        BY <3>3, Kinds DEF HelperStopped, Stopped, TrackerSignals
      <4>2. helper[p] = "reported"
        BY <4>1 DEF HelperInv, Signalled
      <4>3. o # p
        BY <3>1, <4>2 DEF Live
      <4>4. QED
        BY <3>1, <3>3, <4>1, <4>3 DEF HelperStopped
    <3>4. QED
      BY <3>1, <3>2, <3>3, OngoingMoves
  <2>4. QED
    BY <2>2, <2>3
<1>3. QED
  BY <1>1, <1>2 DEF HelperInv, Stopped

LEMMA FreshStep ==
    ASSUME TypeInv, TypeInv', CallInv, FreshInv, SessionFacts, OverlayNext
    PROVE  FreshInv'
<1> SUFFICES ASSUME NEW o \in Overlays, o > added' \/ Awaited(o)'
             PROVE  /\ helper'[o] = "none"
                    /\ o > added' \/ ~Begun(o)' => session'[o] = "none"
  BY DEF FreshInv
<1> added \in Nat /\ o \in Nat
  BY TrackerAssumption DEF Overlays, TypeInv, TypeOK, OverlayTypeOK
<1>1. o > added \/ (Awaited(o) /\ (doing = Add(o) => doing' = doing))
  BY AwaitedStep
<1>2. helper[o] = "none"
  BY <1>1 DEF FreshInv
<1>3. ~(StartHelper /\ doing = Add(o))
  <2> SUFFICES ASSUME StartHelper, doing = Add(o) PROVE FALSE
    OBVIOUS
  <2>1. doing' = Nothing /\ doing # Nothing /\ o = added
    <3>1. doing \in Adds /\ doing = Add(added) /\ added \in Overlays
      BY DoingCall DEF StartHelper, TypeInv
    <3>2. QED
      BY <3>1, Kinds DEF StartHelper, Done, Return
  <2>2. QED
    BY <1>1, <2>1
<1>4. helper'[o] = "none"
  BY <1>2, <1>3, HelperMovesOn
<1>5. ASSUME o > added' \/ ~Begun(o)' PROVE session'[o] = "none"
  <2>1. ~(CreateSession /\ doing = Add(o) /\ o = added)
    <3> SUFFICES ASSUME CreateSession, doing = Add(o), o = added PROVE FALSE
      OBVIOUS
    <3>1. doing' = doing /\ step' = "created" /\ added' = added
      BY CreateKeeps DEF CreateSession
    <3>2. QED
      BY <1>5, <3>1 DEF Begun, Add
  <2>2. o > added \/ (Awaited(o) /\ ~Begun(o))
    <3>1. CASE o > added'
      BY <3>1, AwaitedStep
    <3>2. CASE ~Begun(o)' /\ Awaited(o) /\ doing = Add(o) /\ doing' = doing
      <4>1. step' = "begin"
        BY <3>2 DEF Begun, Add
      <4>2. doing # Nothing /\ doing # Clear
        BY <3>2, Kinds DEF Adds
      <4>3. step = "begin"
        BY <3>2, <4>1, <4>2
           DEF OverlayNext, overlayVars, trackerVars, MainStep, Connect, Returns, ReleaseMir,
               Quit, MainGoesOn, AddOverlay, Destroy, Call, LoopStep, Callback, CreateSession,
               CreateSessionFails, StartHelper, StartHelperFails, RemoveSession,
               NothingToRemove, HelperStopped, Release, Done, Return, TellTracker, PassOn,
               Released, OfOverlay, MirStops, MirReleases, UrlOverlay, HelperEnds, HelperObeys,
               HelperReported, HelperMoves
      <4>4. QED
        BY <3>2, <4>3 DEF Begun
    <3>3. QED
      BY <1>1, <1>5, <3>1, <3>2 DEF Begun
  <2>3. session[o] = "none"
    BY <2>2 DEF FreshInv
  <2>4. QED
    BY <2>1, <2>3, SessionMoves
<1>6. QED
  BY <1>4, <1>5
-----------------------------------------------------------------------------
(* Once the tracker has been cleared no overlay is left in it and every    *)
(* session is released; before it is connected there is none.              *)
Cleared ==
    \/ main = "clearing" /\ reply # "none"
    \/ main \in {"connect", "mir", "cancel", "quit", "join", "none"}

ClearedInv == Cleared => ongoing = {} /\ \A o \in Overlays : Gone(o)

(* The one way there is the work that the destructor waits for.            *)
LEMMA ClearedEnters ==
    ASSUME TypeInv, OrderInv, CallInv, OverlayNext, ~Cleared, Cleared'
    PROVE  NothingToRemove /\ doing = Clear
<1>1. /\ main \in {"idle", "adding", "clearing"}
      /\ main = "clearing" => reply = "none"
  BY DEF Cleared, TypeInv, TypeOK, OverlayTypeOK, OrderInv
<1>2. ASSUME UNCHANGED <<main, reply>> PROVE FALSE
  BY <1>2 DEF Cleared
<1>3. ASSUME main = "adding", main' = main PROVE FALSE
  BY <1>3 DEF Cleared
<1>4. CASE UNCHANGED overlayVars \/ LoopStep \/ PassOn \/ \E o \in Overlays : OfOverlay(o)
  BY <1>2, <1>4 DEF overlayVars, trackerVars, LoopStep, PassOn, OfOverlay, MirStops, MirReleases,
     UrlOverlay, HelperEnds, HelperObeys, HelperReported, HelperMoves
<1>5. CASE MainStep
  BY <1>1, <1>5 DEF MainStep, Connect, Returns, ReleaseMir, Quit, MainGoesOn, Cleared
<1>6. CASE AddOverlay \/ Destroy
  BY <1>6 DEF AddOverlay, Destroy, Call, Cleared
<1>7. CASE CreateSession \/ StartHelperFails \/ RemoveSession
  BY <1>2, <1>7 DEF CreateSession, StartHelperFails, RemoveSession, Release
<1>8. CASE CreateSessionFails \/ StartHelper
  <2>1. doing \in Adds /\ main' = main
    BY <1>8 DEF CreateSessionFails, StartHelper, Adds, TypeInv
  <2>2. QED
    BY <1>3, <2>1, DoingCall
<1>9. CASE NothingToRemove /\ doing # Clear
  BY <1>2, <1>9 DEF NothingToRemove, Done
<1>10. CASE HelperStopped
  BY <1>2, <1>10 DEF HelperStopped, Release, Done
<1>11. CASE TellTracker
  BY <1>2, <1>11, NeverRefused DEF TellTracker
<1>12. CASE Released
  <2>1. main' = main
    BY <1>12 DEF Released
  <2>2. reply' = reply \/ doing \in Adds
    BY <1>12, Kinds
       DEF Released, Done, Return, TypeInv, TypeOK, OverlayTypeOK, ThreadTypeOK, Sources
  <2>3. QED
    BY <1>2, <1>3, <2>1, <2>2, DoingCall
<1>13. QED
  BY <1>4, <1>5, <1>6, <1>7, <1>8, <1>9, <1>10, <1>11, <1>12 DEF OverlayNext, Callback

LEMMA ClearedStep ==
    ASSUME TypeInv, OrderInv, CallInv, FreshInv, SessionFacts, ClearedInv, OverlayNext
    PROVE  ClearedInv'
<1> SUFFICES ASSUME Cleared' PROVE ongoing' = {} /\ \A o \in Overlays : Gone(o)'
  BY DEF ClearedInv
<1> session \in [Overlays -> {"none", "open", "closing", "asked", "released"}]
  BY DEF TypeInv, TypeOK, OverlayTypeOK
<1>1. CASE Cleared
  <2>1. ongoing = {} /\ \A o \in Overlays : Gone(o)
    BY <1>1 DEF ClearedInv
  <2>2. doing \notin Adds
    BY <1>1, DoingCall DEF Cleared
  <2>3. ongoing' = {}
    BY <2>1, <2>2, OngoingMoves
  <2>4. ASSUME NEW o \in Overlays PROVE Gone(o)'
    <3>1. doing # Add(o)
      BY <2>2 DEF Adds
    <3>2. QED
      BY <2>1, <3>1, SessionMoves DEF Gone
  <2>5. QED
    BY <2>3, <2>4
<1>2. CASE ~Cleared
  <2>1. NothingToRemove /\ doing = Clear
    BY <1>2, ClearedEnters
  <2>2. step = "begin" /\ ongoing = {} /\ ongoing' = ongoing /\ session' = session
    BY <2>1 DEF NothingToRemove, Matches, Clear, mirVars, TypeInv, TypeOK, OverlayTypeOK
  <2>3. ASSUME NEW o \in Overlays PROVE Gone(o)
    BY <2>2 DEF SessionFacts, SessionInv, Releasing, Gone
  <2>4. QED
    BY <2>2, <2>3 DEF Gone
<1>3. QED
  BY <1>1, <1>2

(* No two sessions that are not yet released share an address.             *)
AddressInv == \A o, p \in Overlays : o # p /\ address[o] = address[p] => Gone(o) \/ Gone(p)

LEMMA AddressStep ==
    ASSUME TypeInv, CallInv, FreshInv, SessionFacts, AddressInv, OverlayNext
    PROVE  AddressInv'
<1> SUFFICES ASSUME NEW o \in Overlays, NEW p \in Overlays, o # p, address'[o] = address'[p],
                    ~Gone(o)', ~Gone(p)'
             PROVE  FALSE
  BY DEF AddressInv
<1> DEFINE Created(q) == q = added /\ address'[q] \in Addresses \ Held
           Kept(q)    == address'[q] = address[q] /\ ~Gone(q)
<1>1. \A q \in {o, p} : Created(q) \/ Kept(q)
  <2> SUFFICES ASSUME NEW q \in {o, p} PROVE Created(q) \/ Kept(q)
    OBVIOUS
  <2>1. q \in Overlays /\ session'[q] \notin {"none", "released"}
    BY DEF Gone
  <2>2. QED
    BY <2>1, SessionMoves DEF Gone
<1>2. \A q \in {o, p} : Kept(q) => address[q] \in Held
  BY DEF Held, Gone
<1>3. CASE Kept(o) /\ Kept(p)
  BY <1>3 DEF AddressInv
<1>4. CASE Created(o) \/ Created(p)
  BY <1>1, <1>2, <1>4
<1>5. QED
  BY <1>1, <1>3, <1>4
-----------------------------------------------------------------------------
TrackerInv ==
    /\ TypeInv /\ OrderInv /\ CallInv /\ FreshInv /\ SessionFacts
    /\ HelperInv /\ ClearedInv /\ AddressInv

LEMMA TrackerInit == Init => TrackerInv
<1> SUFFICES ASSUME Init PROVE TrackerInv
  OBVIOUS
<1>1. TypeInv
  BY TypeInvInit
<1>2. Waiting = <<>>
  BY QueueInit DEF Queue!Init, Init, OverlayInit
<1>3. CallInv /\ OrderInv /\ FreshInv
  BY <1>2 DEF Init, OverlayInit, ThreadInit, CallInv, OrderInv, FreshInv, Awaited
<1>4. SessionFacts
  BY DEF Init, OverlayInit, SessionFacts, SessionInv, EventInv, Releasing
<1>5. Signalled = {Nothing} /\ \A o \in Overlays : Stopped(o) # Nothing
  BY WorkOrSignal, SourceAssumption DEF Init, OverlayInit, ThreadInit, Signalled
<1>6. HelperInv
  BY <1>5 DEF Init, OverlayInit, HelperInv, Live
<1>7. ClearedInv /\ AddressInv
  BY DEF Init, OverlayInit, ClearedInv, AddressInv, Gone
<1>8. QED
  BY <1>1, <1>3, <1>4, <1>6, <1>7 DEF TrackerInv

LEMMA TrackerStep == TrackerInv /\ [Next]_vars => TrackerInv'
<1> SUFFICES ASSUME TrackerInv, [Next]_vars PROVE TrackerInv'
  OBVIOUS
<1> USE DEF TrackerInv
<1>1. TypeInv' /\ OverlayNext
  BY TypeInvStep, StepCases
<1>2. OrderInv' /\ CallInv'
  BY <1>1, OrderStep, CallStep
<1>3. FreshInv' /\ SessionFacts'
  BY <1>1, FreshStep, SessionStep
<1>4. HelperInv' /\ ClearedInv' /\ AddressInv'
  BY <1>1, HelperStep, ClearedStep, AddressStep
<1>5. QED
  BY <1>1, <1>2, <1>3, <1>4

LEMMA TrackerHolds == Spec => []TrackerInv
BY TrackerInit, TrackerStep, PTL DEF Spec

(* Nothing is left behind, however many overlays are asked for, whichever  *)
(* half of adding one fails and wherever sessions are allocated: a helper  *)
(* that may run is tracked with its session, and no session is open that   *)
(* the tracker does not know.                                              *)
THEOREM NothingIsStray == Spec => []NothingStray
<1>1. TrackerInv => NothingStray
  <2> SUFFICES ASSUME TrackerInv, NEW o \in Overlays
               PROVE  /\ Live(o) => o \in ongoing
                      /\ session[o] = "open" => o \in ongoing \/ doing = Add(o)
                      /\ o \in ongoing =>
                            /\ session[o] = "open"
                            /\ \A p \in ongoing \ {o} : address[p] # address[o]
    BY DEF NothingStray
  <2>1. Live(o) => o \in ongoing
    BY DEF TrackerInv, HelperInv
  <2>2. session[o] = "open" => o \in ongoing \/ doing = Add(o)
    BY DEF TrackerInv, SessionFacts, SessionInv
  <2>3. \A p \in ongoing : p \in Overlays /\ session[p] = "open"
    BY DEF TrackerInv, SessionFacts, SessionInv, TypeInv, TypeOK, OverlayTypeOK
  <2>4. \A p \in ongoing : ~Gone(p)
    BY <2>3 DEF Gone
  <2>5. QED
    BY <2>1, <2>2, <2>3, <2>4 DEF TrackerInv, AddressInv
<1>2. QED
  BY <1>1, TrackerHolds, PTL

(* The tracker is taken down in order, whenever SIGTERM comes: sessions,   *)
(* connection, thread; so that nobody hands work to a thread that refuses  *)
(* it and the destructor leaves no session to one that runs on.            *)
THEOREM ShutsDownInOrder == Spec => []ShutdownOrder
<1>1. TrackerInv => ShutdownOrder
  <2> SUFFICES ASSUME TrackerInv PROVE ShutdownOrder
    OBVIOUS
  <2>1. mir = "released" => Cleared
    BY DEF TrackerInv, OrderInv, Cleared
  <2>2. cancelled => mir # "up"
    BY DEF TrackerInv, OrderInv
  <2>3. main \in {"mir", "cancel", "quit", "join", "none"} => ongoing = {}
    BY DEF TrackerInv, ClearedInv, Cleared
  <2>4. QED
    BY <2>1, <2>2, <2>3 DEF TrackerInv, OrderInv, ClearedInv, Gone, ShutdownOrder
<1>2. QED
  BY <1>1, TrackerHolds, PTL
-----------------------------------------------------------------------------
(* What the removal of a session goes back to: Mir has stopped one at that *)
(* address. A session that got the address of another came after the other *)
(* was released, so it cannot be older than what is blamed.                *)
Blames(a) == \E p \in ended : address[p] = a

EndedInv ==
    /\ \A o \in Overlays : session[o] = "none" <=> address[o] = NoAddress
    /\ \A o \in ended : session[o] # "none"
    /\ \A o, p \in Overlays :
          o < p /\ address[o] = address[p] /\ session[o] # "none" => session[o] = "released"
    /\ \A k \in DOMAIN events : events[k].kind = "stopped" => events[k].of \in ended
    /\ notice # NoAddress => Blames(notice)
    /\ \A k \in DOMAIN Waiting, a \in Addresses : Waiting[k] = Remove(a) => Blames(a)

LEMMA EndedGrows ==
    ASSUME OverlayNext
    PROVE  /\ ended \subseteq ended'
           /\ \A o \in ended' \ ended : o \in Overlays /\ session[o] \in {"open", "closing"}
BY DEF OverlayNext, overlayVars, mirVars, MainStep, Connect, Returns, ReleaseMir, Quit,
   MainGoesOn, AddOverlay, Destroy, Call, LoopStep, Callback, CreateSession, CreateSessionFails,
   StartHelper, StartHelperFails, RemoveSession, NothingToRemove, HelperStopped, Release,
   TellTracker, PassOn, Released, OfOverlay, MirStops, MirReleases, UrlOverlay, HelperEnds,
   HelperObeys, HelperReported, HelperMoves

LEMMA StoppedEvents ==
    ASSUME TypeInv, OverlayNext, NEW k \in DOMAIN events', events'[k].kind = "stopped"
    PROVE  \/ events'[k].of \in ended'
           \/ \E j \in DOMAIN events : events[j] = events'[k]
<1>1. ASSUME events' = events \/ events' = <<>>
      PROVE  \E j \in DOMAIN events : events[j] = events'[k]
  BY <1>1
<1>2. ASSUME events # <<>>, events' = Tail(events)
      PROVE  \E j \in DOMAIN events : events[j] = events'[k]
  BY <1>2, EventsTail
<1>3. CASE CreateSession
  <2>1. doing.of \in Overlays
    BY <1>3, AddsOf DEF CreateSession, Adds
  <2>2. PICK e \in Event : e.kind = "started" /\ events' = Append(events, e)
    BY <1>3, <2>1, EventsOf DEF CreateSession
  <2>3. QED
    BY <2>2, EventsAppend
<1>4. ASSUME NEW o \in Overlays, MirStops(o) \/ MirReleases(o)
      PROVE  \/ events'[k].of \in ended'
             \/ \E j \in DOMAIN events : events[j] = events'[k]
  <2> DEFINE st == [kind |-> "stopped", of |-> o]
             re == [kind |-> "released", of |-> o]
  <2>1. st \in Event /\ re \in Event /\ st # re /\ st.of = o /\ re.kind # "stopped"
    BY EventsOf
  <2>2. \/ o \in ended' /\ events' = Append(events, st)
        \/ o \in ended' /\ events' = events \o <<st, re>>
        \/ events' = Append(events, re)
    BY <1>4 DEF MirStops, MirReleases
  <2> HIDE DEF st, re
  <2>3. CASE o \in ended' /\ events' = Append(events, st)
    <3>1. (k \in DOMAIN events /\ events'[k] = events[k]) \/ events'[k] = st
      BY <2>1, <2>3, EventsAppend
    <3>2. QED
      BY <2>1, <2>3, <3>1
  <2>4. CASE o \in ended' /\ events' = events \o <<st, re>>
    <3>1. (k \in DOMAIN events /\ events'[k] = events[k]) \/ events'[k] = st \/ events'[k] = re
      BY <2>1, <2>4, EventsAppendTwo
    <3>2. QED
      BY <2>1, <2>4, <3>1
  <2>5. CASE events' = Append(events, re)
    <3>1. (k \in DOMAIN events /\ events'[k] = events[k]) \/ events'[k] = re
      BY <2>1, <2>5, EventsAppend
    <3>2. QED
      BY <2>1, <3>1
  <2>6. QED
    BY <2>2, <2>3, <2>4, <2>5
<1>5. CASE TellTracker \/ Released
  <2>1. events # <<>> /\ events' = Tail(events)
    BY <1>5 DEF TellTracker, SessionStateChanged, Released, NextEvent
  <2>2. QED
    BY <1>2, <2>1
<1>6. CASE \/ UNCHANGED overlayVars \/ MainStep \/ AddOverlay \/ Destroy \/ LoopStep
           \/ CreateSessionFails \/ StartHelper \/ StartHelperFails \/ RemoveSession
           \/ NothingToRemove \/ HelperStopped \/ PassOn
  <2>1. events' = events \/ events' = <<>>
    BY <1>6 DEF overlayVars, mirVars, MainStep, Connect, Returns, ReleaseMir, Quit, MainGoesOn,
       AddOverlay, Destroy, Call, LoopStep, CreateSessionFails, StartHelper, StartHelperFails,
       RemoveSession, NothingToRemove, HelperStopped, Release, PassOn
  <2>2. QED
    BY <1>1, <2>1
<1>7. ASSUME NEW o \in Overlays, OfOverlay(o), ~MirStops(o), ~MirReleases(o)
      PROVE  \E j \in DOMAIN events : events[j] = events'[k]
  BY <1>1, <1>7 DEF OfOverlay, UrlOverlay, HelperEnds, HelperObeys, HelperReported, HelperMoves,
     mirVars
<1>8. QED
  BY <1>3, <1>4, <1>5, <1>6, <1>7 DEF OverlayNext, Callback, OfOverlay

LEMMA RemovesWaiting ==
    ASSUME TypeInv, OverlayNext, NEW a \in Addresses, NEW k \in DOMAIN Waiting',
           Waiting'[k] = Remove(a)
    PROVE  \/ \E j \in DOMAIN Waiting : Waiting[j] = Remove(a)
           \/ notice = a
<1>1. ASSUME UNCHANGED Waiting PROVE \E j \in DOMAIN Waiting : Waiting[j] = Remove(a)
  BY <1>1
<1>2. ASSUME Return PROVE \E j \in DOMAIN Waiting : Waiting[j] = Remove(a)
  <2>1. CASE doing \in Works
    BY <1>2, <2>1, TailFacts
  <2>2. CASE doing \notin Works
    BY <1>1, <1>2, <2>2, ReturnTakes DEF TypeInv
  <2>3. QED
    BY <2>1, <2>2
<1>3. ASSUME NEW w \in Works, Attach(w)
      PROVE  w = Remove(a) \/ \E j \in DOMAIN Waiting : Waiting[j] = Remove(a)
  BY <1>3, AppendFacts
<1>4. CASE AddOverlay \/ Destroy
  <2>1. PICK w \in Adds \cup {Clear} : Attach(w)
    <3>1. CASE AddOverlay
      <4>1. added + 1 \in Overlays
        BY <3>1, NextOverlay DEF AddOverlay, TypeInv, TypeOK, OverlayTypeOK
      <4>2. QED
        BY <3>1, <4>1 DEF AddOverlay, Call, Adds
    <3>2. CASE Destroy
      BY <3>2 DEF Destroy, Call
    <3>3. QED
      BY <1>4, <3>1, <3>2
  <2>2. w \in Works /\ w # Remove(a)
    BY <2>1, Kinds, WorkOrSignal
  <2>3. QED
    BY <1>3, <2>1, <2>2
<1>5. CASE PassOn
  <2>1. notice \in Addresses /\ Attach(Remove(notice))
    BY <1>5 DEF PassOn, TypeInv, TypeOK, OverlayTypeOK
  <2>2. Remove(notice) = Remove(a) => notice = a
    BY DEF Remove
  <2>3. QED
    BY <1>3, <2>1, <2>2, WorkOrSignal
<1>6. CASE LoopStep
  BY <1>1, <1>6, LoopKeeps DEF LoopStep, TypeInv
<1>7. CASE \/ UNCHANGED overlayVars \/ MainStep \/ Callback \/ TellTracker \/ Released
           \/ \E o \in Overlays : OfOverlay(o)
  <2>1. Return \/ UNCHANGED <<works, batch, doing>>
    BY <1>7 DEF overlayVars, MainStep, Connect, Returns, ReleaseMir, Quit, Cancel, QuitLoop,
       MainGoesOn, Callback, CreateSession, CreateSessionFails, StartHelper, StartHelperFails,
       RemoveSession, NothingToRemove, HelperStopped, Done, Release, TellTracker, Released,
       OfOverlay, MirStops, MirReleases, UrlOverlay, HelperEnds, HelperObeys, HelperReported,
       HelperMoves, Signal, threadVars
  <2>2. QED
    BY <1>1, <1>2, <2>1, WaitingSame
<1>8. QED
  BY <1>4, <1>5, <1>6, <1>7 DEF OverlayNext

LEMMA EndedStep ==
    ASSUME TrackerInv, TypeInv', EndedInv, OverlayNext
    PROVE  EndedInv'
<1> USE DEF TrackerInv
<1> /\ session \in [Overlays -> {"none", "open", "closing", "asked", "released"}]
    /\ address \in [Overlays -> Addresses \cup {NoAddress}]
    /\ ended \subseteq Overlays /\ added \in Nat /\ Overlays \subseteq Nat
  BY TrackerAssumption DEF TypeInv, TypeOK, OverlayTypeOK, Overlays
<1>1. \A o \in Overlays : session'[o] = "none" <=> address'[o] = NoAddress
  BY SessionMoves, TrackerAssumption DEF EndedInv
<1>2. \A o \in ended' : session'[o] # "none"
  <2> SUFFICES ASSUME NEW o \in ended' PROVE session'[o] # "none"
    OBVIOUS
  <2>1. o \in Overlays /\ session[o] # "none"
    BY EndedGrows DEF EndedInv
  <2>2. QED
    BY <2>1, SessionMoves
<1>3. ASSUME NEW o \in Overlays, NEW p \in Overlays, o < p, address'[o] = address'[p],
             session'[o] # "none"
      PROVE  session'[o] = "released"
  <2>1. CASE CreateSession /\ o = added
    <3>1. session[p] = "none"
      BY <1>3, <2>1 DEF FreshInv
    <3>2. session'[p] = "none"
      BY <1>3, <2>1, <3>1, SessionMoves
    <3>3. address'[p] = NoAddress /\ address'[o] # NoAddress
      BY <1>1, <1>3, <3>2
    <3>4. QED
      BY <1>3, <3>3
  <2>2. CASE ~(CreateSession /\ o = added)
    <3>1. address'[o] = address[o] /\ session[o] # "none"
      BY <1>3, <2>2, SessionMoves
    <3>2. CASE address'[p] = address[p]
      <4>1. session[o] = "released"
        BY <1>3, <3>1, <3>2 DEF EndedInv
      <4>2. QED
        BY <2>2, <4>1, SessionMoves
    <3>3. CASE address'[p] \in Addresses \ Held
      <4>1. session[o] = "released"
        BY <1>3, <3>1, <3>3 DEF Held
      <4>2. QED
        BY <2>2, <4>1, SessionMoves
    <3>4. QED
      BY <3>2, <3>3, SessionMoves
  <2>3. QED
    BY <2>1, <2>2
<1>4. ASSUME NEW k \in DOMAIN events', events'[k].kind = "stopped" PROVE events'[k].of \in ended'
  <2>1. events'[k].of \in ended' \/ \E j \in DOMAIN events : events[j] = events'[k]
    BY <1>4, StoppedEvents
  <2>2. ASSUME NEW j \in DOMAIN events, events[j] = events'[k] PROVE events'[k].of \in ended'
    <3>1. events[j].kind = "stopped"
      BY <1>4, <2>2
    <3>2. events[j].of \in ended
      BY <3>1 DEF EndedInv
    <3>3. QED
      BY <2>2, <3>2, EndedGrows
  <2>3. QED
    BY <2>1, <2>2
<1>5. ASSUME NEW a \in Addresses, Blames(a) PROVE Blames(a)'
  <2>1. PICK p \in ended : address[p] = a
    BY <1>5 DEF Blames
  <2>2. p \in Overlays /\ session[p] # "none"
    BY <2>1 DEF EndedInv
  <2>3. address'[p] = a /\ p \in ended'
    BY <2>1, <2>2, SessionMoves, EndedGrows
  <2>4. QED
    BY <2>3 DEF Blames
<1>6. ASSUME notice' # NoAddress PROVE Blames(notice)'
  <2>1. notice' \in Addresses
    BY <1>6 DEF TypeInv, TypeOK, OverlayTypeOK
  <2>2. CASE notice' = notice
    BY <1>5, <1>6, <2>1, <2>2 DEF EndedInv, Blames
  <2>3. CASE notice' # notice
    <3>1. /\ events # <<>> /\ Head(events).kind = "stopped" /\ events' = Tail(events)
          /\ notice' = address[Head(events).of]
      BY <1>6, <2>3
         DEF OverlayNext, overlayVars, mirVars, MainStep, Connect, Returns, ReleaseMir, Quit,
             MainGoesOn, AddOverlay, Destroy, Call, LoopStep, Callback, CreateSession,
             CreateSessionFails, StartHelper, StartHelperFails, RemoveSession, NothingToRemove,
             HelperStopped, Release, TellTracker, SessionStateChanged, NextEvent, PassOn,
             Released, OfOverlay, MirStops, MirReleases, UrlOverlay, HelperEnds, HelperObeys,
             HelperReported, HelperMoves
    <3>2. Head(events).of \in ended
      BY <3>1, EventsTail DEF EndedInv
    <3>3. Blames(notice')
      BY <3>1, <3>2 DEF Blames
    <3>4. PICK p \in ended : address[p] = notice'
      BY <3>1, <3>2
    <3>5. p \in Overlays /\ session[p] # "none"
      BY <3>4 DEF EndedInv
    <3>6. address'[p] = notice' /\ p \in ended'
      BY <3>4, <3>5, SessionMoves, EndedGrows
    <3>7. QED
      BY <3>6 DEF Blames
  <2>4. QED
    BY <2>2, <2>3
<1>7. ASSUME NEW k \in DOMAIN Waiting', NEW a \in Addresses, Waiting'[k] = Remove(a)
      PROVE  Blames(a)'
  <2>1. Blames(a)
    BY <1>7, RemovesWaiting, TrackerAssumption DEF EndedInv
  <2>2. QED
    BY <1>5, <2>1
<1>8. QED
  BY <1>1, <1>2, <1>3, <1>4, <1>6, <1>7 DEF EndedInv, Remove

LEMMA EndedInit == Init => EndedInv
<1> SUFFICES ASSUME Init PROVE EndedInv
  OBVIOUS
<1>1. Waiting = <<>>
  BY QueueInit DEF Queue!Init, Init, OverlayInit
<1>2. QED
  BY <1>1 DEF Init, OverlayInit, EndedInv

LEMMA EndedHolds == Spec => [](TrackerInv /\ EndedInv)
<1>1. TrackerInv /\ EndedInv /\ [Next]_vars => EndedInv'
  BY StepCases, TypeInvStep, EndedStep DEF TrackerInv
<1>2. QED
  BY <1>1, TrackerInit, TrackerStep, EndedInit, PTL DEF Spec

(* Before the tracker is destroyed no helper is stopped whose session Mir  *)
(* has not stopped, unless it got the address of one that Mir has, however *)
(* late the news of that comes and however often addresses are reused.     *)
THEOREM StopsOnlyWhatEnded == Spec => StopsOnlyEnded
<1>1. TrackerInv /\ EndedInv /\ [Next]_vars =>
         [\A o \in Overlays :
             Live(o) /\ helper'[o] = "stopping" /\ main # "clearing"
                => \E p \in ended : p <= o /\ address[p] = address[o]]_overlayVars
  <2> SUFFICES ASSUME TrackerInv, EndedInv, [Next]_vars, NEW o \in Overlays, Live(o),
                      helper'[o] = "stopping", main # "clearing"
               PROVE  \E p \in ended : p <= o /\ address[p] = address[o]
    OBVIOUS
  <2> USE DEF TrackerInv
  <2>1. OverlayNext
    BY StepCases
  <2>2. RemoveSession /\ o \in Matches(doing)
    BY <2>1, HelperMovesOn DEF Live
  <2>3. PICK a \in Addresses : doing = Remove(a)
    BY <2>2, DoingCall DEF RemoveSession
  <2>4. address[o] = a /\ o \in ongoing
    BY <2>2, <2>3 DEF Matches, Remove
  <2>5. 1 \in DOMAIN Waiting /\ Waiting[1] = Remove(a)
    BY <2>3, WorkOrSignal, DoingFirst, LenProperties, EmptySeq DEF TypeInv
  <2>6. PICK p \in ended : address[p] = a
    BY <2>5 DEF EndedInv, Blames
  <2>7. session[o] = "open" /\ p \in Overlays /\ o \in Nat /\ p \in Nat
    BY <2>4, TrackerAssumption
       DEF SessionFacts, SessionInv, TypeInv, TypeOK, OverlayTypeOK, Overlays
  <2>8. ~(o < p)
    BY <2>4, <2>6, <2>7 DEF EndedInv
  <2>9. QED
    BY <2>4, <2>6, <2>7, <2>8
<1>2. QED
  BY <1>1, EndedHolds, PTL DEF StopsOnlyEnded, Spec
=============================================================================
