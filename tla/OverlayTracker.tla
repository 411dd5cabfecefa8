---------------------------- MODULE OverlayTracker ----------------------------
(***************************************************************************)
(* service/overlay-tracker-mir.cpp: overlays are helper processes that run *)
(* on top of an application, each within a prompt session of Mir. The      *)
(* tracker's thread has a session created for every overlay, starts the    *)
(* helper, and ends the one when the other ends. The service's main loop   *)
(* calls it and waits; Mir's thread tells it of sessions, ubuntu-app-      *)
(* launch of helpers.                                                      *)
(***************************************************************************)
EXTENDS ContextThread, Naturals, FiniteSets

CONSTANTS
    MaxOverlays,    \* bound: how many overlays are asked for
    Addresses,      \* where a session may be allocated
    NoAddress,
    MirUp           \* whether Mir can be connected to

Overlays == 1..MaxOverlays

Add(o)     == [do |-> "add", of |-> o]
Remove(a)  == [do |-> "remove", of |-> a]
Clear      == [do |-> "clear", of |-> NoAddress]
Stopped(o) == [do |-> "stopped", of |-> o]

TrackerWorks   == {Add(o) : o \in Overlays} \cup {Remove(a) : a \in Addresses} \cup {Clear}
TrackerSignals == {Stopped(o) : o \in Overlays}

ASSUME TrackerAssumption ==
    /\ MaxOverlays \in Nat
    /\ NoAddress \notin Addresses
    /\ Works = TrackerWorks /\ Signals = TrackerSignals

VARIABLES
    \* the tracker and who calls it
    main,       \* where the main loop's thread stands in the tracker's functions
    added,      \* overlays asked for so far
    reply,      \* what the thread has replied to the call that waits
    ongoing,    \* ongoingSessions
    step,       \* how far the thread is with what it is doing
    \* Mir
    mir,        \* the connection
    session,    \* session[o]: the session of overlay o ...
    address,    \* ... and the pointer to it
    ended,      \* overlays whose session Mir has stopped
    events,     \* what Mir's thread has yet to tell, the oldest first
    notice,     \* the pointer its callback is about to pass on
    \* ubuntu-app-launch
    helper      \* helper[o]: the process of overlay o

trackerVars == <<main, added, reply, ongoing, step>>
mirVars     == <<mir, session, address, ended, events, notice>>
overlayVars == <<threadVars, trackerVars, mirVars, helper>>

Event == [kind : {"started", "stopped", "released"}, of : Overlays]

OverlayTypeOK ==
    /\ ThreadTypeOK
    /\ main \in {"connect", "idle", "adding", "clearing", "mir", "cancel", "quit", "join",
                 "none", "terminated"}
    /\ added \in 0..MaxOverlays
    /\ reply \in {"none", "yes", "no"}
    /\ ongoing \subseteq Overlays
    /\ step \in {"begin", "created", "release"}
    /\ mir \in {"none", "up", "released"}
    /\ session \in [Overlays -> {"none", "open", "closing", "asked", "released"}]
    /\ address \in [Overlays -> Addresses \cup {NoAddress}]
    /\ ended \subseteq Overlays
    /\ events \in Seq(Event)
    /\ notice \in Addresses \cup {NoAddress}
    /\ helper \in [Overlays -> {"none", "preparing", "running", "stopping", "ended",
                                "reported"}]

OverlayInit ==
    /\ ThreadInit
    /\ main = "connect"
    /\ added = 0
    /\ reply = "none"
    /\ ongoing = {}
    /\ step = "begin"
    /\ mir = "none"
    /\ session = [o \in Overlays |-> "none"]
    /\ address = [o \in Overlays |-> NoAddress]
    /\ ended = {}
    /\ events = <<>>
    /\ notice = NoAddress
    /\ helper = [o \in Overlays |-> "none"]
-----------------------------------------------------------------------------
(* The thread of the main loop. The constructor waits for the tracker's    *)
(* thread and connects to Mir; without Mir it throws, which destroys the   *)
(* thread again.                                                           *)
Connect ==
    /\ main = "connect"
    /\ thread # "starting"
    /\ IF MirUp THEN main' = "idle" /\ mir' = "up"
                ELSE main' = "cancel" /\ UNCHANGED mir
    /\ UNCHANGED <<threadVars, added, reply, ongoing, step, session, address, ended, events,
                   notice, helper>>

(* addOverlay and the destructor hand the thread work and wait for it. The *)
(* check of executeOnThread and the attachment are one step here: only     *)
(* this thread cancels.                                                    *)
Call(w, waiting) ==
    /\ main = "idle"
    /\ ~cancelled
    /\ main' = waiting
    /\ reply' = "none"
    /\ Attach(w)
    /\ UNCHANGED <<ongoing, step, mirVars, helper>>

AddOverlay ==
    /\ added < MaxOverlays
    /\ added' = added + 1
    /\ Call(Add(added'), "adding")

Destroy == Call(Clear, "clearing") /\ UNCHANGED added

Returns ==
    /\ main \in {"adding", "clearing"}
    /\ reply # "none"
    /\ main' = IF main = "adding" THEN "idle" ELSE "mir"
    /\ UNCHANGED <<threadVars, added, reply, ongoing, step, mirVars, helper>>

MainGoesOn(from, to) ==
    /\ main = from
    /\ main' = to
    /\ UNCHANGED <<added, reply, ongoing, step, session, address, ended, notice, helper>>

(* mir_connection_release waits for Mir's thread.                          *)
ReleaseMir ==
    /\ MainGoesOn("mir", "cancel")
    /\ notice = NoAddress
    /\ mir' = "released"
    /\ events' = <<>>
    /\ UNCHANGED threadVars

(* What would go wrong: the thread ends first, the connection after it.    *)
QuitBeforeMir ==
    /\ \/ MainGoesOn("mir", "quit") /\ Cancel
       \/ MainGoesOn("quit", "join") /\ QuitLoop
       \/ MainGoesOn("join", "none") /\ Joined /\ UNCHANGED threadVars
    /\ UNCHANGED <<mir, events>>

(* ~ContextThread *)
Quit ==
    /\ \/ MainGoesOn("cancel", "quit") /\ Cancel
       \/ MainGoesOn("quit", "join") /\ QuitLoop
       \/ MainGoesOn("join", "none") /\ Joined /\ UNCHANGED threadVars
    /\ UNCHANGED <<mir, events>>

MainStep == Connect \/ Returns \/ ReleaseMir \/ Quit
-----------------------------------------------------------------------------
(* The tracker's thread, in the callback of a source.                      *)
Held == {address[o] : o \in {p \in Overlays : session[p] \notin {"none", "released"}}}

(* The lambda of addOverlay. A session's memory may have been another's.   *)
CreateSession ==
    /\ doing \in {Add(o) : o \in Overlays}
    /\ step = "begin"
    /\ \E a \in Addresses \ Held :
          /\ session' = [session EXCEPT ![doing.of] = "open"]
          /\ address' = [address EXCEPT ![doing.of] = a]
    /\ events' = Append(events, [kind |-> "started", of |-> doing.of])
    /\ step' = "created"
    /\ UNCHANGED <<threadVars, main, added, reply, ongoing, mir, ended, notice, helper>>

Done(r) == Return /\ step' = "begin" /\ reply' = r

CreateSessionFails ==
    /\ doing \in {Add(o) : o \in Overlays}
    /\ step = "begin"
    /\ Done("no")
    /\ UNCHANGED <<main, added, ongoing, mirVars, helper>>

StartHelper ==
    /\ step = "created"
    /\ helper' = [helper EXCEPT ![doing.of] = "preparing"]
    /\ ongoing' = ongoing \cup {doing.of}
    /\ Done("yes")
    /\ UNCHANGED <<main, added, mirVars>>

(* The last pointer to a session is gone: mir_prompt_session_release_sync. *)
Release(o) ==
    /\ session' = [session EXCEPT ![o] = "closing"]
    /\ step' = "release"
    /\ UNCHANGED <<threadVars, main, added, reply, mir, address, ended, events, notice>>

(* What would go wrong: nothing releases the session of such an overlay.   *)
StartHelperLeaks ==
    /\ step = "created"
    /\ Done("no")
    /\ UNCHANGED <<main, added, ongoing, mirVars, helper>>

StartHelperFails ==
    /\ step = "created"
    /\ Release(doing.of)
    /\ UNCHANGED <<ongoing, helper>>

(* What would go wrong: sessions are told apart by application only.       *)
MatchesAny(w) == ongoing

Matches(w) == {o \in ongoing : w.do = "clear" \/ (w.do = "remove" /\ address[o] = w.of)}

StopHelper(o) ==
    helper' = [helper EXCEPT ![o] = IF @ \in {"preparing", "running"} THEN "stopping" ELSE @]

(* What would go wrong: the helper goes on without its session.            *)
RemoveSessionOnly ==
    /\ doing \in {Remove(a) : a \in Addresses} \cup {Clear}
    /\ step = "begin"
    /\ \E o \in Matches(doing) : ongoing' = ongoing \ {o} /\ Release(o)
    /\ UNCHANGED helper

(* removeSession, for a session Mir has stopped or for all of them.        *)
RemoveSession ==
    /\ doing \in {Remove(a) : a \in Addresses} \cup {Clear}
    /\ step = "begin"
    /\ \E o \in Matches(doing) :
          /\ StopHelper(o)
          /\ ongoing' = ongoing \ {o}
          /\ Release(o)

NothingToRemove ==
    /\ doing \in {Remove(a) : a \in Addresses} \cup {Clear}
    /\ step = "begin"
    /\ Matches(doing) = {}
    /\ Done(IF doing = Clear THEN "yes" ELSE reply)
    /\ UNCHANGED <<main, added, ongoing, mirVars, helper>>

(* What would go wrong: the session of a helper that ended stays.          *)
HelperStoppedKeeps ==
    /\ doing \in TrackerSignals
    /\ step = "begin"
    /\ Done(reply)
    /\ UNCHANGED <<main, added, ongoing, mirVars, helper>>

(* untrustedHelperStopped. In the destructor the set it searches is        *)
(* destroyed before the thread is joined. That is formally undefined; but  *)
(* the destructor's body has emptied it by then (ShutdownOrder), and       *)
(* destroying an empty std::set frees nothing and leaves its header as it  *)
(* was, so that the search finds nothing, as here in an empty set.         *)
HelperStopped ==
    /\ doing \in TrackerSignals
    /\ step = "begin"
    /\ IF doing.of \in ongoing
       THEN Release(doing.of)
       ELSE Done(reply) /\ UNCHANGED <<main, added, mirVars>>
    /\ ongoing' = ongoing \ {doing.of}
    /\ UNCHANGED helper

Callback ==
    \/ CreateSession \/ CreateSessionFails \/ StartHelper \/ StartHelperFails
    \/ RemoveSession \/ NothingToRemove \/ HelperStopped

LoopStep == Loop /\ UNCHANGED <<trackerVars, mirVars, helper>>
-----------------------------------------------------------------------------
(* Mir. It may stop a session, and stops it at the latest when it is asked *)
(* to release it, with or without an event of its own.                     *)
MirStops(o) ==
    /\ mir = "up"
    /\ session[o] = "open"
    /\ o \notin ended
    /\ ended' = ended \cup {o}
    /\ events' = Append(events, [kind |-> "stopped", of |-> o])
    /\ UNCHANGED <<threadVars, trackerVars, mir, session, address, notice, helper>>

MirReleases(o) ==
    /\ session[o] = "closing"
    /\ session' = [session EXCEPT ![o] = "asked"]
    /\ \/ /\ o \notin ended
          /\ ended' = ended \cup {o}
          /\ events' = events \o <<[kind |-> "stopped", of |-> o], [kind |-> "released", of |-> o]>>
       \/ /\ events' = Append(events, [kind |-> "released", of |-> o])
          /\ UNCHANGED ended
    /\ UNCHANGED <<threadVars, trackerVars, mir, address, notice, helper>>

(* Mir's thread. sessionStateChanged cares about the stopped state only    *)
(* and passes the pointer on; executeOnThread throws if the tracker's      *)
(* thread is cancelled, which nobody would catch.                          *)
NextEvent(kind) ==
    /\ mir = "up"
    /\ notice = NoAddress
    /\ events # <<>>
    /\ Head(events).kind = kind
    /\ events' = Tail(events)

SessionStateChanged ==
    \/ /\ NextEvent("started")
       /\ UNCHANGED <<main, notice>>
    \/ /\ NextEvent("stopped")
       /\ IF cancelled
          THEN main' = "terminated" /\ UNCHANGED notice
          ELSE notice' = address[Head(events).of] /\ UNCHANGED main

TellTracker ==
    /\ SessionStateChanged
    /\ UNCHANGED <<threadVars, added, reply, ongoing, step, mir, session, address, ended, helper>>

PassOn ==
    /\ notice # NoAddress
    /\ Attach(Remove(notice))
    /\ notice' = NoAddress
    /\ UNCHANGED <<trackerVars, mir, session, address, ended, events, helper>>

(* What would go wrong: a call that fails is not answered.                 *)
ReleasedSilently ==
    /\ NextEvent("released")
    /\ session' = [session EXCEPT ![Head(events).of] = "released"]
    /\ IF doing = Clear THEN step' = "begin" /\ UNCHANGED <<threadVars, reply>> ELSE Done(reply)
    /\ UNCHANGED <<main, added, ongoing, mir, address, ended, notice, helper>>

(* The session is released, which the tracker's thread waited for.         *)
Released ==
    /\ NextEvent("released")
    /\ session' = [session EXCEPT ![Head(events).of] = "released"]
    /\ IF doing = Clear
       THEN step' = "begin" /\ UNCHANGED <<threadVars, reply>>
       ELSE Done(IF doing.do = "add" THEN "no" ELSE reply)
    /\ UNCHANGED <<main, added, ongoing, mir, address, ended, notice, helper>>

MirStep == TellTracker \/ PassOn \/ Released \/ \E o \in Overlays : MirReleases(o)
-----------------------------------------------------------------------------
(* The helper. url-overlay runs first and names the program, unless it     *)
(* finds no overlay of that name, no bus or no Upstart; a job that fails   *)
(* or ends, or is told to, stops.                                          *)
HelperMoves(o, from, to) ==
    /\ helper[o] = from
    /\ helper' = [helper EXCEPT ![o] = to]
    /\ UNCHANGED <<trackerVars, mirVars>>

UrlOverlay(o) ==
    /\ \E outcome \in {"running", "ended"} : HelperMoves(o, "preparing", outcome)
    /\ UNCHANGED threadVars

HelperEnds(o)  == HelperMoves(o, "running", "ended") /\ UNCHANGED threadVars
HelperObeys(o) == HelperMoves(o, "stopping", "ended") /\ UNCHANGED threadVars

HelperReported(o) ==
    /\ HelperMoves(o, "ended", "reported")
    /\ IF Listening THEN Signal(Stopped(o)) ELSE UNCHANGED threadVars

LaunchStep(o) == UrlOverlay(o) \/ HelperObeys(o) \/ HelperReported(o)
-----------------------------------------------------------------------------
Live(o) == helper[o] \in {"preparing", "running"}

(* Nothing is left behind. Who is told that its overlay was added has it   *)
(* tracked or it has ended since. A helper that may run and a session that *)
(* is open belong together and to the tracker, also if half of adding one  *)
(* failed; and every tracked session is there, so that no pointer dangles. *)
NothingStray ==
    \A o \in Overlays :
       /\ Live(o) => o \in ongoing
       /\ session[o] = "open" => o \in ongoing \/ doing = Add(o)
       /\ o \in ongoing =>
             /\ session[o] = "open"
             /\ \A p \in ongoing \ {o} : address[p] # address[o]

(* "Enforce a shutdown order, sessions before connection", and after both  *)
(* the thread: Mir goes with no session open, its thread never meets a     *)
(* thread that refuses work, and the thread, which runs until it is        *)
(* joined, finds no session any more in what is by then destroyed.         *)
ShutdownOrder ==
    /\ mir = "released" => \A o \in Overlays : session[o] \in {"none", "released"}
    /\ cancelled => mir # "up"
    /\ main \in {"mir", "cancel", "quit", "join", "none"} => ongoing = {}
    /\ main # "terminated"

(* Before the tracker is destroyed, a helper is only told to stop if Mir   *)
(* has stopped its session, or one whose memory its session got.           *)
StopsOnlyEnded ==
    [][\A o \in Overlays :
          Live(o) /\ helper'[o] = "stopping" /\ main # "clearing"
             => \E p \in ended : p <= o /\ address[p] = address[o]]_overlayVars

(* Who adds an overlay gets an answer: the main loop is never stuck.       *)
AddReturns == main = "adding" ~> main = "idle"

(* The session of a helper that has ended is released ...                  *)
SessionFollows == \A o \in Overlays : helper[o] = "reported" ~> session[o] = "released"

(* ... and the helper of a session that Mir has stopped ends.              *)
HelperFollows == \A o \in Overlays : o \in ended ~> ~Live(o)

(* "Joining here because we want to ensure that the final afterLoop()      *)
(* function is run before returning": it does return.                      *)
QuitReturns == main = "join" ~> main = "none"
=============================================================================
