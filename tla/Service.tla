------------------------------- MODULE Service -------------------------------
(***************************************************************************)
(* service/service.c: the life of the service process around the overlay   *)
(* tracker and the dispatcher. It starts the tracker, connects to the bus, *)
(* runs its main loop until SIGTERM or the loss of its name, and cleans    *)
(* up. What dispatcher.c does with a call is in Dispatcher; here a call    *)
(* matters if it adds an overlay.                                          *)
(***************************************************************************)
EXTENDS OverlayTracker

VARIABLES
    phase,      \* where main() stands
    bus,        \* whether the interface is exported and the name asked for
    term,       \* whether SIGTERM has come
    quitting    \* whether the main loop has been quit

serviceVars == <<phase, bus, term, quitting>>
vars        == <<overlayVars, serviceVars>>

TypeOK ==
    /\ OverlayTypeOK
    /\ phase \in {"new", "loop", "shutdown", "delete", "exited", "failed", "aborted"}
    /\ bus \in BOOLEAN
    /\ term \in BOOLEAN
    /\ quitting \in BOOLEAN

Init ==
    /\ OverlayInit
    /\ phase = "new"
    /\ bus = FALSE
    /\ term = FALSE
    /\ quitting = FALSE

Over  == phase \in {"exited", "failed", "aborted"}
Alive == ~Over /\ main # "terminated"

(* Between two callbacks of the main loop. The tracker may be NULL.        *)
InLoop == phase = "loop" /\ main \in {"idle", "none"}

Goto(where) == phase' = where /\ UNCHANGED <<overlayVars, bus, term, quitting>>
-----------------------------------------------------------------------------
(* overlay_tracker_new has returned; dispatcher_init gives up without a    *)
(* database.                                                               *)
DispatcherInit ==
    /\ phase = "new"
    /\ main \in {"idle", "none"}
    /\ \E where \in {"loop", "failed"} : Goto(where)

(* Without a session bus or with the path taken, g_error aborts.           *)
BusGot ==
    /\ InLoop
    /\ ~bus
    /\ bus' = TRUE
    /\ UNCHANGED <<overlayVars, phase, term, quitting>>

BusFails ==
    /\ InLoop
    /\ ~bus
    /\ Goto("aborted")

NameLost ==
    /\ InLoop
    /\ bus
    /\ ~quitting
    /\ quitting' = TRUE
    /\ UNCHANGED <<overlayVars, phase, bus, term>>

(* SIGTERM may come at any time; its source waits for the main loop.       *)
Sigterm ==
    /\ ~term
    /\ term' = TRUE
    /\ UNCHANGED <<overlayVars, phase, bus, quitting>>

SigTerm ==
    /\ InLoop
    /\ term
    /\ ~quitting
    /\ quitting' = TRUE
    /\ UNCHANGED <<overlayVars, phase, bus, term>>

(* dispatcher_send_to_overlay, also in the iteration that quit the loop.   *)
SendToOverlay ==
    /\ InLoop
    /\ bus
    /\ AddOverlay
    /\ UNCHANGED serviceVars

LoopReturns ==
    /\ InLoop
    /\ quitting
    /\ Goto("shutdown")

(* dispatcher_shutdown, then overlay_tracker_delete.                       *)
TrackerDelete ==
    /\ phase = "shutdown"
    /\ phase' = "delete"
    /\ IF main = "idle" THEN Destroy ELSE UNCHANGED overlayVars
    /\ UNCHANGED <<bus, term, quitting>>

(* What would go wrong: the process exits without the clean-up.            *)
ExitAtOnce ==
    /\ phase = "delete"
    /\ Goto("exited")

Exit ==
    /\ phase = "delete"
    /\ main = "none"
    /\ Goto("exited")
-----------------------------------------------------------------------------
MainThread ==
    \/ DispatcherInit \/ BusGot \/ SigTerm \/ LoopReturns \/ TrackerDelete \/ Exit
    \/ MainStep /\ UNCHANGED serviceVars

TrackerThread == (LoopStep \/ Callback) /\ UNCHANGED serviceVars
MirThread     == MirStep /\ UNCHANGED serviceVars

(* What other processes do needs nobody alive here.                        *)
Around ==
    \/ Sigterm
    \/ \E o \in Overlays : (MirStops(o) \/ HelperEnds(o)) /\ UNCHANGED serviceVars

Launch(o) == LaunchStep(o) /\ UNCHANGED serviceVars

Next ==
    \/ /\ Alive
       /\ MainThread \/ TrackerThread \/ MirThread \/ SendToOverlay \/ BusFails \/ NameLost
    \/ Around
    \/ \E o \in Overlays : Launch(o)

Spec == Init /\ [][Next]_vars

(* Every thread goes on, Mir answers, ubuntu-app-launch stops helpers that *)
(* it is told to stop and reports it. Whether helpers end by themselves    *)
(* and Mir stops sessions is open, as is SIGTERM.                          *)
Fairness ==
    /\ WF_vars(Alive /\ MainThread)
    /\ WF_vars(Alive /\ TrackerThread)
    /\ WF_vars(Alive /\ MirThread)
    /\ \A o \in Overlays : WF_vars(Launch(o))

FairSpec == Spec /\ Fairness
-----------------------------------------------------------------------------
(* SIGTERM, at whatever moment it comes, and the loss of the name end the  *)
(* service, and no overlay runs on after it.                               *)
ServiceExits == term \/ quitting ~> Over /\ \A o \in Overlays : ~Live(o)
=============================================================================
