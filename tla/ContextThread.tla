---------------------------- MODULE ContextThread ----------------------------
(***************************************************************************)
(* GLib::ContextThread (service/glib-thread.{h,cpp}): a thread with a main *)
(* context and a main loop of its own. Other threads attach work to the    *)
(* context as idle sources; signals of the D-Bus come to it as sources of  *)
(* a higher priority. Its owner ends it with quit: cancel, quit the loop,  *)
(* join. Timeouts (timeout, timeoutSeconds) are never used in the program. *)
(***************************************************************************)
EXTENDS Sequences

CONSTANTS
    Works,      \* what other threads may attach
    Signals,    \* what the D-Bus may bring
    Nothing     \* no source

ASSUME SourceAssumption == Works \cap Signals = {} /\ Nothing \notin Works \cup Signals

VARIABLES
    thread,     \* where the thread stands in its function
    cancelled,  \* the cancellable
    running,    \* whether the loop is to go on: GMainLoop's is_running
    works,      \* idle sources attached, the oldest first
    signals,    \* signal sources attached
    batch,      \* sources this iteration of the loop has yet to dispatch
    doing       \* the source whose callback runs

threadVars == <<thread, cancelled, running, works, signals, batch, doing>>

Sources == Works \cup Signals

ThreadTypeOK ==
    /\ thread \in {"starting", "ready", "entering", "looping", "leaving", "ended"}
    /\ cancelled \in BOOLEAN
    /\ running \in BOOLEAN
    /\ works \in Seq(Works)
    /\ signals \in Seq(Signals)
    /\ batch \in Seq(Works) \cup Seq(Signals)
    /\ doing \in Sources \cup {Nothing}

ThreadInit ==
    /\ thread = "starting"
    /\ cancelled = FALSE
    /\ running = FALSE
    /\ works = <<>>
    /\ signals = <<>>
    /\ batch = <<>>
    /\ doing = Nothing
-----------------------------------------------------------------------------
(* The thread's function. beforeLoop starts to listen to signals and the   *)
(* promise lets the constructor continue.                                  *)
BeforeLoop ==
    /\ thread = "starting"
    /\ thread' = "ready"
    /\ UNCHANGED <<cancelled, running, works, signals, batch, doing>>

CheckCancelled ==
    /\ thread = "ready"
    /\ thread' = IF cancelled THEN "leaving" ELSE "entering"
    /\ UNCHANGED <<cancelled, running, works, signals, batch, doing>>

(* g_main_loop_run sets the flag that g_main_loop_quit clears.             *)
RunLoop ==
    /\ thread = "entering"
    /\ thread' = "looping"
    /\ running' = TRUE
    /\ UNCHANGED <<cancelled, works, signals, batch, doing>>

AtRest == thread = "looping" /\ batch = <<>> /\ doing = Nothing

(* An iteration takes the sources of the highest priority that are ready   *)
(* and dispatches them all, even if the loop is quit meanwhile.            *)
Gather ==
    /\ AtRest
    /\ running
    /\ \/ /\ signals # <<>>
          /\ batch' = signals
          /\ signals' = <<>>
          /\ UNCHANGED works
       \/ /\ signals = <<>> /\ works # <<>>
          /\ batch' = works
          /\ works' = <<>>
          /\ UNCHANGED signals
    /\ UNCHANGED <<thread, cancelled, running, doing>>

Dispatch ==
    /\ thread = "looping"
    /\ doing = Nothing
    /\ batch # <<>>
    /\ doing' = Head(batch)
    /\ batch' = Tail(batch)
    /\ UNCHANGED <<thread, cancelled, running, works, signals>>

(* What would go wrong: the source of some work is not removed.            *)
ReturnContinue ==
    /\ doing # Nothing
    /\ doing' = Nothing
    /\ works' = IF doing \in Works THEN Append(works, doing) ELSE works
    /\ UNCHANGED <<thread, cancelled, running, signals, batch>>

(* The callback of the source returns, with G_SOURCE_REMOVE.               *)
Return ==
    /\ doing # Nothing
    /\ doing' = Nothing
    /\ UNCHANGED <<thread, cancelled, running, works, signals, batch>>

LeaveLoop ==
    /\ AtRest
    /\ ~running
    /\ thread' = "leaving"
    /\ UNCHANGED <<cancelled, running, works, signals, batch, doing>>

(* afterLoop stops to listen. What is still attached is never dispatched.  *)
AfterLoop ==
    /\ thread = "leaving"
    /\ thread' = "ended"
    /\ signals' = <<>>
    /\ UNCHANGED <<cancelled, running, works, batch, doing>>
-----------------------------------------------------------------------------
(* What would go wrong: work has the priority of signals.                  *)
AttachUrgent(w) ==
    /\ signals' = Append(signals, w)
    /\ UNCHANGED <<thread, cancelled, running, works, batch, doing>>

(* The other threads. executeOnThread first checks that the thread is not  *)
(* cancelled, and attaches the work later.                                 *)
Attach(w) ==
    /\ works' = Append(works, w)
    /\ UNCHANGED <<thread, cancelled, running, signals, batch, doing>>

Listening == thread \notin {"starting", "ended"}

Signal(s) ==
    /\ Listening
    /\ signals' = Append(signals, s)
    /\ UNCHANGED <<thread, cancelled, running, works, batch, doing>>

(* quit, in its three steps.                                               *)
Cancel ==
    /\ cancelled' = TRUE
    /\ UNCHANGED <<thread, running, works, signals, batch, doing>>

QuitLoop ==
    /\ running' = FALSE
    /\ UNCHANGED <<thread, cancelled, works, signals, batch, doing>>

Joined == thread = "ended"
-----------------------------------------------------------------------------
Loop == BeforeLoop \/ CheckCancelled \/ RunLoop \/ Gather \/ Dispatch \/ LeaveLoop \/ AfterLoop

ThreadNext ==
    \/ Loop
    \/ Return
    \/ \E w \in Works : Attach(w)
    \/ \E s \in Signals : Signal(s)
    \/ Cancel
    \/ QuitLoop

ThreadSpec == ThreadInit /\ [][ThreadNext]_threadVars
-----------------------------------------------------------------------------
(* Work is done in the order it was handed over, once each, one piece at a *)
(* time, whatever threads attach it and whenever the loop is quit.         *)
OnlyWorks(s) == IF s \in Seq(Works) THEN s ELSE <<>>

Waiting == (IF doing \in Works THEN <<doing>> ELSE <<>>) \o OnlyWorks(batch) \o works

Queue == INSTANCE WorkQueue WITH waiting <- Waiting, working <- thread # "ended"

ImplementsWorkQueue == Queue!Spec
=============================================================================
