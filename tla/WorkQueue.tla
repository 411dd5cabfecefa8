------------------------------ MODULE WorkQueue ------------------------------
(***************************************************************************)
(* What a GLib::ContextThread promises to those who hand it work: it is    *)
(* done in the order it came, one piece after the other, each once, until  *)
(* the thread stops. What waits then is never done.                        *)
(***************************************************************************)
EXTENDS Sequences

CONSTANT Works

VARIABLES
    waiting,    \* work accepted and not yet done, the oldest first
    working     \* whether the thread still works

vars == <<waiting, working>>

Init == waiting = <<>> /\ working = TRUE

Accept ==
    /\ \E w \in Works : waiting' = Append(waiting, w)
    /\ UNCHANGED working

Perform ==
    /\ working
    /\ waiting # <<>>
    /\ waiting' = Tail(waiting)
    /\ UNCHANGED working

Stop ==
    /\ working' = FALSE
    /\ UNCHANGED waiting

Next == Accept \/ Perform \/ Stop

Spec == Init /\ [][Next]_vars
=============================================================================
