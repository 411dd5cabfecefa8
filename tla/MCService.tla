------------------------------ MODULE MCService ------------------------------
(***************************************************************************)
(* Instances of Service: what may be attached to the tracker's thread and  *)
(* what may come to it are all it knows of.                                *)
(***************************************************************************)
EXTENDS Service

MC_Works ==
    {[do |-> "add", of |-> o] : o \in 1..MaxOverlays}
       \cup {[do |-> "remove", of |-> a] : a \in Addresses}
       \cup {[do |-> "clear", of |-> NoAddress]}

MC_Signals == {[do |-> "stopped", of |-> o] : o \in 1..MaxOverlays}
=============================================================================
