--------------------------- MODULE MCUpdateNested ---------------------------
(* Two updaters on two directories, the name of one a prefix of the name   *)
(* of the other, as that of a directory below it is.                       *)
EXTENDS UpdateDirectory

CONSTANTS a, b, urls, extra, system, hook, http, intent, host, none

MC_Files == {a, b}
MC_Dirs  == {urls, extra}
MC_Jobs  == {system, hook}

MC_DirOf    == [f \in MC_Files |-> IF f = a THEN urls ELSE extra]
MC_Under    == [d \in MC_Dirs |-> IF d = urls THEN {a, b} ELSE {b}]
MC_Parent   == [d \in MC_Dirs |-> IF d = extra THEN urls ELSE NoDir]
MC_JobDir   == [j \in MC_Jobs |-> IF j = system THEN urls ELSE extra]
MC_JobSlash == [j \in MC_Jobs |-> FALSE]

MC_Protocols == {http, intent}
MC_Suffixes  == {none, host}
MC_Urls      == [protocol : MC_Protocols, suffix : MC_Suffixes]
MC_Contents  == {<<[object |-> TRUE, protocol |-> http, suffix |-> host]>>}
=============================================================================
