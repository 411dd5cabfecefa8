---------------------------- MODULE MCUpdateOne ----------------------------
(* One updater and two files in one directory below another.               *)
EXTENDS UpdateDirectory

CONSTANTS a, b, usr, urls, system, http, intent, host, none

MC_Files  == {a, b}
MC_Dirs   == {usr, urls}
MC_Jobs   == {system}

MC_DirOf    == [f \in MC_Files |-> urls]
MC_Under    == [d \in MC_Dirs |-> MC_Files]
MC_Parent   == [d \in MC_Dirs |-> IF d = urls THEN usr ELSE NoDir]
MC_JobDir   == [j \in MC_Jobs |-> urls]
MC_JobSlash == [j \in MC_Jobs |-> FALSE]

MC_Protocols == {http, intent}
MC_Suffixes  == {none, host}
MC_Urls      == [protocol : MC_Protocols, suffix : MC_Suffixes]

(* Two things a file may hold: one URL; another URL and an intent without  *)
(* its package, which is passed over.                                      *)
MC_Contents ==
    {<<[object |-> TRUE, protocol |-> http, suffix |-> host]>>,
     <<[object |-> TRUE, protocol |-> http, suffix |-> Null],
       [object |-> TRUE, protocol |-> intent, suffix |-> Null]>>}

(* The prefix search of url_db_files_for_dir is exact in this layout.      *)
ASSUME MC_PrefixExact == PrefixExact

(* Its jobs read different directories.                                    *)
ASSUME MC_JobsApart == JobsApart
=============================================================================
