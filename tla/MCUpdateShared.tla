--------------------------- MODULE MCUpdateShared ---------------------------
(* The deployment of data/*.in with two of its updaters: the system job on *)
(* /usr/share/url-dispatcher/urls, named without a trailing slash, and the *)
(* click hook on a directory of the user, named with one. No directory's   *)
(* name is a prefix of a file's name in another.                           *)
EXTENDS UpdateDirectory

CONSTANTS a, b, usr, urls, click, system, hook, http, intent, host, none

MC_Files  == {a, b}
MC_Dirs   == {usr, urls, click}
MC_Jobs   == {system, hook}

MC_DirOf    == [f \in MC_Files |-> IF f = a THEN urls ELSE click]
MC_Under    == [d \in MC_Dirs |-> IF d = click THEN {b} ELSE {a}]
MC_Parent   == [d \in MC_Dirs |-> IF d = urls THEN usr ELSE NoDir]
MC_JobDir   == [j \in MC_Jobs |-> IF j = system THEN urls ELSE click]
MC_JobSlash == [j \in MC_Jobs |-> j = hook]

MC_Protocols == {http, intent}
MC_Suffixes  == {none, host}
MC_Urls      == [protocol : MC_Protocols, suffix : MC_Suffixes]
MC_Contents  == {<<[object |-> TRUE, protocol |-> http, suffix |-> host]>>}

(* The prefix search of url_db_files_for_dir is exact in this layout.      *)
ASSUME MC_PrefixExact == PrefixExact

(* Its jobs read different directories.                                    *)
ASSUME MC_JobsApart == JobsApart

(* Of the history variables the properties of update_shared read gone      *)
(* only, and no guard reads any: states that differ in the others need not *)
(* be told apart.                                                          *)
MC_View == <<fsVars, dbVars, jobVars, gone>>
=============================================================================
