------------------------------- MODULE UrlDb -------------------------------
(***************************************************************************)
(* The URL database of service/url-db.c: the two SQLite tables of          *)
(* service/create-db.sql and, for each SQL statement the code issues, what *)
(* that statement does to them. A database is a value here; the modules    *)
(* that use it own the variable that holds it.                             *)
(*                                                                         *)
(*   db.files  the table configfiles: one row per .url-dispatcher file,    *)
(*             with the rowid SQLite gives it, its name and the            *)
(*             modification time it was last read at;                      *)
(*   db.urls   the table urls: one row per URL, naming by rowid the        *)
(*             configuration file that declares it.                        *)
(*                                                                         *)
(* The field by of a URL row is history: the name of the file whose        *)
(* contents made the code insert the row. The table does not hold it.      *)
(***************************************************************************)
EXTENDS Naturals

CONSTANTS
    Files,   \* names of the .url-dispatcher files
    Urls,    \* the protocol and domain-suffix pairs a file can declare
    RowIds   \* the rowids SQLite may give a row of configfiles

ASSUME RowIdsAssumption == RowIds \subseteq Nat \ {0}

FileRow == [id : RowIds, name : Files, time : Nat]
UrlRow  == [src : RowIds, url : Urls, by : Files]
Db      == [files : SUBSET FileRow, urls : SUBSET UrlRow]

(* create-db.sql on a cache that does not exist yet.                       *)
EmptyDb == [files |-> {}, urls |-> {}]

RowsOf(db, f) == {r \in db.files : r.name = f}
IdsOf(db, f)  == {r.id : r \in RowsOf(db, f)}
Names(db)     == {r.name : r \in db.files}

(* The rowid of a new row: one more than the largest in the table, or 1    *)
(* when the table is empty (the table is not declared AUTOINCREMENT). The  *)
(* row that "insert or replace" is about to replace still counts.          *)
IsNextRowId(db, n) ==
    /\ \A r \in db.files : r.id < n
    /\ n = 1 \/ \E r \in db.files : n = r.id + 1

(* What would go wrong: the row of f is updated in place and keeps its id. *)
TouchFileTime(db, n, f, t) ==
    [db EXCEPT !.files =
        (@ \ RowsOf(db, f))
          \cup {[id |-> i, name |-> f, time |-> t] :
                   i \in IF RowsOf(db, f) = {} THEN {n} ELSE IdsOf(db, f)}]

(* insert or replace into configfiles values (f, t). The name is unique,   *)
(* so the old row of f goes and the new one has another rowid, n.          *)
SetFileTime(db, n, f, t) ==
    [db EXCEPT !.files = (@ \ RowsOf(db, f))
                           \cup {[id |-> n, name |-> f, time |-> t]}]

(* insert or replace into urls select rowid, u from configfiles where      *)
(* name = f: nothing is inserted when f has no row.                        *)
InsertUrl(db, f, u) ==
    [db EXCEPT !.urls = {x \in @ : ~(x.src \in IdsOf(db, f) /\ x.url = u)}
                          \cup {[src |-> i, url |-> u, by |-> f] : i \in IdsOf(db, f)}]

(* The two deletes of url_db_remove_file.                                  *)
DeleteUrls(db, f) == [db EXCEPT !.urls = {x \in @ : x.src \notin IdsOf(db, f)}]
DeleteFile(db, f) == [db EXCEPT !.files = @ \ RowsOf(db, f)]

(* The URLs a lookup can answer f for: the join of url_db_find_url.        *)
Registered(db, f) == {x.url : x \in {y \in db.urls : y.src \in IdsOf(db, f)}}
=============================================================================
