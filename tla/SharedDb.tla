------------------------------ MODULE SharedDb ------------------------------
(***************************************************************************)
(* What the updaters together do to the URL database, as everyone who      *)
(* reads it sees it: each step is one statement of service/url-db.c, or    *)
(* the whole of a removal. UpdateDirectory implements it; Dispatcher reads *)
(* a database that changes like this under it.                             *)
(***************************************************************************)
EXTENDS UrlDb

CONSTANT Times   \* modification times

VARIABLE db

Init == db = EmptyDb

(* A file is about to be read: it gets a new row.                          *)
NoteFile(f) ==
    \E n \in RowIds, t \in Times :
       /\ IsNextRowId(db, n)
       /\ db' = SetFileTime(db, n, f, t)

(* One of its URLs is registered.                                          *)
DeclareUrl(f) == \E u \in Urls : db' = InsertUrl(db, f, u)

(* It goes, with the URLs registered since it was last read.               *)
RemoveFile(f) == db' = DeleteFile(DeleteUrls(db, f), f)

Next == \E f \in Files : NoteFile(f) \/ DeclareUrl(f) \/ RemoveFile(f)

Spec == Init /\ [][Next]_db
=============================================================================
