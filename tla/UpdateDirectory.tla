--------------------------- MODULE UpdateDirectory ---------------------------
(***************************************************************************)
(* service/update-directory.c: the program that brings the URL database in *)
(* line with a directory of .url-dispatcher files. Several of them may run *)
(* at once, each on its own directory: the Upstart jobs for the system and *)
(* the user directory and the click hook (data/*.in). They share one       *)
(* SQLite database and nothing else, and the files change under them.      *)
(*                                                                         *)
(* Every SQL statement and every look at the file system is one step. A    *)
(* write outside a transaction takes effect at once; url_db_remove_file    *)
(* runs in a transaction, which holds SQLite's one write lock from its     *)
(* first delete to its commit. No busy timeout is set, so a write that     *)
(* finds the lock taken fails.                                             *)
(***************************************************************************)
EXTENDS UrlDb, Sequences

CONSTANTS
    Dirs,       \* directories
    Jobs,       \* the callers of update-directory; each runs one at a time
    DirOf,      \* DirOf[f]: the directory file f lies in
    Under,      \* Under[d]: the files whose name is LIKE d followed by anything
    Parent,     \* Parent[d]: the directory above d, NoDir at the top
    JobDir,     \* JobDir[j]: the argument of job j ...
    JobSlash,   \* JobSlash[j]: ... and whether it ends in a slash
    Contents,   \* what a file can hold: sequences of array entries
    Protocols, Suffixes, Intent, NoSuffix, Null,
    NoDir, NoFile, NoJob,
    MaxEdits,   \* bound: how often the file system changes
    Crashes,    \* whether a running job can be killed
    Errors,     \* whether a statement can fail on its own: an I/O error, a full disk,
                \* another's write at the very same instant
    LookErrors, \* whether a look at the file system (stat, opendir, readdir, read) can
                \* fail although there is something to see
    OldTimes    \* whether a written file can bear a time not newer than its last

(* An entry of the JSON array of a file: whether it is an object, and its  *)
(* members "protocol" and "domain-suffix", Null if missing.                *)
Entry == [object : BOOLEAN, protocol : Protocols \cup {Null},
          suffix : Suffixes \cup {Null}]

FilesIn(d) == {f \in Files : DirOf[f] = d}

ASSUME LayoutAssumption ==
    /\ DirOf \in [Files -> Dirs]
    /\ Under \in [Dirs -> SUBSET Files]
    /\ \A f \in Files : f \in Under[DirOf[f]]
    /\ \A f \in Files : Parent[DirOf[f]] # NoDir => f \in Under[Parent[DirOf[f]]]
    /\ Parent \in [Dirs -> Dirs \cup {NoDir}]
    /\ JobDir \in [Jobs -> Dirs]
    /\ JobSlash \in [Jobs -> BOOLEAN]
    /\ NoDir \notin Dirs /\ NoFile \notin Files /\ NoJob \notin Jobs

ASSUME ContentsAssumption ==
    /\ Contents \subseteq Seq(Entry)
    /\ NoSuffix \in Suffixes
    /\ Urls = [protocol : Protocols, suffix : Suffixes]
    /\ Null \notin Protocols \cup Suffixes

ASSUME BoundAssumption ==
    /\ MaxEdits \in Nat
    /\ {Crashes, Errors, LookErrors, OldTimes} \subseteq BOOLEAN

VARIABLES
    \* the file system
    disk,       \* disk[f]: the file f, or Missing
    dirs,       \* the directories that exist
    edits,      \* how often it has changed: also the clock of its times
    \* the database
    db,         \* what every process reads: the committed rows
    writer,     \* the job whose transaction holds the write lock, or NoJob
    txn,        \* the rows as that transaction sees them
    \* the jobs: where main() stands, and its locals
    pc,
    dir,        \* dirname
    starting,   \* startingdb
    todo,       \* names g_dir_read_name has still to return
    cur,        \* the file being worked on
    filetime,   \* its modification time, as read
    entries,    \* its array entries each_url has still to see
    \* history
    touched,    \* touched[j]: the file system changed while j runs
    gone,       \* gone[j]: files missing at some moment of j's run
    loaded,     \* loaded[f]: URLs in the contents last parsed for f's row
    dropped     \* whether a row has ever been removed from configfiles

fsVars   == <<disk, dirs, edits>>
dbVars   == <<db, writer, txn>>
jobVars  == <<pc, dir, starting, todo, cur, filetime, entries>>
histVars == <<touched, gone, loaded, dropped>>
vars     == <<fsVars, dbVars, jobVars, histVars>>

Missing == [time |-> 0, content |-> <<>>]
OnDisk  == {f \in Files : disk[f] # Missing}

Phases == {"idle", "resolve", "list", "opendir", "scan", "check", "stamp",
           "load", "insert", "remove", "delfile", "commit", "close"}

TypeOK ==
    /\ disk \in [Files -> [time : Nat, content : Contents \cup {<<>>}]]
    /\ dirs \subseteq Dirs
    /\ edits \in Nat
    /\ db \in Db
    /\ writer \in Jobs \cup {NoJob}
    /\ txn \in Db
    /\ pc \in [Jobs -> Phases]
    /\ dir \in [Jobs -> Dirs \cup {NoDir}]
    /\ starting \in [Jobs -> SUBSET Files]
    /\ todo \in [Jobs -> SUBSET Files]
    /\ cur \in [Jobs -> Files \cup {NoFile}]
    /\ filetime \in [Jobs -> Nat]
    /\ entries \in [Jobs -> Seq(Entry)]
    /\ touched \in [Jobs -> BOOLEAN]
    /\ gone \in [Jobs -> SUBSET Files]
    /\ loaded \in [Files -> SUBSET Urls]
    /\ dropped \in BOOLEAN

Init ==
    /\ disk = [f \in Files |-> Missing]
    /\ dirs = Dirs
    /\ edits = 0
    /\ db = EmptyDb
    /\ writer = NoJob
    /\ txn = EmptyDb
    /\ pc = [j \in Jobs |-> "idle"]
    /\ dir = [j \in Jobs |-> NoDir]
    /\ starting = [j \in Jobs |-> {}]
    /\ todo = [j \in Jobs |-> {}]
    /\ cur = [j \in Jobs |-> NoFile]
    /\ filetime = [j \in Jobs |-> 0]
    /\ entries = [j \in Jobs |-> <<>>]
    /\ touched = [j \in Jobs |-> FALSE]
    /\ gone = [j \in Jobs |-> {}]
    /\ loaded = [f \in Files |-> {}]
    /\ dropped = FALSE
-----------------------------------------------------------------------------
(* Contents: which entries each_url hands to url_db_insert_url, and as     *)
(* which URL.                                                              *)
Accepted(e) ==
    /\ e.object
    /\ e.protocol # Null
    /\ e.protocol = Intent => e.suffix # Null

NullSuffix(e) == [protocol |-> e.protocol, suffix |-> e.suffix]

UrlOf(e) == [protocol |-> e.protocol,
             suffix   |-> IF e.suffix = Null THEN NoSuffix ELSE e.suffix]

Declared(c) == {UrlOf(c[i]) : i \in {k \in DOMAIN c : Accepted(c[k])}}

(* The file system. Each change takes a tick of the clock, edits. With     *)
(* OldTimes a file may be written twice in the same second or be put back  *)
(* with an older time, as package tools do.                                *)
Edit ==
    /\ edits < MaxEdits
    /\ edits' = edits + 1
    /\ touched' = [j \in Jobs |-> pc[j] # "idle"]
    /\ UNCHANGED <<dbVars, jobVars, loaded, dropped>>

WriteFile(f) ==
    /\ Edit
    /\ \E c \in Contents, t \in 1..(edits + 1) :
          /\ OldTimes \/ t = edits + 1
          /\ disk' = [disk EXCEPT ![f] = [time |-> t, content |-> c]]
    /\ dirs' = dirs \cup ({DirOf[f], Parent[DirOf[f]]} \ {NoDir})
    /\ UNCHANGED gone

Lose(S) ==
    /\ disk' = [f \in Files |-> IF f \in S THEN Missing ELSE disk[f]]
    /\ gone' = [j \in Jobs |-> IF pc[j] = "idle" THEN {} ELSE gone[j] \cup S]

UnlinkFile(f) ==
    /\ Edit
    /\ f \in OnDisk
    /\ Lose({f})
    /\ UNCHANGED dirs

RemoveDir(d) ==
    /\ Edit
    /\ d \in dirs
    /\ \A e \in dirs : Parent[e] # d
    /\ Lose(FilesIn(d))
    /\ dirs' = dirs \ {d}
-----------------------------------------------------------------------------
(* The write lock. A job can write unless another's transaction holds the  *)
(* lock; then the statement fails with SQLITE_BUSY.                        *)
CanWrite(j) == writer \in {NoJob, j}
MayFail(j)  == Errors \/ ~CanWrite(j)

Goto(j, phase) == pc' = [pc EXCEPT ![j] = phase]

(* The end of the process, however it comes: its locals are gone, and      *)
(* SQLite rolls back the transaction it may have had open.                 *)
Exit(j) ==
    /\ Goto(j, "idle")
    /\ dir' = [dir EXCEPT ![j] = NoDir]
    /\ starting' = [starting EXCEPT ![j] = {}]
    /\ todo' = [todo EXCEPT ![j] = {}]
    /\ cur' = [cur EXCEPT ![j] = NoFile]
    /\ filetime' = [filetime EXCEPT ![j] = 0]
    /\ entries' = [entries EXCEPT ![j] = <<>>]
    /\ touched' = [touched EXCEPT ![j] = FALSE]
    /\ gone' = [gone EXCEPT ![j] = {}]
    /\ IF writer = j THEN writer' = NoJob /\ txn' = EmptyDb
                     ELSE UNCHANGED <<writer, txn>>
    /\ UNCHANGED <<fsVars, db, loaded, dropped>>

(* main() starts and opens the database. If that fails it returns at once  *)
(* and nothing has happened.                                               *)
Start(j) ==
    /\ pc[j] = "idle"
    /\ Goto(j, "resolve")
    /\ touched' = [touched EXCEPT ![j] = FALSE]
    /\ gone' = [gone EXCEPT ![j] = Files \ OnDisk]
    /\ UNCHANGED <<fsVars, dbVars, dir, starting, todo, cur, filetime, entries,
                   loaded, dropped>>

(* g_file_test says of d that it is no directory: there is none, or the    *)
(* look has failed.                                                        *)
MissesDir(d) == d \notin dirs \/ LookErrors

(* An argument that is no directory and has no trailing slash may be the   *)
(* name of a file: its parent is taken, if that is a directory.            *)
Resolve(j) ==
    /\ pc[j] = "resolve"
    /\ Goto(j, "list")
    /\ LET d == JobDir[j] IN
          \/ /\ d \in dirs \/ JobSlash[j] \/ MissesDir(Parent[d])
             /\ dir' = [dir EXCEPT ![j] = d]
          \/ /\ MissesDir(d) /\ ~JobSlash[j] /\ Parent[d] \in dirs
             /\ dir' = [dir EXCEPT ![j] = Parent[d]]
    /\ UNCHANGED <<fsVars, dbVars, starting, todo, cur, filetime, entries, histVars>>

(* url_db_files_for_dir: the files of the database below the directory. A  *)
(* failed select gives an empty list.                                      *)
List(j) ==
    /\ pc[j] = "list"
    /\ Goto(j, "opendir")
    /\ \/ starting' = [starting EXCEPT ![j] = Names(db) \cap Under[dir[j]]]
       \/ Errors /\ UNCHANGED starting
    /\ UNCHANGED <<fsVars, dbVars, dir, todo, cur, filetime, entries, histVars>>

(* What would go wrong: nothing is removed when the directory is gone.     *)
StopWithoutDir(j) ==
    /\ pc[j] = "opendir"
    /\ \/ /\ dir[j] \in dirs
          /\ todo' = [todo EXCEPT ![j] = FilesIn(dir[j]) \cap OnDisk]
          /\ Goto(j, "scan")
       \/ /\ MissesDir(dir[j])
          /\ Goto(j, "close")
          /\ UNCHANGED todo
    /\ UNCHANGED <<fsVars, dbVars, dir, starting, cur, filetime, entries, histVars>>

(* g_dir_open: the names in the directory. A directory that is not there,  *)
(* or is not seen, is passed over, and the removal comes next; one that    *)
(* cannot be opened ends the run.                                          *)
OpenDir(j) ==
    /\ pc[j] = "opendir"
    /\ \/ /\ dir[j] \in dirs
          /\ todo' = [todo EXCEPT ![j] = FilesIn(dir[j]) \cap OnDisk]
          /\ Goto(j, "scan")
       \/ /\ MissesDir(dir[j])
          /\ Goto(j, "remove")
          /\ UNCHANGED todo
    /\ UNCHANGED <<fsVars, dbVars, dir, starting, cur, filetime, entries, histVars>>

OpenDirFails(j) ==
    /\ pc[j] = "opendir"
    /\ dir[j] \in dirs
    /\ LookErrors
    /\ Exit(j)
-----------------------------------------------------------------------------
(* The loop over the names. check_file_outofdate first asks the file's     *)
(* modification time: 0 when the file has vanished since it was listed, or *)
(* when it cannot be asked.                                                *)
Scan(j) ==
    /\ pc[j] = "scan"
    /\ \E f \in todo[j] :
          /\ cur' = [cur EXCEPT ![j] = f]
          /\ todo' = [todo EXCEPT ![j] = @ \ {f}]
          /\ \/ filetime' = [filetime EXCEPT ![j] = disk[f].time]
             \/ LookErrors /\ filetime' = [filetime EXCEPT ![j] = Missing.time]
    /\ Goto(j, "check")
    /\ UNCHANGED <<fsVars, dbVars, dir, starting, entries, histVars>>

(* g_dir_read_name gives no further name: there is none, or readdir has    *)
(* failed, which it does not tell apart.                                   *)
ScanDone(j) ==
    /\ pc[j] = "scan"
    /\ todo[j] = {} \/ LookErrors
    /\ todo' = [todo EXCEPT ![j] = {}]
    /\ Goto(j, "remove")
    /\ UNCHANGED <<fsVars, dbVars, dir, starting, cur, filetime, entries, histVars>>

(* What would go wrong: the name stays in startingdb.                      *)
KeepName(j) ==
    /\ cur' = [cur EXCEPT ![j] = NoFile]
    /\ filetime' = [filetime EXCEPT ![j] = 0]
    /\ Goto(j, "scan")
    /\ UNCHANGED starting

(* The tail of the loop body: the name is crossed off startingdb.          *)
NextName(j) ==
    /\ starting' = [starting EXCEPT ![j] = @ \ {cur[j]}]
    /\ cur' = [cur EXCEPT ![j] = NoFile]
    /\ filetime' = [filetime EXCEPT ![j] = 0]
    /\ Goto(j, "scan")

OlderThanRow(j) == \E r \in RowsOf(db, cur[j]) : filetime[j] >= r.time

UpToDate(j) == \E r \in RowsOf(db, cur[j]) : filetime[j] <= r.time

CheckCurrent(j) ==
    /\ pc[j] = "check"
    /\ UpToDate(j)
    /\ NextName(j)
    /\ UNCHANGED <<fsVars, dbVars, dir, todo, entries, histVars>>

CheckOutOfDate(j) ==
    /\ pc[j] = "check"
    /\ ~UpToDate(j) \/ Errors
    /\ Goto(j, "stamp")
    /\ UNCHANGED <<fsVars, dbVars, dir, starting, todo, cur, filetime, entries, histVars>>

(* url_db_set_file_motification_time, before the file is even opened.      *)
Stamp(j) ==
    /\ pc[j] = "stamp"
    /\ CanWrite(j)
    /\ \E n \in RowIds :
          /\ IsNextRowId(db, n)
          /\ db' = SetFileTime(db, n, cur[j], filetime[j])
    /\ loaded' = [loaded EXCEPT ![cur[j]] = {}]
    /\ Goto(j, "load")
    /\ UNCHANGED <<fsVars, writer, txn, dir, starting, todo, cur, filetime, entries,
                   touched, gone, dropped>>

StampFails(j) ==
    /\ pc[j] = "stamp"
    /\ MayFail(j)
    /\ NextName(j)
    /\ UNCHANGED <<fsVars, dbVars, dir, todo, entries, histVars>>

(* insert_urls_from_file: what cannot be read or parsed, or is no array,   *)
(* has no entries.                                                         *)
Load(j) ==
    /\ pc[j] = "load"
    /\ \E c \in {disk[cur[j]].content, Missing.content} :
          /\ c = disk[cur[j]].content \/ LookErrors
          /\ entries' = [entries EXCEPT ![j] = c]
          /\ loaded' = [loaded EXCEPT ![cur[j]] = Declared(c)]
    /\ Goto(j, "insert")
    /\ UNCHANGED <<fsVars, dbVars, dir, starting, todo, cur, filetime, touched, gone,
                   dropped>>

(* each_url on the next entry: one that is not accepted is passed over,    *)
(* and so is one whose insert fails, after a report.                       *)
NextEntry(j) ==
    /\ pc[j] = "insert"
    /\ entries[j] # <<>>
    /\ entries' = [entries EXCEPT ![j] = Tail(@)]
    /\ UNCHANGED <<fsVars, writer, txn, pc, dir, starting, todo, cur, filetime, histVars>>

InsertEntry(j) ==
    /\ NextEntry(j)
    /\ Accepted(Head(entries[j]))
    /\ CanWrite(j)
    /\ db' = InsertUrl(db, cur[j], UrlOf(Head(entries[j])))

SkipEntry(j) ==
    /\ NextEntry(j)
    /\ ~Accepted(Head(entries[j])) \/ MayFail(j)
    /\ UNCHANGED db

InsertDone(j) ==
    /\ pc[j] = "insert"
    /\ entries[j] = <<>>
    /\ NextName(j)
    /\ UNCHANGED <<fsVars, dbVars, dir, todo, entries, histVars>>
-----------------------------------------------------------------------------
(* What would go wrong: no transaction is begun, and SQLite commits each   *)
(* of the two deletes by itself.                                           *)
RemoveAutocommits(j) ==
    /\ pc[j] = "remove"
    /\ CanWrite(j)
    /\ \E f \in starting[j] :
          IF DeleteUrls(db, f) # db
          THEN db' = DeleteUrls(db, f) /\ UNCHANGED <<starting, dropped>>
          ELSE /\ db' = DeleteFile(db, f)
               /\ starting' = [starting EXCEPT ![j] = @ \ {f}]
               /\ dropped' = (dropped \/ f \in Names(db))
    /\ UNCHANGED <<fsVars, writer, txn, pc, dir, todo, cur, filetime, entries,
                   touched, gone, loaded>>

(* What would go wrong: the file's row goes first, and its rowid with it.  *)
RemoveRowFirst(j) ==
    /\ pc[j] = "remove"
    /\ CanWrite(j)
    /\ \E f \in starting[j] :
          /\ cur' = [cur EXCEPT ![j] = f]
          /\ txn' = DeleteUrls(DeleteFile(db, f), f)
    /\ writer' = j
    /\ Goto(j, "delfile")
    /\ UNCHANGED <<fsVars, db, dir, starting, todo, filetime, entries, histVars>>

(* The removal of what is left of startingdb, one file at a time:          *)
(* url_db_remove_file. Its begin takes no lock; its first delete does.     *)
RemoveUrls(j) ==
    /\ pc[j] = "remove"
    /\ CanWrite(j)
    /\ \E f \in starting[j] :
          /\ cur' = [cur EXCEPT ![j] = f]
          /\ txn' = DeleteUrls(db, f)
    /\ writer' = j
    /\ Goto(j, "delfile")
    /\ UNCHANGED <<fsVars, db, dir, starting, todo, filetime, entries, histVars>>

RemoveUrlsFails(j) ==
    /\ pc[j] = "remove"
    /\ MayFail(j)
    /\ \E f \in starting[j] : starting' = [starting EXCEPT ![j] = @ \ {f}]
    /\ UNCHANGED <<fsVars, dbVars, pc, dir, todo, cur, filetime, entries, histVars>>

RemoveFile(j) ==
    /\ pc[j] = "delfile"
    /\ txn' = DeleteFile(txn, cur[j])
    /\ Goto(j, "commit")
    /\ UNCHANGED <<fsVars, db, writer, dir, starting, todo, cur, filetime, entries, histVars>>

(* What would go wrong: the transaction is left open.                      *)
LeaveTransaction(j) ==
    /\ starting' = [starting EXCEPT ![j] = @ \ {cur[j]}]
    /\ cur' = [cur EXCEPT ![j] = NoFile]
    /\ Goto(j, "remove")
    /\ UNCHANGED <<fsVars, writer, txn, dir, todo, filetime, entries, touched, gone, loaded>>

EndTransaction(j) ==
    /\ writer' = NoJob
    /\ txn' = EmptyDb
    /\ starting' = [starting EXCEPT ![j] = @ \ {cur[j]}]
    /\ cur' = [cur EXCEPT ![j] = NoFile]
    /\ Goto(j, "remove")
    /\ UNCHANGED <<fsVars, dir, todo, filetime, entries, touched, gone, loaded>>

Commit(j) ==
    /\ pc[j] = "commit"
    /\ db' = txn
    /\ dropped' = (dropped \/ txn.files # db.files)
    /\ EndTransaction(j)

(* What would go wrong: a failure returns without the rollback.            *)
ReturnEarly(j) ==
    /\ pc[j] \in {"delfile", "commit"}
    /\ Errors
    /\ LeaveTransaction(j)
    /\ UNCHANGED <<db, dropped>>

(* The label rollback. When the failed statement made SQLite roll back     *)
(* already, the statement "rollback" fails too, with the same outcome.     *)
Rollback(j) ==
    /\ pc[j] \in {"delfile", "commit"}
    /\ Errors
    /\ EndTransaction(j)
    /\ UNCHANGED <<db, dropped>>

RemoveDone(j) ==
    /\ pc[j] = "remove"
    /\ starting[j] = {}
    /\ Goto(j, "close")
    /\ UNCHANGED <<fsVars, dbVars, dir, starting, todo, cur, filetime, entries, histVars>>

(* "Directory '%s' is up-to-date", and the process ends.                   *)
Close(j) == pc[j] = "close" /\ Exit(j)

Crash(j) == Crashes /\ pc[j] # "idle" /\ Exit(j)
-----------------------------------------------------------------------------
JobStep(j) ==
    \/ Resolve(j) \/ List(j) \/ OpenDir(j) \/ OpenDirFails(j)
    \/ Scan(j) \/ ScanDone(j) \/ CheckCurrent(j) \/ CheckOutOfDate(j)
    \/ Stamp(j) \/ StampFails(j) \/ Load(j)
    \/ InsertEntry(j) \/ SkipEntry(j) \/ InsertDone(j)
    \/ RemoveUrls(j) \/ RemoveUrlsFails(j) \/ RemoveFile(j) \/ Commit(j) \/ Rollback(j)
    \/ RemoveDone(j) \/ Close(j)

Next ==
    \/ \E f \in Files : WriteFile(f) \/ UnlinkFile(f)
    \/ \E d \in Dirs : RemoveDir(d)
    \/ \E j \in Jobs : Start(j) \/ JobStep(j) \/ Crash(j)

Spec == Init /\ [][Next]_vars

(* A started process runs to its end (the operating system schedules it),  *)
(* and every job is started again and again (each session's start emits    *)
(* the events both Upstart jobs start on).                                 *)
Fairness == \A j \in Jobs : WF_vars(JobStep(j)) /\ WF_vars(Start(j))

FairSpec == Spec /\ Fairness
-----------------------------------------------------------------------------
(* The write lock is held exactly by the job inside url_db_remove_file's   *)
(* transaction: every way out of it, failure and death included, lets go   *)
(* of it, so that no other job is locked out for good.                     *)
NoDanglingTransaction ==
    \A j \in Jobs : writer = j <=> pc[j] \in {"delfile", "commit"}

(* A layout in which the prefix search of url_db_files_for_dir finds a     *)
(* directory's own files only. When a job turns to the directory above its *)
(* own, its own is gone, and the files in it too.                          *)
PrefixExact ==
    \A j \in Jobs :
       LET d == JobDir[j] IN
          /\ Under[d] \subseteq FilesIn(d)
          /\ ~JobSlash[j] /\ Parent[d] # NoDir
               => Under[Parent[d]] \subseteq FilesIn(d) \cup FilesIn(Parent[d])

(* A layout in which no two jobs ever read the same directory.             *)
ReadBy(j) == {JobDir[j]} \cup (IF JobSlash[j] THEN {} ELSE {Parent[JobDir[j]]} \ {NoDir})

JobsApart == \A j, k \in Jobs : j # k => ReadBy(j) \cap ReadBy(k) = {}

(* "Remove deleted files": a file leaves the database only through the     *)
(* commit of a job during whose run the file was missing from the disk.    *)
RemovesOnlyDeleted ==
    [][\A f \in Names(db) \ Names(db)' :
          \E j \in Jobs : pc[j] = "commit" /\ cur[j] = f /\ f \in gone[j]]_vars

(* A removal is all or nothing, and costs nobody else's rows: in every     *)
(* step a file that keeps its row keeps the URLs registered for it, and    *)
(* one that loses its row loses it and them at once, from the database as  *)
(* it stands at that step and not as it stood when the removal began.      *)
RemoveIsAtomic ==
    [][\A f \in Names(db) :
          IF f \in Names(db')
          THEN RowsOf(db', f) = RowsOf(db, f) => Registered(db, f) \subseteq Registered(db', f)
          ELSE db' = DeleteFile(DeleteUrls(db, f), f)]_vars

(* To whoever reads the database, any number of updaters, failing and      *)
(* dying as they may, are one that notes a file, declares a URL or removes *)
(* a file at a time: a transaction that others' writes overlap, or that is *)
(* rolled back half-way, is never seen.                                    *)
Shared == INSTANCE SharedDb WITH Times <- 0..MaxEdits

ImplementsSharedDb == Shared!Spec

(* Reading a file again replaces what it declared before: no lookup        *)
(* answers f for a URL that is not in the contents last read for it. This  *)
(* rests on the new rowid a file gets with each new time, and it is true   *)
(* only until a row is removed, for from then on rowids can come back, and *)
(* only while the jobs are apart: one that is still inserting what it read *)
(* would add that to the new row that another has given the file.          *)
NoSupersededUrls ==
    ~dropped => \A f \in Files : Registered(db, f) \subseteq loaded[f]

(* "Remove a file from the database along with all URLs that were built    *)
(* because of it": once f is gone no lookup is answered from such a URL.   *)
RemovedUrlsUnreachable ==
    \A f \in Files \ Names(db) :
       \A r \in db.files, x \in db.urls : x.src = r.id => x.by # f

(* "Directory '%s' is up-to-date": when a run that saw no change of the    *)
(* file system says so, every URL the directory's files declare can be     *)
(* looked up, and no file of it that is gone has a row.                    *)
Reflects(F) ==
    \A f \in F : IF f \in OnDisk THEN Declared(disk[f].content) \subseteq Registered(db, f)
                                 ELSE f \notin Names(db)

UpToDateOnExit ==
    \A j \in Jobs : pc[j] = "close" /\ ~touched[j] => Reflects(FilesIn(JobDir[j]))

(* Once the file system stays as it is, the database comes to reflect it   *)
(* and goes on reflecting it.                                              *)
Converges == <>[]Reflects(Files)
=============================================================================
