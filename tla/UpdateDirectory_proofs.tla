----------------------- MODULE UpdateDirectory_proofs -----------------------
(***************************************************************************)
(* What UpdateDirectory promises for every number of files, directories    *)
(* and updaters, whatever fails or is killed.                              *)
(***************************************************************************)
EXTENDS UpdateDirectory, UrlDb_proofs, SequenceTheorems, TLAPS

(* A job between picking a name and being done with it has one in cur.     *)
Working == {"check", "stamp", "load", "insert", "delfile", "commit"}

CurInv == \A j \in Jobs : pc[j] \in Working => cur[j] \in Files

TypeInv == TypeOK /\ CurInv
-----------------------------------------------------------------------------
(* An accepted entry is a URL of the database.                             *)
LEMMA UrlType ==
    ASSUME NEW e \in Entry, Accepted(e)
    PROVE  UrlOf(e) \in Urls
BY ContentsAssumption DEF Entry, Accepted, UrlOf

LEMMA DeclaredType ==
    ASSUME NEW c \in Seq(Entry)
    PROVE  Declared(c) \subseteq Urls
<1>1. \A i \in DOMAIN c : c[i] \in Entry
  OBVIOUS
<1>2. QED
  BY <1>1, UrlType DEF Declared

File == [time : Nat, content : Contents \cup {<<>>}]

LEMMA MissingType == Missing \in File /\ <<>> \in Seq(Entry)
BY DEF Missing, File

LEMMA InitType == Init => TypeInv
<1> SUFFICES ASSUME Init PROVE TypeInv
  OBVIOUS
<1>1. EmptyDb \in Db
  BY DEF EmptyDb, Db
<1>2. disk \in [Files -> File] /\ entries \in [Jobs -> Seq(Entry)]
  BY MissingType DEF Init
<1>3. TypeOK
  BY <1>1, <1>2 DEF Init, TypeOK, Phases, File
<1>4. CurInv
  BY DEF Init, CurInv, Working
<1>5. QED
  BY <1>3, <1>4 DEF TypeInv

(* Nobody's step but a writer's of the file system, Exit for a job.        *)
LEMMA TypeStep == TypeInv /\ [Next]_vars => TypeInv'
<1> SUFFICES ASSUME TypeInv, [Next]_vars PROVE TypeInv'
  OBVIOUS
<1> USE DEF TypeInv
<1>1. ASSUME NEW f \in Files, WriteFile(f) PROVE TypeInv'
  <2>1. edits' \in Nat /\ 1..(edits + 1) \subseteq Nat
    BY <1>1 DEF TypeOK, WriteFile, Edit
  <2>2. disk' \in [Files -> File]
    <3>1. PICK c \in Contents, t \in 1..(edits + 1) :
             disk' = [disk EXCEPT ![f] = [time |-> t, content |-> c]]
      BY <1>1 DEF WriteFile
    <3>2. [time |-> t, content |-> c] \in File
      BY <2>1 DEF File
    <3>3. QED
      BY <3>1, <3>2 DEF TypeOK, File
  <2>3. dirs' \subseteq Dirs
    <3>1. DirOf[f] \in Dirs /\ Parent[DirOf[f]] \in Dirs \cup {NoDir}
      BY LayoutAssumption
    <3>2. QED
      BY <1>1, <3>1 DEF TypeOK, WriteFile
  <2>4. QED
    BY <1>1, <2>1, <2>2, <2>3 DEF TypeOK, CurInv, WriteFile, Edit, File, dbVars, jobVars
<1>2. ASSUME NEW f \in Files, UnlinkFile(f) PROVE TypeInv'
  BY <1>2, MissingType DEF TypeOK, CurInv, File, UnlinkFile, Edit, Lose, dbVars, jobVars
<1>3. ASSUME NEW d \in Dirs, RemoveDir(d) PROVE TypeInv'
  BY <1>3, MissingType
     DEF TypeOK, CurInv, File, RemoveDir, Edit, Lose, FilesIn, dbVars, jobVars
<1>4. ASSUME NEW j \in Jobs, Start(j) PROVE TypeInv'
  BY <1>4 DEF TypeOK, CurInv, Working, Phases, Start, Goto, OnDisk, fsVars, dbVars
<1>5. ASSUME NEW j \in Jobs, Exit(j) PROVE TypeInv'
  <2>1. EmptyDb \in Db
    BY DEF EmptyDb, Db
  <2>2. QED
    BY <1>5, <2>1, MissingType DEF TypeOK, CurInv, Working, Phases, Exit, Goto, fsVars
<1>6. ASSUME NEW j \in Jobs, Resolve(j) PROVE TypeInv'
  BY <1>6, LayoutAssumption
     DEF TypeOK, CurInv, Working, Phases, Resolve, Goto, fsVars, dbVars, histVars
<1>7. ASSUME NEW j \in Jobs, List(j) PROVE TypeInv'
  <2>1. Names(db) \subseteq Files
    BY DEF TypeOK, Names, Db, FileRow
  <2>2. starting' \in [Jobs -> SUBSET Files]
    <3>1. starting \in [Jobs -> SUBSET Files]
      BY DEF TypeOK
    <3>2. PICK S \in SUBSET Files : starting' = [starting EXCEPT ![j] = S] \/ starting' = starting
      BY <1>7, <2>1 DEF List
    <3>3. QED
      BY <3>1, <3>2
  <2>3. QED
    BY <1>7, <2>2 DEF TypeOK, CurInv, Working, Phases, List, Goto, fsVars, dbVars, histVars
<1>8. ASSUME NEW j \in Jobs, OpenDir(j) PROVE TypeInv'
  <2>1. pc' = [pc EXCEPT ![j] = "scan"] \/ pc' = [pc EXCEPT ![j] = "remove"]
    BY <1>8 DEF OpenDir, Goto
  <2>2. pc' \in [Jobs -> Phases] /\ todo' \in [Jobs -> SUBSET Files]
    <3>1. PICK S \in SUBSET Files : todo' = [todo EXCEPT ![j] = S] \/ todo' = todo
      BY <1>8 DEF OpenDir, FilesIn
    <3>2. QED
      BY <2>1, <3>1 DEF TypeOK, Phases
  <2>3. CurInv'
    BY <1>8, <2>1 DEF TypeOK, CurInv, Working, OpenDir
  <2>4. UNCHANGED <<fsVars, dbVars, dir, starting, cur, filetime, entries, histVars>>
    BY <1>8 DEF OpenDir
  <2>5. QED
    BY <2>2, <2>3, <2>4 DEF TypeOK, fsVars, dbVars, histVars
<1>9. ASSUME NEW j \in Jobs, Scan(j) PROVE TypeInv'
  <2>1. PICK f \in todo[j] :
           /\ cur' = [cur EXCEPT ![j] = f]
           /\ todo' = [todo EXCEPT ![j] = @ \ {f}]
           /\ \/ filetime' = [filetime EXCEPT ![j] = disk[f].time]
              \/ filetime' = [filetime EXCEPT ![j] = 0]
    BY <1>9 DEF Scan, Missing
  <2>2. f \in Files /\ disk[f].time \in Nat
    BY DEF TypeOK
  <2>3. filetime' \in [Jobs -> Nat]
    BY <2>1, <2>2 DEF TypeOK
  <2>4. QED
    BY <1>9, <2>1, <2>2, <2>3
       DEF TypeOK, CurInv, Working, Phases, Scan, Goto, fsVars, dbVars, histVars
<1>10. ASSUME NEW j \in Jobs, ScanDone(j) \/ RemoveDone(j) \/ CheckOutOfDate(j)
       PROVE  TypeInv'
  BY <1>10 DEF TypeOK, CurInv, Working, Phases, ScanDone, RemoveDone, CheckOutOfDate,
               Goto, fsVars, dbVars, histVars
<1>11. ASSUME NEW j \in Jobs, CheckCurrent(j) \/ StampFails(j) \/ InsertDone(j)
       PROVE  TypeInv'
  <2>1. NextName(j) /\ UNCHANGED <<fsVars, dbVars, dir, todo, entries, histVars>>
    BY <1>11 DEF CheckCurrent, StampFails, InsertDone
  <2>2. QED
    BY <2>1 DEF TypeOK, CurInv, Working, Phases, NextName, Goto, fsVars, dbVars, histVars
<1>12. ASSUME NEW j \in Jobs, Stamp(j) PROVE TypeInv'
  <2>1. cur[j] \in Files
    BY <1>12 DEF CurInv, Working, Stamp
  <2>2. db' \in Db
    BY <1>12, <2>1, DbType DEF TypeOK, Stamp
  <2>3. QED
    BY <1>12, <2>1, <2>2 DEF TypeOK, CurInv, Working, Phases, Stamp, Goto, fsVars
<1>13. ASSUME NEW j \in Jobs, Load(j) PROVE TypeInv'
  <2>1. cur[j] \in Files
    BY <1>13 DEF CurInv, Working, Load
  <2>2. PICK c \in {disk[cur[j]].content, Missing.content} :
           /\ entries' = [entries EXCEPT ![j] = c]
           /\ loaded' = [loaded EXCEPT ![cur[j]] = Declared(c)]
    BY <1>13 DEF Load
  <2>3. c \in Seq(Entry) /\ Declared(c) \subseteq Urls
    BY <2>1, MissingType, ContentsAssumption, DeclaredType DEF TypeOK, Missing
  <2>4. QED
    BY <1>13, <2>1, <2>2, <2>3
       DEF TypeOK, CurInv, Working, Phases, Load, Goto, fsVars, dbVars
<1>14. ASSUME NEW j \in Jobs, NextEntry(j), db' \in Db PROVE TypeInv'
  <2>1. Tail(entries[j]) \in Seq(Entry)
    BY <1>14 DEF TypeOK, NextEntry
  <2>2. QED
    BY <1>14, <2>1 DEF TypeOK, CurInv, NextEntry, fsVars, histVars
<1>15. ASSUME NEW j \in Jobs, InsertEntry(j) PROVE TypeInv'
  <2>1. cur[j] \in Files
    BY <1>15 DEF CurInv, Working, InsertEntry, NextEntry
  <2>2. Head(entries[j]) \in Entry
    BY <1>15 DEF TypeOK, InsertEntry, NextEntry
  <2>3. db' \in Db
    BY <1>15, <2>1, <2>2, UrlType, DbType DEF TypeOK, InsertEntry
  <2>4. QED
    BY <1>14, <1>15, <2>3 DEF InsertEntry
<1>16. ASSUME NEW j \in Jobs, SkipEntry(j) PROVE TypeInv'
  BY <1>14, <1>16 DEF SkipEntry, TypeOK
<1>17. ASSUME NEW j \in Jobs, RemoveUrls(j) PROVE TypeInv'
  <2>1. txn' \in Db
    BY <1>17, DbType DEF TypeOK, RemoveUrls
  <2>2. QED
    BY <1>17, <2>1 DEF TypeOK, CurInv, Working, Phases, RemoveUrls, Goto, fsVars, histVars
<1>18. ASSUME NEW j \in Jobs, RemoveUrlsFails(j) PROVE TypeInv'
  BY <1>18 DEF TypeOK, CurInv, Working, RemoveUrlsFails, fsVars, dbVars, histVars
<1>19. ASSUME NEW j \in Jobs, RemoveFile(j) PROVE TypeInv'
  <2>1. txn' \in Db
    BY <1>19, DbType DEF TypeOK, CurInv, Working, RemoveFile
  <2>2. QED
    BY <1>19, <2>1 DEF TypeOK, CurInv, Working, Phases, RemoveFile, Goto, fsVars, histVars
<1>20. ASSUME NEW j \in Jobs, EndTransaction(j), db' \in Db, dropped' \in BOOLEAN
       PROVE  TypeInv'
  <2>1. EmptyDb \in Db
    BY DEF EmptyDb, Db
  <2>2. QED
    BY <1>20, <2>1 DEF TypeOK, CurInv, Working, Phases, EndTransaction, Goto, fsVars
<1>21. ASSUME NEW j \in Jobs, Commit(j) \/ Rollback(j) PROVE TypeInv'
  BY <1>20, <1>21 DEF Commit, Rollback, TypeOK
<1>22. CASE UNCHANGED vars
  BY <1>22 DEF TypeOK, CurInv, vars, fsVars, dbVars, jobVars, histVars
<1>23. QED
  BY <1>1, <1>2, <1>3, <1>4, <1>5, <1>6, <1>7, <1>8, <1>9, <1>10, <1>11, <1>12, <1>13,
     <1>15, <1>16, <1>17, <1>18, <1>19, <1>21, <1>22
     DEF Next, JobStep, OpenDirFails, Close, Crash

LEMMA TypeInvariant == Spec => []TypeInv
<1>1. Init => TypeInv
  BY InitType
<1>2. TypeInv /\ [Next]_vars => TypeInv'
  BY TypeStep
<1>3. QED
  BY <1>1, <1>2, PTL DEF Spec

(* Every variable keeps its type.                                          *)
THEOREM TypeCorrect == Spec => []TypeOK
<1>1. TypeInv => TypeOK
  BY DEF TypeInv
<1>2. QED
  BY <1>1, TypeInvariant, PTL
-----------------------------------------------------------------------------
(* The write lock. What a job does outside url_db_remove_file leaves the   *)
(* lock alone, does not enter the transaction, writes only when no other   *)
(* job holds the lock, and takes no file out of the database.              *)
InTransaction == {"delfile", "commit"}

Outside(j) ==
    /\ pc[j] \notin InTransaction
    /\ \E p \in Phases \ InTransaction : pc' = [pc EXCEPT ![j] = p]
    /\ UNCHANGED <<writer, txn>>
    /\ \A k \in Jobs \ {j} : cur'[k] = cur[k]
    /\ db' = db \/ CanWrite(j)
    /\ Names(db) \subseteq Names(db')

(* The steps of a job, by what they do to the lock.                        *)
LEMMA StepKinds ==
    ASSUME NEW j \in Jobs, TypeInv, Start(j) \/ JobStep(j) \/ Crash(j)
    PROVE  \/ Outside(j)
           \/ RemoveUrls(j)
           \/ RemoveFile(j)
           \/ Commit(j) \/ Rollback(j)
           \/ Exit(j)
<1> USE DEF Outside, Phases, InTransaction, Goto, dbVars
<1>1. CASE Start(j) \/ Resolve(j) \/ List(j) \/ OpenDir(j) \/ Scan(j) \/ ScanDone(j)
  BY <1>1 DEF Start, Resolve, List, OpenDir, Scan, ScanDone, TypeInv, TypeOK
<1>2. CASE CheckCurrent(j) \/ StampFails(j) \/ InsertDone(j)
  BY <1>2 DEF CheckCurrent, StampFails, InsertDone, NextName, TypeInv, TypeOK
<1>3. CASE CheckOutOfDate(j) \/ Load(j) \/ RemoveDone(j)
  BY <1>3 DEF CheckOutOfDate, Load, RemoveDone
<1>4. CASE Stamp(j)
  <2>1. cur[j] \in Files /\ filetime[j] \in Nat /\ db \in Db
    BY <1>4 DEF Stamp, TypeInv, TypeOK, CurInv, Working
  <2>2. Names(db) \subseteq Names(db')
    BY <1>4, <2>1, NamesKept DEF Stamp
  <2>3. QED
    BY <1>4, <2>2 DEF Stamp
<1>5. CASE InsertEntry(j) \/ SkipEntry(j) \/ RemoveUrlsFails(j)
  <2>1. /\ pc[j] \in Phases \ InTransaction
        /\ UNCHANGED <<writer, txn, pc, cur>>
        /\ db' = db \/ CanWrite(j)
    BY <1>5 DEF InsertEntry, SkipEntry, NextEntry, RemoveUrlsFails
  <2>2. pc' = [pc EXCEPT ![j] = pc[j]]
    BY <2>1 DEF TypeInv, TypeOK
  <2>3. ASSUME InsertEntry(j) PROVE Names(db) \subseteq Names(db')
    <3>1. cur[j] \in Files /\ Head(entries[j]) \in Entry /\ db \in Db
      BY <2>3 DEF InsertEntry, NextEntry, TypeInv, TypeOK, CurInv, Working
    <3>2. QED
      BY <2>3, <3>1, UrlType, NamesKept DEF InsertEntry
  <2>4. Names(db) \subseteq Names(db')
    BY <1>5, <2>3 DEF SkipEntry, RemoveUrlsFails
  <2>5. QED
    BY <2>1, <2>2, <2>4
<1>6. QED
  BY <1>1, <1>2, <1>3, <1>4, <1>5 DEF JobStep, OpenDirFails, Close, Crash

LEMMA LockStep ==
    TypeInv /\ NoDanglingTransaction /\ [Next]_vars => NoDanglingTransaction'
<1> SUFFICES ASSUME TypeInv, NoDanglingTransaction, [Next]_vars
             PROVE  NoDanglingTransaction'
  OBVIOUS
<1> USE DEF NoDanglingTransaction
<1>1. CASE \/ \E f \in Files : WriteFile(f) \/ UnlinkFile(f)
           \/ \E d \in Dirs : RemoveDir(d)
  BY <1>1 DEF WriteFile, UnlinkFile, RemoveDir, Edit, dbVars, jobVars
<1>2. ASSUME NEW j \in Jobs, Start(j) \/ JobStep(j) \/ Crash(j)
      PROVE  NoDanglingTransaction'
  <2> NoJob \notin Jobs /\ pc \in [Jobs -> Phases]
    BY LayoutAssumption DEF TypeInv, TypeOK
  <2>1. CASE Outside(j)
    BY <2>1 DEF Outside, InTransaction
  <2>2. CASE RemoveUrls(j)
    BY <2>2 DEF RemoveUrls, CanWrite, Goto
  <2>3. CASE RemoveFile(j)
    BY <2>3 DEF RemoveFile, Goto
  <2>4. CASE Commit(j) \/ Rollback(j)
    <3>1. /\ pc[j] \in InTransaction
          /\ writer' = NoJob
          /\ pc' = [pc EXCEPT ![j] = "remove"]
      BY <2>4 DEF Commit, Rollback, EndTransaction, Goto, InTransaction
    <3>2. QED
      BY <3>1 DEF InTransaction
  <2>5. CASE Exit(j)
    BY <2>5 DEF Exit, Goto
  <2>6. QED
    BY <1>2, <2>1, <2>2, <2>3, <2>4, <2>5, StepKinds
<1>3. CASE UNCHANGED vars
  BY <1>3 DEF vars, dbVars, jobVars
<1>4. QED
  BY <1>1, <1>2, <1>3 DEF Next

LEMMA LockInit == Init => NoDanglingTransaction
BY LayoutAssumption DEF Init, NoDanglingTransaction

(* The write lock is always let go of: it is held by a job exactly while   *)
(* that job is inside url_db_remove_file.                                  *)
THEOREM LockReleased == Spec => []NoDanglingTransaction
<1>1. Init => NoDanglingTransaction
  BY LockInit
<1>2. TypeInv /\ NoDanglingTransaction /\ [Next]_vars => NoDanglingTransaction'
  BY LockStep
<1>3. QED
  BY <1>1, <1>2, TypeInvariant, PTL DEF Spec
-----------------------------------------------------------------------------
(* The transaction. While it is open nobody writes, so that what it has    *)
(* deleted it has deleted from the database as it is now.                  *)
TxnInv ==
    \A j \in Jobs :
       /\ pc[j] = "delfile" => txn = DeleteUrls(db, cur[j])
       /\ pc[j] = "commit"  => txn = DeleteFile(DeleteUrls(db, cur[j]), cur[j])

LEMMA TxnStep ==
    TypeInv /\ NoDanglingTransaction /\ TxnInv /\ [Next]_vars => TxnInv'
<1> SUFFICES ASSUME TypeInv, NoDanglingTransaction, TxnInv, [Next]_vars
             PROVE  TxnInv'
  OBVIOUS
<1> USE DEF TxnInv
<1>1. CASE \/ \E f \in Files : WriteFile(f) \/ UnlinkFile(f)
           \/ \E d \in Dirs : RemoveDir(d)
  BY <1>1 DEF WriteFile, UnlinkFile, RemoveDir, Edit, dbVars, jobVars
<1>2. ASSUME NEW j \in Jobs, Start(j) \/ JobStep(j) \/ Crash(j)
      PROVE  TxnInv'
  <2> /\ NoJob \notin Jobs
      /\ pc \in [Jobs -> Phases]
      /\ cur \in [Jobs -> Files \cup {NoFile}]
    BY LayoutAssumption DEF TypeInv, TypeOK
  <2>1. CASE Outside(j)
    <3>1. ASSUME NEW k \in Jobs, pc'[k] \in InTransaction
          PROVE  k # j /\ pc[k] = pc'[k] /\ cur'[k] = cur[k] /\ txn' = txn /\ db' = db
      <4>1. k # j /\ pc[k] = pc'[k]
        BY <2>1, <3>1 DEF Outside
      <4>2. writer = k
        BY <3>1, <4>1 DEF NoDanglingTransaction, InTransaction
      <4>3. QED
        BY <2>1, <4>1, <4>2 DEF Outside, CanWrite
    <3>2. QED
      BY <3>1 DEF InTransaction
  <2>2. CASE RemoveUrls(j)
    <3>1. \A k \in Jobs : pc[k] \notin InTransaction
      BY <2>2 DEF RemoveUrls, CanWrite, NoDanglingTransaction, InTransaction
    <3>2. QED
      BY <2>2, <3>1 DEF RemoveUrls, Goto, InTransaction
  <2>3. ASSUME RemoveFile(j) \/ Commit(j) \/ Rollback(j)
        PROVE  \A k \in Jobs \ {j} : pc[k] \notin InTransaction
    BY <2>3 DEF RemoveFile, Commit, Rollback, NoDanglingTransaction, InTransaction
  <2>4. CASE RemoveFile(j)
    <3>1. /\ pc[j] = "delfile" /\ pc' = [pc EXCEPT ![j] = "commit"]
          /\ txn' = DeleteFile(txn, cur[j])
          /\ UNCHANGED <<db, cur>>
      BY <2>4 DEF RemoveFile, Goto
    <3>2. QED
      BY <2>3, <2>4, <3>1 DEF InTransaction
  <2>5. CASE Commit(j) \/ Rollback(j)
    <3>1. pc' = [pc EXCEPT ![j] = "remove"]
      BY <2>5 DEF Commit, Rollback, EndTransaction, Goto
    <3>2. QED
      BY <2>3, <2>5, <3>1 DEF InTransaction
  <2>6. CASE Exit(j)
    <3>1. /\ pc' = [pc EXCEPT ![j] = "idle"]
          /\ cur' = [cur EXCEPT ![j] = NoFile]
          /\ db' = db
          /\ writer # j => txn' = txn
      BY <2>6 DEF Exit, Goto
    <3>2. QED
      BY <3>1 DEF NoDanglingTransaction
  <2>7. QED
    BY <1>2, <2>1, <2>2, <2>4, <2>5, <2>6, StepKinds
<1>3. CASE UNCHANGED vars
  BY <1>3 DEF vars, dbVars, jobVars
<1>4. QED
  BY <1>1, <1>2, <1>3 DEF Next

DbInv == TypeInv /\ NoDanglingTransaction /\ TxnInv

LEMMA DbInvariant == Spec => []DbInv
<1>1. Init => DbInv
  BY InitType, LockInit DEF Init, DbInv, TxnInv
<1>2. DbInv /\ [Next]_vars => DbInv'
  BY TypeStep, LockStep, TxnStep DEF DbInv
<1>3. QED
  BY <1>1, <1>2, PTL DEF Spec

(* A file that leaves the database leaves it by a commit of its removal.   *)
LEMMA OnlyCommitDrops ==
    ASSUME DbInv, [Next]_vars, NEW f \in Names(db) \ Names(db)'
    PROVE  \E j \in Jobs :
              /\ Commit(j)
              /\ cur[j] = f
              /\ db' = DeleteFile(DeleteUrls(db, f), f)
<1> USE DEF DbInv
<1>1. db' # db
  OBVIOUS
<1>2. PICK j \in Jobs : Start(j) \/ JobStep(j) \/ Crash(j)
  BY <1>1 DEF Next, WriteFile, UnlinkFile, RemoveDir, Edit, vars, dbVars
<1>3. Commit(j)
  BY <1>1, <1>2, StepKinds DEF Outside, RemoveUrls, RemoveFile, Rollback, Exit
<1>4. db' = DeleteFile(DeleteUrls(db, cur[j]), cur[j])
  BY <1>3 DEF Commit, TxnInv
<1>5. cur[j] = f
  <2>1. db'.files = db.files \ RowsOf(DeleteUrls(db, cur[j]), cur[j])
    BY <1>4 DEF DeleteFile, DeleteUrls, TypeInv, TypeOK, Db
  <2>2. RowsOf(DeleteUrls(db, cur[j]), cur[j]) = RowsOf(db, cur[j])
    BY DEF DeleteUrls, RowsOf, TypeInv, TypeOK, Db
  <2>3. QED
    BY <2>1, <2>2 DEF Names, RowsOf
<1>6. QED
  BY <1>3, <1>4, <1>5

(* What a step does to the database if anything: a stamp, an insert or a   *)
(* whole removal, of the file that some job has in cur.                    *)
LEMMA WriteKinds ==
    ASSUME DbInv, [Next]_vars, db' # db
    PROVE  \E j \in Jobs :
              /\ cur[j] \in Files
              /\ \/ \E n \in RowIds : /\ IsNextRowId(db, n)
                                      /\ db' = SetFileTime(db, n, cur[j], filetime[j])
                 \/ \E u \in Urls : db' = InsertUrl(db, cur[j], u)
                 \/ db' = DeleteFile(DeleteUrls(db, cur[j]), cur[j])
<1> USE DEF DbInv, TypeInv
<1>1. PICK j \in Jobs : Start(j) \/ JobStep(j) \/ Crash(j)
  BY DEF Next, WriteFile, UnlinkFile, RemoveDir, Edit, dbVars, vars
<1>2. Stamp(j) \/ InsertEntry(j) \/ Commit(j)
  <2>1. ~(\/ Start(j) \/ Resolve(j) \/ List(j) \/ OpenDir(j) \/ Scan(j) \/ ScanDone(j)
          \/ CheckCurrent(j) \/ CheckOutOfDate(j) \/ StampFails(j) \/ Load(j)
          \/ InsertDone(j))
    BY DEF Start, Resolve, List, OpenDir, Scan, ScanDone, CheckCurrent, CheckOutOfDate,
           StampFails, Load, InsertDone, dbVars
  <2>2. ~(\/ SkipEntry(j) \/ RemoveUrls(j) \/ RemoveUrlsFails(j) \/ RemoveFile(j)
          \/ Rollback(j) \/ RemoveDone(j) \/ Exit(j))
    BY DEF SkipEntry, RemoveUrls, RemoveUrlsFails, RemoveFile, Rollback, RemoveDone, Exit,
           dbVars
  <2>3. QED
    BY <1>1, <2>1, <2>2 DEF JobStep, OpenDirFails, Close, Crash
<1>3. cur[j] \in Files
  BY <1>2 DEF CurInv, Working, Stamp, InsertEntry, NextEntry, Commit
<1>4. CASE Stamp(j)
  BY <1>3, <1>4 DEF Stamp
<1>5. CASE InsertEntry(j)
  <2>1. Head(entries[j]) \in Entry
    BY <1>5 DEF TypeOK, InsertEntry, NextEntry
  <2>2. UrlOf(Head(entries[j])) \in Urls /\ db' = InsertUrl(db, cur[j], UrlOf(Head(entries[j])))
    BY <1>5, <2>1, UrlType DEF InsertEntry
  <2>3. QED
    BY <1>3, <2>2
<1>6. CASE Commit(j)
  <2>1. db' = DeleteFile(DeleteUrls(db, cur[j]), cur[j])
    BY <1>6 DEF TxnInv, Commit
  <2>2. QED
    BY <1>3, <2>1
<1>7. QED
  BY <1>2, <1>4, <1>5, <1>6

(* No two files share a rowid, so that deleting the URLs of one takes none *)
(* from another, and a file read again is known by its new rowid.          *)
IdsInv == UniqueIds(db)

LEMMA AtomicStep ==
    ASSUME DbInv, IdsInv, [Next]_vars
    PROVE  /\ IdsInv'
           /\ \A f \in Names(db) :
                 IF f \in Names(db')
                 THEN RowsOf(db', f) = RowsOf(db, f)
                        => Registered(db, f) \subseteq Registered(db', f)
                 ELSE db' = DeleteFile(DeleteUrls(db, f), f)
<1> USE DEF IdsInv
<1>1. CASE db' = db
  BY <1>1
<1>2. CASE db' # db
  <2>1. PICK j \in Jobs :
           /\ cur[j] \in Files
           /\ \/ \E n \in RowIds : /\ IsNextRowId(db, n)
                                   /\ db' = SetFileTime(db, n, cur[j], filetime[j])
              \/ \E u \in Urls : db' = InsertUrl(db, cur[j], u)
              \/ db' = DeleteFile(DeleteUrls(db, cur[j]), cur[j])
    BY <1>2, WriteKinds
  <2> DEFINE f == cur[j]
  <2>2. db \in Db /\ f \in Files /\ filetime[j] \in Nat /\ Names(db) \subseteq Files
    BY <2>1 DEF DbInv, TypeInv, TypeOK, Db, FileRow, Names
  <2>3. \A e : \A g : g \in Names(e) <=> RowsOf(e, g) # {}
    BY DEF Names, RowsOf
  <2>4. CASE \E n \in RowIds : IsNextRowId(db, n) /\ db' = SetFileTime(db, n, f, filetime[j])
    <3>1. PICK n \in RowIds : IsNextRowId(db, n) /\ db' = SetFileTime(db, n, f, filetime[j])
      BY <2>4
    <3>2. /\ UniqueIds(db')
          /\ RowsOf(db', f) = {[id |-> n, name |-> f, time |-> filetime[j]]}
          /\ \A g \in Files \ {f} : /\ RowsOf(db', g) = RowsOf(db, g)
                                    /\ Registered(db', g) = Registered(db, g)
      BY <2>2, <3>1, StampKeeps
    <3>3. \A r \in RowsOf(db, f) : r.id # n
      BY <2>2, <3>1, RowIdsAssumption DEF IsNextRowId, RowsOf, Db, FileRow
    <3>4. RowsOf(db', f) # RowsOf(db, f)
      <4>1. \E r \in RowsOf(db', f) : r.id = n
        BY <3>2
      <4>2. QED
        BY <3>3, <4>1
    <3>5. QED
      BY <2>2, <2>3, <3>2, <3>4
  <2>5. CASE \E u \in Urls : db' = InsertUrl(db, f, u)
    <3>1. /\ db'.files = db.files
          /\ \A g \in Files : Registered(db, g) \subseteq Registered(db', g)
      BY <2>2, <2>5, InsertKeeps
    <3>2. UniqueIds(db') /\ Names(db') = Names(db)
      BY <3>1 DEF UniqueIds, Names
    <3>3. QED
      BY <2>2, <3>1, <3>2
  <2>6. CASE db' = DeleteFile(DeleteUrls(db, f), f)
    <3>1. /\ UniqueIds(db')
          /\ RowsOf(db', f) = {}
          /\ \A g \in Files \ {f} : /\ RowsOf(db', g) = RowsOf(db, g)
                                    /\ Registered(db', g) = Registered(db, g)
      BY <2>2, <2>6, RemoveKeeps
    <3>2. QED
      BY <2>2, <2>3, <2>6, <3>1
  <2>7. QED
    BY <2>1, <2>4, <2>5, <2>6
<1>3. QED
  BY <1>1, <1>2

(* A file keeps its row and the URLs registered for it, is read again, or  *)
(* loses both in one step, from the database as it stands at that step.    *)
THEOREM RemovalAtomic == Spec => RemoveIsAtomic
<1>1. Init => IdsInv
  BY DEF Init, IdsInv, UniqueIds, EmptyDb
<1>2. DbInv /\ IdsInv /\ [Next]_vars => IdsInv'
  BY AtomicStep
<1>3. DbInv /\ IdsInv /\ [Next]_vars
        => [\A f \in Names(db) :
               IF f \in Names(db')
               THEN RowsOf(db', f) = RowsOf(db, f)
                      => Registered(db, f) \subseteq Registered(db', f)
               ELSE db' = DeleteFile(DeleteUrls(db, f), f)]_vars
  BY AtomicStep
<1>4. QED
  BY <1>1, <1>2, <1>3, DbInvariant, PTL DEF Spec, RemoveIsAtomic
-----------------------------------------------------------------------------
(* The updaters implement SharedDb. No time is later than the clock.       *)
TimeInv ==
    /\ edits <= MaxEdits
    /\ \A f \in Files : disk[f].time <= edits
    /\ \A j \in Jobs : filetime[j] <= edits

LEMMA TimeStep == TypeInv /\ TimeInv /\ [Next]_vars => TimeInv'
<1> SUFFICES ASSUME TypeInv, TimeInv, [Next]_vars PROVE TimeInv'
  OBVIOUS
<1> USE BoundAssumption DEF TypeInv, TimeInv
<1> /\ edits \in Nat /\ MaxEdits \in Nat
    /\ filetime \in [Jobs -> Nat]
    /\ disk \in [Files -> File]
  BY DEF TypeOK, File
<1> \A f \in Files : disk[f].time \in Nat
  BY DEF File
<1>1. ASSUME Edit, \A f \in Files : disk'[f].time <= edits + 1
      PROVE  TimeInv'
  BY <1>1 DEF Edit, jobVars
<1>2. ASSUME NEW f \in Files, WriteFile(f) PROVE TimeInv'
  <2>1. PICK c \in Contents, t \in 1..(edits + 1) :
           disk' = [disk EXCEPT ![f] = [time |-> t, content |-> c]]
    BY <1>2 DEF WriteFile
  <2>2. \A g \in Files : disk'[g].time <= edits + 1
    BY <2>1
  <2>3. QED
    BY <1>1, <1>2, <2>2 DEF WriteFile
<1>3. ASSUME NEW S \in SUBSET Files, Edit, Lose(S) PROVE TimeInv'
  <2>1. \A f \in Files : disk'[f].time <= edits + 1
    BY <1>3 DEF Lose, Missing
  <2>2. QED
    BY <1>1, <1>3, <2>1
<1>4. ASSUME UNCHANGED <<edits, disk>>, \A j \in Jobs : filetime'[j] <= edits
      PROVE  TimeInv'
  BY <1>4
<1>5. ASSUME NEW j \in Jobs, Scan(j) PROVE TimeInv'
  <2>1. PICK f \in Files : \/ filetime' = [filetime EXCEPT ![j] = disk[f].time]
                            \/ filetime' = [filetime EXCEPT ![j] = 0]
    BY <1>5 DEF Scan, TypeOK, Missing
  <2>2. QED
    BY <1>4, <1>5, <2>1 DEF Scan, fsVars
<1>6. ASSUME NEW j \in Jobs, filetime' = [filetime EXCEPT ![j] = 0],
             UNCHANGED <<edits, disk>>
      PROVE  TimeInv'
  BY <1>4, <1>6
<1>7. ASSUME NEW j \in Jobs,
             Exit(j) \/ CheckCurrent(j) \/ StampFails(j) \/ InsertDone(j)
      PROVE  TimeInv'
  BY <1>6, <1>7 DEF Exit, CheckCurrent, StampFails, InsertDone, NextName, fsVars
<1>8. ASSUME NEW j \in Jobs, UNCHANGED <<edits, disk, filetime>> PROVE TimeInv'
  BY <1>4, <1>8
<1>9. ASSUME NEW j \in Jobs, Start(j) \/ JobStep(j) \/ Crash(j) PROVE TimeInv'
  <2>1. CASE \/ Start(j) \/ Resolve(j) \/ List(j) \/ OpenDir(j) \/ ScanDone(j)
             \/ CheckOutOfDate(j) \/ Stamp(j) \/ Load(j)
    BY <1>8, <2>1 DEF Start, Resolve, List, OpenDir, ScanDone, CheckOutOfDate, Stamp,
                      Load, fsVars
  <2>2. CASE InsertEntry(j) \/ SkipEntry(j)
    BY <1>8, <2>2 DEF InsertEntry, SkipEntry, NextEntry, fsVars
  <2>3. CASE \/ RemoveUrls(j) \/ RemoveUrlsFails(j) \/ RemoveFile(j)
             \/ Commit(j) \/ Rollback(j) \/ RemoveDone(j)
    BY <1>8, <2>3 DEF RemoveUrls, RemoveUrlsFails, RemoveFile, Commit, Rollback,
                      EndTransaction, RemoveDone, fsVars
  <2>4. CASE \/ Scan(j) \/ Exit(j) \/ CheckCurrent(j) \/ StampFails(j)
             \/ InsertDone(j)
    BY <1>5, <1>7, <2>4
  <2>5. QED
    BY <1>9, <2>1, <2>2, <2>3, <2>4 DEF JobStep, OpenDirFails, Close, Crash
<1>10. CASE UNCHANGED vars
  BY <1>4, <1>10 DEF vars, fsVars, jobVars
<1>11. ASSUME NEW f \in Files, UnlinkFile(f) PROVE TimeInv'
  BY <1>3, <1>11 DEF UnlinkFile
<1>12. ASSUME NEW d \in Dirs, RemoveDir(d) PROVE TimeInv'
  BY <1>3, <1>12 DEF RemoveDir, FilesIn
<1>13. QED
  BY <1>2, <1>9, <1>10, <1>11, <1>12 DEF Next

LEMMA SharedStep == DbInv /\ TimeInv /\ [Next]_vars => [Shared!Next]_db
<1> SUFFICES ASSUME DbInv, TimeInv, [Next]_vars, db' # db PROVE Shared!Next
  OBVIOUS
<1>1. PICK j \in Jobs :
         /\ cur[j] \in Files
         /\ \/ \E n \in RowIds : /\ IsNextRowId(db, n)
                                 /\ db' = SetFileTime(db, n, cur[j], filetime[j])
            \/ \E u \in Urls : db' = InsertUrl(db, cur[j], u)
            \/ db' = DeleteFile(DeleteUrls(db, cur[j]), cur[j])
  BY WriteKinds
<1>2. ASSUME NEW n \in RowIds, IsNextRowId(db, n),
             db' = SetFileTime(db, n, cur[j], filetime[j])
      PROVE  Shared!NoteFile(cur[j])
  <2>1. filetime[j] \in 0..MaxEdits
    BY BoundAssumption DEF TimeInv, DbInv, TypeInv, TypeOK
  <2>2. Shared!IsNextRowId(db, n) /\ db' = Shared!SetFileTime(db, n, cur[j], filetime[j])
    BY <1>2 DEF IsNextRowId, SetFileTime, RowsOf,
                Shared!IsNextRowId, Shared!SetFileTime, Shared!RowsOf
  <2>3. QED
    BY <2>1, <2>2 DEF Shared!NoteFile
<1>3. ASSUME NEW u \in Urls, db' = InsertUrl(db, cur[j], u)
      PROVE  Shared!DeclareUrl(cur[j])
  <2>1. db' = Shared!InsertUrl(db, cur[j], u)
    BY <1>3 DEF InsertUrl, IdsOf, RowsOf, Shared!InsertUrl, Shared!IdsOf, Shared!RowsOf
  <2>2. QED
    BY <2>1 DEF Shared!DeclareUrl
<1>4. ASSUME db' = DeleteFile(DeleteUrls(db, cur[j]), cur[j])
      PROVE  Shared!RemoveFile(cur[j])
  BY <1>4 DEF DeleteFile, DeleteUrls, IdsOf, RowsOf, Shared!DeleteFile,
              Shared!DeleteUrls, Shared!IdsOf, Shared!RowsOf, Shared!RemoveFile
<1>5. QED
  BY <1>1, <1>2, <1>3, <1>4 DEF Shared!Next

(* Any number of updaters, failing and dying anywhere, look to a reader of *)
(* the database like one that does a statement or a whole removal at a     *)
(* time.                                                                   *)
THEOREM SharedDbImplemented == Spec => ImplementsSharedDb
<1>1. Init => Shared!Init
  BY DEF Init, Shared!Init, EmptyDb, Shared!EmptyDb
<1>2. Init => TimeInv
  BY MissingType, BoundAssumption DEF Init, TimeInv, Missing
<1>3. TypeInv /\ TimeInv /\ [Next]_vars => TimeInv'
  BY TimeStep
<1>4. DbInv /\ TimeInv /\ [Next]_vars => [Shared!Next]_db
  BY SharedStep
<1>5. QED
  BY <1>1, <1>2, <1>3, <1>4, TypeInvariant, DbInvariant, PTL
     DEF Spec, ImplementsSharedDb, Shared!Spec
-----------------------------------------------------------------------------
(* The scan. Whatever is still in startingdb has been missing from the     *)
(* disk during the run, or is a name the loop is on or has yet to reach.   *)
DirsInv == \A f \in OnDisk : DirOf[f] \in dirs

Resolved(j) ==
    \/ dir[j] = JobDir[j]
    \/ /\ ~JobSlash[j]
       /\ dir[j] = Parent[JobDir[j]]
       /\ dir[j] # NoDir
       /\ FilesIn(JobDir[j]) \subseteq gone[j]

GoneInv(j) == pc[j] # "idle" => Files \ OnDisk \subseteq gone[j]

PhaseInv(j) ==
    /\ pc[j] \in {"idle", "resolve", "list"} => starting[j] = {}
    /\ pc[j] \in {"list", "opendir"} => Resolved(j)
    /\ pc[j] = "opendir" => starting[j] \subseteq Under[dir[j]]
    /\ pc[j] = "scan" => starting[j] \subseteq gone[j] \cup todo[j]
    /\ pc[j] \in {"check", "stamp", "load", "insert"}
          => starting[j] \subseteq gone[j] \cup todo[j] \cup {cur[j]}
    /\ pc[j] \in {"remove", "delfile", "commit", "close"} => starting[j] \subseteq gone[j]
    /\ pc[j] \in {"delfile", "commit"} => cur[j] \in starting[j]

ScanInv == DirsInv /\ \A j \in Jobs : GoneInv(j) /\ PhaseInv(j)

(* What a change of the file system does to the files and their history.   *)
LEMMA EditEffect ==
    ASSUME TypeInv, ScanInv,
           \/ \E f \in Files : WriteFile(f) \/ UnlinkFile(f)
           \/ \E d \in Dirs : RemoveDir(d)
    PROVE  /\ UNCHANGED <<dbVars, jobVars>>
           /\ DirsInv'
           /\ \A j \in Jobs : pc[j] # "idle" => gone[j] \subseteq gone'[j]
           /\ \A j \in Jobs : GoneInv(j)'
<1> USE DEF TypeInv, TypeOK, ScanInv, DirsInv, GoneInv
<1>1. ASSUME NEW f \in Files, WriteFile(f)
      PROVE  /\ UNCHANGED <<dbVars, jobVars, gone>>
             /\ OnDisk' = OnDisk \cup {f}
             /\ dirs \subseteq dirs' /\ DirOf[f] \in dirs'
  <2>1. PICK c \in Contents, t \in 1..(edits + 1) :
           disk' = [disk EXCEPT ![f] = [time |-> t, content |-> c]]
    BY <1>1 DEF WriteFile
  <2>2. [time |-> t, content |-> c] # Missing
    BY DEF Missing
  <2>3. OnDisk' = OnDisk \cup {f}
    BY <2>1, <2>2 DEF OnDisk, Missing
  <2>4. DirOf[f] \in dirs'
    <3>1. DirOf[f] \in Dirs /\ DirOf[f] # NoDir
      BY LayoutAssumption
    <3>2. dirs' = dirs \cup ({DirOf[f], Parent[DirOf[f]]} \ {NoDir})
      BY <1>1 DEF WriteFile
    <3>3. QED
      BY <3>1, <3>2, Zenon
  <2>5. QED
    BY <1>1, <2>3, <2>4 DEF WriteFile, Edit
<1>2. ASSUME NEW S \in SUBSET Files, Edit, Lose(S)
      PROVE  /\ UNCHANGED <<dbVars, jobVars>>
             /\ OnDisk' = OnDisk \ S
             /\ \A j \in Jobs : pc[j] # "idle" => gone'[j] = gone[j] \cup S
  BY <1>2 DEF Edit, Lose, OnDisk, Missing
<1>3. CASE \E f \in Files : WriteFile(f)
  BY <1>1, <1>3 DEF jobVars
<1>4. CASE \E f \in Files : UnlinkFile(f)
  <2>1. PICK f \in Files : UnlinkFile(f)
    BY <1>4
  <2>2. Edit /\ Lose({f}) /\ UNCHANGED dirs
    BY <2>1 DEF UnlinkFile
  <2>3. QED
    BY <1>2, <2>2 DEF jobVars
<1>5. CASE \E d \in Dirs : RemoveDir(d)
  <2>1. PICK d \in Dirs : RemoveDir(d)
    BY <1>5
  <2>2. Edit /\ Lose(FilesIn(d)) /\ dirs' = dirs \ {d} /\ FilesIn(d) \subseteq Files
    BY <2>1 DEF RemoveDir, FilesIn
  <2>3. OnDisk' = OnDisk \ FilesIn(d)
    BY <1>2, <2>2
  <2>4. \A f \in OnDisk' : f \in Files /\ f \in OnDisk /\ DirOf[f] # d
    BY <2>3 DEF FilesIn, OnDisk
  <2>5. QED
    BY <1>2, <2>2, <2>3, <2>4 DEF jobVars
<1>6. QED
  BY <1>3, <1>4, <1>5

(* A job's step leaves the files and the other jobs alone.                 *)
Others(j) ==
    \A k \in Jobs \ {j} :
       /\ pc'[k] = pc[k] /\ dir'[k] = dir[k] /\ starting'[k] = starting[k]
       /\ todo'[k] = todo[k] /\ cur'[k] = cur[k] /\ gone'[k] = gone[k]

LEMMA OthersKept ==
    ASSUME NEW j \in Jobs, TypeInv, Start(j) \/ JobStep(j) \/ Crash(j)
    PROVE  Others(j) /\ UNCHANGED fsVars
<1> USE DEF Others, TypeInv, TypeOK, Goto, histVars
<1>1. CASE Start(j) \/ Resolve(j) \/ List(j) \/ OpenDir(j)
  BY <1>1 DEF Start, Resolve, List, OpenDir
<1>2. CASE Scan(j) \/ ScanDone(j) \/ CheckOutOfDate(j) \/ Stamp(j) \/ Load(j)
  BY <1>2 DEF Scan, ScanDone, CheckOutOfDate, Stamp, Load
<1>3. CASE CheckCurrent(j) \/ StampFails(j) \/ InsertDone(j)
  BY <1>3 DEF CheckCurrent, StampFails, InsertDone, NextName
<1>4. CASE InsertEntry(j) \/ SkipEntry(j)
  BY <1>4 DEF InsertEntry, SkipEntry, NextEntry
<1>5. CASE RemoveUrls(j) \/ RemoveUrlsFails(j) \/ RemoveFile(j) \/ RemoveDone(j)
  BY <1>5 DEF RemoveUrls, RemoveUrlsFails, RemoveFile, RemoveDone
<1>6. CASE Commit(j) \/ Rollback(j)
  BY <1>6 DEF Commit, Rollback, EndTransaction
<1>7. CASE Exit(j)
  BY <1>7 DEF Exit
<1>8. QED
  BY <1>1, <1>2, <1>3, <1>4, <1>5, <1>6, <1>7 DEF JobStep, OpenDirFails, Close, Crash

(* The two moments the invariant is made at: the choice of the directory,  *)
(* and the listing of its names.                                           *)
LEMMA ResolveStep ==
    ASSUME ~LookErrors, NEW j \in Jobs, TypeInv, ScanInv, Resolve(j)
    PROVE  Resolved(j)' /\ starting' = starting /\ gone' = gone
<1> USE LayoutAssumption DEF TypeInv, TypeOK, ScanInv
<1>1. UNCHANGED <<starting, gone, disk>>
  BY DEF Resolve, fsVars, histVars
<1>2. CASE JobDir[j] \notin dirs /\ ~JobSlash[j] /\ Parent[JobDir[j]] \in dirs
  <2>1. dir'[j] = Parent[JobDir[j]] /\ dir'[j] # NoDir
    BY <1>2 DEF Resolve, MissesDir
  <2>2. FilesIn(JobDir[j]) \subseteq Files \ OnDisk
    BY <1>2 DEF DirsInv, FilesIn
  <2>3. Files \ OnDisk \subseteq gone[j]
    BY DEF Resolve, GoneInv
  <2>4. QED
    BY <1>1, <1>2, <2>1, <2>2, <2>3 DEF Resolved
<1>3. CASE ~(JobDir[j] \notin dirs /\ ~JobSlash[j] /\ Parent[JobDir[j]] \in dirs)
  <2>1. dir'[j] = JobDir[j]
    BY <1>3 DEF Resolve, MissesDir
  <2>2. QED
    BY <1>1, <2>1 DEF Resolved
<1>4. QED
  BY <1>1, <1>2, <1>3

LEMMA OpenDirStep ==
    ASSUME PrefixExact, ~LookErrors, NEW j \in Jobs, TypeInv, ScanInv, OpenDir(j)
    PROVE  /\ starting' = starting /\ gone' = gone
           /\ pc'[j] = "scan" => starting[j] \subseteq gone[j] \cup todo'[j]
           /\ pc'[j] = "remove" => starting[j] \subseteq gone[j]
           /\ pc'[j] \in {"scan", "remove"}
<1> USE LayoutAssumption DEF TypeInv, TypeOK, ScanInv, OpenDir, MissesDir, Goto
<1>1. starting' = starting /\ gone' = gone /\ pc'[j] \in {"scan", "remove"}
  BY DEF histVars
<1>2. Files \ OnDisk \subseteq gone[j]
  BY DEF GoneInv
<1>3. dir[j] \in Dirs /\ starting[j] \subseteq FilesIn(dir[j]) \cup gone[j]
  <2>1. Resolved(j) /\ starting[j] \subseteq Under[dir[j]]
    BY DEF PhaseInv
  <2>2. QED
    BY <2>1 DEF Resolved, PrefixExact
<1>4. CASE dir[j] \in dirs
  <2>1. pc'[j] = "scan" /\ todo'[j] = FilesIn(dir[j]) \cap OnDisk
    BY <1>4
  <2>2. FilesIn(dir[j]) \subseteq Files
    BY DEF FilesIn
  <2>3. QED
    BY <1>1, <1>2, <1>3, <2>1, <2>2
<1>5. CASE dir[j] \notin dirs
  <2>1. pc'[j] = "remove"
    BY <1>5
  <2>2. FilesIn(dir[j]) \subseteq Files \ OnDisk
    BY <1>5 DEF FilesIn, DirsInv
  <2>3. QED
    BY <1>1, <1>2, <1>3, <2>1, <2>2
<1>6. QED
  BY <1>4, <1>5

(* A job's own step keeps its part of the invariant.                       *)
LEMMA OwnStep ==
    ASSUME PrefixExact, ~LookErrors, NEW j \in Jobs, TypeInv, ScanInv,
           Start(j) \/ JobStep(j) \/ Crash(j)
    PROVE  GoneInv(j)' /\ PhaseInv(j)'
<1> USE DEF TypeInv, TypeOK, ScanInv, GoneInv, PhaseInv, OnDisk, Goto, fsVars, histVars
<1>1. CASE Start(j)
  BY <1>1 DEF Start
<1>2. CASE Resolve(j)
  BY <1>2, ResolveStep DEF Resolve
<1>3. CASE List(j)
  <2>1. UNCHANGED <<dir, gone, disk>> /\ pc'[j] = "opendir" /\ pc[j] = "list"
    BY <1>3 DEF List
  <2>2. starting'[j] \subseteq Under[dir[j]]
    BY <1>3 DEF List
  <2>3. Resolved(j)'
    BY <2>1 DEF Resolved
  <2>4. QED
    BY <2>1, <2>2, <2>3
<1>4. CASE OpenDir(j)
  BY <1>4, OpenDirStep DEF OpenDir
<1>5. CASE Scan(j)
  <2>1. PICK f \in todo[j] : cur'[j] = f /\ todo'[j] = todo[j] \ {f}
    BY <1>5 DEF Scan
  <2>2. UNCHANGED <<disk, starting, gone>> /\ pc[j] = "scan" /\ pc'[j] = "check"
    BY <1>5 DEF Scan
  <2>3. QED
    BY <2>1, <2>2
<1>6. CASE ScanDone(j)
  BY <1>6 DEF ScanDone
<1>7. CASE CheckCurrent(j) \/ StampFails(j) \/ InsertDone(j) \/ CheckOutOfDate(j)
           \/ Stamp(j) \/ Load(j)
  <2>1. /\ UNCHANGED <<disk, gone, todo>>
        /\ pc[j] \in {"check", "stamp", "load", "insert"}
    BY <1>7 DEF CheckCurrent, StampFails, InsertDone, CheckOutOfDate, Stamp, Load
  <2>2. CASE CheckCurrent(j) \/ StampFails(j) \/ InsertDone(j)
    <3>1. pc'[j] = "scan" /\ starting'[j] = starting[j] \ {cur[j]}
      BY <2>2 DEF CheckCurrent, StampFails, InsertDone, NextName
    <3>2. QED
      BY <2>1, <3>1
  <2>3. CASE CheckOutOfDate(j) \/ Stamp(j) \/ Load(j)
    <3>1. pc'[j] \in {"stamp", "load", "insert"} /\ UNCHANGED <<starting, cur>>
      BY <2>3 DEF CheckOutOfDate, Stamp, Load
    <3>2. QED
      BY <2>1, <3>1
  <2>4. QED
    BY <1>7, <2>2, <2>3
<1>8. CASE InsertEntry(j) \/ SkipEntry(j)
  <2>1. UNCHANGED <<disk, pc, dir, starting, todo, cur, gone>> /\ pc[j] = "insert"
    BY <1>8 DEF InsertEntry, SkipEntry, NextEntry
  <2>2. QED
    BY <2>1
<1>9. CASE RemoveUrls(j) \/ RemoveUrlsFails(j)
  <2>1. UNCHANGED <<disk, gone>> /\ pc[j] = "remove"
    BY <1>9 DEF RemoveUrls, RemoveUrlsFails
  <2>2. CASE RemoveUrls(j)
    <3>1. pc'[j] = "delfile" /\ starting' = starting /\ cur'[j] \in starting[j]
      BY <2>2 DEF RemoveUrls
    <3>2. QED
      BY <2>1, <3>1
  <2>3. CASE RemoveUrlsFails(j)
    <3>1. pc' = pc /\ starting'[j] \subseteq starting[j]
      BY <2>3 DEF RemoveUrlsFails
    <3>2. QED
      BY <2>1, <3>1
  <2>4. QED
    BY <1>9, <2>2, <2>3
<1>10. CASE RemoveFile(j) \/ RemoveDone(j)
  BY <1>10 DEF RemoveFile, RemoveDone
<1>11. CASE Commit(j) \/ Rollback(j)
  <2>1. /\ UNCHANGED <<disk, gone>> /\ pc[j] \in {"delfile", "commit"}
        /\ pc'[j] = "remove" /\ starting'[j] = starting[j] \ {cur[j]}
    BY <1>11 DEF Commit, Rollback, EndTransaction
  <2>2. QED
    BY <2>1
<1>12. CASE Exit(j)
  BY <1>12 DEF Exit
<1>13. QED
  BY <1>1, <1>2, <1>3, <1>4, <1>5, <1>6, <1>7, <1>8, <1>9, <1>10, <1>11, <1>12
     DEF JobStep, OpenDirFails, Close, Crash

LEMMA ScanStep ==
    ASSUME PrefixExact, ~LookErrors
    PROVE  TypeInv /\ ScanInv /\ [Next]_vars => ScanInv'
<1> SUFFICES ASSUME TypeInv, ScanInv, [Next]_vars PROVE ScanInv'
  OBVIOUS
<1>1. CASE \/ \E f \in Files : WriteFile(f) \/ UnlinkFile(f)
           \/ \E d \in Dirs : RemoveDir(d)
  <2>1. /\ UNCHANGED jobVars /\ DirsInv' /\ \A j \in Jobs : GoneInv(j)'
        /\ \A j \in Jobs : pc[j] # "idle" => gone[j] \subseteq gone'[j]
    BY <1>1, EditEffect
  <2>2. ASSUME NEW j \in Jobs PROVE PhaseInv(j)'
    BY <2>1 DEF ScanInv, PhaseInv, Resolved, jobVars
  <2>3. QED
    BY <2>1, <2>2 DEF ScanInv
<1>2. ASSUME NEW j \in Jobs, Start(j) \/ JobStep(j) \/ Crash(j)
      PROVE  ScanInv'
  <2>1. Others(j) /\ UNCHANGED fsVars
    BY <1>2, OthersKept
  <2>2. ASSUME NEW k \in Jobs \ {j} PROVE GoneInv(k)' /\ PhaseInv(k)'
    BY <2>1 DEF Others, ScanInv, GoneInv, PhaseInv, Resolved, OnDisk, fsVars
  <2>3. GoneInv(j)' /\ PhaseInv(j)'
    BY <1>2, OwnStep
  <2>4. DirsInv'
    BY <2>1 DEF ScanInv, DirsInv, OnDisk, fsVars
  <2>5. QED
    BY <2>2, <2>3, <2>4 DEF ScanInv
<1>3. CASE UNCHANGED vars
  BY <1>3 DEF ScanInv, DirsInv, GoneInv, PhaseInv, Resolved, OnDisk,
              vars, fsVars, jobVars, histVars
<1>4. QED
  BY <1>1, <1>2, <1>3 DEF Next

(* If no name outside a directory begins with the directory's and no look  *)
(* at the file system fails, a file leaves the database only when it was   *)
(* missing from the disk during the run that removes it; statements that   *)
(* fail and jobs that are killed change nothing in that.                   *)
THEOREM OnlyDeletedRemoved ==
    ASSUME PrefixExact, ~LookErrors
    PROVE  Spec => RemovesOnlyDeleted
<1>1. Init => ScanInv
  BY LayoutAssumption DEF Init, ScanInv, DirsInv, GoneInv, PhaseInv, OnDisk
<1>2. TypeInv /\ ScanInv /\ [Next]_vars => ScanInv'
  BY ScanStep
<1>3. DbInv /\ ScanInv /\ [Next]_vars
        => [\A f \in Names(db) \ Names(db)' :
               \E j \in Jobs : pc[j] = "commit" /\ cur[j] = f /\ f \in gone[j]]_vars
  <2>1. SUFFICES ASSUME DbInv, ScanInv, [Next]_vars,
                        NEW f \in Names(db) \ Names(db)'
                 PROVE  \E j \in Jobs : pc[j] = "commit" /\ cur[j] = f /\ f \in gone[j]
    OBVIOUS
  <2>2. PICK j \in Jobs : Commit(j) /\ cur[j] = f
    BY <2>1, OnlyCommitDrops
  <2>3. pc[j] = "commit" /\ f \in gone[j]
    BY <2>1, <2>2 DEF Commit, ScanInv, PhaseInv
  <2>4. QED
    BY <2>2, <2>3
<1>4. QED
  BY <1>1, <1>2, <1>3, TypeInvariant, DbInvariant, PTL DEF Spec, RemovesOnlyDeleted
-----------------------------------------------------------------------------
(* Superseded URLs. Each job reads files of its own directories.           *)
Reading == {"check", "stamp", "load", "insert"}

ReadInv(j) ==
    /\ pc[j] \notin {"idle", "resolve"} => dir[j] \in ReadBy(j)
    /\ pc[j] \in Reading \cup {"scan"} => todo[j] \subseteq FilesIn(dir[j])
    /\ pc[j] \in Reading => cur[j] \in FilesIn(dir[j])

(* No row is there for long that its file did not declare: a new time has  *)
(* left the file without URLs, and only what was then read is inserted.    *)
LoadInv(j) ==
    /\ pc[j] = "load" => Registered(db, cur[j]) = {}
    /\ pc[j] = "insert" => Declared(entries[j]) \subseteq loaded[cur[j]]

ReadingInv == \A j \in Jobs : ReadInv(j)

LoadedInv == ~dropped => /\ RowsApart(db)
                         /\ \A f \in Files : Registered(db, f) \subseteq loaded[f]
                         /\ \A j \in Jobs : LoadInv(j)

LEMMA OwnRead ==
    ASSUME NEW j \in Jobs, TypeInv, ReadInv(j), Start(j) \/ JobStep(j) \/ Crash(j)
    PROVE  ReadInv(j)'
<1> USE DEF TypeInv, TypeOK, ReadInv, Reading, Goto
<1>1. CASE Start(j)
  BY <1>1 DEF Start
<1>2. CASE Resolve(j)
  <2>1. JobDir[j] \in Dirs /\ NoDir \notin Dirs
    BY LayoutAssumption
  <2>2. pc'[j] = "list" /\ dir'[j] \in ReadBy(j)
    BY <1>2, <2>1 DEF Resolve, ReadBy
  <2>3. QED
    BY <2>2
<1>3. CASE List(j) \/ ScanDone(j)
  BY <1>3 DEF List, ScanDone
<1>4. CASE OpenDir(j)
  BY <1>4 DEF OpenDir
<1>5. CASE Scan(j)
  <2>1. PICK f \in todo[j] : cur'[j] = f /\ todo'[j] = todo[j] \ {f}
    BY <1>5 DEF Scan
  <2>2. UNCHANGED dir /\ pc[j] = "scan" /\ pc'[j] = "check"
    BY <1>5 DEF Scan
  <2>3. QED
    BY <2>1, <2>2
<1>6. CASE CheckCurrent(j) \/ StampFails(j) \/ InsertDone(j)
  BY <1>6 DEF CheckCurrent, StampFails, InsertDone, NextName
<1>7. CASE CheckOutOfDate(j) \/ Stamp(j) \/ Load(j)
  BY <1>7 DEF CheckOutOfDate, Stamp, Load
<1>8. CASE InsertEntry(j) \/ SkipEntry(j)
  BY <1>8 DEF InsertEntry, SkipEntry, NextEntry
<1>9. CASE RemoveUrls(j) \/ RemoveUrlsFails(j) \/ RemoveFile(j) \/ RemoveDone(j)
  BY <1>9 DEF RemoveUrls, RemoveUrlsFails, RemoveFile, RemoveDone
<1>10. CASE Commit(j) \/ Rollback(j)
  BY <1>10 DEF Commit, Rollback, EndTransaction
<1>11. CASE Exit(j)
  BY <1>11 DEF Exit
<1>12. QED
  BY <1>1, <1>2, <1>3, <1>4, <1>5, <1>6, <1>7, <1>8, <1>9, <1>10, <1>11
     DEF JobStep, OpenDirFails, Close, Crash

(* A change of the file system touches neither a job nor the database.     *)
LEMMA EditsApart ==
    ASSUME \/ \E f \in Files : WriteFile(f) \/ UnlinkFile(f)
           \/ \E d \in Dirs : RemoveDir(d)
           \/ UNCHANGED vars
    PROVE  UNCHANGED <<pc, dir, todo, cur, entries, db, loaded, dropped>>
BY DEF WriteFile, UnlinkFile, RemoveDir, Edit, jobVars, dbVars, histVars, vars

LEMMA ReadStep == TypeInv /\ ReadingInv /\ [Next]_vars => ReadingInv'
<1> SUFFICES ASSUME TypeInv, ReadingInv, [Next]_vars PROVE ReadingInv'
  OBVIOUS
<1>1. CASE \/ \E f \in Files : WriteFile(f) \/ UnlinkFile(f)
           \/ \E d \in Dirs : RemoveDir(d)
           \/ UNCHANGED vars
  BY <1>1, EditsApart DEF ReadingInv, ReadInv
<1>2. ASSUME NEW j \in Jobs, Start(j) \/ JobStep(j) \/ Crash(j)
      PROVE  ReadingInv'
  <2>1. Others(j)
    BY <1>2, OthersKept
  <2>2. \A k \in Jobs \ {j} : ReadInv(k)'
    BY <2>1 DEF Others, ReadingInv, ReadInv
  <2>3. ReadInv(j)'
    BY <1>2, OwnRead DEF ReadingInv
  <2>4. QED
    BY <2>2, <2>3 DEF ReadingInv
<1>3. QED
  BY <1>1, <1>2 DEF Next

(* So no two jobs are on the same file at once.                            *)
LEMMA FilesApart ==
    ASSUME JobsApart, ReadingInv, NEW j \in Jobs, NEW k \in Jobs, j # k,
           pc[j] \in Reading, pc[k] \in Reading
    PROVE  cur[j] # cur[k]
<1>1. dir[j] \in ReadBy(j) /\ dir[k] \in ReadBy(k)
  BY DEF ReadingInv, ReadInv, Reading
<1>2. dir[j] # dir[k]
  BY <1>1 DEF JobsApart
<1>3. DirOf[cur[j]] = dir[j] /\ DirOf[cur[k]] = dir[k]
  BY DEF ReadingInv, ReadInv, FilesIn
<1>4. QED
  BY <1>2, <1>3

(* The entry in hand is among those declared, and so are those that follow.*)
LEMMA DeclaredTail ==
    ASSUME NEW c \in Seq(Entry), c # <<>>
    PROVE  /\ Declared(Tail(c)) \subseteq Declared(c)
           /\ Head(c) \in Entry
           /\ Accepted(Head(c)) => UrlOf(Head(c)) \in Declared(c)
<1>1. /\ Head(c) = c[1] /\ 1 \in DOMAIN c /\ c[1] \in Entry
      /\ \A k \in DOMAIN Tail(c) : k + 1 \in DOMAIN c /\ Tail(c)[k] = c[k + 1]
  BY HeadTailProperties, LenProperties
<1>2. ASSUME NEW k \in DOMAIN Tail(c), Accepted(Tail(c)[k])
      PROVE  UrlOf(Tail(c)[k]) \in Declared(c)
    BY <1>1, <1>2 DEF Declared
<1>3. Declared(Tail(c)) \subseteq Declared(c)
  BY <1>2 DEF Declared
<1>4. QED
  BY <1>1, <1>3 DEF Declared

(* What a job does to what was read, and to the database.                  *)
LEMMA EntriesKept ==
    ASSUME NEW j \in Jobs, TypeInv, Start(j) \/ JobStep(j) \/ Crash(j)
    PROVE  \A k \in Jobs \ {j} : entries'[k] = entries[k]
<1> USE DEF TypeInv, TypeOK
<1>1. CASE \/ Start(j) \/ Resolve(j) \/ List(j) \/ OpenDir(j) \/ Scan(j) \/ ScanDone(j)
           \/ CheckCurrent(j) \/ CheckOutOfDate(j) \/ Stamp(j) \/ StampFails(j) \/ InsertDone(j)
  BY <1>1 DEF Start, Resolve, List, OpenDir, Scan, ScanDone, CheckCurrent, CheckOutOfDate,
     Stamp, StampFails, InsertDone
<1>2. CASE Load(j) \/ InsertEntry(j) \/ SkipEntry(j)
  BY <1>2 DEF Load, InsertEntry, SkipEntry, NextEntry
<1>3. CASE \/ RemoveUrls(j) \/ RemoveUrlsFails(j) \/ RemoveFile(j) \/ RemoveDone(j)
           \/ Commit(j) \/ Rollback(j) \/ Exit(j)
  BY <1>3 DEF RemoveUrls, RemoveUrlsFails, RemoveFile, RemoveDone, Commit, Rollback,
     EndTransaction, Exit
<1>4. QED
  BY <1>1, <1>2, <1>3 DEF JobStep, OpenDirFails, Close, Crash

(* As long as no row has been removed, nothing but a new time, a reading   *)
(* or an insert matters: a commit finds nothing to delete.                 *)
LEMMA QuietJob ==
    ASSUME NEW j \in Jobs, DbInv, Start(j) \/ JobStep(j) \/ Crash(j), ~dropped',
           ~Stamp(j), ~Load(j), ~InsertEntry(j)
    PROVE  /\ ~dropped /\ UNCHANGED <<db, loaded>>
           /\ \/ pc'[j] \notin {"load", "insert"}
              \/ /\ pc[j] = "insert" /\ pc' = pc /\ cur' = cur
                 /\ entries[j] # <<>> /\ entries'[j] = Tail(entries[j])
<1> USE DEF DbInv, TypeInv, TypeOK, Goto, histVars, dbVars
<1>1. CASE \/ Start(j) \/ Resolve(j) \/ List(j) \/ OpenDir(j) \/ Scan(j) \/ ScanDone(j)
           \/ CheckOutOfDate(j)
  BY <1>1 DEF Start, Resolve, List, OpenDir, Scan, ScanDone, CheckOutOfDate
<1>2. CASE CheckCurrent(j) \/ StampFails(j) \/ InsertDone(j)
  BY <1>2 DEF CheckCurrent, StampFails, InsertDone, NextName
<1>3. CASE SkipEntry(j)
  BY <1>3 DEF SkipEntry, NextEntry
<1>4. CASE RemoveUrls(j) \/ RemoveFile(j) \/ RemoveDone(j)
  BY <1>4 DEF RemoveUrls, RemoveFile, RemoveDone
<1>5. CASE RemoveUrlsFails(j)
  BY <1>5 DEF RemoveUrlsFails
<1>6. CASE Rollback(j) \/ Exit(j)
  BY <1>6 DEF Rollback, EndTransaction, Exit
<1>7. CASE Commit(j)
  <2>1. /\ pc[j] = "commit" /\ pc'[j] = "remove" /\ UNCHANGED loaded
        /\ ~dropped /\ txn.files = db.files /\ db' = txn
    BY <1>7 DEF Commit, EndTransaction
  <2>2. cur[j] \in Files /\ txn = DeleteFile(DeleteUrls(db, cur[j]), cur[j])
    BY <2>1 DEF TxnInv, CurInv, Working
  <2>3. txn = db
    BY <2>1, <2>2, RemovesNothing
  <2>4. QED
    BY <2>1, <2>3
<1>8. QED
  BY <1>1, <1>2, <1>3, <1>4, <1>5, <1>6, <1>7 DEF JobStep, OpenDirFails, Close, Crash

LEMMA StampLoaded ==
    ASSUME JobsApart, NEW j \in Jobs, TypeInv, ReadingInv, LoadedInv, ~dropped, Stamp(j)
    PROVE  LoadedInv'
<1> USE DEF TypeInv, TypeOK
<1>1. /\ pc[j] = "stamp" /\ pc' = [pc EXCEPT ![j] = "load"]
      /\ cur' = cur /\ entries' = entries /\ loaded' = [loaded EXCEPT ![cur[j]] = {}]
      /\ cur[j] \in Files
  BY DEF Stamp, Goto, CurInv, Working
<1>2. PICK n \in RowIds : IsNextRowId(db, n) /\ db' = SetFileTime(db, n, cur[j], filetime[j])
  BY DEF Stamp
<1>3. filetime[j] \in Nat /\ db \in Db /\ RowsApart(db)
  BY DEF LoadedInv
<1>4. /\ RowsApart(db')
      /\ Registered(db', cur[j]) = {}
      /\ \A g \in Files \ {cur[j]} : Registered(db', g) = Registered(db, g)
  BY <1>1, <1>2, <1>3, StampForgets
<1>5. \A f \in Files : Registered(db', f) \subseteq loaded'[f]
  BY <1>1, <1>4 DEF LoadedInv
<1>6. ASSUME NEW k \in Jobs PROVE LoadInv(k)'
  <2>1. CASE k = j
    BY <1>1, <1>4, <2>1 DEF LoadInv
  <2>2. CASE k # j /\ pc[k] \in {"load", "insert"}
    <3>1. cur[k] # cur[j]
      BY <1>1, <2>2, FilesApart DEF Reading
    <3>2. cur[k] \in Files /\ pc'[k] = pc[k]
      BY <1>1, <2>2 DEF CurInv, Working
    <3>3. QED
      BY <1>1, <1>4, <3>1, <3>2 DEF LoadedInv, LoadInv
  <2>3. CASE k # j /\ pc[k] \notin {"load", "insert"}
    BY <1>1, <2>3 DEF LoadInv
  <2>4. QED
    BY <2>1, <2>2, <2>3
<1>7. QED
  BY <1>4, <1>5, <1>6 DEF LoadedInv

LEMMA LoadLoaded ==
    ASSUME JobsApart, NEW j \in Jobs, TypeInv, ReadingInv, LoadedInv, ~dropped, Load(j)
    PROVE  LoadedInv'
<1> USE DEF TypeInv, TypeOK
<1>1. /\ pc[j] = "load" /\ pc' = [pc EXCEPT ![j] = "insert"] /\ cur' = cur /\ db' = db
      /\ cur[j] \in Files
  BY DEF Load, Goto, CurInv, Working, dbVars
<1>2. PICK c : entries' = [entries EXCEPT ![j] = c]
                 /\ loaded' = [loaded EXCEPT ![cur[j]] = Declared(c)]
  BY DEF Load
<1>3. \A f \in Files : Registered(db', f) \subseteq loaded'[f]
  BY <1>1, <1>2 DEF LoadedInv, LoadInv
<1>4. ASSUME NEW k \in Jobs PROVE LoadInv(k)'
  <2>1. CASE k = j
    BY <1>1, <1>2, <2>1 DEF LoadInv
  <2>2. CASE k # j /\ pc[k] \in {"load", "insert"}
    <3>1. cur[k] # cur[j]
      BY <1>1, <2>2, FilesApart DEF Reading
    <3>2. cur[k] \in Files /\ pc'[k] = pc[k]
      BY <1>1, <2>2 DEF CurInv, Working
    <3>3. loaded'[cur[k]] = loaded[cur[k]] /\ entries'[k] = entries[k]
      BY <1>2, <2>2, <3>1, <3>2
    <3>4. QED
      BY <1>1, <3>2, <3>3 DEF LoadedInv, LoadInv
  <2>3. CASE k # j /\ pc[k] \notin {"load", "insert"}
    BY <1>1, <2>3 DEF LoadInv
  <2>4. QED
    BY <2>1, <2>2, <2>3
<1>5. QED
  BY <1>1, <1>3, <1>4 DEF LoadedInv

LEMMA InsertLoaded ==
    ASSUME JobsApart, NEW j \in Jobs, TypeInv, ReadingInv, LoadedInv, ~dropped, InsertEntry(j)
    PROVE  LoadedInv'
<1> USE DEF TypeInv, TypeOK
<1> DEFINE u == UrlOf(Head(entries[j]))
<1>1. /\ pc[j] = "insert" /\ pc' = pc /\ cur' = cur /\ loaded' = loaded
      /\ entries[j] # <<>> /\ entries' = [entries EXCEPT ![j] = Tail(entries[j])]
      /\ Accepted(Head(entries[j])) /\ db' = InsertUrl(db, cur[j], u)
      /\ cur[j] \in Files
  BY DEF InsertEntry, NextEntry, CurInv, Working, histVars
<1>2. /\ Declared(Tail(entries[j])) \subseteq Declared(entries[j])
      /\ u \in Declared(entries[j]) /\ u \in Urls
  BY <1>1, DeclaredTail, UrlType
<1>3. Declared(entries[j]) \subseteq loaded[cur[j]]
  BY <1>1 DEF LoadedInv, LoadInv
<1> HIDE DEF u
<1>4. /\ RowsApart(db')
      /\ Registered(db', cur[j]) \subseteq Registered(db, cur[j]) \cup {u}
      /\ \A g \in Files \ {cur[j]} : Registered(db', g) \subseteq Registered(db, g)
  BY <1>1, <1>2, InsertAdds DEF LoadedInv
<1>5. \A f \in Files : Registered(db', f) \subseteq loaded'[f]
  BY <1>1, <1>2, <1>3, <1>4 DEF LoadedInv
<1>6. ASSUME NEW k \in Jobs PROVE LoadInv(k)'
  <2>1. CASE k = j
    BY <1>1, <1>2, <1>3, <2>1 DEF LoadInv
  <2>2. CASE k # j /\ pc[k] \in {"load", "insert"}
    <3>1. cur[k] # cur[j]
      BY <1>1, <2>2, FilesApart DEF Reading
    <3>2. cur[k] \in Files /\ entries'[k] = entries[k]
      BY <1>1, <2>2 DEF CurInv, Working
    <3>3. QED
      BY <1>1, <1>4, <3>1, <3>2 DEF LoadedInv, LoadInv
  <2>3. CASE k # j /\ pc[k] \notin {"load", "insert"}
    BY <1>1, <2>3 DEF LoadInv
  <2>4. QED
    BY <2>1, <2>2, <2>3
<1>7. QED
  BY <1>4, <1>5, <1>6 DEF LoadedInv

LEMMA LoadedStep ==
    ASSUME JobsApart
    PROVE  DbInv /\ ReadingInv /\ LoadedInv /\ [Next]_vars => LoadedInv'
<1> SUFFICES ASSUME DbInv, ReadingInv, LoadedInv, [Next]_vars PROVE LoadedInv'
  OBVIOUS
<1>1. CASE \/ \E f \in Files : WriteFile(f) \/ UnlinkFile(f)
           \/ \E d \in Dirs : RemoveDir(d)
           \/ UNCHANGED vars
  BY <1>1, EditsApart DEF LoadedInv, LoadInv
<1>2. ASSUME NEW j \in Jobs, Start(j) \/ JobStep(j) \/ Crash(j), ~dropped'
      PROVE  LoadedInv'
  <2>1. CASE Stamp(j) \/ Load(j) \/ InsertEntry(j)
    <3>1. ~dropped
      BY <1>2, <2>1 DEF Stamp, Load, InsertEntry, NextEntry, histVars
    <3>2. QED
      BY <2>1, <3>1, StampLoaded, LoadLoaded, InsertLoaded DEF DbInv
  <2>2. CASE ~Stamp(j) /\ ~Load(j) /\ ~InsertEntry(j)
    <3>1. /\ ~dropped /\ UNCHANGED <<db, loaded>>
          /\ \/ pc'[j] \notin {"load", "insert"}
             \/ /\ pc[j] = "insert" /\ pc' = pc /\ cur' = cur
                /\ entries[j] # <<>> /\ entries'[j] = Tail(entries[j])
      BY <1>2, <2>2, QuietJob
    <3>2. LoadInv(j)'
      <4>1. CASE pc'[j] \notin {"load", "insert"}
        BY <4>1 DEF LoadInv
      <4>2. CASE /\ pc[j] = "insert" /\ pc' = pc /\ cur' = cur
                 /\ entries[j] # <<>> /\ entries'[j] = Tail(entries[j])
        <5>1. Declared(Tail(entries[j])) \subseteq Declared(entries[j])
          BY <4>2, DeclaredTail DEF DbInv, TypeInv, TypeOK
        <5>2. QED
          BY <3>1, <4>2, <5>1 DEF LoadedInv, LoadInv
      <4>3. QED
        BY <3>1, <4>1, <4>2
    <3>3. ASSUME NEW k \in Jobs \ {j} PROVE LoadInv(k)'
      <4>1. pc'[k] = pc[k] /\ cur'[k] = cur[k] /\ entries'[k] = entries[k]
        BY <1>2, OthersKept, EntriesKept DEF DbInv, Others
      <4>2. QED
        BY <3>1, <4>1 DEF LoadedInv, LoadInv
    <3>4. QED
      BY <3>1, <3>2, <3>3 DEF LoadedInv
  <2>3. QED
    BY <2>1, <2>2
<1>3. CASE dropped'
  BY <1>3 DEF LoadedInv
<1>4. QED
  BY <1>1, <1>2, <1>3 DEF Next

(* If no two updaters read the same directory, no lookup ever answers a    *)
(* file for a URL it declared earlier and does not now, until the first    *)
(* row is removed; whatever fails, and whoever is killed on the way.       *)
THEOREM SupersededForgotten ==
    ASSUME JobsApart
    PROVE  Spec => []NoSupersededUrls
<1>1. Init => ReadingInv /\ LoadedInv
  BY DEF Init, ReadingInv, ReadInv, Reading, LoadedInv, LoadInv, RowsApart, UniqueIds, Registered, EmptyDb
<1>2. TypeInv /\ ReadingInv /\ [Next]_vars => ReadingInv'
  BY ReadStep
<1>3. DbInv /\ ReadingInv /\ LoadedInv /\ [Next]_vars => LoadedInv'
  BY LoadedStep
<1>4. LoadedInv => NoSupersededUrls
  BY DEF LoadedInv, NoSupersededUrls
<1>5. QED
  BY <1>1, <1>2, <1>3, <1>4, TypeInvariant, DbInvariant, PTL DEF Spec
-----------------------------------------------------------------------------
(* What a run that nothing disturbs ends with. Another updater, a failing  *)
(* call, a kill or a file that is rewritten without a later time can each  *)
(* leave URLs out for good; update_contention and update_crash show it of  *)
(* two of them.                                                            *)
Undisturbed ==
    /\ PrefixExact
    /\ \A j, k \in Jobs : j = k
    /\ ~Errors /\ ~LookErrors /\ ~Crashes /\ ~OldTimes

Current(f) == \E r \in RowsOf(db, f) : disk[f].time <= r.time

(* No row is from the future, and no two share a rowid.                    *)
RowInv == UniqueIds(db) /\ \A r \in db.files : r.time <= edits

(* A file whose row is not older than it can be looked up by all its URLs, *)
(* but for those that a job is about to insert.                            *)
ToCome(f, u) ==
    \E j \in Jobs : /\ cur[j] = f
                    /\ pc[j] = "load" \/ (pc[j] = "insert" /\ u \in Declared(entries[j]))

FreshInv ==
    \A f \in OnDisk : Current(f) =>
       \A u \in Declared(disk[f].content) : u \in Registered(db, f) \/ ToCome(f, u)

(* How far a job has come in a run during which no file changed: what is   *)
(* on disk is current, at hand or still to come, and what is in the        *)
(* database but not on disk is still to be removed.                        *)
Removing == {"remove", "delfile", "commit", "close"}

Scanned(j) ==
    /\ todo[j] \subseteq OnDisk
    /\ \A f \in FilesIn(dir[j]) \cap OnDisk :
          f \in todo[j] \/ Current(f) \/ (f = cur[j] /\ pc[j] \in {"check", "stamp"})

AtHand(j) == cur[j] \in OnDisk /\ filetime[j] = disk[cur[j]].time

AllCurrent(j) == \A f \in FilesIn(dir[j]) \cap OnDisk : Current(f)

Listed(j) == (FilesIn(JobDir[j]) \cap Names(db)) \ OnDisk \subseteq starting[j]

UntouchedInv(j) ==
    pc[j] # "idle" /\ ~touched[j] =>
       /\ gone[j] \cap OnDisk = {}
       /\ pc[j] # "resolve" => Resolved(j)
       /\ pc[j] \in Reading \cup {"scan"} => Scanned(j)
       /\ pc[j] \in Reading => AtHand(j)
       /\ pc[j] \in Removing => AllCurrent(j)
       /\ pc[j] \notin {"resolve", "list"} => Listed(j)
       /\ pc[j] = "close" => starting[j] = {}

UpToDateInv == RowInv /\ FreshInv /\ \A j \in Jobs : UntouchedInv(j)

AllInv == DbInv /\ TimeInv /\ ScanInv /\ UpToDateInv

(* One job alone never fails to write.                                     *)
LEMMA NeverFails ==
    ASSUME Undisturbed, TypeInv, NEW j \in Jobs
    PROVE  ~StampFails(j) /\ ~RemoveUrlsFails(j) /\ ~Rollback(j) /\ ~Crash(j) /\ ~OpenDirFails(j)
<1>1. CanWrite(j)
  BY DEF CanWrite, Undisturbed, TypeInv, TypeOK
<1>2. QED
  BY <1>1 DEF StampFails, RemoveUrlsFails, Rollback, Crash, OpenDirFails, MayFail, Undisturbed

(* A change of the file system makes a file newer than any row, or absent. *)
LEMMA EditNews ==
    ASSUME Undisturbed, AllInv,
           \/ \E f \in Files : WriteFile(f) \/ UnlinkFile(f)
           \/ \E d \in Dirs : RemoveDir(d)
    PROVE  /\ edits' = edits + 1 /\ UNCHANGED <<db, pc, cur, entries>>
           /\ \A j \in Jobs : pc[j] # "idle" => touched'[j]
           /\ \A f \in OnDisk' : \/ f \in OnDisk /\ disk'[f] = disk[f]
                                 \/ disk'[f].time = edits + 1
<1> USE DEF AllInv, DbInv, TypeInv, TypeOK
<1>1. Edit
  BY DEF WriteFile, UnlinkFile, RemoveDir
<1>2. edits' = edits + 1 /\ UNCHANGED <<db, pc, cur, entries>>
  BY <1>1 DEF Edit, dbVars, jobVars
<1>3. \A j \in Jobs : pc[j] # "idle" => touched'[j]
  BY <1>1 DEF Edit
<1>4. ASSUME NEW f \in Files, WriteFile(f), NEW g \in OnDisk'
      PROVE  (g \in OnDisk /\ disk'[g] = disk[g]) \/ disk'[g].time = edits + 1
  <2>1. PICK c \in Contents : disk' = [disk EXCEPT ![f] = [time |-> edits + 1, content |-> c]]
    BY <1>4 DEF WriteFile, Undisturbed
  <2>2. CASE g = f
    BY <2>1, <2>2 DEF OnDisk
  <2>3. CASE g # f
    BY <2>1, <2>3 DEF OnDisk
  <2>4. QED
    BY <2>2, <2>3
<1>5. ASSUME NEW S \in SUBSET Files, Lose(S), NEW g \in OnDisk'
      PROVE  g \in OnDisk /\ disk'[g] = disk[g]
  BY <1>5 DEF Lose, OnDisk
<1>6. ASSUME NEW f \in Files, UnlinkFile(f) PROVE Lose({f})
  BY <1>6 DEF UnlinkFile
<1>7. ASSUME NEW d \in Dirs, RemoveDir(d) PROVE Lose(FilesIn(d)) /\ FilesIn(d) \in SUBSET Files
  BY <1>7 DEF RemoveDir, FilesIn
<1>8. QED
  BY <1>2, <1>3, <1>4, <1>5, <1>6, <1>7

LEMMA EditUpToDate ==
    ASSUME Undisturbed, AllInv,
           \/ \E f \in Files : WriteFile(f) \/ UnlinkFile(f)
           \/ \E d \in Dirs : RemoveDir(d)
    PROVE  UpToDateInv'
<1>1. /\ edits' = edits + 1 /\ UNCHANGED <<db, pc, cur, entries>>
      /\ \A j \in Jobs : pc[j] # "idle" => touched'[j]
      /\ \A f \in OnDisk' : \/ f \in OnDisk /\ disk'[f] = disk[f]
                            \/ disk'[f].time = edits + 1
  BY EditNews
<1>2. edits \in Nat /\ \A r \in db.files : r.time \in Nat /\ r.time <= edits
  BY DEF AllInv, DbInv, TypeInv, TypeOK, UpToDateInv, RowInv, Db, FileRow
<1>3. RowInv'
  BY <1>1, <1>2 DEF AllInv, UpToDateInv, RowInv
<1>4. FreshInv'
  <2> SUFFICES ASSUME NEW f \in OnDisk', Current(f)', NEW u \in Declared(disk'[f].content)
               PROVE  u \in Registered(db', f) \/ ToCome(f, u)'
    BY DEF FreshInv
  <2>1. PICK r \in RowsOf(db, f) : disk'[f].time <= r.time
    BY <1>1 DEF Current
  <2>2. f \in OnDisk /\ disk'[f] = disk[f]
    BY <1>1, <1>2, <2>1 DEF RowsOf
  <2>3. Current(f)
    BY <2>1, <2>2 DEF Current
  <2>4. u \in Registered(db, f) \/ ToCome(f, u)
    BY <2>2, <2>3 DEF AllInv, UpToDateInv, FreshInv
  <2>5. QED
    BY <1>1, <2>4 DEF ToCome
<1>5. \A j \in Jobs : UntouchedInv(j)'
  BY <1>1 DEF UntouchedInv
<1>6. QED
  BY <1>3, <1>4, <1>5 DEF UpToDateInv

(* What a job's step does to the rows: it is a stamp, an insert, a commit  *)
(* or none of them.                                                        *)
LEMMA RowKinds ==
    ASSUME NEW j \in Jobs, AllInv, Start(j) \/ JobStep(j) \/ Crash(j),
           ~Stamp(j), ~InsertEntry(j), ~Commit(j)
    PROVE  db' = db
BY DEF Start, JobStep, Crash, Resolve, List, OpenDir, OpenDirFails, Scan, ScanDone, CheckCurrent,
   CheckOutOfDate, StampFails, Load, SkipEntry, InsertDone, RemoveUrls, RemoveUrlsFails,
   RemoveFile, Rollback, RemoveDone, Close, Exit, dbVars

LEMMA StampEffect ==
    ASSUME NEW j \in Jobs, AllInv, Stamp(j)
    PROVE  /\ cur[j] \in Files /\ UniqueIds(db')
           /\ \A r \in db'.files : r \in db.files \/ (r.name = cur[j] /\ r.time = filetime[j])
           /\ \E r \in RowsOf(db', cur[j]) : r.time = filetime[j]
           /\ \A g \in Files \ {cur[j]} : /\ RowsOf(db', g) = RowsOf(db, g)
                                          /\ Registered(db', g) = Registered(db, g)
<1>1. cur[j] \in Files /\ filetime[j] \in Nat /\ db \in Db /\ UniqueIds(db)
  BY DEF AllInv, DbInv, TypeInv, TypeOK, CurInv, Working, Stamp, UpToDateInv, RowInv
<1>2. PICK n \in RowIds : IsNextRowId(db, n) /\ db' = SetFileTime(db, n, cur[j], filetime[j])
  BY DEF Stamp
<1> DEFINE new == [id |-> n, name |-> cur[j], time |-> filetime[j]]
<1>3. /\ UniqueIds(db')
      /\ RowsOf(db', cur[j]) = {new}
      /\ \A g \in Files \ {cur[j]} : /\ RowsOf(db', g) = RowsOf(db, g)
                                     /\ Registered(db', g) = Registered(db, g)
      /\ db'.files \subseteq db.files \cup RowsOf(db', cur[j])
  BY <1>1, <1>2, StampKeeps
<1>4. new.name = cur[j] /\ new.time = filetime[j]
  OBVIOUS
<1> HIDE DEF new
<1>5. QED
  BY <1>1, <1>3, <1>4

LEMMA InsertEffect ==
    ASSUME NEW j \in Jobs, AllInv, InsertEntry(j)
    PROVE  /\ cur[j] \in Files /\ db'.files = db.files
           /\ \A g \in Files : Registered(db, g) \subseteq Registered(db', g)
           /\ RowsOf(db, cur[j]) # {} => UrlOf(Head(entries[j])) \in Registered(db', cur[j])
<1>1. cur[j] \in Files /\ db \in Db /\ entries[j] \in Seq(Entry) /\ entries[j] # <<>>
  BY DEF AllInv, DbInv, TypeInv, TypeOK, CurInv, Working, InsertEntry, NextEntry
<1>2. UrlOf(Head(entries[j])) \in Urls
  BY <1>1, DeclaredTail, UrlType DEF InsertEntry
<1>3. db' = InsertUrl(db, cur[j], UrlOf(Head(entries[j])))
  BY DEF InsertEntry
<1>4. QED
  BY <1>1, <1>2, <1>3, InsertKeeps

LEMMA CommitEffect ==
    ASSUME NEW j \in Jobs, AllInv, Commit(j)
    PROVE  /\ cur[j] \in Files /\ UniqueIds(db')
           /\ db'.files = db.files \ RowsOf(db, cur[j])
           /\ RowsOf(db', cur[j]) = {}
           /\ \A g \in Files \ {cur[j]} : /\ RowsOf(db', g) = RowsOf(db, g)
                                          /\ Registered(db', g) = Registered(db, g)
<1>1. cur[j] \in Files /\ db \in Db /\ UniqueIds(db)
  BY DEF AllInv, DbInv, TypeInv, TypeOK, CurInv, Working, Commit, UpToDateInv, RowInv
<1>2. db' = DeleteFile(DeleteUrls(db, cur[j]), cur[j])
  BY DEF AllInv, DbInv, TxnInv, Commit
<1>3. QED
  BY <1>1, <1>2, RemoveKeeps

LEMMA RowStep ==
    ASSUME NEW j \in Jobs, AllInv, Start(j) \/ JobStep(j) \/ Crash(j)
    PROVE  RowInv'
<1>1. edits' = edits /\ filetime[j] <= edits /\ UniqueIds(db)
      /\ \A r \in db.files : r.time <= edits
  BY OthersKept DEF AllInv, DbInv, TimeInv, UpToDateInv, RowInv, fsVars
<1>2. CASE Stamp(j)
  BY <1>1, <1>2, StampEffect DEF RowInv
<1>3. CASE InsertEntry(j)
  BY <1>1, <1>3, InsertEffect DEF RowInv, UniqueIds
<1>4. CASE Commit(j)
  BY <1>1, <1>4, CommitEffect DEF RowInv
<1>5. CASE ~Stamp(j) /\ ~InsertEntry(j) /\ ~Commit(j)
  BY <1>1, <1>5, RowKinds DEF RowInv
<1>6. QED
  BY <1>2, <1>3, <1>4, <1>5

(* What is declared by an entry and by those that follow is all there is.  *)
LEMMA DeclaredHead ==
    ASSUME NEW c \in Seq(Entry), c # <<>>, NEW u \in Declared(c)
    PROVE  u \in Declared(Tail(c)) \/ (Accepted(Head(c)) /\ u = UrlOf(Head(c)))
<1>1. PICK k \in DOMAIN c : Accepted(c[k]) /\ u = UrlOf(c[k])
  BY DEF Declared
<1>2. Head(c) = c[1]
  BY HeadTailProperties
<1>3. CASE k = 1
  BY <1>1, <1>2, <1>3
<1>4. CASE k # 1
  <2>1. k - 1 \in DOMAIN Tail(c) /\ Tail(c)[k - 1] = c[k]
    BY <1>4, HeadTailProperties, LenProperties
  <2>2. QED
    BY <1>1, <2>1 DEF Declared
<1>5. QED
  BY <1>3, <1>4

LEMMA FreshStep ==
    ASSUME Undisturbed, NEW j \in Jobs, AllInv, Start(j) \/ JobStep(j) \/ Crash(j)
    PROVE  FreshInv'
<1> SUFFICES ASSUME NEW f \in OnDisk', Current(f)', NEW u \in Declared(disk'[f].content)
             PROVE  u \in Registered(db', f) \/ ToCome(f, u)'
  BY DEF FreshInv
<1> USE DEF Goto
<1>1. /\ disk' = disk /\ f \in OnDisk /\ f \in Files /\ u \in Declared(disk[f].content)
      /\ \A k \in Jobs : k = j
  BY OthersKept DEF AllInv, DbInv, fsVars, OnDisk, Undisturbed
<1>2. /\ pc \in [Jobs -> Phases] /\ entries \in [Jobs -> Seq(Entry)]
      /\ cur \in [Jobs -> Files \cup {NoFile}]
  BY DEF AllInv, DbInv, TypeInv, TypeOK
<1>3. ASSUME Current(f)
      PROVE  \/ u \in Registered(db, f)
             \/ cur[j] = f /\ pc[j] = "load"
             \/ cur[j] = f /\ pc[j] = "insert" /\ u \in Declared(entries[j])
  BY <1>1, <1>3 DEF AllInv, UpToDateInv, FreshInv, ToCome
<1>4. CASE Stamp(j)
  <2>1. CASE f = cur[j]
    <3>1. pc'[j] = "load" /\ cur'[j] = f
      BY <1>2, <1>4, <2>1 DEF Stamp
    <3>2. QED
      BY <3>1 DEF ToCome
  <2>2. CASE f # cur[j]
    <3>1. RowsOf(db', f) = RowsOf(db, f) /\ Registered(db', f) = Registered(db, f)
      BY <1>1, <1>4, <2>2, StampEffect
    <3>2. Current(f)
      BY <1>1, <3>1 DEF Current
    <3>3. QED
      BY <1>3, <2>2, <3>1, <3>2
  <2>3. QED
    BY <2>1, <2>2
<1>5. CASE InsertEntry(j)
  <2>1. /\ db'.files = db.files
        /\ \A g \in Files : Registered(db, g) \subseteq Registered(db', g)
        /\ RowsOf(db, cur[j]) # {} => UrlOf(Head(entries[j])) \in Registered(db', cur[j])
    BY <1>5, InsertEffect
  <2>2. Current(f) /\ RowsOf(db, f) # {}
    BY <1>1, <2>1 DEF Current, RowsOf
  <2>3. /\ pc[j] = "insert" /\ pc' = pc /\ cur' = cur /\ entries[j] # <<>>
        /\ entries'[j] = Tail(entries[j])
    BY <1>2, <1>5 DEF InsertEntry, NextEntry
  <2>4. CASE cur[j] = f /\ u \in Declared(entries[j])
    <3>1. u \in Declared(Tail(entries[j])) \/ u = UrlOf(Head(entries[j]))
      BY <1>2, <2>3, <2>4, DeclaredHead
    <3>2. QED
      BY <2>1, <2>2, <2>3, <2>4, <3>1 DEF ToCome
  <2>5. QED
    BY <1>1, <1>3, <2>1, <2>2, <2>3, <2>4
<1>6. CASE Commit(j)
  <2>1. f # cur[j]
    BY <1>6, CommitEffect DEF Current
  <2>2. RowsOf(db', f) = RowsOf(db, f) /\ Registered(db', f) = Registered(db, f)
    BY <1>1, <1>6, <2>1, CommitEffect
  <2>3. Current(f)
    BY <1>1, <2>2 DEF Current
  <2>4. QED
    BY <1>3, <2>1, <2>2, <2>3
<1>7. CASE ~Stamp(j) /\ ~InsertEntry(j) /\ ~Commit(j)
  <2>1. db' = db /\ Current(f)
    BY <1>1, <1>7, RowKinds DEF Current
  <2>2. CASE Load(j)
    <3>1. CASE f = cur[j]
      <4>1. pc'[j] = "insert" /\ cur'[j] = f /\ entries'[j] = disk[f].content
        BY <1>2, <2>2, <3>1 DEF Load, Undisturbed
      <4>2. QED
        BY <1>1, <4>1 DEF ToCome
    <3>2. CASE f # cur[j]
      BY <1>3, <2>1, <3>2
    <3>3. QED
      BY <3>1, <3>2
  <2>3. CASE SkipEntry(j)
    <3>1. ~Accepted(Head(entries[j]))
      <4>1. CanWrite(j)
        BY <1>1 DEF CanWrite, AllInv, DbInv, TypeInv, TypeOK
      <4>2. QED
        BY <2>3, <4>1 DEF SkipEntry, MayFail, Undisturbed
    <3>2. /\ pc[j] = "insert" /\ pc' = pc /\ cur' = cur /\ entries[j] # <<>>
          /\ entries'[j] = Tail(entries[j])
      BY <1>2, <2>3 DEF SkipEntry, NextEntry
    <3>3. u \in Declared(entries[j]) => u \in Declared(Tail(entries[j]))
      BY <1>2, <3>1, <3>2, DeclaredHead
    <3>4. QED
      BY <1>3, <2>1, <3>2, <3>3 DEF ToCome
  <2>4. CASE InsertDone(j)
    <3>1. entries[j] = <<>> /\ pc[j] = "insert"
      BY <2>4 DEF InsertDone
    <3>2. Declared(<<>>) = {}
      BY DEF Declared
    <3>3. QED
      BY <1>3, <2>1, <3>1, <3>2
  <2>5. CASE pc[j] \notin {"load", "insert"}
    BY <1>3, <2>1, <2>5
  <2>6. QED
    <3>1. Load(j) \/ SkipEntry(j) \/ InsertDone(j) \/ pc[j] \notin {"load", "insert"}
      BY <1>7, NeverFails DEF AllInv, DbInv, Start, JobStep, Resolve, List, OpenDir, Scan,
         ScanDone, CheckCurrent, CheckOutOfDate, RemoveUrls, RemoveFile, RemoveDone, Close
    <3>2. QED
      BY <2>2, <2>3, <2>4, <2>5, <3>1
<1>8. QED
  BY <1>4, <1>5, <1>6, <1>7

(* The steps of an undisturbed run.                                        *)
LEMMA UntouchedStep ==
    ASSUME Undisturbed, NEW j \in Jobs, AllInv, Start(j) \/ JobStep(j) \/ Crash(j)
    PROVE  UntouchedInv(j)'
<1> USE DEF Goto, Reading
<1> SUFFICES ASSUME pc'[j] # "idle", ~touched'[j]
             PROVE  UntouchedInv(j)'
  BY DEF UntouchedInv
<1>1. /\ disk' = disk /\ OnDisk' = OnDisk /\ OnDisk \subseteq Files
      /\ pc \in [Jobs -> Phases] /\ touched \in [Jobs -> BOOLEAN]
      /\ cur \in [Jobs -> Files \cup {NoFile}] /\ dir \in [Jobs -> Dirs \cup {NoDir}]
      /\ starting \in [Jobs -> SUBSET Files] /\ todo \in [Jobs -> SUBSET Files]
      /\ filetime \in [Jobs -> Nat] /\ gone \in [Jobs -> SUBSET Files]
  BY OthersKept DEF AllInv, DbInv, TypeInv, TypeOK, fsVars, OnDisk
<1>2. ~Start(j) => pc[j] # "idle" /\ ~touched[j] /\ gone' = gone
  BY <1>1, NeverFails DEF AllInv, DbInv, JobStep, Resolve, List, OpenDir, Scan, ScanDone,
     CheckCurrent, CheckOutOfDate, Stamp, Load, InsertEntry, SkipEntry, NextEntry, InsertDone,
     RemoveUrls, RemoveFile, Commit, EndTransaction, RemoveDone, Close, Exit, histVars
<1>3. ~Start(j) => /\ gone[j] \cap OnDisk = {}
                   /\ pc[j] # "resolve" => Resolved(j)
                   /\ pc[j] \in Reading \cup {"scan"} => Scanned(j)
                   /\ pc[j] \in Reading => AtHand(j)
                   /\ pc[j] \in Removing => AllCurrent(j)
                   /\ pc[j] \notin {"resolve", "list"} => Listed(j)
  BY <1>2 DEF AllInv, UpToDateInv, UntouchedInv
<1>4. ~Start(j) => gone'[j] \cap OnDisk' = {}
  BY <1>1, <1>2, <1>3
<1>5. ASSUME dir' = dir, ~Start(j), pc[j] # "resolve" PROVE Resolved(j)'
  BY <1>2, <1>3, <1>5 DEF Resolved
<1>6. ASSUME db' = db PROVE \A f : Current(f)' = Current(f)
  BY <1>1, <1>6 DEF Current
<1>7. ASSUME db' = db, starting' = starting, ~Start(j), pc[j] \notin {"resolve", "list"}
      PROVE  Listed(j)'
  BY <1>1, <1>3, <1>7 DEF Listed
<1>8. CASE Start(j)
  <2>1. pc'[j] = "resolve" /\ gone'[j] = Files \ OnDisk
    BY <1>1, <1>8 DEF Start
  <2>2. QED
    BY <1>1, <2>1 DEF UntouchedInv, Removing
<1> SUFFICES ASSUME ~Start(j) PROVE UntouchedInv(j)'
  BY <1>8
<1>9. CASE Resolve(j)
  <2>1. pc'[j] = "list" /\ Resolved(j)'
    BY <1>1, <1>9, ResolveStep DEF Resolve, AllInv, DbInv, Undisturbed
  <2>2. QED
    BY <1>4, <2>1 DEF UntouchedInv, Removing
<1>10. CASE List(j)
  <2>1. /\ pc[j] = "list" /\ pc'[j] = "opendir" /\ UNCHANGED <<db, dir>>
        /\ starting'[j] = Names(db) \cap Under[dir[j]]
    BY <1>1, <1>10 DEF List, Undisturbed, dbVars
  <2>2. FilesIn(JobDir[j]) \subseteq Under[dir[j]]
    BY <1>3, <2>1, LayoutAssumption DEF Resolved, FilesIn
  <2>3. Listed(j)'
    BY <1>1, <2>1, <2>2 DEF Listed
  <2>4. QED
    BY <1>4, <1>5, <2>1, <2>3 DEF UntouchedInv, Removing
<1>11. CASE OpenDir(j)
  <2>1. /\ pc[j] = "opendir" /\ UNCHANGED <<db, dir, starting>>
        /\ \/ pc'[j] = "scan" /\ todo'[j] = FilesIn(dir[j]) \cap OnDisk
           \/ pc'[j] = "remove" /\ dir[j] \notin dirs
    BY <1>1, <1>11 DEF OpenDir, MissesDir, Undisturbed, dbVars
  <2>2. dir[j] \notin dirs => FilesIn(dir[j]) \cap OnDisk = {}
    BY DEF AllInv, ScanInv, DirsInv, FilesIn
  <2>3. /\ pc'[j] = "scan" => Scanned(j)'
        /\ pc'[j] = "remove" => AllCurrent(j)'
    BY <1>1, <2>1, <2>2 DEF Scanned, AllCurrent
  <2>4. QED
    BY <1>4, <1>5, <1>7, <2>1, <2>3 DEF UntouchedInv, Removing
<1>12. CASE Scan(j)
  <2>1. PICK f \in todo[j] : /\ cur'[j] = f /\ todo'[j] = todo[j] \ {f}
                             /\ filetime'[j] = disk[f].time
    BY <1>1, <1>12 DEF Scan, Undisturbed
  <2>2. pc[j] = "scan" /\ pc'[j] = "check" /\ UNCHANGED <<db, dir, starting>>
    BY <1>1, <1>12 DEF Scan, dbVars
  <2>3. Scanned(j)' /\ AtHand(j)'
    BY <1>1, <1>3, <1>6, <2>1, <2>2 DEF Scanned, AtHand
  <2>4. QED
    BY <1>4, <1>5, <1>7, <2>2, <2>3 DEF UntouchedInv, Removing
<1>13. CASE ScanDone(j)
  <2>1. /\ pc[j] = "scan" /\ pc'[j] = "remove" /\ todo[j] = {}
        /\ UNCHANGED <<db, dir, starting>>
    BY <1>1, <1>13 DEF ScanDone, Undisturbed, dbVars
  <2>2. AllCurrent(j)'
    BY <1>1, <1>3, <1>6, <2>1 DEF Scanned, AllCurrent
  <2>3. QED
    BY <1>4, <1>5, <1>7, <2>1, <2>2 DEF UntouchedInv, Removing
<1>14. CASE CheckCurrent(j) \/ InsertDone(j)
  <2>1. /\ pc[j] \in {"check", "insert"} /\ pc'[j] = "scan"
        /\ starting'[j] = starting[j] \ {cur[j]} /\ UNCHANGED <<db, dir, todo>>
    BY <1>1, <1>14 DEF CheckCurrent, InsertDone, NextName, dbVars
  <2>2. Scanned(j) /\ AtHand(j) /\ Listed(j)
    BY <1>3, <2>1
  <2>3. pc[j] = "check" => Current(cur[j])
    BY <1>14, <2>2 DEF CheckCurrent, InsertDone, UpToDate, Current, AtHand
  <2>4. Scanned(j)'
    BY <1>1, <1>6, <2>1, <2>2, <2>3 DEF Scanned
  <2>5. Listed(j)'
    BY <1>1, <2>1, <2>2 DEF Listed, AtHand
  <2>6. QED
    BY <1>4, <1>5, <2>1, <2>4, <2>5 DEF UntouchedInv, Removing
<1>15. CASE CheckOutOfDate(j) \/ Load(j)
  <2>1. /\ \/ pc[j] = "check" /\ pc'[j] = "stamp"
           \/ pc[j] = "load" /\ pc'[j] = "insert"
        /\ UNCHANGED <<db, dir, todo, cur, starting, filetime>>
    BY <1>1, <1>15 DEF CheckOutOfDate, Load, dbVars
  <2>2. Scanned(j)' /\ AtHand(j)'
    BY <1>1, <1>3, <1>6, <2>1 DEF Scanned, AtHand
  <2>3. QED
    BY <1>4, <1>5, <1>7, <2>1, <2>2 DEF UntouchedInv, Removing
<1>16. CASE Stamp(j)
  <2>1. /\ pc[j] = "stamp" /\ pc'[j] = "load"
        /\ UNCHANGED <<dir, todo, cur, starting, filetime>>
    BY <1>1, <1>16 DEF Stamp
  <2>2. Scanned(j) /\ AtHand(j) /\ Listed(j)
    BY <1>3, <2>1
  <2>3. Names(db') \subseteq Names(db) \cup {cur[j]}
    BY <1>16, StampEffect DEF Names
  <2>4. PICK r \in RowsOf(db', cur[j]) : r.time = filetime[j]
    BY <1>16, StampEffect
  <2>5. disk'[cur'[j]].time <= r.time
    <3>1. disk'[cur'[j]].time = filetime[j] /\ filetime[j] \in Nat
      BY <1>1, <2>1, <2>2 DEF AtHand
    <3>2. QED
      BY <2>4, <3>1
  <2>6. ASSUME NEW f \in OnDisk, Current(f) \/ f = cur[j] PROVE Current(f)'
    <3>1. CASE f = cur[j]
      BY <2>1, <2>4, <2>5, <3>1 DEF Current
    <3>2. CASE f # cur[j] /\ Current(f)
      <4>1. RowsOf(db', f) = RowsOf(db, f)
        BY <1>1, <1>16, <3>2, StampEffect
      <4>2. QED
        BY <1>1, <3>2, <4>1 DEF Current
    <3>3. QED
      BY <2>6, <3>1, <3>2
  <2>7. Scanned(j)' /\ AtHand(j)'
    BY <1>1, <2>1, <2>2, <2>6 DEF Scanned, AtHand
  <2>8. Listed(j)'
    BY <1>1, <2>1, <2>2, <2>3 DEF Listed, AtHand
  <2>9. QED
    BY <1>4, <1>5, <2>1, <2>7, <2>8 DEF UntouchedInv, Removing
<1>17. CASE InsertEntry(j) \/ SkipEntry(j)
  <2>1. pc[j] = "insert" /\ UNCHANGED <<pc, dir, todo, cur, starting, filetime>>
    BY <1>17 DEF InsertEntry, SkipEntry, NextEntry
  <2>2. db'.files = db.files
    BY <1>17, InsertEffect DEF SkipEntry
  <2>3. Names(db') = Names(db) /\ \A f : Current(f)' = Current(f)
    BY <1>1, <2>2 DEF Names, Current, RowsOf
  <2>4. Scanned(j)' /\ AtHand(j)' /\ Listed(j)'
    BY <1>1, <1>3, <2>1, <2>3 DEF Scanned, AtHand, Listed
  <2>5. QED
    BY <1>4, <1>5, <2>1, <2>4 DEF UntouchedInv, Removing
<1>18. CASE RemoveUrls(j) \/ RemoveFile(j)
  <2>1. /\ pc[j] \in {"remove", "delfile"} /\ pc'[j] \in {"delfile", "commit"}
        /\ UNCHANGED <<db, dir, starting>>
    BY <1>1, <1>18 DEF RemoveUrls, RemoveFile
  <2>2. AllCurrent(j)'
    BY <1>1, <1>3, <1>6, <2>1 DEF AllCurrent, Removing
  <2>3. QED
    BY <1>4, <1>5, <1>7, <2>1, <2>2 DEF UntouchedInv, Removing
<1>19. CASE Commit(j)
  <2>1. /\ pc[j] = "commit" /\ pc'[j] = "remove" /\ UNCHANGED dir
        /\ starting'[j] = starting[j] \ {cur[j]}
    BY <1>1, <1>19 DEF Commit, EndTransaction
  <2>2. cur[j] \notin OnDisk
    BY <1>3, <2>1 DEF AllInv, ScanInv, PhaseInv
  <2>3. Names(db') \subseteq Names(db) \ {cur[j]}
    BY <1>19, CommitEffect DEF Names, RowsOf
  <2>4. ASSUME NEW f \in OnDisk, Current(f) PROVE Current(f)'
    <3>1. RowsOf(db', f) = RowsOf(db, f)
      BY <1>1, <1>19, <2>2, CommitEffect
    <3>2. QED
      BY <1>1, <2>4, <3>1 DEF Current
  <2>5. AllCurrent(j)'
    BY <1>1, <1>3, <2>1, <2>4 DEF AllCurrent, Removing
  <2>6. Listed(j)'
    BY <1>1, <1>3, <2>1, <2>3 DEF Listed
  <2>7. QED
    BY <1>4, <1>5, <2>1, <2>5, <2>6 DEF UntouchedInv, Removing
<1>20. CASE RemoveDone(j)
  <2>1. /\ pc[j] = "remove" /\ pc'[j] = "close" /\ starting[j] = {}
        /\ UNCHANGED <<db, dir, starting>>
    BY <1>1, <1>20 DEF RemoveDone, dbVars
  <2>2. AllCurrent(j)'
    BY <1>1, <1>3, <1>6, <2>1 DEF AllCurrent, Removing
  <2>3. QED
    BY <1>4, <1>5, <1>7, <2>1, <2>2 DEF UntouchedInv, Removing
<1>21. CASE Close(j)
  BY <1>1, <1>21 DEF Close, Exit
<1>22. QED
  BY <1>9, <1>10, <1>11, <1>12, <1>13, <1>14, <1>15, <1>16, <1>17, <1>18, <1>19, <1>20, <1>21,
     NeverFails DEF JobStep, AllInv, DbInv

LEMMA UpToDateStep ==
    ASSUME Undisturbed
    PROVE  AllInv /\ [Next]_vars => UpToDateInv'
<1> SUFFICES ASSUME AllInv, [Next]_vars PROVE UpToDateInv'
  OBVIOUS
<1>1. CASE \/ \E f \in Files : WriteFile(f) \/ UnlinkFile(f)
           \/ \E d \in Dirs : RemoveDir(d)
  BY <1>1, EditUpToDate
<1>2. ASSUME NEW j \in Jobs, Start(j) \/ JobStep(j) \/ Crash(j)
      PROVE  UpToDateInv'
  <2>1. RowInv' /\ FreshInv' /\ UntouchedInv(j)'
    BY <1>2, RowStep, FreshStep, UntouchedStep
  <2>2. QED
    BY <2>1 DEF UpToDateInv, Undisturbed
<1>3. CASE UNCHANGED vars
  BY <1>3 DEF vars, fsVars, dbVars, jobVars, histVars, AllInv, UpToDateInv, RowInv, FreshInv,
     UntouchedInv, Current, ToCome, OnDisk, Resolved, Scanned, AtHand, AllCurrent, Listed
<1>4. QED
  BY <1>1, <1>2, <1>3 DEF Next

(* One updater that is not disturbed does what it says: when a run during  *)
(* which no file changed ends, all that the files of its directory declare *)
(* can be looked up, and no file of it that is gone has a row; whatever    *)
(* earlier runs, and changes during them, have left behind.                *)
THEOREM UpToDateHolds ==
    ASSUME Undisturbed
    PROVE  Spec => []UpToDateOnExit
<1>1. Init => TimeInv
  BY MissingType, BoundAssumption DEF Init, TimeInv, Missing
<1>2. Init => ScanInv
  BY LayoutAssumption DEF Init, ScanInv, DirsInv, GoneInv, PhaseInv, OnDisk
<1>3. Init => UpToDateInv
  BY DEF Init, UpToDateInv, RowInv, UniqueIds, FreshInv, OnDisk, UntouchedInv, EmptyDb
<1>4. TypeInv /\ TimeInv /\ [Next]_vars => TimeInv'
  BY TimeStep
<1>5. TypeInv /\ ScanInv /\ [Next]_vars => ScanInv'
  BY ScanStep DEF Undisturbed
<1>6. DbInv /\ TimeInv /\ ScanInv /\ UpToDateInv /\ [Next]_vars => UpToDateInv'
  BY UpToDateStep DEF AllInv
<1>7. UpToDateInv /\ ScanInv => UpToDateOnExit
  <2> SUFFICES ASSUME UpToDateInv, ScanInv, NEW j \in Jobs, pc[j] = "close", ~touched[j],
                      NEW f \in FilesIn(JobDir[j])
               PROVE  IF f \in OnDisk THEN Declared(disk[f].content) \subseteq Registered(db, f)
                                      ELSE f \notin Names(db)
    BY DEF UpToDateOnExit, Reflects
  <2>1. /\ gone[j] \cap OnDisk = {} /\ Resolved(j) /\ starting[j] = {}
        /\ \A g \in FilesIn(dir[j]) \cap OnDisk : Current(g)
        /\ (FilesIn(JobDir[j]) \cap Names(db)) \ OnDisk \subseteq starting[j]
    BY DEF UpToDateInv, UntouchedInv, Removing, AllCurrent, Listed
  <2>2. CASE f \in OnDisk
    <3>1. Current(f)
      BY <2>1, <2>2 DEF Resolved
    <3>2. ASSUME NEW u PROVE ~ToCome(f, u)
      BY DEF ToCome, Undisturbed
    <3>3. QED
      BY <2>2, <3>1, <3>2 DEF UpToDateInv, FreshInv
  <2>3. CASE f \notin OnDisk
    BY <2>1, <2>3
  <2>4. QED
    BY <2>2, <2>3
<1>8. QED
  BY <1>1, <1>2, <1>3, <1>4, <1>5, <1>6, <1>7, TypeInvariant, DbInvariant, PTL DEF Spec
=============================================================================
