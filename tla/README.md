# TLA+ models of url-dispatcher

url-dispatcher is a session service that turns URLs into applications. Two
halves meet in one SQLite database: short-lived *updaters* fill it from
`.url-dispatcher` files, and the long-lived *dispatcher* answers D-Bus calls
from it and starts applications or overlays.

## Inventory

| part | code | state | operations | interacts with |
|---|---|---|---|---|
| URL database | `service/url-db.c`, `create-db.sql` | tables `configfiles` (name, timestamp, rowid) and `urls` (rowid of the file, protocol, domain suffix) | create, get and set time, insert URL, find URL, files for directory, remove file | updaters write, dispatcher reads |
| directory updater | `service/update-directory.c` | locals of one run: directory, `startingdb`, current file, its time, its entries | one run of `main` | file system, database, problem reporter |
| dispatcher | `service/dispatcher.c` | none between calls but the open database and the tracker | `DispatchURL`, `TestURL` | D-Bus clients, database, ubuntu-app-launch, overlay tracker |
| context thread | `service/glib-thread.*` | a thread, its main loop, a cancellable | construct, `executeOnThread`, `timeout`, `quit`, destroy | the tracker |
| overlay tracker | `service/overlay-tracker*` | `ongoingSessions` | `addOverlay`, session and helper stop events, destroy | Mir, ubuntu-app-launch, context thread |
| client library, tool | `liburl-dispatcher/`, `tools/` | one pending call | `url_dispatch_send`, `url_dispatch_url_appid` | dispatcher over D-Bus |
| service life cycle | `service/service.c`, `data/*.conf.in` | running or not; which Upstart jobs run | start, fail, respawn, refresh | updaters, database file |
| overlay exec tool | `service/url-overlay.c` | none | read a desktop file, exec | |
| problem reporter | `service/recoverable-problem.c` | a child process | report | apport |

What is hard: updaters run concurrently with each other and with lookups, while
the files they read change; they can be killed anywhere, and any library call
can fail; the only lock is SQLite's write lock, without a busy timeout. In the
service, a Mir thread, the tracker's thread and the main thread meet in the
tracker, and its shutdown.

## Modules

| module | models |
|---|---|
| `UrlDb` | the database as a value, one operator per SQL statement that writes, rowids included |
| `SharedDb` | abstract: how the database changes for those who read it |
| `UrlLookup` | the query of `url_db_find_url` |
| `UpdateDirectory` | `update-directory.c`, any number of concurrent runs, over a file system that changes |
| `Dispatcher` | `dispatcher.c`: `DispatchURL`, `TestURL` and bug reports, between bus, clients and a changing database |
| `ClientLib` | the client library and the tool, on top of `Dispatcher` |
| `WorkQueue` | abstract: what a worker thread promises |
| `ContextThread` | `glib-thread.*`: a thread with a main loop that others attach work to and quit |
| `OverlayTracker` | `overlay-tracker-mir.cpp` on a `ContextThread`, with Mir and the helpers |
| `Service` | `service.c`: the process around the tracker, from start to exit |
| `UrlDb_proofs`, `UpdateDirectory_proofs` | theorems about the updaters, on facts about the SQL statements |
| `Dispatcher_proofs`, `ClientLib_proofs` | theorems about the dispatcher, and about its clients on top of it |
| `ContextThread_proofs`, `Service_proofs`, `Tracker_proofs` | theorems about the thread, and about the tracker within the service |
| `MCUpdateShared`, `MCUpdateOne`, `MCUpdateNested`, `MCDispatcher`, `MCClients`, `MCService` | instances for TLC |

`UpdateDirectory` and `Dispatcher` meet in `SharedDb`, as the programs meet in
the database: `UpdateDirectory` implements it (`ImplementsSharedDb`, checked and
proved), and `Dispatcher` takes its steps as the updaters' (`ChangeDb`). A
promise of the dispatcher therefore holds with the real updaters around it.

The other composition is by extension: `Service` runs the steps of
`OverlayTracker`, which runs those of `ContextThread`, and `ClientLib` those of
`Dispatcher`. `Dispatcher` and `Service` are two views of one process that meet
in a call of `addOverlay`: `Dispatcher` knows only whether it succeeded, and
`Service` only that it is called.

### UrlDb

A database is a record of two sets of rows. `insert or replace into
configfiles` is `SetFileTime`: it gives the file's row a new rowid, one more
than the largest in the table, because the table is not `AUTOINCREMENT`; the
`urls` rows under the old rowid stay. `InsertUrl` is an insert from a select:
nothing happens if the file has no row. The field `by` of a URL row, the file
whose contents caused the insert, is history and no column.

### UpdateDirectory

The locals of `main` are functions of the job (`dir` is `dirname`, `starting`
is `startingdb`, `todo` are the names `g_dir_read_name` has still to return,
`cur` and `filetime` belong to `check_file_outofdate`, `entries` to
`each_url`). Each look at the file system and each SQL statement is a step of
its own, so that everything else can happen in between: files are written,
unlinked, whole directories go, other jobs work, and with `Crashes` a job is
killed between any two steps. `create-db.sql` puts the database in WAL mode, so
readers never block and see the committed rows `db`; the transaction of
`url_db_remove_file` holds the write lock `writer` from its first delete and
works on `txn`. A write that finds the lock taken fails at once, as no busy
timeout is set.

Two constants say what may fail. With `Errors` a statement fails on its own (an
I/O error, a full disk, another's write at the same instant). With `LookErrors` a
look at the file system fails although there is something to see:
`g_file_test` says `FALSE` of a directory that is there (`MissesDir`),
`g_dir_open` returns `NULL`, `g_dir_read_name` ends early on a failed `readdir`
(`ScanDone`), the query of a file's time fails and leaves 0 (`Scan`), or a file
cannot be read or parsed (`Load`). They are two because the code treats them
differently: a failed statement rolls back or leaves the database as it was,
and a failed look is taken for an absence (`update_look_fails`).

Abstracted: file names and URLs are members of small sets; `LIKE 'dir%'` is the
constant `Under`, which says which names begin with a directory's, among them
those of the files in it and in the directories below (`LIKE` wildcards in a directory name and its case-insensitivity would only make that
set larger); the test of the directory, its opening and its listing are one
step, so a directory does not go between `g_file_test` and `g_dir_open`, where
the run would end at once as in `OpenDirFails`; opening the
database either works or ends the run with nothing done. Each job runs one
instance at a time, as Upstart's `task` jobs do.

### SharedDb and UrlLookup

A step of `SharedDb` is a file noted, a URL registered or a file removed with
the URLs registered since it was last noted. That a removal, two statements and
a commit that can each fail in a process that can be killed, is one step or
none is what `UpdateDirectory` has to show.

In `UrlLookup` a domain is a sequence of pieces and a suffix matches if the
domain ends in it; `<<>>` is the empty string, which is also what a missing
domain is turned into. The longest suffix wins. Between equally long ones the
query does not choose, so `FindUrl` is a set. A lookup that fails, which
`Dispatcher` allows of any (`Found`), is one that found nothing. `LIKE`'s wildcards and its
case-insensitivity are left out; they would make more rows match.

### Dispatcher

| in the module | in the code |
|---|---|
| `Take` | the skeleton's `handle-dispatch-url` and `handle-test-url`, one call after the other |
| `Refuse`, `Clear` | `dispatch_url_cb` up to "We're cleared to continue" |
| `SendToApp` | `dispatcher_send_to_app`, the dash included |
| `AskPid`, `AddOverlay`, `AddOverlayFails` | `dispatcher_send_to_overlay` with `overlay_tracker_add` |
| `FailOverlay` | the end of `dispatch_url_cb` after a failed overlay |
| `TestUrl`, `TestDone` | one turn of the loop of `test_url_cb`, and its end |
| `FileBug` | `recoverable_problem_file` |
| `Deliver` | the bus daemon acts on the oldest message of the service |
| `Die` | the service is killed and respawned; its job's script may delete the database |
| `ChangeDb`, `ChangeOverlays`, `Send`, `Leave`, `TimeOut` | updaters, package installation, clients |

A lookup is a step of its own, so that the database can change between the URLs
of one `TestURL`, between `TestURL` and `DispatchURL`, and between a lookup and
what is done with it. A lookup whose statement fails gives no application, as
in the code. `TestUrl` has no check for the application id `unconfined`, which
`dispatch_url_cb` refuses: so `TestURL` can name `unconfined` for a URL that
`DispatchURL` answers with `BadURL`, although `url-dispatcher.h:65-66` speaks of
the ids that "will be launched". Both modules' actions show this; no property is
about it. `outbox` is the service's connection: what it sends goes
to the bus daemon in order. `bad_url` puts the question for the sender's process
*before* the answer, so the daemon still knows the sender when it is asked,
whatever the sender does with its answer; `ToldIsFound` says so.
`dispatcher_send_to_overlay` asks the same question but waits, in `pc = "pid"`.
After a failed overlay the handler answers and returns `FALSE`, on which the
generated skeleton answers again; the bus drops the second reply, since the
client no longer waits for it.

`launches` is history: what was *asked* of ubuntu-app-launch, the dash or Mir.
Whether they do as asked is not modelled, and `dispatcher_send_to_app` does not
look either. That `send_to_dash` can return `FALSE` (without a session bus) is
left out: the connection it asks for is the one the call came on. Inside `addOverlay` Mir or ubuntu-app-launch may refuse, a
nondeterministic choice between `AddOverlay` and `AddOverlayFails`. Which of
the four regular expressions a URL matches is a constant of the URL (`Form`), and
so are its protocol, host and package.

### ClientLib

| in the module | in the code |
|---|---|
| `UrlDispatchSend` | `url_dispatch_send`, with a callback (`"waiting"`) or with none (`"nobody"`), when it waits in `g_dbus_connection_flush_sync` |
| `UrlDispatchUrlAppid` | `url_dispatch_url_appid`, which waits for its answer |
| `ToolMain`, `ToolWithoutBus` | `main` of `tools/url-dispatcher.c` |
| `Write` | GDBus' worker thread writes the message, which lets a flush return |
| `UrlDispatched` | `url_dispatched`, the return of the other function, and the tool's exit status |
| `Exit`, `Killed` | the client program ends |

`unsent` is the window between the call of the library and the moment the bus
has the message: a program that ends in it takes the message with it, and a
flush closes it. A connection holds one unsent message, a bound. A client is
also the process that `Dispatcher` asks the bus for, so that `Leave` is its end.
Without a session bus the functions warn and return, which changes nothing; the
tool then waits in its main loop for ever (`ToolWithoutBus`). The text of an
error is not modelled, and an error and a time-out both fail.

### ContextThread and WorkQueue

The thread's function is `BeforeLoop`, `CheckCancelled`, `RunLoop`, the
iterations, `LeaveLoop` and `AfterLoop`. An iteration of a GLib main loop
collects the ready sources of the highest ready priority (`Gather`) and
dispatches all of them, even if one of them, or another thread, quits the loop
meanwhile. Work is attached as idle sources; signals of the D-Bus are sources of
default priority and go first. `g_main_loop_run` *sets* the flag that
`g_main_loop_quit` clears, so a quit before it is lost. `quit` is `Cancel`, then
`QuitLoop`, and the join of the destructor is its caller's. The check of
`executeOnThread` that the thread is not cancelled and the attachment are apart:
Mir's thread checks in `SessionStateChanged` and attaches in `PassOn`.

`WorkQueue` promises that accepted work is done in its order, once each, until
the thread stops. `ImplementsWorkQueue` maps the work in hand, the rest of the
batch and what is attached to its queue. GLib itself (sources, priorities, the
flag) is external and modelled from its documented behaviour.

### OverlayTracker

| in the module | in the code |
|---|---|
| `Connect` | the constructor: the thread is there, then `mir_connect_sync`; without Mir it throws, which destroys the thread |
| `AddOverlay`, `Returns` | `addOverlay` on the main loop's thread |
| `CreateSession`, `CreateSessionFails`, `StartHelper`, `StartHelperFails` | its lambda on the tracker's thread |
| `MirStops`, `MirReleases` | Mir (external) |
| `SessionStateChanged`, `PassOn` | `sessionStateChangedStatic` and `sessionStateChanged`, on Mir's thread |
| `RemoveSession`, `NothingToRemove` | `removeSession`, and the destructor's loop over all sessions |
| `UrlOverlay`, `HelperEnds`, `HelperObeys`, `HelperReported` | the helper and ubuntu-app-launch (external but for `url-overlay.c`) |
| `HelperStopped` | `untrustedHelperStopped` |
| `Destroy`, `ReleaseMir`, `Quit` | `~OverlayTrackerMir`, whose members go in the order sessions, connection, thread |

Three threads meet: the main loop's (`main`), the tracker's (`thread`, `doing`,
`step`) and Mir's (`events`, `notice`). A call from the first to the second
waits (`reply`); a release of a session waits for the third. A session is known
by its pointer, and the memory of a released one may be given to the next:
`address` is chosen among the `Addresses` that are free. A session ends when its
last pointer goes, so erasing an entry of `ongoingSessions` and releasing the
session are one step, and waiting for Mir's answer the next.

Taken from how the code and its tests use them: Mir delivers its events in
order on one thread; a session that is released may bring a stop event before
the release is complete; a connection that is released brings no more events;
`mir_connect_sync` returns `NULL` if there is no Mir; a helper that ends is
reported once, by a signal.
Helpers of other kinds than `url-overlay`, which the observer ignores, are left
out. `url-overlay.c` is a straight line of reads that ends in naming the program
to run or in failure: `UrlOverlay` is its two outcomes.

The destructor's members go in the order sessions, connection, thread, and the
thread runs until it is joined. A helper's end that is reported in that window
makes `untrustedHelperStopped` search a set that is already destroyed. This is
undefined by the letter of C++, and the model takes the set for empty. The
reason is the first step of `Destroy`: the destructor's body waits until the set
has been emptied on the thread (the clause on `ongoing` in `ShutdownOrder`, and
nothing is added afterwards), and the destructor of an empty `std::set` frees no
node and does not touch its header, which is where the search begins and ends.
A build whose `std::set` poisons its header would be outside the model.

### Service

`phase` follows `main`: the tracker is made, `dispatcher_init` may fail without
a database, the main loop runs, `dispatcher_shutdown`, `overlay_tracker_delete`,
exit. In the loop the bus arrives or does not (`g_error` aborts), the name may
be lost, overlays are asked for. `SIGTERM` may come at any time and waits for
the loop (`Sigterm` is its arrival, `SigTerm` its callback). Without Mir the
tracker is `NULL`, and deleting it does nothing.

## Runs

| run | shows | bounds |
|---|---|---|
| `update_shared` | lock discipline, removal only of deleted files, atomic removal and the implementation of `SharedDb` with two updaters in the deployed layout, any statement failing, killed anywhere | 3 changes of the file system, 2 files, 1 content, 3 rowids |
| `update_faults` | types, the same lock discipline, no superseded URLs when any statement and any look at the file system fails, the job is killed anywhere and times go backwards | 1 updater, 2 files, 2 contents, 2 changes, 3 rowids |
| `update_uptodate` | a run that saw no change ends with the database reflecting the directory; convergence | 1 updater, 4 changes, 4 rowids, no faults |
| `update_contention` | **violated**: an insert lost to another updater's lock is never made up | 2 updaters, no faults |
| `update_crash` | **violated**: a kill between stamp and inserts is never made up | 1 updater, 1 change |
| `update_removed_urls` | **violated**: URLs of a removed file come back as another file's | 1 updater, 4 changes |
| `update_nested` | **violated**: files of a directory below are removed while on disk | 2 updaters, 1 change |
| `update_look_fails` | **violated**: a failing look has live files removed | 1 updater, 1 change, no other fault |
| `dispatcher_calls` | answers are true, restrictions hold, whoever is told of a bad URL can be reported on | 2 calls of 7 kinds by 2 clients, 1 change of the database or the overlays, any number of deaths |
| `dispatcher_live` | success is told truly, whoever waits is told, a URL sent without a callback is taken up; every call is answered, every bad URL a client is told of is filed | the clients are programs, one of them the tool, that may exit or be killed; 2 calls of 3 kinds, no changes, no deaths of the service |
| `service_overlays` | no session, helper or pointer is left behind; the shutdown order; helpers are stopped only with their session; the thread is a `WorkQueue`; no call is stuck, ends follow each other, the service exits | 2 overlays, 2 addresses, Mir there |
| `service_no_mir` | **violated**: the destructor's join returns | 1 overlay, no Mir |

Two calls are the least in which one handler's messages can be taken for
another's, a client can try again after a time-out, and a test is followed by a
dispatch. Two overlays are the least of which one can get the memory of the
other's session, be removed in the other's place, or be added while the other is
removed; the second address keeps both there at once. One change is enough to
come between a lookup and the use of what it gave. The links of `MCDispatcher`
reach each form of URL but the application URL, which goes the same way as the
appid URL; its files compete for a link by the length of their suffixes.
The three kinds of `dispatcher_live` go every way through the handlers: an
overlay is added or fails; `page`, restricted to the web application, is started
(`SendToApp`), or refused because the lookup gave the browser, as in `MC_TiedDb`
both declare its site; a test; and in each a lookup that finds nothing.

Three changes are a file written, removed and another written while an updater
removes the first: the shortest history in which one updater writes during
another's removal, and one content is enough for it. Two changes are enough for a
rewritten file, whose second contents differ. `update_shared` tells states apart
by `MC_View`, which leaves out the history variables `touched`, `loaded` and
`dropped`: no guard reads them, nor does any property of that run, so states that
differ in them only have the same future. Times play no part in those
properties (TLAPS proves them for any times) and only grow there. Rowids run out only
where `Stamp` has been enabled more often than files changed, which a fault can
cause; a job then waits at its stamp, or fails it, and no property is about
such a job. Deadlock is
checked everywhere but in `dispatcher_live`, in which
the service ends idle after the last call, and the two runs of the service, which
exits.

The files of `update_uptodate` bear strictly newer times with each change. The
code compares whole seconds and reads a file again only if its time is later;
a file rewritten within a second, or replaced by an older one, is never read
again. That is a precondition of the freshness properties, not something the
code ensures.

Fairness: `FairSpec` lets a started process run to its end and lets every job
be started again and again. The first is the operating system's; the second is
the session's, whose refresh job emits the events both updaters start on. For
the dispatcher `ClientFairness` lets the handler, the bus daemon and the
callbacks of the service's main loop go on: one thread runs the loop, and
nothing in a handler waits but for the bus. It also lets a live client's
connection write and its main loop run, which is what calling the library with a
callback asks of it; no client has to make a call, exit or live on. For
the service, each of its three threads goes on while the process lives, Mir
answers what it is asked, and ubuntu-app-launch stops helpers that it is told to
stop and reports those that ended. Nobody has to send `SIGTERM`, no
helper has to end by itself and Mir has to stop no session.

### What the violated runs say

* **Contention.** The stamp of a file goes in before its URLs. An insert that
  meets another updater's open removal fails, is reported and forgotten; later
  runs see the stamp and skip the file.
* **Crash.** The same with a kill.
* **Removed URLs.** A file that is read twice leaves its first URL rows under
  its first rowid. Removal deletes those under the current one. When the
  removal frees the rowids, the next file may get the old one, and with it URLs
  it never declared.
* **Nested.** `LIKE '/a/urls%'` finds `/a/urls/extra/x.url-dispatcher` and
  `/a/urls2/y.url-dispatcher`.
* **Failing looks.** `g_file_test` does not tell a directory that it cannot look
  at from one that is not there, nor `g_dir_read_name` a failed `readdir` from
  the end of the directory. What was not read by then is still in `startingdb`
  and goes as deleted. The next run that can look puts it back.
* **Quit before run.** The destructor of `ContextThread` cancels, quits the loop
  and joins. If the thread has looked at the cancellable and not yet run its
  loop, the quit is lost: the loop runs for ever and the join with it. The
  tracker's constructor meets this when Mir is not there: the exception destroys
  a thread that has only just started, and the service hangs before it serves.
  With Mir there, a quit comes after a call of the thread has returned, so the
  loop runs, and `ServiceExits` holds in `service_overlays`.

## Theorems

`UpdateDirectory_proofs`, for every number of files, directories, updaters,
contents and all faults, but where an assumption is named:

* `TypeCorrect`: `TypeOK`. The invariant adds that a job in the middle of a
  file has one in `cur`; without it the database operators could be applied to
  no file.
* `LockReleased`: `NoDanglingTransaction`, inductive with the types. The steps
  of a job fall into the kinds of `StepKinds`: those outside the transaction,
  and the four that begin, continue and end it.
* `RemovalAtomic`: `RemoveIsAtomic`, which says of every step that a file that
  keeps its row keeps the URLs registered for it, and that one that loses its row
  loses both. `WriteKinds` reduces every step that changes the database to a
  stamp, an insert or a whole removal of some job's file. The removal is one
  step by `TxnInv`: what the open transaction sees is always the deletes applied
  to the *current* database, because nobody else can write while the lock is
  held. It costs no other file its URLs by `IdsInv`, that no two files share a
  rowid, which a stamp keeps because its rowid is new. Without the transaction,
  each delete committed by itself, the first leaves a file with a row and no
  URLs, and every later run takes it for read: that is the property's mutant.
* `OnlyDeletedRemoved`: `RemovesOnlyDeleted`, assuming `PrefixExact`, that the
  prefix search finds a directory's own files only, and `~LookErrors`, that no
  look at the file system fails. Statements may fail and jobs be killed.
  `ScanInv` says that what is
  left in `startingdb` has been missing during the run or is still ahead of the
  scan; the fallback to the parent directory is covered because the job's own
  directory was gone when it was chosen. `update_nested` shows that the first
  assumption is needed and `update_look_fails` the second; the layouts of the
  passing runs satisfy the first, which TLC checks. The theorem does not say
  that a file that came back during the run stays: `startingdb` is the state of
  its beginning, and a file that was missing for a moment may be removed after
  it is back. `Converges` says that a later run reads it again.

* `SharedDbImplemented`: `ImplementsSharedDb`, from the lock invariant and
  `TxnInv` (the commit of a removal is one step), and `TimeInv`: every
  modification time a job holds is one that a file has had.
* `SupersededForgotten`: `NoSupersededUrls`, assuming `JobsApart`, that no two
  updaters read the same directory. A stamp forgets a file's URLs because its
  rowid is new, and new for the rows of `urls` too: `RowsApart` says that no two
  files share a rowid and that no URL row has one above the largest in use,
  which a removal would break and nothing else does. `LoadedInv` adds that a file
  that is about to be read has no URL registered, and that what a job has still
  to insert was declared by what it read. `ReadingInv` gives a job's file its
  directory, so that jobs which are apart are never on the same file. Without
  `JobsApart` the property is false, and TLC finds the run with two jobs on one
  directory: one has read the old contents and is still inserting them when the
  other has given the file its new row. The jobs of `data/*.in` read different
  directories.
* `UpToDateHolds`: `UpToDateOnExit`, assuming `Undisturbed`: one updater, no
  failing statement or look, no kill, times that only grow, and an exact prefix search, as in
  `update_uptodate`. `FreshInv` says that a file whose row is not older than it
  can be looked up by all its URLs, except those that a job is just about to
  insert. It holds whatever happens to the files, and it is what a fault, a kill
  or a second updater's lock breaks (`update_contention`, `update_crash`).
  `UntouchedInv` follows one run during which no file changed: what is on disk
  is current, at hand or still to be read, and what has a row but no file is
  still in `startingdb`. `RowInv`, no row is from the future, makes a file that
  is written anew one that is not current.

`Dispatcher_proofs`, for every number of calls, clients and applications, every
database and every way it changes as in `SharedDb`:

* `TypeCorrect`: `TypeOK`. The invariant adds what a handler knows of its call
  (`HandlerInv`) and that the question for a process id is the last message of
  the outbox, as its sender waits (`PidInv`).
* `RestrictionHolds`: `RestrictedStaysInside`. `ClearedInv`: from the check to
  the launch the application is the one that was checked.
* `AnswersAreTrue`: `AnswersTellLaunches`. What a reply says becomes true before
  it is sent and stays true: a call is `Done` when its handler has ended, and
  nothing is started for a done call any more (`Settled`). So what the outbox
  holds (`OutboxTells`) and what clients were told (`ClientsTold`) remain true
  while messages wait, are lost or arrive late. `LaunchedDone` says that nothing
  has been started for the call in hand, hence nothing twice.
* `ToldAreFound`: `ToldIsFound`. `AskedBefore` is the order of the outbox: a
  reply "bad" in it has the question for its sender before it, unless that
  question has found its process or the sender is gone. The daemon takes the
  oldest first and who has left does not come back, so a sender that is there
  for the reply was there for the question. `AskedOnce` and `Unasked` say that
  the question is asked once and its outcome open until the daemon comes to it.

`ClientLib_proofs`, for every number of programs, of which any may be the tool:

* `ClientsImplement`: `ClientSpec` implies `Spec` of `Dispatcher`. Every step of
  a client or its connection is one of the dispatcher's world, or changes
  nothing there: what a connection writes is a message of its own program
  (`OwnMessages`), hence a call that `Send` may make.
* `SuccessHolds`: `SuccessIsTrue`, from `AnswersTellLaunches`. The library tells
  of success only on an answer "ok", which is a client's last word
  (`ToldOfAnswer`), and the tool exits with success only after that
  (`ExitTells`); it asks for nothing but that a URL be dispatched
  (`ToolsDispatch`).
* `ClientTypeCorrect`: `ClientTypeOK`.

`ContextThread_proofs`, for every set of works and signals:

* `QueueImplemented`: `ImplementsWorkQueue` of `ThreadSpec`, in which any thread
  may attach, signal, cancel and quit at any time. `ThreadInv` adds to the types,
  which say that a batch is of one kind, that something is in hand or in the
  batch only while the loop runs. `Gather` then moves the
  whole of one queue to an empty batch, which leaves `Waiting` as it was.

`Service_proofs`, for every number of overlays and addresses, with and without
Mir:

* `TypeCorrect`: `TypeOK`. The invariant adds `ThreadInv`, and that the thread is
  between the two halves of adding an overlay only while it adds one.
* `ServiceQueue`: `ImplementsWorkQueue` of `Spec`. By the types, the pointer that
  Mir's thread passes on is an address and the overlay asked for exists, so
  every step of the service is one of `ThreadNext` or leaves the thread alone.

`Tracker_proofs`, about the same specification. Its theorems rest on one
invariant, `TrackerInv`, because each of its parts needs the others:

* `OrderInv`: where the main loop stands says whether Mir is there and whether
  the thread is cancelled; so Mir's thread never finds the thread cancelled, and
  nothing is refused.
* `CallInv`: among the works that wait for the thread at most one is one that
  the main loop waits for (`Add`, `Clear`), and only as long as it is not
  answered. So a second `Add` cannot overtake, and the destructor's work is the
  last.
* `SessionInv` and `EventInv`: an open session is tracked or half added, one at
  a time is being released, in a step of the thread that waits for it, and Mir
  says so once.
* `FreshInv`: an overlay beyond `added`, or whose `Add` waits, has no helper
  and, until it is begun, no session; so the thread opens one for each overlay
  only once.
* `HelperInv`: a signal of a stopped helper is about one that was reported, so
  its session can be given up; who is live is tracked.
* `ClearedInv`: after the destructor's work nothing is tracked and every session
  is released. `AddressInv`: only a released session shares its address.

`NothingIsStray` (`NothingStray`) and `ShutsDownInOrder` (`ShutdownOrder`) follow
from it. `StopsOnlyWhatEnded` (`StopsOnlyEnded`) needs `EndedInv` on top: every
`Remove(a)` on its way, every notice and every stop event goes back to a session
that Mir has stopped (`ended`), and of two sessions at one address the earlier
is released; so the one that is removed in another's place is the later one.

The assumptions are those the modules name: file and application names resolve
to applications, clients send what `DispatchURL` and `TestURL` take.

Each invariant and each action property of a passing run, and each refinement,
has its theorem. TLC checked every inductive invariant on the instances of the
runs before it was proved; the runs keep the properties, which their mutants
show to be more than the shape of the model.

Only model-checked is liveness: `Converges`, `EveryCallAnswered`, `ToldIsFiled`,
`CallbackCalled`, `ForgottenIsHandled`, `AddReturns`, `SessionFollows`,
`HelperFollows` and `ServiceExits`. It rests on fairness, hence on `ENABLED`,
which is beyond the provers. The refinements are of safety; neither `SharedDb` nor
`WorkQueue` promises that anything happens.

## Plan

1. Done: `UrlDb`, `UpdateDirectory`, their runs and first theorems.
2. Done: `SharedDb`, `UrlLookup` and `Dispatcher`, their runs and theorems.
3. Done: `WorkQueue` and `ContextThread`, with the theorem of their refinement.
4. Done: `OverlayTracker` and `Service` on top of it.
5. Done: `ClientLib` on top of `Dispatcher`.
6. Done: a theorem for every invariant, action property and refinement of the
   passing runs.
7. Next: what the theorems say of several parts at once. With the updaters of
   `UpdateDirectory` in the place of `ChangeDb`, the theorems of `Dispatcher`
   hold by `SharedDbImplemented`; a module that composes the two would state it.
   `UpToDateHolds` for several updaters with nobody's removal during the run.

## Not modelled

* The problem reporter (`recoverable-problem.c`) spawns a program, writes to it
  and waits; it has no effect on the program's state. `FileBug` is its run in
  the service. In an updater it shows only when it fails: a reporter that exits early
  kills the updater that writes to it, which is one of the kills of `Crashes`: a
  failed insert then also loses those after it, as in `update_crash`.
* `timeout`, `timeoutSeconds` and `getCancellable` of `ContextThread`, which
  nothing uses.
* The jobs of Upstart. The respawn of a service that died, with the script that
  may delete its database, is `Die` of `Dispatcher`; the refresh is the start of
  the updaters. What an updater does with a database file that is deleted under
  it is SQLite's and the file system's.
* Helpers of an earlier instance of the service, whose end could be reported to
  a tracker under construction.
* Tests, their fakes and the build files.

The user job passes `"~/.config/url-dispatcher/urls/*.url-dispatcher"` in quotes,
which no shell expands, so it finds neither a directory nor a parent and does
nothing.
