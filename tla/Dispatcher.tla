------------------------------ MODULE Dispatcher ------------------------------
(***************************************************************************)
(* service/dispatcher.c: the D-Bus service that starts the application for *)
(* a URL (DispatchURL) or names it (TestURL). It handles one call at a     *)
(* time in its main loop. Meanwhile the updaters change the database,      *)
(* packages bring and take overlays, clients leave the bus, give up on     *)
(* their calls and make new ones, and the service may die and come back.   *)
(*                                                                         *)
(* What the service sends goes to the bus daemon in order, and the daemon  *)
(* acts on one message after the other: outbox.                            *)
(***************************************************************************)
EXTENDS UrlLookup

CONSTANTS
    Apps,           \* application ids
    Unconfined,     \* the application id dispatcher.c refuses
    AppOf,          \* AppOf[f]: the name of file f, without directory and extension
    Packages,
    PackageOf,      \* PackageOf[a]: a's click package, or a itself if it has none
    Links,          \* the URLs clients send
    Form,           \* Form[u]: which of the expressions of dispatcher_init u matches
    Named,          \* Named[u]: the application an appid or application URL names
    Protocol, Host, \* of a generic URL
    IntentPackage,  \* what an intent URL names as its package, <<>> if nothing
    Intent,         \* the protocol of intent URLs
    Clients,        \* connections to the bus; their names are never used again
    Messages,       \* the calls clients make
    NoApp, NoLink, NoPackage,
    StartDb,        \* the database at the beginning ...
    StartOverlays,  \* ... and the applications with an overlay
    MaxCalls,       \* bound: how many calls are made
    MaxChanges,     \* bound: how often database and overlays change
    Crashes         \* whether the service can die

Forms == {"empty", "appid", "application", "generic", "other"}

(* A call, with its sender. The URLs of DispatchURL are one; its package   *)
(* is NoPackage if the string it sends is empty.                           *)
Call == [by : Clients, method : {"dispatch", "test"}, links : Seq(Links),
         package : Packages \cup {NoPackage}]

ASSUME UrlAssumption ==
    /\ Form \in [Links -> Forms]
    /\ \A u \in Links : Form[u] \in {"appid", "application"} => Named[u] \in Apps
    /\ NoLink \notin Links

ASSUME AppAssumption ==
    /\ AppOf \in [Files -> Apps]
    /\ PackageOf \in [Apps -> Packages]
    /\ NoApp \notin Apps /\ NoPackage \notin Packages

ASSUME CallAssumption ==
    /\ Messages \subseteq Call
    /\ \A m \in Messages : m.method = "dispatch" => Len(m.links) = 1
    /\ MaxCalls \in Nat /\ MaxChanges \in Nat

ASSUME StartAssumption == StartDb \in Db /\ StartOverlays \subseteq Apps

VARIABLES
    \* around the service
    db,         \* the URL database
    overlays,   \* applications with a .desktop file in an overlay directory
    changes,    \* how often those two have changed
    present,    \* clients on the bus
    calls,      \* the calls made so far, as the bus hands them over
    answer,     \* answer[i]: what the client was told of call i
    bug,        \* bug[i]: how far the report on call i's sender has come: its
                \* process found, the sender gone, filed, or lost in a crash
    outbox,     \* messages to the bus daemon
    \* the service
    tracker,    \* whether overlay_tracker_new found Mir
    taken,      \* calls taken up
    pc, app,    \* where the handler of call number taken stands, and its appid
    tested,     \* the application ids test_url_cb has collected
    \* history
    launches    \* what was started, in order

aroundVars  == <<db, overlays, changes, present, calls>>
busVars     == <<answer, bug, outbox>>
serviceVars == <<tracker, taken, pc, app, tested>>
vars        == <<aroundVars, busVars, serviceVars, launches>>

Calls    == 1..MaxCalls
Statuses == {"none", "ok", "bad", "restricted", "unknown", "noreply"}
Answer   == [status : Statuses, apps : Seq(Apps)]
Say(status, apps) == [status |-> status, apps |-> apps]
Nothing  == Say("none", <<>>)

Message ==
    [kind : {"reply"}, call : Calls, answer : Answer]
      \cup [kind : {"report", "pid"}, call : Calls]

Launch == [call : Calls, app : Apps, url : Links \cup {NoLink}, overlay : BOOLEAN]

TypeOK ==
    /\ db \in Db
    /\ overlays \subseteq Apps
    /\ changes \in 0..MaxChanges
    /\ present \subseteq Clients
    /\ calls \in Seq(Call) /\ Len(calls) <= MaxCalls
    /\ answer \in [Calls -> Answer]
    /\ bug \in [Calls -> {"none", "found", "gone", "filed", "dropped"}]
    /\ outbox \in Seq(Message)
    /\ tracker \in BOOLEAN
    /\ taken \in 0..Len(calls)
    /\ pc \in {"idle", "dispatch", "send", "pid", "add", "fail", "test"}
    /\ app \in Apps \cup {NoApp}
    /\ tested \in Seq(Apps)
    /\ launches \in Seq(Launch)

Init ==
    /\ db = StartDb
    /\ overlays = StartOverlays
    /\ changes = 0
    /\ present = Clients
    /\ calls = <<>>
    /\ answer = [i \in Calls |-> Nothing]
    /\ bug = [i \in Calls |-> "none"]
    /\ outbox = <<>>
    /\ tracker \in BOOLEAN
    /\ taken = 0
    /\ pc = "idle"
    /\ app = NoApp
    /\ tested = <<>>
    /\ launches = <<>>
-----------------------------------------------------------------------------
(* Around the service. Modification times do not matter to it.             *)
Updaters == INSTANCE SharedDb WITH Times <- {0}

ChangeDb ==
    /\ changes < MaxChanges
    /\ changes' = changes + 1
    /\ Updaters!Next
    /\ UNCHANGED <<overlays, present, calls, busVars, serviceVars, launches>>

ChangeOverlays ==
    /\ changes < MaxChanges
    /\ changes' = changes + 1
    /\ \E a \in Apps : overlays' = (overlays \ {a}) \cup ({a} \ overlays)
    /\ UNCHANGED <<db, present, calls, busVars, serviceVars, launches>>

Send(m) ==
    /\ Len(calls) < MaxCalls
    /\ m.by \in present
    /\ calls' = Append(calls, m)
    /\ UNCHANGED <<db, overlays, changes, present, busVars, serviceVars, launches>>

Leave(c) ==
    /\ c \in present
    /\ present' = present \ {c}
    /\ UNCHANGED <<db, overlays, changes, calls, busVars, serviceVars, launches>>

Pending(i) == i \in DOMAIN calls /\ answer[i] = Nothing

(* A client waits for its answer until D-Bus's default timeout.            *)
TimeOut(i) ==
    /\ Pending(i)
    /\ answer' = [answer EXCEPT ![i] = Say("noreply", <<>>)]
    /\ UNCHANGED <<aroundVars, bug, outbox, serviceVars, launches>>

(* The bus daemon acts on a message. A reply goes to its caller, if that   *)
(* is there and still waiting; the process of a sender is found if the     *)
(* sender is still there. The handler of an overlay waits for the latter.  *)
Here(i) == calls[i].by \in present

Deliver ==
    /\ outbox # <<>>
    /\ outbox' = Tail(outbox)
    /\ LET m == Head(outbox) IN
          \/ /\ m.kind = "reply"
             /\ answer' = IF Pending(m.call) /\ Here(m.call)
                          THEN [answer EXCEPT ![m.call] = m.answer] ELSE answer
             /\ UNCHANGED <<bug, pc>>
          \/ /\ m.kind = "report"
             /\ bug' = [bug EXCEPT ![m.call] = IF Here(m.call) THEN "found" ELSE "gone"]
             /\ UNCHANGED <<answer, pc>>
          \/ /\ m.kind = "pid"
             /\ pc' = IF Here(m.call) THEN "add" ELSE "fail"
             /\ UNCHANGED <<answer, bug>>
    /\ UNCHANGED <<aroundVars, tracker, taken, app, tested, launches>>
-----------------------------------------------------------------------------
(* Which application a URL is for: what dispatcher_url_to_appid may return.*)
(* The triplet of an appid URL need not name an installed application.     *)
Domain(u) == IF Protocol[u] = Intent THEN IntentPackage[u] ELSE Host[u]

(* What the database gives: the application of a file it answers, or none, *)
(* which is also what a select gives that fails, as while an updater's     *)
(* commit is being written.                                                *)
Found(u) == {NoApp} \cup {AppOf[f] : f \in FindUrl(db, Protocol[u], Domain(u))}

UrlToAppid(u) ==
    CASE Form[u] = "appid"       -> {Named[u], NoApp}
      [] Form[u] = "application" -> {Named[u]}
      [] Form[u] = "generic"     -> Found(u)
      [] OTHER                   -> {NoApp}

(* Only a generic URL is passed on: out_url stays NULL for the others.     *)
OutUrl(u) == IF Form[u] = "generic" THEN u ELSE NoLink

Restricted(a, p) == p # NoPackage /\ PackageOf[a] # p

(* The end of a handler, with what it sends. bad_url asks for the sender's *)
(* process before it answers.                                              *)
Current == calls[taken]
Url     == Head(Current.links)

Finish(messages) ==
    /\ outbox' = outbox \o messages
    /\ pc' = "idle"
    /\ app' = NoApp
    /\ tested' = <<>>
    /\ UNCHANGED <<aroundVars, answer, bug, tracker, taken>>

Reply(status, apps) == [kind |-> "reply", call |-> taken, answer |-> Say(status, apps)]

(* What would go wrong: the client is answered first ...                   *)
AnswerFirst == <<Reply("bad", <<>>), [kind |-> "report", call |-> taken]>>

(* ... or nobody asks for its process.                                     *)
AnswerOnly == <<Reply("bad", <<>>)>>

BadUrl == <<[kind |-> "report", call |-> taken], Reply("bad", <<>>)>>

Goto(where) == pc' = where /\ UNCHANGED <<aroundVars, busVars, tracker, taken, tested>>
-----------------------------------------------------------------------------
Take ==
    /\ pc = "idle"
    /\ taken < Len(calls)
    /\ taken' = taken + 1
    /\ pc' = calls[taken + 1].method
    /\ UNCHANGED <<aroundVars, busVars, tracker, app, tested, launches>>

(* dispatch_url_cb up to its checks: what cannot be resolved and the app   *)
(* "unconfined" are refused, then what the restriction does not allow.     *)
Refuse ==
    /\ pc = "dispatch"
    /\ \E a \in UrlToAppid(Url) :
          \/ a \in {NoApp, Unconfined} /\ Finish(BadUrl)
          \/ /\ a \notin {NoApp, Unconfined}
             /\ Restricted(a, Current.package)
             /\ Finish(<<Reply("restricted", <<>>)>>)
    /\ UNCHANGED launches

Clear ==
    /\ pc = "dispatch"
    /\ \E a \in UrlToAppid(Url) :
          /\ a \notin {NoApp, Unconfined}
          /\ ~Restricted(a, Current.package)
          /\ app' = a
    /\ Goto("send")
    /\ UNCHANGED launches

Start(a, overlay) ==
    launches' = Append(launches, [call |-> taken, app |-> a, url |-> OutUrl(Url),
                                  overlay |-> overlay])

(* What would go wrong: the application is looked up again to be started.  *)
SendLookedUpAgain ==
    /\ pc = "send"
    /\ app \notin overlays
    /\ \E a \in UrlToAppid(Url) \ {NoApp} : Start(a, FALSE)
    /\ Finish(<<Reply("ok", <<>>)>>)

(* dispatcher_send_to_app, the dash included: the answer does not depend   *)
(* on whether ubuntu-app-launch or the dash does as it is told. send_to_   *)
(* dash fails without a session bus only; the connection it asks for is    *)
(* the one the call came on, and is there.                                 *)
SendToApp ==
    /\ pc = "send"
    /\ app \notin overlays
    /\ Start(app, FALSE)
    /\ Finish(<<Reply("ok", <<>>)>>)

(* dispatcher_send_to_overlay waits for the sender's process id.           *)
AskPid ==
    /\ pc = "send"
    /\ app \in overlays
    /\ outbox' = Append(outbox, [kind |-> "pid", call |-> taken])
    /\ pc' = "pid"
    /\ UNCHANGED <<aroundVars, answer, bug, tracker, taken, app, tested, launches>>

(* overlay_tracker_add: without a tracker or a URL there is no overlay,    *)
(* and Mir or ubuntu-app-launch may refuse one.                            *)
AddOverlay ==
    /\ pc = "add"
    /\ tracker
    /\ OutUrl(Url) # NoLink
    /\ Start(app, TRUE)
    /\ Finish(<<Reply("ok", <<>>)>>)

AddOverlayFails ==
    /\ pc = "add"
    /\ Goto("fail")
    /\ UNCHANGED <<app, launches>>

(* What would go wrong: the application is started in the overlay's place, *)
(* ...                                                                     *)
FallBackToApp ==
    /\ pc = "fail"
    /\ Start(app, FALSE)
    /\ Finish(BadUrl)

(* ... or the handler returns without an answer.                           *)
FailSilently ==
    /\ pc = "fail"
    /\ Finish(<<>>)
    /\ UNCHANGED launches

(* The handler answers, and since it also returns FALSE, the generated     *)
(* skeleton answers once more, with an error of its own.                   *)
FailOverlay ==
    /\ pc = "fail"
    /\ Finish(BadUrl \o <<Reply("unknown", <<>>)>>)
    /\ UNCHANGED launches

(* What would go wrong: an URL without an application gets none in the     *)
(* answer.                                                                 *)
TestAnyUrl ==
    /\ pc = "test"
    /\ Len(tested) < Len(Current.links)
    /\ \E a \in UrlToAppid(Current.links[Len(tested) + 1]) : tested' = Append(tested, a)
    /\ UNCHANGED <<aroundVars, busVars, tracker, taken, pc, app, launches>>

(* test_url_cb, one URL after the other.                                   *)
TestUrl ==
    /\ pc = "test"
    /\ Len(tested) < Len(Current.links)
    /\ \E a \in UrlToAppid(Current.links[Len(tested) + 1]) :
          \/ a = NoApp /\ Finish(BadUrl)
          \/ /\ a # NoApp
             /\ tested' = Append(tested, a)
             /\ UNCHANGED <<aroundVars, busVars, tracker, taken, pc, app>>
    /\ UNCHANGED launches

TestDone ==
    /\ pc = "test"
    /\ Len(tested) = Len(Current.links)
    /\ Finish(IF tested = <<>> THEN BadUrl ELSE <<Reply("ok", tested)>>)
    /\ UNCHANGED launches

(* recoverable_problem_file, when the main loop gets to it.                *)
FileBug(i) ==
    /\ pc = "idle"
    /\ bug[i] = "found"
    /\ bug' = [bug EXCEPT ![i] = "filed"]
    /\ UNCHANGED <<aroundVars, answer, outbox, serviceVars, launches>>

(* The service dies and Upstart starts it again, with a new database if    *)
(* the job's script comes to delete the old one. The bus answers what the  *)
(* service will not, and what it was about to do is forgotten.             *)
Die ==
    /\ Crashes
    /\ db' \in {db, EmptyDb}
    /\ answer' = [i \in Calls |-> IF Pending(i) /\ Here(i) THEN Say("noreply", <<>>)
                                  ELSE answer[i]]
    /\ bug' = [i \in Calls |-> IF bug[i] = "found" THEN "dropped" ELSE bug[i]]
    /\ outbox' = <<>>
    /\ tracker' \in BOOLEAN
    /\ taken' = Len(calls)
    /\ pc' = "idle"
    /\ app' = NoApp
    /\ tested' = <<>>
    /\ UNCHANGED <<overlays, changes, present, calls, launches>>
-----------------------------------------------------------------------------
Handle == \/ Take \/ Refuse \/ Clear \/ SendToApp \/ AskPid
          \/ AddOverlay \/ AddOverlayFails \/ FailOverlay \/ TestUrl \/ TestDone

Around == \/ ChangeDb \/ ChangeOverlays
          \/ \E m \in Messages : Send(m)
          \/ \E c \in Clients : Leave(c)
          \/ \E i \in Calls : TimeOut(i)

Next == Handle \/ Deliver \/ Around \/ Die \/ \E i \in Calls : FileBug(i)

Spec == Init /\ [][Next]_vars
-----------------------------------------------------------------------------
Started(i) == {k \in DOMAIN launches : launches[k].call = i}
Dispatched(i) == i \in DOMAIN calls /\ calls[i].method = "dispatch"

(* The answer tells what was done: a client that is told of success had    *)
(* one thing started for its URL, one that is refused had none, and        *)
(* nobody, not even one who gave up waiting, had two.                      *)
AnswersTellLaunches ==
    \A i \in Calls :
       /\ \A k, l \in Started(i) : k = l
       /\ Dispatched(i) /\ answer[i].status = "ok" => Started(i) # {}
       /\ answer[i].status \in {"bad", "restricted", "unknown"} => Started(i) = {}

(* A restricted URL is only ever handed to its package, whatever updaters  *)
(* do between TestURL and DispatchURL or during either ("to avoid races    *)
(* that can occur between the test and the processing"), and no URL to     *)
(* "unconfined".                                                           *)
RestrictedStaysInside ==
    \A k \in DOMAIN launches :
       LET l == launches[k] IN
          /\ ~Restricted(l.app, calls[l.call].package)
          /\ l.app # Unconfined

(* Whoever is told that its URL is bad was still there when the bus was    *)
(* asked for its process, so that the problem is filed on the right        *)
(* package even if it leaves at once ...                                   *)
ToldIsFound ==
    \A i \in Calls : answer[i].status = "bad" => bug[i] \in {"found", "filed", "dropped"}

(* ... and filed it is ("In that case a bug will be filled on this         *)
(* package"), unless the service dies first.                               *)
ToldIsFiled ==
    \A i \in Calls : answer[i].status = "bad" ~> bug[i] \in {"filed", "dropped"}

(* Every call of a client that stays is answered.                          *)
EveryCallAnswered ==
    \A i \in Calls : i \in DOMAIN calls ~> ~Pending(i) \/ ~Here(i)
=============================================================================
