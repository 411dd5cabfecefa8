-------------------------- MODULE Dispatcher_proofs --------------------------
(***************************************************************************)
(* What Dispatcher promises for every set of applications, URLs and        *)
(* clients, every database and every number of calls.                      *)
(***************************************************************************)
EXTENDS Dispatcher, UrlDb_proofs, SequenceTheorems, TLAPS

(* What a handler knows of the call it works on. While the bus is asked    *)
(* for a process id the handler waits, and sends nothing else.             *)
Dispatching == {"dispatch", "send", "pid", "add", "fail"}
Cleared     == {"send", "pid", "add", "fail"}

HandlerInv ==
    /\ \A i \in DOMAIN calls : calls[i] \in Messages
    /\ pc # "idle" => taken \in DOMAIN calls
    /\ pc \in Dispatching => Current.method = "dispatch"
    /\ pc = "test" => Current.method = "test"
    /\ pc \in Cleared => app \in Apps

PidInv == \A k \in DOMAIN outbox : outbox[k].kind = "pid" => k = Len(outbox) /\ pc = "pid"

TypeInv == TypeOK /\ HandlerInv /\ PidInv
-----------------------------------------------------------------------------
LEMMA CallFacts ==
    ASSUME TypeInv
    PROVE  /\ Len(calls) \in Nat /\ DOMAIN calls = 1..Len(calls)
           /\ DOMAIN calls \subseteq Calls
           /\ \A i \in DOMAIN calls : calls[i] \in Call /\ calls[i].links \in Seq(Links)
           /\ pc # "idle" => taken \in Calls
           /\ pc \in Dispatching => Url \in Links
<1> USE CallAssumption DEF TypeInv, TypeOK, HandlerInv
<1>1. Len(calls) \in Nat /\ DOMAIN calls = 1..Len(calls) /\ DOMAIN calls \subseteq Calls
  BY DEF Calls
<1>2. \A i \in DOMAIN calls : calls[i] \in Call /\ calls[i].links \in Seq(Links)
  BY DEF Call
<1>3. ASSUME pc \in Dispatching PROVE Url \in Links
  <2>1. taken \in DOMAIN calls /\ Current \in Messages /\ Current.method = "dispatch"
    BY <1>3 DEF Dispatching, Current
  <2>2. Len(Current.links) = 1 /\ Current.links \in Seq(Links)
    BY <2>1 DEF Call
  <2>3. QED
    BY <2>2 DEF Url
<1>4. QED
  BY <1>1, <1>2, <1>3

(* A URL is resolved to an application, or to none.                        *)
LEMMA ResolvedType ==
    ASSUME db \in Db, NEW u \in Links
    PROVE  UrlToAppid(u) \subseteq Apps \cup {NoApp}
<1>1. FindUrl(db, Protocol[u], Domain(u)) \subseteq Files
  <2>1. \A m \in Matches(db, Protocol[u], Domain(u)) : m[1] \in FileRow
    BY DEF Matches, Db
  <2>2. QED
    BY <2>1 DEF FindUrl, FileRow
<1>2. Found(u) \subseteq Apps \cup {NoApp}
  BY <1>1, AppAssumption DEF Found
<1>3. Form[u] \in {"appid", "application"} => Named[u] \in Apps
  BY UrlAssumption
<1>4. QED
  BY <1>2, <1>3 DEF UrlToAppid

(* The database stays one while the updaters change it.                    *)
LEMMA DbStep == ASSUME db \in Db, Updaters!Next PROVE db' \in Db
<1>1. PICK f \in Files : \/ Updaters!NoteFile(f) \/ Updaters!DeclareUrl(f)
                         \/ Updaters!RemoveFile(f)
  BY DEF Updaters!Next
<1>2. CASE Updaters!NoteFile(f)
  <2>1. PICK n \in RowIds, t \in {0} : db' = Updaters!SetFileTime(db, n, f, t)
    BY <1>2 DEF Updaters!NoteFile
  <2>2. db' = SetFileTime(db, n, f, t)
    BY <2>1 DEF SetFileTime, RowsOf, Updaters!SetFileTime, Updaters!RowsOf
  <2>3. QED
    BY <2>2, DbType
<1>3. CASE Updaters!DeclareUrl(f)
  <2>1. PICK u \in Urls : db' = Updaters!InsertUrl(db, f, u)
    BY <1>3 DEF Updaters!DeclareUrl
  <2>2. db' = InsertUrl(db, f, u)
    BY <2>1 DEF InsertUrl, IdsOf, RowsOf, Updaters!InsertUrl, Updaters!IdsOf, Updaters!RowsOf
  <2>3. QED
    BY <2>2, DbType
<1>4. CASE Updaters!RemoveFile(f)
  <2>1. db' = DeleteFile(DeleteUrls(db, f), f)
    BY <1>4 DEF Updaters!RemoveFile, Updaters!DeleteFile, Updaters!DeleteUrls,
                Updaters!IdsOf, Updaters!RowsOf, DeleteFile, DeleteUrls, IdsOf, RowsOf
  <2>2. DeleteUrls(db, f) \in Db
    BY DbType
  <2>3. QED
    BY <2>1, <2>2, DbType
<1>5. QED
  BY <1>1, <1>2, <1>3, <1>4

(* What a handler sends at its end.                                        *)
Note == {m \in Message : m.kind # "pid"}

LEMMA ReplyType ==
    ASSUME taken \in Calls
    PROVE  /\ \A st \in Statuses, apps \in Seq(Apps) : Reply(st, apps) \in Note
           /\ [kind |-> "report", call |-> taken] \in Note
           /\ <<>> \in Seq(Apps)
           /\ BadUrl \in Seq(Note)
           /\ BadUrl \o <<Reply("unknown", <<>>)>> \in Seq(Note)
<1>1. ASSUME NEW st \in Statuses, NEW apps \in Seq(Apps)
      PROVE  Reply(st, apps) \in Note
  <2>1. Say(st, apps) \in Answer
    BY DEF Say, Answer
  <2>2. QED
    BY <2>1 DEF Reply, Note, Message
<1>2. [kind |-> "report", call |-> taken] \in Note
  BY DEF Note, Message
<1>3. <<>> \in Seq(Apps) /\ {"bad", "unknown"} \subseteq Statuses
  BY DEF Statuses
<1>4. Reply("bad", <<>>) \in Note /\ Reply("unknown", <<>>) \in Note
  BY <1>1, <1>3
<1>5. BadUrl \in Seq(Note)
  BY <1>2, <1>4 DEF BadUrl
<1>6. BadUrl \o <<Reply("unknown", <<>>)>> \in Seq(Note)
  <2>1. <<Reply("unknown", <<>>)>> \in Seq(Note)
    BY <1>4
  <2>2. QED
    BY <1>5, <2>1, ConcatProperties
<1>7. QED
  BY <1>1, <1>2, <1>3, <1>5, <1>6

LEMMA FinishStep ==
    ASSUME TypeInv, NEW messages \in Seq(Note), Finish(messages), pc # "pid",
           launches' \in Seq(Launch)
    PROVE  TypeInv'
<1> USE DEF TypeInv
<1>1. messages \in Seq(Message)
  BY SeqMonotonic DEF Note
<1>2. outbox \in Seq(Message) /\ outbox' = outbox \o messages
  BY DEF TypeOK, Finish
<1>3. outbox' \in Seq(Message)
  BY <1>1, <1>2, ConcatProperties
<1>4. \A k \in DOMAIN outbox' : outbox'[k].kind # "pid"
  <2>1. DOMAIN outbox' = 1..(Len(outbox) + Len(messages))
    BY <1>1, <1>2, <1>3, ConcatProperties, LenProperties
  <2>2. \A k \in 1..Len(outbox) : outbox[k].kind # "pid"
    BY <1>2, LenProperties DEF PidInv
  <2>3. \A k \in 1..Len(messages) : messages[k].kind # "pid"
    BY ElementOfSeq DEF Note
  <2>4. Len(outbox) \in Nat /\ Len(messages) \in Nat
    BY <1>1, <1>2, LenProperties
  <2>5. QED
    BY <1>1, <1>2, <2>1, <2>2, <2>3, <2>4, ConcatProperties
<1>5. TypeOK'
  BY <1>3, ReplyType DEF TypeOK, Finish, aroundVars
<1>6. HandlerInv'
  BY DEF HandlerInv, Finish, aroundVars, Dispatching, Cleared
<1>7. QED
  BY <1>4, <1>5, <1>6 DEF PidInv

LEMMA StartType ==
    ASSUME TypeInv, pc \in Cleared, NEW overlay \in BOOLEAN, Start(app, overlay)
    PROVE  launches' \in Seq(Launch)
<1>1. taken \in Calls /\ app \in Apps /\ OutUrl(Url) \in Links \cup {NoLink}
  BY CallFacts DEF TypeInv, HandlerInv, Cleared, Dispatching, OutUrl
<1>2. [call |-> taken, app |-> app, url |-> OutUrl(Url), overlay |-> overlay] \in Launch
  BY <1>1 DEF Launch
<1>3. QED
  BY <1>2 DEF Start, TypeInv, TypeOK

(* Every handler that ends sends something that is not a request for a     *)
(* process id.                                                             *)
LEMMA HandleStep == ASSUME TypeInv, Handle PROVE TypeInv'
<1> USE DEF TypeInv
<1> launches \in Seq(Launch) /\ tested \in Seq(Apps) /\ outbox \in Seq(Message)
  BY DEF TypeOK
<1>1. CASE Take
  <2>1. taken + 1 \in DOMAIN calls /\ calls[taken + 1] \in Messages
        /\ calls[taken + 1].method \in {"dispatch", "test"}
    BY <1>1, CallFacts DEF Take, TypeOK, HandlerInv, Call
  <2>2. TypeOK'
    BY <1>1, <2>1, CallFacts DEF Take, TypeOK, aroundVars, busVars
  <2>3. HandlerInv'
    BY <1>1, <2>1 DEF Take, HandlerInv, aroundVars, Current, Dispatching, Cleared
  <2>4. PidInv'
    BY <1>1 DEF Take, PidInv, busVars
  <2>5. QED
    BY <2>2, <2>3, <2>4
<1>2. CASE Refuse
  <2>1. Reply("restricted", <<>>) \in Note /\ BadUrl \in Seq(Note)
    BY <1>2, CallFacts, ReplyType DEF Refuse, Statuses
  <2> <<Reply("restricted", <<>>)>> \in Seq(Note)
    BY <2>1
  <2>2. PICK messages \in Seq(Note) : Finish(messages)
    BY <1>2, <2>1 DEF Refuse
  <2>3. QED
    BY <1>2, <2>2, FinishStep DEF Refuse
<1>3. CASE Clear
  <2>1. app' \in Apps
    BY <1>3, CallFacts, ResolvedType DEF Clear, TypeOK, Dispatching
  <2>2. QED
    BY <1>3, <2>1 DEF Clear, Goto, TypeOK, HandlerInv, PidInv, Current, Dispatching,
                      Cleared, aroundVars, busVars
<1>4. CASE SendToApp \/ AddOverlay
  <2>1. launches' \in Seq(Launch)
    BY <1>4, StartType DEF SendToApp, AddOverlay, Cleared
  <2> Reply("ok", <<>>) \in Note
    BY <1>4, CallFacts, ReplyType DEF SendToApp, AddOverlay, Statuses
  <2>2. <<Reply("ok", <<>>)>> \in Seq(Note)
    OBVIOUS
  <2>3. Finish(<<Reply("ok", <<>>)>>) /\ pc # "pid"
    BY <1>4 DEF SendToApp, AddOverlay
  <2>4. QED
    BY <2>1, <2>2, <2>3, FinishStep
<1>5. CASE AskPid
  <2> DEFINE m == [kind |-> "pid", call |-> taken]
  <2>1. m \in Message /\ outbox' = Append(outbox, m)
    BY <1>5, CallFacts DEF AskPid, Message
  <2>2. \A k \in DOMAIN outbox : outbox[k].kind # "pid"
    BY <1>5 DEF AskPid, PidInv
  <2>3. PidInv'
    BY <1>5, <2>1, <2>2 DEF AskPid, PidInv
  <2>4. TypeOK' /\ HandlerInv'
    BY <1>5, <2>1 DEF AskPid, TypeOK, HandlerInv, Current, Dispatching, Cleared, aroundVars
  <2>5. QED
    BY <2>3, <2>4
<1>6. CASE AddOverlayFails
  BY <1>6 DEF AddOverlayFails, Goto, TypeOK, HandlerInv, PidInv, Current, Dispatching,
              Cleared, aroundVars, busVars
<1>7. CASE FailOverlay
  BY <1>7, CallFacts, ReplyType, FinishStep DEF FailOverlay
<1>8. CASE TestUrl
  <2>1. CASE Finish(BadUrl)
    BY <1>8, <2>1, CallFacts, ReplyType, FinishStep DEF TestUrl
  <2>2. CASE ~Finish(BadUrl)
    <3>1. /\ Len(tested) \in Nat /\ taken \in DOMAIN calls
          /\ Current.links \in Seq(Links)
      BY <1>8, CallFacts DEF TestUrl, HandlerInv, Current
    <3>2. Current.links[Len(tested) + 1] \in Links
      BY <1>8, <3>1 DEF TestUrl
    <3>3. PICK a \in Apps : tested' = Append(tested, a)
      BY <1>8, <2>2, <3>2, ResolvedType DEF TestUrl, TypeOK
    <3>4. QED
      BY <1>8, <2>2, <3>3 DEF TestUrl, TypeOK, HandlerInv, PidInv, Current, aroundVars,
                              busVars
  <2>3. QED
    BY <2>1, <2>2
<1>9. CASE TestDone
  <2>1. <<Reply("ok", tested)>> \in Seq(Note) /\ BadUrl \in Seq(Note)
    BY <1>9, CallFacts, ReplyType DEF TestDone, Statuses
  <2>2. QED
    BY <1>9, <2>1, FinishStep DEF TestDone
<1>10. QED
  BY <1>1, <1>2, <1>3, <1>4, <1>5, <1>6, <1>7, <1>8, <1>9 DEF Handle

(* The world around the service only adds calls to those it knows.         *)
LEMMA AroundStep == ASSUME TypeInv, Around PROVE TypeInv'
<1> USE DEF TypeInv
<1>1. CASE ChangeDb
  <2>1. db' \in Db
    BY <1>1, DbStep DEF ChangeDb, TypeOK
  <2>2. changes' \in 0..MaxChanges
    BY <1>1, CallAssumption DEF ChangeDb, TypeOK
  <2>3. QED
    BY <1>1, <2>1, <2>2 DEF ChangeDb, TypeOK, HandlerInv, PidInv, Current, busVars, serviceVars
<1>2. CASE ChangeOverlays
  <2>1. overlays' \subseteq Apps
    BY <1>2 DEF ChangeOverlays, TypeOK
  <2>2. changes' \in 0..MaxChanges
    BY <1>2, CallAssumption DEF ChangeOverlays, TypeOK
  <2>3. QED
    BY <1>2, <2>1, <2>2 DEF ChangeOverlays, TypeOK, HandlerInv, PidInv, Current, busVars,
                            serviceVars
<1>3. CASE \E m \in Messages : Send(m)
  <2>1. PICK m \in Messages : Send(m)
    BY <1>3
  <2>2. m \in Call /\ calls \in Seq(Call) /\ calls' = Append(calls, m)
    BY <2>1, CallAssumption DEF Send, TypeOK
  <2>3. /\ calls' \in Seq(Call) /\ Len(calls') = Len(calls) + 1
        /\ DOMAIN calls' = 1..(Len(calls) + 1)
        /\ \A i \in 1..Len(calls) : calls'[i] = calls[i]
        /\ calls'[Len(calls) + 1] = m
    BY <2>2, AppendProperties
  <2>4. Len(calls) \in Nat /\ DOMAIN calls = 1..Len(calls)
    BY CallFacts
  <2>5. TypeOK'
    BY <2>1, <2>3, <2>4, CallAssumption DEF Send, TypeOK, busVars, serviceVars
  <2>6. HandlerInv'
    <3>1. pc # "idle" => taken \in DOMAIN calls' /\ calls'[taken] = calls[taken]
      BY <2>3, <2>4 DEF HandlerInv
    <3>2. \A i \in DOMAIN calls' : calls'[i] \in Messages
      BY <2>3, <2>4 DEF HandlerInv
    <3>3. QED
      BY <2>1, <3>1, <3>2 DEF Send, HandlerInv, Current, serviceVars, Dispatching, Cleared
  <2>7. QED
    BY <2>1, <2>5, <2>6 DEF Send, PidInv, busVars, serviceVars
<1>4. CASE \E c \in Clients : Leave(c)
  BY <1>4 DEF Leave, TypeOK, HandlerInv, PidInv, Current, busVars, serviceVars
<1>5. CASE \E i \in Calls : TimeOut(i)
  <2>1. PICK i \in Calls : TimeOut(i)
    BY <1>5
  <2>2. Say("noreply", <<>>) \in Answer
    BY DEF Say, Answer, Statuses
  <2>3. QED
    BY <2>1, <2>2 DEF TimeOut, TypeOK, HandlerInv, PidInv, Current, aroundVars, serviceVars
<1>6. QED
  BY <1>1, <1>2, <1>3, <1>4, <1>5 DEF Around

(* Only the last message can be a request for a process id: once it is     *)
(* acted on, no such request is left.                                      *)
LEMMA DeliverStep == ASSUME TypeInv, Deliver PROVE TypeInv'
<1> USE DEF TypeInv
<1> DEFINE m == Head(outbox)
<1>1. outbox \in Seq(Message) /\ outbox # <<>> /\ outbox' = Tail(outbox)
  BY DEF Deliver, TypeOK
<1>2. /\ m \in Message /\ m = outbox[1] /\ 1 \in DOMAIN outbox
      /\ outbox' \in Seq(Message) /\ Len(outbox) \in Nat
      /\ Len(outbox') = Len(outbox) - 1
      /\ \A k \in DOMAIN outbox' : k + 1 \in DOMAIN outbox /\ outbox'[k] = outbox[k + 1]
      /\ DOMAIN outbox' = 1..(Len(outbox) - 1)
  BY <1>1, HeadTailProperties
<1>3. \A k \in DOMAIN outbox' : outbox'[k].kind = "pid" => k = Len(outbox') /\ pc = "pid"
  BY <1>2 DEF PidInv
<1>4. m.kind = "pid" => Len(outbox') = 0 /\ pc = "pid"
  BY <1>2 DEF PidInv
<1>5. PidInv'
  <2>1. CASE m.kind = "pid"
    BY <2>1, <1>2, <1>4 DEF PidInv
  <2>2. CASE m.kind # "pid"
    BY <2>2, <1>3 DEF PidInv, Deliver
  <2>3. QED
    BY <2>1, <2>2
<1>6. m.call \in Calls /\ (m.kind = "reply" => m.answer \in Answer)
  BY <1>2 DEF Message
<1>7. answer' \in [Calls -> Answer]
  BY <1>6 DEF Deliver, TypeOK
<1>8. bug' \in [Calls -> {"none", "found", "gone", "filed", "dropped"}]
  BY <1>6 DEF Deliver, TypeOK
<1>9. pc' = pc \/ (pc = "pid" /\ pc' \in {"add", "fail"})
  BY <1>4 DEF Deliver
<1>10. TypeOK'
  BY <1>2, <1>7, <1>8, <1>9 DEF Deliver, TypeOK, aroundVars
<1>11. HandlerInv'
  BY <1>9 DEF Deliver, HandlerInv, aroundVars, Current, Dispatching, Cleared
<1>12. QED
  BY <1>5, <1>10, <1>11

LEMMA DieStep == ASSUME TypeInv, Die PROVE TypeInv'
<1> USE DEF TypeInv
<1>1. Say("noreply", <<>>) \in Answer
  BY DEF Say, Answer, Statuses
<1>2. answer' \in [Calls -> Answer]
  BY <1>1 DEF Die, TypeOK
<1>3. taken' \in 0..Len(calls)
  BY CallFacts DEF Die
<1>4. db' \in Db
  BY DEF Die, TypeOK, EmptyDb, Db
<1>5. TypeOK'
  BY <1>2, <1>3, <1>4 DEF Die, TypeOK
<1>6. HandlerInv' /\ PidInv'
  BY DEF Die, HandlerInv, PidInv, Dispatching, Cleared
<1>7. QED
  BY <1>5, <1>6

LEMMA InitType == Init => TypeInv
<1> SUFFICES ASSUME Init PROVE TypeInv
  OBVIOUS
<1>1. Nothing \in Answer
  BY DEF Nothing, Say, Answer, Statuses
<1>2. TypeOK
  BY <1>1, StartAssumption, CallAssumption DEF Init, TypeOK
<1>3. QED
  BY <1>2 DEF Init, TypeInv, HandlerInv, PidInv, Dispatching, Cleared

LEMMA TypeStep == TypeInv /\ [Next]_vars => TypeInv'
<1> SUFFICES ASSUME TypeInv, [Next]_vars PROVE TypeInv'
  OBVIOUS
<1>1. CASE \E i \in Calls : FileBug(i)
  BY <1>1 DEF FileBug, TypeInv, TypeOK, HandlerInv, PidInv, Current, aroundVars, serviceVars
<1>2. CASE UNCHANGED vars
  BY <1>2 DEF vars, aroundVars, busVars, serviceVars, TypeInv, TypeOK, HandlerInv, PidInv,
              Current
<1>3. QED
  BY <1>1, <1>2, HandleStep, AroundStep, DeliverStep, DieStep DEF Next

(* The variables of the service keep their types, however many calls,      *)
(* clients and applications there are.                                     *)
THEOREM TypeCorrect == Spec => []TypeOK
<1>1. TypeInv => TypeOK
  BY DEF TypeInv
<1>2. QED
  BY <1>1, InitType, TypeStep, PTL DEF Spec
-----------------------------------------------------------------------------
(* The application that was cleared is the one that is started.            *)
ClearedInv  == pc \in Cleared => ~Restricted(app, Current.package) /\ app # Unconfined
LaunchedInv == \A k \in DOMAIN launches : launches[k].call \in DOMAIN calls

InsideInv == TypeInv /\ ClearedInv /\ LaunchedInv /\ RestrictedStaysInside

(* A step that starts nothing and clears nothing.                          *)
LEMMA QuietInside ==
    ASSUME InsideInv, TypeInv', launches' = launches,
           \A i \in DOMAIN calls : i \in DOMAIN calls' /\ calls'[i] = calls[i],
           pc' \in Cleared => pc \in Cleared /\ app' = app /\ taken' = taken
    PROVE  InsideInv'
<1>1. ClearedInv'
  <2> SUFFICES ASSUME pc' \in Cleared
               PROVE  ~Restricted(app', Current.package') /\ app' # Unconfined
    BY DEF ClearedInv, Restricted
  <2>1. taken \in DOMAIN calls
    BY DEF InsideInv, TypeInv, HandlerInv, Cleared
  <2>2. Current' = Current
    BY <2>1 DEF Current
  <2>3. QED
    BY <2>2 DEF InsideInv, ClearedInv
<1>2. LaunchedInv' /\ RestrictedStaysInside'
  BY DEF InsideInv, LaunchedInv, RestrictedStaysInside, Restricted
<1>3. QED
  BY <1>1, <1>2 DEF InsideInv

(* What Start adds to the launches.                                        *)
LEMMA StartFacts ==
    ASSUME TypeInv, pc \in Cleared, NEW overlay \in BOOLEAN, Start(app, overlay)
    PROVE  /\ Len(launches) \in Nat /\ DOMAIN launches = 1..Len(launches)
           /\ DOMAIN launches' = 1..(Len(launches) + 1)
           /\ \A k \in DOMAIN launches : launches'[k] = launches[k]
           /\ launches'[Len(launches) + 1].call = taken
           /\ launches'[Len(launches) + 1].app = app
<1> DEFINE l == [call |-> taken, app |-> app, url |-> OutUrl(Url), overlay |-> overlay]
<1>1. taken \in Calls /\ app \in Apps /\ OutUrl(Url) \in Links \cup {NoLink}
  BY CallFacts DEF TypeInv, HandlerInv, Cleared, Dispatching, OutUrl
<1>2. l \in Launch /\ launches \in Seq(Launch) /\ launches' = Append(launches, l)
  BY <1>1 DEF Launch, Start, TypeInv, TypeOK
<1>3. l.call = taken /\ l.app = app
  OBVIOUS
<1> HIDE DEF l
<1>4. QED
  BY <1>2, <1>3, AppendProperties, LenProperties

LEMMA StartInside ==
    ASSUME InsideInv, TypeInv', NEW overlay \in BOOLEAN, Start(app, overlay),
           pc \in Cleared, pc' \notin Cleared, calls' = calls
    PROVE  InsideInv'
<1>1. ClearedInv'
  BY DEF ClearedInv
<1>2. taken \in DOMAIN calls /\ ~Restricted(app, calls[taken].package) /\ app # Unconfined
  BY DEF InsideInv, TypeInv, HandlerInv, ClearedInv, Cleared, Current
<1>3. LaunchedInv' /\ RestrictedStaysInside'
  BY <1>2, StartFacts DEF InsideInv, LaunchedInv, RestrictedStaysInside, Restricted
<1>4. QED
  BY <1>1, <1>3 DEF InsideInv

LEMMA InsideStep == InsideInv /\ [Next]_vars => InsideInv'
<1> SUFFICES ASSUME InsideInv, [Next]_vars PROVE InsideInv'
  OBVIOUS
<1> USE DEF Cleared
<1>1. TypeInv /\ TypeInv'
  BY TypeStep DEF InsideInv
<1>2. CASE Take \/ Refuse \/ AskPid \/ AddOverlayFails \/ FailOverlay \/ TestUrl \/ TestDone
  <2>1. CASE Take
    <3>1. taken + 1 \in DOMAIN calls
      BY <1>1, <2>1, CallFacts DEF Take, TypeInv, TypeOK
    <3>2. pc' \in {"dispatch", "test"}
      BY <1>1, <2>1, <3>1, CallFacts DEF Take, Call
    <3>3. QED
      BY <1>1, <2>1, <3>2, QuietInside DEF Take, aroundVars
  <2>2. CASE Refuse \/ FailOverlay \/ TestDone
    BY <1>1, <2>2, QuietInside DEF Refuse, FailOverlay, TestDone, Finish, aroundVars
  <2>3. CASE AskPid \/ AddOverlayFails \/ TestUrl
    BY <1>1, <2>3, QuietInside DEF AskPid, AddOverlayFails, TestUrl, Finish, Goto, aroundVars
  <2>4. QED
    BY <1>2, <2>1, <2>2, <2>3
<1>3. CASE Clear
  <2>1. ClearedInv'
    BY <1>3 DEF Clear, Goto, ClearedInv, Restricted, Current, aroundVars
  <2>2. LaunchedInv' /\ RestrictedStaysInside'
    BY <1>3 DEF Clear, Goto, InsideInv, LaunchedInv, RestrictedStaysInside, Restricted,
                aroundVars
  <2>3. QED
    BY <1>1, <2>1, <2>2 DEF InsideInv
<1>4. CASE SendToApp
  BY <1>1, <1>4, StartInside DEF SendToApp, Finish, aroundVars
<1>5. CASE AddOverlay
  BY <1>1, <1>5, StartInside DEF AddOverlay, Finish, aroundVars
<1>6. CASE Deliver
  <2>1. pc' = pc \/ (pc = "pid" /\ app' = app)
    <3>1. outbox \in Seq(Message) /\ outbox # <<>>
      BY <1>1, <1>6 DEF Deliver, TypeInv, TypeOK
    <3>2. Head(outbox) = outbox[1] /\ 1 \in DOMAIN outbox
      BY <3>1, HeadTailProperties
    <3>3. QED
      BY <1>1, <1>6, <3>2 DEF Deliver, TypeInv, PidInv
  <2>2. QED
    BY <1>1, <1>6, <2>1, QuietInside DEF Deliver, aroundVars
<1>7. CASE \E m \in Messages : Send(m)
  <2>1. PICK m \in Messages : Send(m)
    BY <1>7
  <2>2. m \in Call /\ calls \in Seq(Call) /\ calls' = Append(calls, m)
    BY <1>1, <2>1, CallAssumption DEF Send, TypeInv, TypeOK
  <2>3. \A i \in DOMAIN calls : i \in DOMAIN calls' /\ calls'[i] = calls[i]
    BY <2>2, AppendProperties, LenProperties
  <2>4. QED
    BY <1>1, <2>1, <2>3, QuietInside DEF Send, serviceVars
<1>8. CASE \/ ChangeDb \/ ChangeOverlays \/ \E c \in Clients : Leave(c)
           \/ \E i \in Calls : TimeOut(i) \/ FileBug(i)
  BY <1>1, <1>8, QuietInside DEF ChangeDb, ChangeOverlays, Leave, TimeOut, FileBug,
     serviceVars, aroundVars
<1>9. CASE Die
  BY <1>1, <1>9, QuietInside DEF Die, aroundVars
<1>10. CASE UNCHANGED vars
  BY <1>1, <1>10, QuietInside DEF vars, aroundVars, serviceVars
<1>11. QED
  BY <1>2, <1>3, <1>4, <1>5, <1>6, <1>7, <1>8, <1>9, <1>10 DEF Next, Handle, Around

(* A restricted URL is only ever handed to its package and no URL to       *)
(* "unconfined", however many updaters change the database while the calls *)
(* of however many clients are handled.                                    *)
THEOREM RestrictionHolds == Spec => []RestrictedStaysInside
<1>1. Init => InsideInv
  <2> SUFFICES ASSUME Init PROVE InsideInv
    OBVIOUS
  <2>1. TypeInv
    BY InitType
  <2>2. QED
    BY <2>1 DEF Init, InsideInv, ClearedInv, LaunchedInv, RestrictedStaysInside, Cleared
<1>2. InsideInv => RestrictedStaysInside
  BY DEF InsideInv
<1>3. QED
  BY <1>1, <1>2, InsideStep, PTL DEF Spec
-----------------------------------------------------------------------------
(* A call the handler has finished is settled: nothing is started for it   *)
(* any more, so that what the outbox and the clients hold about it stays   *)
(* true. While a call is being handled nothing has been started for it.    *)
Done(i) == i < taken \/ (i = taken /\ pc = "idle")

Telling == {"ok", "bad", "restricted", "unknown"}

Tells(i, status) ==
    /\ Dispatched(i) /\ status = "ok" => Started(i) # {}
    /\ status \in {"bad", "restricted", "unknown"} => Started(i) = {}

LaunchedOnce == \A k, l \in DOMAIN launches : launches[k].call = launches[l].call => k = l
LaunchedDone == \A i \in Calls : Started(i) # {} => Done(i)

OutboxTells ==
    \A k \in DOMAIN outbox, i \in Calls, status \in Statuses :
       outbox[k].kind = "reply" /\ outbox[k].call = i /\ outbox[k].answer.status = status
       => Done(i) /\ Tells(i, status)

ClientsTold ==
    \A i \in Calls, status \in Telling :
       answer[i].status = status => Done(i) /\ Tells(i, status)

TellInv == TypeInv /\ LaunchedOnce /\ LaunchedDone /\ OutboxTells /\ ClientsTold

LEMMA TellImplies == TellInv => AnswersTellLaunches
<1> SUFFICES ASSUME TellInv, NEW i \in Calls
             PROVE  /\ \A k, l \in Started(i) : k = l
                    /\ Dispatched(i) /\ answer[i].status = "ok" => Started(i) # {}
                    /\ answer[i].status \in {"bad", "restricted", "unknown"} => Started(i) = {}
  BY DEF AnswersTellLaunches
<1>1. \A k, l \in Started(i) : k = l
  BY DEF TellInv, LaunchedOnce, Started
<1>2. answer[i].status \in Telling => Tells(i, answer[i].status)
  BY DEF TellInv, ClientsTold
<1>3. QED
  BY <1>1, <1>2 DEF Tells, Telling

(* How calls, the handler's place and the launches change in any step.     *)
CallsGrow == \A i \in DOMAIN calls : i \in DOMAIN calls' /\ calls'[i] = calls[i]

HandlerMoves ==
    \/ taken' = taken /\ (pc = "idle" => pc' = "idle")
    \/ taken' = taken + 1 /\ pc = "idle"
    \/ taken <= taken' /\ pc' = "idle"

LaunchesGrow ==
    \/ launches' = launches
    \/ pc \in Cleared /\ \E overlay \in BOOLEAN : Start(app, overlay)

LEMMA StepFacts ==
    ASSUME TypeInv, [Next]_vars
    PROVE  CallsGrow /\ HandlerMoves /\ LaunchesGrow
<1> USE DEF CallsGrow, HandlerMoves, LaunchesGrow, Cleared
<1>1. CASE Take \/ Clear \/ AskPid \/ AddOverlayFails
  BY <1>1 DEF Take, Clear, AskPid, AddOverlayFails, Goto, aroundVars
<1>2. CASE Refuse \/ SendToApp \/ AddOverlay \/ FailOverlay
  BY <1>2 DEF Refuse, SendToApp, AddOverlay, FailOverlay, Finish, aroundVars
<1>3. CASE TestUrl \/ TestDone
  BY <1>3 DEF TestUrl, TestDone, Finish, aroundVars
<1>4. CASE \E m \in Messages : Send(m)
  <2>1. PICK m \in Messages : Send(m)
    BY <1>4
  <2>2. m \in Call /\ calls \in Seq(Call) /\ calls' = Append(calls, m)
    BY <2>1, CallAssumption DEF Send, TypeInv, TypeOK
  <2>3. CallsGrow
    BY <2>2, AppendProperties, LenProperties
  <2>4. QED
    BY <2>1, <2>3 DEF Send, serviceVars
<1>5. CASE \/ ChangeDb \/ ChangeOverlays \/ \E c \in Clients : Leave(c)
           \/ \E i \in Calls : TimeOut(i) \/ FileBug(i)
  BY <1>5 DEF ChangeDb, ChangeOverlays, Leave, TimeOut, FileBug, serviceVars, aroundVars
<1>6. CASE Deliver
  <2>1. outbox \in Seq(Message) /\ outbox # <<>>
    BY <1>6 DEF Deliver, TypeInv, TypeOK
  <2>2. Head(outbox) = outbox[1] /\ 1 \in DOMAIN outbox
    BY <2>1, HeadTailProperties
  <2>3. QED
    BY <1>6, <2>2 DEF Deliver, TypeInv, PidInv, aroundVars
<1>7. CASE Die
  BY <1>7, CallFacts DEF Die, TypeInv, TypeOK, aroundVars
<1>8. CASE UNCHANGED vars
  BY <1>8 DEF vars, aroundVars, serviceVars
<1>9. QED
  BY <1>1, <1>2, <1>3, <1>4, <1>5, <1>6, <1>7, <1>8 DEF Next, Handle, Around

LEMMA Settled ==
    ASSUME TypeInv, TypeInv', [Next]_vars, NEW i \in Calls, Done(i)
    PROVE  /\ Done(i)'
           /\ Started(i)' = Started(i)
           /\ \A status : Tells(i, status) => Tells(i, status)'
<1>1. taken \in Nat /\ taken' \in Nat /\ i \in Nat
  BY CallFacts DEF TypeInv, TypeOK, Calls
<1>2. Done(i)'
  BY <1>1, StepFacts DEF Done, HandlerMoves
<1>3. i \in DOMAIN calls
  BY <1>1, CallFacts DEF Done, Calls, TypeInv, TypeOK
<1>4. Dispatched(i)' = Dispatched(i)
  BY <1>3, StepFacts DEF CallsGrow, Dispatched
<1>5. Started(i)' = Started(i)
  <2>1. CASE launches' = launches
    BY <2>1 DEF Started
  <2>2. CASE pc \in Cleared /\ \E overlay \in BOOLEAN : Start(app, overlay)
    <3>1. i # taken
      BY <1>1, <2>2 DEF Done, Cleared
    <3>2. QED
      BY <2>2, <3>1, StartFacts DEF Started
  <2>3. QED
    BY <2>1, <2>2, StepFacts DEF LaunchesGrow
<1>6. QED
  BY <1>2, <1>4, <1>5 DEF Tells

(* A step that starts nothing and at most hands on what the outbox held.   *)
LEMMA TellQuiet ==
    ASSUME TellInv, TypeInv', [Next]_vars, launches' = launches,
           \A k \in DOMAIN outbox' :
              outbox'[k].kind = "reply" => \E j \in DOMAIN outbox : outbox[j] = outbox'[k],
           \A i \in Calls :
              answer'[i].status \in Telling =>
                 \/ answer'[i] = answer[i]
                 \/ \E j \in DOMAIN outbox : /\ outbox[j].kind = "reply"
                                             /\ outbox[j].call = i
                                             /\ outbox[j].answer = answer'[i]
    PROVE  TellInv'
<1>1. TypeInv
  BY DEF TellInv
<1>2. LaunchedOnce'
  BY DEF TellInv, LaunchedOnce
<1>3. LaunchedDone'
  <2>1. \A i \in Calls : Started(i)' = Started(i)
    BY DEF Started
  <2>2. QED
    BY <1>1, <2>1, Settled DEF TellInv, LaunchedDone
<1>4. OutboxTells'
  <2> SUFFICES ASSUME NEW k \in DOMAIN outbox', NEW i \in Calls, NEW status \in Statuses,
                      outbox'[k].kind = "reply", outbox'[k].call = i,
                      outbox'[k].answer.status = status
               PROVE  Done(i)' /\ Tells(i, status)'
    BY DEF OutboxTells
  <2>1. Done(i) /\ Tells(i, status)
    BY DEF TellInv, OutboxTells
  <2>2. QED
    BY <1>1, <2>1, Settled
<1>5. ClientsTold'
  <2> SUFFICES ASSUME NEW i \in Calls, NEW status \in Telling, answer'[i].status = status
               PROVE  Done(i)' /\ Tells(i, status)'
    BY DEF ClientsTold
  <2>1. Done(i) /\ Tells(i, status)
    <3>1. status \in Statuses
      BY DEF Telling, Statuses
    <3>2. CASE answer'[i] = answer[i]
      BY <3>2 DEF TellInv, ClientsTold
    <3>3. CASE \E j \in DOMAIN outbox : /\ outbox[j].kind = "reply"
                                        /\ outbox[j].call = i
                                        /\ outbox[j].answer = answer'[i]
      BY <3>1, <3>3 DEF TellInv, OutboxTells
    <3>4. QED
      BY <3>2, <3>3
  <2>2. QED
    BY <1>1, <2>1, Settled
<1>6. QED
  BY <1>2, <1>3, <1>4, <1>5 DEF TellInv

(* The end of a handler: true replies about the call, which is done.       *)
LEMMA TellFinish ==
    ASSUME TellInv, TypeInv', [Next]_vars, pc # "idle", NEW c \in Calls, taken = c,
           NEW messages \in Seq(Note), Finish(messages),
           \A k \in DOMAIN messages, status \in Statuses :
              messages[k].kind = "reply" /\ messages[k].answer.status = status =>
                 messages[k].call = c /\ Tells(c, status)'
    PROVE  TellInv'
<1>1. /\ TypeInv /\ Started(c) = {} /\ taken' = taken /\ pc' = "idle" /\ Done(c)'
  <2>1. ~Done(c)
    BY DEF Done, Calls
  <2>2. QED
    BY <2>1 DEF TellInv, LaunchedDone, Finish, Done
<1>2. LaunchedOnce' /\ LaunchedDone'
  <2>1. CASE launches' = launches
    <3>1. \A i \in Calls : Started(i)' = Started(i)
      BY <2>1 DEF Started
    <3>2. QED
      BY <1>1, <2>1, <3>1, Settled DEF TellInv, LaunchedOnce, LaunchedDone
  <2>2. CASE pc \in Cleared /\ \E overlay \in BOOLEAN : Start(app, overlay)
    <3>1. \A k \in DOMAIN launches : launches[k].call # taken
      BY <1>1 DEF Started
    <3>2. LaunchedOnce'
      BY <1>1, <2>2, <3>1, StartFacts DEF TellInv, LaunchedOnce
    <3>3. \A i \in Calls : i # c => Started(i)' = Started(i)
      BY <1>1, <2>2, StartFacts DEF Started
    <3>4. QED
      BY <1>1, <3>2, <3>3, Settled DEF TellInv, LaunchedDone
  <2>3. QED
    BY <1>1, <2>1, <2>2, StepFacts DEF LaunchesGrow
<1>3. OutboxTells'
  <2> SUFFICES ASSUME NEW k \in DOMAIN outbox', NEW i \in Calls, NEW status \in Statuses,
                      outbox'[k].kind = "reply", outbox'[k].call = i,
                      outbox'[k].answer.status = status
               PROVE  Done(i)' /\ Tells(i, status)'
    BY DEF OutboxTells
  <2>1. outbox \in Seq(Message) /\ messages \in Seq(Message) /\ outbox' = outbox \o messages
    BY <1>1, SeqMonotonic DEF Note, TypeInv, TypeOK, Finish
  <2>2. \/ k \in DOMAIN outbox /\ outbox'[k] = outbox[k]
        \/ \E j \in DOMAIN messages : outbox'[k] = messages[j]
    <3>1. k \in 1..(Len(outbox) + Len(messages)) /\ Len(outbox) \in Nat /\ Len(messages) \in Nat
      BY <2>1, ConcatProperties, LenProperties
    <3>2. CASE k <= Len(outbox)
      BY <2>1, <3>1, <3>2, ConcatProperties, LenProperties
    <3>3. CASE k > Len(outbox)
      <4>1. k - Len(outbox) \in DOMAIN messages
        BY <2>1, <3>1, <3>3, LenProperties
      <4>2. QED
        BY <2>1, <3>1, <3>3, <4>1, ConcatProperties
    <3>4. QED
      BY <3>1, <3>2, <3>3
  <2>3. CASE k \in DOMAIN outbox /\ outbox'[k] = outbox[k]
    <3>1. Done(i) /\ Tells(i, status)
      BY <2>3 DEF TellInv, OutboxTells
    <3>2. QED
      BY <1>1, <3>1, Settled
  <2>4. CASE \E j \in DOMAIN messages : outbox'[k] = messages[j]
    <3>1. i = c /\ Tells(c, status)'
      BY <2>4
    <3>2. QED
      BY <1>1, <3>1
  <2>5. QED
    BY <2>2, <2>3, <2>4
<1>4. ClientsTold'
  <2> SUFFICES ASSUME NEW i \in Calls, NEW status \in Telling, answer'[i].status = status
               PROVE  Done(i)' /\ Tells(i, status)'
    BY DEF ClientsTold
  <2>1. Done(i) /\ Tells(i, status)
    BY DEF TellInv, ClientsTold, Finish
  <2>2. QED
    BY <1>1, <2>1, Settled
<1>5. QED
  BY <1>2, <1>3, <1>4 DEF TellInv

LEMMA TellRefused ==
    ASSUME TellInv, TypeInv', [Next]_vars, pc # "idle", launches' = launches,
           NEW messages \in {BadUrl, BadUrl \o <<Reply("unknown", <<>>)>>,
                             <<Reply("restricted", <<>>)>>},
           Finish(messages)
    PROVE  TellInv'
<1>1. PICK c \in Calls : taken = c
  BY CallFacts DEF TellInv
<1>2. messages \in Seq(Note)
  <2>1. Reply("restricted", <<>>) \in Note
    BY <1>1, ReplyType DEF Statuses
  <2>2. <<Reply("restricted", <<>>)>> \in Seq(Note)
    BY <2>1
  <2>3. QED
    BY <1>1, <2>2, ReplyType
<1>3. Started(c)' = {}
  <2>1. ~Done(c)
    BY <1>1 DEF Done, Calls
  <2>2. QED
    BY <2>1 DEF TellInv, LaunchedDone, Started
<1>4. \A k \in DOMAIN messages :
         messages[k].kind = "reply" =>
            /\ messages[k].call = c
            /\ messages[k].answer.status \in {"bad", "unknown", "restricted"}
  <2>1. CASE messages \in {BadUrl, <<Reply("restricted", <<>>)>>}
    BY <1>1, <2>1 DEF BadUrl, Reply, Say
  <2>2. CASE messages = BadUrl \o <<Reply("unknown", <<>>)>>
    <3> DEFINE more == <<Reply("unknown", <<>>)>>
    <3>1. BadUrl \in Seq(Note) /\ more \in Seq(Note)
      <4>1. Reply("unknown", <<>>) \in Note
        BY <1>1, ReplyType DEF Statuses
      <4>2. QED
        BY <1>1, <4>1, ReplyType
    <3>2. Len(BadUrl) = 2 /\ Len(more) = 1 /\ more[1] = Reply("unknown", <<>>)
      BY DEF BadUrl
    <3> HIDE DEF more
    <3>3. DOMAIN messages = 1..3 /\ messages[3] = Reply("unknown", <<>>)
          /\ \A k \in 1..2 : messages[k] = BadUrl[k]
      <4>1. messages \in Seq(Note) /\ messages = BadUrl \o more
        BY <1>2, <2>2 DEF more
      <4>2. /\ Len(BadUrl \o more) = Len(BadUrl) + Len(more)
            /\ \A k \in 1..Len(BadUrl) + Len(more) :
                  (BadUrl \o more)[k] = IF k <= Len(BadUrl) THEN BadUrl[k]
                                        ELSE more[k - Len(BadUrl)]
        BY <3>1, ConcatProperties
      <4>3. QED
        BY <3>2, <4>1, <4>2, LenProperties
    <3>4. QED
      BY <1>1, <3>3 DEF BadUrl, Reply, Say
  <2>3. QED
    BY <2>1, <2>2
<1>5. \A status \in {"bad", "unknown", "restricted"} : Tells(c, status)'
  BY <1>3 DEF Tells
<1>6. QED
  BY <1>1, <1>2, <1>4, <1>5, TellFinish

LEMMA TellOk ==
    ASSUME TellInv, TypeInv', [Next]_vars, pc # "idle", NEW c \in Calls, taken = c,
           Started(c)' # {} \/ ~Dispatched(c)',
           NEW apps \in Seq(Apps), Finish(<<Reply("ok", apps)>>)
    PROVE  TellInv'
<1>1. Reply("ok", apps) \in Note
  BY ReplyType DEF Statuses
<1>2. <<Reply("ok", apps)>> \in Seq(Note)
  BY <1>1
<1>3. \A k \in DOMAIN <<Reply("ok", apps)>> :
         /\ <<Reply("ok", apps)>>[k].call = c
         /\ <<Reply("ok", apps)>>[k].answer.status = "ok"
  BY DEF Reply, Say
<1>4. Tells(c, "ok")'
  BY DEF Tells
<1>5. QED
  BY <1>2, <1>3, <1>4, TellFinish

LEMMA TellHandle == ASSUME TellInv, TypeInv', Handle PROVE TellInv'
<1>1. TypeInv /\ [Next]_vars
  BY DEF TellInv, Next
<1>2. CASE \/ Take \/ Clear \/ AddOverlayFails
  BY <1>1, <1>2, TellQuiet DEF Take, Clear, AddOverlayFails, Goto, busVars
<1>3. CASE AskPid
  <2> DEFINE m == [kind |-> "pid", call |-> taken]
  <2>1. m \in Message /\ outbox \in Seq(Message) /\ outbox' = Append(outbox, m)
    BY <1>1, <1>3, CallFacts DEF AskPid, Message, TypeInv, TypeOK
  <2>2. \A k \in DOMAIN outbox' : outbox'[k].kind = "reply" =>
           \E j \in DOMAIN outbox : outbox[j] = outbox'[k]
    BY <2>1, AppendProperties, LenProperties
  <2>3. QED
    BY <1>1, <1>3, <2>2, TellQuiet DEF AskPid
<1>4. CASE Refuse
  BY <1>1, <1>4, TellRefused DEF Refuse
<1>5. CASE FailOverlay
  BY <1>1, <1>5, TellRefused DEF FailOverlay
<1>6. CASE SendToApp \/ AddOverlay
  <2>1. PICK c \in Calls : taken = c
    BY <1>1, <1>6, CallFacts DEF SendToApp, AddOverlay
  <2>2. Started(c)' # {}
    <3>1. pc \in Cleared /\ \E overlay \in BOOLEAN : Start(app, overlay)
      BY <1>6 DEF SendToApp, AddOverlay, Cleared
    <3>2. \E k \in DOMAIN launches' : launches'[k].call = c
      BY <1>1, <2>1, <3>1, StartFacts
    <3>3. QED
      BY <3>2 DEF Started
  <2>3. <<>> \in Seq(Apps) /\ Finish(<<Reply("ok", <<>>)>>) /\ pc # "idle"
    <3>1. <<>> \in Seq(Apps)
      OBVIOUS
    <3>2. QED
      BY <1>6, <3>1 DEF SendToApp, AddOverlay
  <2>4. QED
    BY <1>1, <2>1, <2>2, <2>3, TellOk
<1>7. CASE TestUrl
  <2>1. CASE Finish(BadUrl)
    BY <1>1, <1>7, <2>1, TellRefused DEF TestUrl
  <2>2. CASE ~Finish(BadUrl)
    BY <1>1, <1>7, <2>2, TellQuiet DEF TestUrl, busVars
  <2>3. QED
    BY <2>1, <2>2
<1>8. CASE TestDone
  <2>1. CASE tested = <<>>
    BY <1>1, <1>8, <2>1, TellRefused DEF TestDone
  <2>2. CASE tested # <<>>
    <3>1. PICK c \in Calls : taken = c
      BY <1>1, <1>8, CallFacts DEF TestDone
    <3>2. calls[c].method = "test" /\ tested \in Seq(Apps)
      BY <1>1, <1>8, <3>1 DEF TestDone, TypeInv, TypeOK, HandlerInv, Current
    <3>3. ~Dispatched(c)'
      BY <1>8, <3>2 DEF TestDone, Dispatched, Finish, aroundVars
    <3>4. pc # "idle" /\ Finish(<<Reply("ok", tested)>>)
      BY <1>8, <2>2 DEF TestDone
    <3>5. QED
      BY <1>1, <3>1, <3>2, <3>3, <3>4, TellOk
  <2>3. QED
    BY <2>1, <2>2
<1>9. QED
  BY <1>2, <1>3, <1>4, <1>5, <1>6, <1>7, <1>8 DEF Handle

LEMMA TellStep == TellInv /\ [Next]_vars => TellInv'
<1> SUFFICES ASSUME TellInv, [Next]_vars PROVE TellInv'
  OBVIOUS
<1>1. TypeInv /\ TypeInv'
  BY TypeStep DEF TellInv
<1>2. CASE Handle
  BY <1>1, <1>2, TellHandle
<1>3. CASE Deliver
  <2>1. outbox \in Seq(Message) /\ outbox # <<>> /\ outbox' = Tail(outbox)
    BY <1>1, <1>3 DEF Deliver, TypeInv, TypeOK
  <2>2. Head(outbox) = outbox[1] /\ 1 \in DOMAIN outbox
    BY <2>1, HeadTailProperties
  <2>3. \A k \in DOMAIN outbox' : k + 1 \in DOMAIN outbox /\ outbox'[k] = outbox[k + 1]
    BY <2>1, HeadTailProperties, LenProperties
  <2>4. \A i \in Calls : \/ answer'[i] = answer[i]
                         \/ /\ outbox[1].kind = "reply" /\ outbox[1].call = i
                            /\ outbox[1].answer = answer'[i]
    BY <1>1, <1>3, <2>2 DEF Deliver, TypeInv, TypeOK
  <2>5. QED
    BY <1>1, <1>3, <2>2, <2>3, <2>4, TellQuiet DEF Deliver
<1>4. CASE Around
  <2>1. launches' = launches /\ outbox' = outbox
    BY <1>4 DEF Around, ChangeDb, ChangeOverlays, Send, Leave, TimeOut, busVars
  <2>2. \A i \in Calls : answer'[i].status \in Telling => answer'[i] = answer[i]
    BY <1>1, <1>4 DEF Around, ChangeDb, ChangeOverlays, Send, Leave, TimeOut, busVars,
                      TypeInv, TypeOK, Telling, Say
  <2>3. QED
    BY <1>1, <2>1, <2>2, TellQuiet
<1>5. CASE Die
  <2>1. \A i \in Calls : answer'[i].status \in Telling => answer'[i] = answer[i]
    BY <1>5 DEF Die, Telling, Say
  <2>2. QED
    BY <1>1, <1>5, <2>1, TellQuiet DEF Die
<1>6. CASE (\E i \in Calls : FileBug(i)) \/ UNCHANGED vars
  BY <1>1, <1>6, TellQuiet DEF FileBug, vars, busVars
<1>7. QED
  BY <1>2, <1>3, <1>4, <1>5, <1>6 DEF Next

LEMMA InitTells == Init => TellInv
<1> SUFFICES ASSUME Init PROVE TellInv
  OBVIOUS
<1>1. TypeInv
  BY InitType
<1>2. LaunchedOnce /\ OutboxTells /\ LaunchedDone
  BY DEF Init, LaunchedOnce, OutboxTells, LaunchedDone, Started
<1>3. ClientsTold
  BY DEF Init, ClientsTold, Nothing, Say, Telling
<1>4. QED
  BY <1>1, <1>2, <1>3 DEF TellInv

(* The answers tell what was started, for every number of calls and        *)
(* clients: a late or lost answer, a client that gives up and a service    *)
(* that dies make none of them false, and nothing is started twice.        *)
THEOREM AnswersAreTrue == Spec => []AnswersTellLaunches
  BY InitTells, TellImplies, TellStep, PTL DEF Spec
-----------------------------------------------------------------------------
(* The bus is asked for the process of a sender before the sender is told, *)
(* and asked once: a report on a call is in the outbox only before it is   *)
(* known whether its process was found, and ahead of every reply that says *)
(* the URL is bad.                                                         *)
Traced(i)     == bug[i] \in {"found", "filed", "dropped"}
Reports(k, i) == outbox[k].kind = "report" /\ outbox[k].call = i
SaysBad(k, i) == /\ outbox[k].kind = "reply" /\ outbox[k].call = i
                 /\ outbox[k].answer.status = "bad"

AskedOnce ==
    \A i \in Calls, j, k \in DOMAIN outbox : Reports(j, i) /\ Reports(k, i) => j = k

Unasked ==
    \A i \in Calls :
       /\ ~Done(i) => \A k \in DOMAIN outbox : ~Reports(k, i)
       /\ ~Done(i) \/ (\E k \in DOMAIN outbox : Reports(k, i))
          => bug[i] = "none" /\ answer[i].status # "bad"

AskedBefore ==
    \A i \in Calls, k \in DOMAIN outbox :
       SaysBad(k, i) => \/ Traced(i)
                        \/ ~Here(i)
                        \/ \E j \in DOMAIN outbox : j < k /\ Reports(j, i)

ReportInv == TellInv /\ AskedOnce /\ Unasked /\ AskedBefore /\ ToldIsFound

(* Who has left the bus does not come back.                                *)
LEMMA GoneStays ==
    ASSUME TypeInv, [Next]_vars, NEW i \in Calls, Done(i), ~Here(i)
    PROVE  ~Here(i)'
<1>1. i \in DOMAIN calls
  BY CallFacts DEF Done, Calls, TypeInv, TypeOK
<1>2. calls'[i] = calls[i]
  BY <1>1, StepFacts DEF CallsGrow
<1>3. present' \subseteq present
  BY DEF Next, Handle, Take, Refuse, Clear, SendToApp, AskPid, AddOverlay, AddOverlayFails,
         FailOverlay, TestUrl, TestDone, Finish, Goto, Deliver, Around, ChangeDb,
         ChangeOverlays, Send, Leave, TimeOut, Die, FileBug, vars, aroundVars
<1>4. QED
  BY <1>2, <1>3 DEF Here

(* A step that sends nothing and tells nobody anything.                    *)
LEMMA ReportQuiet ==
    ASSUME ReportInv, TellInv', [Next]_vars, outbox' = outbox,
           \A i \in Calls : /\ Traced(i) => Traced(i)'
                            /\ bug[i] = "none" => bug'[i] = "none"
                            /\ answer'[i].status = "bad" => answer[i].status = "bad"
    PROVE  ReportInv'
<1>1. TypeInv /\ TypeInv' /\ TellInv
  BY DEF ReportInv, TellInv
<1>2. \A i \in Calls, k \in DOMAIN outbox : Reports(k, i)' = Reports(k, i)
  BY DEF Reports
<1>3. \A i \in Calls : Done(i) => Done(i)'
  BY <1>1, Settled
<1>4. AskedOnce'
  BY <1>2 DEF ReportInv, AskedOnce
<1>5. Unasked'
  BY <1>2, <1>3 DEF ReportInv, Unasked
<1>6. AskedBefore'
  <2> SUFFICES ASSUME NEW i \in Calls, NEW k \in DOMAIN outbox, SaysBad(k, i)
               PROVE  \/ Traced(i)'
                      \/ ~Here(i)'
                      \/ \E j \in DOMAIN outbox : j < k /\ Reports(j, i)
    BY <1>2 DEF AskedBefore, SaysBad
  <2>1. Done(i)
    BY <1>1 DEF SaysBad, TellInv, OutboxTells, Statuses
  <2>2. QED
    BY <1>1, <2>1, GoneStays DEF ReportInv, AskedBefore
<1>7. ToldIsFound'
  BY DEF ReportInv, ToldIsFound, Traced
<1>8. QED
  BY <1>4, <1>5, <1>6, <1>7 DEF ReportInv

(* A step in which the handler sends something about its call.             *)
LEMMA ReportSend ==
    ASSUME ReportInv, TellInv', [Next]_vars, pc # "idle", NEW c \in Calls, taken = c,
           NEW messages \in Seq(Message), outbox' = outbox \o messages,
           bug' = bug, answer' = answer,
           \A k \in DOMAIN messages : messages[k].call = c,
           Done(c)' \/ \A k \in DOMAIN messages : messages[k].kind # "report",
           \A j, k \in DOMAIN messages :
              messages[j].kind = "report" /\ messages[k].kind = "report" => j = k,
           \A k \in DOMAIN messages :
              messages[k].kind = "reply" /\ messages[k].answer.status = "bad" =>
                 \E j \in DOMAIN messages : j < k /\ messages[j].kind = "report"
    PROVE  ReportInv'
<1>1. TypeInv /\ TypeInv' /\ TellInv /\ ~Done(c)
  BY DEF ReportInv, TellInv, Done, Calls
<1>2. outbox \in Seq(Message) /\ Len(outbox) \in Nat /\ DOMAIN outbox = 1..Len(outbox)
  BY <1>1, LenProperties DEF TypeInv, TypeOK
<1>3. Len(messages) \in Nat /\ DOMAIN messages = 1..Len(messages)
  BY LenProperties
<1>4. DOMAIN outbox' = 1..(Len(outbox) + Len(messages))
  BY <1>2, <1>3, ConcatProperties, LenProperties
<1> PICK n \in Nat : n = Len(outbox)
  BY <1>2
<1>5. \A k \in DOMAIN outbox : k \in DOMAIN outbox' /\ outbox'[k] = outbox[k]
  BY <1>2, <1>3, <1>4, ConcatProperties
<1>6. \A k \in DOMAIN messages : n + k \in DOMAIN outbox' /\ outbox'[n + k] = messages[k]
  BY <1>2, <1>3, <1>4, ConcatProperties
<1>7. \A k \in DOMAIN outbox' : \/ k \in DOMAIN outbox
                                \/ k - n \in DOMAIN messages /\ outbox'[k] = messages[k - n]
  BY <1>2, <1>3, <1>4, ConcatProperties
<1>8. \A k \in DOMAIN outbox : ~Reports(k, c)
  BY <1>1 DEF ReportInv, Unasked
<1>9. \A i \in Calls : Done(i) => Done(i)'
  BY <1>1, Settled
<1>10. AskedOnce'
  <2> SUFFICES ASSUME NEW i \in Calls, NEW j \in DOMAIN outbox', NEW k \in DOMAIN outbox',
                      Reports(j, i)', Reports(k, i)'
               PROVE  j = k
    BY DEF AskedOnce
  <2>1. CASE j \in DOMAIN outbox /\ k \in DOMAIN outbox
    BY <1>5, <2>1 DEF ReportInv, AskedOnce, Reports
  <2>2. CASE j \notin DOMAIN outbox /\ k \notin DOMAIN outbox
    <3>1. j - n = k - n
      BY <1>7, <2>2 DEF Reports
    <3>2. j \in Nat /\ k \in Nat
      BY <1>3, <1>4, <1>2
    <3>3. QED
      BY <3>1, <3>2
  <2>3. CASE (j \in DOMAIN outbox) # (k \in DOMAIN outbox)
    <3>1. i = c
      BY <1>7, <2>3 DEF Reports
    <3>2. QED
      BY <1>5, <1>8, <2>3, <3>1 DEF Reports
  <2>4. QED
    BY <2>1, <2>2, <2>3
<1>11. Unasked'
  <2> SUFFICES ASSUME NEW i \in Calls
               PROVE  /\ ~Done(i)' => \A k \in DOMAIN outbox' : ~Reports(k, i)'
                      /\ ~Done(i)' \/ (\E k \in DOMAIN outbox' : Reports(k, i)')
                         => bug[i] = "none" /\ answer[i].status # "bad"
    BY DEF Unasked
  <2>1. ~Done(i)' => \A k \in DOMAIN outbox' : ~Reports(k, i)'
    <3> SUFFICES ASSUME ~Done(i)', NEW k \in DOMAIN outbox', Reports(k, i)' PROVE FALSE
      OBVIOUS
    <3>1. CASE k \in DOMAIN outbox
      BY <1>5, <1>9, <3>1 DEF ReportInv, Unasked, Reports
    <3>2. CASE k \notin DOMAIN outbox
      BY <1>7, <3>2 DEF Reports
    <3>3. QED
      BY <3>1, <3>2
  <2>2. CASE ~Done(i)'
    BY <1>9, <2>1, <2>2 DEF ReportInv, Unasked
  <2>3. ASSUME NEW k \in DOMAIN outbox', Reports(k, i)'
        PROVE  bug[i] = "none" /\ answer[i].status # "bad"
    <3>1. CASE k \in DOMAIN outbox
      BY <1>5, <2>3, <3>1 DEF ReportInv, Unasked, Reports
    <3>2. CASE k \notin DOMAIN outbox
      <4>1. i = c
        BY <1>7, <2>3, <3>2 DEF Reports
      <4>2. QED
        BY <1>1, <4>1 DEF ReportInv, Unasked
    <3>3. QED
      BY <3>1, <3>2
  <2>4. QED
    BY <2>1, <2>2, <2>3
<1>12. AskedBefore'
  <2> SUFFICES ASSUME NEW i \in Calls, NEW k \in DOMAIN outbox', SaysBad(k, i)'
               PROVE  \/ Traced(i)'
                      \/ ~Here(i)'
                      \/ \E j \in DOMAIN outbox' : j < k /\ Reports(j, i)'
    BY DEF AskedBefore
  <2>1. CASE k \in DOMAIN outbox
    <3>1. SaysBad(k, i)
      BY <1>5, <2>1 DEF SaysBad
    <3>2. Done(i)
      BY <1>1, <2>1, <3>1 DEF SaysBad, TellInv, OutboxTells, Statuses
    <3>3. CASE \E j \in DOMAIN outbox : j < k /\ Reports(j, i)
      BY <1>5, <3>3 DEF Reports
    <3>4. CASE ~ \E j \in DOMAIN outbox : j < k /\ Reports(j, i)
      BY <1>1, <2>1, <3>1, <3>2, <3>4, GoneStays DEF ReportInv, AskedBefore, Traced
    <3>5. QED
      BY <3>3, <3>4
  <2>2. CASE k \notin DOMAIN outbox
    <3>1. i = c /\ k - n \in DOMAIN messages
      BY <1>7, <2>2 DEF SaysBad
    <3>2. PICK j \in DOMAIN messages : j < k - n /\ messages[j].kind = "report"
      BY <1>7, <2>2 DEF SaysBad
    <3>3. n + j < k
      BY <1>2, <1>3, <1>4, <3>2
    <3>4. Reports(n + j, c)'
      BY <1>6, <3>2 DEF Reports
    <3>5. QED
      BY <1>6, <3>1, <3>3, <3>4
  <2>3. QED
    BY <2>1, <2>2
<1>13. ToldIsFound'
  BY DEF ReportInv, ToldIsFound
<1>14. QED
  BY <1>10, <1>11, <1>12, <1>13 DEF ReportInv

(* bad_url asks before it answers, whatever is sent after that.            *)
LEMMA ReportBad ==
    ASSUME ReportInv, TellInv', [Next]_vars, pc # "idle", bug' = bug, answer' = answer,
           NEW messages \in {BadUrl, BadUrl \o <<Reply("unknown", <<>>)>>}, Finish(messages)
    PROVE  ReportInv'
<1>1. PICK c \in Calls : taken = c
  BY CallFacts DEF ReportInv, TellInv
<1>2. BadUrl \in Seq(Note) /\ messages \in Seq(Note)
  BY <1>1, ReplyType
<1>3. Reply("unknown", <<>>) \in Note
  BY <1>1, ReplyType DEF Statuses
<1> DEFINE more == <<Reply("unknown", <<>>)>>
<1>4. more \in Seq(Note) /\ Len(more) = 1 /\ more[1] = Reply("unknown", <<>>)
  BY <1>3
<1> HIDE DEF more
<1>5. /\ Len(messages) \in {2, 3}
      /\ DOMAIN messages = 1..Len(messages)
      /\ messages[1] = BadUrl[1] /\ messages[2] = BadUrl[2]
      /\ Len(messages) = 3 => messages[3] = Reply("unknown", <<>>)
  <2>1. CASE messages = BadUrl
    BY <2>1 DEF BadUrl
  <2>2. CASE messages = BadUrl \o more
    <3>1. Len(BadUrl) = 2
      BY DEF BadUrl
    <3>2. /\ Len(BadUrl \o more) = Len(BadUrl) + Len(more)
          /\ \A k \in 1..Len(BadUrl) + Len(more) :
                (BadUrl \o more)[k] = IF k <= Len(BadUrl) THEN BadUrl[k]
                                      ELSE more[k - Len(BadUrl)]
      BY <1>2, <1>4, ConcatProperties
    <3>3. QED
      BY <1>2, <1>4, <2>2, <3>1, <3>2, LenProperties
  <2>3. QED
    BY <2>1, <2>2 DEF more
<1>6. messages \in Seq(Message) /\ Done(c)'
  BY <1>1, <1>2, SeqMonotonic DEF Note, Finish, Done
<1>7. /\ \A k \in DOMAIN messages : messages[k].call = c
      /\ \A k \in DOMAIN messages : messages[k].kind = IF k = 1 THEN "report" ELSE "reply"
  BY <1>1, <1>5 DEF BadUrl, Reply
<1>8. outbox' = outbox \o messages
  BY DEF Finish
<1>9. \A k \in DOMAIN messages : messages[k].kind = "report" => k = 1
  BY <1>7
<1>10. 1 \in DOMAIN messages /\ \A k \in DOMAIN messages : k # 1 => 1 < k
  <2>1. 1 \in 1..Len(messages) /\ \A k \in 1..Len(messages) : k # 1 => 1 < k
    <3>1. PICK l \in {2, 3} : Len(messages) = l
      BY <1>5
    <3>2. 1 \in 1..l /\ \A k \in 1..l : k # 1 => 1 < k
      BY SMT
    <3>3. QED
      BY <3>1, <3>2
  <2>2. QED
    BY <1>5, <2>1
<1>11. \A k \in DOMAIN messages :
          messages[k].kind = "reply" /\ messages[k].answer.status = "bad" =>
             \E j \in DOMAIN messages : j < k /\ messages[j].kind = "report"
  BY <1>7, <1>10
<1>12. QED
  BY <1>1, <1>6, <1>7, <1>8, <1>9, <1>11, ReportSend

LEMMA ReportReply ==
    ASSUME ReportInv, TellInv', [Next]_vars, pc # "idle", bug' = bug, answer' = answer,
           NEW status \in Statuses \ {"bad"}, NEW apps \in Seq(Apps),
           Finish(<<Reply(status, apps)>>)
    PROVE  ReportInv'
<1>1. PICK c \in Calls : taken = c
  BY CallFacts DEF ReportInv, TellInv
<1>2. Reply(status, apps) \in Message
  BY <1>1, ReplyType DEF Note
<1>3. /\ Reply(status, apps).call = c /\ Reply(status, apps).kind = "reply"
      /\ Reply(status, apps).answer.status # "bad"
  BY <1>1 DEF Reply, Say
<1> DEFINE messages == <<Reply(status, apps)>>
<1>4. /\ messages \in Seq(Message) /\ DOMAIN messages = {1}
      /\ messages[1] = Reply(status, apps)
  BY <1>2
<1>5. outbox' = outbox \o messages
  BY DEF Finish
<1> HIDE DEF messages
<1>6. \A k \in DOMAIN messages : /\ messages[k].call = c /\ messages[k].kind # "report"
                                 /\ messages[k].answer.status # "bad"
  BY <1>3, <1>4
<1>7. /\ \A k \in DOMAIN messages : messages[k].call = c
      /\ Done(c)' \/ \A k \in DOMAIN messages : messages[k].kind # "report"
      /\ \A j, k \in DOMAIN messages :
            messages[j].kind = "report" /\ messages[k].kind = "report" => j = k
      /\ \A k \in DOMAIN messages :
            messages[k].kind = "reply" /\ messages[k].answer.status = "bad" =>
               \E j \in DOMAIN messages : j < k /\ messages[j].kind = "report"
  BY <1>6
<1>8. messages \in Seq(Message)
  BY <1>4
<1>9. QED
  BY <1>1, <1>5, <1>7, <1>8, ReportSend

LEMMA ReportHandle == ASSUME ReportInv, TellInv', Handle PROVE ReportInv'
<1>1. TypeInv /\ TypeInv' /\ [Next]_vars
  BY DEF ReportInv, TellInv, Next
<1>2. CASE Take \/ Clear \/ AddOverlayFails
  BY <1>1, <1>2, ReportQuiet DEF Take, Clear, AddOverlayFails, Goto, busVars, Traced
<1>3. CASE AskPid
  <2>1. PICK c \in Calls : taken = c
    BY <1>1, <1>3, CallFacts DEF AskPid
  <2> DEFINE m == [kind |-> "pid", call |-> c]
  <2>2. m \in Message /\ m.kind = "pid" /\ m.call = c
    BY DEF Message
  <2>3. outbox' = Append(outbox, m) /\ outbox \in Seq(Message)
    BY <1>1, <1>3, <2>1 DEF AskPid, TypeInv, TypeOK
  <2> DEFINE messages == <<m>>
  <2> HIDE DEF m
  <2>4. /\ messages \in Seq(Message) /\ DOMAIN messages = {1} /\ messages[1] = m
        /\ Len(messages) = 1
    BY <2>2
  <2> HIDE DEF messages
  <2>5. outbox' = outbox \o messages
    BY <2>3, AppendIsConcat DEF messages
  <2>6. QED
    BY <1>1, <1>3, <2>1, <2>2, <2>4, <2>5, ReportSend DEF AskPid
<1>4. CASE Refuse
  <2>1. <<>> \in Seq(Apps) /\ "restricted" \in Statuses \ {"bad"}
    BY DEF Statuses
  <2>2. pc # "idle" /\ bug' = bug /\ answer' = answer
    BY <1>4 DEF Refuse, Finish
  <2>3. Finish(BadUrl) \/ Finish(<<Reply("restricted", <<>>)>>)
    BY <1>4 DEF Refuse
  <2>4. QED
    BY <1>1, <2>1, <2>2, <2>3, ReportBad, ReportReply
<1>5. CASE FailOverlay
  BY <1>1, <1>5, ReportBad DEF FailOverlay, Finish
<1>6. CASE SendToApp \/ AddOverlay
  <2>1. <<>> \in Seq(Apps) /\ "ok" \in Statuses \ {"bad"}
    BY DEF Statuses
  <2>2. pc # "idle" /\ Finish(<<Reply("ok", <<>>)>>)
    BY <1>6 DEF SendToApp, AddOverlay
  <2>3. bug' = bug /\ answer' = answer
    BY <2>2 DEF Finish
  <2>4. QED
    BY <1>1, <2>1, <2>2, <2>3, ReportReply
<1>7. CASE TestUrl
  <2>1. CASE Finish(BadUrl)
    BY <1>1, <1>7, <2>1, ReportBad DEF TestUrl, Finish
  <2>2. CASE ~Finish(BadUrl)
    BY <1>1, <1>7, <2>2, ReportQuiet DEF TestUrl, busVars, Traced
  <2>3. QED
    BY <2>1, <2>2
<1>8. CASE TestDone
  <2>1. tested \in Seq(Apps) /\ "ok" \in Statuses \ {"bad"}
    BY <1>1 DEF Statuses, TypeInv, TypeOK
  <2>2. pc # "idle" /\ bug' = bug /\ answer' = answer
    BY <1>8 DEF TestDone, Finish
  <2>3. Finish(BadUrl) \/ Finish(<<Reply("ok", tested)>>)
    BY <1>8 DEF TestDone
  <2>4. QED
    BY <1>1, <2>1, <2>2, <2>3, ReportBad, ReportReply
<1>9. QED
  BY <1>2, <1>3, <1>4, <1>5, <1>6, <1>7, <1>8 DEF Handle

(* The daemon comes to the report before the reply: the sender who is      *)
(* there for the reply was there for the report.                           *)
LEMMA ReportDeliver == ASSUME ReportInv, TellInv', Deliver PROVE ReportInv'
<1>1. TypeInv /\ TypeInv' /\ TellInv /\ [Next]_vars
  BY DEF ReportInv, TellInv, Next
<1> DEFINE m == outbox[1]
<1>2. outbox \in Seq(Message) /\ outbox # <<>> /\ outbox' = Tail(outbox)
  BY <1>1 DEF Deliver, TypeInv, TypeOK
<1>3. /\ Head(outbox) = m /\ 1 \in DOMAIN outbox /\ m \in Message
      /\ Len(outbox) \in Nat /\ DOMAIN outbox = 1..Len(outbox)
      /\ DOMAIN outbox' = 1..(Len(outbox) - 1)
      /\ \A k \in DOMAIN outbox' : k + 1 \in DOMAIN outbox /\ outbox'[k] = outbox[k + 1]
  BY <1>2, HeadTailProperties, LenProperties
<1>4. \A i \in Calls : Done(i) => Done(i)'
  BY <1>1, Settled
<1>5. \A i \in Calls : /\ Reports(1, i) => bug'[i] = IF Here(i) THEN "found" ELSE "gone"
                       /\ ~Reports(1, i) => bug'[i] = bug[i]
  BY <1>1, <1>3 DEF Deliver, Reports, TypeInv, TypeOK
<1>6. \A i \in Calls : answer'[i] = answer[i] \/ (/\ m.kind = "reply" /\ m.call = i
                                                  /\ m.answer = answer'[i] /\ Here(i))
  BY <1>1, <1>3 DEF Deliver, TypeInv, TypeOK
<1>7. \A i \in Calls : Reports(1, i) => bug[i] = "none" /\ answer[i].status # "bad"
  BY <1>3 DEF ReportInv, Unasked
<1>8. \A i \in Calls : Traced(i) => Traced(i)'
  BY <1>5, <1>7 DEF Traced
<1>9. \A i \in Calls : SaysBad(1, i) => Traced(i) \/ ~Here(i)
  <2> SUFFICES ASSUME NEW i \in Calls, SaysBad(1, i), NEW j \in DOMAIN outbox, j < 1
               PROVE  FALSE
    BY <1>3 DEF ReportInv, AskedBefore
  <2>1. QED
    BY <1>3
<1>10. \A i \in Calls : answer'[i].status = "bad" => Traced(i)
  <2> SUFFICES ASSUME NEW i \in Calls, answer'[i].status = "bad" PROVE Traced(i)
    OBVIOUS
  <2>1. CASE answer'[i] = answer[i]
    BY <2>1 DEF ReportInv, ToldIsFound, Traced
  <2>2. CASE m.kind = "reply" /\ m.call = i /\ m.answer = answer'[i] /\ Here(i)
    BY <1>9, <2>2 DEF SaysBad
  <2>3. QED
    BY <1>6, <2>1, <2>2
<1>11. AskedOnce'
  <2> SUFFICES ASSUME NEW i \in Calls, NEW j \in DOMAIN outbox', NEW k \in DOMAIN outbox',
                      Reports(j, i)', Reports(k, i)'
               PROVE  j = k
    BY DEF AskedOnce
  <2>1. j + 1 = k + 1
    BY <1>3 DEF ReportInv, AskedOnce, Reports
  <2>2. QED
    BY <1>3, <2>1
<1>12. Unasked'
  <2> SUFFICES ASSUME NEW i \in Calls
               PROVE  /\ ~Done(i)' => \A k \in DOMAIN outbox' : ~Reports(k, i)'
                      /\ ~Done(i)' \/ (\E k \in DOMAIN outbox' : Reports(k, i)')
                         => bug'[i] = "none" /\ answer'[i].status # "bad"
    BY DEF Unasked
  <2>1. ~Done(i)' => \A k \in DOMAIN outbox : ~Reports(k, i)
    BY <1>4 DEF ReportInv, Unasked
  <2>2. ~Done(i)' => \A k \in DOMAIN outbox' : ~Reports(k, i)'
    BY <1>3, <2>1 DEF Reports
  <2>3. ASSUME ~Done(i)' PROVE bug'[i] = "none" /\ answer'[i].status # "bad"
    <3>1. ~Reports(1, i) /\ bug[i] = "none"
      BY <1>3, <1>4, <2>1, <2>3 DEF ReportInv, Unasked
    <3>2. QED
      BY <1>5, <1>10, <3>1 DEF Traced
  <2>4. ASSUME NEW k \in DOMAIN outbox', Reports(k, i)'
        PROVE  bug'[i] = "none" /\ answer'[i].status # "bad"
    <3>1. Reports(k + 1, i) /\ k + 1 \in DOMAIN outbox /\ k + 1 # 1
      BY <1>3, <2>4 DEF Reports
    <3>2. ~Reports(1, i) /\ bug[i] = "none"
      BY <1>3, <3>1 DEF ReportInv, AskedOnce, Unasked
    <3>3. QED
      BY <1>5, <1>10, <3>2 DEF Traced
  <2>5. QED
    BY <2>2, <2>3, <2>4
<1>13. AskedBefore'
  <2> SUFFICES ASSUME NEW i \in Calls, NEW k \in DOMAIN outbox', SaysBad(k, i)',
                      ~Traced(i)', Here(i)'
               PROVE  \E j \in DOMAIN outbox' : j < k /\ Reports(j, i)'
    BY DEF AskedBefore
  <2>1. SaysBad(k + 1, i) /\ k + 1 \in DOMAIN outbox
    BY <1>3 DEF SaysBad
  <2>2. Done(i)
    BY <1>1, <2>1 DEF SaysBad, TellInv, OutboxTells, Statuses
  <2>3. ~Traced(i) /\ Here(i)
    BY <1>1, <1>8, <2>2, GoneStays
  <2>4. PICK j \in DOMAIN outbox : j < k + 1 /\ Reports(j, i)
    BY <2>1, <2>3 DEF ReportInv, AskedBefore
  <2>5. j # 1
    BY <1>5, <2>3, <2>4 DEF Traced
  <2>6. j - 1 \in DOMAIN outbox' /\ j - 1 < k /\ (j - 1) + 1 = j
    BY <1>3, <2>4, <2>5
  <2>7. Reports(j - 1, i)'
    BY <1>3, <2>4, <2>6 DEF Reports
  <2>8. QED
    BY <2>6, <2>7
<1>14. ToldIsFound'
  BY <1>8, <1>10 DEF ToldIsFound, Traced
<1>15. QED
  BY <1>11, <1>12, <1>13, <1>14 DEF ReportInv

LEMMA ReportDie == ASSUME ReportInv, TellInv', Die PROVE ReportInv'
<1>1. TypeInv /\ TellInv /\ TypeInv' /\ [Next]_vars
  BY DEF ReportInv, TellInv, Next
<1>2. \A i \in Calls : Done(i) => Done(i)'
  BY <1>1, Settled
<1>3. \A i \in Calls : /\ Traced(i) => Traced(i)'
                       /\ bug[i] = "none" => bug'[i] = "none"
                       /\ answer'[i].status = "bad" => answer[i].status = "bad"
  BY <1>1 DEF Die, Traced, Say, TypeInv, TypeOK
<1>4. DOMAIN outbox' = {}
  BY DEF Die
<1>5. QED
  BY <1>2, <1>3, <1>4 DEF ReportInv, AskedOnce, Unasked, AskedBefore, ToldIsFound, Traced

LEMMA ReportStep == ReportInv /\ [Next]_vars => ReportInv'
<1> SUFFICES ASSUME ReportInv, [Next]_vars PROVE ReportInv'
  OBVIOUS
<1>1. TellInv' /\ TypeInv
  BY TellStep DEF ReportInv, TellInv
<1>2. CASE Around
  <2>1. outbox' = outbox /\ bug' = bug
    BY <1>2 DEF Around, ChangeDb, ChangeOverlays, Send, Leave, TimeOut, busVars
  <2>2. \A i \in Calls : answer'[i].status = "bad" => answer[i].status = "bad"
    BY <1>1, <1>2 DEF Around, ChangeDb, ChangeOverlays, Send, Leave, TimeOut, busVars,
                      TypeInv, TypeOK, Say
  <2>3. QED
    BY <1>1, <2>1, <2>2, ReportQuiet DEF Traced
<1>3. CASE \E i \in Calls : FileBug(i)
  BY <1>1, <1>3, ReportQuiet DEF FileBug, Traced, TypeInv, TypeOK
<1>4. CASE UNCHANGED vars
  BY <1>1, <1>4, ReportQuiet DEF vars, busVars, Traced
<1>5. QED
  BY <1>1, <1>2, <1>3, <1>4, ReportHandle, ReportDeliver, ReportDie DEF Next

(* Whoever is told that its URL is bad had its process found before, for   *)
(* every number of calls and clients, whoever leaves or gives up in        *)
(* between, and also when the service dies: what was found is then lost,   *)
(* but never not asked for.                                                *)
THEOREM ToldAreFound == Spec => []ToldIsFound
<1>1. Init => ReportInv
  <2> SUFFICES ASSUME Init PROVE ReportInv
    OBVIOUS
  <2>1. TellInv
    BY InitTells
  <2>2. QED
    BY <2>1 DEF Init, ReportInv, AskedOnce, Unasked, AskedBefore, ToldIsFound, Nothing, Say
<1>2. ReportInv => ToldIsFound
  BY DEF ReportInv
<1>3. QED
  BY <1>1, <1>2, ReportStep, PTL DEF Spec
=============================================================================
