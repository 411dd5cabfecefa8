--------------------------- MODULE ClientLib_proofs ---------------------------
(***************************************************************************)
(* The clients with their library run the service of Dispatcher: every     *)
(* step of theirs is one of its steps or none. So what is proved of it     *)
(* holds with them, and success is told only to those it is true for.      *)
(***************************************************************************)
EXTENDS ClientLib, Dispatcher_proofs

(* A connection writes what its own program asked, and the tool asks for   *)
(* nothing but that its URL be dispatched.                                 *)
OwnMessages ==
    \A c \in Clients : unsent[c] # <<>> =>
       LET m == Head(unsent[c]).message IN
          /\ m.by = c
          /\ c \in Tools => m.method = "dispatch"

ToolsDispatch == \A i \in DOMAIN calls : calls[i].by \in Tools => Dispatched(i)

(* The library tells of calls that were made, and of success only after an *)
(* answer that says so; the tool exits with success only when it was told. *)
ToldOfAnswer ==
    \A i \in Calls :
       /\ told[i] # "none" => i \in DOMAIN calls
       /\ told[i] = "success" => answer[i].status = "ok"

ExitTells ==
    \A c \in Tools : client[c] = "exit 0" =>
       \E i \in DOMAIN calls : calls[i].by = c /\ told[i] = "success"

ClientInv == TellInv /\ ClientTypeOK /\ OwnMessages /\ ToolsDispatch /\ ToldOfAnswer /\ ExitTells
-----------------------------------------------------------------------------
(* A connection holds one message, or none.                                *)
LEMMA HoldsOne ==
    ASSUME ClientTypeOK, NEW c \in Clients, NEW e \in Seq(ToWrite), Len(e) <= 1,
           unsent' = [unsent EXCEPT ![c] = e]
    PROVE  unsent' \in [Clients -> Seq(ToWrite)] /\ \A d \in Clients : Len(unsent'[d]) <= 1
<1>1. unsent \in [Clients -> Seq(ToWrite)] /\ \A d \in Clients : Len(unsent[d]) <= 1
  BY DEF ClientTypeOK
<1>2. unsent' \in [Clients -> Seq(ToWrite)]
  BY <1>1
<1>3. \A d \in Clients : unsent'[d] = e \/ unsent'[d] = unsent[d]
  BY <1>1
<1>4. QED
  BY <1>1, <1>2, <1>3

LEMMA HoldsNone == <<>> \in Seq(ToWrite) /\ Len(<<>>) = 0 /\ Len(<<>>) <= 1
  OBVIOUS

LEMMA UnsentFacts ==
    ASSUME ClientInv, NEW c \in Clients, unsent[c] # <<>>
    PROVE  /\ Head(unsent[c]).message \in Messages
           /\ Head(unsent[c]).told \in {"waiting", "nobody"}
<1>1. unsent[c] \in Seq(ToWrite)
  BY DEF ClientInv, ClientTypeOK
<1>2. Head(unsent[c]) \in ToWrite
  BY <1>1, HeadTailProperties
<1>3. QED
  BY <1>2 DEF ToWrite

(* Whatever the clients do, the service sees a step of Dispatcher.         *)
LEMMA ClientsStep == ASSUME ClientInv, [ClientNext]_allVars PROVE [Next]_vars
<1>1. CASE ServiceSide
  BY <1>1 DEF ServiceSide, Next, Around
<1>2. ASSUME NEW m \in Messages, UrlDispatchSend(m) \/ UrlDispatchUrlAppid(m) \/ ToolMain(m)
      PROVE  UNCHANGED vars
  BY <1>2 DEF UrlDispatchSend, UrlDispatchUrlAppid, ToolMain, Ask
<1>3. ASSUME NEW c \in Clients, Write(c) PROVE Next
  <2>1. Head(unsent[c]).message \in Messages /\ Send(Head(unsent[c]).message)
    BY <1>3, UnsentFacts DEF Write
  <2>2. QED
    BY <2>1 DEF Next, Around
<1>4. ASSUME NEW c \in Clients, Exit(c) \/ Killed(c) PROVE Next
  BY <1>4 DEF Exit, Killed, Ends, Next, Around
<1>5. ASSUME NEW i \in Calls, UrlDispatched(i) PROVE UNCHANGED vars
  BY <1>5 DEF UrlDispatched, Tell
<1>6. CASE (\E c \in Clients : ToolWithoutBus(c)) \/ UNCHANGED allVars
  BY <1>6 DEF ToolWithoutBus, allVars
<1>7. QED
  BY <1>1, <1>2, <1>3, <1>4, <1>5, <1>6 DEF ClientNext, ClientSide

(* A client's answer is its last word.                                     *)
LEMMA AnswerStays ==
    ASSUME TypeInv, [Next]_vars, NEW i \in Calls, answer[i].status # "none"
    PROVE  answer'[i] = answer[i]
<1>1. ~Pending(i)
  BY DEF Pending, Nothing, Say
<1>2. answer \in [Calls -> Answer]
  BY DEF TypeInv, TypeOK
<1>3. CASE Handle
  BY <1>3 DEF Handle, Take, Refuse, Clear, SendToApp, AskPid, AddOverlay, AddOverlayFails,
     FailOverlay, TestUrl, TestDone, Finish, Goto, busVars
<1>4. CASE Deliver \/ Die \/ \E j \in Calls : TimeOut(j)
  BY <1>1, <1>2, <1>4 DEF Deliver, Die, TimeOut
<1>5. CASE \/ ChangeDb \/ ChangeOverlays \/ \E m \in Messages : Send(m)
           \/ \E c \in Clients : Leave(c)
  BY <1>5 DEF ChangeDb, ChangeOverlays, Send, Leave, busVars
<1>6. CASE (\E j \in Calls : FileBug(j)) \/ UNCHANGED vars
  BY <1>6 DEF FileBug, vars, busVars
<1>7. QED
  BY <1>3, <1>4, <1>5, <1>6 DEF Next, Around

(* A step that changes nothing about calls leaves what is said of them,    *)
(* and so does one that adds a call.                                       *)
LEMMA ToldStays ==
    ASSUME ClientInv, TellInv', [Next]_vars, UNCHANGED told
    PROVE  /\ ToldOfAnswer'
           /\ \A c \in Tools :
                 (\E i \in DOMAIN calls : calls[i].by = c /\ told[i] = "success") =>
                    (\E i \in DOMAIN calls : calls[i].by = c /\ told[i] = "success")'
<1>1. TypeInv /\ CallsGrow
  BY StepFacts DEF ClientInv, TellInv
<1>2. \A i \in Calls : answer[i].status = "ok" => answer'[i] = answer[i]
  BY <1>1, AnswerStays
<1>3. QED
  BY <1>1, <1>2 DEF ClientInv, ToldOfAnswer, CallsGrow

(* What the service, the bus and the updaters do.                          *)
LEMMA ServiceSideStep ==
    ASSUME ClientInv, TellInv', [Next]_vars, ServiceSide \/ UNCHANGED vars, UNCHANGED clientVars
    PROVE  ClientInv'
<1>1. ClientTypeOK' /\ OwnMessages'
  BY DEF ClientInv, ClientTypeOK, OwnMessages, clientVars
<1>2. calls' = calls
  BY DEF ServiceSide, Handle, Take, Refuse, Clear, SendToApp, AskPid, AddOverlay,
     AddOverlayFails, FailOverlay, TestUrl, TestDone, Finish, Goto, Deliver, Die, ChangeDb,
     ChangeOverlays, FileBug, TimeOut, aroundVars, vars
<1>3. ToolsDispatch'
  BY <1>2 DEF ClientInv, ToolsDispatch, Dispatched
<1>4. ToldOfAnswer' /\ ExitTells'
  BY ToldStays DEF ClientInv, ExitTells, clientVars
<1>5. QED
  BY <1>1, <1>3, <1>4 DEF ClientInv

(* A program hands its connection a message, or leaves the bus.            *)
LEMMA AskStep ==
    ASSUME ClientInv, TellInv', [Next]_vars, NEW m \in Messages, NEW t \in {"waiting", "nobody"},
           NEW next \in {"free", "flushing", "waiting"}, Ask(m, t, next),
           m.by \in Tools => m.method = "dispatch"
    PROVE  ClientInv'
<1>1. m.by \in Clients
  BY CallAssumption DEF Call
<1> DEFINE w == [message |-> m, told |-> t]
<1>2. ClientTypeOK'
  <2>1. w \in ToWrite
    BY DEF ToWrite
  <2> HIDE DEF w
  <2>2. <<w>> \in Seq(ToWrite) /\ Len(<<w>>) = 1
    BY <2>1
  <2>3. unsent' = [unsent EXCEPT ![m.by] = <<w>>]
    BY DEF Ask, w
  <2>4. unsent' \in [Clients -> Seq(ToWrite)] /\ \A c \in Clients : Len(unsent'[c]) <= 1
    <3>1. Len(<<w>>) <= 1
      BY <2>2
    <3>2. QED
      BY <1>1, <2>2, <2>3, <3>1, HoldsOne DEF ClientInv
  <2>5. QED
    BY <1>1, <2>4 DEF ClientInv, ClientTypeOK, Ask
<1>3. OwnMessages'
  <2> SUFFICES ASSUME NEW c \in Clients, unsent'[c] # <<>>
               PROVE  /\ Head(unsent'[c]).message.by = c
                      /\ c \in Tools => Head(unsent'[c]).message.method = "dispatch"
    BY DEF OwnMessages
  <2>1. CASE c = m.by
    <3>1. unsent'[c] = <<[message |-> m, told |-> t]>>
      BY <1>1, <2>1 DEF Ask, ClientInv, ClientTypeOK
    <3>2. QED
      BY <2>1, <3>1
  <2>2. CASE c # m.by
    BY <1>1, <2>2 DEF Ask, ClientInv, ClientTypeOK, OwnMessages
  <2>3. QED
    BY <2>1, <2>2
<1>4. ToolsDispatch' /\ ToldOfAnswer'
  BY ToldStays DEF ClientInv, ToolsDispatch, Dispatched, Ask, vars, aroundVars
<1>5. ExitTells'
  <2>1. \A c \in Clients : client'[c] = "exit 0" => client[c] = "exit 0"
    BY <1>1 DEF Ask, ClientInv, ClientTypeOK
  <2>2. UNCHANGED told
    BY DEF Ask
  <2>3. QED
    BY <2>1, <2>2, ToldStays, ToolsAssumption DEF ClientInv, ExitTells
<1>6. QED
  BY <1>2, <1>3, <1>4, <1>5 DEF ClientInv

LEMMA EndsStep ==
    ASSUME ClientInv, TellInv', [Next]_vars, NEW c \in Clients, Exit(c) \/ Killed(c)
    PROVE  ClientInv'
<1>1. PICK how \in {"exit 0", "exit 1", "left", "killed"} :
         Ends(c, how) /\ (how = "exit 0" => client[c] = "exit 0")
  BY DEF Exit, Killed
<1>2. ClientTypeOK'
  <2>1. unsent' \in [Clients -> Seq(ToWrite)] /\ \A d \in Clients : Len(unsent'[d]) <= 1
    BY <1>1, HoldsOne, HoldsNone DEF ClientInv, Ends
  <2>2. QED
    BY <1>1, <2>1 DEF ClientInv, ClientTypeOK, Ends
<1> OwnMessages'
  BY <1>1 DEF ClientInv, ClientTypeOK, OwnMessages, Ends
<1>3. ToolsDispatch' /\ ToldOfAnswer'
  BY <1>1, ToldStays DEF ClientInv, ToolsDispatch, Dispatched, Ends, Leave
<1>4. ExitTells'
  <2>1. \A d \in Clients : client'[d] = "exit 0" => client[d] = "exit 0"
    BY <1>1 DEF Ends, ClientInv, ClientTypeOK
  <2>2. UNCHANGED told
    BY <1>1 DEF Ends
  <2>3. QED
    BY <2>1, <2>2, ToldStays, ToolsAssumption DEF ClientInv, ExitTells
<1>5. QED
  BY <1>2, <1>3, <1>4 DEF ClientInv

(* The connection writes: the call is new, nobody was told of it.          *)
LEMMA WriteStep ==
    ASSUME ClientInv, TellInv', [Next]_vars, NEW c \in Clients, Write(c)
    PROVE  ClientInv'
<1> DEFINE m == Head(unsent[c]).message
           n == Len(calls) + 1
<1>1. /\ m \in Messages /\ m \in Call /\ m.by = c
      /\ c \in Tools => m.method = "dispatch"
      /\ Head(unsent[c]).told \in {"waiting", "nobody"}
  BY UnsentFacts, CallAssumption DEF Write, ClientInv, OwnMessages
<1>2. calls \in Seq(Call) /\ calls' = Append(calls, m) /\ answer' = answer
  BY DEF Write, Send, busVars, ClientInv, TellInv, TypeInv, TypeOK
<1>3. /\ n \in Calls /\ n \notin DOMAIN calls /\ Len(calls') = n
      /\ DOMAIN calls' = DOMAIN calls \cup {n} /\ calls'[n] = m
      /\ \A i \in DOMAIN calls : calls'[i] = calls[i]
  <2>1. Len(calls) \in Nat /\ Len(calls) < MaxCalls /\ DOMAIN calls = 1..Len(calls)
    BY <1>2, LenProperties DEF Write, Send
  <2>2. Len(calls') = n /\ calls'[n] = m /\ \A i \in 1..Len(calls) : calls'[i] = calls[i]
    BY <1>1, <1>2, AppendProperties
  <2>3. calls' \in Seq(Call)
    BY <1>1, <1>2, AppendProperties
  <2>4. DOMAIN calls' = 1..n
    BY <2>2, <2>3, LenProperties
  <2>5. QED
    BY <2>1, <2>2, <2>4, CallAssumption DEF Calls
<1>4. told' = [told EXCEPT ![n] = Head(unsent[c]).told]
  BY <1>3 DEF Write
<1> HIDE DEF m, n
<1>5. ClientTypeOK'
  <2>1. unsent' \in [Clients -> Seq(ToWrite)] /\ \A d \in Clients : Len(unsent'[d]) <= 1
    BY HoldsOne, HoldsNone DEF ClientInv, Write
  <2>2. QED
    BY <1>1, <1>3, <1>4, <2>1 DEF Write, ClientInv, ClientTypeOK
<1>6. OwnMessages'
  BY DEF Write, ClientInv, ClientTypeOK, OwnMessages
<1>7. ToolsDispatch'
  BY <1>1, <1>3 DEF ClientInv, ToolsDispatch, Dispatched
<1>8. \A i \in Calls : i # n => told'[i] = told[i]
  BY <1>4 DEF ClientInv, ClientTypeOK
<1>9. told'[n] \in {"waiting", "nobody"}
  BY <1>1, <1>3, <1>4 DEF ClientInv, ClientTypeOK
<1>10. ToldOfAnswer'
  BY <1>2, <1>3, <1>8, <1>9 DEF ClientInv, ToldOfAnswer
<1>11. ExitTells'
  <2> SUFFICES ASSUME NEW d \in Tools, client'[d] = "exit 0"
               PROVE  \E i \in DOMAIN calls' : calls'[i].by = d /\ told'[i] = "success"
    BY DEF ExitTells
  <2>1. client[d] = "exit 0"
    BY ToolsAssumption DEF Write, ClientInv, ClientTypeOK
  <2>2. PICK i \in DOMAIN calls : calls[i].by = d /\ told[i] = "success"
    BY <2>1 DEF ClientInv, ExitTells
  <2>3. i \in Calls /\ i # n
    BY <1>3, CallFacts DEF ClientInv, TellInv
  <2>4. QED
    BY <1>3, <1>8, <2>2, <2>3
<1>12. QED
  BY <1>5, <1>6, <1>7, <1>10, <1>11 DEF ClientInv

(* The library tells its caller what the answer says.                      *)
LEMMA UrlDispatchedStep ==
    ASSUME ClientInv, TellInv', NEW i \in Calls, UrlDispatched(i)
    PROVE  ClientInv'
<1>1. /\ i \in DOMAIN calls /\ calls[i].by \in Clients
      /\ UNCHANGED <<vars, unsent>> /\ UNCHANGED <<calls, answer>>
  BY CallFacts DEF UrlDispatched, Tell, vars, aroundVars, busVars, ClientInv, TellInv, Call
<1>2. PICK outcome \in {"success", "failure"} :
         /\ Tell(i, outcome)
         /\ outcome = "success" => answer[i].status = "ok"
  BY DEF UrlDispatched
<1>3. /\ told' = [told EXCEPT ![i] = outcome]
      /\ told'[i] = outcome
      /\ \A j \in Calls : j # i => told'[j] = told[j]
      /\ told[i] = "waiting"
  BY <1>2 DEF Tell, ClientInv, ClientTypeOK
<1>4. ClientTypeOK'
  BY <1>1, <1>2, <1>3 DEF Tell, ClientInv, ClientTypeOK
<1>5. OwnMessages' /\ ToolsDispatch'
  BY <1>1 DEF ClientInv, OwnMessages, ToolsDispatch, Dispatched
<1>6. ToldOfAnswer'
  BY <1>1, <1>2, <1>3 DEF ClientInv, ToldOfAnswer
<1>7. ExitTells'
  <2> SUFFICES ASSUME NEW c \in Tools, client'[c] = "exit 0"
               PROVE  \E j \in DOMAIN calls : calls[j].by = c /\ told'[j] = "success"
    BY <1>1 DEF ExitTells
  <2>1. CASE client[c] = "exit 0"
    <3>1. PICK j \in DOMAIN calls : calls[j].by = c /\ told[j] = "success"
      BY <2>1 DEF ClientInv, ExitTells
    <3>2. j \in Calls /\ j # i
      BY <1>3, <3>1, CallFacts DEF ClientInv, TellInv
    <3>3. QED
      BY <1>3, <3>1, <3>2
  <2>2. CASE client[c] # "exit 0"
    <3>1. c = calls[i].by /\ outcome = "success"
      BY <1>1, <1>2, <2>2, ToolsAssumption DEF Tell, ClientInv, ClientTypeOK
    <3>2. QED
      BY <1>1, <1>3, <3>1
  <2>3. QED
    BY <2>1, <2>2
<1>8. QED
  BY <1>4, <1>5, <1>6, <1>7 DEF ClientInv

LEMMA ClientStep == ClientInv /\ [ClientNext]_allVars => ClientInv'
<1> SUFFICES ASSUME ClientInv, [ClientNext]_allVars PROVE ClientInv'
  OBVIOUS
<1>1. [Next]_vars /\ TellInv'
  BY ClientsStep, TellStep DEF ClientInv
<1>2. CASE (ServiceSide /\ UNCHANGED clientVars) \/ UNCHANGED allVars
  BY <1>1, <1>2, ServiceSideStep DEF allVars
<1>3. ASSUME NEW m \in Messages, UrlDispatchSend(m) \/ UrlDispatchUrlAppid(m) \/ ToolMain(m)
      PROVE  ClientInv'
  <2>1. PICK t \in {"waiting", "nobody"}, next \in {"free", "flushing", "waiting"} :
           Ask(m, t, next) /\ (m.by \in Tools => m.method = "dispatch")
    BY <1>3 DEF UrlDispatchSend, UrlDispatchUrlAppid, ToolMain
  <2>2. QED
    BY <1>1, <2>1, AskStep
<1>4. ASSUME NEW c \in Clients, ToolWithoutBus(c) PROVE ClientInv'
  <2>1. UNCHANGED <<calls, answer>> /\ UNCHANGED <<vars, unsent, told>>
    BY <1>4 DEF ToolWithoutBus, vars, aroundVars, busVars
  <2>2. ClientTypeOK'
    BY <1>4, <2>1 DEF ToolWithoutBus, ClientInv, ClientTypeOK
  <2>3. OwnMessages' /\ ToolsDispatch' /\ ToldOfAnswer'
    BY <2>1 DEF ClientInv, OwnMessages, ToolsDispatch, Dispatched, ToldOfAnswer
  <2>4. \A d \in Clients : client'[d] = "exit 0" => client[d] = "exit 0"
    BY <1>4 DEF ToolWithoutBus, ClientInv, ClientTypeOK
  <2>5. ExitTells'
    BY <2>1, <2>4, ToolsAssumption DEF ClientInv, ExitTells
  <2>6. QED
    BY <1>1, <2>2, <2>3, <2>5 DEF ClientInv
<1>5. ASSUME NEW c \in Clients, Write(c) \/ Exit(c) \/ Killed(c) PROVE ClientInv'
  BY <1>1, <1>5, WriteStep, EndsStep
<1>6. ASSUME NEW i \in Calls, UrlDispatched(i) PROVE ClientInv'
  BY <1>1, <1>6, UrlDispatchedStep
<1>7. QED
  BY <1>2, <1>3, <1>4, <1>5, <1>6 DEF ClientNext, ClientSide

LEMMA ClientStart == ClientInit => ClientInv
<1> SUFFICES ASSUME ClientInit PROVE ClientInv
  OBVIOUS
<1>1. TellInv /\ calls = <<>>
  BY InitTells DEF ClientInit, Init
<1>2. ClientTypeOK
  BY HoldsNone DEF ClientInit, ClientTypeOK
<1>3. OwnMessages /\ ToldOfAnswer /\ ExitTells
  <2>1. /\ \A c \in Clients : unsent[c] = <<>> /\ client[c] = "free"
        /\ \A i \in Calls : told[i] = "none"
    BY DEF ClientInit
  <2>2. QED
    BY <2>1, ToolsAssumption DEF OwnMessages, ToldOfAnswer, ExitTells
<1>4. ToolsDispatch
  BY <1>1 DEF ToolsDispatch
<1>5. QED
  BY <1>1, <1>2, <1>3, <1>4 DEF ClientInv

LEMMA ClientHolds == ClientSpec => []ClientInv
  BY ClientStart, ClientStep, PTL DEF ClientSpec

(* Every variable of the client library keeps its type, the calls that the *)
(* library tells of included.                                              *)
THEOREM ClientTypeCorrect == ClientSpec => []ClientTypeOK
<1>1. ClientInv => ClientTypeOK
  BY DEF ClientInv
<1>2. QED
  BY <1>1, ClientHolds, PTL

(* The clients with their library are the clients of Dispatcher: the calls *)
(* of any number of programs, through callbacks, exits and kills, are      *)
(* behaviours of the service alone, and what is proved of it holds here.   *)
THEOREM ClientsImplement == ClientSpec => Spec
<1>1. ClientInit => Init
  BY DEF ClientInit
<1>2. ClientInv /\ [ClientNext]_allVars => [Next]_vars
  BY ClientsStep
<1>3. QED
  BY <1>1, <1>2, ClientHolds, PTL DEF ClientSpec, Spec

(* Who is told of success, by the callback, by the return of the function  *)
(* or by the tool's exit status, had something started for its URL, though *)
(* the answer may be late, the service die or the caller be killed.        *)
THEOREM SuccessHolds == ClientSpec => []SuccessIsTrue
<1>1. ClientInv => SuccessIsTrue
  <2> SUFFICES ASSUME ClientInv PROVE SuccessIsTrue
    OBVIOUS
  <2>1. ASSUME NEW i \in Calls, told[i] = "success", Dispatched(i) PROVE Started(i) # {}
    BY <2>1, TellImplies DEF ClientInv, ToldOfAnswer, AnswersTellLaunches
  <2>2. ASSUME NEW c \in Tools, client[c] = "exit 0"
        PROVE  \E i \in DOMAIN calls : calls[i].by = c /\ Started(i) # {}
    <3>1. PICK i \in DOMAIN calls : calls[i].by = c /\ told[i] = "success"
      BY <2>2 DEF ClientInv, ExitTells
    <3>2. i \in Calls /\ Dispatched(i)
      BY <3>1, CallFacts DEF ClientInv, TellInv, ToolsDispatch
    <3>3. QED
      BY <2>1, <3>1, <3>2
  <2>3. QED
    BY <2>1, <2>2 DEF SuccessIsTrue
<1>2. QED
  BY <1>1, ClientHolds, PTL
=============================================================================
