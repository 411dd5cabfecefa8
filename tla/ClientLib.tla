------------------------------ MODULE ClientLib ------------------------------
(***************************************************************************)
(* liburl-dispatcher/url-dispatcher.c and tools/url-dispatcher.c: the      *)
(* clients of the service. A client program hands its connection a message *)
(* and goes on, waits for the answer, or only for the message to be        *)
(* written; it may end when it likes, and be killed when it does not.      *)
(* Without a session bus the functions warn and return.                    *)
(***************************************************************************)
EXTENDS Dispatcher

CONSTANT Tools      \* the clients that are the url-dispatcher tool

ASSUME ToolsAssumption == Tools \subseteq Clients

VARIABLES
    client,     \* client[c]: where the program of c stands
    unsent,     \* unsent[c]: the message its connection has yet to write,
                \* with what is to be told of it
    told        \* told[i]: what the library has told its caller of call i

clientVars == <<client, unsent, told>>
allVars    == <<vars, clientVars>>

ToWrite == [message : Messages, told : {"waiting", "nobody"}]

ClientTypeOK ==
    /\ client \in [Clients -> {"free", "flushing", "waiting", "exit 0", "exit 1",
                               "left", "killed"}]
    /\ told \in [Calls -> {"none", "waiting", "nobody", "success", "failure"}]
    /\ unsent \in [Clients -> Seq(ToWrite)]
    /\ \A c \in Clients : Len(unsent[c]) <= 1

ClientInit ==
    /\ Init
    /\ client = [c \in Clients |-> "free"]
    /\ unsent = [c \in Clients |-> <<>>]
    /\ told = [i \in Calls |-> "none"]
-----------------------------------------------------------------------------
(* A connection has one message to write at a time, a bound, and MaxCalls  *)
(* counts those messages too.                                              *)
Ask(m, t, next) ==
    /\ client[m.by] = "free"
    /\ unsent[m.by] = <<>>
    /\ Len(calls) + Cardinality({c \in Clients : unsent[c] # <<>>}) < MaxCalls
    /\ unsent' = [unsent EXCEPT ![m.by] = <<[message |-> m, told |-> t]>>]
    /\ client' = [client EXCEPT ![m.by] = next]
    /\ UNCHANGED <<vars, told>>

(* What would go wrong: nobody waits for the message to be written.        *)
UrlDispatchSendOnly(m) ==
    /\ m.method = "dispatch" /\ m.by \notin Tools
    /\ Ask(m, "waiting", "free") \/ Ask(m, "nobody", "free")

(* With a callback it returns at once; without one, when the message has   *)
(* been written.                                                           *)
UrlDispatchSend(m) ==
    /\ m.method = "dispatch" /\ m.by \notin Tools
    /\ Ask(m, "waiting", "free") \/ Ask(m, "nobody", "flushing")

UrlDispatchUrlAppid(m) ==
    /\ m.method = "test" /\ m.by \notin Tools
    /\ Ask(m, "waiting", "waiting")

(* main() of the tool: it sends its URL and runs a main loop.              *)
ToolMain(m) ==
    /\ m.method = "dispatch" /\ m.by \in Tools /\ m.package = NoPackage
    /\ Ask(m, "waiting", "waiting")

(* Without a session bus it runs its main loop all the same.               *)
ToolWithoutBus(c) ==
    /\ c \in Tools
    /\ client[c] = "free"
    /\ client' = [client EXCEPT ![c] = "waiting"]
    /\ UNCHANGED <<vars, unsent, told>>

(* The worker thread of GDBus. A message that nobody waits for asks for no *)
(* reply.                                                                  *)
Write(c) ==
    /\ unsent[c] # <<>>
    /\ Send(Head(unsent[c]).message)
    /\ told' = [told EXCEPT ![Len(calls')] = Head(unsent[c]).told]
    /\ unsent' = [unsent EXCEPT ![c] = <<>>]
    /\ client' = [client EXCEPT ![c] = IF @ = "flushing" THEN "free" ELSE @]

(* url_dispatched, when the caller's main loop runs, with the callback in  *)
(* it, and the return of the other function: the answer or an error, the   *)
(* time-out's included.                                                    *)
Tell(i, outcome) ==
    LET c == calls[i].by IN
       /\ told[i] = "waiting"
       /\ client[c] = IF Dispatched(i) /\ c \notin Tools THEN "free" ELSE "waiting"
       /\ ~Pending(i)
       /\ told' = [told EXCEPT ![i] = outcome]
       /\ client' = [client EXCEPT ![c] =
                        IF c \notin Tools THEN "free"
                        ELSE IF outcome = "success" THEN "exit 0" ELSE "exit 1"]
       /\ UNCHANGED <<vars, unsent>>

(* What would go wrong: the caller is told more than it understands, ...   *)
TellStatus(i) == i \in DOMAIN calls /\ Tell(i, answer[i].status)

(* ... an error is no failure, ...                                         *)
TellSuccess(i) == i \in DOMAIN calls /\ Tell(i, "success")

(* ... or is not told.                                                     *)
TellNoError(i) == i \in DOMAIN calls /\ answer[i].status = "ok" /\ Tell(i, "success")

UrlDispatched(i) ==
    /\ i \in DOMAIN calls
    /\ Tell(i, IF answer[i].status = "ok" THEN "success" ELSE "failure")

(* A program ends, and takes what it has not written with it.              *)
Ends(c, how) ==
    /\ Leave(c)
    /\ client' = [client EXCEPT ![c] = how]
    /\ unsent' = [unsent EXCEPT ![c] = <<>>]
    /\ UNCHANGED told

Exit(c) ==
    \/ client[c] = "free" /\ c \notin Tools /\ Ends(c, "left")
    \/ client[c] \in {"exit 0", "exit 1"} /\ Ends(c, client[c])

Killed(c) == Ends(c, "killed")
-----------------------------------------------------------------------------
ServiceSide ==
    \/ Handle \/ Deliver \/ Die \/ ChangeDb \/ ChangeOverlays
    \/ \E i \in Calls : FileBug(i) \/ TimeOut(i)

ClientSide ==
    \/ \E m \in Messages : UrlDispatchSend(m) \/ UrlDispatchUrlAppid(m) \/ ToolMain(m)
    \/ \E c \in Clients : ToolWithoutBus(c) \/ Write(c) \/ Exit(c) \/ Killed(c)
    \/ \E i \in Calls : UrlDispatched(i)

ClientNext == (ServiceSide /\ UNCHANGED clientVars) \/ ClientSide

(* The service's main loop, the bus daemon, and the connections and main   *)
(* loops of clients that are there keep running.                           *)
ClientFairness ==
    /\ WF_allVars(Handle /\ UNCHANGED clientVars)
    /\ WF_allVars(Deliver /\ UNCHANGED clientVars)
    /\ \A i \in Calls : WF_allVars(FileBug(i) /\ UNCHANGED clientVars)
    /\ \A i \in Calls : WF_allVars(UrlDispatched(i))
    /\ \A c \in Clients : WF_allVars(Write(c))

ClientSpec == ClientInit /\ [][ClientNext]_allVars /\ ClientFairness
-----------------------------------------------------------------------------
(* "Function to call with the result of the URL processing": who is told   *)
(* of success, the shell that sees the tool's exit status included, had    *)
(* something started for its URL.                                          *)
SuccessIsTrue ==
    /\ \A i \in Calls : told[i] = "success" /\ Dispatched(i) => Started(i) # {}
    /\ \A c \in Tools : client[c] = "exit 0" => \E i \in DOMAIN calls :
                                                   calls[i].by = c /\ Started(i) # {}

(* Whoever asked to be told is told, if it lives to see it.                *)
CallbackCalled ==
    \A i \in Calls : told[i] = "waiting" ~> told[i] # "waiting" \/ ~Here(i)

(* A URL sent without a callback is taken up by the service, although the  *)
(* client may exit as soon as url_dispatch_send has returned.              *)
ForgottenIsHandled ==
    \A m \in Messages :
       unsent[m.by] = <<[message |-> m, told |-> "nobody"]>>
         ~> \/ \E i \in 1..taken : calls[i] = m /\ told[i] = "nobody"
            \/ client[m.by] = "killed"
=============================================================================
