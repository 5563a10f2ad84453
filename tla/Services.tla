------------------------------ MODULE Services ------------------------------
(***************************************************************************)
(* The two Windows services as processes: the gateway (ServiceMain,        *)
(* ServiceHandlerEx, ServiceWorkLoop of sms2wechat-v7.c) and smset         *)
(* (service_main, service_worker_thread, service_ctrl_handler of main.c).  *)
(* Each has a thread that runs the service and, on the thread of the       *)
(* control dispatcher, a handler.  They share one SERVICE_STATUS record,   *)
(* which SetServiceStatus reads when it is called, and a sign to stop: an  *)
(* event of the gateway, g_running of smset.                               *)
(*                                                                         *)
(* The service manager passes a stop on in any state the services accept   *)
(* it in, from SERVICE_START_PENDING on.                                   *)
(***************************************************************************)
CONSTANT Services  \* the services installed, a subset of {"gateway", "smset"}

ASSUME ServicesAssumption == Services \subseteq {"gateway", "smset"}

VARIABLES
    main,    \* where the service's thread stands
    handler, \* where the control handler stands
    status,  \* dwCurrentState of the shared record
    told,    \* the state SetServiceStatus was last called with
    ended,   \* SERVICE_STOPPED was reported
    sign,    \* "none", "clear", "set" or "closed"
    odd      \* history: "quit", the work ended by itself;
             \* "early", a stop came before the service reported SERVICE_RUNNING

serviceVars == <<main, handler, status, told, ended, sign, odd>>

\* What a process starts with: g_running is initialised, the event is not.
InitialSign(s) == IF s = "smset" THEN "clear" ELSE "none"

Init ==
    /\ main = [s \in Services |-> "off"]
    /\ handler = [s \in Services |-> "idle"]
    /\ status = [s \in Services |-> "stopped"]
    /\ told = [s \in Services |-> "stopped"]
    /\ ended = [s \in Services |-> FALSE]
    /\ sign = [s \in Services |-> InitialSign(s)]
    /\ odd = [s \in Services |-> {}]

\* The service's thread goes from one place to another.
Walk(s, from, to) == main[s] = from /\ main' = [main EXCEPT ![s] = to]

Handle(s, from, to) == handler[s] = from /\ handler' = [handler EXCEPT ![s] = to]

\* dwCurrentState = state, and SetServiceStatus.
Write(s, state) == status' = [status EXCEPT ![s] = state]
Tell(s) ==
    /\ told' = [told EXCEPT ![s] = status[s]]
    /\ ended' = [ended EXCEPT ![s] = @ \/ status[s] = "stopped"]

-----------------------------------------------------------------------------
(* The thread of the service                                               *)

\* The manager starts the process; ServiceMain registers the handler and
\* reports START_PENDING with SERVICE_ACCEPT_STOP.
Announce(s) ==
    /\ Walk(s, "off", IF s = "gateway" THEN "create" ELSE "spawn")
    /\ Write(s, "start_pending")
    /\ told' = [told EXCEPT ![s] = "start_pending"]
    /\ UNCHANGED <<handler, ended, sign, odd>>

\* CreateEvent, and then CoreBusinessInit, which starts the other threads.
CreateStopEvent(s) ==
    /\ Walk(s, "create", "ready")
    /\ sign' = [sign EXCEPT ![s] = "clear"]
    /\ UNCHANGED <<handler, status, told, ended, odd>>

WriteRunning(s) ==
    /\ Walk(s, "ready", "tellrunning")
    /\ Write(s, "running")
    /\ UNCHANGED <<handler, told, ended, sign, odd>>

TellRunning(s) ==
    /\ Walk(s, "tellrunning", "connect")
    /\ Tell(s)
    /\ UNCHANGED <<handler, status, sign, odd>>

\* smset does its work in a thread of its own; if there is none, it is over.
StartWorker(s) ==
    /\ Walk(s, "spawn", "connect")
    /\ UNCHANGED <<handler, status, told, ended, sign, odd>>

NoWorker(s) ==
    /\ Walk(s, "spawn", "writestopped")
    /\ odd' = [odd EXCEPT ![s] = @ \cup {"quit"}]
    /\ UNCHANGED <<handler, status, told, ended, sign>>

\* The port is open and the modem configured; the gateway has the database.
Connect(s) ==
    /\ Walk(s, "connect", "work")
    /\ UNCHANGED <<handler, status, told, ended, sign, odd>>

\* Port or database are not there: the gateway tries again in five seconds.
RetryLater(s) ==
    /\ s = "gateway"
    /\ Walk(s, "connect", "wait")
    /\ UNCHANGED <<handler, status, told, ended, sign, odd>>

Mut_WaitForStop(s) ==
    /\ Walk(s, "wait", "connect")
    /\ UNCHANGED <<handler, status, told, ended, sign, odd>>
WaitForStop(s) ==
    /\ Walk(s, "wait", IF sign[s] = "set" THEN "leave" ELSE "connect")
    /\ UNCHANGED <<handler, status, told, ended, sign, odd>>

\* The modem refuses AT+CMGF or AT+CNMI, or smset finds no modem: the service
\* ends by itself.
GiveUp(s) ==
    /\ Walk(s, "connect", IF s = "gateway" THEN "leave" ELSE "workerwrites")
    /\ odd' = [odd EXCEPT ![s] = @ \cup {o \in {"quit"} : sign[s] # "set"}]
    /\ UNCHANGED <<handler, status, told, ended, sign>>

Mut_LeaveLoop(s) ==
    /\ sign[s] = "set"
    /\ Walk(s, "work", IF s = "gateway" THEN "leave" ELSE "writestopped")
    /\ UNCHANGED <<handler, status, told, ended, sign, odd>>
\* The top of the loop; the pass itself is Reassembly's and ModemSession's.
LeaveLoop(s) ==
    /\ sign[s] = "set"
    /\ Walk(s, "work", IF s = "gateway" THEN "leave" ELSE "workerwrites")
    /\ UNCHANGED <<handler, status, told, ended, sign, odd>>

\* service_worker_thread reports the end before service_main does.
WorkerWrites(s) ==
    /\ Walk(s, "workerwrites", "workertells")
    /\ Write(s, "stopped")
    /\ UNCHANGED <<handler, told, ended, sign, odd>>

WorkerTells(s) ==
    /\ Walk(s, "workertells", "writestopped")
    /\ Tell(s)
    /\ UNCHANGED <<handler, status, sign, odd>>

\* The log is closed, and then the event, while the push and refresh threads
\* still run.
CloseStopEvent(s) ==
    /\ Walk(s, "leave", "writestopped")
    /\ sign' = [sign EXCEPT ![s] = "closed"]
    /\ UNCHANGED <<handler, status, told, ended, odd>>

WriteStopped(s) ==
    /\ Walk(s, "writestopped", "tellstopped")
    /\ Write(s, "stopped")
    /\ UNCHANGED <<handler, told, ended, sign, odd>>

TellStopped(s) ==
    /\ Walk(s, "tellstopped", "done")
    /\ Tell(s)
    /\ UNCHANGED <<handler, status, sign, odd>>

-----------------------------------------------------------------------------
(* The handler                                                             *)

\* The manager sends a stop unless one is pending.
SendStop(s) ==
    /\ told[s] \in {"start_pending", "running"}
    /\ Handle(s, "idle", IF s = "gateway" THEN "write" ELSE "signal")
    /\ odd' = [odd EXCEPT ![s] = @ \cup {o \in {"early"} : told[s] # "running"}]
    /\ UNCHANGED <<main, status, told, ended, sign>>

HandlerWrites(s) ==
    /\ Handle(s, "write", "tell")
    /\ Write(s, "stop_pending")
    /\ UNCHANGED <<main, told, ended, sign, odd>>

HandlerTells(s) ==
    /\ Handle(s, "tell", IF s = "gateway" THEN "signal" ELSE "idle")
    /\ Tell(s)
    /\ UNCHANGED <<main, status, sign, odd>>

\* SetEvent fails while there is no event, or no longer; smset clears
\* g_running before it reports.
HandlerSignals(s) ==
    /\ Handle(s, "signal", IF s = "gateway" THEN "idle" ELSE "write")
    /\ sign' = [sign EXCEPT ![s] = IF @ = "clear" THEN "set" ELSE @]
    /\ UNCHANGED <<main, status, told, ended, odd>>

\* The gateway's handler answers any other control with the record as it is.
Interrogate(s) ==
    /\ s = "gateway"
    /\ main[s] # "off"
    /\ handler[s] = "idle"
    /\ Tell(s)
    /\ UNCHANGED <<main, handler, status, sign, odd>>

-----------------------------------------------------------------------------
(* The process                                                             *)

\* What a process leaves behind.
Gone(s) ==
    /\ main' = [main EXCEPT ![s] = "off"]
    /\ handler' = [handler EXCEPT ![s] = "idle"]
    /\ status' = [status EXCEPT ![s] = "stopped"]
    /\ told' = [told EXCEPT ![s] = "stopped"]
    /\ ended' = [ended EXCEPT ![s] = FALSE]
    /\ sign' = [sign EXCEPT ![s] = InitialSign(s)]
    /\ odd' = [odd EXCEPT ![s] = {}]

\* StartServiceCtrlDispatcher returns once SERVICE_STOPPED was reported; main
\* returns, and the process ends with all its threads.
Exit(s) ==
    /\ main[s] # "off"
    /\ ended[s]
    /\ handler[s] = "idle"
    /\ Gone(s)

\* A crash, by a thread that writes to the closed log for one, or an
\* administrator.
Kill(s) == main[s] # "off" /\ Gone(s)

-----------------------------------------------------------------------------
MainStep(s) ==
    \/ CreateStopEvent(s) \/ WriteRunning(s) \/ TellRunning(s)
    \/ StartWorker(s) \/ NoWorker(s)
    \/ Connect(s) \/ RetryLater(s) \/ WaitForStop(s) \/ GiveUp(s) \/ LeaveLoop(s)
    \/ WorkerWrites(s) \/ WorkerTells(s)
    \/ CloseStopEvent(s) \/ WriteStopped(s) \/ TellStopped(s)

HandlerStep(s) == HandlerWrites(s) \/ HandlerTells(s) \/ HandlerSignals(s)

Next ==
    \E s \in Services :
        \/ Announce(s) \/ MainStep(s)
        \/ SendStop(s) \/ HandlerStep(s) \/ Interrogate(s)
        \/ Exit(s) \/ Kill(s)

Spec == Init /\ [][Next]_serviceVars

\* Threads run, and every call they make returns.
FairSpec ==
    Spec /\ \A s \in Services : WF_serviceVars(MainStep(s)) /\ WF_serviceVars(HandlerStep(s))
                                /\ WF_serviceVars(Exit(s))

-----------------------------------------------------------------------------
\* What may keep a process from ending: it reports its end once, while a stop
\* writes another state into the record.  That takes a service that ends by
\* itself, or a gateway that got a stop before it was running.
Excuses(s) == IF s = "gateway" THEN {"quit", "early"} ELSE {"quit"}
Excused(s) == odd[s] \cap Excuses(s) # {}

\* A process whose sign to stop was set ends, whatever its thread does, even if
\* port and database never come back (lines 1531, 1587, 1670; main.c 71, 107).
StopIsHonoured == \A s \in Services : sign[s] = "set" ~> main[s] = "off" \/ Excused(s)

\* A service that is through has reported SERVICE_STOPPED, whatever the handler
\* writes into the record meanwhile (lines 1668, 1731; main.c 100-104, 134).
EndIsReported ==
    \A s \in Services : main[s] = "done" /\ handler[s] = "idle" => ended[s] \/ Excused(s)

-----------------------------------------------------------------------------
(* The inductive invariant EndIsReported follows from                      *)

MainPlaces == {"off", "create", "ready", "tellrunning", "spawn", "connect", "wait", "work",
               "leave", "workerwrites", "workertells", "writestopped", "tellstopped", "done"}
States == {"stopped", "start_pending", "running", "stop_pending"}

TypeOK ==
    /\ main \in [Services -> MainPlaces]
    /\ handler \in [Services -> {"idle", "write", "tell", "signal"}]
    /\ status \in [Services -> States]
    /\ told \in [Services -> States]
    /\ ended \in [Services -> BOOLEAN]
    /\ sign \in [Services -> {"none", "clear", "set", "closed"}]
    /\ odd \in [Services -> SUBSET {"quit", "early"}]

\* The stop has been told to the manager, which sends no other.
StopIsKnown(s) == status[s] \in {"stop_pending", "stopped"} /\ told[s] \in {"stop_pending", "stopped"}

\* The gateway: a stop finds the service running, and its handler has written
\* and reported STOP_PENDING before the thread learns of the stop, so nobody
\* writes after the thread does.
GatewayEnds(s) ==
    /\ main[s] \notin {"spawn", "workerwrites", "workertells"}
    /\ main[s] \in {"off", "create"} => sign[s] = "none"
    /\ main[s] = "ready" => sign[s] = "clear"
    /\ main[s] \in {"off", "create", "ready"} =>
          handler[s] = "idle" /\ told[s] # "running" /\ status[s] # "running"
    /\ handler[s] \in {"tell", "signal"} => status[s] = "stop_pending"
    /\ handler[s] = "signal" => told[s] = "stop_pending"
    /\ sign[s] \in {"set", "closed"} \/ main[s] \in {"leave", "writestopped", "tellstopped", "done"} =>
          handler[s] = "idle" /\ StopIsKnown(s)
    /\ main[s] = "tellstopped" => status[s] = "stopped"
    /\ main[s] = "done" => ended[s]

\* smset: the handler writes once, so of the two reports of the thread one at
\* least finds what the thread has written.
SmsetEnds(s) ==
    /\ main[s] \notin {"create", "ready", "tellrunning", "wait", "leave"}
    /\ sign[s] \in {"clear", "set"}
    /\ main[s] = "off" => sign[s] = "clear" /\ handler[s] = "idle" /\ told[s] = "stopped"
    /\ handler[s] = "tell" \/ main[s] \in {"workertells", "writestopped", "tellstopped", "done"} =>
          status[s] \in {"stop_pending", "stopped"}
    /\ handler[s] = "signal" => sign[s] = "clear"
    /\ handler[s] \in {"write", "tell"} => sign[s] = "set"
    /\ sign[s] = "set" /\ handler[s] = "idle" => told[s] \in {"stop_pending", "stopped"}
    /\ main[s] \in {"workerwrites", "workertells", "writestopped", "tellstopped", "done"} => sign[s] = "set"
    /\ main[s] = "workertells" /\ handler[s] = "write" => status[s] = "stopped"
    /\ main[s] = "writestopped" /\ handler[s] = "write" => ended[s]
    /\ main[s] = "tellstopped" => ended[s] \/ (status[s] = "stopped" /\ handler[s] # "write")
    /\ main[s] = "done" => ended[s]

Ends(s) == ~Excused(s) => IF s = "gateway" THEN GatewayEnds(s) ELSE SmsetEnds(s)
EndsIInv == TypeOK /\ \A s \in Services : Ends(s)
=============================================================================
