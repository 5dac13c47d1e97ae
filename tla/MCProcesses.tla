----------------------------- MODULE MCProcesses -----------------------------
(***************************************************************************)
(* Whole processes on small instances: two that come and go at one Unix    *)
(* path (Endpoint), and the threads of the three long-running commands     *)
(* (ServeProxy, ServeBroker, ServeExec).  A behaviour is one of a single   *)
(* part, named by part; the variables of the others do not change.         *)
(***************************************************************************)
EXTENDS Endpoint

VARIABLES
  part,
  server, signals, stream, receipts, faults,   \* Lifecycle
  serveMain, status,                           \* ServeProxy
  brokerMain, brokerCommand, gate, broker,     \* ServeBroker
  execMain, execCommand, program               \* ServeExec

Proxy == INSTANCE ServeProxy WITH MaxSignals <- 2, MaxReceipts <- 2, main <- serveMain
Channels == INSTANCE ServeBroker WITH
  MaxSignals <- 2, MaxReceipts <- 1, main <- brokerMain, command <- brokerCommand
Exec == INSTANCE ServeExec WITH
  MaxSignals <- 2, MaxReceipts <- 1, main <- execMain, command <- execCommand

lifecycle == <<server, signals, stream, receipts, faults>>
serveVars == <<serveMain, status>>
brokerVars == <<brokerMain, brokerCommand, gate, broker>>
execVars == <<execMain, execCommand, program>>
processVars == <<part, vars, lifecycle, serveVars, brokerVars, execVars>>
-----------------------------------------------------------------------------
ProcessInit ==
  /\ part \in {"path", "serve", "broker", "exec"}
  /\ Init /\ Proxy!Init /\ Channels!Init /\ Exec!Init

ProcessNext ==
  /\ UNCHANGED part
  /\ \/ part = "path" /\ Next /\ UNCHANGED <<lifecycle, serveVars, brokerVars, execVars>>
     \/ part = "serve" /\ Proxy!Next /\ UNCHANGED <<vars, brokerVars, execVars>>
     \/ part = "broker" /\ Channels!Next /\ UNCHANGED <<vars, serveVars, execVars>>
     \/ part = "exec" /\ Exec!Next /\ UNCHANGED <<vars, serveVars, brokerVars>>

(* The commands stop only at their end, processes may stay away for good.    *)
Rest == part = "path" /\ UNCHANGED processVars

(* The fairness of ServeProxy!Spec, ServeBroker!Spec and ServeExec!Spec.     *)
ProcessFairness ==
  LET serves == <<lifecycle, serveVars>>
      brokers == <<lifecycle, brokerVars>>
      execs == <<lifecycle, execVars>>
  IN  /\ WF_serves(part = "serve" /\ Proxy!Main)
      /\ WF_serves(part = "serve" /\ Proxy!Waiter /\ UNCHANGED serveVars)
      /\ WF_brokers(part = "broker" /\ Channels!Main)
      /\ WF_brokers(part = "broker" /\ Channels!Coordinator)
      /\ WF_brokers(part = "broker" /\ Channels!SignalThread)
      /\ WF_brokers(part = "broker" /\ Channels!BrokerStops)
      /\ WF_execs(part = "exec" /\ Exec!Main)
      /\ WF_execs(part = "exec" /\ Exec!Coordinator)
      /\ WF_execs(part = "exec" /\ Exec!SignalThread)

ProcessSpec == ProcessInit /\ [][ProcessNext \/ Rest]_processVars /\ ProcessFairness
-----------------------------------------------------------------------------
(* Properties, next to those of Endpoint. *)


(* No thread outlives what it uses: none can call a server that was          *)
(* destroyed, a signal forwarded late reaches the program or nobody, and the *)
(* program never outlives its network.                                       *)
JoinsHold ==
  /\ part = "serve" => Proxy!NoneAfterDestroy
  /\ part = "broker" => Channels!NoneAfterDestroy
  /\ part = "exec" => Exec!NoneAfterRelease /\ Exec!NetworkOutlivesProgram

(* A signal to stop that arrives at any moment, during a reload or before    *)
(* `ready' too, and any failure, end serve and channel broker; channel exec  *)
(* ends once its program has exited, whatever is pending, and a TERM reaches *)
(* the program unless it has exited first.                                   *)
CommandsEnd ==
  /\ part = "serve" => Proxy!StopEnds
  /\ part = "broker" => Channels!StopEnds
  /\ part = "exec" => Exec!ExitEnds /\ Exec!TermArrives
=============================================================================
