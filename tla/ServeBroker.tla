---------------------------- MODULE ServeBroker ----------------------------
(***************************************************************************)
(* `channel broker': the owner thread runs the server; a coordinator waits *)
(* until it runs, creates the broker, writes `ready', starts the signal    *)
(* thread and watches server and broker until one of them has stopped.     *)
(* Receipts come from the owner thread and wait at the output gate until   *)
(* `ready' is out.                                                         *)
(***************************************************************************)
EXTENDS Lifecycle, Integers

VARIABLES
    main,       \* the owner thread: where it is, whether it is in the receipt
                \* sink, and the status of the command
    command,    \* broker_command_t: where the coordinator is, server_finished,
                \* ready and result
    gate,       \* the output gate: 0 closed, 1 open, -1 suppressed
    broker      \* the channel broker

vars == <<lifecycle, main, command, gate, broker>>

TypeOK ==
    /\ LifecycleTypeOK
    /\ main \in [at: {"create", "run", "join", "destroy", "last", "end"},
                 sink: BOOLEAN, status: {"none", "stopped", "fatal", "refused"}]
    /\ command \in [at: {"none", "poll", "create", "ready", "gate", "signals",
                         "watch", "look", "recheck", "done", "stop", "kill",
                         "join", "destroy", "gone"},
                    finished: BOOLEAN, ready: BOOLEAN, result: {"ok", "error"}]
    /\ gate \in {-1, 0, 1}
    /\ broker \in {"none", "running", "stopped", "destroyed"}

Init ==
    /\ LifecycleInit
    /\ main = [at |-> "create", sink |-> FALSE, status |-> "none"]
    /\ command = [at |-> "none", finished |-> FALSE, ready |-> FALSE,
                  result |-> "error"]
    /\ gate = 0
    /\ broker = "none"

To(next) == command' = [command EXCEPT !.at = next]

ServerUp == ~command.finished /\ IsRunning

-----------------------------------------------------------------------------
(* The coordinator waits for the server to run; the server may have        *)
(* finished instead, or five seconds may have passed.                      *)
Poll ==
    /\ command.at = "poll"
    /\ \/ IsRunning /\ To("create") /\ UNCHANGED faults
       \/ ~IsRunning /\ command.finished /\ To("done") /\ UNCHANGED faults
       \/ ~IsRunning /\ To("done") /\ Fault("start")
    /\ UNCHANGED <<server, signals, stream, receipts, main, gate, broker>>

(* The connector and the broker: both refuse a server that is not running. *)
CreateBroker ==
    /\ command.at = "create"
    /\ \/ /\ IsRunning
          /\ command' = [command EXCEPT !.at = "ready", !.result = "ok"]
          /\ broker' = "running"
          /\ UNCHANGED faults
       \/ ~IsRunning /\ To("done") /\ UNCHANGED <<faults, broker>>
       \/ To("done") /\ Fault("broker") /\ UNCHANGED broker
    /\ UNCHANGED <<server, signals, stream, receipts, main, gate>>

Ready ==
    /\ command.at = "ready"
    /\ Emit("ready")
    /\ command' = [command EXCEPT !.at = "gate", !.ready = TRUE]
    /\ UNCHANGED <<server, signals, receipts, faults, main, gate, broker>>

Gate ==
    /\ command.at = "gate"
    /\ gate' = 1
    /\ To("signals")
    /\ UNCHANGED <<lifecycle, main, broker>>

StartSignals ==
    /\ command.at = "signals"
    /\ \/ /\ signals' = [signals EXCEPT !.waiter = "waiting"]
          /\ To("watch")
          /\ UNCHANGED faults
       \/ /\ command' = [command EXCEPT !.at = "done", !.result = "error"]
          /\ Fault("thread")
          /\ UNCHANGED signals
    /\ UNCHANGED <<server, stream, receipts, main, gate, broker>>

(* It looks at the server, then at the broker, then at the server again:   *)
(* a broker stopped by the server is not an independent failure.           *)
Watch ==
    /\ \/ command.at = "watch" /\ To(IF ServerUp THEN "look" ELSE "done")
       \/ command.at = "look" /\ To(IF broker = "running" THEN "watch" ELSE "recheck")
       \/ /\ command.at = "recheck"
          /\ command' = [command EXCEPT !.at = "done",
                                        !.result = IF ServerUp THEN "error" ELSE @]
    /\ UNCHANGED <<lifecycle, main, gate, broker>>

Done ==
    /\ command.at = "done"
    /\ gate' = IF command.ready THEN gate ELSE -1
    /\ To("stop")
    /\ UNCHANGED <<lifecycle, main, broker>>

Stop ==
    /\ command.at = "stop"
    /\ server' = [server EXCEPT !.stopping = TRUE]
    /\ To(IF signals.waiter = "none" THEN "destroy" ELSE "kill")
    /\ UNCHANGED <<signals, stream, receipts, faults, main, gate, broker>>

Kill ==
    /\ command.at = "kill"
    /\ KillWaiter
    /\ To("join")
    /\ UNCHANGED <<server, stream, receipts, faults, main, gate, broker>>

JoinSignals ==
    /\ command.at = "join"
    /\ signals.waiter = "gone"
    /\ To("destroy")
    /\ UNCHANGED <<lifecycle, main, gate, broker>>

(* channel_broker_destroy joins the broker's own thread and removes its    *)
(* path; a path that is not its own any more is an error.                  *)
DestroyBroker ==
    /\ command.at = "destroy"
    /\ broker' = IF broker = "none" THEN broker ELSE "destroyed"
    /\ \/ To("gone") /\ UNCHANGED faults
       \/ /\ broker # "none"
          /\ command' = [command EXCEPT !.at = "gone", !.result = "error"]
          /\ Fault("broker")
    /\ UNCHANGED <<server, signals, stream, receipts, main, gate>>

Coordinator ==
    Poll \/ CreateBroker \/ Ready \/ Gate \/ StartSignals \/ Watch \/ Done \/ Stop
    \/ Kill \/ JoinSignals \/ DestroyBroker

-----------------------------------------------------------------------------
(* The broker's thread ends when it finds its server not running, or fails *)
(* by itself.                                                              *)
BrokerStops ==
    /\ broker = "running" /\ ~IsRunning
    /\ broker' = "stopped"
    /\ UNCHANGED <<lifecycle, main, command, gate>>

BrokerFails ==
    /\ broker = "running"
    /\ broker' = "stopped"
    /\ Fault("broker")
    /\ UNCHANGED <<server, signals, stream, receipts, main, command, gate>>

-----------------------------------------------------------------------------
(* The owner thread.                                                       *)
CreateCoordinator ==
    /\ main.at = "create"
    /\ main' = [main EXCEPT !.at = "run"]
    /\ To("poll")
    /\ UNCHANGED <<lifecycle, gate, broker>>

CreateFails ==
    /\ main.at = "create"
    /\ gate' = -1
    /\ Fault("thread")
    /\ main' = [main EXCEPT !.at = "destroy", !.status = "refused"]
    /\ UNCHANGED <<server, signals, stream, receipts, command, broker>>

Run == main.at = "run" /\ ~main.sink /\ ServerRun /\ UNCHANGED <<main, command, gate, broker>>

Fails == main.at = "run" /\ ~main.sink /\ RunFails /\ UNCHANGED <<main, command, gate, broker>>

(* A connection of the broker's clients closes: its receipt waits in the   *)
(* sink for the gate and is written, or dropped.                           *)
SinkEnters ==
    /\ broker # "none"
    /\ server.run \in InLoop /\ receipts < MaxReceipts
    /\ ~main.sink /\ main' = [main EXCEPT !.sink = TRUE]
    /\ UNCHANGED <<lifecycle, command, gate, broker>>

SinkReturns ==
    /\ main.sink /\ main' = [main EXCEPT !.sink = FALSE]
    /\ gate # 0
    /\ Receipt(gate = 1)
    /\ UNCHANGED <<command, gate, broker>>

RunReturned ==
    /\ main.at = "run" /\ server.run \in Returned
    /\ main' = [main EXCEPT !.at = "join"]
    /\ command' = [command EXCEPT !.finished = TRUE]
    /\ UNCHANGED <<lifecycle, gate, broker>>

Outcome ==
    IF ~command.ready THEN "refused"
    ELSE IF command.result = "ok" /\ server.run = "ok" THEN "stopped" ELSE "fatal"

JoinCoordinator ==
    /\ main.at = "join" /\ command.at = "gone"
    /\ main' = [main EXCEPT !.at = "destroy", !.status = Outcome]
    /\ CASE Outcome = "refused" -> UNCHANGED stream
         [] Outcome = "stopped" -> Emit("stopping")
         [] Outcome = "fatal" -> Emit("fatal")
    /\ UNCHANGED <<server, signals, receipts, faults, command, gate, broker>>

Destroy ==
    /\ main.at = "destroy"
    /\ ServerDestroy
    /\ main' = [main EXCEPT !.at = "last"]
    /\ UNCHANGED <<signals, stream, receipts, faults, command, gate, broker>>

Last ==
    /\ main.at = "last"
    /\ IF main.status = "stopped" THEN Emit("stopped") ELSE UNCHANGED stream
    /\ main' = [main EXCEPT !.at = "end"]
    /\ UNCHANGED <<server, signals, receipts, faults, command, gate, broker>>

Main == CreateCoordinator \/ Run \/ SinkReturns \/ RunReturned \/ JoinCoordinator
        \/ Destroy \/ Last

SignalThread == Waiter /\ UNCHANGED <<main, command, gate, broker>>

Arrival == main.at # "end" /\ Raise /\ UNCHANGED <<main, command, gate, broker>>

Finished == main.at = "end" /\ UNCHANGED vars

Next == Main \/ Coordinator \/ SignalThread \/ BrokerStops \/ CreateFails \/ Fails
        \/ SinkEnters \/ BrokerFails \/ Arrival \/ Finished

(* The three threads and the broker's run; nothing makes a signal arrive,  *)
(* a step fail or a connection close.                                      *)
Spec == Init /\ [][Next]_vars /\ WF_vars(Main) /\ WF_vars(Coordinator)
             /\ WF_vars(SignalThread) /\ WF_vars(BrokerStops)

-----------------------------------------------------------------------------
(* The joins in channel_broker.c: once the server is destroyed neither the *)
(* signal thread, the coordinator nor the broker can still call it.        *)
NoneAfterDestroy ==
    server.destroyed => /\ signals.waiter \in {"none", "gone"}
                        /\ command.at \in {"none", "gone"}
                        /\ broker \in {"none", "destroyed"}

(* cli.h: 0 when the daemon stopped cleanly, 1 when it reported a fatal    *)
(* event, -1 and no event at all when nothing was started.  A clean stop   *)
(* is one of the server too.                                               *)
StatusMatchesStream ==
    main.at = "end" =>
        CASE main.status = "refused" -> stream = <<>>
          [] main.status = "fatal" -> stream[Len(stream)] = "fatal"
          [] main.status = "stopped" -> /\ server.run = "ok"
                                        /\ stream[Len(stream)] = "stopped"

(* A signal to stop that arrives at any moment, before `ready' too, and    *)
(* any failure, end the command: no thread is left waiting for another, at *)
(* the gate or at a join.                                                  *)
StopEnds == ("TERM" \in signals.pending \/ faults # {}) ~> (main.at = "end")
=============================================================================
