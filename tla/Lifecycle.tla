----------------------------- MODULE Lifecycle -----------------------------
(***************************************************************************)
(* What the three long-running commands of the command line share: the     *)
(* server handle as the other threads see it, server_run on the thread     *)
(* that owns it, the thread that waits for signals, and the stream of      *)
(* lifecycle events on standard output.  ServeProxy, ServeBroker and       *)
(* ServeExec extend this module with the threads of their command.         *)
(*                                                                         *)
(* The text of an event is left out, and so is its allocation: an event is *)
(* its kind.  SIGINT is treated as SIGTERM everywhere, so one signal TERM  *)
(* stands for both.  Signals are blocked in every thread and are pending   *)
(* at most once each, which is what a set models.                          *)
(***************************************************************************)
EXTENDS Naturals, Sequences

CONSTANTS
    MaxSignals,     \* how often each signal is sent to the process
    MaxReceipts     \* how many receipts the server emits

VARIABLES
    server,     \* its flags, and where server_run is or what it returned
    signals,    \* the signal thread, what is pending for the process and for
                \* the thread, and how many of each were sent
    stream,     \* the lifecycle events written so far
    receipts,   \* how many receipts the server has emitted
    faults      \* what has really gone wrong so far

lifecycle == <<server, signals, stream, receipts, faults>>

Signals == {"TERM", "HUP"}
Events == {"ready", "receipt", "reloaded", "rejected", "fatal", "stopping",
           "stopped"}
Returned == {"ok", "state", "io"}
InLoop == {"loop", "closing", "failing"}

LifecycleTypeOK ==
    /\ server \in [stopping: BOOLEAN, running: BOOLEAN, destroyed: BOOLEAN,
                   run: {"before", "checked"} \cup InLoop \cup Returned]
    /\ signals \in [waiter: {"none", "waiting", "loading", "built", "replaced",
                             "refused", "gone"},
                    pending: SUBSET Signals, directed: BOOLEAN,
                    sent: [Signals -> 0 .. MaxSignals]]
    /\ stream \in Seq(Events)
    /\ receipts \in 0 .. MaxReceipts
    /\ faults \subseteq {"loop", "thread", "broker", "start", "program"}
    /\ server.running = (server.run \in InLoop)

LifecycleInit ==
    /\ server = [stopping |-> FALSE, running |-> FALSE, destroyed |-> FALSE,
                 run |-> "before"]
    /\ signals = [waiter |-> "none", pending |-> {}, directed |-> FALSE,
                  sent |-> [s \in Signals |-> 0]]
    /\ stream = <<>>
    /\ receipts = 0
    /\ faults = {}

(* maelys_egress_server_is_running. *)
IsRunning == server.running /\ ~server.stopping

(* event_end: one whole line, under the output mutex. *)
Emit(event) == stream' = Append(stream, event)

Fault(f) == faults' = faults \cup {f}

-----------------------------------------------------------------------------
(* The process is sent a signal.                                           *)
Raise ==
    /\ \E s \in Signals :
          /\ signals.sent[s] < MaxSignals
          /\ signals' = [signals EXCEPT !.sent[s] = @ + 1, !.pending = @ \cup {s}]
    /\ UNCHANGED <<server, stream, receipts, faults>>

(* sigwait takes a signal pending for the process, or for the thread, and  *)
(* the thread goes on to `next'.                                           *)
Sigwait(s, next) ==
    /\ signals.waiter = "waiting"
    /\ \/ /\ s \in signals.pending
          /\ signals' = [signals EXCEPT !.pending = @ \ {s}, !.waiter = next]
       \/ /\ s = "TERM" /\ signals.directed
          /\ signals' = [signals EXCEPT !.directed = FALSE, !.waiter = next]

(* Without a program to forward it to, TERM stops the server and ends the  *)
(* thread.                                                                 *)
TakeTerm ==
    /\ Sigwait("TERM", "gone")
    /\ server' = [server EXCEPT !.stopping = TRUE]
    /\ UNCHANGED <<stream, receipts, faults>>

(* HUP starts a reload.                                                    *)
TakeHangup == Sigwait("HUP", "loading") /\ UNCHANGED <<server, stream, receipts, faults>>

(* The file is read, everything but the destinations must be as it was,    *)
(* and a new policy is built and sealed.  Any of these may refuse.         *)
Load ==
    /\ signals.waiter = "loading"
    /\ \E outcome \in {"built", "refused"} :
          signals' = [signals EXCEPT !.waiter = outcome]
    /\ UNCHANGED <<server, stream, receipts, faults>>

(* server_replace_policy refuses a stopping server.                        *)
Replace ==
    /\ signals.waiter = "built"
    /\ signals' = [signals EXCEPT
                      !.waiter = IF server.stopping THEN "refused" ELSE "replaced"]
    /\ UNCHANGED <<server, stream, receipts, faults>>

Report ==
    /\ signals.waiter \in {"replaced", "refused"}
    /\ Emit(IF signals.waiter = "replaced" THEN "reloaded" ELSE "rejected")
    /\ signals' = [signals EXCEPT !.waiter = "waiting"]
    /\ UNCHANGED <<server, receipts, faults>>

Waiter == TakeTerm \/ TakeHangup \/ Load \/ Replace \/ Report

(* pthread_kill of the signal thread, which may have ended already.        *)
KillWaiter == signals' = [signals EXCEPT !.directed = signals.waiter # "gone"]

-----------------------------------------------------------------------------
(* maelys_egress_server_run on the owner thread, as far as the other       *)
(* threads can tell: it refuses a server that was stopped before, then     *)
(* loops until it is told to stop or a step of the reactor fails, closes   *)
(* every connection and clears `running'.                                  *)
RunCheck ==
    /\ server.run = "before"
    /\ server' = [server EXCEPT !.run = IF server.stopping THEN "state" ELSE "checked"]
    /\ UNCHANGED <<signals, stream, receipts, faults>>

RunStarts ==
    /\ server.run = "checked"
    /\ server' = [server EXCEPT !.running = TRUE, !.run = "loop"]
    /\ UNCHANGED <<signals, stream, receipts, faults>>

RunStops ==
    /\ server.run = "loop"
    /\ server.stopping
    /\ server' = [server EXCEPT !.run = "closing"]
    /\ UNCHANGED <<signals, stream, receipts, faults>>

RunFails ==
    /\ server.run = "loop"
    /\ server' = [server EXCEPT !.run = "failing"]
    /\ Fault("loop")
    /\ UNCHANGED <<signals, stream, receipts>>

RunReturns ==
    /\ server.run \in {"closing", "failing"}
    /\ server' = [server EXCEPT !.running = FALSE,
                                !.run = IF server.run = "closing" THEN "ok" ELSE "io"]
    /\ UNCHANGED <<signals, stream, receipts, faults>>

(* A connection closes, while the loop runs or after it, and its receipt   *)
(* reaches the sink.                                                       *)
Receipt(shown) ==
    /\ server.run \in InLoop
    /\ receipts < MaxReceipts
    /\ receipts' = receipts + 1
    /\ IF shown THEN Emit("receipt") ELSE UNCHANGED stream
    /\ UNCHANGED <<server, signals, faults>>

ServerRun == RunCheck \/ RunStarts \/ RunStops \/ RunReturns

ServerDestroy == server' = [server EXCEPT !.stopping = TRUE, !.destroyed = TRUE]

-----------------------------------------------------------------------------
(* README: the first event on standard output is `ready'; receipts and     *)
(* reload state follow.                                                    *)
ReadyFirst == stream # <<>> => Head(stream) = "ready"

(* output.c and serve.c: a receipt never precedes `ready', nothing but     *)
(* `stopped' follows `stopping', and nothing follows `stopped' or `fatal'. *)
StreamOrdered ==
    \A j \in DOMAIN stream :
        /\ stream[j] = "receipt" => \E i \in 1 .. j - 1 : stream[i] = "ready"
        /\ \A i \in 1 .. j - 1 :
              /\ stream[i] \notin {"fatal", "stopped"}
              /\ stream[i] = "stopping" => stream[j] = "stopped"

(* The commands end with `fatal' only when something failed: being told to *)
(* stop, at whatever moment, is not a failure.                             *)
FatalMeansFailure ==
    (\E i \in DOMAIN stream : stream[i] = "fatal") => faults # {}
=============================================================================
