----------------------------- MODULE ServeProxy -----------------------------
(***************************************************************************)
(* `serve': one thread owns the server and runs it, a second waits for     *)
(* signals.  The owner starts the waiter, writes `ready', runs the server, *)
(* ends and joins the waiter, and only then destroys the server.           *)
(***************************************************************************)
EXTENDS Lifecycle

VARIABLES
    main,           \* the owner thread, in egress_cli_run
    status          \* what egress_cli_run returned

vars == <<lifecycle, main, status>>

TypeOK ==
    /\ LifecycleTypeOK
    /\ main \in {"create", "ready", "run", "join", "report", "destroy", "last",
                 "end"}
    /\ status \in {"none", "stopped", "fatal", "refused"}

Init == LifecycleInit /\ main = "create" /\ status = "none"

(* pthread_create of the signal thread.  If it fails the server is         *)
(* destroyed and nothing was started.                                      *)
CreateWaiter ==
    /\ main = "create"
    /\ signals' = [signals EXCEPT !.waiter = "waiting"]
    /\ main' = "ready"
    /\ UNCHANGED <<server, stream, receipts, faults, status>>

CreateFails ==
    /\ main = "create"
    /\ Fault("thread")
    /\ ServerDestroy
    /\ main' = "end"
    /\ status' = "refused"
    /\ UNCHANGED <<signals, stream, receipts>>

Ready ==
    /\ main = "ready"
    /\ Emit("ready")
    /\ main' = "run"
    /\ UNCHANGED <<server, signals, receipts, faults, status>>

Run == main = "run" /\ ServerRun /\ UNCHANGED <<main, status>>

Serves == main = "run" /\ (RunFails \/ Receipt(TRUE)) /\ UNCHANGED <<main, status>>

(* Mutant: the waiter is told to end and is not joined.                    *)
KillUnjoined ==
    /\ main = "run" /\ server.run \in Returned
    /\ KillWaiter
    /\ main' = "report"
    /\ UNCHANGED <<server, stream, receipts, faults, status>>

(* server_run has returned: the signal thread is told to end, and joined.  *)
Kill ==
    /\ main = "run" /\ server.run \in Returned
    /\ KillWaiter
    /\ main' = "join"
    /\ UNCHANGED <<server, stream, receipts, faults, status>>

Join ==
    /\ main = "join"
    /\ signals.waiter = "gone"
    /\ main' = "report"
    /\ UNCHANGED <<lifecycle, status>>

ReportEnd ==
    /\ main = "report"
    /\ Emit(IF server.run = "ok" THEN "stopping" ELSE "fatal")
    /\ main' = "destroy"
    /\ UNCHANGED <<server, signals, receipts, faults, status>>

Destroy ==
    /\ main = "destroy"
    /\ ServerDestroy
    /\ main' = "last"
    /\ UNCHANGED <<signals, stream, receipts, faults, status>>

Last ==
    /\ main = "last"
    /\ IF server.run = "ok" THEN Emit("stopped") ELSE UNCHANGED stream
    /\ status' = IF server.run = "ok" THEN "stopped" ELSE "fatal"
    /\ main' = "end"
    /\ UNCHANGED <<server, signals, receipts, faults>>

Main == CreateWaiter \/ Ready \/ Run \/ Kill \/ Join \/ ReportEnd \/ Destroy
        \/ Last

Others == main # "end" /\ (Waiter \/ Raise) /\ UNCHANGED <<main, status>>

Finished == main = "end" /\ UNCHANGED vars

Next == Main \/ CreateFails \/ Serves \/ Others \/ Finished

(* Both threads run; nothing makes a signal arrive, a step fail or a       *)
(* connection close.                                                       *)
Spec == Init /\ [][Next]_vars /\ WF_vars(Main)
             /\ WF_vars(Waiter /\ UNCHANGED <<main, status>>)

-----------------------------------------------------------------------------
(* The join in serve.c: once the server is destroyed no other thread can   *)
(* still call it, whatever reload was under way when the run ended.        *)
NoneAfterDestroy == server.destroyed => signals.waiter \in {"none", "gone"}

(* cli.h: 0 when the daemon stopped cleanly, 1 when it reported a fatal    *)
(* event, -1 when nothing was started; the stream and the status agree.    *)
StatusMatchesStream ==
    main = "end" =>
        CASE status = "refused" -> stream = <<>>
          [] status = "fatal" -> stream[Len(stream)] = "fatal"
          [] status = "stopped" -> server.run = "ok" /\ stream[Len(stream)] = "stopped"

(* A signal to stop that arrives at any moment, during a reload too, and a *)
(* reactor that fails, both end the command.                               *)
StopEnds == ("TERM" \in signals.pending \/ faults # {}) ~> (main = "end")
=============================================================================
