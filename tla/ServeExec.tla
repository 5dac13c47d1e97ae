----------------------------- MODULE ServeExec -----------------------------
(***************************************************************************)
(* `channel exec': the owner thread runs the server; a coordinator waits   *)
(* until it runs, opens the channel, starts the program, starts the signal *)
(* thread and waits for the program, then asks the server to stop.         *)
(* Standard output is the program's: no lifecycle event is written.  The   *)
(* program is external: it runs, may ignore what it is sent, and exits or  *)
(* not as it likes.                                                        *)
(***************************************************************************)
EXTENDS Lifecycle

VARIABLES
    main,       \* the owner thread: where it is, whether it found the stop not
                \* asked for, how often it said so, and the returned status
    command,    \* exec_command_t: where the coordinator is, started, finished,
                \* server_finished and the signal context's stopping
    program     \* the program, its process handle, and whether TERM reached it

vars == <<lifecycle, main, command, program>>

TypeOK ==
    /\ LifecycleTypeOK
    /\ main \in [at: {"create", "run", "alone", "look", "join", "destroy", "end"},
                 alone: BOOLEAN, told: 0 .. 1, status: {"none", "program", "refused"}]
    /\ command \in [at: {"none", "poll", "open", "start", "signals", "wait", "done",
                         "kill", "join", "finish", "stop", "release", "gone"},
                    started: BOOLEAN, finished: BOOLEAN, serverFinished: BOOLEAN,
                    stopping: BOOLEAN]
    /\ program \in [at: {"none", "running", "exited"},
                    handle: {"none", "held", "released"}, term: BOOLEAN]

Init ==
    /\ LifecycleInit
    /\ main = [at |-> "create", alone |-> FALSE, told |-> 0, status |-> "none"]
    /\ command = [at |-> "none", started |-> FALSE, finished |-> FALSE,
                  serverFinished |-> FALSE, stopping |-> FALSE]
    /\ program = [at |-> "none", handle |-> "none", term |-> FALSE]

To(next) == command' = [command EXCEPT !.at = next]

-----------------------------------------------------------------------------
(* The coordinator.                                                        *)
Poll ==
    /\ command.at = "poll"
    /\ \/ IsRunning /\ To("open") /\ UNCHANGED faults
       \/ ~IsRunning /\ command.serverFinished /\ To("done") /\ UNCHANGED faults
       \/ ~IsRunning /\ To("done") /\ Fault("start")
    /\ UNCHANGED <<server, signals, stream, receipts, main, program>>

(* The connector, the channel and the environment of the program.          *)
Open ==
    /\ command.at = "open"
    /\ \/ To("start") /\ UNCHANGED faults
       \/ To("done") /\ Fault("start")
    /\ UNCHANGED <<server, signals, stream, receipts, main, program>>

StartProgram ==
    /\ command.at = "start"
    /\ \/ /\ program' = [program EXCEPT !.at = "running", !.handle = "held"]
          /\ command' = [command EXCEPT !.at = "signals", !.started = TRUE]
          /\ UNCHANGED faults
       \/ To("done") /\ Fault("program") /\ UNCHANGED program
    /\ UNCHANGED <<server, signals, stream, receipts, main>>

(* Without the thread signals are not forwarded, and the launch goes on.   *)
StartSignals ==
    /\ command.at = "signals"
    /\ \/ signals' = [signals EXCEPT !.waiter = "waiting"] /\ UNCHANGED faults
       \/ Fault("thread") /\ UNCHANGED signals
    /\ To("wait")
    /\ UNCHANGED <<server, stream, receipts, main, program>>

(* The handle keeps the process id reserved after the program has exited.  *)
(* A wait that fails is left out.                                          *)
WaitProgram ==
    /\ command.at = "wait"
    /\ program.at = "exited"
    /\ To("done")
    /\ UNCHANGED <<lifecycle, main, program>>

Done ==
    /\ command.at = "done"
    /\ command' = [command EXCEPT !.stopping = TRUE,
                     !.at = IF signals.waiter = "none" THEN "finish" ELSE "kill"]
    /\ UNCHANGED <<lifecycle, main, program>>

(* Mutant: the signal thread is told to end and is not joined.             *)
KillUnjoined ==
    /\ command.at = "kill"
    /\ KillWaiter
    /\ To("finish")
    /\ UNCHANGED <<server, stream, receipts, faults, main, program>>

Kill ==
    /\ command.at = "kill"
    /\ KillWaiter
    /\ To("join")
    /\ UNCHANGED <<server, stream, receipts, faults, main, program>>

JoinSignals ==
    /\ command.at = "join"
    /\ signals.waiter = "gone"
    /\ To("finish")
    /\ UNCHANGED <<lifecycle, main, program>>


(* Said before the stop is asked, so that the owner thread can tell a stop *)
(* it was not asked for from this one.                                     *)
Finish ==
    /\ \/ /\ command.at = "finish"
          /\ command' = [command EXCEPT !.at = "stop", !.finished = TRUE]
          /\ UNCHANGED server
       \/ /\ command.at = "stop"
          /\ server' = [server EXCEPT !.stopping = TRUE]
          /\ To("release")
    /\ UNCHANGED <<signals, stream, receipts, faults, main, program>>

Release ==
    /\ command.at = "release"
    /\ program' = [program EXCEPT !.handle = IF @ = "held" THEN "released" ELSE @]
    /\ To("gone")
    /\ UNCHANGED <<lifecycle, main>>

Coordinator ==
    Poll \/ Open \/ StartProgram \/ StartSignals \/ WaitProgram \/ Done \/ Kill
    \/ JoinSignals \/ Finish \/ Release

-----------------------------------------------------------------------------
(* The signal thread with a program: it ends on the first signal after     *)
(* `stopping', forwards TERM, and reloads on HUP with a diagnostic instead *)
(* of an event.                                                            *)
LeaveOnSignal ==
    /\ command.stopping
    /\ \E s \in Signals : Sigwait(s, "gone")
    /\ UNCHANGED <<server, stream, receipts, faults, main, command, program>>

(* Mutant: TERM is dropped.                                                *)
ForwardDropped ==
    /\ ~command.stopping
    /\ Sigwait("TERM", "waiting")
    /\ UNCHANGED <<server, stream, receipts, faults, main, command, program>>

Forward ==
    /\ ~command.stopping
    /\ Sigwait("TERM", "waiting")
    /\ program' = [program EXCEPT !.term = @ \/ program.at = "running"]
    /\ UNCHANGED <<server, stream, receipts, faults, main, command>>

Reload ==
    /\ \/ ~command.stopping /\ TakeHangup
       \/ Load
       \/ Replace
       \/ /\ signals.waiter \in {"replaced", "refused"}
          /\ signals' = [signals EXCEPT !.waiter = "waiting"]
          /\ UNCHANGED <<server, stream, receipts, faults>>
    /\ UNCHANGED <<main, command, program>>

SignalThread == LeaveOnSignal \/ Forward \/ Reload

ProgramExits ==
    /\ program.at = "running"
    /\ program' = [program EXCEPT !.at = "exited"]
    /\ UNCHANGED <<lifecycle, main, command>>

-----------------------------------------------------------------------------
(* The owner thread.                                                       *)
CreateCoordinator ==
    /\ main.at = "create"
    /\ \/ main' = [main EXCEPT !.at = "run"] /\ To("poll") /\ UNCHANGED faults
       \/ /\ main' = [main EXCEPT !.at = "destroy", !.status = "refused"]
          /\ Fault("thread")
          /\ UNCHANGED command
    /\ UNCHANGED <<server, signals, stream, receipts, program>>

Run == main.at = "run" /\ ServerRun /\ UNCHANGED <<main, command, program>>

Fails == main.at = "run" /\ RunFails /\ UNCHANGED <<main, command, program>>

(* A receipt goes to the audit log alone.                                  *)
Serves == main.at = "run" /\ Receipt(FALSE) /\ UNCHANGED <<main, command, program>>

RunReturned ==
    /\ main.at = "run" /\ server.run \in Returned
    /\ main' = [main EXCEPT !.at = "alone"]
    /\ command' = [command EXCEPT !.serverFinished = TRUE]
    /\ UNCHANGED <<lifecycle, program>>

LookFinished ==
    /\ main.at = "alone"
    /\ main' = [main EXCEPT !.at = "look", !.alone = ~command.finished]
    /\ UNCHANGED <<lifecycle, command, program>>

(* The server stopped while the program was running: said at once if it    *)
(* has started, ...                                                        *)
LookStarted ==
    /\ main.at = "look"
    /\ main' = [main EXCEPT !.at = "join",
                            !.told = IF main.alone /\ command.started THEN 1 ELSE 0]
    /\ UNCHANGED <<lifecycle, command, program>>

(* ... and after the join if it has started since.                         *)
JoinCoordinator ==
    /\ main.at = "join" /\ command.at = "gone"
    /\ main' = [main EXCEPT !.at = "destroy",
                   !.told = IF command.started /\ main.alone /\ @ = 0 THEN @ + 1 ELSE @,
                   !.status = IF command.started THEN "program" ELSE "refused"]
    /\ UNCHANGED <<lifecycle, command, program>>

Destroy ==
    /\ main.at = "destroy"
    /\ ServerDestroy
    /\ main' = [main EXCEPT !.at = "end"]
    /\ UNCHANGED <<signals, stream, receipts, faults, command, program>>

Main == CreateCoordinator \/ Run \/ RunReturned \/ LookFinished \/ LookStarted
        \/ JoinCoordinator \/ Destroy

Arrival == main.at # "end" /\ Raise /\ UNCHANGED <<main, command, program>>

Finished == main.at = "end" /\ UNCHANGED vars

Next == Main \/ Coordinator \/ SignalThread \/ ProgramExits \/ Fails \/ Serves
        \/ Arrival \/ Finished

(* The three threads run; nothing makes the program exit, a signal arrive  *)
(* or a step fail.                                                         *)
Spec == Init /\ [][Next]_vars
             /\ WF_vars(Main) /\ WF_vars(Coordinator) /\ WF_vars(SignalThread)

-----------------------------------------------------------------------------
(* channel_exec.c, reload.c: while the program runs nothing here stops its *)
(* network, however often the launcher is told to end.                     *)
NetworkOutlivesProgram == program.at = "running" => ~server.stopping

(* reload.c: a signal forwarded late reaches the program or nobody; and no *)
(* thread can call a server that was destroyed.                            *)
NoneAfterRelease ==
    /\ program.handle = "released" => signals.waiter \in {"none", "gone"}
    /\ server.destroyed => command.at \in {"none", "gone"}

(* channel_exec.c: the operator is told that the server stopped while the  *)
(* program was running when it stopped by itself, even if the program      *)
(* started only afterwards, and never of a stop that was asked for.        *)
ToldExactly ==
    /\ main.told = 1 => "loop" \in faults
    /\ main.at = "end" /\ command.started /\ main.alone => main.told = 1

(* commands.c: once the program has started the status is the program's,   *)
(* known because it has exited; before, the failure is the command's.      *)
StatusIsProgram ==
    main.at = "end" => /\ main.status = "program" <=> program.handle # "none"
                       /\ main.status = "program" => program.at = "exited"
                       /\ main.status = "refused" => faults # {}

(* The command ends once the program has exited: the signal thread and the *)
(* server are both brought down, whatever signal is pending.               *)
ExitEnds == (program.at = "exited") ~> (main.at = "end")

(* A TERM that reaches the launcher while the signal thread runs reaches   *)
(* the program, unless the program has exited first.                       *)
TermArrives ==
    ("TERM" \in signals.pending /\ signals.waiter # "none")
        ~> (program.term \/ program.at = "exited")
=============================================================================
