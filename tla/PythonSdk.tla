----------------------------- MODULE PythonSdk -----------------------------
(***************************************************************************)
(* EgressProcess of the Python SDK: the caller's thread in start, next_event, *)
(* replace_destinations and close, one reader thread per started daemon, and *)
(* the daemons.  The n-th daemon, its private directory, its secret and its  *)
(* ports are all named n, a policy by the call that asked for it.           *)
(***************************************************************************)
EXTENDS Naturals, Sequences

CONSTANTS
  MaxStarts,     \* bound: calls of start
  MaxLines,      \* bound: lines a daemon writes
  MaxReplaces,   \* bound: calls of replace_destinations
  MaxPending,    \* max_pending_events
  HasCallback,   \* on_event was given
  WritesFail     \* a private file may fail to be written

ASSUME SdkAssumption ==
  /\ MaxStarts \in Nat /\ MaxLines \in Nat /\ MaxReplaces \in Nat
  /\ MaxPending \in Nat \ {0} /\ HasCallback \in BOOLEAN /\ WritesFail \in BOOLEAN

VARIABLES
  pc,               \* of the caller's thread
  closing,          \* close's local `process'
  previous,         \* replace_destinations' local
  process, directory, secret, port, config,
  events, dropped_events, ready_signal, lifecycle_error, stdout_thread,
  reader,           \* the reader threads
  daemon,           \* the daemon started last
  dirs, conf, leftover,   \* directories, egress.conf, and whether egress.conf.new exists
  started, replaced, accepted, taken, late   \* history

object == <<process, directory, secret, port, config>>
queue == <<events, dropped_events, accepted, taken>>
signal == <<ready_signal, lifecycle_error>>
files == <<dirs, conf, leftover>>
locals == <<closing, previous>>
history == <<started, replaced, late>>
vars == <<pc, locals, object, queue, signal, stdout_thread, reader, daemon, files, history>>

Daemons == 1..MaxStarts
NoError == <<"none", 0>>
Event == {"ready", "badready", "note", "fatal"}
Line == Event \cup {"bad"}

Unborn == [id |-> 0, up |-> FALSE, lines |-> 0, ready |-> FALSE,
           hup |-> FALSE, loading |-> <<>>, policy |-> 0, generation |-> 0]

Init ==
  /\ pc = "idle" /\ closing = 0 /\ previous = 0
  /\ process = 0 /\ directory = 0 /\ secret = 0 /\ port = 0 /\ config = 0
  /\ events = <<>> /\ dropped_events = 0 /\ accepted = <<>> /\ taken = 0
  /\ ready_signal = FALSE /\ lifecycle_error = NoError /\ stdout_thread = 0
  /\ reader = [r \in Daemons |-> [pc |-> "none", pipe |-> <<>>, closed |-> FALSE]]
  /\ daemon = Unborn
  /\ dirs = {} /\ conf = 0 /\ leftover = FALSE
  /\ started = 0 /\ replaced = 0 /\ late = FALSE
-----------------------------------------------------------------------------
(* start *)

(* Up to the private files, which are written before the try. *)
StartFiles ==
  /\ pc = "idle" /\ process = 0 /\ started < MaxStarts
  /\ events' = <<>> /\ dropped_events' = 0 /\ accepted' = <<>> /\ taken' = 0
  /\ lifecycle_error' = NoError
  /\ started' = started + 1 /\ directory' = started' /\ secret' = started'
  /\ dirs' = dirs \cup {started'} /\ conf' = config /\ leftover' = FALSE
  /\ late' = FALSE
  /\ pc' = "popen" \/ (WritesFail /\ pc' = "idle")
  /\ UNCHANGED <<locals, process, port, config, ready_signal, stdout_thread, reader, daemon, replaced>>

StartProcess ==
  /\ pc = "popen" /\ process' = started
  /\ daemon' = [Unborn EXCEPT !.id = started, !.up = TRUE, !.policy = conf, !.generation = 1]
  /\ ready_signal' = FALSE /\ lifecycle_error' = NoError
  /\ stdout_thread' = started
  /\ reader' = [reader EXCEPT ![started].pc = "line"]
  /\ pc' = "wait"
  /\ UNCHANGED <<locals, directory, secret, port, config, queue, files, history>>

LeftAlone ==
  /\ pc = "popen" /\ pc' = "idle"
  /\ UNCHANGED <<locals, object, queue, signal, stdout_thread, reader, daemon, files, history>>

StartProcessFails ==
  /\ pc = "popen" /\ pc' = "close"
  /\ UNCHANGED <<locals, object, queue, signal, stdout_thread, reader, daemon, files, history>>

AnyPort == lifecycle_error = NoError /\ daemon.up

(* What start tests once the event is set. *)
Usable == lifecycle_error = NoError /\ daemon.up /\ port # 0

StartReady ==
  /\ pc = "wait" /\ ready_signal
  /\ pc' = IF Usable THEN "idle" ELSE "close"
  /\ UNCHANGED <<locals, object, queue, signal, stdout_thread, reader, daemon, files, history>>

NoDeadline == FALSE /\ UNCHANGED vars

StartTimeout ==
  /\ pc = "wait" /\ ~ready_signal /\ pc' = "close"
  /\ UNCHANGED <<locals, object, queue, signal, stdout_thread, reader, daemon, files, history>>
-----------------------------------------------------------------------------
(* close, called by the program or by a start that failed *)

Close ==
  /\ pc = "idle" /\ (process # 0 \/ directory # 0) /\ pc' = "close"
  /\ UNCHANGED <<locals, object, queue, signal, stdout_thread, reader, daemon, files, history>>

CloseTerminate ==
  /\ pc = "close"
  /\ process' = 0 /\ closing' = process
  /\ pc' = IF process # 0 /\ daemon.up THEN "reap" ELSE "stdout"
  /\ UNCHANGED <<previous, directory, secret, port, config, queue, signal, stdout_thread, reader, daemon, files, history>>

NeverKilled ==
  /\ pc = "reap" /\ pc' = "stdout"
  /\ UNCHANGED <<locals, object, queue, signal, stdout_thread, reader, daemon, files, history>>

(* The wait, or SIGKILL when it has lasted five seconds. *)
CloseReap ==
  /\ pc = "reap" /\ daemon' = [daemon EXCEPT !.up = FALSE] /\ pc' = "stdout"
  /\ UNCHANGED <<locals, object, queue, signal, stdout_thread, reader, files, history>>

CloseStdout ==
  /\ pc = "stdout"
  /\ reader' = IF closing = 0 THEN reader ELSE [reader EXCEPT ![closing].closed = TRUE]
  /\ pc' = "join"
  /\ UNCHANGED <<locals, object, queue, signal, stdout_thread, daemon, files, history>>

NotJoined == TRUE

(* A join gives up after a second, which only a callback keeps a reader for. *)
Joined == stdout_thread # 0 => reader[stdout_thread].pc \in {"done", "callback"}

CloseJoin ==
  /\ pc = "join" /\ Joined
  /\ stdout_thread' = 0 /\ pc' = "clean"
  /\ UNCHANGED <<locals, object, queue, signal, reader, daemon, files, history>>

CloseClean ==
  /\ pc = "clean"
  /\ dirs' = dirs \ {directory} /\ directory' = 0 /\ secret' = 0 /\ port' = 0
  /\ pc' = "idle"
  /\ UNCHANGED <<locals, process, config, queue, signal, stdout_thread, reader, daemon, conf, leftover, history>>
-----------------------------------------------------------------------------
(* _consume_lifecycle *)

Uncounted(event) ==
  IF HasCallback THEN UNCHANGED queue
  ELSE /\ events' = Append(IF Len(events) = MaxPending THEN Tail(events) ELSE events, event)
       /\ accepted' = Append(accepted, event) /\ UNCHANGED <<dropped_events, taken>>

(* _retain: a full deque drops its oldest event. *)
Retain(event) ==
  IF HasCallback THEN UNCHANGED queue
  ELSE /\ events' = Append(IF Len(events) = MaxPending THEN Tail(events) ELSE events, event)
       /\ dropped_events' = dropped_events + (IF Len(events) = MaxPending THEN 1 ELSE 0)
       /\ accepted' = Append(accepted, event) /\ UNCHANGED taken

Raise(r, why) == lifecycle_error' = <<why, r>>

(* Once the event is handled: the callback, or the next line. *)
Then == IF HasCallback THEN "callback" ELSE "line"

(* A line of the contract, in its length and its fields. *)
Valid(line) == line # "bad"

ReadEvent(r) ==
  /\ reader[r].pc = "line" /\ ~reader[r].closed /\ reader[r].pipe # <<>>
  /\ LET line == Head(reader[r].pipe)
         to(where) == reader' = [reader EXCEPT ![r].pipe = Tail(@), ![r].pc = where]
         unready == line = "fatal" /\ ~ready_signal
     IN \/ /\ ~Valid(line) /\ to("signal")
           /\ Raise(r, "bad") /\ UNCHANGED <<queue, port, ready_signal>>
        \/ /\ Valid(line) /\ line = "ready" /\ Retain(line) /\ to(Then)
           /\ port' = r /\ ready_signal' = TRUE /\ UNCHANGED lifecycle_error
        \/ /\ Valid(line) /\ line = "badready" /\ Retain(line) /\ to("signal")
           /\ Raise(r, "bad") /\ UNCHANGED <<port, ready_signal>>
        \/ /\ Valid(line) /\ unready /\ Retain(line) /\ to(Then)
           /\ Raise(r, "fatal") /\ ready_signal' = TRUE /\ UNCHANGED port
        \/ /\ Valid(line) /\ line \notin {"ready", "badready"} /\ ~unready
           /\ Retain(line) /\ to(Then) /\ UNCHANGED <<port, signal>>
  /\ UNCHANGED <<pc, locals, process, directory, secret, config, stdout_thread, daemon, files, history>>

Gone(r) == r < daemon.id \/ ~daemon.up

(* The end of the stream ends the reader without a word. *)
ReadEnd(r) ==
  /\ reader[r].pc = "line" /\ ~reader[r].closed /\ reader[r].pipe = <<>> /\ Gone(r)
  /\ reader' = [reader EXCEPT ![r].pc = "done"]
  /\ UNCHANGED <<pc, locals, object, queue, signal, stdout_thread, daemon, files, history>>

ReadClosed(r) ==
  /\ reader[r].pc = "line" /\ reader[r].closed
  /\ Raise(r, "closed") /\ reader' = [reader EXCEPT ![r].pc = "signal"]
  /\ UNCHANGED <<pc, locals, object, queue, ready_signal, stdout_thread, daemon, files, history>>

(* The handler of an exception sets the error first and the event then. *)
ReadFails(r) ==
  /\ reader[r].pc = "signal"
  /\ ready_signal' = TRUE /\ reader' = [reader EXCEPT ![r].pc = "done"]
  /\ UNCHANGED <<pc, locals, object, queue, lifecycle_error, stdout_thread, daemon, files, history>>

CallbackStops(r) ==
  /\ reader[r].pc = "callback"
  /\ \/ UNCHANGED lifecycle_error /\ reader' = [reader EXCEPT ![r].pc = "line"]
     \/ Raise(r, "callback") /\ reader' = [reader EXCEPT ![r].pc = "signal"]
  /\ UNCHANGED <<pc, locals, object, queue, ready_signal, stdout_thread, daemon, files, history>>

CallbackEnds(r) ==
  /\ reader[r].pc = "callback"
  /\ UNCHANGED lifecycle_error \/ Raise(r, "callback")
  /\ reader' = [reader EXCEPT ![r].pc = "line"]
  /\ UNCHANGED <<pc, locals, object, queue, ready_signal, stdout_thread, daemon, files, history>>

(* next_event, when there is one. *)
NextEvent ==
  /\ pc = "idle" /\ ~HasCallback /\ events # <<>>
  /\ events' = Tail(events) /\ taken' = taken + 1
  /\ UNCHANGED <<pc, locals, object, dropped_events, accepted, signal, stdout_thread, reader, daemon, files, history>>
-----------------------------------------------------------------------------
(* replace_destinations *)

ReplaceBegin ==
  /\ pc = "idle" /\ process # 0 /\ directory # 0 /\ replaced < MaxReplaces
  /\ daemon.up /\ port # 0
  /\ previous' = daemon.generation /\ replaced' = replaced + 1 /\ pc' = "write"
  /\ UNCHANGED <<closing, object, queue, signal, stdout_thread, reader, daemon, files, started, late>>

(* The file beside the configuration, the rename over it, and SIGHUP. *)
ReplaceWrite ==
  /\ pc = "write" /\ ~leftover
  /\ conf' = replaced /\ daemon' = [daemon EXCEPT !.hup = daemon.up] /\ pc' = "poll"
  /\ UNCHANGED <<locals, object, queue, signal, stdout_thread, reader, dirs, leftover, history>>

(* The file is there already, or is left behind by a write that fails. *)
ReplaceWriteFails ==
  /\ pc = "write" /\ (leftover \/ WritesFail)
  /\ leftover' = TRUE /\ pc' = "idle"
  /\ UNCHANGED <<locals, object, queue, signal, stdout_thread, reader, daemon, dirs, conf, history>>

NotBehind == daemon.generation >= previous

Advanced == daemon.generation > previous

ReplaceDone ==
  /\ pc = "poll" /\ daemon.up /\ Advanced
  /\ config' = replaced /\ pc' = "idle"
  /\ UNCHANGED <<locals, process, directory, secret, port, queue, signal, stdout_thread, reader, daemon, files, history>>

(* The deadline, or a daemon that no longer answers. *)
ReplaceGivesUp ==
  /\ pc = "poll" /\ ~(daemon.up /\ Advanced)
  /\ late' = TRUE /\ pc' = "idle"
  /\ UNCHANGED <<locals, object, queue, signal, stdout_thread, reader, daemon, files, started, replaced>>
-----------------------------------------------------------------------------
(* The daemon, as the SDK sees it. *)

(* `ready' comes once; a line that breaks the contract is possible. *)
DaemonWrite(line) ==
  /\ daemon.up /\ daemon.lines < MaxLines
  /\ line \in {"ready", "badready"} => ~daemon.ready
  /\ daemon' = [daemon EXCEPT !.lines = @ + 1, !.up = line # "fatal",
                              !.ready = @ \/ line \in {"ready", "badready"}]
  /\ reader' = [reader EXCEPT ![daemon.id].pipe = Append(@, line)]
  /\ UNCHANGED <<pc, locals, object, queue, signal, stdout_thread, files, history>>

DaemonExit ==
  /\ daemon.up /\ daemon' = [daemon EXCEPT !.up = FALSE]
  /\ UNCHANGED <<pc, locals, object, queue, signal, stdout_thread, reader, files, history>>

(* One reload of the signal thread: the file is read, and then the policy is *)
(* replaced or the file refused.                                            *)
DaemonLoad ==
  /\ daemon.up /\ daemon.hup /\ daemon.loading = <<>>
  /\ daemon' = [daemon EXCEPT !.hup = FALSE, !.loading = <<conf>>]
  /\ UNCHANGED <<pc, locals, object, queue, signal, stdout_thread, reader, files, history>>

DaemonReload ==
  /\ daemon.up /\ daemon.loading # <<>>
  /\ \/ daemon' = [daemon EXCEPT !.loading = <<>>, !.policy = daemon.loading[1], !.generation = @ + 1]
     \/ daemon' = [daemon EXCEPT !.loading = <<>>]
  /\ UNCHANGED <<pc, locals, object, queue, signal, stdout_thread, reader, files, history>>
-----------------------------------------------------------------------------
CallerStep ==
  \/ StartProcess \/ StartProcessFails \/ StartReady \/ StartTimeout
  \/ CloseTerminate \/ CloseReap \/ CloseStdout \/ CloseJoin \/ CloseClean
  \/ ReplaceWrite \/ ReplaceWriteFails \/ ReplaceDone \/ ReplaceGivesUp

ReaderStep(r) == ReadEvent(r) \/ ReadEnd(r) \/ ReadClosed(r) \/ ReadFails(r)

DaemonStep == (\E line \in Line : DaemonWrite(line)) \/ DaemonExit \/ DaemonLoad \/ DaemonReload

Next ==
  \/ StartFiles \/ Close \/ NextEvent \/ ReplaceBegin
  \/ CallerStep
  \/ \E r \in Daemons : ReaderStep(r) \/ CallbackEnds(r)
  \/ DaemonStep

Spec == Init /\ [][Next]_vars

(* The two threads run; nothing is asked of the daemon or of a callback. *)
FairSpec == Spec /\ WF_vars(CallerStep) /\ \A r \in Daemons : WF_vars(ReaderStep(r))

-----------------------------------------------------------------------------
TypeOK ==
  /\ pc \in {"idle", "popen", "wait", "close", "reap", "stdout", "join", "clean", "write", "poll"}
  /\ {process, directory, secret, port, closing, stdout_thread, started, daemon.id} \subseteq 0..MaxStarts
  /\ {config, conf, replaced, daemon.policy} \subseteq 0..MaxReplaces
  /\ previous \in Nat /\ events \in Seq(Event) /\ dropped_events \in Nat
  /\ ready_signal \in BOOLEAN /\ lifecycle_error[2] \in 0..MaxStarts
  /\ \A r \in Daemons : reader[r].pipe \in Seq(Line) /\ reader[r].closed \in BOOLEAN
  /\ dirs \subseteq Daemons /\ leftover \in BOOLEAN /\ late \in BOOLEAN

(* proxy_url and the admin requests of a started object name the daemon that *)
(* it owns, never an earlier one whose reader is still running.             *)
PortsOfThisDaemon ==
  pc = "idle" =>
    /\ process # 0 => port = process /\ secret = process
    /\ port # 0 => port = process

(* Between calls a running daemon is the one the object owns: a start that   *)
(* fails, and a close, leave none behind.                                   *)
DaemonOwned == pc = "idle" /\ daemon.up => process = daemon.id

(* Between calls the only private directory is that of the started daemon.   *)
PrivateFilesRemoved == pc = "idle" => dirs = {process} \ {0}

(* The error start looks at is one of the daemon it has started.             *)
ErrorOfThisDaemon == pc = "wait" => lifecycle_error = NoError \/ lifecycle_error[2] = started

(* The retained events are the newest ones, in order, and every event that   *)
(* was accepted was taken, is retained, or is counted as dropped.           *)
DropsCounted ==
  /\ Len(events) <= MaxPending
  /\ Len(accepted) = taken + dropped_events + Len(events)
  /\ events = SubSeq(accepted, Len(accepted) - Len(events) + 1, Len(accepted))

(* A replacement that has returned is the policy the daemon applies, as long *)
(* as none before it was given up: generation and policy go together.       *)
ReplacedIsActive == pc = "idle" /\ process # 0 /\ daemon.up /\ ~late => daemon.policy = config

(* start, close and replace_destinations return: no daemon, silent, hung or  *)
(* dead, keeps the caller.                                                  *)
CallsReturn == [](pc # "idle" => <>(pc = "idle"))

(* The reader goes on draining the daemon's output, whatever its callback    *)
(* raises, until the contract is broken or the object is closed.            *)
Drained ==
  \A r \in Daemons : []<>(reader[r].pipe = <<>> \/ reader[r].closed \/ lifecycle_error[1] = "bad")
=============================================================================
