------------------------------ MODULE Endpoint ------------------------------
(***************************************************************************)
(* Creating and destroying servers (server.c, listener.c): what each stage  *)
(* of server_create acquires, what destroy gives back whichever stage        *)
(* failed, and the path of a Unix listener, shared by servers of several     *)
(* processes that start, fail, crash and stop around each other.  One step   *)
(* is one system call on the path or one acquisition.                        *)
(***************************************************************************)
EXTENDS Naturals, FiniteSets

CONSTANTS
  Processes,     \* each has one server at a time, all on the same path
  MaxAttempts    \* bound: servers a process creates

ASSUME EndpointAssumption == MaxAttempts \in Nat

VARIABLES
  srv,       \* process -> its server
  attempt,   \* process -> servers it has begun to create
  path,      \* the file at the path, <<process, attempt>> of its bind, or Absent
  removed,   \* files removed by hand
  orphans    \* files left behind by a crash or by an unreadable identity

vars == <<srv, attempt, path, removed, orphans>>

Absent == <<>>

(* identity is unix_socket_identity while unix_socket_created is set. *)
Gone == [pc |-> "none", kind |-> "tcp", admin |-> FALSE, held |-> {}, identity |-> Absent]

Init ==
  /\ srv = [s \in Processes |-> Gone] /\ attempt = [s \in Processes |-> 0]
  /\ path = Absent /\ removed = {} /\ orphans = {}

At(s, pc) == srv[s].pc = pc
Mine(s) == <<s, attempt[s]>>
Becomes(s, r) == srv' = [srv EXCEPT ![s] = r]
Goto(s, pc) == Becomes(s, [srv[s] EXCEPT !.pc = pc])
Acquire(s, what, pc) == Becomes(s, [srv[s] EXCEPT !.held = @ \cup what, !.pc = pc])

(* unlink_unix_identity: only the file with that identity. *)
Unlinked(identity) == IF identity # Absent /\ path = identity THEN Absent ELSE path

(* Mutant: whatever is at the path goes. *)
DestroyByName(s) ==
  /\ Becomes(s, Gone)
  /\ path' = IF srv[s].kind = "unix" THEN Absent ELSE path

(* maelys_egress_server_destroy of a server that does not run: everything it *)
(* has, and its file.                                                        *)
destroy(s) == Becomes(s, Gone) /\ path' = Unlinked(srv[s].identity)
-----------------------------------------------------------------------------
(* maelys_egress_server_create. *)

Begin(s) ==
  /\ At(s, "none") /\ attempt[s] < MaxAttempts
  /\ \E kind \in {"unix", "tcp", "native"}, admin \in BOOLEAN :
       Becomes(s, [Gone EXCEPT !.pc = "create", !.kind = kind, !.admin = admin])
  /\ attempt' = [attempt EXCEPT ![s] = @ + 1]
  /\ UNCHANGED <<path, removed, orphans>>

(* A stage that cannot be completed ends in destroy. *)
Fail(s) ==
  /\ srv[s].pc \in {"create", "loop", "listen", "bind", "watch", "admin"}
  /\ destroy(s) /\ UNCHANGED <<attempt, removed, orphans>>

Allocate(s) ==
  /\ At(s, "create") /\ Acquire(s, {"policy", "handles", "connections"}, "loop")
  /\ UNCHANGED <<attempt, path, removed, orphans>>

MakeLoop(s) ==
  /\ At(s, "loop")
  /\ Acquire(s, {"loop"}, IF srv[s].kind = "native" THEN "admin" ELSE "listen")
  /\ UNCHANGED <<attempt, path, removed, orphans>>

ListenTcp(s) ==
  /\ At(s, "listen") /\ srv[s].kind = "tcp"
  /\ Acquire(s, {"listener"}, "watch")
  /\ UNCHANGED <<attempt, path, removed, orphans>>

(* The parent is private and nothing is there. *)
LookUnix(s) ==
  /\ At(s, "listen") /\ srv[s].kind = "unix" /\ path = Absent
  /\ Goto(s, "bind") /\ UNCHANGED <<attempt, path, removed, orphans>>

(* Mutant: a file in the way is replaced. *)
BindOver(s) ==
  /\ At(s, "bind")
  /\ path' = Mine(s) /\ Goto(s, "identify")
  /\ UNCHANGED <<attempt, removed, orphans>>

(* bind fails when another server came first. *)
BindUnix(s) ==
  /\ At(s, "bind") /\ path = Absent
  /\ path' = Mine(s) /\ Goto(s, "identify")
  /\ UNCHANGED <<attempt, removed, orphans>>

Identify(s) ==
  /\ At(s, "identify")
  /\ Becomes(s, [srv[s] EXCEPT !.identity = path, !.pc = "mode"])
  /\ UNCHANGED <<attempt, path, removed, orphans>>

(* The file cannot be examined: the socket is released, the file stays. *)
IdentifyFails(s) ==
  /\ At(s, "identify") /\ destroy(s)
  /\ orphans' = orphans \cup {path} /\ UNCHANGED <<attempt, removed>>

(* chmod or listen fails: the file is unlinked by its identity. *)
ModeFails(s) ==
  /\ At(s, "mode") /\ destroy(s) /\ UNCHANGED <<attempt, removed, orphans>>

Mode(s) ==
  /\ At(s, "mode") /\ Acquire(s, {"listener"}, "watch")
  /\ UNCHANGED <<attempt, path, removed, orphans>>

Watch(s) ==
  /\ At(s, "watch") /\ Acquire(s, {"watch"}, "admin")
  /\ UNCHANGED <<attempt, path, removed, orphans>>

(* The admin listener and its watch. *)
Admin(s) ==
  /\ At(s, "admin")
  /\ Acquire(s, IF srv[s].admin THEN {"admin"} ELSE {}, "up")
  /\ UNCHANGED <<attempt, path, removed, orphans>>
-----------------------------------------------------------------------------
Run(s) == At(s, "up") /\ Goto(s, "running") /\ UNCHANGED <<attempt, path, removed, orphans>>

RunEnds(s) == At(s, "running") /\ Goto(s, "ended") /\ UNCHANGED <<attempt, path, removed, orphans>>

(* The owner destroys a server it has run, or never ran; one that still runs *)
(* is only told to stop.                                                     *)
Destroy(s) ==
  /\ srv[s].pc \in {"up", "ended"} /\ destroy(s)
  /\ UNCHANGED <<attempt, removed, orphans>>

(* The process dies: the kernel releases all but the file. *)
Crash(s) ==
  /\ srv[s].pc # "none" /\ Becomes(s, Gone)
  /\ orphans' = IF path = Mine(s) THEN orphans \cup {path} ELSE orphans
  /\ UNCHANGED <<attempt, path, removed>>

(* Somebody removes the file, of a crashed server or of one that is up; not  *)
(* in the instant between its bind and its identification.                   *)
RemoveByHand ==
  /\ path # Absent
  /\ \A s \in Processes : Mine(s) = path => srv[s].pc \notin {"identify", "mode"}
  /\ removed' = removed \cup {path} /\ path' = Absent
  /\ UNCHANGED <<srv, attempt, orphans>>

Next ==
  \/ \E s \in Processes :
       \/ Begin(s) \/ Fail(s) \/ Allocate(s) \/ MakeLoop(s) \/ ListenTcp(s) \/ LookUnix(s)
       \/ BindUnix(s) \/ Identify(s) \/ IdentifyFails(s) \/ Mode(s) \/ ModeFails(s)
       \/ Watch(s) \/ Admin(s) \/ Run(s) \/ RunEnds(s) \/ Destroy(s) \/ Crash(s)
  \/ RemoveByHand

Spec == Init /\ [][Next]_vars
-----------------------------------------------------------------------------
(* Properties. *)

Needed(s) ==
  {"policy", "handles", "connections", "loop"}
  \cup (IF srv[s].kind = "native" THEN {} ELSE {"listener", "watch"})
  \cup (IF srv[s].admin THEN {"admin"} ELSE {})

(* A server create returned has all its kind needs, and one that is gone, by *)
(* whichever failure, has nothing.                                           *)
TypeOK ==
  \A s \in Processes :
    /\ srv[s].pc \in {"up", "running", "ended"} => srv[s].held = Needed(s)
    /\ srv[s].pc = "none" => srv[s] = Gone
    /\ srv[s].identity # Absent => srv[s].kind = "unix"

Listening(s) == srv[s].kind = "unix" /\ srv[s].pc \in {"up", "running", "ended"}

(* However starts, failures and stops of other servers fall: the file a Unix *)
(* server listens on stays, unless somebody removes it by hand, and there is *)
(* one such server.                                                          *)
PathServes ==
  \A s \in Processes : Listening(s) => path = Mine(s) \/ Mine(s) \in removed

(* A file is left at the path only by a crash, or by a bind whose result     *)
(* could not be examined: no other failure and no stop leaves one.           *)
NothingLeft ==
  path # Absent =>
    \/ path \in orphans
    \/ \E s \in Processes : path = Mine(s) /\ srv[s].pc \notin {"none", "create", "loop", "listen", "bind"}

(* The path leads to the server that listens there, and to nothing that is   *)
(* gone: the two above.                                                      *)
PathExact == PathServes /\ NothingLeft

(* No step of a server removes the file of another.                          *)
OthersKept ==
  [][\A s \in Processes : srv'[s] # srv[s] /\ path' # path /\ path # Absent => path = Mine(s)]_vars
=============================================================================
