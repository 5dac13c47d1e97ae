----------------------------- MODULE PeerProofs -----------------------------
(***************************************************************************)
(* What the peers of a server can count on.                                *)
(*                                                                         *)
(* Whoever connects to its path (Endpoint), for any number of processes and *)
(* attempts: the path leads to the server that listens there.  The proof    *)
(* follows the file of each server: nobody's before its bind, at the path   *)
(* from bind to the identification, and from then on the one its recorded   *)
(* identity names.                                                          *)
(*                                                                         *)
(* A client that speaks TLS (Tls), for any buffer, any socket and any       *)
(* records: bytes_to_client counts what was encrypted for it, and its       *)
(* close_notify comes after the last of them.                              *)
(***************************************************************************)
EXTENDS Endpoint, Integers, SequenceTheorems, TLAPS

-----------------------------------------------------------------------------
(* The path of a Unix listener. *)

Early == {"none", "create", "loop", "listen", "bind"}
Late == {"watch", "admin", "up", "running", "ended"}
Stages == Early \cup {"identify", "mode"} \cup Late

Resources == {"policy", "handles", "connections", "loop", "listener", "watch", "admin"}

FileNames == {Absent} \cup (Processes \X Nat)

Server == [pc : Stages, kind : {"unix", "tcp", "native"}, admin : BOOLEAN,
           held : SUBSET Resources,
           identity : FileNames]

PathTypes ==
  /\ srv \in [Processes -> Server] /\ attempt \in [Processes -> Nat]
  /\ path \in FileNames

(* No file is from an attempt still to come. *)
Begun == path # Absent => path[2] <= attempt[path[1]]

FileOf(s) ==
  /\ srv[s].pc \in Early => srv[s].identity = Absent
  /\ srv[s].pc \in Early \ {"none"} => path # Mine(s)
  /\ srv[s].pc = "bind" => srv[s].kind = "unix"
  /\ srv[s].pc \in {"identify", "mode"} => path = Mine(s) /\ srv[s].kind = "unix"
  /\ srv[s].pc = "identify" => srv[s].identity = Absent
  /\ srv[s].pc = "mode" => srv[s].identity = Mine(s)
  /\ srv[s].pc \in Late =>
       IF srv[s].kind = "unix"
       THEN srv[s].identity = Mine(s) /\ (path = Mine(s) \/ Mine(s) \in removed)
       ELSE srv[s].identity = Absent /\ path # Mine(s)

Files == Begun /\ \A s \in Processes : FileOf(s)

PathInv == PathTypes /\ Files /\ NothingLeft

(* An empty place is not a file, and files of different servers differ. *)
LEMMA FileFacts ==
  ASSUME NEW s, NEW t, NEW m, NEW n
  PROVE  Absent # <<s, m>> /\ (<<s, m>> = <<t, n>> <=> s = t /\ m = n)
BY SMTT(30) DEF Absent

(* What the stages assign to a server is a server. *)
LEMMA ServerUpdates ==
  /\ Gone \in Server
  /\ \A kind \in {"unix", "tcp", "native"}, admin \in BOOLEAN :
       [Gone EXCEPT !.pc = "create", !.kind = kind, !.admin = admin] \in Server
  /\ \A r \in Server, pc \in Stages, what \in SUBSET Resources, id \in FileNames :
       /\ [r EXCEPT !.pc = pc] \in Server
       /\ [r EXCEPT !.held = @ \cup what, !.pc = pc] \in Server
       /\ [r EXCEPT !.identity = id, !.pc = pc] \in Server
<1>1. Gone \in Server
  BY DEF Gone, Server, Stages, Early, FileNames
<1>2. ASSUME NEW kind \in {"unix", "tcp", "native"}, NEW admin \in BOOLEAN
      PROVE  [Gone EXCEPT !.pc = "create", !.kind = kind, !.admin = admin] \in Server
  BY Zenon DEF Gone, Server, Stages, Early, FileNames
<1>3. ASSUME NEW r \in Server, NEW pc \in Stages, NEW what \in SUBSET Resources, NEW id \in FileNames
      PROVE  /\ [r EXCEPT !.pc = pc] \in Server
             /\ [r EXCEPT !.held = @ \cup what, !.pc = pc] \in Server
             /\ [r EXCEPT !.identity = id, !.pc = pc] \in Server
  <2>1. r.held \cup what \in SUBSET Resources
    BY DEF Server
  <2> QED
    BY <2>1, Zenon DEF Server
<1> QED
  BY <1>1, <1>2, <1>3, Zenon

(* No server, no file. *)
LEMMA InitPathInv == Init => PathInv
<1> SUFFICES ASSUME Init PROVE PathInv
  OBVIOUS
<1>2. PathTypes
  BY ServerUpdates, Zenon DEF Init, PathTypes, FileNames
<1>3. Files
  BY FileFacts DEF Init, Files, Begun, FileOf, Gone, Early, Late, Mine
<1>4. NothingLeft
  BY DEF Init, NothingLeft
<1> QED
  BY <1>2, <1>3, <1>4, Zenon DEF PathInv

(* A step of one server, as Next lists them. *)
PathStep(s) ==
  \/ Begin(s) \/ Fail(s) \/ Allocate(s) \/ MakeLoop(s) \/ ListenTcp(s) \/ LookUnix(s)
  \/ BindUnix(s) \/ Identify(s) \/ IdentifyFails(s) \/ Mode(s) \/ ModeFails(s)
  \/ Watch(s) \/ Admin(s) \/ Run(s) \/ RunEnds(s) \/ Destroy(s) \/ Crash(s)

(* A server moved to a stage, with what it acquired there, or gone. *)
LEMMA MovedServer ==
  ASSUME PathTypes, NEW s \in Processes, NEW pc \in Stages, NEW what \in SUBSET Resources,
         Goto(s, pc) \/ Acquire(s, what, pc) \/ Becomes(s, Gone)
  PROVE  srv' \in [Processes -> Server]
<1>1. /\ [srv[s] EXCEPT !.pc = pc] \in Server
      /\ [srv[s] EXCEPT !.held = @ \cup what, !.pc = pc] \in Server
      /\ Gone \in Server
  BY ServerUpdates, Zenon DEF PathTypes, FileNames
<1> QED
  BY <1>1, SMTT(30) DEF PathTypes, Goto, Acquire, Becomes

(* Every step of a server leaves it a server. *)
LEMMA StepServer ==
  ASSUME PathTypes, NEW s \in Processes, PathStep(s) PROVE srv' \in [Processes -> Server]
<1> USE DEF Stages, Early, Late, Resources
<1>1. CASE Begin(s)
  <2>1. PICK kind \in {"unix", "tcp", "native"}, admin \in BOOLEAN :
          Becomes(s, [Gone EXCEPT !.pc = "create", !.kind = kind, !.admin = admin])
    BY <1>1, Zenon DEF Begin
  <2>2. [Gone EXCEPT !.pc = "create", !.kind = kind, !.admin = admin] \in Server
    BY ServerUpdates, Zenon
  <2> QED
    BY <2>1, <2>2 DEF Becomes, PathTypes
<1>2. CASE Fail(s)
  <2>1. Becomes(s, Gone)
    BY <1>2, Zenon DEF Fail, destroy
  <2> QED
    BY <2>1, MovedServer, Zenon
<1>3. CASE Allocate(s)
  <2>1. Acquire(s, {"policy", "handles", "connections"}, "loop")
    BY <1>3, Zenon DEF Allocate
  <2> QED
    BY <2>1, MovedServer
<1>4. CASE MakeLoop(s)
  <2>1. Acquire(s, {"loop"}, "admin") \/ Acquire(s, {"loop"}, "listen")
    BY <1>4 DEF MakeLoop
  <2> QED
    BY <2>1, MovedServer
<1>5. CASE ListenTcp(s)
  <2>1. Acquire(s, {"listener"}, "watch")
    BY <1>5, Zenon DEF ListenTcp
  <2> QED
    BY <2>1, MovedServer
<1>6. CASE LookUnix(s)
  <2>1. Goto(s, "bind")
    BY <1>6, Zenon DEF LookUnix
  <2> QED
    BY <2>1, MovedServer, Zenon
<1>7. CASE BindUnix(s)
  <2>1. Goto(s, "identify")
    BY <1>7, Zenon DEF BindUnix
  <2> QED
    BY <2>1, MovedServer, Zenon
<1>8. CASE Identify(s)
  <2>1. [srv[s] EXCEPT !.identity = path, !.pc = "mode"] \in Server
    BY ServerUpdates, Zenon DEF PathTypes
  <2> QED
    BY <1>8, <2>1 DEF Identify, Becomes, PathTypes
<1>9. CASE IdentifyFails(s)
  <2>1. Becomes(s, Gone)
    BY <1>9, Zenon DEF IdentifyFails, destroy
  <2> QED
    BY <2>1, MovedServer, Zenon
<1>10. CASE Mode(s)
  <2>1. Acquire(s, {"listener"}, "watch")
    BY <1>10, Zenon DEF Mode
  <2> QED
    BY <2>1, MovedServer
<1>11. CASE ModeFails(s)
  <2>1. Becomes(s, Gone)
    BY <1>11, Zenon DEF ModeFails, destroy
  <2> QED
    BY <2>1, MovedServer, Zenon
<1>12. CASE Watch(s)
  <2>1. Acquire(s, {"watch"}, "admin")
    BY <1>12, Zenon DEF Watch
  <2> QED
    BY <2>1, MovedServer
<1>13. CASE Admin(s)
  <2>1. Acquire(s, {"admin"}, "up") \/ Acquire(s, {}, "up")
    BY <1>13 DEF Admin
  <2> QED
    BY <2>1, MovedServer
<1>14. CASE Run(s)
  <2>1. Goto(s, "running")
    BY <1>14, Zenon DEF Run
  <2> QED
    BY <2>1, MovedServer, Zenon
<1>15. CASE RunEnds(s)
  <2>1. Goto(s, "ended")
    BY <1>15, Zenon DEF RunEnds
  <2> QED
    BY <2>1, MovedServer, Zenon
<1>16. CASE Destroy(s)
  <2>1. Becomes(s, Gone)
    BY <1>16, Zenon DEF Destroy, destroy
  <2> QED
    BY <2>1, MovedServer, Zenon
<1>17. CASE Crash(s)
  <2>1. Becomes(s, Gone)
    BY <1>17, Zenon DEF Crash
  <2> QED
    BY <2>1, MovedServer, Zenon
<1> QED
  BY <1>1, <1>2, <1>3, <1>4, <1>5, <1>6, <1>7, <1>8, <1>9, <1>10, <1>11, <1>12, <1>13, <1>14, <1>15,
     <1>16, <1>17, Zenon DEF PathStep

(* Every step keeps the types. *)
LEMMA StepPathTypes ==
  ASSUME PathTypes, [Next]_vars PROVE PathTypes'
<1>1. CASE UNCHANGED vars
  BY <1>1 DEF vars, PathTypes
<1>2. CASE RemoveByHand
  BY <1>2 DEF RemoveByHand, PathTypes, FileNames
<1>3. ASSUME NEW s \in Processes, PathStep(s) PROVE PathTypes'
  <2>1. srv' \in [Processes -> Server]
    BY <1>3, StepServer
  <2>2. attempt' = attempt \/ attempt' = [attempt EXCEPT ![s] = @ + 1]
    BY <1>3, Zenon DEF PathStep, Begin, Fail, Allocate, MakeLoop, ListenTcp, LookUnix, BindUnix,
         Identify, IdentifyFails, Mode, ModeFails, Watch, Admin, Run, RunEnds, Destroy, Crash
  <2>3. attempt \in [Processes -> Nat]
    BY DEF PathTypes
  <2>4. attempt' \in [Processes -> Nat]
    BY <2>2, <2>3, SMTT(30)
  <2>5. path' = path \/ path' = Mine(s) \/ path' = Absent
    BY <1>3, Zenon DEF PathStep, Begin, Fail, Allocate, MakeLoop, ListenTcp, LookUnix, BindUnix,
         Identify, IdentifyFails, Mode, ModeFails, Watch, Admin, Run, RunEnds, Destroy, Crash,
         destroy, Unlinked
  <2>6. path' \in FileNames
    BY <2>3, <2>5 DEF PathTypes, FileNames, Mine
  <2> QED
    BY <2>1, <2>4, <2>6 DEF PathTypes
<1> QED
  BY <1>1, <1>2, <1>3 DEF Next, PathStep

(* What destroy does to the path, of a server whose file is what the         *)
(* invariant says: it removes the server's own file, or nothing.             *)
LEMMA DestroyOwn ==
  ASSUME PathTypes, Files, NEW s \in Processes, destroy(s)
  PROVE  /\ srv' = [srv EXCEPT ![s] = Gone]
         /\ path' = path \/ (path = Mine(s) /\ path' = Absent)
         /\ srv[s].pc \notin {"none", "identify"} => path' # Mine(s)
<1>1. srv[s] \in Server /\ FileOf(s)
  BY DEF PathTypes, Files
<1>2. srv[s].identity \in {Absent, Mine(s)}
  BY <1>1 DEF FileOf, Server, Stages
<1>3. path' = path \/ (path = Mine(s) /\ path' = Absent)
  BY <1>2 DEF destroy, Unlinked
<1>4. srv[s].pc \notin {"none", "identify"} => path' # Mine(s)
  BY <1>1, FileFacts DEF destroy, Unlinked, FileOf, Server, Stages, Mine
<1> QED
  BY <1>3, <1>4 DEF destroy, Becomes

(* A server that ends, at a stage that knows its file, leaves the files of   *)
(* the others where they are.                                                *)
LEMMA EndedFiles ==
  ASSUME PathTypes, Files, NEW s \in Processes, srv[s].pc \notin {"none", "identify"},
         destroy(s), UNCHANGED <<attempt, removed>>
  PROVE  Files'
<1>1. /\ srv' = [srv EXCEPT ![s] = Gone]
      /\ path' = path \/ (path = Mine(s) /\ path' = Absent)
  BY DestroyOwn
<1>2. Begun'
  BY <1>1 DEF Files, Begun
<1>3. ASSUME NEW t \in Processes PROVE FileOf(t)'
  <2>1. CASE t = s
    BY <2>1, <1>1 DEF PathTypes, FileOf, Gone, Early, Late
  <2>2. CASE t # s
    <3>1. srv'[t] = srv[t] /\ Mine(t)' = Mine(t)
      BY <2>2, <1>1 DEF PathTypes, Mine
    <3>2. path' = path \/ (path # Mine(t) /\ path' # Mine(t))
      BY <2>2, <1>1, FileFacts DEF Mine
    <3>3. FileOf(t)
      BY DEF Files
    <3> QED
      BY <3>1, <3>2, <3>3 DEF FileOf, Early, Late
  <2> QED
    BY <2>1, <2>2
<1> QED
  BY <1>2, <1>3 DEF Files

(* A bind takes an empty place: no other server has its file there. *)
LEMMA BoundFiles ==
  ASSUME PathTypes, Files, NEW s \in Processes, BindUnix(s) PROVE Files'
<1> USE DEF BindUnix
<1>1. path = Absent /\ path' = Mine(s) /\ attempt' = attempt /\ removed' = removed
  OBVIOUS
<1>2. Begun'
  BY <1>1 DEF PathTypes, Begun, Mine
<1>3. ASSUME NEW t \in Processes PROVE FileOf(t)'
  <2>1. CASE t = s
    BY <2>1, <1>1 DEF PathTypes, Files, FileOf, Server, At, Goto, Becomes, Early, Late, Mine
  <2>2. CASE t # s
    <3>1. srv'[t] = srv[t] /\ Mine(t)' = Mine(t)
      BY <2>2, <1>1 DEF PathTypes, Mine, Goto, Becomes
    <3>2. path # Mine(t) /\ path' # Mine(t)
      BY <2>2, <1>1, FileFacts DEF Mine
    <3>3. FileOf(t)
      BY DEF Files
    <3> QED
      BY <1>1, <3>1, <3>2, <3>3 DEF FileOf, Early, Late
  <2> QED
    BY <2>1, <2>2
<1> QED
  BY <1>2, <1>3 DEF Files

(* Every step leaves each server its own file. *)
LEMMA StepFiles ==
  ASSUME PathTypes, Files, [Next]_vars PROVE Files'
<1>1. CASE UNCHANGED vars
  BY <1>1 DEF vars, Files, Begun, FileOf, Mine
<1>2. CASE RemoveByHand
  BY <1>2, FileFacts DEF RemoveByHand, PathTypes, Files, Begun, FileOf, Server, FileNames, Stages,
     Early, Late, Gone, At, Goto, Becomes, Acquire, Mine, destroy, Unlinked
<1>3. ASSUME NEW s \in Processes, PathStep(s) PROVE Files'
  <2>1. CASE Begin(s)
    BY <2>1, FileFacts DEF Begin, PathTypes, Files, Begun, FileOf, Server, FileNames, Stages, Early,
       Late, Gone, At, Goto, Becomes, Acquire, Mine, destroy, Unlinked
  <2>2. CASE Fail(s)
    BY <2>2, EndedFiles DEF Fail
  <2>3. CASE Allocate(s)
    BY <2>3, FileFacts DEF Allocate, PathTypes, Files, Begun, FileOf, Server, FileNames, Stages,
       Early, Late, Gone, At, Goto, Becomes, Acquire, Mine, destroy, Unlinked
  <2>4. CASE MakeLoop(s)
    BY <2>4, FileFacts DEF MakeLoop, PathTypes, Files, Begun, FileOf, Server, FileNames, Stages,
       Early, Late, Gone, At, Goto, Becomes, Acquire, Mine, destroy, Unlinked
  <2>5. CASE ListenTcp(s)
    BY <2>5, FileFacts DEF ListenTcp, PathTypes, Files, Begun, FileOf, Server, FileNames, Stages,
       Early, Late, Gone, At, Goto, Becomes, Acquire, Mine, destroy, Unlinked
  <2>6. CASE LookUnix(s)
    BY <2>6, FileFacts DEF LookUnix, PathTypes, Files, Begun, FileOf, Server, FileNames, Stages,
       Early, Late, Gone, At, Goto, Becomes, Acquire, Mine, destroy, Unlinked
  <2>7. CASE BindUnix(s)
    BY <2>7, BoundFiles DEF BindUnix
  <2>8. CASE Identify(s)
    BY <2>8, FileFacts DEF Identify, PathTypes, Files, Begun, FileOf, Server, FileNames, Stages,
       Early, Late, Gone, At, Goto, Becomes, Acquire, Mine, destroy, Unlinked
  <2>9. CASE IdentifyFails(s)
    BY <2>9, FileFacts, ZenonT(60) DEF IdentifyFails, PathTypes, Files, Begun, FileOf, Server, FileNames,
       Stages,
       Early, Late, Gone, At, Goto, Becomes, Acquire, Mine, destroy, Unlinked
  <2>10. CASE Mode(s)
    BY <2>10, FileFacts DEF Mode, PathTypes, Files, Begun, FileOf, Server, FileNames, Stages, Early,
       Late, Gone, At, Goto, Becomes, Acquire, Mine, destroy, Unlinked
  <2>11. CASE ModeFails(s)
    BY <2>11, EndedFiles DEF ModeFails, At
  <2>12. CASE Watch(s)
    BY <2>12, FileFacts DEF Watch, PathTypes, Files, Begun, FileOf, Server, FileNames, Stages, Early,
       Late, Gone, At, Goto, Becomes, Acquire, Mine, destroy, Unlinked
  <2>13. CASE Admin(s)
    BY <2>13, FileFacts DEF Admin, PathTypes, Files, Begun, FileOf, Server, FileNames, Stages, Early,
       Late, Gone, At, Goto, Becomes, Acquire, Mine, destroy, Unlinked
  <2>14. CASE Run(s)
    BY <2>14, FileFacts DEF Run, PathTypes, Files, Begun, FileOf, Server, FileNames, Stages, Early,
       Late, Gone, At, Goto, Becomes, Acquire, Mine, destroy, Unlinked
  <2>15. CASE RunEnds(s)
    BY <2>15, FileFacts DEF RunEnds, PathTypes, Files, Begun, FileOf, Server, FileNames, Stages,
       Early, Late, Gone, At, Goto, Becomes, Acquire, Mine, destroy, Unlinked
  <2>16. CASE Destroy(s)
    BY <2>16, EndedFiles DEF Destroy
  <2>17. CASE Crash(s)
    BY <2>17, FileFacts DEF Crash, PathTypes, Files, Begun, FileOf, Server, FileNames, Stages, Early,
       Late, Gone, At, Goto, Becomes, Acquire, Mine, destroy, Unlinked
  <2> QED
    BY <1>3, <2>1, <2>2, <2>3, <2>4, <2>5, <2>6, <2>7, <2>8, <2>9, <2>10, <2>11, <2>12, <2>13, <2>14,
       <2>15, <2>16, <2>17 DEF PathStep
<1> QED
  BY <1>1, <1>2, <1>3 DEF Next, PathStep

(* A server that ends, at a stage that knows its file, leaves no file of its *)
(* own behind.                                                               *)
LEMMA EndedLeft ==
  ASSUME PathTypes, Files, NothingLeft, NEW s \in Processes,
         srv[s].pc \notin {"none", "identify"}, destroy(s), UNCHANGED <<attempt, removed, orphans>>
  PROVE  NothingLeft'
<1>1. /\ srv' = [srv EXCEPT ![s] = Gone] /\ path' # Mine(s)
      /\ path' = path \/ path' = Absent
  BY DestroyOwn
<1>2. ASSUME path' # Absent, path \notin orphans
      PROVE  \E t \in Processes :
               path' = Mine(t)' /\ srv'[t].pc \notin {"none", "create", "loop", "listen", "bind"}
  <2>1. PICK t \in Processes :
          path = Mine(t) /\ srv[t].pc \notin {"none", "create", "loop", "listen", "bind"}
    BY <1>1, <1>2 DEF NothingLeft
  <2>2. t # s /\ path' = path
    BY <1>1, <1>2, <2>1
  <2>3. srv'[t] = srv[t] /\ Mine(t)' = Mine(t)
    BY <1>1, <2>2 DEF PathTypes, Mine
  <2> QED
    BY <2>1, <2>2, <2>3
<1> QED
  BY <1>1, <1>2 DEF NothingLeft

(* A server that goes from stage to stage keeps the file it has bound, or has *)
(* none yet; the files of the others stay theirs.                            *)
LEMMA MovedLeft ==
  ASSUME PathTypes, NothingLeft, NEW s \in Processes, NEW r,
         srv' = [srv EXCEPT ![s] = r], UNCHANGED <<path, orphans>>,
         \A t \in Processes : t # s => attempt'[t] = attempt[t],
         \/ srv[s].pc \in {"none", "create", "loop", "listen", "bind"}
         \/ r.pc \notin {"none", "create", "loop", "listen", "bind"} /\ attempt' = attempt
  PROVE  NothingLeft'
<1> SUFFICES ASSUME path # Absent, path \notin orphans
             PROVE  \E t \in Processes : path = Mine(t)'
                      /\ srv'[t].pc \notin {"none", "create", "loop", "listen", "bind"}
  BY DEF NothingLeft
<1>1. PICK t \in Processes :
        path = Mine(t) /\ srv[t].pc \notin {"none", "create", "loop", "listen", "bind"}
  BY DEF NothingLeft
<1>2. Mine(t)' = Mine(t)
  BY <1>1 DEF Mine
<1>3. srv'[t] = IF t = s THEN r ELSE srv[t]
  BY DEF PathTypes
<1> QED
  BY <1>1, <1>2, <1>3

(* Every step that forgets a file removes it or counts it left. *)
LEMMA StepLeft ==
  ASSUME PathTypes, Files, NothingLeft, [Next]_vars PROVE NothingLeft'
<1>1. CASE UNCHANGED vars
  BY <1>1 DEF vars, NothingLeft, Mine
<1>2. CASE RemoveByHand
  BY <1>2 DEF RemoveByHand, NothingLeft
<1>3. ASSUME NEW s \in Processes, PathStep(s) PROVE NothingLeft'
  <2>1. CASE Begin(s)
    BY <2>1, MovedLeft, Zenon DEF Begin, Becomes, At, PathTypes, Server
  <2>2. CASE Fail(s)
    BY <2>2, EndedLeft DEF Fail
  <2>3. CASE Allocate(s)
    BY <2>3, MovedLeft, Zenon DEF Allocate, At, Acquire, Becomes, PathTypes, Server
  <2>4. CASE MakeLoop(s)
    BY <2>4, MovedLeft, Zenon DEF MakeLoop, At, Acquire, Becomes, PathTypes, Server
  <2>5. CASE ListenTcp(s)
    BY <2>5, MovedLeft, Zenon DEF ListenTcp, At, Acquire, Becomes, PathTypes, Server
  <2>6. CASE LookUnix(s)
    BY <2>6, MovedLeft, Zenon DEF LookUnix, At, Goto, Becomes, PathTypes, Server
  <2>7. CASE BindUnix(s)
    BY <2>7 DEF BindUnix, Goto, Becomes, Mine, NothingLeft, PathTypes, Server
  <2>8. CASE Identify(s)
    BY <2>8, MovedLeft, Zenon DEF Identify, At, Becomes, PathTypes, Server
  <2>9. CASE IdentifyFails(s)
    BY <2>9 DEF IdentifyFails, destroy, Unlinked, NothingLeft
  <2>10. CASE Mode(s)
    BY <2>10, MovedLeft, Zenon DEF Mode, At, Acquire, Becomes, PathTypes, Server
  <2>11. CASE ModeFails(s)
    BY <2>11, EndedLeft, Zenon DEF ModeFails, At
  <2>12. CASE Watch(s)
    BY <2>12, MovedLeft, Zenon DEF Watch, At, Acquire, Becomes, PathTypes, Server
  <2>13. CASE Admin(s)
    BY <2>13, MovedLeft, Zenon DEF Admin, At, Acquire, Becomes, PathTypes, Server
  <2>14. CASE Run(s)
    BY <2>14, MovedLeft, Zenon DEF Run, At, Goto, Becomes, PathTypes, Server
  <2>15. CASE RunEnds(s)
    BY <2>15, MovedLeft, Zenon DEF RunEnds, At, Goto, Becomes, PathTypes, Server
  <2>16. CASE Destroy(s)
    BY <2>16, EndedLeft DEF Destroy
  <2>17. CASE Crash(s)
    <3>1. CASE path = Mine(s) \/ path = Absent \/ path \in orphans
      BY <2>17, <3>1 DEF Crash, NothingLeft
    <3>2. CASE path # Mine(s) /\ path # Absent /\ path \notin orphans
      <4>1. PICK t \in Processes :
              path = Mine(t) /\ srv[t].pc \notin {"none", "create", "loop", "listen", "bind"}
        BY <3>2 DEF NothingLeft
      <4>2. srv'[t] = srv[t] /\ Mine(t)' = Mine(t) /\ path' = path
        BY <2>17, <3>2, <4>1 DEF Crash, Becomes, Mine, PathTypes
      <4> QED
        BY <4>1, <4>2 DEF NothingLeft
    <3> QED
      BY <3>1, <3>2
  <2> QED
    BY <1>3, <2>1, <2>2, <2>3, <2>4, <2>5, <2>6, <2>7, <2>8, <2>9, <2>10, <2>11, <2>12, <2>13, <2>14,
       <2>15, <2>16, <2>17 DEF PathStep
<1> QED
  BY <1>1, <1>2, <1>3 DEF Next, PathStep

(* The invariant is inductive. *)
LEMMA NextPathInv == PathInv /\ [Next]_vars => PathInv'
BY StepPathTypes, StepFiles, StepLeft DEF PathInv

(* The file a Unix server listens on stays where it is, whatever the starts,  *)
(* failures and stops of others do, unless somebody removes it by hand.      *)
THEOREM PathKept == Spec => []PathServes
<1>1. PathInv => PathServes
  BY DEF PathInv, PathTypes, Files, FileOf, PathServes, Listening, Late
<1> QED
  BY <1>1, InitPathInv, NextPathInv, PTL DEF Spec

(* Only a crash, or a bind whose result could not be examined, leaves a file *)
(* behind: every other failure of server_create unlinks what it bound.       *)
THEOREM OnlyOrphansLeft == Spec => []NothingLeft
<1>1. PathInv => NothingLeft
  BY DEF PathInv
<1> QED
  BY <1>1, InitPathInv, NextPathInv, PTL DEF Spec

(* Together: the path leads to the server that listens there, and to nothing *)
(* that is gone.                                                             *)
THEOREM PathsExact == Spec => []PathExact
BY PathKept, OnlyOrphansLeft, PTL DEF PathExact

(* unlink_unix_identity removes the server's own file or none. *)
THEOREM OthersNotRemoved == Spec => OthersKept
<1>1. ASSUME PathInv, [Next]_vars
      PROVE  [\A s \in Processes : srv'[s] # srv[s] /\ path' # path /\ path # Absent => path = Mine(s)]_vars
  <2> SUFFICES ASSUME NEW t \in Processes, srv'[t] # srv[t], path' # path, path # Absent
               PROVE  path = Mine(t)
    OBVIOUS
  <2>1. CASE UNCHANGED vars \/ RemoveByHand
    BY <2>1 DEF vars, RemoveByHand
  <2>2. ASSUME NEW s \in Processes, destroy(s) PROVE path = Mine(t)
    <3>1. /\ srv' = [srv EXCEPT ![s] = Gone]
          /\ path' = path \/ (path = Mine(s) /\ path' = Absent)
      BY <1>1, <2>2, DestroyOwn DEF PathInv
    <3>2. t = s
      BY <1>1, <3>1, Zenon DEF PathInv, PathTypes
    <3> QED
      BY <3>1, <3>2
  <2>3. ASSUME NEW s \in Processes, PathStep(s), ~destroy(s) PROVE path = Mine(t)
    BY <2>3, Zenon DEF PathStep, Begin, Fail, Allocate, MakeLoop, ListenTcp, LookUnix, BindUnix,
       Identify, IdentifyFails, Mode, ModeFails, Watch, Admin, Run, RunEnds, Destroy,
       Crash
  <2>4. CASE \E s \in Processes : PathStep(s)
    BY <2>4, <2>2, <2>3, Zenon
  <2> QED
    BY <1>1, <2>1, <2>4, ZenonT(40) DEF Next, PathStep
<1> QED
  BY <1>1, InitPathInv, NextPathInv, PTL DEF Spec, OthersKept
-----------------------------------------------------------------------------
(* A client that speaks TLS.  wolfSSL reports the bytes of the first attempt  *)
(* of a write that is repeated with more.                                     *)

CONSTANTS Capacity, Window, RecordSizes, MaxRecords, MaxAnswer

VARIABLES c, session, net, peers

T == INSTANCE Tls WITH Library <- "wolfssl"

(* Sizes are numbers. *)
Sizes ==
    /\ Capacity \in Nat /\ Window \in Nat /\ MaxRecords \in Nat /\ MaxAnswer \in Nat
    /\ RecordSizes \subseteq Nat

Interests == {"none", "READ", "WRITE"}
Connections ==
    [state : {"tls_handshake", "relay", "closed"}, c2u : 0 .. Capacity, u2c : 0 .. Capacity,
     watch : SUBSET Interests, tls_handshake_interest : Interests,
     tls_read_interest : Interests, tls_write_interest : Interests,
     tls_shutdown_interest : Interests, client_eof : BOOLEAN, upstream_eof : BOOLEAN,
     client_write_shutdown : BOOLEAN, bytes_to_client : Nat]
Sessions == [flight : 0 .. 4, pending : Nat, owes : BOOLEAN, out : Nat, encrypted : Nat]
Records == [kind : {"hello", "finish", "data", "ask", "close"}, size : Nat]
Sockets == [in : Seq(Records), out : 0 .. Window]
Peers == [client : {"hello", "wait", "finish", "open", "ended"}, records : Nat, sent : Nat,
          answer : Nat, delivered : Nat]

(* What every operation of the relay keeps: a record the session keeps for   *)
(* the socket is still in the buffer, and what left the buffer is encrypted.  *)
Core(x) ==
    /\ x \in [c : Connections, s : Sessions, n : Sockets]
    /\ x.s.out <= x.c.u2c
    /\ x.c.bytes_to_client = x.s.encrypted
    /\ x.c.client_write_shutdown => x.c.upstream_eof /\ x.c.u2c = 0

(* An operation only moves bytes from the buffer to the session.             *)
Moves(x, y) ==
    /\ Core(y)
    /\ y.s.encrypted + y.c.u2c = x.s.encrypted + x.c.u2c
    /\ y.c.upstream_eof = x.c.upstream_eof

TlsInv ==
    /\ Core(T!Now)
    /\ peers \in Peers
    /\ session.encrypted + c.u2c = peers.answer

(* The parts of Core, one by one. *)
LEMMA CoreType ==
  ASSUME NEW x, Core(x)
  PROVE  /\ x.c \in Connections /\ x.s \in Sessions /\ x.n \in Sockets
         /\ x.s.out <= x.c.u2c /\ x.c.bytes_to_client = x.s.encrypted
         /\ x.c.client_write_shutdown => x.c.upstream_eof /\ x.c.u2c = 0
BY DEF Core

(* A step of the library that leaves out and encrypted alone, and a          *)
(* connection with the same bytes to the client.                             *)
LEMMA WithMoves ==
  ASSUME Sizes, NEW x, Core(x), NEW step, NEW d \in Connections,
         step.s \in Sessions, step.n \in Sockets,
         step.s.out = x.s.out, step.s.encrypted = x.s.encrypted,
         d.u2c = x.c.u2c, d.bytes_to_client = x.c.bytes_to_client,
         d.upstream_eof = x.c.upstream_eof,
         d.client_write_shutdown => d.upstream_eof /\ d.u2c = 0
  PROVE  Moves(x, T!With(x, step, d))
<1> DEFINE y == [c |-> d, s |-> step.s, n |-> step.n]
<1>1. y \in [c : Connections, s : Sessions, n : Sockets] /\ y.c = d /\ y.s = step.s
  OBVIOUS
<1>2. T!With(x, step, d) = y
  BY DEF T!With
<1> HIDE DEF y
<1>3. Core(y)
  BY <1>1, CoreType DEF Core
<1> QED
  BY <1>1, <1>2, <1>3 DEF Moves

(* What a call of the library returned, field by field. *)
LEMMA StepFields ==
  ASSUME NEW returns, NEW moved, NEW s, NEW n
  PROVE  /\ T!Step(returns, moved, s, n).returns = returns
         /\ T!Step(returns, moved, s, n).moved = moved
         /\ T!Step(returns, moved, s, n).s = s /\ T!Step(returns, moved, s, n).n = n
BY DEF T!Step

(* tls_interest gives an interest of the watch. *)
LEMMA InterestType == ASSUME NEW returns PROVE T!tls_interest(returns) \in Interests
BY DEF T!tls_interest, Interests

(* The socket, after a record is written or read.                            *)
LEMMA SocketSteps ==
  ASSUME Sizes, NEW n \in Sockets
  PROVE  /\ T!Writable(n) => T!Flushed(n) \in Sockets
         /\ n.in # <<>> => /\ [n EXCEPT !.in = Tail(n.in)] \in Sockets
                           /\ Head(n.in) \in Records
                           /\ T!Writable(n) => T!Flushed([n EXCEPT !.in = Tail(n.in)]) \in Sockets
<1>1. n.in \in Seq(Records) /\ n.out \in 0 .. Window
  BY DEF Sockets
<1>2. ASSUME NEW m \in Sockets, T!Writable(m) PROVE T!Flushed(m) \in Sockets
  <2>1. m.out + 1 \in 0 .. Window
    BY <1>2 DEF Sockets, T!Writable, Sizes
  <2> QED
    BY <1>2, <2>1 DEF Sockets, T!Flushed
<1>3. ASSUME n.in # <<>>
      PROVE  /\ [n EXCEPT !.in = Tail(n.in)] \in Sockets /\ Head(n.in) \in Records
             /\ [n EXCEPT !.in = Tail(n.in)].out = n.out
  <2>1. Tail(n.in) \in Seq(Records) /\ Head(n.in) \in Records
    BY <1>1, <1>3, HeadTailProperties
  <2> QED
    BY <2>1 DEF Sockets
<1>4. ASSUME n.in # <<>>, T!Writable(n) PROVE T!Writable([n EXCEPT !.in = Tail(n.in)])
  BY <1>3, <1>4 DEF T!Writable
<1> QED
  BY <1>2, <1>3, <1>4

(* A handshake step encrypts no data, and keeps no record of them. *)
LEMMA HandshakeType ==
  ASSUME Sizes, NEW s \in Sessions, NEW n \in Sockets
  PROVE  /\ T!Handshake(s, n).s \in Sessions /\ T!Handshake(s, n).n \in Sockets
         /\ T!Handshake(s, n).s.out = s.out /\ T!Handshake(s, n).s.encrypted = s.encrypted
<1> DEFINE read == [n EXCEPT !.in = Tail(n.in)]
           Good(t) == /\ t.s \in Sessions /\ t.n \in Sockets
                      /\ t.s.out = s.out /\ t.s.encrypted = s.encrypted
<1>1. /\ T!Writable(n) => T!Flushed(n) \in Sockets
      /\ n.in # <<>> => read \in Sockets /\ (T!Writable(n) => T!Flushed(read) \in Sockets)
  BY SocketSteps
<1>2. ASSUME NEW f \in 0 .. 4
      PROVE  /\ [s EXCEPT !.flight = f] \in Sessions
             /\ [s EXCEPT !.flight = f].out = s.out
             /\ [s EXCEPT !.flight = f].encrypted = s.encrypted
  BY DEF Sessions
<1>3. ASSUME NEW r, NEW f \in 0 .. 4, NEW m \in Sockets
      PROVE  Good(T!Step(r, 0, [s EXCEPT !.flight = f], m)) /\ Good(T!Step(r, 0, s, m))
  <2>1. Good(T!Step(r, 0, [s EXCEPT !.flight = f], m))
    BY <1>2, <1>3, Zenon DEF T!Step
  <2>2. Good(T!Step(r, 0, s, m))
    BY <1>3 DEF T!Step
  <2> QED
    BY <2>1, <2>2
<1> HIDE DEF read, Good
<1>4. s.flight \in 0 .. 4 /\ (s.flight \in {1, 2} => s.flight + 1 \in 0 .. 4)
  BY DEF Sessions
<1> DEFINE Has(kind) == n.in # <<>> /\ Head(n.in).kind = kind
<1>5. CASE s.flight = 0 /\ Has("hello")
  <2>1. T!Handshake(s, n) =
          IF T!Writable(n) THEN T!Step("WANT_WRITE", 0, [s EXCEPT !.flight = 2], T!Flushed(read))
          ELSE T!Step("WANT_WRITE", 0, [s EXCEPT !.flight = 1], read)
    BY <1>5 DEF T!Handshake, read
  <2>0. 1 \in 0 .. 4 /\ 2 \in 0 .. 4 /\ n.in # <<>>
    BY <1>5
  <2>2. Good(T!Handshake(s, n))
    <3>1. CASE T!Writable(n)
      BY <1>1, <1>3, <2>0, <2>1, <3>1
    <3>2. CASE ~T!Writable(n)
      BY <1>1, <1>3, <2>0, <2>1, <3>2
    <3> QED
      BY <3>1, <3>2
  <2> QED
    BY <2>2 DEF Good
<1>6. CASE s.flight \in {1, 2}
  <2>1. T!Handshake(s, n) =
          IF T!Writable(n)
          THEN T!Step(IF s.flight = 1 THEN "WANT_WRITE" ELSE "WANT_READ", 0,
                    [s EXCEPT !.flight = @ + 1], T!Flushed(n))
          ELSE T!Step("WANT_WRITE", 0, s, n)
    BY <1>6 DEF T!Handshake
  <2>2. [s EXCEPT !.flight = @ + 1] = [s EXCEPT !.flight = s.flight + 1]
    OBVIOUS
  <2>3. Good(T!Handshake(s, n))
    BY <1>1, <1>3, <1>4, <1>6, <2>1, <2>2, Zenon
  <2> QED
    BY <2>3 DEF Good
<1>7. CASE s.flight = 3 /\ Has("finish")
  <2>1. T!Handshake(s, n) = T!Step("COMPLETE", 0, [s EXCEPT !.flight = 4], read)
    BY <1>7 DEF T!Handshake, read
  <2>0. 4 \in 0 .. 4 /\ n.in # <<>>
    BY <1>7
  <2>2. Good(T!Handshake(s, n))
    BY <1>1, <1>3, <2>0, <2>1, Zenon
  <2> QED
    BY <2>2 DEF Good
<1>8. CASE ~(s.flight = 0 /\ Has("hello")) /\ s.flight \notin {1, 2}
           /\ ~(s.flight = 3 /\ Has("finish"))
  <2>1. T!Handshake(s, n) = T!Step("WANT_READ", 0, s, n)
    BY <1>8 DEF T!Handshake
  <2>2. Good(T!Handshake(s, n))
    BY <1>3, <1>4, <2>1
  <2> QED
    BY <2>2 DEF Good
<1> QED
  BY <1>5, <1>6, <1>7, <1>8

(* read moves no more than there is room for, and nothing to the client.     *)
LEMMA ReadType ==
  ASSUME Sizes, NEW s \in Sessions, NEW n \in Sockets, NEW available \in Nat
  PROVE  /\ T!Read(s, n, available).s \in Sessions /\ T!Read(s, n, available).n \in Sockets
         /\ T!Read(s, n, available).s.out = s.out
         /\ T!Read(s, n, available).s.encrypted = s.encrypted
         /\ T!Read(s, n, available).moved \in 0 .. available
<1> DEFINE rest == [n EXCEPT !.in = Tail(n.in)]
           Good(t) == /\ t.s \in Sessions /\ t.n \in Sockets
                      /\ t.s.out = s.out /\ t.s.encrypted = s.encrypted
                      /\ t.moved \in 0 .. available
           Decrypted(d, net1) ==
              LET moved == T!Min2(d, available)
              IN  T!Step("COMPLETE", moved, [s EXCEPT !.pending = d - moved, !.owes = FALSE], net1)
<1>1. /\ T!Writable(n) => T!Flushed(n) \in Sockets
      /\ n.in # <<>> => /\ rest \in Sockets /\ (T!Writable(n) => T!Flushed(rest) \in Sockets)
                        /\ Head(n.in) \in Records
  BY SocketSteps, Zenon
<1>2. ASSUME NEW d \in Nat, NEW m \in Sockets PROVE Good(Decrypted(d, m))
  <2>1. T!Min2(d, available) \in 0 .. available /\ d - T!Min2(d, available) \in Nat
    BY DEF T!Min2
  <2>2. ASSUME NEW k \in 0 .. available, d - k \in Nat
        PROVE  Good(T!Step("COMPLETE", k, [s EXCEPT !.pending = d - k, !.owes = FALSE], m))
    <3>1. /\ [s EXCEPT !.pending = d - k, !.owes = FALSE] \in Sessions
          /\ [s EXCEPT !.pending = d - k, !.owes = FALSE].out = s.out
          /\ [s EXCEPT !.pending = d - k, !.owes = FALSE].encrypted = s.encrypted
      BY <2>2, Zenon DEF Sessions
    <3> QED
      BY <3>1, <2>2, Zenon DEF T!Step
  <2> QED
    BY <2>1, <2>2, Zenon
<1>3. ASSUME NEW r, NEW b \in BOOLEAN, NEW m \in Sockets
      PROVE  Good(T!Step(r, 0, [s EXCEPT !.owes = b], m)) /\ Good(T!Step(r, 0, s, m))
  <2>1. /\ [s EXCEPT !.owes = b] \in Sessions /\ [s EXCEPT !.owes = b].out = s.out
        /\ [s EXCEPT !.owes = b].encrypted = s.encrypted
    BY DEF Sessions
  <2>2. ASSUME NEW t \in Sessions, t.out = s.out, t.encrypted = s.encrypted
        PROVE  Good(T!Step(r, 0, t, m))
    BY <2>2 DEF T!Step
  <2> HIDE DEF Good
  <2> QED
    BY <2>1, <2>2, Zenon
<1>4. s.pending \in Nat
  BY DEF Sessions
<1> HIDE DEF Good
<1>5. Good(T!Read(s, n, available))
  <2>1. CASE s.owes
    <3>1. T!Read(s, n, available) =
            IF T!Writable(n) THEN T!Step("WANT_READ", 0, [s EXCEPT !.owes = FALSE], T!Flushed(n))
            ELSE T!Step("WANT_WRITE", 0, s, n)
      BY <2>1 DEF T!Read
    <3>2. CASE T!Writable(n)
      BY <1>1, <1>3, <3>1, <3>2, Zenon
    <3>3. CASE ~T!Writable(n)
      BY <1>3, <3>1, <3>3, Zenon
    <3> QED
      BY <3>2, <3>3
  <2>2. CASE ~s.owes /\ s.pending > 0
    <3>1. T!Read(s, n, available) = Decrypted(s.pending, n)
      BY <2>2 DEF T!Read
    <3> HIDE DEF Decrypted
    <3> QED
      BY <1>2, <1>4, <3>1
  <2>3. CASE ~s.owes /\ ~(s.pending > 0) /\ n.in = <<>>
    <3>1. T!Read(s, n, available) = T!Step("WANT_READ", 0, s, n)
      BY <2>3 DEF T!Read
    <3> QED
      BY <1>3, <3>1, Zenon
  <2>4. CASE ~s.owes /\ ~(s.pending > 0) /\ n.in # <<>>
    <3>0. rest \in Sockets /\ Head(n.in) \in Records /\ (T!Writable(n) => T!Flushed(rest) \in Sockets)
      BY <1>1, <2>4
    <3>1. CASE Head(n.in).kind = "data"
      <4>1. T!Read(s, n, available) = Decrypted(Head(n.in).size, rest)
        BY <2>4, <3>1 DEF T!Read
      <4>2. Head(n.in).size \in Nat
        BY <3>0 DEF Records
      <4> HIDE DEF Decrypted, rest
      <4> QED
        BY <1>2, <3>0, <4>1, <4>2
    <3>2. CASE Head(n.in).kind = "close"
      <4>1. T!Read(s, n, available) = T!Step("CLOSED", 0, s, rest)
        BY <2>4, <3>2 DEF T!Read
      <4> HIDE DEF rest
      <4> QED
        BY <1>3, <3>0, <4>1, Zenon
    <3>3. CASE Head(n.in).kind \notin {"data", "close"}
      <4>1. T!Read(s, n, available) =
              IF T!Writable(n) THEN T!Step("WANT_READ", 0, s, T!Flushed(rest))
              ELSE T!Step("WANT_WRITE", 0, [s EXCEPT !.owes = TRUE], rest)
        BY <2>4, <3>3 DEF T!Read
      <4> HIDE DEF rest
      <4>2. CASE T!Writable(n)
        BY <1>3, <3>0, <4>1, <4>2, Zenon
      <4>3. CASE ~T!Writable(n)
        BY <1>3, <3>0, <4>1, <4>3, Zenon
      <4> QED
        BY <4>2, <4>3
    <3> QED
      BY <3>1, <3>2, <3>3
  <2> QED
    BY <2>1, <2>2, <2>3, <2>4
<1> QED
  BY <1>5 DEF Good

(* close_notify is a record on the socket, and leaves the session alone. *)
LEMMA ShutdownType ==
  ASSUME Sizes, NEW s \in Sessions, NEW n \in Sockets
  PROVE  T!Shutdown(s, n).s = s /\ T!Shutdown(s, n).n \in Sockets
<1>1. CASE T!Writable(n)
  <2>1. T!Shutdown(s, n) = T!Step("COMPLETE", 0, s, T!Flushed(n)) /\ T!Flushed(n) \in Sockets
    BY <1>1, SocketSteps, Zenon DEF T!Shutdown
  <2> QED
    BY <2>1, StepFields
<1>2. CASE ~T!Writable(n)
  <2>1. T!Shutdown(s, n) = T!Step("WANT_WRITE", 0, s, n)
    BY <1>2 DEF T!Shutdown
  <2> QED
    BY <2>1, StepFields
<1> QED
  BY <1>1, <1>2

-----------------------------------------------------------------------------
(* The relay's operations. *)

(* egress_relay_advance_tls_handshake moves no data. *)
LEMMA HandshakeMoves ==
  ASSUME Sizes, NEW x, Core(x) PROVE Moves(x, T!egress_relay_advance_tls_handshake(x))
<1> DEFINE step == T!Handshake(x.s, x.n)
           d == [x.c EXCEPT !.tls_handshake_interest = T!tls_interest(step.returns),
                            !.state = IF step.returns = "COMPLETE" THEN "relay" ELSE @]
<1>1. x.c \in Connections /\ x.s \in Sessions /\ x.n \in Sockets
      /\ (x.c.client_write_shutdown => x.c.upstream_eof /\ x.c.u2c = 0)
  BY CoreType
<1>2. /\ step.s \in Sessions /\ step.n \in Sockets
      /\ step.s.out = x.s.out /\ step.s.encrypted = x.s.encrypted
  BY <1>1, HandshakeType
<1>3. T!tls_interest(step.returns) \in Interests
  BY InterestType
<1> HIDE DEF step
<1>4. /\ d \in Connections /\ d.u2c = x.c.u2c /\ d.bytes_to_client = x.c.bytes_to_client
      /\ d.upstream_eof = x.c.upstream_eof
      /\ d.client_write_shutdown = x.c.client_write_shutdown
  BY <1>1, <1>3, Zenon DEF Connections
<1>5. T!egress_relay_advance_tls_handshake(x) = T!With(x, step, d)
  BY Zenon DEF T!egress_relay_advance_tls_handshake, step
<1> HIDE DEF d
<1> QED
  BY <1>1, <1>2, <1>4, <1>5, WithMoves

(* Nothing moves nothing. *)
LEMMA SameMoves == ASSUME Sizes, NEW x, Core(x) PROVE Moves(x, x)
BY DEF Moves

(* read_from_client fills the other buffer, and moves nothing to the *)
(* client.                                                           *)
LEMMA ReadMoves ==
  ASSUME Sizes, NEW x, Core(x) PROVE Moves(x, T!read_from_client(x))
<1> DEFINE available == Capacity - x.c.c2u
           step == T!Read(x.s, x.n, available)
           d == [x.c EXCEPT !.c2u = @ + step.moved,
                            !.client_eof = @ \/ step.returns = "CLOSED",
                            !.tls_read_interest = T!tls_interest(step.returns)]
<1>1. x.c \in Connections /\ x.s \in Sessions /\ x.n \in Sockets
      /\ (x.c.client_write_shutdown => x.c.upstream_eof /\ x.c.u2c = 0)
  BY CoreType
<1>2. available \in Nat /\ x.c.c2u \in Nat /\ x.c.c2u + available = Capacity
  BY <1>1 DEF Connections, Sizes
<1>3. /\ step.s \in Sessions /\ step.n \in Sockets
      /\ step.s.out = x.s.out /\ step.s.encrypted = x.s.encrypted
      /\ step.moved \in 0 .. available
  BY <1>1, <1>2, ReadType
<1>4. T!tls_interest(step.returns) \in Interests
  BY InterestType
<1>5. CASE available = 0
  BY <1>5, SameMoves DEF T!read_from_client
<1>6. CASE available # 0
  <2>1. T!read_from_client(x) = T!With(x, step, d)
    BY <1>6 DEF T!read_from_client
  <2> HIDE DEF step, available
  <2>2. x.c.c2u + step.moved \in 0 .. Capacity
    BY <1>2, <1>3 DEF Sizes
  <2>3. /\ d \in Connections /\ d.u2c = x.c.u2c /\ d.bytes_to_client = x.c.bytes_to_client
        /\ d.upstream_eof = x.c.upstream_eof
        /\ d.client_write_shutdown = x.c.client_write_shutdown
    BY <1>1, <1>4, <2>2, Zenon DEF Connections
  <2> HIDE DEF d
  <2> QED
    BY <1>1, <1>3, <2>1, <2>3, WithMoves
<1> QED
  BY <1>5, <1>6

(* write: a record the session kept is the front of the buffer, so what it   *)
(* reports is in the buffer and is what was encrypted.                       *)
LEMMA WriteMoves ==
  ASSUME Sizes, NEW x, Core(x) PROVE Moves(x, T!write_to_client(x))
<1> DEFINE kept == IF x.s.out = 0 THEN x.c.u2c ELSE x.s.out
           step == T!Write(x.s, x.n, x.c.u2c)
           d == [x.c EXCEPT !.u2c = @ - step.moved, !.bytes_to_client = @ + step.moved,
                            !.tls_write_interest = T!tls_interest(step.returns)]
           y == [c |-> d, s |-> step.s, n |-> step.n]
<1>1. /\ x.c \in Connections /\ x.s \in Sessions /\ x.n \in Sockets
      /\ x.s.out <= x.c.u2c /\ x.c.bytes_to_client = x.s.encrypted
      /\ x.c.client_write_shutdown => x.c.upstream_eof /\ x.c.u2c = 0
  BY CoreType
<1>2. /\ kept \in Nat /\ kept <= x.c.u2c /\ x.c.u2c \in 0 .. Capacity
      /\ x.s.encrypted \in Nat /\ x.c.bytes_to_client \in Nat
  BY <1>1 DEF Connections, Sessions, Sizes
<1>3. T!write_to_client(x) = y
  BY DEF T!write_to_client, T!With
<1>4. T!tls_interest(step.returns) \in Interests
  BY InterestType
<1>5. CASE ~T!Writable(x.n)
  <2>1. step = T!Step("WANT_WRITE", 0, [x.s EXCEPT !.out = kept], x.n)
    BY <1>5 DEF T!Write
  <2>2. step.moved = 0 /\ step.s = [x.s EXCEPT !.out = kept] /\ step.n = x.n
    BY <2>1, StepFields
  <2> HIDE DEF step, kept
  <2>3. step.s \in Sessions /\ step.s.out = kept /\ step.s.encrypted = x.s.encrypted
    BY <1>1, <1>2, <2>2 DEF Sessions
  <2>4. /\ d \in Connections /\ d.u2c = x.c.u2c /\ d.bytes_to_client = x.c.bytes_to_client
        /\ d.upstream_eof = x.c.upstream_eof
        /\ d.client_write_shutdown = x.c.client_write_shutdown
    <3>1. x.c.u2c - step.moved = x.c.u2c
          /\ x.c.bytes_to_client + step.moved = x.c.bytes_to_client
      BY <1>2, <2>2 DEF Sizes
    <3> QED
      BY <1>1, <1>4, <3>1, Zenon DEF Connections
  <2> HIDE DEF d
  <2>5. y \in [c : Connections, s : Sessions, n : Sockets] /\ y.c = d /\ y.s = step.s
    BY <1>1, <2>2, <2>3, <2>4
  <2> HIDE DEF y
  <2> QED
    BY <1>1, <1>2, <1>3, <2>3, <2>4, <2>5 DEF Moves, Core
<1>6. CASE T!Writable(x.n)
  <2>1. step = T!Step("COMPLETE", kept, [x.s EXCEPT !.out = 0, !.encrypted = @ + kept], T!Flushed(x.n))
    BY <1>6 DEF T!Write, Sizes
  <2>2. step.moved = kept /\ step.s = [x.s EXCEPT !.out = 0, !.encrypted = @ + kept]
        /\ step.n \in Sockets
    <3>1. step.moved = kept /\ step.s = [x.s EXCEPT !.out = 0, !.encrypted = @ + kept]
          /\ step.n = T!Flushed(x.n)
      BY <2>1, StepFields
    <3>2. T!Flushed(x.n) \in Sockets
      BY <1>1, <1>6, SocketSteps, Zenon
    <3> QED
      BY <3>1, <3>2
  <2> HIDE DEF step, kept
  <2>3. step.s \in Sessions /\ step.s.out = 0 /\ step.s.encrypted = x.s.encrypted + kept
    <3> DEFINE e == x.s.encrypted + kept
    <3>1. e \in Nat
      BY <1>2
    <3>2. step.s = [x.s EXCEPT !.out = 0, !.encrypted = e]
      BY <1>1, <2>2 DEF Sessions
    <3> HIDE DEF e
    <3>3. ASSUME NEW t \in Sessions
          PROVE  /\ [t EXCEPT !.out = 0, !.encrypted = e] \in Sessions
                 /\ [t EXCEPT !.out = 0, !.encrypted = e].out = 0
                 /\ [t EXCEPT !.out = 0, !.encrypted = e].encrypted = e
      BY <3>1, Zenon DEF Sessions
    <3>4. step.s \in Sessions /\ step.s.out = 0 /\ step.s.encrypted = e
      BY <1>1, <3>2, <3>3, Zenon
    <3> QED
      BY <3>4 DEF e
  <2>4. /\ d \in Connections /\ d.u2c = x.c.u2c - kept
        /\ d.bytes_to_client = x.c.bytes_to_client + kept
        /\ d.upstream_eof = x.c.upstream_eof
        /\ d.client_write_shutdown = x.c.client_write_shutdown
    <3>1. x.c.u2c - kept \in 0 .. Capacity /\ x.c.bytes_to_client + kept \in Nat
      BY <1>2 DEF Sizes
    <3> QED
      BY <1>1, <1>4, <2>2, <3>1, Zenon DEF Connections
  <2> HIDE DEF d
  <2>5. y \in [c : Connections, s : Sessions, n : Sockets] /\ y.c = d /\ y.s = step.s
    BY <2>2, <2>3, <2>4
  <2> HIDE DEF y
  <2>6. Core(y)
    BY <1>1, <1>2, <2>3, <2>4, <2>5 DEF Core
  <2>7. y.s.encrypted + y.c.u2c = x.s.encrypted + x.c.u2c
    BY <1>2, <2>3, <2>4, <2>5
  <2> QED
    BY <1>3, <2>4, <2>5, <2>6, <2>7 DEF Moves
<1> QED
  BY <1>5, <1>6

(* apply_half_closes shuts the client's side down once nothing is left for *)
(* it.                                                                     *)
LEMMA HalfCloseMoves ==
  ASSUME Sizes, NEW x, Core(x) PROVE Moves(x, T!apply_half_closes(x))
<1> DEFINE step == T!Shutdown(x.s, x.n)
           d == [x.c EXCEPT !.tls_shutdown_interest = T!tls_interest(step.returns),
                            !.client_write_shutdown = step.returns = "COMPLETE"]
<1>1. x.c \in Connections /\ x.s \in Sessions /\ x.n \in Sockets
  BY CoreType
<1>2. step.s = x.s /\ step.n \in Sockets
  BY <1>1, ShutdownType
<1>3. T!tls_interest(step.returns) \in Interests
  BY InterestType
<1>4. CASE ~x.c.upstream_eof \/ x.c.u2c > 0 \/ x.c.client_write_shutdown
  BY <1>4, SameMoves DEF T!apply_half_closes
<1>5. CASE x.c.upstream_eof /\ ~(x.c.u2c > 0) /\ ~x.c.client_write_shutdown
  <2>1. T!apply_half_closes(x) = T!With(x, step, d)
    BY <1>5 DEF T!apply_half_closes
  <2>2. x.c.u2c = 0
    BY <1>1, <1>5 DEF Connections, Sizes
  <2> HIDE DEF step
  <2>3. /\ d \in Connections /\ d.u2c = x.c.u2c /\ d.bytes_to_client = x.c.bytes_to_client
        /\ d.upstream_eof = x.c.upstream_eof
    BY <1>1, <1>3, ZenonT(60) DEF Connections
  <2> HIDE DEF d
  <2> QED
    BY <1>1, <1>2, <1>5, <2>1, <2>2, <2>3, WithMoves, Zenon
<1> QED
  BY <1>4, <1>5

(* What a dispatch ends with.                                                *)
LEMMA FinishKeeps ==
  ASSUME Sizes, NEW x, Core(x), T!Finish(x)
  PROVE  /\ Core(T!Now)' /\ session'.encrypted + c'.u2c = x.s.encrypted + x.c.u2c
<1> DEFINE y == T!apply_half_closes(x)
<1>1. Core(y) /\ y.s.encrypted + y.c.u2c = x.s.encrypted + x.c.u2c
  BY HalfCloseMoves DEF Moves
<1>2. /\ c' = IF T!connection_complete(y.c) THEN [y.c EXCEPT !.state = "closed", !.watch = {}]
               ELSE T!update_watches(y.c)
      /\ session' = y.s /\ net' = y.n
  BY Zenon DEF T!Finish
<1> HIDE DEF y
<1>3. y.c \in Connections /\ y.s \in Sessions /\ y.n \in Sockets
  BY <1>1, CoreType
<1>4. PICK w \in SUBSET Interests, st \in {y.c.state, "closed"} :
        c' = [y.c EXCEPT !.state = st, !.watch = w]
  <2>1. CASE T!connection_complete(y.c)
    <3>1. c' = [y.c EXCEPT !.state = "closed", !.watch = {}] /\ {} \in SUBSET Interests
      BY <1>2, <2>1, SMTT(30)
    <3> QED
      BY <3>1, Zenon
  <2>2. CASE ~T!connection_complete(y.c)
    <3> DEFINE d == y.c
               w == IF d.state = "tls_handshake" THEN {d.tls_handshake_interest} \ {"none"}
                    ELSE (IF ~d.client_eof /\ d.c2u < Capacity
                          THEN {T!Wanted(d.tls_read_interest, "READ")} ELSE {})
                         \cup (IF d.u2c > 0 THEN {T!Wanted(d.tls_write_interest, "WRITE")} ELSE {})
                         \cup ({d.tls_shutdown_interest} \ {"none"})
    <3>1. c' = [d EXCEPT !.watch = w]
      BY <1>2, <2>2, Zenon DEF T!update_watches
    <3>2. w \in SUBSET Interests
      <4>1. /\ d.tls_handshake_interest \in Interests /\ d.tls_read_interest \in Interests
            /\ d.tls_write_interest \in Interests /\ d.tls_shutdown_interest \in Interests
        BY <1>3 DEF Connections
      <4>2. \A i \in Interests : T!Wanted(i, "READ") \in Interests /\ T!Wanted(i, "WRITE") \in Interests
        BY DEF T!Wanted, Interests
      <4> QED
        BY <4>1, <4>2
    <3> HIDE DEF w
    <3>3. [d EXCEPT !.watch = w] = [d EXCEPT !.state = d.state, !.watch = w]
      BY <1>3, Zenon DEF Connections
    <3> QED
      BY <3>1, <3>2, <3>3, Zenon
  <2> QED
    BY <2>1, <2>2, ZenonT(60)
<1>5. /\ c' \in Connections /\ c'.u2c = y.c.u2c /\ c'.bytes_to_client = y.c.bytes_to_client
      /\ c'.upstream_eof = y.c.upstream_eof
      /\ c'.client_write_shutdown = y.c.client_write_shutdown
  BY <1>3, <1>4, Zenon DEF Connections
<1>6. [c |-> c', s |-> session', n |-> net'] \in [c : Connections, s : Sessions, n : Sockets]
  BY <1>2, <1>3, <1>5
<1>7. Core([c |-> c', s |-> session', n |-> net'])
  BY <1>1, <1>2, <1>5, <1>6, CoreType DEF Core
<1> QED
  BY <1>1, <1>2, <1>5, <1>7 DEF T!Now

(* The state an event starts from. *)
LEMMA NowFields == T!Now.c = c /\ T!Now.s = session /\ T!Now.n = net
BY DEF T!Now

(* Each action: what is in the buffer or encrypted is what the upstream sent. *)
LEMMA ClientDispatch ==
  ASSUME Sizes, TlsInv, T!DispatchClient PROVE TlsInv'
<1>1. PICK x \in {IF c.state = "tls_handshake"
                  THEN IF c.tls_handshake_interest \in T!Flags
                       THEN T!egress_relay_advance_tls_handshake(T!Now) ELSE T!Now
                  ELSE IF T!Wanted(c.tls_read_interest, "READ") \in T!Flags
                  THEN T!read_from_client(T!Now) ELSE T!Now} :
        \E y \in {IF /\ x.c.state # "tls_handshake" /\ x.c.u2c > 0
                     /\ T!Wanted(x.c.tls_write_interest, "WRITE") \in T!Flags
                  THEN T!write_to_client(x) ELSE x} : T!Finish(y)
  BY Zenon DEF T!DispatchClient
<1>2. PICK y \in {T!write_to_client(x), x} : T!Finish(y)
  BY <1>1
<1>3. Core(T!Now)
  BY DEF TlsInv
<1>4. x \in {T!egress_relay_advance_tls_handshake(T!Now), T!read_from_client(T!Now), T!Now}
  BY <1>1
<1>5. Moves(T!Now, x)
  BY <1>3, <1>4, HandshakeMoves, ReadMoves, SameMoves
<1>6. Moves(x, y)
  BY <1>2, <1>5, WriteMoves, SameMoves DEF Moves
<1>7. Core(T!Now)' /\ session'.encrypted + c'.u2c = y.s.encrypted + y.c.u2c
  BY <1>2, <1>6, FinishKeeps DEF Moves
<1>8. session'.encrypted + c'.u2c = session.encrypted + c.u2c
  BY <1>5, <1>6, <1>7, NowFields DEF Moves
<1> QED
  BY <1>7, <1>8 DEF TlsInv, T!DispatchClient

(* What the invariant says of it. *)
LEMMA NowType ==
  ASSUME TlsInv
  PROVE  /\ c \in Connections /\ session \in Sessions /\ net \in Sockets
         /\ session.out <= c.u2c /\ c.bytes_to_client = session.encrypted
         /\ c.client_write_shutdown => c.upstream_eof /\ c.u2c = 0
         /\ peers \in Peers /\ session.encrypted + c.u2c = peers.answer
BY CoreType, NowFields DEF TlsInv

(* The record of the loop with another connection.                           *)
LEMMA CoreOf ==
  ASSUME TlsInv, NEW d \in Connections, session.out <= d.u2c,
         d.bytes_to_client = c.bytes_to_client,
         d.client_write_shutdown => d.upstream_eof /\ d.u2c = 0
  PROVE  Core([T!Now EXCEPT !.c = d]) /\ [T!Now EXCEPT !.c = d].s = session
         /\ [T!Now EXCEPT !.c = d].c = d
<1>1. [T!Now EXCEPT !.c = d] = [c |-> d, s |-> session, n |-> net]
  BY DEF T!Now
<1> DEFINE y == [c |-> d, s |-> session, n |-> net]
<1>2. y \in [c : Connections, s : Sessions, n : Sockets] /\ y.c = d /\ y.s = session
  BY NowType
<1> HIDE DEF y
<1>3. Core(y)
  BY <1>2, NowType DEF Core
<1> QED
  BY <1>1, <1>2, <1>3 DEF y

(* A read from the upstream adds to the buffer what the upstream sent. *)
LEMMA UpstreamReads ==
  ASSUME Sizes, TlsInv, T!DispatchUpstreamRead PROVE TlsInv'
<1>t. /\ c \in Connections /\ session.out <= c.u2c /\ peers \in Peers
      /\ session.encrypted + c.u2c = peers.answer /\ session \in Sessions
      /\ c.client_write_shutdown => c.upstream_eof /\ c.u2c = 0
  BY NowType
<1>u. c.u2c \in 0 .. Capacity /\ session.out \in Nat /\ session.encrypted \in Nat
      /\ peers.answer \in Nat
  BY <1>t DEF Connections, Sessions, Peers
<1>1. ~c.upstream_eof /\ c.u2c < Capacity
  BY DEF T!DispatchUpstreamRead
<1>2. CASE peers' = [peers EXCEPT !.answer = @ + 1] /\ T!Finish([T!Now EXCEPT !.c.u2c = @ + 1])
  <2> DEFINE k == c.u2c + 1
             d == [c EXCEPT !.u2c = k]
  <2>1. k \in 0 .. Capacity /\ session.out <= k
    BY <1>t, <1>u, <1>1 DEF Sizes
  <2> HIDE DEF k
  <2>2. /\ d \in Connections /\ d.u2c = k /\ d.bytes_to_client = c.bytes_to_client
        /\ d.client_write_shutdown = c.client_write_shutdown
    BY <1>t, <2>1 DEF Connections
  <2>3. [T!Now EXCEPT !.c.u2c = @ + 1] = [T!Now EXCEPT !.c = d]
    BY DEF T!Now, k
  <2> HIDE DEF d
  <2>4. Core([T!Now EXCEPT !.c = d]) /\ [T!Now EXCEPT !.c = d].s = session
        /\ [T!Now EXCEPT !.c = d].c = d
    BY <1>t, <1>1, <2>1, <2>2, CoreOf
  <2>5. Core(T!Now)' /\ session'.encrypted + c'.u2c = session.encrypted + k
    BY <1>2, <2>2, <2>3, <2>4, FinishKeeps, Zenon
  <2>6. peers.answer + 1 \in Nat
    BY <1>u
  <2>7. peers' \in Peers /\ peers'.answer = peers.answer + 1
    BY <1>2, <1>t, <2>6 DEF Peers
  <2>8. session'.encrypted + c'.u2c = peers'.answer
    BY <1>t, <1>u, <2>5, <2>7 DEF k
  <2> QED
    BY <2>5, <2>7, <2>8 DEF TlsInv
<1>3. CASE UNCHANGED peers /\ T!Finish([T!Now EXCEPT !.c.upstream_eof = TRUE])
  <2> DEFINE d == [c EXCEPT !.upstream_eof = TRUE]
  <2>1. /\ d \in Connections /\ d.u2c = c.u2c /\ d.bytes_to_client = c.bytes_to_client
        /\ d.client_write_shutdown = c.client_write_shutdown /\ d.upstream_eof
    BY <1>t, Zenon DEF Connections
  <2>2. [T!Now EXCEPT !.c.upstream_eof = TRUE] = [T!Now EXCEPT !.c = d]
    BY DEF T!Now
  <2> HIDE DEF d
  <2>3. Core([T!Now EXCEPT !.c = d]) /\ [T!Now EXCEPT !.c = d].s = session
        /\ [T!Now EXCEPT !.c = d].c = d
    BY <1>t, <1>1, <2>1, CoreOf
  <2>4. Core(T!Now)' /\ session'.encrypted + c'.u2c = session.encrypted + c.u2c
    <3>1. T!Finish([T!Now EXCEPT !.c = d])
      BY <1>3, <2>2
    <3> QED
      BY <2>1, <2>3, <3>1, FinishKeeps, Zenon
  <2> QED
    BY <1>3, <1>t, <2>4 DEF TlsInv
<1> QED
  BY <1>2, <1>3 DEF T!DispatchUpstreamRead

(* A write to the upstream leaves the client's direction alone. *)
LEMMA UpstreamWrites ==
  ASSUME Sizes, TlsInv, T!DispatchUpstreamWrite PROVE TlsInv'
<1>t. /\ c \in Connections /\ session.out <= c.u2c /\ peers \in Peers
      /\ session.encrypted + c.u2c = peers.answer /\ session \in Sessions
      /\ c.client_write_shutdown => c.upstream_eof /\ c.u2c = 0
  BY NowType
<1>1. PICK m \in 1 .. c.c2u : peers' = [peers EXCEPT !.delivered = @ + m]
                             /\ T!Finish([T!Now EXCEPT !.c.c2u = @ - m])
  BY DEF T!DispatchUpstreamWrite
<1> DEFINE k == c.c2u - m
           d == [c EXCEPT !.c2u = k]
<1>2. c.c2u \in 0 .. Capacity /\ peers.delivered \in Nat
  BY <1>t DEF Connections, Peers
<1>3. k \in 0 .. Capacity /\ peers.delivered + m \in Nat
  BY <1>2 DEF Sizes
<1> HIDE DEF k
<1>4. /\ d \in Connections /\ d.u2c = c.u2c /\ d.bytes_to_client = c.bytes_to_client
      /\ d.client_write_shutdown = c.client_write_shutdown /\ d.upstream_eof = c.upstream_eof
  BY <1>t, <1>3 DEF Connections
<1>5. [T!Now EXCEPT !.c.c2u = @ - m] = [T!Now EXCEPT !.c = d]
  BY DEF T!Now, k
<1> HIDE DEF d
<1>6. Core([T!Now EXCEPT !.c = d]) /\ [T!Now EXCEPT !.c = d].s = session
      /\ [T!Now EXCEPT !.c = d].c = d
  BY <1>t, <1>4, CoreOf
<1>7. Core(T!Now)' /\ session'.encrypted + c'.u2c = session.encrypted + c.u2c
  BY <1>1, <1>4, <1>5, <1>6, FinishKeeps, Zenon
<1>8. peers' \in Peers /\ peers'.answer = peers.answer
  BY <1>1, <1>3, <1>t DEF Peers
<1> QED
  BY <1>t, <1>7, <1>8 DEF TlsInv

(* A record of the client, at the end of what its socket holds.              *)
LEMMA ClientRecord ==
  ASSUME Sizes, TlsInv, NEW kind \in {"hello", "finish", "data", "ask", "close"},
         NEW size \in Nat, T!ClientSends(kind, size), peers' \in Peers,
         peers'.answer = peers.answer
  PROVE  TlsInv'
<1>1. T!Record(kind, size) \in Records
  BY DEF T!Record, Records
<1>2. net' = [net EXCEPT !.in = Append(@, T!Record(kind, size))] /\ UNCHANGED <<c, session>>
  BY DEF T!ClientSends
<1>3. net.in \in Seq(Records)
  BY NowType DEF Sockets
<1>4. Append(net.in, T!Record(kind, size)) \in Seq(Records)
  BY <1>1, <1>3, AppendProperties
<1>5. net' \in Sockets
  BY <1>2, <1>4, NowType, Zenon DEF Sockets
<1> DEFINE y == [c |-> c', s |-> session', n |-> net']
<1>6. y \in [c : Connections, s : Sessions, n : Sockets] /\ y.c = c /\ y.s = session
  BY <1>2, <1>5, NowType
<1> HIDE DEF y
<1>7. Core(y)
  BY <1>6, NowType DEF Core
<1> QED
  BY <1>2, <1>7, NowType DEF TlsInv, T!Now, y

(* The client moves on by itself, and the relay's state with it does not. *)
LEMMA ClientActions ==
  ASSUME Sizes, TlsInv, T!ClientSpeaks \/ T!ClientSendsData \/ T!ClientEnds PROVE TlsInv'
<1>t. peers \in Peers
  BY NowType
<1>1. CASE T!ClientSpeaks
  <2>1. ASSUME NEW k \in {"wait", "open"}, peers' = [peers EXCEPT !.client = k]
        PROVE  peers' \in Peers /\ peers'.answer = peers.answer
    BY <1>t, <2>1, SMTT(30) DEF Peers
  <2> QED
    BY <1>1, <2>1, ClientRecord DEF T!ClientSpeaks
<1>2. CASE T!ClientSendsData
  <2>1. peers.records + 1 \in Nat /\ peers.sent \in Nat
    BY <1>t DEF Peers
  <2>2. ASSUME NEW size \in RecordSizes, T!ClientSends("data", size),
               peers' = [peers EXCEPT !.records = @ + 1, !.sent = @ + size]
        PROVE  TlsInv'
    <3>1. size \in Nat /\ peers.sent + size \in Nat
      BY <2>1 DEF Sizes
    <3>2. peers' \in Peers /\ peers'.answer = peers.answer
      BY <1>t, <2>1, <2>2, <3>1, Zenon DEF Peers
    <3> QED
      BY <2>2, <3>1, <3>2, ClientRecord
  <2>3. ASSUME T!ClientSends("ask", 0), peers' = [peers EXCEPT !.records = @ + 1]
        PROVE  TlsInv'
    <3>1. peers' \in Peers /\ peers'.answer = peers.answer
      BY <1>t, <2>1, <2>3 DEF Peers
    <3> QED
      BY <2>3, <3>1, ClientRecord
  <2> QED
    BY <1>2, <2>2, <2>3, Zenon DEF T!ClientSendsData
<1>3. CASE T!ClientEnds
  <2>1. peers' \in Peers /\ peers'.answer = peers.answer /\ T!ClientSends("close", 0)
    BY <1>3, <1>t DEF T!ClientEnds, Peers
  <2> QED
    BY <2>1, ClientRecord
<1> QED
  BY <1>1, <1>2, <1>3

(* Neither a client that reads nor a session that fails moves a byte. *)
LEMMA OtherActions ==
  ASSUME Sizes, TlsInv, T!ClientReads \/ T!SessionFails \/ UNCHANGED T!vars PROVE TlsInv'
<1> DEFINE y == [c |-> c', s |-> session', n |-> net']
<1>1. /\ c' \in Connections /\ c'.u2c = c.u2c /\ c'.bytes_to_client = c.bytes_to_client
      /\ c'.upstream_eof = c.upstream_eof
      /\ c'.client_write_shutdown = c.client_write_shutdown
      /\ session' = session
  <2>1. CASE T!SessionFails
    BY <2>1, NowType, Zenon DEF T!SessionFails, Connections
  <2> QED
    BY <2>1, NowType DEF T!ClientReads, T!vars
<1>2. net' \in Sockets
  <2>1. CASE T!ClientReads
    <3>1. net.out - 1 \in 0 .. Window /\ net' = [net EXCEPT !.out = @ - 1]
      BY <2>1, NowType DEF T!ClientReads, Sockets, Sizes
    <3> QED
      BY <3>1, NowType DEF Sockets
  <2> QED
    BY <2>1, NowType DEF T!SessionFails, T!vars
<1>3. peers' \in Peers /\ peers'.answer = peers.answer
  <2>1. CASE T!ClientReads
    <3>1. PICK k \in {peers.client, "finish"} : peers' = [peers EXCEPT !.client = k]
      BY <2>1 DEF T!ClientReads
    <3> QED
      BY <3>1, NowType DEF Peers
  <2> QED
    BY <2>1, NowType DEF T!SessionFails, T!vars
<1>4. y \in [c : Connections, s : Sessions, n : Sockets] /\ y.c = c' /\ y.s = session
  BY <1>1, <1>2, NowType
<1> HIDE DEF y
<1>5. Core(y)
  BY <1>1, <1>4, NowType DEF Core
<1> QED
  BY <1>1, <1>3, <1>5, NowType DEF TlsInv, T!Now, y

(* A new connection satisfies the invariant. *)
LEMMA InitTls == ASSUME Sizes, T!Init PROVE TlsInv
<1>1. c \in Connections /\ c.u2c = 0 /\ c.bytes_to_client = 0 /\ ~c.client_write_shutdown
  BY DEF T!Init, Connections, Interests, Sizes
<1>2. session \in Sessions /\ session.out = 0 /\ session.encrypted = 0
  BY DEF T!Init, Sessions
<1>3. net \in Sockets
  BY EmptySeq DEF T!Init, Sockets, Sizes
<1>4. peers \in Peers /\ peers.answer = 0
  BY DEF T!Init, Peers
<1>5. T!Now \in [c : Connections, s : Sessions, n : Sockets]
  BY <1>1, <1>2, <1>3 DEF T!Now
<1> QED
  BY <1>1, <1>2, <1>4, <1>5, NowFields DEF TlsInv, Core

(* And every step keeps it. *)
LEMMA NextTls == ASSUME Sizes, TlsInv, [T!Next]_(T!vars) PROVE TlsInv'
BY ClientDispatch, UpstreamReads, UpstreamWrites, ClientActions, OtherActions, Zenon DEF T!Next

(* The receipt's count of bytes to the client is what the client can decrypt, *)
(* for a session that reports a repeated write by the bytes of the first one. *)
THEOREM EncryptedExact == Sizes => (T!Spec => []T!BytesToClientExact)
<1> SUFFICES ASSUME Sizes PROVE T!Spec => []T!BytesToClientExact
  OBVIOUS
<1>1. T!Init => TlsInv
  BY InitTls
<1>2. TlsInv /\ [T!Next]_(T!vars) => TlsInv'
  BY NextTls
<1>3. TlsInv => T!BytesToClientExact
  BY NowType DEF T!BytesToClientExact
<1> QED
  BY <1>1, <1>2, <1>3, PTL DEF T!Spec

(* close_notify comes after the last byte the upstream sent.                  *)
THEOREM CloseNotifyLast == Sizes => (T!Spec => []T!ShutdownLast)
<1> SUFFICES ASSUME Sizes PROVE T!Spec => []T!ShutdownLast
  OBVIOUS
<1>1. T!Init => TlsInv
  BY InitTls
<1>2. TlsInv /\ [T!Next]_(T!vars) => TlsInv'
  BY NextTls
<1>3. TlsInv => T!ShutdownLast
  <2> SUFFICES ASSUME TlsInv PROVE T!ShutdownLast
    OBVIOUS
  <2>1. session.encrypted \in Nat
    BY NowType DEF Sessions
  <2> QED
    BY <2>1, NowType DEF T!ShutdownLast
<1> QED
  BY <1>1, <1>2, <1>3, PTL DEF T!Spec
=============================================================================
