------------------------------- MODULE MCLoop -------------------------------
(***************************************************************************)
(* What the loops owe to everybody who waits for them, on small instances:  *)
(* a session open (Connector), an admin client (Admin), a TLS client (Tls), *)
(* the peer and the owner of a channel (Channel), and the journal the       *)
(* receipts go to (Audit).  A behaviour is one of a single part, named by   *)
(* part; the variables of the others stay as they are initially.            *)
(***************************************************************************)
EXTENDS Audit

VARIABLES
  part,                                                  \* the part this behaviour is of
  callers, ret, refs, cancelled, completed, cresult,     \* Connector
  sock, cfd, queue, commands, state, peer, opencmd,
  stopping, finalized, running, started, references,
  wakeup, failed, opc, phase, kont, ocmd, ores, oslot, scan,
  slots, next_generation, ready, batch, client,          \* Admin
  c, session, net, peers,                                \* Tls
  srv, wake, keeper, requests, responses, taken,         \* Channel
  answered, caller, streams

(* One call and one slot. *)
Opens == INSTANCE Connector WITH
  Calls <- {"call"}, NoCall <- None, MaxConnections <- 1, Failures <- {"IO"},
  WakeMayFail <- FALSE, pc <- callers, batch <- commands

(* Two clients, one whose request never ends, and one slot. *)
Admins == INSTANCE Admin WITH
  Flag <- 1048576, Clients <- {"c1", "c2"}, Endless <- {"c2"}, MaxSlots <- 1, Buffer <- 1,
  RequestLength <- 1, ResponseLength <- 2, Timeout <- 1, MayReset <- FALSE, events <- ready

(* Records no larger than the buffer. *)
Sessions == INSTANCE Tls WITH
  Capacity <- 2, Window <- 1, RecordSizes <- {1}, MaxRecords <- 3, MaxAnswer <- 2,
  Library <- "wolfssl"

(* A peer that sends whatever it likes and reads when it likes. *)
Channels == INSTANCE Channel WITH
  MaxRequests <- 2, QueueLength <- 1, MaxFaults <- 0, Library <- FALSE, Hold <- FALSE,
  owner <- keeper, client <- caller, holders <- streams

openVars == <<callers, ret, refs, cancelled, completed, cresult, sock, cfd, queue, commands,
              state, peer, opencmd, stopping, finalized, running, started, references,
              wakeup, failed, opc, phase, kont, ocmd, ores, oslot, scan>>
adminVars == <<slots, next_generation, ready, batch, client>>
tlsVars == <<c, session, net, peers>>
channelVars == <<srv, wake, keeper, requests, responses, taken, answered, caller, streams>>
loopVars == <<part, vars, openVars, adminVars, tlsVars, channelVars>>
-----------------------------------------------------------------------------
LoopInit ==
  /\ part \in {"journal", "open", "admin", "tls", "channel"}
  /\ Init /\ Opens!Init /\ Admins!Init /\ Sessions!Init /\ Channels!Init

LoopNext ==
  /\ UNCHANGED part
  /\ \/ /\ part = "journal" /\ Next
        /\ UNCHANGED <<openVars, adminVars, tlsVars, channelVars>>
     \/ /\ part = "open" /\ Opens!Next
        /\ UNCHANGED <<vars, adminVars, tlsVars, channelVars>>
     \/ /\ part = "admin" /\ Admins!Next
        /\ UNCHANGED <<vars, openVars, tlsVars, channelVars>>
     \/ /\ part = "tls" /\ Sessions!Next
        /\ UNCHANGED <<vars, openVars, adminVars, channelVars>>
     \/ /\ part = "channel" /\ Channels!Next
        /\ UNCHANGED <<vars, openVars, adminVars, tlsVars>>

LoopSpec == LoopInit /\ [][LoopNext]_loopVars

(* The fairness of Connector!FairSpec ... *)
OpenFairness ==
  /\ WF_openVars(part = "open" /\ Opens!Owner)
  /\ \A d \in {"call"} : WF_openVars(part = "open" /\ Opens!CallerStep(d))
  /\ \A s \in Opens!Slots : SF_openVars(part = "open" /\ Opens!ExpireOrphan(s))

(* ... of Admin!FairSpec ... *)
AdminFairness ==
  WF_adminVars(part = "admin" /\ Admins!Loop) /\ WF_adminVars(part = "admin" /\ Admins!Tick)

(* ... of Tls!FairSpec ... *)
TlsFairness ==
  /\ WF_tlsVars(part = "tls" /\ Sessions!DispatchClient)
  /\ WF_tlsVars(part = "tls" /\ Sessions!DispatchUpstreamWrite)
  /\ WF_tlsVars(part = "tls" /\ Sessions!ClientSpeaks)
  /\ WF_tlsVars(part = "tls" /\ Sessions!ClientReads)

(* ... and of Channel!FairSpec. *)
ChannelFairness ==
  /\ WF_channelVars(part = "channel" /\ Channels!ServerNext)
  /\ WF_channelVars(part = "channel" /\ Channels!Joined)

LoopFairSpec ==
  LoopSpec /\ OpenFairness /\ AdminFairness /\ TlsFairness /\ ChannelFairness
-----------------------------------------------------------------------------
(* Properties, next to those of Audit. *)

(* Nothing is lost or out of order on the way to a peer.  What leaves the    *)
(* buffer to a TLS client was encrypted byte for byte, so that the receipt   *)
(* counts what the client can decrypt, and close_notify comes last; "while   *)
(* the channel is open it never leaves a request unanswered", each once and  *)
(* in the order of the requests.                                             *)
NothingLost ==
  Sessions!BytesToClientExact /\ Sessions!ShutdownLast /\ Channels!NeverUnanswered

(* Every session open returns, whatever run, stop and destroy do meanwhile:  *)
(* no wakeup of the loop is lost, one that failed leaves nothing behind, and *)
(* a stop ends the run, before its start and in a blocked step too.          *)
OpensSettle ==
  Opens!OpenReturns /\ Opens!QueueDrained /\ Opens!FailedOpenReclaimed /\ Opens!StopEndsRun

=============================================================================
