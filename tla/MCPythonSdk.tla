---------------------------- MODULE MCPythonSdk ----------------------------
(***************************************************************************)
(* EgressProcess on three instances that differ in what the caller and its *)
(* environment do: the constants of the configuration, several             *)
(* replacements with files that cannot be written, and an event callback.  *)
(* A behaviour is one of a single instance, named by part.                 *)
(***************************************************************************)
EXTENDS PythonSdk

VARIABLE part

Replacing == INSTANCE PythonSdk WITH MaxLines <- 1, MaxReplaces <- 2, WritesFail <- TRUE
Calling == INSTANCE PythonSdk WITH MaxReplaces <- 0, HasCallback <- TRUE, WritesFail <- TRUE

SdkInit == part \in {"plain", "replacing", "calling"} /\ Init

SdkNext ==
  /\ UNCHANGED part
  /\ \/ part = "plain" /\ Next
     \/ part = "replacing" /\ Replacing!Next
     \/ part = "calling" /\ Calling!Next

Caller ==
  \/ part = "plain" /\ CallerStep
  \/ part = "replacing" /\ Replacing!CallerStep
  \/ part = "calling" /\ Calling!CallerStep

Reader(r) ==
  \/ part = "plain" /\ ReaderStep(r)
  \/ part = "replacing" /\ Replacing!ReaderStep(r)
  \/ part = "calling" /\ Calling!ReaderStep(r)

(* The fairness of PythonSdk!FairSpec. *)
SdkSpec ==
  /\ SdkInit /\ [][SdkNext]_<<part, vars>>
  /\ WF_vars(Caller) /\ \A r \in Daemons : WF_vars(Reader(r))

(* A callback returns as well. *)
CallbacksReturn == \A r \in Daemons : WF_vars(part = "calling" /\ Calling!CallbackEnds(r))
-----------------------------------------------------------------------------
(* Properties. *)

(* The object speaks of the daemon it has started and of no other.  No       *)
(* daemon is left without an owner; ports, errors and generations are those  *)
(* of this daemon (an error where no callback holds its reader back);        *)
(* between calls the only private directory is its own (when every file      *)
(* could be written); and every event is kept or counted as dropped.         *)
ObjectTracksDaemon ==
  /\ DaemonOwned /\ PortsOfThisDaemon /\ ReplacedIsActive /\ DropsCounted
  /\ part = "plain" => PrivateFilesRemoved
  /\ part # "calling" => ErrorOfThisDaemon

(* Every call returns, and the reader goes on draining the daemon's output,  *)
(* whatever its callback raises, until the contract is broken or the object  *)
(* is closed, when callbacks return.                                         *)
SdkProgress == CallsReturn /\ (CallbacksReturn => Drained)
=============================================================================
