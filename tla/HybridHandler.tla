---- MODULE HybridHandler ----
(***************************************************************************)
(* The hybrid transport handler of one ceremony, a phone reached by a QR   *)
(* code (credentialsd/src/credential_service/hybrid.rs): the task that     *)
(* creates the QR code, the task that opens the channel and runs the       *)
(* operation, the task that relays the phone's progress                    *)
(* (handle_hybrid_updates), and the stream the service polls.              *)
(*                                                                         *)
(* A retry of the operation after a retryable user error changes nothing   *)
(* here: the operation goes on running.                                    *)
(***************************************************************************)
EXTENDS Naturals, Sequences

CONSTANTS
  HybridCapacity,  (* bound of the channel to the state stream (16)        *)
  UpdateCapacity,  (* updates a slow relay may fall behind by (libwebauthn) *)
  MaxUpdates       (* bound on the updates the phone causes                *)

ASSUME HybridAssumption ==
  /\ {HybridCapacity, UpdateCapacity} \subseteq Nat \ {0}
  /\ MaxUpdates \in Nat

(* What an operation on the phone may end with, when it is no credential.  *)
PhoneErrors == {"pin_blocked", "no_credentials", "excluded", "other"}

(* The service's error for it.                                             *)
PhoneErrorOf ==
  [e \in PhoneErrors |-> CASE e = "pin_blocked" -> "pin_exhausted"
                           [] e = "other" -> "authenticator"
                           [] OTHER -> e]

HybridErrors == {"authenticator", "no_credentials", "excluded", "pin_exhausted"}
HybridFinals == {"completed"} \cup HybridErrors
HybridStates == {"init", "connecting", "connected"} \cup HybridFinals

(* The event the window receives for a state: it is not told that the PIN  *)
(* attempts are used up.                                                   *)
HybridEvent(s) == IF s = "pin_exhausted" THEN "authenticator" ELSE s

(* libwebauthn's updates, and the states handle_hybrid_updates makes of    *)
(* them; "none" is passed over.                                            *)
PhoneUpdates == {"uv_update", "proximity", "connecting", "authenticating", "connected", "error"}
StateOfUpdate ==
  [u \in PhoneUpdates |-> CASE u \in {"connecting", "authenticating"} -> "connecting"
                            [] u = "connected" -> "connected"
                            [] u = "error" -> "authenticator"
                            [] OTHER -> "none"]

VARIABLES
  hybSetup,     (* the task that creates the QR code                       *)
  hybTask,      (* the task of the channel and the operation               *)
  hybResult,    (* the final state that task has to send                   *)
  hybUpdates,   (* the phone's updates, not yet relayed                    *)
  hybLagged,    (* the relay has missed an update                          *)
  hybSent,      (* updates so far                                          *)
  hybRelay,     (* the task of handle_hybrid_updates                       *)
  hybHeld,      (* the state it is about to send                           *)
  hybStream,    (* the channel to the state stream                         *)
  hybOpen,      (* the state stream is still held                          *)
  hybSeen,      (* the last event passed on to the window                  *)
  hybVerdict,   (* the final state that completed the request              *)
  hybCancelled  (* the request's token                                     *)

hybTaskVars == <<hybSetup, hybTask, hybResult>>
hybRelayVars == <<hybUpdates, hybLagged, hybSent, hybRelay, hybHeld>>
hybEndVars == <<hybOpen, hybSeen, hybVerdict, hybCancelled>>
hybVars == <<hybTaskVars, hybRelayVars, hybStream, hybEndVars>>

HybridTypeOK ==
  /\ hybSetup \in {"creating", "showing", "done"}
  /\ hybTask \in {"none", "opening", "running", "sending", "panicked", "ended"}
  /\ hybResult \in HybridFinals \cup {"none"}
  /\ hybUpdates \in Seq(PhoneUpdates) /\ Len(hybUpdates) <= UpdateCapacity
  /\ hybSent \in 0..MaxUpdates
  /\ hybRelay \in {"none", "running", "ended"}
  /\ hybHeld \in HybridStates \cup {"none"}
  /\ hybStream \in Seq(HybridStates) /\ Len(hybStream) <= HybridCapacity
  /\ hybSeen \in HybridStates \cup {"none"}
  /\ hybVerdict \in HybridFinals \cup {"none"}
  /\ {hybLagged, hybOpen, hybCancelled} \subseteq BOOLEAN

HybridInit ==
  /\ hybSetup = "creating" /\ hybTask = "none" /\ hybResult = "none"
  /\ hybUpdates = <<>> /\ hybLagged = FALSE /\ hybSent = 0
  /\ hybRelay = "none" /\ hybHeld = "none"
  /\ hybStream = <<>> /\ hybOpen = TRUE
  /\ hybSeen = "none" /\ hybVerdict = "none" /\ hybCancelled = FALSE

----
(* start: the QR code.                                                     *)

DeviceCreated ==
  /\ hybSetup = "creating"
  /\ hybSetup' = "showing"
  /\ UNCHANGED <<hybTask, hybResult, hybRelayVars, hybStream, hybEndVars>>

(* Only logged: the stream ends without a state.                           *)
DeviceFails ==
  /\ hybSetup = "creating"
  /\ hybSetup' = "done"
  /\ UNCHANGED <<hybTask, hybResult, hybRelayVars, hybStream, hybEndVars>>

(* Mutant of HybridSend: a send does not wait.                             *)
HybridSendAtOnce(s) == hybStream' = Append(hybStream, s)

(* A send into the channel waits for room.                                 *)
HybridSend(s) ==
  /\ Len(hybStream) < HybridCapacity
  /\ hybStream' = Append(hybStream, s)

(* Mutant of SendQrCode: the channel is opened before the code is sent.    *)
SendQrCodeLate ==
  /\ hybSetup = "showing"
  /\ \/ hybTask = "none" /\ hybTask' = "opening" /\ UNCHANGED <<hybSetup, hybStream>>
     \/ hybTask # "none" /\ HybridSend("init") /\ hybSetup' = "done" /\ UNCHANGED hybTask
  /\ UNCHANGED <<hybResult, hybRelayVars, hybEndVars>>

(* The code is sent, and only then the task that waits for the phone is    *)
(* spawned.                                                                *)
SendQrCode ==
  /\ hybSetup = "showing" /\ hybOpen
  /\ HybridSend("init")
  /\ hybSetup' = "done" /\ hybTask' = "opening"
  /\ UNCHANGED <<hybResult, hybRelayVars, hybEndVars>>

QrCodeUnwanted ==
  /\ hybSetup = "showing" /\ ~hybOpen
  /\ hybSetup' = "done"
  /\ UNCHANGED <<hybTask, hybResult, hybRelayVars, hybStream, hybEndVars>>

----
(* The channel and the operation.                                          *)

(* device.channel() does not watch the token; the operation behind it is   *)
(* polled once before the token is looked at.                              *)
HybridOpens ==
  /\ hybTask = "opening"
  /\ hybTask' = "running" /\ hybRelay' = "running"
  /\ UNCHANGED <<hybSetup, hybResult, hybUpdates, hybLagged, hybSent, hybHeld>>
  /\ UNCHANGED <<hybStream, hybEndVars>>

(* panic!(): nothing is sent.                                              *)
HybridOpenPanics ==
  /\ hybTask = "opening"
  /\ hybTask' = "panicked"
  /\ UNCHANGED <<hybSetup, hybResult, hybRelayVars, hybStream, hybEndVars>>

PhoneReports(u) ==
  /\ hybTask \in {"running", "sending"} /\ hybSent < MaxUpdates
  /\ hybSent' = hybSent + 1
  /\ IF Len(hybUpdates) < UpdateCapacity
     THEN hybUpdates' = Append(hybUpdates, u) /\ UNCHANGED hybLagged
     ELSE hybUpdates' = Append(Tail(hybUpdates), u) /\ hybLagged' = TRUE
  /\ UNCHANGED <<hybRelay, hybHeld, hybTaskVars, hybStream, hybEndVars>>

(* Mutant of PhoneAnswers: an error is only logged.                        *)
PhoneAnswersLoggingErrors(r) ==
  /\ hybTask = "running"
  /\ IF r \in PhoneErrors
     THEN hybTask' = "ended" /\ UNCHANGED hybResult
     ELSE hybTask' = "sending" /\ hybResult' = r
  /\ UNCHANGED <<hybSetup, hybRelayVars, hybStream, hybEndVars>>

(* The operation ends with a credential ("completed") or an error.         *)
PhoneAnswers(r) ==
  /\ hybTask = "running"
  /\ hybTask' = "sending"
  /\ hybResult' = IF r \in PhoneErrors THEN PhoneErrorOf[r] ELSE r
  /\ UNCHANGED <<hybSetup, hybRelayVars, hybStream, hybEndVars>>

(* The phone answers with no assertion: assertions[0] panics.              *)
PhoneAnswersNothing ==
  /\ hybTask = "running"
  /\ hybTask' = "panicked"
  /\ UNCHANGED <<hybSetup, hybResult, hybRelayVars, hybStream, hybEndVars>>

(* Mutant of OperationStops: the token is looked at when the phone reports *)
(* something.                                                              *)
OperationStopsWhenTold ==
  /\ hybTask = "running" /\ hybCancelled /\ hybUpdates # <<>>
  /\ hybTask' = "ended"
  /\ UNCHANGED <<hybSetup, hybResult, hybRelayVars, hybStream, hybEndVars>>

(* The token is cancelled: the task exits silently.                        *)
OperationStops ==
  /\ hybTask = "running" /\ hybCancelled
  /\ hybTask' = "ended"
  /\ UNCHANGED <<hybSetup, hybResult, hybRelayVars, hybStream, hybEndVars>>

(* The final state is sent, or found to be unwanted.                       *)
SendResult ==
  /\ hybTask = "sending"
  /\ IF hybOpen THEN HybridSend(hybResult) ELSE UNCHANGED hybStream
  /\ hybTask' = "ended"
  /\ UNCHANGED <<hybSetup, hybResult, hybRelayVars, hybEndVars>>

----
(* handle_hybrid_updates.                                                  *)

RelayTakes ==
  /\ hybRelay = "running" /\ hybHeld = "none"
  /\ hybUpdates # <<>> /\ ~hybLagged
  /\ hybUpdates' = Tail(hybUpdates)
  /\ hybHeld' = StateOfUpdate[Head(hybUpdates)]
  /\ UNCHANGED <<hybLagged, hybSent, hybRelay, hybTaskVars, hybStream, hybEndVars>>

(* A failed send is only logged; the relay goes on.                        *)
RelaySends ==
  /\ hybRelay = "running" /\ hybHeld # "none"
  /\ IF hybOpen THEN HybridSend(hybHeld) ELSE UNCHANGED hybStream
  /\ hybHeld' = "none"
  /\ UNCHANGED <<hybUpdates, hybLagged, hybSent, hybRelay, hybTaskVars, hybEndVars>>

(* A missed update, or the end of the channel, ends the relay.             *)
RelayEnds ==
  /\ hybRelay = "running" /\ hybHeld = "none"
  /\ hybLagged \/ (hybUpdates = <<>> /\ hybTask \in {"panicked", "ended"})
  /\ hybRelay' = "ended"
  /\ UNCHANGED <<hybUpdates, hybLagged, hybSent, hybHeld>>
  /\ UNCHANGED <<hybTaskVars, hybStream, hybEndVars>>

----
(* The state stream (HybridStateStream::poll_next) and the request.        *)

(* Mutant of HybridPoll: the token is not looked at.                       *)
HybridPollIgnoringToken ==
  /\ hybOpen /\ hybStream # <<>>
  /\ hybStream' = Tail(hybStream)
  /\ hybSeen' = HybridEvent(Head(hybStream))
  /\ IF Head(hybStream) \in HybridFinals
     THEN hybVerdict' = Head(hybStream) /\ hybCancelled' = TRUE
     ELSE UNCHANGED <<hybVerdict, hybCancelled>>
  /\ UNCHANGED <<hybOpen, hybTaskVars, hybRelayVars>>

(* A state of a request that is not cancelled reaches the window; a final  *)
(* one completes the request, which cancels the token.                     *)
HybridPoll ==
  /\ hybOpen /\ hybStream # <<>> /\ ~hybCancelled
  /\ hybStream' = Tail(hybStream)
  /\ hybSeen' = HybridEvent(Head(hybStream))
  /\ IF Head(hybStream) \in HybridFinals
     THEN hybVerdict' = Head(hybStream) /\ hybCancelled' = TRUE
     ELSE UNCHANGED <<hybVerdict, hybCancelled>>
  /\ UNCHANGED <<hybOpen, hybTaskVars, hybRelayVars>>

(* Some task still holds a sender.                                         *)
HybridHeldOpen ==
  \/ hybSetup \in {"creating", "showing"}
  \/ hybTask \in {"opening", "running", "sending"}
  \/ hybRelay = "running"

HybridLetGo ==
  /\ hybOpen' = FALSE /\ hybStream' = <<>>
  /\ UNCHANGED <<hybSeen, hybVerdict, hybCancelled, hybTaskVars, hybRelayVars>>

(* A poll finds the token cancelled, or the last sender gone.              *)
HybridStreamEnds ==
  /\ hybOpen
  /\ \/ hybStream # <<>> /\ hybCancelled
     \/ hybStream = <<>> /\ ~HybridHeldOpen
  /\ HybridLetGo

(* The QR code cannot be written to a sealed file: the task that polls     *)
(* panics (From<&HybridState>); or that task ends for its own reasons.     *)
HybridStreamDropped == hybOpen /\ HybridLetGo

(* Another transport wins, or the user or the client cancels.              *)
HybridCancelled ==
  /\ ~hybCancelled
  /\ hybCancelled' = TRUE
  /\ UNCHANGED <<hybOpen, hybSeen, hybVerdict, hybTaskVars, hybRelayVars, hybStream>>

----
HybridSetup == DeviceCreated \/ DeviceFails \/ SendQrCode \/ QrCodeUnwanted
HybridRelay == RelayTakes \/ RelaySends \/ RelayEnds
HybridEnds == OperationStops \/ SendResult

HybridNext ==
  \/ HybridSetup \/ HybridRelay \/ HybridEnds
  \/ HybridOpens \/ HybridOpenPanics \/ PhoneAnswersNothing
  \/ \E u \in PhoneUpdates : PhoneReports(u)
  \/ \E r \in {"completed"} \cup PhoneErrors : PhoneAnswers(r)
  \/ HybridPoll \/ HybridStreamEnds \/ HybridStreamDropped \/ HybridCancelled

(* Some task of the handler or the polling task runs while one can;        *)
(* nothing makes the phone answer or the channel open.                     *)
HybridRuns == HybridSetup \/ HybridRelay \/ HybridEnds \/ HybridPoll \/ HybridStreamEnds

HybridFairness == WF_hybVars(HybridRuns)

HybridSpec == HybridInit /\ [][HybridNext]_hybVars /\ HybridFairness

----
(* Properties.                                                             *)

(* The window shows the QR code before anything else of the phone, and     *)
(* never goes back to it.                                                  *)
QrCodeFirst ==
  [][hybSeen' # hybSeen => (hybSeen = "none" <=> hybSeen' = "init")]_hybVars

(* A broken link is reported by the relay and by the operation itself, and *)
(* the relay may still have progress to send: the first outcome decides    *)
(* the request, and nothing of the phone reaches the window after it.      *)
FirstOutcomeDecides ==
  [][hybVerdict # "none" => UNCHANGED <<hybVerdict, hybSeen>>]_hybVars

(* A ceremony that ran its operation to the end is settled: once the       *)
(* stream is read, the request was completed or had been cancelled.        *)
HybridEndIsTold ==
  hybTask = "ended" /\ hybOpen /\ hybStream = <<>> => hybCancelled

(* A cancelled handler lets go of the channel and of the stream, unless it *)
(* is still waiting for the phone to open the channel, when nothing        *)
(* watches the token.                                                      *)
CancelledHybridStops ==
  hybCancelled ~> (~HybridHeldOpen \/ hybTask = "opening")
====
