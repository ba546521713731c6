---- MODULE CredentialService ----
(***************************************************************************)
(* The credential service of the daemon                                    *)
(* (credentialsd/src/credential_service/mod.rs).                           *)
(*                                                                         *)
(* One slot, `ctx`, holds the request being served together with the       *)
(* sending half of its response channel and its cancellation token.  A     *)
(* discovery merges one state stream per transport; polling a stream reads *)
(* an event of the transport's handler, looks at the token, and only then  *)
(* locks the slot to complete the request.  The two halves of a poll are   *)
(* separate steps here, because the token is not read under the slot's     *)
(* lock.                                                                   *)
(*                                                                         *)
(* A request is identified with its random request id, its token and its   *)
(* response channel.                                                       *)
(***************************************************************************)

CONSTANTS
  Requests,       (* the credential requests given to init_request         *)
  Discoveries,    (* the calls of start_discovery                          *)
  Progress,       (* the handler states that do not end a ceremony         *)
  Failures,       (* the errors told apart: "failed", "excluded" (already  *)
                  (* registered, CredentialExcluded)                       *)
  NoRequest,      (* the empty slot                                        *)
  MultiThreaded   (* TRUE: another task may run between two steps of a     *)
                  (* poll; FALSE: a runtime with one worker thread         *)

(* Device states that end a ceremony, and what they answer the request.    *)
FinalEvents == {"completed"} \cup Failures
CeremonyOutcomes == {"credential"} \cup Failures
OutcomeOf(e) == IF e = "completed" THEN "credential" ELSE e

Events == Progress \cup FinalEvents
NoEvent == "none"

ASSUME ServiceAssumption ==
  /\ NoRequest \notin Requests
  /\ MultiThreaded \in BOOLEAN
  /\ Failures \subseteq {"failed", "excluded"}
  /\ Progress \cap FinalEvents = {}
  /\ NoEvent \notin Progress

(* start_discovery asks for a USB stream and then for a hybrid one; its    *)
(* NFC block is commented out.                                             *)
Transports == {"usb", "hybrid"}

(* What became of a request's response channel.                            *)
Sent == CeremonyOutcomes \cup {"cancelled"}
Answers == Sent \cup {"unused", "open", "refused", "dropped"}

VARIABLES
  ctx,         (* the request in the slot, or NoRequest                    *)
  poisoned,    (* a thread panicked while it held the slot's mutex         *)
  cancelled,   (* the requests whose token is cancelled                    *)
  answer,      (* per request, the state of its response channel           *)
  answeredBy,  (* per request, whose ceremony or user the answer is from   *)
  owner,       (* per discovery, the request its streams were started for  *)
  stream,      (* per discovery and transport, the state of the stream     *)
  polled       (* per discovery, an event past the token check             *)

serviceVars ==
  <<ctx, poisoned, cancelled, answer, answeredBy, owner, stream, polled>>
slotVars == <<ctx, cancelled, answer, answeredBy>>
streamVars == <<owner, stream, polled>>

StreamStates == {"absent", "pending", "live", "ended"}

ServiceTypeOK ==
  /\ ctx \in Requests \cup {NoRequest}
  /\ poisoned \in BOOLEAN
  /\ cancelled \in SUBSET Requests
  /\ answer \in [Requests -> Answers]
  /\ answeredBy \in [Requests -> Requests \cup {NoRequest}]
  /\ owner \in [Discoveries -> Requests \cup {NoRequest}]
  /\ stream \in [Discoveries -> [Transports -> StreamStates]]
  /\ polled \in [Discoveries -> Events \cup {NoEvent}]

Silent == [tr \in Transports |-> "absent"]

ServiceInit ==
  /\ ctx = NoRequest
  /\ poisoned = FALSE
  /\ cancelled = {}
  /\ answer = [r \in Requests |-> "unused"]
  /\ answeredBy = [r \in Requests |-> NoRequest]
  /\ owner = [d \in Discoveries |-> NoRequest]
  /\ stream = [d \in Discoveries |-> Silent]
  /\ polled = [d \in Discoveries |-> NoEvent]

----
(* Scheduling.                                                             *)

(* With one worker thread no other task runs while a poll is under way.    *)
MayRun == MultiThreaded \/ \A d \in Discoveries : polled[d] = NoEvent

(* The callers share the service behind an asynchronous mutex, which a     *)
(* call of start_discovery keeps until all its streams are started.        *)
Starting(d) == \E tr \in Transports : stream[d][tr] = "pending"
ServiceFree == \A d \in Discoveries : ~Starting(d)

----
(* The slot.                                                               *)

(* Mutant of Settle: the token is not cancelled.                           *)
SettleKeepsToken(o, from) ==
  /\ ctx' = NoRequest
  /\ answer' = [answer EXCEPT ![ctx] = o]
  /\ answeredBy' = [answeredBy EXCEPT ![ctx] = from]
  /\ UNCHANGED cancelled

(* Mutant of Settle: the request is read but left in the slot.             *)
SettleLeavesSlot(o, from) ==
  /\ cancelled' = cancelled \cup {ctx}
  /\ answer' = [answer EXCEPT ![ctx] = o]
  /\ answeredBy' = [answeredBy EXCEPT ![ctx] = from]
  /\ UNCHANGED ctx

(* Mutant of Settle: the answer is not sent.                               *)
SettleSilently(o, from) ==
  /\ ctx' = NoRequest
  /\ cancelled' = cancelled \cup {ctx}
  /\ UNCHANGED <<answer, answeredBy>>

(* Take the request in the slot, cancel its token, send the answer; all    *)
(* three happen under the slot's lock.                                     *)
Settle(o, from) ==
  /\ ctx' = NoRequest
  /\ cancelled' = cancelled \cup {ctx}
  /\ answer' = [answer EXCEPT ![ctx] = o]
  /\ answeredBy' = [answeredBy EXCEPT ![ctx] = from]

(* Mutant of Accept: the slot is overwritten without a look.               *)
AcceptOverSlot(r) ==
  /\ MayRun /\ ServiceFree /\ ~poisoned
  /\ answer[r] = "unused"
  /\ ctx' = r
  /\ answer' = [answer EXCEPT ![r] = "open"]
  /\ UNCHANGED <<poisoned, cancelled, answeredBy>> /\ UNCHANGED streamVars

(* Mutant of Accept: a poisoned slot is taken all the same.                *)
AcceptPoisoned(r) ==
  /\ MayRun /\ ServiceFree
  /\ answer[r] = "unused"
  /\ ctx = NoRequest
  /\ ctx' = r
  /\ answer' = [answer EXCEPT ![r] = "open"]
  /\ UNCHANGED <<poisoned, cancelled, answeredBy>> /\ UNCHANGED streamVars

(* init_request with the slot empty: the request takes it.                 *)
Accept(r) ==
  /\ MayRun /\ ServiceFree /\ ~poisoned
  /\ answer[r] = "unused"
  /\ ctx = NoRequest
  /\ ctx' = r
  /\ answer' = [answer EXCEPT ![r] = "open"]
  /\ UNCHANGED <<poisoned, cancelled, answeredBy>> /\ UNCHANGED streamVars

(* init_request with the slot taken: "Already a request in progress."      *)
Refuse(r) ==
  /\ MayRun /\ ServiceFree /\ ~poisoned
  /\ answer[r] = "unused"
  /\ ctx # NoRequest
  /\ answer' = [answer EXCEPT ![r] = "refused"]
  /\ UNCHANGED <<ctx, poisoned, cancelled, answeredBy>> /\ UNCHANGED streamVars

(* init_request with the mutex poisoned: lock().unwrap() panics and the    *)
(* response channel is dropped with the call.                              *)
InitPanics(r) ==
  /\ MayRun /\ ServiceFree /\ poisoned
  /\ answer[r] = "unused"
  /\ answer' = [answer EXCEPT ![r] = "dropped"]
  /\ UNCHANGED <<ctx, poisoned, cancelled, answeredBy>> /\ UNCHANGED streamVars

(* Mutant of CancelRequest: the slot is not compared with the request.     *)
CancelWhateverIsThere(r) ==
  /\ MayRun /\ ServiceFree
  /\ answer[r] \notin {"unused", "refused", "dropped"}
  /\ Settle("cancelled", r)
  /\ UNCHANGED poisoned /\ UNCHANGED streamVars

(* cancel_request, with the id init_request returned: only the request of  *)
(* that id is taken out of the slot.  (A poisoned slot is empty, and the   *)
(* call panics without changing anything.)                                 *)
CancelRequest(r) ==
  /\ MayRun /\ ServiceFree
  /\ answer[r] \notin {"unused", "refused", "dropped"}
  /\ IF ctx = r
     THEN Settle("cancelled", r)
     ELSE UNCHANGED slotVars
  /\ UNCHANGED poisoned /\ UNCHANGED streamVars

(* Mutant of CompleteRequest: an empty slot is not noticed.                *)
CompleteUnchecked(o, from) == Settle(o, from)

(* Mutant of CompleteRequest: a failed ceremony does not end the request.  *)
CompleteOnSuccess(o, from) ==
  IF ctx # NoRequest /\ o = "credential" THEN Settle(o, from) ELSE UNCHANGED slotVars

(* complete_request does not compare ids: it takes whatever the slot       *)
(* holds, and only logs when it is empty.                                  *)
CompleteRequest(o, from) ==
  IF ctx # NoRequest THEN Settle(o, from) ELSE UNCHANGED slotVars

----
(* Discoveries.                                                            *)

(* start_discovery waits for the list of transports; T is what it answers. *)
StartDiscovery(d, T) ==
  /\ MayRun /\ ServiceFree
  /\ stream[d] = Silent /\ owner[d] = NoRequest
  /\ stream' = [stream EXCEPT
       ![d] = [tr \in Transports |-> IF tr \in T THEN "pending" ELSE "absent"]]
  /\ UNCHANGED <<poisoned, owner, polled>> /\ UNCHANGED slotVars

(* The caller drops the call while it waits for the transports.            *)
AbandonDiscovery(d) ==
  /\ MayRun
  /\ Starting(d)
  /\ owner[d] = NoRequest
  /\ stream' = [stream EXCEPT ![d] = Silent]
  /\ UNCHANGED <<poisoned, owner, polled>> /\ UNCHANGED slotVars

(* get_usb_credential, then get_hybrid_credential.                         *)
Turn(d, tr) ==
  /\ stream[d][tr] = "pending"
  /\ tr = "hybrid" => stream[d]["usb"] # "pending"

(* The stream copies the token of the request in the slot, whose ceremony  *)
(* the handler starts.                                                     *)
StartTransport(d, tr) ==
  /\ MayRun
  /\ Turn(d, tr)
  /\ ctx # NoRequest /\ ~poisoned
  /\ owner' = [owner EXCEPT ![d] = ctx]
  /\ stream' = [stream EXCEPT ![d][tr] = "live"]
  /\ UNCHANGED <<poisoned, polled>> /\ UNCHANGED slotVars

(* The slot is empty (todo!) or already poisoned (unwrap): the call panics *)
(* with the slot's guard in its hand.                                      *)
StartPanics(d, tr) ==
  /\ MayRun
  /\ Turn(d, tr)
  /\ ctx = NoRequest \/ poisoned
  /\ poisoned' = TRUE
  /\ stream' = [stream EXCEPT ![d] = Silent]
  /\ UNCHANGED <<owner, polled>> /\ UNCHANGED slotVars

----
(* Polling the merged stream of a discovery.                               *)

Ready(d, tr) ==
  /\ MayRun
  /\ ~Starting(d)
  /\ stream[d][tr] = "live"
  /\ polled[d] = NoEvent

(* Mutant of PollReady: the token is not looked at.                        *)
PollIgnoringToken(d, tr, e) ==
  /\ Ready(d, tr)
  /\ polled' = [polled EXCEPT ![d] = e]
  /\ UNCHANGED <<poisoned, owner, stream>> /\ UNCHANGED slotVars

(* First half of poll_next: the handler has an event and the token of the  *)
(* stream's own request is not cancelled.  Failed(RequestCancelled) is no  *)
(* event here: a handler sends it only once its token is cancelled, so it  *)
(* is swallowed with everything else (StreamEnds).                         *)
PollReady(d, tr, e) ==
  /\ Ready(d, tr)
  /\ owner[d] \notin cancelled
  /\ polled' = [polled EXCEPT ![d] = e]
  /\ UNCHANGED <<poisoned, owner, stream>> /\ UNCHANGED slotVars

(* poll_next finds the token cancelled and swallows the event, or the      *)
(* handler has hung up: the stream ends.                                   *)
StreamEnds(d, tr) ==
  /\ Ready(d, tr)
  /\ stream' = [stream EXCEPT ![d][tr] = "ended"]
  /\ UNCHANGED <<poisoned, owner, polled>> /\ UNCHANGED slotVars

(* Second half of poll_next for a state that ends nothing.                 *)
YieldProgress(d) ==
  /\ polled[d] \in Progress
  /\ polled' = [polled EXCEPT ![d] = NoEvent]
  /\ UNCHANGED <<poisoned, owner, stream>> /\ UNCHANGED slotVars

(* Second half of poll_next for Completed and Failed.                      *)
YieldFinal(d) ==
  /\ polled[d] \in FinalEvents
  /\ ~poisoned
  /\ CompleteRequest(OutcomeOf(polled[d]), owner[d])
  /\ polled' = [polled EXCEPT ![d] = NoEvent]
  /\ UNCHANGED <<poisoned, owner, stream>>

(* complete_request panics on a poisoned slot; the streams die with the    *)
(* task that polls them.                                                   *)
YieldPanics(d) ==
  /\ polled[d] \in FinalEvents
  /\ poisoned
  /\ polled' = [polled EXCEPT ![d] = NoEvent]
  /\ stream' = [stream EXCEPT ![d] = [tr \in Transports |-> "ended"]]
  /\ UNCHANGED <<poisoned, owner>> /\ UNCHANGED slotVars

(* The task that polls the merged stream stops and drops it.               *)
DropStreams(d) ==
  /\ MayRun
  /\ ~Starting(d) /\ polled[d] = NoEvent
  /\ \E tr \in Transports : stream[d][tr] = "live"
  /\ stream' = [stream EXCEPT ![d] = [tr \in Transports |-> "ended"]]
  /\ UNCHANGED <<poisoned, owner, polled>> /\ UNCHANGED slotVars

----
InitRequest(r) == Accept(r) \/ Refuse(r) \/ InitPanics(r)

ServiceNext ==
  \/ \E r \in Requests : InitRequest(r) \/ CancelRequest(r)
  \/ \E d \in Discoveries :
       \/ \E T \in SUBSET Transports : StartDiscovery(d, T)
       \/ AbandonDiscovery(d) \/ DropStreams(d)
       \/ YieldProgress(d) \/ YieldFinal(d) \/ YieldPanics(d)
       \/ \E tr \in Transports :
            \/ StartTransport(d, tr) \/ StartPanics(d, tr) \/ StreamEnds(d, tr)
            \/ \E e \in Events : PollReady(d, tr, e)

ServiceSpec == ServiceInit /\ [][ServiceNext]_serviceVars

----
(* Properties.                                                             *)

(* A response channel that was accepted and not yet answered is the one in *)
(* the slot, and the other way round.  It is what keeps the `expect` at    *)
(* the end of flow_control.rs's handle from firing: no path drops the      *)
(* sender without sending.                                                 *)
NoReplyLost ==
  \A r \in Requests : answer[r] = "open" <=> ctx = r

(* A request's token is cancelled exactly when its answer has been sent:   *)
(* no transport keeps running for an answered request, none is stopped     *)
(* while its client still waits.                                           *)
TokenCancelledIffAnswered ==
  \A r \in Requests : r \in cancelled <=> answer[r] \in Sent

(* Once a client has been answered, no late transport, second user action  *)
(* or new request changes that answer.                                     *)
AnswerIsFinal ==
  [][\A r \in Requests :
       answer[r] \notin {"unused", "open"} => answer'[r] = answer[r]]_serviceVars

(* A panic that breaks the service down strands nobody: no accepted client *)
(* waits for an answer that a poisoned slot could not give any more.       *)
PanicStrandsNobody ==
  poisoned => \A r \in Requests : answer[r] # "open"

(* A client receives the outcome of its own ceremony: a credential or a    *)
(* failure produced for one request never answers another.                 *)
OwnOutcome ==
  \A r \in Requests : answer[r] \in Sent => answeredBy[r] = r

(* What is left of it with several threads: an outcome that is not the     *)
(* client's own belongs to a request that had been answered before, whose  *)
(* transport was already past its token check; a cancellation is always    *)
(* the client's own.                                                       *)
OutcomeOwnOrOvertaken ==
  \A r \in Requests :
    answer[r] \in Sent =>
      \/ answeredBy[r] = r
      \/ /\ MultiThreaded /\ answer[r] # "cancelled"
         /\ answeredBy[r] \in Requests /\ answer[answeredBy[r]] \in Sent

(* The service implements SingleCeremony: one ceremony at a time, each     *)
(* request answered once; by its own outcome with one worker thread, and   *)
(* by an overtaken one at worst with several.                              *)
Promise == INSTANCE SingleCeremony WITH
  Verdicts <- Sent, Cancellation <- "cancelled", Overtaking <- MultiThreaded,
  active <- ctx, verdict <- answer, author <- answeredBy

ImplementsSingleCeremony == Promise!Spec
====
