---- MODULE FlowControl ----
(***************************************************************************)
(* The flow controller (credentialsd/src/dbus/flow_control.rs) around the  *)
(* credential service, with the part of the gateway that feeds it          *)
(* (credentialsd/src/gateway/dbus.rs: the mutex a D-Bus method holds while *)
(* its request is served).                                                 *)
(*                                                                         *)
(* Actors: one D-Bus method per client request; the listener, which serves *)
(* one request after the other; one user-interaction loop per request that *)
(* got a window; one forwarding task per discovery; the user and the       *)
(* authenticators, who may do anything the channels allow.                 *)
(*                                                                         *)
(* Every task may be preempted between any two of its steps, as on the     *)
(* multi-threaded runtime of main.rs.                                      *)
(***************************************************************************)
EXTENDS CredentialService, Naturals, Sequences

CONSTANTS
  MailboxCapacity,  (* bound of the channel from the gateway               *)
  TransportLists,   (* what available_transports may answer (libwebauthn)  *)
  NoDiscovery

ASSUME FlowAssumption ==
  /\ MultiThreaded
  /\ MailboxCapacity \in Nat \ {0}
  /\ TransportLists \subseteq SUBSET Transports
  /\ NoDiscovery \notin Discoveries
  /\ Progress \subseteq {"working", "needs_pin", "pin_not_set", "select_credential"}

VARIABLES
  caller,        (* per request, where its D-Bus method is                 *)
  gateway,       (* the request whose method holds the gateway's mutex     *)
  result,        (* per request, what the flow controller gave the gateway *)
  mailbox,       (* the channel to the listener                            *)
  listener,      (* the listener's program counter                         *)
  serving,       (* the request the listener's handle works on             *)
  launchFailed,  (* the requests whose window could not be opened          *)
  ui,            (* per request, where its user-interaction loop is        *)
  uiEvent,       (* per request, the user event the loop is acting on      *)
  startedBy,     (* per discovery, the request whose loop asked for it     *)
  entrySlot,     (* per request and kind of entry, who waits for it        *)
  outgoing,      (* per discovery, the state its task is about to forward  *)
  shown          (* per request, the final state its window was given      *)

flowVars == <<caller, gateway, result, mailbox, listener, serving,
              launchFailed, ui, uiEvent, startedBy, entrySlot, outgoing, shown>>
vars == <<serviceVars, flowVars>>

callVars == <<caller, gateway>>
listenerVars == <<mailbox, listener, serving, launchFailed>>
uiVars == <<ui, uiEvent>>
windowVars == <<startedBy, entrySlot, outgoing, shown>>

(* What a prompt asks of the user, and the event that carries the entry:   *)
(* client_pin_tx, set_pin_tx and cred_selector_tx are one slot each.       *)
Prompts == Progress \ {"working"}
UiEvents == {"discover", "cancel"} \cup Prompts

Results == {"none", "credential", "InvalidStateError", "NotAllowedError"}

FlowTypeOK ==
  /\ ServiceTypeOK
  /\ caller \in [Requests -> {"idle", "waiting", "sent", "done", "crashed"}]
  /\ gateway \in Requests \cup {NoRequest}
  /\ result \in [Requests -> Results]
  /\ mailbox \in Seq(Requests) /\ Len(mailbox) <= MailboxCapacity
  /\ listener \in {"receiving", "launching", "awaiting", "dead"}
  /\ serving \in Requests \cup {NoRequest}
  /\ launchFailed \in SUBSET Requests
  /\ ui \in [Requests -> {"none", "listening", "acting", "probing", "starting",
                          "stopped", "panicked"}]
  /\ uiEvent \in [Requests -> UiEvents \cup {NoEvent}]
  /\ startedBy \in [Discoveries -> Requests \cup {NoRequest}]
  /\ entrySlot \in [Requests -> [Prompts -> Discoveries \cup {NoDiscovery}]]
  /\ outgoing \in [Discoveries -> Events \cup {NoEvent}]
  /\ shown \in [Requests -> FinalEvents \cup {NoEvent}]

FlowInit ==
  /\ ServiceInit
  /\ caller = [r \in Requests |-> "idle"]
  /\ gateway = NoRequest
  /\ result = [r \in Requests |-> "none"]
  /\ mailbox = <<>>
  /\ listener = "receiving"
  /\ serving = NoRequest
  /\ launchFailed = {}
  /\ ui = [r \in Requests |-> "none"]
  /\ uiEvent = [r \in Requests |-> NoEvent]
  /\ startedBy = [d \in Discoveries |-> NoRequest]
  /\ entrySlot = [r \in Requests |-> [k \in Prompts |-> NoDiscovery]]
  /\ outgoing = [d \in Discoveries |-> NoEvent]
  /\ shown = [r \in Requests |-> NoEvent]

----
(* The gateway's method calls.                                             *)

(* A client calls CreateCredential or GetCredential; the method waits for  *)
(* the mutex around the gateway service.                                   *)
Call(r) ==
  /\ caller[r] = "idle"
  /\ caller' = [caller EXCEPT ![r] = "waiting"]
  /\ UNCHANGED <<gateway, result>> /\ UNCHANGED serviceVars
  /\ UNCHANGED listenerVars /\ UNCHANGED uiVars /\ UNCHANGED windowVars

(* request_credential: with the mutex held, send the request on.           *)
Submit(r) ==
  /\ caller[r] = "waiting" /\ gateway = NoRequest
  /\ listener # "dead" /\ Len(mailbox) < MailboxCapacity
  /\ gateway' = r
  /\ caller' = [caller EXCEPT ![r] = "sent"]
  /\ mailbox' = Append(mailbox, r)
  /\ UNCHANGED <<result, listener, serving, launchFailed>>
  /\ UNCHANGED serviceVars /\ UNCHANGED uiVars /\ UNCHANGED windowVars

(* send(..).await.unwrap() panics when the listener has gone.              *)
SubmitPanics(r) ==
  /\ caller[r] = "waiting" /\ gateway = NoRequest
  /\ listener = "dead"
  /\ caller' = [caller EXCEPT ![r] = "crashed"]
  /\ UNCHANGED <<gateway, result>> /\ UNCHANGED serviceVars
  /\ UNCHANGED listenerVars /\ UNCHANGED uiVars /\ UNCHANGED windowVars

(* The method returns to the client and lets go of the mutex.              *)
Return(r) ==
  /\ caller[r] = "sent" /\ result[r] # "none"
  /\ caller' = [caller EXCEPT ![r] = "done"]
  /\ gateway' = NoRequest
  /\ UNCHANGED result /\ UNCHANGED serviceVars
  /\ UNCHANGED listenerVars /\ UNCHANGED uiVars /\ UNCHANGED windowVars

----
(* The listener and handle.                                                *)

(* request_credential's view of the service's answers.                     *)
WebAuthnResult(a) ==
  CASE a = "credential" -> "credential"
    [] a = "excluded" -> "InvalidStateError"
    [] OTHER -> "NotAllowedError"

(* handle: init_request gives the request the slot.                        *)
ReceiveAccepted ==
  /\ listener = "receiving" /\ mailbox # <<>>
  /\ Accept(Head(mailbox))
  /\ mailbox' = Tail(mailbox)
  /\ listener' = "launching" /\ serving' = Head(mailbox)
  /\ UNCHANGED <<result, launchFailed>> /\ UNCHANGED callVars
  /\ UNCHANGED uiVars /\ UNCHANGED windowVars

(* handle returns init_request's error at once.                            *)
ReceiveRefused ==
  /\ listener = "receiving" /\ mailbox # <<>>
  /\ Refuse(Head(mailbox))
  /\ mailbox' = Tail(mailbox)
  /\ result' = [result EXCEPT ![Head(mailbox)] = "NotAllowedError"]
  /\ UNCHANGED <<listener, serving, launchFailed>> /\ UNCHANGED callVars
  /\ UNCHANGED uiVars /\ UNCHANGED windowVars

(* init_request panics and takes the listener with it; the client's        *)
(* response channel closes.                                                *)
ListenerDies ==
  /\ listener = "receiving" /\ mailbox # <<>>
  /\ InitPanics(Head(mailbox))
  /\ mailbox' = Tail(mailbox)
  /\ listener' = "dead"
  /\ result' = [result EXCEPT ![Head(mailbox)] = "NotAllowedError"]
  /\ UNCHANGED <<serving, launchFailed>> /\ UNCHANGED callVars
  /\ UNCHANGED uiVars /\ UNCHANGED windowVars

(* create_session succeeds: the interaction loop is spawned and handle     *)
(* waits for the answer.                                                   *)
Launch ==
  /\ listener = "launching"
  /\ listener' = "awaiting"
  /\ ui' = [ui EXCEPT ![serving] = "listening"]
  /\ UNCHANGED <<result, mailbox, serving, launchFailed, uiEvent>>
  /\ UNCHANGED serviceVars /\ UNCHANGED callVars /\ UNCHANGED windowVars

(* create_session fails: handle returns the error; the slot is not touched. *)
LaunchFails ==
  /\ listener = "launching"
  /\ listener' = "receiving" /\ serving' = NoRequest
  /\ launchFailed' = launchFailed \cup {serving}
  /\ result' = [result EXCEPT ![serving] = "NotAllowedError"]
  /\ UNCHANGED mailbox /\ UNCHANGED serviceVars /\ UNCHANGED callVars
  /\ UNCHANGED uiVars /\ UNCHANGED windowVars

(* Mutant of Reply: handle does not wait for the answer.                   *)
ReplyEarly ==
  /\ listener = "awaiting"
  /\ result' = [result EXCEPT ![serving] = WebAuthnResult(answer[serving])]
  /\ listener' = "receiving" /\ serving' = NoRequest
  /\ UNCHANGED <<mailbox, launchFailed>> /\ UNCHANGED serviceVars
  /\ UNCHANGED callVars /\ UNCHANGED uiVars /\ UNCHANGED windowVars

(* request_rx yields the answer, which the listener passes on.             *)
Reply ==
  /\ listener = "awaiting" /\ answer[serving] \in Sent
  /\ result' = [result EXCEPT ![serving] = WebAuthnResult(answer[serving])]
  /\ listener' = "receiving" /\ serving' = NoRequest
  /\ UNCHANGED <<mailbox, launchFailed>> /\ UNCHANGED serviceVars
  /\ UNCHANGED callVars /\ UNCHANGED uiVars /\ UNCHANGED windowVars

----
(* The user-interaction loop of a request, inside run_until_cancelled,     *)
(* which polls the loop first and looks at the token when the loop is      *)
(* suspended: a cancelled loop goes on as far as it gets without waiting.  *)

(* The loop takes an event; what it does with it is a step of its own.     *)
UiTakes(r, e) ==
  /\ ui[r] = "listening"
  /\ ui' = [ui EXCEPT ![r] = "acting"]
  /\ uiEvent' = [uiEvent EXCEPT ![r] = e]
  /\ UNCHANGED result /\ UNCHANGED serviceVars /\ UNCHANGED callVars
  /\ UNCHANGED listenerVars

UiReceive(r, e) ==
  /\ UiTakes(r, e)
  /\ UNCHANGED windowVars

(* DiscoveryRequested; d stands for the call of start_discovery it causes. *)
UiReceiveDiscovery(r, d) ==
  /\ startedBy[d] = NoRequest
  /\ UiTakes(r, "discover")
  /\ startedBy' = [startedBy EXCEPT ![d] = r]
  /\ UNCHANGED <<entrySlot, outgoing, shown>>

UiGoes(r, pc) ==
  /\ ui' = [ui EXCEPT ![r] = pc]
  /\ uiEvent' = [uiEvent EXCEPT ![r] = NoEvent]
  /\ UNCHANGED result /\ UNCHANGED callVars /\ UNCHANGED listenerVars

(* The stream of user events ends without a cancellation.                  *)
UiStreamCloses(r) ==
  /\ ui[r] = "listening"
  /\ UiGoes(r, "stopped")
  /\ UNCHANGED serviceVars /\ UNCHANGED windowVars

(* A PIN cannot be read from its file descriptor: the loop breaks, and     *)
(* does not cancel the request ("TODO: cancel the request").               *)
UiUnreadablePin(r) ==
  /\ ui[r] = "listening"
  /\ UiGoes(r, "stopped")
  /\ UNCHANGED serviceVars /\ UNCHANGED windowVars

(* Mutant of UiStops: the loop waits for events though its token is        *)
(* cancelled.                                                              *)
UiWaitsOn(r) ==
  r \in cancelled /\ ui[r] = "listening" /\ UNCHANGED vars

(* The loop waits, for an event or for the service's mutex, and its token  *)
(* is found cancelled.  A discovery always waits: available_transports     *)
(* asks the system and never answers at once.                              *)
UiStops(r) ==
  /\ r \in cancelled
  /\ \/ ui[r] = "listening"
     \/ ui[r] = "acting" /\ uiEvent[r] = "discover"
     \/ ui[r] = "acting" /\ uiEvent[r] = "cancel" /\ ~ServiceFree
  /\ UiGoes(r, "stopped")
  /\ UNCHANGED serviceVars /\ UNCHANGED windowVars

(* start_discovery, behind the service's mutex: it waits for the list of   *)
(* transports, and the token is not cancelled then.                        *)
UiDiscover(r, d) ==
  /\ ui[r] = "acting" /\ uiEvent[r] = "discover" /\ r \notin cancelled
  /\ startedBy[d] = r
  /\ \E T \in TransportLists : StartDiscovery(d, T)
  /\ UiGoes(r, "probing")
  /\ UNCHANGED windowVars

(* The list of transports is there: the loop is polled and goes on, even   *)
(* if its token was cancelled meanwhile.                                   *)
UiResume(r) ==
  /\ ui[r] = "probing"
  /\ UiGoes(r, "starting")
  /\ UNCHANGED serviceVars /\ UNCHANGED windowVars

(* The token is cancelled and the list is not there: start_discovery is    *)
(* dropped.                                                                *)
UiAbandons(r, d) ==
  /\ ui[r] = "probing" /\ r \in cancelled /\ startedBy[d] = r
  /\ AbandonDiscovery(d)
  /\ UiGoes(r, "stopped")
  /\ UNCHANGED windowVars

(* The streams are started in turn; with the last one the forwarding task  *)
(* is spawned and the loop goes back to its events.                        *)
UiStartTransport(r, d, tr) ==
  /\ ui[r] = "starting" /\ startedBy[d] = r
  /\ StartTransport(d, tr)
  /\ UiGoes(r, IF \E x \in Transports : stream'[d][x] = "pending"
               THEN "starting" ELSE "listening")
  /\ UNCHANGED windowVars

UiPanics(r, d, tr) ==
  /\ ui[r] = "starting" /\ startedBy[d] = r
  /\ StartPanics(d, tr)
  /\ UiGoes(r, "panicked")
  /\ UNCHANGED windowVars

(* A PIN or a choice of credential: it goes to whoever prompted last, and  *)
(* is only logged when nobody waits for it.                                *)
UiEntry(r) ==
  /\ ui[r] = "acting" /\ uiEvent[r] \in Prompts
  /\ entrySlot' = [entrySlot EXCEPT ![r][uiEvent[r]] = NoDiscovery]
  /\ UiGoes(r, "listening")
  /\ UNCHANGED <<startedBy, outgoing, shown>> /\ UNCHANGED serviceVars

(* RequestCancelled: the user closed the window.  A poisoned slot panics   *)
(* the loop (cancel_request's expect).                                     *)
UiCancels(r) ==
  /\ ui[r] = "acting" /\ uiEvent[r] = "cancel"
  /\ CancelRequest(r)
  /\ UiGoes(r, IF poisoned THEN "panicked" ELSE "stopped")
  /\ UNCHANGED windowVars

----
(* The forwarding task of a discovery.                                     *)

ForwardPolls(d, tr, e) ==
  /\ outgoing[d] = NoEvent
  /\ PollReady(d, tr, e)
  /\ UNCHANGED flowVars

ForwardStreamEnds(d, tr) ==
  /\ outgoing[d] = NoEvent
  /\ StreamEnds(d, tr)
  /\ UNCHANGED flowVars

(* Mutant of Remember: the entry is filed under the request in the slot.   *)
RememberForSlot(d) ==
  /\ outgoing' = [outgoing EXCEPT ![d] = polled[d]]
  /\ entrySlot' = IF polled[d] \in Prompts /\ ctx # NoRequest
                  THEN [entrySlot EXCEPT ![ctx][polled[d]] = d]
                  ELSE entrySlot

(* The map closure keeps the sender of a prompt for the loop that asked    *)
(* for this discovery, then hands the state on to be sent.                 *)
Remember(d) ==
  /\ outgoing' = [outgoing EXCEPT ![d] = polled[d]]
  /\ entrySlot' = IF polled[d] \in Prompts
                  THEN [entrySlot EXCEPT ![startedBy[d]][polled[d]] = d]
                  ELSE entrySlot

ForwardYields(d) ==
  /\ YieldProgress(d) \/ YieldFinal(d)
  /\ Remember(d)
  /\ UNCHANGED <<result, startedBy, shown>> /\ UNCHANGED callVars
  /\ UNCHANGED listenerVars /\ UNCHANGED uiVars

(* complete_request on a poisoned slot: the forwarding task dies.          *)
ForwardPanics(d) ==
  /\ YieldPanics(d)
  /\ UNCHANGED flowVars

Deliver(d) ==
  /\ outgoing[d] # NoEvent
  /\ outgoing' = [outgoing EXCEPT ![d] = NoEvent]
  /\ UNCHANGED <<result, startedBy, entrySlot>> /\ UNCHANGED callVars
  /\ UNCHANGED listenerVars /\ UNCHANGED uiVars

(* send_state_update to the window of the loop that asked.                 *)
ForwardSends(d) ==
  /\ Deliver(d)
  /\ shown' = IF outgoing[d] \in FinalEvents
              THEN [shown EXCEPT ![startedBy[d]] = outgoing[d]]
              ELSE shown
  /\ UNCHANGED serviceVars

(* The call to the window fails: the task breaks and drops the streams.    *)
ForwardBreaks(d) ==
  /\ Deliver(d)
  /\ UNCHANGED shown
  /\ DropStreams(d) \/ /\ \A tr \in Transports : stream[d][tr] # "live"
                       /\ UNCHANGED serviceVars

----
UserActs(r) ==
  \/ UiStreamCloses(r) \/ UiUnreadablePin(r)
  \/ \E e \in {"cancel"} \cup Prompts : UiReceive(r, e)
  \/ \E d \in Discoveries : UiReceiveDiscovery(r, d)

UiWorks(r) ==
  \/ UiStops(r) \/ UiResume(r) \/ UiEntry(r) \/ UiCancels(r)
  \/ \E d \in Discoveries :
       \/ UiDiscover(r, d) \/ UiAbandons(r, d)
       \/ \E tr \in Transports : UiStartTransport(r, d, tr) \/ UiPanics(r, d, tr)

ListenerWorks ==
  ReceiveAccepted \/ ReceiveRefused \/ ListenerDies \/ Launch \/ LaunchFails \/ Reply

ForwardWorks(d) ==
  ForwardYields(d) \/ ForwardPanics(d) \/ ForwardSends(d) \/ ForwardBreaks(d)

AuthenticatorActs(d) ==
  \E tr \in Transports :
    ForwardStreamEnds(d, tr) \/ \E e \in Events : ForwardPolls(d, tr, e)

FlowNext ==
  \/ ListenerWorks
  \/ \E r \in Requests :
       Call(r) \/ Submit(r) \/ SubmitPanics(r) \/ Return(r) \/ UserActs(r) \/ UiWorks(r)
  \/ \E d \in Discoveries : AuthenticatorActs(d) \/ ForwardWorks(d)

FlowSpec == FlowInit /\ [][FlowNext]_vars

(* The runtime schedules every task that can run, the window is opened or  *)
(* fails to open, the transports are listed, calls to the window return,   *)
(* and a user who is left alone closes the window in the end, unless the   *)
(* request is over: the event waits in the channel of the loop until the   *)
(* loop comes back to it.  A loop that goes on with events after its token *)
(* was cancelled is found out in the end: it waits whenever no event is    *)
(* ready, and tokio's budget makes it wait when events never run out.      *)
(* Authenticators owe nothing.                                             *)
FlowFairness ==
  /\ WF_vars(ListenerWorks)
  /\ \A r \in Requests :
       /\ WF_vars(Submit(r) \/ SubmitPanics(r)) /\ WF_vars(Return(r))
       /\ WF_vars(UiWorks(r)) /\ SF_vars(UiStops(r))
       /\ SF_vars(r \notin cancelled /\ UiReceive(r, "cancel"))
  /\ \A d \in Discoveries : WF_vars(ForwardWorks(d))

FlowFairSpec == FlowSpec /\ FlowFairness

----
(* Properties.                                                             *)

(* A loop whose token is not cancelled belongs to the request in the slot: *)
(* at most one window can act on the service, and it acts on its own       *)
(* request.                                                                *)
LiveLoopOwnsSlot ==
  \A r \in Requests :
    ui[r] \in {"listening", "acting", "probing", "starting"} =>
      r \in cancelled \/ ctx = r

(* Closing a window cancels that window's request and no other, however    *)
(* late the cancellation reaches the service.                              *)
CancelledByOwnUser ==
  \A r \in Requests : answer[r] = "cancelled" => answeredBy[r] = r

(* "Already a request in progress" is never an accident of scheduling: a   *)
(* request is refused only after some window could not be opened.          *)
RefusedOnlyAfterFailedLaunch ==
  \A r \in Requests : answer[r] = "refused" => launchFailed # {}

(* A window shows that the ceremony is over only when the client's request *)
(* has been answered.                                                      *)
UiToldAfterClient ==
  \A r \in Requests : shown[r] # NoEvent => answer[r] \in Sent

(* What the user types in a window goes to an authenticator that works for *)
(* the window's request.                                                   *)
EntryReachesOwnCeremony ==
  \A r \in Requests : \A k \in Prompts :
    entrySlot[r][k] # NoDiscovery => owner[entrySlot[r][k]] = r

(* The client is told what the service decided about its request, and not  *)
(* before; the exception is a window that could not be opened.             *)
ClientToldTheDecision ==
  \A r \in Requests :
    result[r] # "none" =>
      \/ r \in launchFailed /\ result[r] = "NotAllowedError"
      \/ /\ answer[r] \notin {"unused", "open"}
         /\ result[r] = WebAuthnResult(answer[r])

(* A user-interaction loop that ended while its request still waits.       *)
LoopBroke(r) == ui[r] = "stopped" /\ r \notin cancelled

(* Every call of a client returns, unless some loop ended without          *)
(* cancelling its request.                                                 *)
CallsReturnUnlessLoopBroke ==
  \A r \in Requests :
    caller[r] = "waiting" ~>
      caller[r] \in {"done", "crashed"} \/ \E q \in Requests : LoopBroke(q)

(* A loop whose request is over ends, so that it holds on to nothing.      *)
LoopsEnd ==
  \A r \in Requests :
    r \in cancelled ~> ui[r] \notin {"listening", "acting", "probing", "starting"}

(* What flow_control.rs logs when the window cannot be opened: "Cancelling *)
(* request."                                                               *)
FailedLaunchCancelsRequest ==
  \A r \in Requests : r \in launchFailed /\ listener = "receiving" => ctx # r
====
