---- MODULE FlowControlProofs ----
(***************************************************************************)
(* Proofs about FlowControl, for any sets of requests and discoveries, any *)
(* mailbox capacity and a runtime with several threads.                    *)
(*                                                                         *)
(* Every step of the whole is a step of the credential service or leaves   *)
(* it alone, so what CredentialServiceProofs shows on any runtime holds    *)
(* here; the invariants of the flow controller are added to it part by     *)
(* part.                                                                   *)
(***************************************************************************)
EXTENDS FlowControl, CredentialServiceProofs

(* The request the listener works on, and every request with a loop, got   *)
(* the slot.                                                               *)
LoopsOfAccepted ==
  /\ listener \in {"launching", "awaiting"} =>
       serving \in Requests /\ answer[serving] \in Accepted
  /\ \A r \in Requests : ui[r] # "none" => answer[r] \in Accepted

(* Only the request being served, or one whose window failed to open, is   *)
(* in the slot.                                                            *)
SlotIsServed ==
  ctx # NoRequest =>
    \/ ctx \in launchFailed
    \/ listener \in {"launching", "awaiting"} /\ serving = ctx

(* A discovery that has streams was asked for by the loop of a request     *)
(* that got the slot.                                                      *)
DiscoveriesOfLoops ==
  \A d \in Discoveries :
    /\ owner[d] # NoRequest \/ outgoing[d] # NoEvent => startedBy[d] # NoRequest
    /\ startedBy[d] # NoRequest => answer[startedBy[d]] \in Accepted

FlowInv ==
  /\ FlowTypeOK /\ SlotInv
  /\ LoopsOfAccepted /\ DiscoveriesOfLoops /\ SlotIsServed

----
(* The service inside.                                                     *)

(* What a step of the whole does to the service.                           *)
LEMMA FlowStepKinds ==
  ASSUME [FlowNext]_vars
  PROVE  \/ ReceiveAccepted \/ ReceiveRefused \/ ListenerDies
         \/ \E r \in Requests : CancelRequest(r)
         \/ \E d \in Discoveries : StreamStep(d) \/ YieldFinal(d)
         \/ UNCHANGED serviceVars
<1>1. CASE ListenerWorks
  BY <1>1 DEF ListenerWorks, Launch, LaunchFails, Reply
<1>2. ASSUME NEW r \in Requests, Call(r) \/ Submit(r) \/ SubmitPanics(r) \/ Return(r)
      PROVE  UNCHANGED serviceVars
  BY <1>2 DEF Call, Submit, SubmitPanics, Return
<1>3. ASSUME NEW r \in Requests, UserActs(r)
      PROVE  UNCHANGED serviceVars
  BY <1>3 DEF UserActs, UiStreamCloses, UiUnreadablePin, UiReceive, UiReceiveDiscovery, UiTakes
<1>4. ASSUME NEW r \in Requests, UiWorks(r)
      PROVE  CancelRequest(r) \/ (\E d \in Discoveries : StreamStep(d)) \/ UNCHANGED serviceVars
  <2>1. CASE UiStops(r) \/ UiResume(r) \/ UiEntry(r) \/ UiCancels(r)
    BY <2>1 DEF UiStops, UiResume, UiEntry, UiCancels
  <2>2. ASSUME NEW d \in Discoveries, UiDiscover(r, d) \/ UiAbandons(r, d)
        PROVE  StreamStep(d)
    BY <2>2, FlowAssumption DEF UiDiscover, UiAbandons, StreamStep
  <2>3. ASSUME NEW d \in Discoveries, NEW tr \in Transports,
               UiStartTransport(r, d, tr) \/ UiPanics(r, d, tr)
        PROVE  StreamStep(d)
    BY <2>3 DEF UiStartTransport, UiPanics, StreamStep
  <2> QED
    BY <1>4, <2>1, <2>2, <2>3 DEF UiWorks
<1>5. ASSUME NEW d \in Discoveries, AuthenticatorActs(d)
      PROVE  StreamStep(d)
  BY <1>5 DEF AuthenticatorActs, ForwardPolls, ForwardStreamEnds, StreamStep
<1>6. ASSUME NEW d \in Discoveries, ForwardWorks(d)
      PROVE  StreamStep(d) \/ YieldFinal(d) \/ UNCHANGED serviceVars
  BY <1>6 DEF ForwardWorks, ForwardYields, ForwardPanics, ForwardSends, ForwardBreaks,
              StreamStep
<1>7. CASE UNCHANGED vars
  BY <1>7 DEF vars, serviceVars
<1> QED
  BY <1>1, <1>2, <1>3, <1>4, <1>5, <1>6, <1>7 DEF FlowNext

(* The mailbox hands requests to the listener.                             *)
LEMMA MailboxType ==
  ASSUME FlowTypeOK, mailbox # <<>>
  PROVE  /\ Head(mailbox) \in Requests
         /\ Tail(mailbox) \in Seq(Requests) /\ Len(Tail(mailbox)) <= MailboxCapacity
BY FlowAssumption DEF FlowTypeOK

(* A step of the whole is a step of the service, or the service does       *)
(* nothing.                                                                *)
LEMMA FlowStepIsService ==
  ASSUME FlowTypeOK, [FlowNext]_vars
  PROVE  [ServiceNext]_serviceVars
BY FlowStepKinds, MailboxType
   DEF ReceiveAccepted, ReceiveRefused, ListenerDies, ServiceNext, InitRequest, StreamStep

----
(* Types.                                                                  *)

(* The flow controller's variables start with their types.                 *)
LEMMA FlowTypeInit == FlowInit => FlowTypeOK
<1> SUFFICES ASSUME FlowInit PROVE FlowTypeOK
  OBVIOUS
<1>1. ServiceTypeOK
  BY SlotInvInit DEF FlowInit, SlotInv
<1>2. mailbox \in Seq(Requests) /\ Len(mailbox) <= MailboxCapacity
  BY FlowAssumption DEF FlowInit
<1>3. entrySlot \in [Requests -> [Prompts -> Discoveries \cup {NoDiscovery}]]
  BY DEF FlowInit
<1>4. /\ caller \in [Requests -> {"idle", "waiting", "sent", "done", "crashed"}]
      /\ gateway \in Requests \cup {NoRequest}
      /\ result \in [Requests -> Results]
      /\ listener \in {"receiving", "launching", "awaiting", "dead"}
      /\ serving \in Requests \cup {NoRequest}
      /\ launchFailed \in SUBSET Requests
      /\ ui \in [Requests -> {"none", "listening", "acting", "probing", "starting",
                              "stopped", "panicked"}]
      /\ uiEvent \in [Requests -> UiEvents \cup {NoEvent}]
      /\ startedBy \in [Discoveries -> Requests \cup {NoRequest}]
      /\ outgoing \in [Discoveries -> Events \cup {NoEvent}]
      /\ shown \in [Requests -> FinalEvents \cup {NoEvent}]
  BY DEF FlowInit, Results
<1> QED
  BY <1>1, <1>2, <1>3, <1>4 DEF FlowTypeOK

(* Whatever the service decides, the gateway gets a result.                *)
LEMMA ResultType == \A a : WebAuthnResult(a) \in Results \ {"none"}
BY DEF WebAuthnResult, Results

(* The listener's steps keep the types.                                    *)
LEMMA FlowTypeListener ==
  ASSUME FlowTypeOK, LoopsOfAccepted, ServiceTypeOK', ListenerWorks
  PROVE  FlowTypeOK'
<1> USE DEF callVars, uiVars, windowVars, FlowTypeOK
<1>1. CASE ReceiveAccepted
  BY <1>1, MailboxType DEF ReceiveAccepted
<1>2. CASE ReceiveRefused
  BY <1>2, MailboxType DEF ReceiveRefused, Results
<1>3. CASE ListenerDies
  BY <1>3, MailboxType DEF ListenerDies, Results
<1>4. CASE Launch
  BY <1>4 DEF Launch
<1>5. CASE LaunchFails
  BY <1>5 DEF LaunchFails, LoopsOfAccepted, Results
<1>6. CASE Reply
  BY <1>6, ResultType DEF Reply
<1> QED
  BY <1>1, <1>2, <1>3, <1>4, <1>5, <1>6 DEF ListenerWorks

(* The steps of a client's method keep the types.                          *)
LEMMA FlowTypeCaller ==
  ASSUME NEW r \in Requests, FlowTypeOK, ServiceTypeOK',
         Call(r) \/ Submit(r) \/ SubmitPanics(r) \/ Return(r)
  PROVE  FlowTypeOK'
<1> USE DEF listenerVars, uiVars, windowVars, FlowTypeOK
<1>1. CASE Submit(r)
  <2>1. Append(mailbox, r) \in Seq(Requests) /\ Len(Append(mailbox, r)) <= MailboxCapacity
    BY <1>1, FlowAssumption DEF Submit
  <2> QED
    BY <1>1, <2>1 DEF Submit
<1>2. CASE Call(r) \/ SubmitPanics(r) \/ Return(r)
  BY <1>2 DEF Call, SubmitPanics, Return
<1> QED
  BY <1>1, <1>2

(* The steps of an interaction loop keep the types.                        *)
LEMMA FlowTypeLoop ==
  ASSUME NEW r \in Requests, FlowTypeOK, ServiceTypeOK', UserActs(r) \/ UiWorks(r)
  PROVE  FlowTypeOK'
<1> USE DEF callVars, listenerVars, windowVars, FlowTypeOK
<1>1. ASSUME NEW e \in UiEvents, UiTakes(r, e), UNCHANGED windowVars
      PROVE  FlowTypeOK'
  BY <1>1 DEF UiTakes
<1>2. ASSUME NEW d \in Discoveries, UiReceiveDiscovery(r, d)
      PROVE  FlowTypeOK'
  BY <1>2 DEF UiReceiveDiscovery, UiTakes, UiEvents
<1>3. ASSUME NEW pc \in {"listening", "probing", "starting", "stopped", "panicked"},
             UiGoes(r, pc), UNCHANGED windowVars
      PROVE  FlowTypeOK'
  BY <1>3 DEF UiGoes
<1>4. CASE UserActs(r)
  BY <1>1, <1>2, <1>3, <1>4
     DEF UserActs, UiReceive, UiStreamCloses, UiUnreadablePin, UiEvents
<1>5. CASE UiEntry(r)
  <2>1. entrySlot' \in [Requests -> [Prompts -> Discoveries \cup {NoDiscovery}]]
    BY <1>5 DEF UiEntry
  <2> QED
    BY <1>5, <2>1 DEF UiEntry, UiGoes
<1>6. CASE UiStops(r) \/ UiResume(r) \/ UiCancels(r)
  BY <1>3, <1>6 DEF UiStops, UiResume, UiCancels
<1>7. ASSUME NEW d \in Discoveries, UiDiscover(r, d) \/ UiAbandons(r, d)
      PROVE  FlowTypeOK'
  BY <1>3, <1>7 DEF UiDiscover, UiAbandons
<1>8. ASSUME NEW d \in Discoveries, NEW tr \in Transports,
             UiStartTransport(r, d, tr) \/ UiPanics(r, d, tr)
      PROVE  FlowTypeOK'
  BY <1>3, <1>8 DEF UiStartTransport, UiPanics
<1> QED
  BY <1>4, <1>5, <1>6, <1>7, <1>8 DEF UiWorks

(* The steps of a forwarding task keep the types.                          *)
LEMMA FlowTypeForward ==
  ASSUME NEW d \in Discoveries, FlowTypeOK, ServiceTypeOK',
         polled[d] # NoEvent => startedBy[d] \in Requests,
         outgoing[d] # NoEvent => startedBy[d] \in Requests,
         AuthenticatorActs(d) \/ ForwardWorks(d)
  PROVE  FlowTypeOK'
<1> USE DEF callVars, listenerVars, uiVars, FlowTypeOK
<1>1. CASE AuthenticatorActs(d) \/ ForwardPanics(d)
  BY <1>1 DEF AuthenticatorActs, ForwardPolls, ForwardStreamEnds, ForwardPanics, flowVars
<1>2. CASE ForwardYields(d)
  <2>1. entrySlot' \in [Requests -> [Prompts -> Discoveries \cup {NoDiscovery}]]
    BY <1>2 DEF ForwardYields, Remember
  <2> QED
    BY <1>2, <2>1 DEF ForwardYields, Remember, ServiceTypeOK
<1>3. CASE ForwardSends(d)
  BY <1>3 DEF ForwardSends, Deliver
<1>4. CASE ForwardBreaks(d)
  BY <1>4 DEF ForwardBreaks, Deliver
<1> QED
  BY <1>1, <1>2, <1>3, <1>4 DEF ForwardWorks

(* Every step keeps the types.                                             *)
LEMMA FlowTypeStep ==
  ASSUME FlowInv, [FlowNext]_vars
  PROVE  FlowTypeOK'
<1>1. ServiceTypeOK'
  BY FlowStepIsService, SlotInvStep DEF FlowInv, SlotInv
<1>2. \A d \in Discoveries :
        polled[d] # NoEvent \/ outgoing[d] # NoEvent => startedBy[d] \in Requests
  BY DEF FlowInv, FlowTypeOK, DiscoveriesOfLoops, SlotInv, StreamsOfAccepted
<1>3. CASE UNCHANGED vars
  BY <1>1, <1>3 DEF vars, flowVars, FlowInv, FlowTypeOK
<1> QED
  BY <1>1, <1>2, <1>3, FlowTypeListener, FlowTypeCaller, FlowTypeLoop, FlowTypeForward
     DEF FlowNext, FlowInv

----
(* The listener and the loops.                                             *)

(* What the steps of the callers, the user, the loops and the forwarding   *)
(* tasks leave to the listener.                                            *)
LEMMA ListenerAlone ==
  ASSUME FlowTypeOK, [FlowNext]_vars, ~ListenerWorks
  PROVE  /\ UNCHANGED <<listener, serving, launchFailed, result>>
         /\ \A r \in Requests : ui'[r] # "none" => ui[r] # "none"
<1>1. ASSUME NEW r \in Requests, Call(r) \/ Submit(r) \/ SubmitPanics(r) \/ Return(r)
      PROVE  UNCHANGED <<listener, serving, launchFailed, result, ui>>
  BY <1>1 DEF Call, Submit, SubmitPanics, Return, listenerVars, uiVars
<1>2. ASSUME NEW r \in Requests, UserActs(r) \/ UiWorks(r)
      PROVE  /\ UNCHANGED <<listener, serving, launchFailed, result>>
             /\ ui[r] # "none" /\ \E pc : ui' = [ui EXCEPT ![r] = pc]
  <2>1. CASE UserActs(r)
    BY <1>2, <2>1 DEF UserActs, UiReceive, UiReceiveDiscovery, UiTakes, UiStreamCloses,
                UiUnreadablePin, UiGoes, listenerVars
  <2>2. CASE UiWorks(r)
    BY <1>2, <2>2 DEF UiWorks, UiStops, UiResume, UiEntry, UiCancels, UiDiscover, UiAbandons,
                UiStartTransport, UiPanics, UiGoes, listenerVars
  <2> QED
    BY <1>2, <2>1, <2>2
<1>3. ASSUME NEW d \in Discoveries, AuthenticatorActs(d) \/ ForwardWorks(d)
      PROVE  UNCHANGED <<listener, serving, launchFailed, result, ui>>
  BY <1>3 DEF AuthenticatorActs, ForwardPolls, ForwardStreamEnds, ForwardWorks,
              ForwardYields, ForwardPanics, ForwardSends, ForwardBreaks, Deliver, flowVars,
              listenerVars, uiVars
<1>4. CASE UNCHANGED vars
  BY <1>4 DEF vars, flowVars
<1> QED
  BY <1>1, <1>2, <1>3, <1>4 DEF FlowNext, FlowTypeOK

(* LoopsOfAccepted is kept.                                                *)
LEMMA LoopsStep ==
  ASSUME FlowInv, [FlowNext]_vars
  PROVE  LoopsOfAccepted'
<1>1. /\ \A r \in Requests : answer[r] \in Accepted => answer'[r] \in Accepted
      /\ FlowTypeOK
  BY FlowStepIsService, AcceptedStays DEF FlowInv
<1>2. CASE ~ListenerWorks
  BY <1>1, <1>2, ListenerAlone DEF FlowInv, LoopsOfAccepted
<1>3. CASE ReceiveAccepted
  <2>1. Head(mailbox) \in Requests /\ answer' = [answer EXCEPT ![Head(mailbox)] = "open"]
    BY <1>3, MailboxType, <1>1 DEF ReceiveAccepted, Accept
  <2>2. answer'[Head(mailbox)] \in Accepted
    BY <2>1 DEF Accepted, FlowInv, SlotInv, ServiceTypeOK
  <2> QED
    BY <1>1, <1>3, <2>1, <2>2 DEF ReceiveAccepted, uiVars, FlowInv, LoopsOfAccepted
<1>4. CASE Launch
  BY <1>1, <1>4 DEF Launch, FlowInv, LoopsOfAccepted, FlowTypeOK
<1>5. CASE ReceiveRefused \/ ListenerDies \/ LaunchFails \/ Reply
  BY <1>1, <1>5 DEF ReceiveRefused, ListenerDies, LaunchFails, Reply, uiVars, FlowInv,
                    LoopsOfAccepted
<1> QED
  BY <1>2, <1>3, <1>4, <1>5 DEF ListenerWorks

(* A step in which the listener takes no request only settles what is in   *)
(* the slot, if it touches the slot at all.                                *)
LEMMA OnlyListenerInits ==
  ASSUME [FlowNext]_vars, ~ReceiveAccepted, ~ReceiveRefused, ~ListenerDies
  PROVE  (\E o \in Sent : \E from : Settle(o, from)) \/ UNCHANGED slotVars
<1>1. ASSUME NEW r \in Requests, CancelRequest(r)
      PROVE  Settle("cancelled", r) \/ UNCHANGED slotVars
  BY <1>1 DEF CancelRequest
<1>2. ASSUME NEW d \in Discoveries, YieldFinal(d)
      PROVE  \/ Settle(OutcomeOf(polled[d]), owner[d]) /\ OutcomeOf(polled[d]) \in Sent
             \/ UNCHANGED slotVars
  BY <1>2, AnswersDiffer DEF YieldFinal, CompleteRequest
<1>3. UNCHANGED serviceVars => UNCHANGED slotVars
  BY DEF serviceVars, slotVars
<1> QED
  BY <1>1, <1>2, <1>3, FlowStepKinds, StreamStepsKeepSlot, AnswersDiffer

(* A step that does not accept a request does not put one in the slot, and *)
(* one that does not refuse a request leaves no other one refused.         *)
LEMMA SlotOnlyEmpties ==
  ASSUME FlowInv, [FlowNext]_vars
  PROVE  /\ ~ReceiveAccepted => ctx' = ctx \/ ctx' = NoRequest
         /\ ~ReceiveRefused =>
              \A r \in Requests : answer'[r] = "refused" => answer[r] = "refused"
<1> USE DEF FlowInv, SlotInv, ServiceTypeOK
<1>1. CASE ReceiveAccepted \/ ReceiveRefused \/ ListenerDies
  BY <1>1, MailboxType DEF ReceiveAccepted, Accept, ReceiveRefused, Refuse, ListenerDies,
                           InitPanics
<1>2. ASSUME NEW o \in Sent, NEW from, Settle(o, from)
      PROVE  /\ ctx' = NoRequest
             /\ \A r \in Requests : answer'[r] = "refused" => answer[r] = "refused"
  BY <1>2, AnswersDiffer DEF Settle, Accepted
<1> QED
  BY <1>1, <1>2, OnlyListenerInits DEF slotVars

(* SlotIsServed is kept: handle answers, or gives up, before the listener  *)
(* takes the next request.                                                 *)
LEMMA ServedStep ==
  ASSUME FlowInv, [FlowNext]_vars
  PROVE  SlotIsServed'
<1>1. CASE ReceiveAccepted
  BY <1>1 DEF ReceiveAccepted, Accept, SlotIsServed
<1>2. CASE ~ListenerWorks
  BY <1>2, ListenerAlone, SlotOnlyEmpties DEF FlowInv, SlotIsServed, ListenerWorks
<1>3. CASE ReceiveRefused
  BY <1>3 DEF ReceiveRefused, Refuse, FlowInv, SlotIsServed
<1>4. CASE ListenerDies
  BY <1>4 DEF ListenerDies, InitPanics, FlowInv, SlotInv, PoisonedIsEmpty, SlotIsServed
<1>5. CASE Launch
  BY <1>5 DEF Launch, serviceVars, FlowInv, SlotIsServed
<1>6. CASE LaunchFails
  BY <1>6 DEF LaunchFails, serviceVars, FlowInv, SlotIsServed
<1>7. CASE Reply
  <2>1. ctx # serving \/ ctx = NoRequest
    BY <1>7, AnswersDiffer
       DEF Reply, FlowInv, SlotInv, ServiceTypeOK, NoReplyLost
  <2> QED
    BY <1>7, <2>1 DEF Reply, serviceVars, FlowInv, SlotIsServed
<1> QED
  BY <1>1, <1>2, <1>3, <1>4, <1>5, <1>6, <1>7 DEF ListenerWorks

----
(* The discoveries.                                                        *)

(* The steps that do not concern a discovery leave its records alone.      *)
LEMMA DiscoveriesAlone ==
  ASSUME FlowTypeOK, [FlowNext]_vars,
         \A r \in Requests, d \in Discoveries : ~UiReceiveDiscovery(r, d),
         \A r \in Requests, d \in Discoveries, tr \in Transports : ~UiStartTransport(r, d, tr),
         \A d \in Discoveries : ~ForwardWorks(d)
  PROVE  UNCHANGED <<owner, startedBy, outgoing, shown>>
<1>1. CASE ListenerWorks
  BY <1>1 DEF ListenerWorks, ReceiveAccepted, Accept, ReceiveRefused, Refuse, ListenerDies,
              InitPanics, Launch, LaunchFails, Reply, serviceVars, streamVars, windowVars
<1>2. ASSUME NEW r \in Requests, Call(r) \/ Submit(r) \/ SubmitPanics(r) \/ Return(r)
      PROVE  UNCHANGED <<owner, startedBy, outgoing, shown>>
  BY <1>2 DEF Call, Submit, SubmitPanics, Return, serviceVars, windowVars
<1>3. ASSUME NEW r \in Requests, UserActs(r)
      PROVE  UNCHANGED <<owner, startedBy, outgoing, shown>>
  BY <1>3 DEF UserActs, UiStreamCloses, UiUnreadablePin, UiReceive, UiTakes, serviceVars,
              windowVars
<1>4. ASSUME NEW r \in Requests, UiWorks(r)
      PROVE  UNCHANGED <<owner, startedBy, outgoing, shown>>
  <2>1. CASE UiStops(r) \/ UiResume(r) \/ UiEntry(r) \/ UiCancels(r)
    BY <2>1 DEF UiStops, UiResume, UiEntry, UiCancels, CancelRequest, serviceVars, streamVars,
                windowVars
  <2>2. ASSUME NEW d \in Discoveries, UiDiscover(r, d) \/ UiAbandons(r, d)
        PROVE  UNCHANGED <<owner, startedBy, outgoing, shown>>
    BY <2>2 DEF UiDiscover, UiAbandons, StartDiscovery, AbandonDiscovery, windowVars
  <2>3. ASSUME NEW d \in Discoveries, NEW tr \in Transports, UiPanics(r, d, tr)
        PROVE  UNCHANGED <<owner, startedBy, outgoing, shown>>
    BY <2>3 DEF UiPanics, StartPanics, windowVars
  <2> QED
    BY <1>4, <2>1, <2>2, <2>3 DEF UiWorks
<1>5. ASSUME NEW d \in Discoveries, AuthenticatorActs(d)
      PROVE  UNCHANGED <<owner, startedBy, outgoing, shown>>
  BY <1>5 DEF AuthenticatorActs, ForwardPolls, ForwardStreamEnds, PollReady, StreamEnds,
              flowVars
<1>6. CASE UNCHANGED vars
  BY <1>6 DEF vars, serviceVars, flowVars
<1> QED
  BY <1>1, <1>2, <1>3, <1>4, <1>5, <1>6 DEF FlowNext

(* What a forwarding task does to the records of the discoveries.          *)
LEMMA ForwardRecords ==
  ASSUME NEW d \in Discoveries, FlowTypeOK, ForwardWorks(d)
  PROVE  /\ UNCHANGED <<owner, startedBy>>
         /\ \A x \in Discoveries \ {d} : outgoing'[x] = outgoing[x]
         /\ \/ outgoing'[d] = NoEvent \/ outgoing'[d] = outgoing[d]
            \/ ForwardYields(d) /\ polled[d] # NoEvent /\ outgoing'[d] = polled[d]
<1>1. CASE ForwardYields(d)
  BY <1>1, ServiceAssumption
     DEF ForwardYields, YieldProgress, YieldFinal, Remember, FlowTypeOK, NoEvent, FinalEvents
<1>2. CASE ForwardPanics(d)
  BY <1>2 DEF ForwardPanics, YieldPanics, flowVars, FlowTypeOK, ServiceTypeOK
<1>3. CASE ForwardSends(d) \/ ForwardBreaks(d)
  BY <1>3 DEF ForwardSends, ForwardBreaks, Deliver, DropStreams, serviceVars, FlowTypeOK
<1> QED
  BY <1>1, <1>2, <1>3 DEF ForwardWorks

(* DiscoveriesOfLoops is kept.                                             *)
LEMMA DiscoveriesStep ==
  ASSUME FlowInv, [FlowNext]_vars
  PROVE  DiscoveriesOfLoops'
<1>1. /\ \A r \in Requests : answer[r] \in Accepted => answer'[r] \in Accepted
      /\ FlowTypeOK /\ DiscoveriesOfLoops
  BY FlowStepIsService, AcceptedStays DEF FlowInv
<1>2. ASSUME NEW r \in Requests, NEW d \in Discoveries, UiReceiveDiscovery(r, d)
      PROVE  DiscoveriesOfLoops'
  <2>1. /\ answer[r] \in Accepted /\ UNCHANGED <<owner, outgoing>>
        /\ startedBy' = [startedBy EXCEPT ![d] = r]
    BY <1>2 DEF UiReceiveDiscovery, UiTakes, serviceVars, FlowInv, LoopsOfAccepted
  <2> QED
    BY <1>1, <2>1, ServiceAssumption DEF FlowTypeOK, DiscoveriesOfLoops
<1>3. ASSUME NEW r \in Requests, NEW d \in Discoveries, NEW tr \in Transports,
             UiStartTransport(r, d, tr)
      PROVE  DiscoveriesOfLoops'
  <2>1. /\ startedBy[d] = r /\ owner' = [owner EXCEPT ![d] = ctx]
        /\ UNCHANGED <<startedBy, outgoing>>
    BY <1>3 DEF UiStartTransport, StartTransport, windowVars
  <2> QED
    BY <1>1, <2>1, ServiceAssumption DEF FlowTypeOK, ServiceTypeOK, DiscoveriesOfLoops
<1>4. ASSUME NEW d \in Discoveries, ForwardWorks(d)
      PROVE  DiscoveriesOfLoops'
  <2>1. /\ UNCHANGED <<owner, startedBy>>
        /\ \A x \in Discoveries : outgoing'[x] # NoEvent =>
             outgoing[x] # NoEvent \/ owner[x] # NoRequest
    BY <1>1, <1>4, ForwardRecords DEF FlowInv, SlotInv, StreamsOfAccepted
  <2>2. \A x \in Discoveries : startedBy[x] # NoRequest => startedBy[x] \in Requests
    BY <1>1 DEF FlowTypeOK
  <2> QED
    BY <1>1, <2>1, <2>2 DEF DiscoveriesOfLoops
<1>5. CASE UNCHANGED <<owner, startedBy, outgoing>>
  BY <1>1, <1>5 DEF FlowTypeOK, DiscoveriesOfLoops
<1> QED
  BY <1>1, <1>2, <1>3, <1>4, <1>5, DiscoveriesAlone

----
(* The invariant.                                                          *)

(* The strengthened invariant holds of every behaviour.                    *)
THEOREM FlowInvariant == FlowSpec => []FlowInv
<1>1. FlowInit => FlowInv
  <2> SUFFICES ASSUME FlowInit PROVE FlowInv
    OBVIOUS
  <2>1. FlowTypeOK /\ SlotInv
    BY FlowTypeInit, SlotInvInit DEF FlowInit
  <2>2. LoopsOfAccepted /\ DiscoveriesOfLoops /\ SlotIsServed
    BY DEF FlowInit, ServiceInit, LoopsOfAccepted, DiscoveriesOfLoops, SlotIsServed
  <2> QED
    BY <2>1, <2>2 DEF FlowInv
<1>2. FlowInv /\ [FlowNext]_vars => FlowInv'
  <2> SUFFICES ASSUME FlowInv, [FlowNext]_vars PROVE FlowInv'
    OBVIOUS
  <2>1. SlotInv'
    BY FlowStepIsService, SlotInvStep DEF FlowInv
  <2> QED
    BY <2>1, FlowTypeStep, LoopsStep, DiscoveriesStep, ServedStep DEF FlowInv
<1> QED
  BY <1>1, <1>2, PTL DEF FlowSpec

(* The flow controller uses the service only as CredentialService allows.  *)
THEOREM FlowImplementsService == FlowSpec => ServiceSpec
<1>1. FlowInit => ServiceInit
  BY DEF FlowInit
<1>2. FlowInv /\ [FlowNext]_vars => [ServiceNext]_serviceVars
  BY FlowStepIsService DEF FlowInv
<1> QED
  BY <1>1, <1>2, FlowInvariant, PTL DEF FlowSpec, ServiceSpec

(* The variables keep their types.                                         *)
THEOREM FlowTypeCorrect == FlowSpec => []FlowTypeOK
<1>1. FlowInv => FlowTypeOK
  BY DEF FlowInv
<1> QED
  BY <1>1, FlowInvariant, PTL

(* A user-interaction loop that may still act on the service acts on its   *)
(* own request: flow_control.rs's loops never find another one in the slot. *)
THEOREM LoopsOwnTheSlot == FlowSpec => []LiveLoopOwnsSlot
<1>1. FlowInv => LiveLoopOwnsSlot
  BY DEF FlowInv, SlotInv, ServiceTypeOK, NoReplyLost, TokenCancelledIffAnswered, Accepted,
         LoopsOfAccepted, LiveLoopOwnsSlot
<1> QED
  BY <1>1, FlowInvariant, PTL

----
(* The properties of the runs.                                             *)

(* FlowInv with one of the properties P below is inductive; each lemma     *)
(* says so of one.                                                         *)

(* A refusal happens only in ReceiveRefused.                               *)
LEMMA RefusedStep ==
  ASSUME FlowInv, RefusedOnlyAfterFailedLaunch, [FlowNext]_vars
  PROVE  RefusedOnlyAfterFailedLaunch'
<1>1. CASE ReceiveRefused
  BY <1>1 DEF ReceiveRefused, Refuse, FlowInv, SlotIsServed, RefusedOnlyAfterFailedLaunch
<1>2. CASE ~ReceiveRefused
  <2>1. \A r \in Requests : answer'[r] = "refused" => answer[r] = "refused"
    BY <1>2, SlotOnlyEmpties
  <2>2. launchFailed \subseteq launchFailed'
    BY ListenerAlone DEF FlowInv, ListenerWorks, ReceiveAccepted, ReceiveRefused,
       ListenerDies, Launch, LaunchFails, Reply
  <2> QED
    BY <2>1, <2>2 DEF RefusedOnlyAfterFailedLaunch
<1> QED
  BY <1>1, <1>2

(* A request is refused only when the one before it could not open its     *)
(* window: since the listener serves requests one after the other,         *)
(* init_request never finds a healthy request in the slot.                 *)
THEOREM RefusalsFollowFailedLaunch == FlowSpec => []RefusedOnlyAfterFailedLaunch
<1>1. FlowInit => RefusedOnlyAfterFailedLaunch
  BY DEF FlowInit, ServiceInit, RefusedOnlyAfterFailedLaunch
<1>2. FlowInv /\ RefusedOnlyAfterFailedLaunch /\ [FlowNext]_vars =>
        RefusedOnlyAfterFailedLaunch'
  BY RefusedStep
<1> QED
  BY <1>1, <1>2, FlowInvariant, PTL DEF FlowSpec

(* Only cancel_request answers "cancelled", and only the request it was    *)
(* called for.                                                             *)
LEMMA CancelledStep ==
  ASSUME SlotInv, CancelledByOwnUser, [ServiceNext]_serviceVars
  PROVE  CancelledByOwnUser'
<1>1. ASSUME NEW r \in Requests, InitRequest(r)
      PROVE  /\ answeredBy' = answeredBy
             /\ \A q \in Requests : answer'[q] = "cancelled" => answer[q] = "cancelled"
  BY <1>1 DEF InitRequest, Accept, Refuse, InitPanics, SlotInv, ServiceTypeOK
<1>2. ASSUME NEW r \in Requests, CancelRequest(r)
      PROVE  CancelledByOwnUser'
  BY <1>2, ServiceAssumption
     DEF CancelRequest, Settle, slotVars, SlotInv, ServiceTypeOK, CancelledByOwnUser
<1>3. ASSUME NEW d \in Discoveries, YieldFinal(d)
      PROVE  CancelledByOwnUser'
  <2>1. OutcomeOf(polled[d]) # "cancelled"
    BY <1>3, ServiceAssumption DEF YieldFinal, FinalEvents, OutcomeOf
  <2> QED
    BY <1>3, <2>1 DEF YieldFinal, CompleteRequest, Settle, slotVars, SlotInv, ServiceTypeOK,
                      CancelledByOwnUser
<1>4. CASE UNCHANGED slotVars
  BY <1>4 DEF slotVars, CancelledByOwnUser
<1> QED
  BY <1>1, <1>2, <1>3, <1>4, StreamStepsKeepSlot
     DEF ServiceNext, StreamStep, serviceVars, slotVars, CancelledByOwnUser

(* However late a cancellation reaches the service, it answers only the    *)
(* request whose window was closed.                                        *)
THEOREM CancellationsAreOwn == FlowSpec => []CancelledByOwnUser
<1>1. FlowInit => CancelledByOwnUser
  BY DEF FlowInit, ServiceInit, CancelledByOwnUser
<1>2. FlowInv /\ CancelledByOwnUser /\ [FlowNext]_vars => CancelledByOwnUser'
  BY FlowStepIsService, CancelledStep DEF FlowInv
<1> QED
  BY <1>1, <1>2, FlowInvariant, PTL DEF FlowSpec

(* The result a client gets is the service's decision.                     *)
LEMMA ToldStep ==
  ASSUME FlowInv, ClientToldTheDecision, [FlowNext]_vars
  PROVE  ClientToldTheDecision'
<1>1. \A r \in Requests : answer[r] \notin {"unused", "open"} => answer'[r] = answer[r]
  BY FlowStepIsService, AnswerStep DEF FlowInv, serviceVars
<1>2. CASE ~ListenerWorks
  BY <1>1, <1>2, ListenerAlone DEF FlowInv, ClientToldTheDecision
<1>3. CASE ReceiveAccepted \/ Launch
  BY <1>1, <1>3 DEF ReceiveAccepted, Launch, ClientToldTheDecision
<1>4. CASE ReceiveRefused
  BY <1>1, <1>4, MailboxType
     DEF ReceiveRefused, Refuse, WebAuthnResult, FlowInv, FlowTypeOK, ServiceTypeOK,
         ClientToldTheDecision
<1>5. CASE ListenerDies
  BY <1>1, <1>5, MailboxType
     DEF ListenerDies, InitPanics, WebAuthnResult, FlowInv, FlowTypeOK, ServiceTypeOK,
         ClientToldTheDecision
<1>6. CASE LaunchFails
  BY <1>1, <1>6 DEF LaunchFails, FlowInv, FlowTypeOK, LoopsOfAccepted, ClientToldTheDecision
<1>7. CASE Reply
  BY <1>1, <1>7, AnswersDiffer
     DEF Reply, serviceVars, FlowInv, FlowTypeOK, LoopsOfAccepted, Accepted, ClientToldTheDecision
<1> QED
  BY <1>2, <1>3, <1>4, <1>5, <1>6, <1>7 DEF ListenerWorks

(* The client is told what the service decided, after it decided.          *)
THEOREM ClientsAreToldTheDecision == FlowSpec => []ClientToldTheDecision
<1>1. FlowInit => ClientToldTheDecision
  BY DEF FlowInit, ClientToldTheDecision
<1>2. FlowInv /\ ClientToldTheDecision /\ [FlowNext]_vars => ClientToldTheDecision'
  BY ToldStep
<1> QED
  BY <1>1, <1>2, FlowInvariant, PTL DEF FlowSpec

(* A state that ends a ceremony is on its way to a window only once the    *)
(* window's request has been answered.                                     *)
FinalsFollowAnswers ==
  \A d \in Discoveries : outgoing[d] \in FinalEvents => answer[startedBy[d]] \in Sent

(* The step that completes a request leaves the slot empty, so whoever was *)
(* accepted before is answered.                                            *)
LEMMA YieldAnswers ==
  ASSUME NEW d \in Discoveries, FlowInv, YieldFinal(d)
  PROVE  \A r \in Requests : answer[r] \in Accepted => answer'[r] \in Sent
<1>1. ctx' = NoRequest
  BY DEF YieldFinal, CompleteRequest, Settle, slotVars
<1>2. /\ SlotInv'
      /\ \A r \in Requests : answer[r] \in Accepted => answer'[r] \in Accepted
  BY AcceptedStays, SlotInvStep DEF FlowInv, ServiceNext
<1> QED
  BY <1>1, <1>2, ServiceAssumption DEF SlotInv, NoReplyLost, Accepted

(* What the windows show, and what is on its way to them.                  *)
LEMMA UiToldStep ==
  ASSUME FlowInv, FinalsFollowAnswers, UiToldAfterClient, [FlowNext]_vars
  PROVE  FinalsFollowAnswers' /\ UiToldAfterClient'
<1>1. \A r \in Requests : answer[r] \in Sent => answer'[r] \in Sent
  BY FlowStepIsService, AnswerStep, AnswersDiffer DEF FlowInv, Accepted, serviceVars
<1>2. \A d \in Discoveries : outgoing[d] # NoEvent => startedBy[d] \in Requests
  BY DEF FlowInv, FlowTypeOK, DiscoveriesOfLoops
<1>3. NoEvent \notin FinalEvents
  BY ServiceAssumption DEF NoEvent, FinalEvents
<1>4. CASE UNCHANGED <<owner, startedBy, outgoing, shown>>
  BY <1>1, <1>2, <1>3, <1>4 DEF FinalsFollowAnswers, UiToldAfterClient
<1>5. ASSUME NEW r \in Requests, NEW d \in Discoveries, UiReceiveDiscovery(r, d)
      PROVE  FinalsFollowAnswers' /\ UiToldAfterClient'
  <2>1. /\ startedBy[d] = NoRequest /\ startedBy' = [startedBy EXCEPT ![d] = r]
        /\ UNCHANGED <<outgoing, shown>>
    BY <1>5 DEF UiReceiveDiscovery
  <2> QED
    BY <1>1, <1>2, <1>3, <2>1, ServiceAssumption
       DEF FlowInv, FlowTypeOK, FinalsFollowAnswers, UiToldAfterClient
<1>6. ASSUME NEW r \in Requests, NEW d \in Discoveries, NEW tr \in Transports,
             UiStartTransport(r, d, tr)
      PROVE  FinalsFollowAnswers' /\ UiToldAfterClient'
  <2>1. UNCHANGED <<startedBy, outgoing, shown>>
    BY <1>6 DEF UiStartTransport, windowVars
  <2> QED
    BY <1>1, <1>2, <1>3, <2>1 DEF FinalsFollowAnswers, UiToldAfterClient
<1>7. ASSUME NEW d \in Discoveries, ForwardWorks(d)
      PROVE  FinalsFollowAnswers' /\ UiToldAfterClient'
  <2>1. FinalsFollowAnswers'
    <3>1. ASSUME ForwardYields(d), outgoing'[d] \in FinalEvents
          PROVE  answer'[startedBy[d]] \in Sent
      <4>1. outgoing'[d] = polled[d]
        BY <3>1 DEF ForwardYields, Remember, FlowInv, FlowTypeOK
      <4>2. YieldFinal(d) /\ owner[d] # NoRequest
        BY <1>3, <3>1, <4>1, ServiceAssumption
           DEF ForwardYields, YieldProgress, FlowInv, SlotInv, StreamsOfAccepted
      <4>3. startedBy[d] \in Requests /\ answer[startedBy[d]] \in Accepted
        BY <4>2 DEF FlowInv, FlowTypeOK, DiscoveriesOfLoops
      <4> QED
        BY <4>2, <4>3, YieldAnswers
    <3>2. \A x \in Discoveries :
            outgoing'[x] \in FinalEvents /\ outgoing'[x] = outgoing[x] =>
              answer'[startedBy[x]] \in Sent
      BY <1>1, <1>2, <1>3 DEF FinalsFollowAnswers
    <3> QED
      BY <1>3, <1>7, <3>1, <3>2, ForwardRecords DEF FinalsFollowAnswers, FlowInv
  <2>2. UiToldAfterClient'
    <3>1. CASE ForwardSends(d)
      BY <1>1, <1>2, <1>3, <3>1
         DEF ForwardSends, Deliver, FlowInv, FlowTypeOK, FinalsFollowAnswers, UiToldAfterClient
    <3>2. CASE ~ForwardSends(d)
      BY <1>1, <1>7, <3>2
         DEF ForwardWorks, ForwardYields, ForwardPanics, ForwardBreaks, flowVars,
             UiToldAfterClient
    <3> QED
      BY <3>1, <3>2
  <2> QED
    BY <2>1, <2>2
<1> QED
  BY <1>4, <1>5, <1>6, <1>7, DiscoveriesAlone DEF FlowInv

(* A window shows that its ceremony is over only when the client has been  *)
(* answered: poll_next completes the request before it yields the state.   *)
THEOREM WindowsFollowClients == FlowSpec => []UiToldAfterClient
<1>1. FlowInit => FinalsFollowAnswers /\ UiToldAfterClient
  BY ServiceAssumption DEF FlowInit, FinalsFollowAnswers, UiToldAfterClient, NoEvent, FinalEvents
<1>2. FlowInv /\ FinalsFollowAnswers /\ UiToldAfterClient /\ [FlowNext]_vars =>
        FinalsFollowAnswers' /\ UiToldAfterClient'
  BY UiToldStep
<1> QED
  BY <1>1, <1>2, FlowInvariant, PTL DEF FlowSpec

(* A discovery keeps the service's mutex from the wait for its transports  *)
(* until its last stream is started, so no request but the one of the loop *)
(* that asked is in the slot meanwhile, and its streams work for that one. *)
DiscoveriesAreOwn ==
  \A d \in Discoveries :
    /\ Starting(d) => startedBy[d] # NoRequest /\ ctx \in {NoRequest, startedBy[d]}
    /\ owner[d] # NoRequest => owner[d] = startedBy[d]

(* Who waits for an entry has streams, and was asked for by the loop that  *)
(* keeps the entry's sender.                                               *)
EntriesOfLoops ==
  \A r \in Requests : \A k \in Prompts :
    entrySlot[r][k] # NoDiscovery =>
      startedBy[entrySlot[r][k]] = r /\ owner[entrySlot[r][k]] # NoRequest

(* Only an entry and a prompt touch the waiting senders.                   *)
LEMMA EntriesAlone ==
  ASSUME FlowTypeOK, [FlowNext]_vars,
         \A r \in Requests : ~UiEntry(r), \A d \in Discoveries : ~ForwardYields(d)
  PROVE  UNCHANGED entrySlot
<1>1. CASE ListenerWorks
  BY <1>1 DEF ListenerWorks, ReceiveAccepted, ReceiveRefused, ListenerDies, Launch, LaunchFails,
              Reply, windowVars
<1>2. ASSUME NEW q \in Requests, Call(q) \/ Submit(q) \/ SubmitPanics(q) \/ Return(q)
      PROVE  UNCHANGED entrySlot
  BY <1>2 DEF Call, Submit, SubmitPanics, Return, windowVars
<1>3. ASSUME NEW q \in Requests, UserActs(q)
      PROVE  UNCHANGED entrySlot
  BY <1>3 DEF UserActs, UiReceive, UiReceiveDiscovery, UiStreamCloses, UiUnreadablePin, windowVars
<1>4. ASSUME NEW q \in Requests, UiWorks(q)
      PROVE  UNCHANGED entrySlot
  BY <1>4 DEF UiWorks, UiStops, UiResume, UiCancels, UiDiscover, UiAbandons,
              UiStartTransport, UiPanics, windowVars
<1>5. ASSUME NEW d \in Discoveries, AuthenticatorActs(d) \/ ForwardWorks(d)
      PROVE  UNCHANGED entrySlot
  BY <1>5 DEF AuthenticatorActs, ForwardPolls, ForwardStreamEnds, ForwardWorks,
              ForwardPanics, ForwardSends, ForwardBreaks, Deliver, flowVars
<1>6. CASE UNCHANGED vars
  BY <1>6 DEF vars, flowVars
<1> QED
  BY <1>1, <1>2, <1>3, <1>4, <1>5, <1>6 DEF FlowNext

(* Only start_discovery gives a discovery streams that wait for their      *)
(* turn, and nobody is accepted while there are some.                      *)
LEMMA StartingStep ==
  ASSUME FlowTypeOK, [FlowNext]_vars, NEW d \in Discoveries, Starting(d)'
  PROVE  \/ Starting(d) /\ ~ReceiveAccepted
         \/ \E r \in Requests : UiDiscover(r, d)
<1> SUFFICES ASSUME \A r \in Requests : ~UiDiscover(r, d)
             PROVE  Starting(d) /\ ~ReceiveAccepted
  OBVIOUS
<1> USE DEF Starting
<1>1. CASE ListenerWorks
  BY <1>1 DEF ListenerWorks, ReceiveAccepted, Accept, ReceiveRefused, Refuse, ListenerDies,
              InitPanics, Launch, LaunchFails, Reply, serviceVars, streamVars, ServiceFree
<1>2. ASSUME NEW r \in Requests, Call(r) \/ Submit(r) \/ SubmitPanics(r) \/ Return(r)
      PROVE  Starting(d)
  BY <1>2 DEF Call, Submit, SubmitPanics, Return, serviceVars
<1>3. ASSUME NEW r \in Requests, UserActs(r)
      PROVE  Starting(d)
  BY <1>3 DEF UserActs, UiStreamCloses, UiUnreadablePin, UiReceive, UiReceiveDiscovery,
              UiTakes, serviceVars
<1>4. ASSUME NEW r \in Requests, UiWorks(r)
      PROVE  Starting(d)
  <2>1. CASE UiStops(r) \/ UiResume(r) \/ UiEntry(r) \/ UiCancels(r)
    BY <2>1 DEF UiStops, UiResume, UiEntry, UiCancels, CancelRequest, serviceVars, streamVars
  <2>2. ASSUME NEW x \in Discoveries, UiDiscover(r, x)
        PROVE  Starting(d)
    <3>1. x # d
      BY <2>2
    <3>2. PICK T \in TransportLists : StartDiscovery(x, T)
      BY <2>2 DEF UiDiscover
    <3>3. stream'[d] = stream[d]
      BY <3>1, <3>2 DEF StartDiscovery, FlowTypeOK, ServiceTypeOK
    <3> QED
      BY <3>3
  <2>3. ASSUME NEW x \in Discoveries, UiAbandons(r, x)
        PROVE  Starting(d)
    BY <2>3 DEF UiAbandons, AbandonDiscovery, FlowTypeOK, ServiceTypeOK, Silent
  <2>4. ASSUME NEW x \in Discoveries, NEW tr \in Transports, UiStartTransport(r, x, tr)
        PROVE  Starting(d)
    BY <2>4 DEF UiStartTransport, StartTransport, FlowTypeOK, ServiceTypeOK
  <2>5. ASSUME NEW x \in Discoveries, NEW tr \in Transports, UiPanics(r, x, tr)
        PROVE  Starting(d)
    BY <2>5 DEF UiPanics, StartPanics, FlowTypeOK, ServiceTypeOK, Silent
  <2> QED
    BY <1>4, <2>1, <2>2, <2>3, <2>4, <2>5 DEF UiWorks
<1>5. ASSUME NEW x \in Discoveries, AuthenticatorActs(x)
      PROVE  Starting(d)
  <2>1. PICK tr \in Transports :
          ForwardStreamEnds(x, tr) \/ \E e \in Events : ForwardPolls(x, tr, e)
    BY <1>5 DEF AuthenticatorActs
  <2>2. CASE ForwardStreamEnds(x, tr)
    BY <2>2 DEF ForwardStreamEnds, StreamEnds, FlowTypeOK, ServiceTypeOK
  <2>3. ASSUME NEW e \in Events, ForwardPolls(x, tr, e)
        PROVE  Starting(d)
    BY <2>3 DEF ForwardPolls, PollReady
  <2> QED
    BY <2>1, <2>2, <2>3
<1>6. ASSUME NEW x \in Discoveries, ForwardWorks(x)
      PROVE  Starting(d)
  BY <1>6 DEF ForwardWorks, ForwardYields, YieldProgress, YieldFinal, ForwardPanics, YieldPanics,
              ForwardSends, ForwardBreaks, DropStreams, serviceVars, FlowTypeOK, ServiceTypeOK
<1>7. ASSUME UNCHANGED vars
      PROVE  Starting(d)
  BY <1>7 DEF vars, serviceVars
<1>8. ~ListenerWorks => ~ReceiveAccepted
  BY DEF ListenerWorks
<1> QED
  BY <1>1, <1>2, <1>3, <1>4, <1>5, <1>6, <1>7, <1>8 DEF FlowNext

(* A discovery stays the loop's own.                                       *)
LEMMA OwnDiscoveriesStep ==
  ASSUME FlowInv, DiscoveriesAreOwn, [FlowNext]_vars
  PROVE  DiscoveriesAreOwn'
<1>1. \A d \in Discoveries : startedBy[d] # NoRequest => startedBy'[d] = startedBy[d]
  <2>1. ASSUME NEW r \in Requests, NEW x \in Discoveries, UiReceiveDiscovery(r, x)
        PROVE  \A d \in Discoveries : startedBy[d] # NoRequest => startedBy'[d] = startedBy[d]
    BY <2>1 DEF UiReceiveDiscovery, FlowInv, FlowTypeOK
  <2>2. ASSUME NEW r \in Requests, NEW x \in Discoveries, NEW tr \in Transports,
               UiStartTransport(r, x, tr)
        PROVE  UNCHANGED startedBy
    BY <2>2 DEF UiStartTransport, windowVars
  <2>3. ASSUME NEW x \in Discoveries, ForwardWorks(x)
        PROVE  UNCHANGED startedBy
    BY <2>3, ForwardRecords DEF FlowInv
  <2> QED
    BY <2>1, <2>2, <2>3, DiscoveriesAlone DEF FlowInv
<1>2. ASSUME NEW d \in Discoveries, Starting(d)'
      PROVE  startedBy'[d] # NoRequest /\ ctx' \in {NoRequest, startedBy'[d]}
  <2>1. CASE Starting(d) /\ ~ReceiveAccepted
    BY <1>1, <2>1, SlotOnlyEmpties DEF DiscoveriesAreOwn
  <2>2. ASSUME NEW r \in Requests, UiDiscover(r, d)
        PROVE  startedBy'[d] # NoRequest /\ ctx' \in {NoRequest, startedBy'[d]}
    <3>1. /\ ui[r] = "acting" /\ r \notin cancelled /\ startedBy[d] = r
          /\ UNCHANGED <<ctx, startedBy>>
      BY <2>2 DEF UiDiscover, StartDiscovery, slotVars, windowVars
    <3>2. ctx = r
      BY <3>1 DEF FlowInv, SlotInv, ServiceTypeOK, NoReplyLost, TokenCancelledIffAnswered,
                  Accepted, LoopsOfAccepted
    <3> QED
      BY <3>1, <3>2, ServiceAssumption
  <2> QED
    BY <1>2, <2>1, <2>2, StartingStep DEF FlowInv
<1>3. ASSUME NEW d \in Discoveries, owner'[d] # NoRequest
      PROVE  owner'[d] = startedBy'[d]
  <2>1. owner[d] # NoRequest => owner[d] = startedBy[d] /\ startedBy'[d] = startedBy[d]
    BY <1>1 DEF DiscoveriesAreOwn
  <2>2. ASSUME NEW r \in Requests, NEW x \in Discoveries, NEW tr \in Transports,
               UiStartTransport(r, x, tr)
        PROVE  owner'[d] = startedBy'[d]
    <3>1. /\ Starting(x) /\ ctx # NoRequest /\ startedBy[x] = r
          /\ UNCHANGED startedBy /\ owner' = [owner EXCEPT ![x] = ctx]
      BY <2>2 DEF UiStartTransport, StartTransport, Turn, Starting, windowVars
    <3>2. ctx = r
      BY <3>1 DEF DiscoveriesAreOwn
    <3> QED
      BY <1>3, <2>1, <3>1, <3>2 DEF FlowInv, FlowTypeOK, ServiceTypeOK
  <2>3. ASSUME NEW r \in Requests, NEW x \in Discoveries, UiReceiveDiscovery(r, x)
        PROVE  UNCHANGED owner
    BY <2>3 DEF UiReceiveDiscovery, UiTakes, serviceVars
  <2>4. ASSUME NEW x \in Discoveries, ForwardWorks(x)
        PROVE  UNCHANGED owner
    BY <2>4, ForwardRecords DEF FlowInv
  <2> QED
    BY <1>3, <2>1, <2>2, <2>3, <2>4, DiscoveriesAlone DEF FlowInv
<1> QED
  BY <1>2, <1>3 DEF DiscoveriesAreOwn

(* The sender of a prompt is kept for the loop that asked.                 *)
LEMMA EntriesStep ==
  ASSUME FlowInv, EntriesOfLoops, [FlowNext]_vars
  PROVE  EntriesOfLoops'
<1>1. /\ entrySlot \in [Requests -> [Prompts -> Discoveries \cup {NoDiscovery}]]
      /\ owner \in [Discoveries -> Requests \cup {NoRequest}]
      /\ startedBy \in [Discoveries -> Requests \cup {NoRequest}]
      /\ \A d \in Discoveries : owner[d] # NoRequest => startedBy[d] \in Requests
  BY DEF FlowInv, FlowTypeOK, ServiceTypeOK, DiscoveriesOfLoops
<1>2. \A d \in Discoveries : owner[d] # NoRequest =>
        startedBy'[d] = startedBy[d] /\ owner'[d] # NoRequest
  <2>1. ASSUME NEW r \in Requests, NEW d \in Discoveries, UiReceiveDiscovery(r, d)
        PROVE  \A x \in Discoveries : owner[x] # NoRequest =>
                 startedBy'[x] = startedBy[x] /\ owner'[x] # NoRequest
    BY <1>1, <2>1, ServiceAssumption DEF UiReceiveDiscovery, UiTakes, serviceVars
  <2>2. ASSUME NEW r \in Requests, NEW d \in Discoveries, NEW tr \in Transports,
               UiStartTransport(r, d, tr)
        PROVE  \A x \in Discoveries : owner[x] # NoRequest =>
                 startedBy'[x] = startedBy[x] /\ owner'[x] # NoRequest
    BY <1>1, <2>2 DEF UiStartTransport, StartTransport, windowVars
  <2>3. ASSUME NEW d \in Discoveries, ForwardWorks(d)
        PROVE  UNCHANGED <<owner, startedBy>>
    BY <2>3, ForwardRecords DEF FlowInv
  <2> QED
    BY <2>1, <2>2, <2>3, DiscoveriesAlone DEF FlowInv
<1>3. CASE UNCHANGED entrySlot
  BY <1>1, <1>2, <1>3 DEF EntriesOfLoops
<1>4. ASSUME NEW r \in Requests, UiEntry(r)
      PROVE  EntriesOfLoops'
  <2>1. \A q \in Requests : \A k \in Prompts :
          entrySlot'[q][k] = entrySlot[q][k] \/ entrySlot'[q][k] = NoDiscovery
    BY <1>1, <1>4 DEF UiEntry
  <2> QED
    BY <1>1, <1>2, <2>1 DEF EntriesOfLoops
<1>5. ASSUME NEW d \in Discoveries, ForwardYields(d)
      PROVE  EntriesOfLoops'
  <2>1. owner[d] # NoRequest
    BY <1>5, ServiceAssumption
       DEF ForwardYields, YieldProgress, YieldFinal, NoEvent, FinalEvents,
           FlowInv, SlotInv, StreamsOfAccepted
  <2>2. \A q \in Requests : \A k \in Prompts :
          \/ entrySlot'[q][k] = entrySlot[q][k]
          \/ q = startedBy[d] /\ entrySlot'[q][k] = d
    BY <1>1, <1>5 DEF ForwardYields, Remember
  <2> QED
    BY <1>1, <1>2, <2>1, <2>2 DEF EntriesOfLoops
<1> QED
  BY <1>3, <1>4, <1>5, EntriesAlone DEF FlowInv

(* What the user types in a window goes to an authenticator that works for *)
(* the window's request: a prompt's sender is kept by the loop that asked  *)
(* for the discovery, and the mutex held while its streams are started     *)
(* keeps every other request out of the slot.                              *)
THEOREM EntriesReachTheirCeremony == FlowSpec => []EntryReachesOwnCeremony
<1>1. FlowInit => DiscoveriesAreOwn /\ EntriesOfLoops
  BY DEF FlowInit, ServiceInit, Silent, Starting, DiscoveriesAreOwn, EntriesOfLoops
<1>2. FlowInv /\ DiscoveriesAreOwn /\ EntriesOfLoops /\ [FlowNext]_vars =>
        DiscoveriesAreOwn' /\ EntriesOfLoops'
  BY OwnDiscoveriesStep, EntriesStep
<1>3. FlowInv /\ DiscoveriesAreOwn /\ EntriesOfLoops => EntryReachesOwnCeremony
  BY DEF FlowInv, FlowTypeOK, DiscoveriesAreOwn, EntriesOfLoops, EntryReachesOwnCeremony
<1> QED
  BY <1>1, <1>2, <1>3, FlowInvariant, PTL DEF FlowSpec
====
