---- MODULE CredentialServiceProofs ----
(***************************************************************************)
(* Proofs about CredentialService, for any sets of requests, discoveries   *)
(* and progress states.                                                    *)
(*                                                                         *)
(* SlotInv is inductive on any runtime.  It ties the slot, the tokens and  *)
(* the response channels together and says that a live stream was started  *)
(* for a request that had been accepted.  OneWorkerInv adds what holds     *)
(* with one worker thread: an event past its token check belongs to the    *)
(* request in the slot.                                                    *)
(***************************************************************************)
EXTENDS CredentialService, TLAPS

Accepted == {"open"} \cup Sent

PoisonedIsEmpty == poisoned => ctx = NoRequest

StreamsOfAccepted ==
  \A d \in Discoveries :
    /\ owner[d] # NoRequest => answer[owner[d]] \in Accepted
    /\ \A tr \in Transports : stream[d][tr] = "live" => owner[d] # NoRequest
    /\ polled[d] # NoEvent => owner[d] # NoRequest

SlotInv ==
  /\ ServiceTypeOK
  /\ NoReplyLost
  /\ TokenCancelledIffAnswered
  /\ PoisonedIsEmpty
  /\ StreamsOfAccepted

PolledOwnsSlot ==
  \A d \in Discoveries : polled[d] # NoEvent => ctx = owner[d]

OnePoll ==
  \A d, e \in Discoveries : polled[d] # NoEvent /\ polled[e] # NoEvent => d = e

OneWorkerInv == PolledOwnsSlot /\ OnePoll /\ OwnOutcome

----
(* Lemmas about the slot.                                                  *)

(* The steps of a discovery, but for the one that completes a request.     *)
StreamStep(d) ==
  \/ \E T \in SUBSET Transports : StartDiscovery(d, T)
  \/ AbandonDiscovery(d) \/ DropStreams(d)
  \/ YieldProgress(d) \/ YieldPanics(d)
  \/ \E tr \in Transports :
       \/ StartTransport(d, tr) \/ StartPanics(d, tr) \/ StreamEnds(d, tr)
       \/ \E e \in Events : PollReady(d, tr, e)

(* They leave the slot alone.                                              *)
LEMMA StreamStepsKeepSlot ==
  ASSUME NEW d \in Discoveries, StreamStep(d)
  PROVE  UNCHANGED slotVars
BY DEF StreamStep, StartDiscovery, AbandonDiscovery, DropStreams, YieldProgress, YieldPanics,
       StartTransport, StartPanics, StreamEnds, PollReady

(* The values a response channel takes are told apart.                     *)
LEMMA AnswersDiffer ==
  /\ "open" \notin Sent /\ "unused" \notin Accepted
  /\ "refused" \notin Accepted /\ "dropped" \notin Accepted
  /\ Accepted \subseteq Answers /\ "cancelled" \in Sent
  /\ \A e \in FinalEvents : OutcomeOf(e) \in Sent
BY ServiceAssumption DEF Accepted, Sent, CeremonyOutcomes, Answers, FinalEvents, OutcomeOf

(* Settling the request in the slot keeps what SlotInv says of the slot.   *)
LEMMA SettleKeepsSlot ==
  ASSUME NEW o \in Sent, NEW from \in Requests,
         SlotInv, ctx # NoRequest, Settle(o, from), UNCHANGED <<poisoned, owner>>
  PROVE  /\ ctx' \in Requests \cup {NoRequest}
         /\ cancelled' \in SUBSET Requests
         /\ answer' \in [Requests -> Answers]
         /\ answeredBy' \in [Requests -> Requests \cup {NoRequest}]
         /\ NoReplyLost' /\ TokenCancelledIffAnswered' /\ PoisonedIsEmpty'
         /\ \A r \in Requests : answer[r] \in Accepted => answer'[r] \in Accepted
<1>1. ctx \in Requests /\ o \in Answers
  BY AnswersDiffer DEF SlotInv, ServiceTypeOK, Accepted
<1>2. /\ ctx' = NoRequest /\ cancelled' = cancelled \cup {ctx}
      /\ answer' = [answer EXCEPT ![ctx] = o]
      /\ answeredBy' = [answeredBy EXCEPT ![ctx] = from]
  BY DEF Settle
<1>3. /\ answer' \in [Requests -> Answers]
      /\ answeredBy' \in [Requests -> Requests \cup {NoRequest}]
      /\ \A r \in Requests : answer'[r] = IF r = ctx THEN o ELSE answer[r]
  BY <1>1, <1>2 DEF SlotInv, ServiceTypeOK
<1>4. NoReplyLost'
  BY <1>1, <1>2, <1>3, AnswersDiffer, ServiceAssumption DEF SlotInv, NoReplyLost
<1>5. TokenCancelledIffAnswered'
  BY <1>1, <1>2, <1>3 DEF SlotInv, TokenCancelledIffAnswered
<1>6. \A r \in Requests : answer[r] \in Accepted => answer'[r] \in Accepted
  BY <1>3 DEF Accepted
<1>7. cancelled' \in SUBSET Requests /\ PoisonedIsEmpty'
  BY <1>1, <1>2 DEF SlotInv, ServiceTypeOK, PoisonedIsEmpty
<1> QED
  BY <1>2, <1>3, <1>4, <1>5, <1>6, <1>7

(* The answer of a request that has not been accepted changes.             *)
LEMMA TurnedAway ==
  ASSUME NEW r \in Requests, NEW a \in {"refused", "dropped"}, SlotInv,
         answer[r] = "unused", answer' = [answer EXCEPT ![r] = a],
         UNCHANGED <<ctx, poisoned, cancelled, answeredBy>>, UNCHANGED streamVars
  PROVE  SlotInv'
<1>1. /\ answer' \in [Requests -> Answers]
      /\ \A q \in Requests : answer'[q] = IF q = r THEN a ELSE answer[q]
  BY DEF SlotInv, ServiceTypeOK, Answers
<1>2. ServiceTypeOK'
  BY <1>1 DEF SlotInv, ServiceTypeOK, streamVars
<1>3. NoReplyLost' /\ TokenCancelledIffAnswered' /\ PoisonedIsEmpty'
  BY <1>1, AnswersDiffer
     DEF SlotInv, NoReplyLost, TokenCancelledIffAnswered, PoisonedIsEmpty, Accepted
<1>4. StreamsOfAccepted'
  BY <1>1, AnswersDiffer DEF SlotInv, ServiceTypeOK, StreamsOfAccepted, streamVars
<1> QED
  BY <1>2, <1>3, <1>4 DEF SlotInv

----
(* SlotInv is inductive.                                                   *)

(* The service starts in SlotInv.                                          *)
LEMMA SlotInvInit == ServiceInit => SlotInv
<1> SUFFICES ASSUME ServiceInit PROVE SlotInv
  OBVIOUS
<1>1. ServiceTypeOK
  BY DEF ServiceInit, ServiceTypeOK, Answers, Silent, StreamStates
<1>2. NoReplyLost /\ TokenCancelledIffAnswered /\ PoisonedIsEmpty
  BY ServiceAssumption, AnswersDiffer
     DEF ServiceInit, NoReplyLost, TokenCancelledIffAnswered, PoisonedIsEmpty, Accepted
<1>3. StreamsOfAccepted
  BY DEF ServiceInit, StreamsOfAccepted, Silent
<1> QED
  BY <1>1, <1>2, <1>3 DEF SlotInv

(* The steps of a request.                                                 *)
LEMMA SlotInvInitRequest ==
  ASSUME NEW r \in Requests, SlotInv, InitRequest(r)
  PROVE  SlotInv'
<1>1. CASE Accept(r)
  <2>1. /\ ctx = NoRequest /\ answer[r] = "unused" /\ ~poisoned /\ ctx' = r
        /\ UNCHANGED <<poisoned, cancelled, answeredBy, owner, stream, polled>>
    BY <1>1 DEF Accept, streamVars
  <2>2. /\ answer' \in [Requests -> Answers]
        /\ \A q \in Requests : answer'[q] = IF q = r THEN "open" ELSE answer[q]
    BY <1>1 DEF Accept, SlotInv, ServiceTypeOK, Answers
  <2>3. ServiceTypeOK'
    BY <2>1, <2>2 DEF SlotInv, ServiceTypeOK
  <2>4. NoReplyLost' /\ TokenCancelledIffAnswered' /\ PoisonedIsEmpty'
    BY <2>1, <2>2, AnswersDiffer, ServiceAssumption
       DEF SlotInv, NoReplyLost, TokenCancelledIffAnswered, PoisonedIsEmpty, Accepted
  <2>5. StreamsOfAccepted'
    BY <2>1, <2>2 DEF SlotInv, ServiceTypeOK, StreamsOfAccepted, Accepted
  <2> QED
    BY <2>3, <2>4, <2>5 DEF SlotInv
<1>2. CASE Refuse(r)
  BY <1>2, TurnedAway DEF Refuse
<1>3. CASE InitPanics(r)
  BY <1>3, TurnedAway DEF InitPanics
<1> QED
  BY <1>1, <1>2, <1>3 DEF InitRequest

(* Settling keeps SlotInv when the streams stay as they are.               *)
LEMMA SlotInvSettle ==
  ASSUME NEW o \in Sent, NEW from \in Requests,
         SlotInv, ctx # NoRequest, Settle(o, from),
         UNCHANGED <<poisoned, owner, stream>>,
         polled' \in [Discoveries -> Events \cup {NoEvent}],
         \A d \in Discoveries : polled'[d] # NoEvent => polled[d] # NoEvent
  PROVE  SlotInv'
<1>1. /\ ServiceTypeOK' /\ NoReplyLost' /\ TokenCancelledIffAnswered' /\ PoisonedIsEmpty'
      /\ \A r \in Requests : answer[r] \in Accepted => answer'[r] \in Accepted
  BY SettleKeepsSlot DEF SlotInv, ServiceTypeOK
<1>2. StreamsOfAccepted'
  BY <1>1 DEF SlotInv, ServiceTypeOK, StreamsOfAccepted
<1> QED
  BY <1>1, <1>2 DEF SlotInv

(* A user's cancellation keeps SlotInv.                                    *)
LEMMA SlotInvCancel ==
  ASSUME NEW r \in Requests, SlotInv, CancelRequest(r)
  PROVE  SlotInv'
<1>1. CASE ctx = r
  BY <1>1, SlotInvSettle, AnswersDiffer, ServiceAssumption
     DEF CancelRequest, streamVars, SlotInv, ServiceTypeOK
<1>2. CASE ctx # r
  BY <1>2 DEF CancelRequest, streamVars, slotVars, SlotInv, ServiceTypeOK, NoReplyLost,
              TokenCancelledIffAnswered, PoisonedIsEmpty, StreamsOfAccepted
<1> QED
  BY <1>1, <1>2

(* SlotInv when the slot is left alone.                                    *)
LEMMA SlotInvStreams ==
  ASSUME SlotInv, UNCHANGED slotVars,
         poisoned' \in BOOLEAN, poisoned' => ctx = NoRequest,
         owner' \in [Discoveries -> Requests \cup {NoRequest}],
         stream' \in [Discoveries -> [Transports -> StreamStates]],
         polled' \in [Discoveries -> Events \cup {NoEvent}],
         StreamsOfAccepted'
  PROVE  SlotInv'
BY DEF SlotInv, slotVars, ServiceTypeOK, NoReplyLost, TokenCancelledIffAnswered,
       PoisonedIsEmpty

(* The steps of a discovery keep SlotInv.                                  *)
LEMMA SlotInvDiscovery ==
  ASSUME NEW d \in Discoveries, SlotInv, StreamStep(d)
  PROVE  SlotInv'
<1> USE DEF slotVars
<1>1. ASSUME NEW T \in SUBSET Transports, StartDiscovery(d, T)
      PROVE  SlotInv'
  BY <1>1, SlotInvStreams
     DEF StartDiscovery, SlotInv, ServiceTypeOK, PoisonedIsEmpty, StreamsOfAccepted, StreamStates
<1>2. CASE AbandonDiscovery(d)
  BY <1>2, SlotInvStreams
     DEF AbandonDiscovery, SlotInv, ServiceTypeOK, PoisonedIsEmpty, StreamsOfAccepted,
         StreamStates, Silent
<1>3. CASE DropStreams(d)
  BY <1>3, SlotInvStreams
     DEF DropStreams, SlotInv, ServiceTypeOK, PoisonedIsEmpty, StreamsOfAccepted, StreamStates
<1>4. CASE YieldProgress(d)
  BY <1>4, SlotInvStreams
     DEF YieldProgress, SlotInv, ServiceTypeOK, PoisonedIsEmpty, StreamsOfAccepted
<1>5. CASE YieldPanics(d)
  BY <1>5, SlotInvStreams
     DEF YieldPanics, SlotInv, ServiceTypeOK, PoisonedIsEmpty, StreamsOfAccepted, StreamStates
<1>6. ASSUME NEW tr \in Transports, StartTransport(d, tr)
      PROVE  SlotInv'
  <2>1. /\ ctx \in Requests /\ answer[ctx] \in Accepted
        /\ UNCHANGED <<ctx, cancelled, answer, answeredBy, poisoned, polled>>
        /\ owner' = [owner EXCEPT ![d] = ctx]
        /\ stream' = [stream EXCEPT ![d][tr] = "live"]
    BY <1>6 DEF StartTransport, SlotInv, ServiceTypeOK, NoReplyLost, Accepted
  <2>2. StreamsOfAccepted'
    BY <2>1, ServiceAssumption DEF SlotInv, ServiceTypeOK, StreamsOfAccepted
  <2> QED
    BY <2>1, <2>2, SlotInvStreams DEF SlotInv, ServiceTypeOK, PoisonedIsEmpty, StreamStates
<1>7. ASSUME NEW tr \in Transports, StartPanics(d, tr)
      PROVE  SlotInv'
  BY <1>7, SlotInvStreams
     DEF StartPanics, SlotInv, ServiceTypeOK, PoisonedIsEmpty, StreamsOfAccepted,
         StreamStates, Silent
<1>8. ASSUME NEW tr \in Transports, StreamEnds(d, tr)
      PROVE  SlotInv'
  BY <1>8, SlotInvStreams
     DEF StreamEnds, SlotInv, ServiceTypeOK, PoisonedIsEmpty, StreamsOfAccepted, StreamStates
<1>9. ASSUME NEW tr \in Transports, NEW e \in Events, PollReady(d, tr, e)
      PROVE  SlotInv'
  BY <1>9, SlotInvStreams
     DEF PollReady, Ready, SlotInv, ServiceTypeOK, PoisonedIsEmpty, StreamsOfAccepted
<1> QED
  BY <1>1, <1>2, <1>3, <1>4, <1>5, <1>6, <1>7, <1>8, <1>9 DEF StreamStep

(* The step that completes a request.                                      *)
LEMMA SlotInvYield ==
  ASSUME NEW d \in Discoveries, SlotInv, YieldFinal(d)
  PROVE  SlotInv'
<1>1. /\ owner[d] \in Requests /\ OutcomeOf(polled[d]) \in Sent
      /\ polled' = [polled EXCEPT ![d] = NoEvent]
      /\ UNCHANGED <<poisoned, owner, stream>>
      /\ CompleteRequest(OutcomeOf(polled[d]), owner[d])
  <2>1. polled[d] # NoEvent
    BY ServiceAssumption DEF YieldFinal, FinalEvents, NoEvent
  <2> QED
    BY <2>1, AnswersDiffer DEF YieldFinal, SlotInv, ServiceTypeOK, StreamsOfAccepted
<1>2. /\ polled' \in [Discoveries -> Events \cup {NoEvent}]
      /\ \A e \in Discoveries : polled'[e] # NoEvent => polled[e] # NoEvent
  BY <1>1 DEF SlotInv, ServiceTypeOK
<1>3. CASE ctx # NoRequest
  BY <1>1, <1>2, <1>3, SlotInvSettle DEF CompleteRequest
<1>4. CASE ctx = NoRequest
  <2>1. UNCHANGED slotVars /\ StreamsOfAccepted'
    BY <1>1, <1>2, <1>4 DEF CompleteRequest, slotVars, SlotInv, StreamsOfAccepted
  <2> QED
    BY <2>1, <1>1, <1>2, SlotInvStreams DEF SlotInv, ServiceTypeOK, PoisonedIsEmpty
<1> QED
  BY <1>3, <1>4

(* Every step keeps SlotInv.                                               *)
LEMMA SlotInvStep == SlotInv /\ [ServiceNext]_serviceVars => SlotInv'
<1> SUFFICES ASSUME SlotInv, [ServiceNext]_serviceVars PROVE SlotInv'
  OBVIOUS
<1>1. ASSUME NEW r \in Requests, InitRequest(r) \/ CancelRequest(r)
      PROVE  SlotInv'
  BY <1>1, SlotInvInitRequest, SlotInvCancel
<1>2. ASSUME NEW d \in Discoveries, YieldFinal(d)
      PROVE  SlotInv'
  BY <1>2, SlotInvYield
<1>3. CASE UNCHANGED serviceVars
  BY <1>3, SlotInvStreams
     DEF serviceVars, slotVars, SlotInv, ServiceTypeOK, PoisonedIsEmpty, StreamsOfAccepted
<1> QED
  BY <1>1, <1>2, <1>3, SlotInvDiscovery DEF ServiceNext, StreamStep

(* The slot, the tokens and the response channels agree on any runtime.    *)
THEOREM SlotInvariant == ServiceSpec => []SlotInv
<1>1. SlotInv /\ [ServiceNext]_serviceVars => SlotInv'
  BY SlotInvStep
<1> QED
  BY <1>1, SlotInvInit, PTL DEF ServiceSpec

(* The variables keep their types on any runtime.                          *)
THEOREM TypeCorrect == ServiceSpec => []ServiceTypeOK
<1>1. SlotInv => ServiceTypeOK
  BY DEF SlotInv
<1> QED
  BY <1>1, SlotInvariant, PTL

(* On any runtime, no path of the service drops a response channel that    *)
(* was accepted without answering it: mod.rs's init_request,               *)
(* cancel_request and complete_request keep the slot and the open channel  *)
(* together.                                                               *)
THEOREM RepliesAreNotLost == ServiceSpec => []NoReplyLost
<1>1. SlotInv => NoReplyLost
  BY DEF SlotInv
<1> QED
  BY <1>1, SlotInvariant, PTL

(* On any runtime, the panic of a discovery leaves no accepted client      *)
(* without an answer: get_usb_credential and get_hybrid_credential panic   *)
(* only on an empty slot, and init_request panics before it accepts.       *)
THEOREM PanicsStrandNobody == ServiceSpec => []PanicStrandsNobody
<1>1. SlotInv => PanicStrandsNobody
  BY ServiceAssumption DEF SlotInv, NoReplyLost, PoisonedIsEmpty, PanicStrandsNobody
<1> QED
  BY <1>1, SlotInvariant, PTL

(* On any runtime, a request's token is cancelled exactly when it has been *)
(* answered.                                                               *)
THEOREM TokensFollowAnswers == ServiceSpec => []TokenCancelledIffAnswered
<1>1. SlotInv => TokenCancelledIffAnswered
  BY DEF SlotInv
<1> QED
  BY <1>1, SlotInvariant, PTL

(* AnswerIsFinal: an answer is given only to the request in the slot,      *)
(* whose channel is open, or to one that never had a channel.              *)
LEMMA AnswerStep ==
  ASSUME SlotInv, ServiceNext
  PROVE  \A r \in Requests : answer[r] \notin {"unused", "open"} => answer'[r] = answer[r]
<1>1. ASSUME NEW r \in Requests, InitRequest(r)
      PROVE  \A q \in Requests : answer[q] # "unused" => answer'[q] = answer[q]
  BY <1>1 DEF InitRequest, Accept, Refuse, InitPanics, SlotInv, ServiceTypeOK
<1>2. ASSUME NEW o, NEW from, ctx # NoRequest, Settle(o, from)
      PROVE  \A q \in Requests : answer[q] # "open" => answer'[q] = answer[q]
  BY <1>2 DEF Settle, SlotInv, ServiceTypeOK, NoReplyLost
<1>3. ASSUME NEW r \in Requests, CancelRequest(r)
      PROVE  \A q \in Requests : answer[q] # "open" => answer'[q] = answer[q]
  BY <1>2, <1>3, ServiceAssumption DEF CancelRequest, slotVars
<1>4. ASSUME NEW d \in Discoveries, YieldFinal(d)
      PROVE  \A q \in Requests : answer[q] # "open" => answer'[q] = answer[q]
  BY <1>2, <1>4 DEF YieldFinal, CompleteRequest, slotVars
<1> QED
  BY <1>1, <1>3, <1>4, StreamStepsKeepSlot DEF ServiceNext, StreamStep, slotVars

(* A request that was accepted stays accepted; a cancelled token stays     *)
(* cancelled.                                                              *)
LEMMA AcceptedStays ==
  ASSUME SlotInv, [ServiceNext]_serviceVars
  PROVE  /\ \A r \in Requests : answer[r] \in Accepted => answer'[r] \in Accepted
         /\ cancelled \subseteq cancelled'
<1>1. SlotInv'
  BY SlotInvStep
<1>2. ASSUME NEW r \in Requests, answer[r] \in Sent
      PROVE  answer'[r] \in Sent
  BY <1>2, AnswerStep, AnswersDiffer DEF Accepted, serviceVars
<1>3. ASSUME NEW r \in Requests, InitRequest(r)
      PROVE  \A q \in Requests : answer[q] # "unused" => answer'[q] = answer[q]
  BY <1>3 DEF InitRequest, Accept, Refuse, InitPanics, SlotInv, ServiceTypeOK
<1>4. ASSUME NEW o \in Sent, NEW from, Settle(o, from)
      PROVE  \A q \in Requests : answer'[q] = answer[q] \/ answer'[q] \in Sent
  BY <1>4 DEF Settle, SlotInv, ServiceTypeOK
<1>5. ASSUME NEW r \in Requests, CancelRequest(r)
      PROVE  \A q \in Requests : answer'[q] = answer[q] \/ answer'[q] \in Sent
  BY <1>4, <1>5, AnswersDiffer DEF CancelRequest, slotVars
<1>6. ASSUME NEW d \in Discoveries, YieldFinal(d)
      PROVE  \A q \in Requests : answer'[q] = answer[q] \/ answer'[q] \in Sent
  BY <1>4, <1>6, AnswersDiffer DEF YieldFinal, CompleteRequest, slotVars
<1>7. ASSUME NEW r \in Requests, answer[r] \in Accepted
      PROVE  answer'[r] \in Accepted
  BY <1>3, <1>5, <1>6, <1>7, AnswersDiffer, StreamStepsKeepSlot
     DEF ServiceNext, StreamStep, serviceVars, slotVars, Accepted
<1> QED
  BY <1>1, <1>2, <1>7 DEF SlotInv, ServiceTypeOK, TokenCancelledIffAnswered

(* On any runtime, an answer once given stays: no late transport, repeated *)
(* user action or new request changes it.                                  *)
THEOREM AnswersAreFinal == ServiceSpec => AnswerIsFinal
<1>1. SlotInv /\ [ServiceNext]_serviceVars =>
        [\A r \in Requests :
           answer[r] \notin {"unused", "open"} => answer'[r] = answer[r]]_serviceVars
  BY AnswerStep
<1> QED
  BY <1>1, SlotInvariant, PTL DEF ServiceSpec, AnswerIsFinal

----
(* One worker thread.                                                      *)

(* Nothing is polled and nobody is answered at the start.                  *)
LEMMA OneWorkerInit == ServiceInit => OneWorkerInv
BY AnswersDiffer
   DEF ServiceInit, OneWorkerInv, PolledOwnsSlot, OnePoll, OwnOutcome, Accepted

(* A live stream whose token is not cancelled works for the request in the *)
(* slot.                                                                   *)
LEMMA UncancelledOwnsSlot ==
  ASSUME NEW d \in Discoveries, SlotInv, owner[d] # NoRequest, owner[d] \notin cancelled
  PROVE  ctx = owner[d]
BY DEF SlotInv, ServiceTypeOK, StreamsOfAccepted, NoReplyLost, TokenCancelledIffAnswered,
       Accepted

(* A request settled by its own ceremony keeps OwnOutcome.                 *)
LEMMA SettleOwnOutcome ==
  ASSUME NEW o \in Sent, SlotInv, OwnOutcome, ctx # NoRequest, Settle(o, ctx)
  PROVE  OwnOutcome'
BY DEF Settle, SlotInv, ServiceTypeOK, OwnOutcome

(* With one worker thread every step keeps OneWorkerInv.                   *)
LEMMA OneWorkerStep ==
  ASSUME ~MultiThreaded, SlotInv, OneWorkerInv, ServiceNext
  PROVE  OneWorkerInv'
<1>1. ASSUME NEW r \in Requests, InitRequest(r) \/ CancelRequest(r)
      PROVE  OneWorkerInv'
  <2>1. /\ \A d \in Discoveries : polled[d] = NoEvent
        /\ UNCHANGED <<owner, polled>>
    BY <1>1 DEF InitRequest, Accept, Refuse, InitPanics, CancelRequest, MayRun, streamVars
  <2>2. PolledOwnsSlot' /\ OnePoll'
    BY <2>1 DEF PolledOwnsSlot, OnePoll
  <2>3. CASE InitRequest(r)
    <3>1. /\ answeredBy' = answeredBy
          /\ \A q \in Requests : answer'[q] \in Sent => answer[q] \in Sent
      BY <2>3, AnswersDiffer
         DEF InitRequest, Accept, Refuse, InitPanics, SlotInv, ServiceTypeOK, Accepted
    <3> QED
      BY <2>2, <3>1 DEF OneWorkerInv, OwnOutcome
  <2>4. CASE CancelRequest(r)
    <3>1. ctx = r => OwnOutcome'
      BY <2>4, SettleOwnOutcome, AnswersDiffer, ServiceAssumption
         DEF CancelRequest, OneWorkerInv
    <3>2. ctx # r => OwnOutcome'
      BY <2>4 DEF CancelRequest, slotVars, OneWorkerInv, OwnOutcome
    <3> QED
      BY <2>2, <3>1, <3>2 DEF OneWorkerInv
  <2> QED
    BY <1>1, <2>3, <2>4
<1>2. ASSUME NEW d \in Discoveries, YieldFinal(d)
      PROVE  OneWorkerInv'
  <2>1. /\ polled[d] # NoEvent /\ OutcomeOf(polled[d]) \in Sent
        /\ polled' = [polled EXCEPT ![d] = NoEvent]
        /\ UNCHANGED owner
    BY <1>2, ServiceAssumption, AnswersDiffer DEF YieldFinal, FinalEvents, NoEvent
  <2>2. \A e \in Discoveries : polled'[e] = NoEvent
    BY <2>1 DEF OneWorkerInv, OnePoll, SlotInv, ServiceTypeOK
  <2>3. ctx = owner[d]
    BY <2>1 DEF OneWorkerInv, PolledOwnsSlot
  <2>4. OwnOutcome'
    BY <1>2, <2>1, <2>3, SettleOwnOutcome
       DEF YieldFinal, CompleteRequest, slotVars, OneWorkerInv, OwnOutcome
  <2> QED
    BY <2>2, <2>4 DEF OneWorkerInv, PolledOwnsSlot, OnePoll
<1>3. ASSUME NEW d \in Discoveries, NEW tr \in Transports, NEW e \in Events,
             PollReady(d, tr, e)
      PROVE  OneWorkerInv'
  <2>1. /\ \A x \in Discoveries : polled[x] = NoEvent
        /\ stream[d][tr] = "live" /\ owner[d] \notin cancelled
        /\ polled' = [polled EXCEPT ![d] = e]
        /\ UNCHANGED <<ctx, answer, answeredBy, owner>>
    BY <1>3 DEF PollReady, Ready, MayRun, slotVars
  <2>2. ctx = owner[d]
    BY <2>1, UncancelledOwnsSlot DEF SlotInv, StreamsOfAccepted
  <2> QED
    BY <2>1, <2>2 DEF OneWorkerInv, PolledOwnsSlot, OnePoll, OwnOutcome, SlotInv, ServiceTypeOK
<1>4. ASSUME NEW d \in Discoveries, NEW tr \in Transports, StartTransport(d, tr)
      PROVE  OneWorkerInv'
  BY <1>4 DEF StartTransport, MayRun, slotVars, OneWorkerInv, PolledOwnsSlot, OnePoll, OwnOutcome
<1>5. ASSUME NEW d \in Discoveries,
             \/ \E T \in SUBSET Transports : StartDiscovery(d, T)
             \/ AbandonDiscovery(d) \/ DropStreams(d)
             \/ YieldProgress(d) \/ YieldPanics(d)
             \/ \E tr \in Transports : StartPanics(d, tr) \/ StreamEnds(d, tr)
      PROVE  OneWorkerInv'
  <2>1. /\ UNCHANGED slotVars /\ UNCHANGED owner
        /\ polled' = polled \/ polled' = [polled EXCEPT ![d] = NoEvent]
    BY <1>5 DEF StartDiscovery, AbandonDiscovery, DropStreams, YieldProgress, YieldPanics,
                StartPanics, StreamEnds
  <2>2. \A e \in Discoveries : polled'[e] # NoEvent => polled[e] # NoEvent
    BY <2>1 DEF SlotInv, ServiceTypeOK
  <2> QED
    BY <2>1, <2>2 DEF slotVars, OneWorkerInv, PolledOwnsSlot, OnePoll, OwnOutcome
<1> QED
  BY <1>1, <1>2, <1>3, <1>4, <1>5 DEF ServiceNext

(* OneWorkerInv holds when there is one worker thread.                     *)
ThreadInv == ~MultiThreaded => OneWorkerInv

LEMMA ThreadInvariant == ServiceSpec => []ThreadInv
<1>1. ServiceInit => ThreadInv
  BY OneWorkerInit DEF ThreadInv
<1>2. SlotInv /\ ThreadInv /\ [ServiceNext]_serviceVars => ThreadInv'
  <2>1. CASE UNCHANGED serviceVars
    BY <2>1 DEF serviceVars, ThreadInv, OneWorkerInv, PolledOwnsSlot, OnePoll, OwnOutcome
  <2> QED
    BY <2>1, OneWorkerStep DEF ThreadInv
<1> QED
  BY <1>1, <1>2, SlotInvariant, PTL DEF ServiceSpec

----
(* Whose outcomes answer a request, on any runtime.                        *)

(* An event past its token check belongs to the request in the slot, or,   *)
(* with several threads, to one that has been answered meanwhile.          *)
LEMMA PolledOutcome ==
  ASSUME NEW d \in Discoveries, SlotInv, ThreadInv, YieldFinal(d)
  PROVE  /\ owner[d] \in Requests
         /\ OutcomeOf(polled[d]) \in Sent /\ OutcomeOf(polled[d]) # "cancelled"
         /\ ctx = owner[d] \/ (MultiThreaded /\ answer[owner[d]] \in Sent)
<1>1. polled[d] # NoEvent
  BY ServiceAssumption DEF YieldFinal, FinalEvents, NoEvent
<1>2. owner[d] \in Requests /\ answer[owner[d]] \in Accepted
  BY <1>1 DEF SlotInv, ServiceTypeOK, StreamsOfAccepted
<1>3. OutcomeOf(polled[d]) \in Sent /\ OutcomeOf(polled[d]) # "cancelled"
  BY ServiceAssumption, AnswersDiffer DEF YieldFinal, FinalEvents, OutcomeOf
<1>4. ~MultiThreaded => ctx = owner[d]
  BY <1>1 DEF ThreadInv, OneWorkerInv, PolledOwnsSlot
<1>5. ctx = owner[d] \/ answer[owner[d]] \in Sent
  BY <1>2 DEF SlotInv, NoReplyLost, Accepted
<1>6. ctx = owner[d] \/ (MultiThreaded /\ answer[owner[d]] \in Sent)
  BY <1>4, <1>5
<1> QED
  BY <1>2, <1>3, <1>6

(* Settling with an outcome that may answer keeps OutcomeOwnOrOvertaken.   *)
LEMMA SettleOverOvertaken ==
  ASSUME NEW o \in Sent, NEW from \in Requests,
         SlotInv, OutcomeOwnOrOvertaken, ctx # NoRequest, Settle(o, from),
         ctx = from \/ (MultiThreaded /\ o # "cancelled" /\ answer[from] \in Sent)
  PROVE  OutcomeOwnOrOvertaken'
<1>1. /\ ctx \in Requests
      /\ \A r \in Requests : answer'[r] = IF r = ctx THEN o ELSE answer[r]
      /\ \A r \in Requests : answeredBy'[r] = IF r = ctx THEN from ELSE answeredBy[r]
  BY DEF SlotInv, ServiceTypeOK, Settle
<1>2. \A r \in Requests : answer[r] \in Sent => answer'[r] \in Sent
  BY <1>1
<1> QED
  BY <1>1, <1>2 DEF OutcomeOwnOrOvertaken

(* Every step keeps OutcomeOwnOrOvertaken.                                 *)
LEMMA OvertakenStep ==
  ASSUME SlotInv, ThreadInv, OutcomeOwnOrOvertaken, [ServiceNext]_serviceVars
  PROVE  OutcomeOwnOrOvertaken'
<1>1. ASSUME NEW r \in Requests, InitRequest(r)
      PROVE  OutcomeOwnOrOvertaken'
  <2>1. /\ answeredBy' = answeredBy
        /\ \A q \in Requests : answer[q] \in Sent => answer'[q] = answer[q]
        /\ \A q \in Requests : answer'[q] \in Sent => answer[q] \in Sent
    BY <1>1, AnswersDiffer
       DEF InitRequest, Accept, Refuse, InitPanics, SlotInv, ServiceTypeOK, Accepted
  <2> QED
    BY <2>1 DEF OutcomeOwnOrOvertaken
<1>2. ASSUME NEW r \in Requests, CancelRequest(r), ctx = r
      PROVE  OutcomeOwnOrOvertaken'
  <2>1. Settle("cancelled", r) /\ "cancelled" \in Sent /\ ctx # NoRequest
    BY <1>2, AnswersDiffer, ServiceAssumption DEF CancelRequest
  <2> QED
    BY <1>2, <2>1, SettleOverOvertaken
<1>3. ASSUME NEW d \in Discoveries, YieldFinal(d), ctx # NoRequest
      PROVE  OutcomeOwnOrOvertaken'
  BY <1>3, PolledOutcome, SettleOverOvertaken DEF YieldFinal, CompleteRequest
<1>4. CASE UNCHANGED slotVars
  BY <1>4 DEF slotVars, OutcomeOwnOrOvertaken
<1>5. ASSUME NEW r \in Requests, CancelRequest(r), ctx # r
      PROVE  UNCHANGED slotVars
  BY <1>5 DEF CancelRequest
<1>6. ASSUME NEW d \in Discoveries, YieldFinal(d), ctx = NoRequest
      PROVE  UNCHANGED slotVars
  BY <1>6 DEF YieldFinal, CompleteRequest
<1>7. UNCHANGED serviceVars => UNCHANGED slotVars
  BY DEF serviceVars, slotVars
<1> QED
  BY <1>1, <1>2, <1>3, <1>4, <1>5, <1>6, <1>7, StreamStepsKeepSlot DEF ServiceNext, StreamStep

(* Although complete_request does not compare ids, a client gets the       *)
(* outcome of its own ceremony with one worker thread.  With several it    *)
(* may get an outcome produced for another request, but only for one that  *)
(* had been answered before, and never another user's cancellation.        *)
THEOREM OutcomesAreOwn ==
  ServiceSpec => [](OutcomeOwnOrOvertaken /\ (~MultiThreaded => OwnOutcome))
<1>1. ServiceInit => OutcomeOwnOrOvertaken
  BY AnswersDiffer DEF ServiceInit, OutcomeOwnOrOvertaken, Accepted
<1>2. SlotInv /\ ThreadInv /\ OutcomeOwnOrOvertaken /\ [ServiceNext]_serviceVars =>
        OutcomeOwnOrOvertaken'
  BY OvertakenStep
<1>3. ThreadInv => (~MultiThreaded => OwnOutcome)
  BY DEF ThreadInv, OneWorkerInv
<1> QED
  BY <1>1, <1>2, <1>3, SlotInvariant, ThreadInvariant, PTL DEF ServiceSpec

----
(* The service implements SingleCeremony.                                  *)

(* Settling the request in the slot is an abstract Answer.                 *)
LEMMA SettleIsAnswer ==
  ASSUME NEW o \in Sent, NEW from \in Requests, SlotInv, ctx # NoRequest, Settle(o, from),
         ctx = from \/ (MultiThreaded /\ o # "cancelled" /\ answer[from] \in Sent)
  PROVE  Promise!Next
<1>1. ctx \in Requests
  BY DEF SlotInv, ServiceTypeOK
<1>2. Promise!Answer(ctx, o, from)
  BY DEF Settle, Promise!Answer, Promise!MayAnswer
<1> QED
  BY <1>1, <1>2 DEF Promise!Next

(* Every step of the service is a step of SingleCeremony or a stutter.     *)
LEMMA StepImplements ==
  ASSUME SlotInv, ThreadInv, ServiceNext
  PROVE  [Promise!Next]_(Promise!vars)
<1>1. ASSUME NEW r \in Requests, InitRequest(r)
      PROVE  Promise!Next
  <2>1. Promise!Begin(r) \/ Promise!Refuse(r) \/ Promise!Drop(r)
    BY <1>1 DEF InitRequest, Accept, Refuse, InitPanics, Promise!Begin, Promise!Refuse,
                Promise!Drop
  <2> QED
    BY <2>1 DEF Promise!Next
<1>2. ASSUME NEW r \in Requests, CancelRequest(r)
      PROVE  [Promise!Next]_(Promise!vars)
  <2>1. CASE ctx = r
    <3>1. Settle("cancelled", r) /\ "cancelled" \in Sent /\ ctx # NoRequest
      BY <1>2, <2>1, AnswersDiffer, ServiceAssumption DEF CancelRequest
    <3> QED
      BY <2>1, <3>1, SettleIsAnswer
  <2>2. CASE ctx # r
    BY <1>2, <2>2 DEF CancelRequest, slotVars, Promise!vars
  <2> QED
    BY <2>1, <2>2
<1>3. ASSUME NEW d \in Discoveries, YieldFinal(d)
      PROVE  [Promise!Next]_(Promise!vars)
  <2>1. CASE ctx # NoRequest
    BY <1>3, <2>1, PolledOutcome, SettleIsAnswer DEF YieldFinal, CompleteRequest
  <2>2. CASE ctx = NoRequest
    BY <1>3, <2>2 DEF YieldFinal, CompleteRequest, slotVars, Promise!vars
  <2> QED
    BY <2>1, <2>2
<1>4. ASSUME NEW d \in Discoveries, StreamStep(d)
      PROVE  UNCHANGED Promise!vars
  BY <1>4, StreamStepsKeepSlot DEF slotVars, Promise!vars
<1> QED
  BY <1>1, <1>2, <1>3, <1>4 DEF ServiceNext, StreamStep

(* On any runtime the service keeps the promise of SingleCeremony: one     *)
(* ceremony at a time, refusals only while one runs, each request answered *)
(* once; by its own ceremony or user with one worker thread, and with      *)
(* several by a ceremony that came too late for its own request at worst.  *)
THEOREM ServiceImplementsSingleCeremony == ServiceSpec => ImplementsSingleCeremony
<1>1. ServiceInit => Promise!Init
  BY DEF ServiceInit, Promise!Init
<1>2. SlotInv /\ ThreadInv /\ [ServiceNext]_serviceVars => [Promise!Next]_(Promise!vars)
  <2>1. CASE UNCHANGED serviceVars
    BY <2>1 DEF serviceVars, Promise!vars
  <2> QED
    BY <2>1, StepImplements
<1> QED
  BY <1>1, <1>2, SlotInvariant, ThreadInvariant, PTL
     DEF ServiceSpec, ImplementsSingleCeremony, Promise!Spec
====
