---- MODULE HybridProofs ----
(***************************************************************************)
(* Proofs about HybridHandler, for channels of any capacity and any number *)
(* of updates.                                                             *)
(*                                                                         *)
(* HybridInv says where the QR code may be (in front of the stream, until  *)
(* the window has it), that a verdict cancels the request, and that an     *)
(* operation that ended by itself has left its outcome in the stream.      *)
(***************************************************************************)
EXTENDS HybridHandler, TLAPS

Progress == HybridStates \ {"init"}

(* The kinds of values that the argument is about.                         *)
HybridKinds ==
  /\ hybSetup \in {"creating", "showing", "done"}
  /\ hybTask \in {"none", "opening", "running", "sending", "panicked", "ended"}
  /\ hybTask = "sending" => hybResult \in HybridFinals
  /\ hybUpdates \in Seq(PhoneUpdates)
  /\ hybHeld \in Progress \cup {"none"}
  /\ hybStream \in Seq(HybridStates)

(* Nothing is sent before the QR code; while it waits to be seen, it is in *)
(* front.                                                                  *)
CodeInFront ==
  /\ hybSetup # "done" =>
       hybTask = "none" /\ Len(hybStream) = 0 /\ hybSeen = "none"
  /\ hybTask = "none" => hybRelay = "none"
  /\ hybRelay = "none" => hybHeld = "none"
  /\ hybTask # "none" /\ hybOpen /\ hybSeen = "none" => Len(hybStream) # 0
  /\ \A i \in 1..Len(hybStream) :
       hybStream[i] = "init" <=> (i = 1 /\ hybSeen = "none")

VerdictCancels == hybVerdict # "none" => hybCancelled

OutcomeOnItsWay ==
  hybTask = "ended" /\ hybOpen /\ ~hybCancelled
    => \E i \in 1..Len(hybStream) : hybStream[i] \in HybridFinals

HybridInv == HybridKinds /\ CodeInFront /\ VerdictCancels /\ OutcomeOnItsWay

----
LEMMA InitHybrid == HybridInit => HybridInv
<1> SUFFICES ASSUME HybridInit PROVE HybridInv
  OBVIOUS
<1>1. hybStream = <<>> /\ hybUpdates = <<>>
  BY DEF HybridInit
<1>2. hybStream \in Seq(HybridStates) /\ Len(hybStream) = 0 /\ hybUpdates \in Seq(PhoneUpdates)
  BY <1>1
<1> QED
  BY <1>2 DEF HybridInit, HybridInv, HybridKinds, CodeInFront, VerdictCancels, OutcomeOnItsWay

LEMMA Sends ==
  ASSUME NEW s \in HybridStates, hybStream \in Seq(HybridStates), HybridSend(s)
  PROVE  /\ hybStream' \in Seq(HybridStates)
         /\ Len(hybStream) \in Nat /\ Len(hybStream') = Len(hybStream) + 1
         /\ \A i \in 1..Len(hybStream) : hybStream'[i] = hybStream[i]
         /\ hybStream'[Len(hybStream) + 1] = s
BY DEF HybridSend

(* A state after the QR code is sent: the front of the stream is as it was. *)
LEMMA ProgressKeepsFront ==
  ASSUME NEW s \in Progress, hybStream \in Seq(HybridStates), HybridSend(s),
         hybSeen = "none" => Len(hybStream) # 0, UNCHANGED hybSeen,
         \A i \in 1..Len(hybStream) : hybStream[i] = "init" <=> (i = 1 /\ hybSeen = "none")
  PROVE  /\ Len(hybStream') # 0
         /\ \A i \in 1..Len(hybStream') :
              hybStream'[i] = "init" <=> (i = 1 /\ hybSeen' = "none")
<1>1. /\ Len(hybStream) \in Nat /\ Len(hybStream') = Len(hybStream) + 1
      /\ \A i \in 1..Len(hybStream) : hybStream'[i] = hybStream[i]
      /\ hybStream'[Len(hybStream) + 1] = s
  BY Sends DEF Progress
<1>2. s # "init"
  BY DEF Progress
<1>3. Len(hybStream) + 1 = 1 => hybSeen # "none"
  BY <1>1
<1> QED
  BY <1>1, <1>2, <1>3

(* What the window is told for a state.                                    *)
LEMMA EventsOfStates ==
  \A s \in HybridStates : HybridEvent(s) # "none" /\ (HybridEvent(s) = "init" <=> s = "init")
BY DEF HybridEvent, HybridStates, HybridFinals, HybridErrors

LEMMA OutcomesAreFinal == \A e \in PhoneErrors : PhoneErrorOf[e] \in HybridFinals
BY DEF PhoneErrors, PhoneErrorOf, HybridFinals, HybridErrors

LEMMA UpdatesAreProgress == \A u \in PhoneUpdates : StateOfUpdate[u] \in Progress \cup {"none"}
BY DEF PhoneUpdates, StateOfUpdate, Progress, HybridStates, HybridFinals, HybridErrors

(* A step of the tasks that touches neither the stream nor its reader.     *)
Quiet == UNCHANGED <<hybStream, hybOpen, hybSeen, hybVerdict, hybCancelled>>

LEMMA QuietTask ==
  ASSUME HybridInv, Quiet, UNCHANGED <<hybSetup, hybUpdates, hybHeld>>,
         hybTask # "none", hybTask' # "none",
         hybTask' \in {"opening", "running", "sending", "panicked", "ended"},
         hybTask' = "sending" => hybResult' \in HybridFinals,
         hybTask' = "ended" => hybCancelled \/ ~hybOpen,
         hybRelay' = "none" => hybRelay = "none"
  PROVE  HybridInv'
BY DEF HybridInv, HybridKinds, CodeInFront, VerdictCancels, OutcomeOnItsWay, Quiet

LEMMA QuietRelay ==
  ASSUME HybridInv, Quiet, UNCHANGED <<hybSetup, hybTask, hybResult>>,
         hybUpdates' \in Seq(PhoneUpdates), hybHeld' \in Progress \cup {"none"},
         hybRelay' = "none" <=> hybRelay = "none",
         hybRelay' = "none" => hybHeld' = hybHeld
  PROVE  HybridInv'
BY DEF HybridInv, HybridKinds, CodeInFront, VerdictCancels, OutcomeOnItsWay, Quiet

LEMMA QuietSetup ==
  ASSUME HybridInv, Quiet, UNCHANGED <<hybTask, hybResult, hybRelayVars>>,
         hybSetup # "done", hybSetup' \in {"showing", "done"}
  PROVE  HybridInv'
BY DEF HybridInv, HybridKinds, CodeInFront, VerdictCancels, OutcomeOnItsWay, Quiet, hybRelayVars

(* The reader lets go of the stream.                                       *)
LEMMA LetGo == ASSUME HybridInv, HybridLetGo PROVE HybridInv'
<1>1. hybStream' \in Seq(HybridStates) /\ Len(hybStream') = 0
  BY DEF HybridLetGo
<1> QED
  BY <1>1 DEF HybridLetGo, HybridInv, HybridKinds, CodeInFront, VerdictCancels,
     OutcomeOnItsWay, hybTaskVars, hybRelayVars

(* A poll takes the front of the stream.                                   *)
LEMMA Polls ==
  ASSUME HybridInv, HybridPoll
  PROVE  /\ HybridInv'
         /\ hybSeen = "none" <=> hybSeen' = "init"
<1>1. /\ hybStream \in Seq(HybridStates) /\ hybStream # <<>>
      /\ hybStream' = Tail(hybStream) /\ Head(hybStream) = hybStream[1]
  BY DEF HybridPoll, HybridInv, HybridKinds
<1>2. /\ hybStream' \in Seq(HybridStates)
      /\ Len(hybStream) \in Nat \ {0} /\ Len(hybStream') = Len(hybStream) - 1
      /\ \A i \in 1..Len(hybStream') : hybStream'[i] = hybStream[i + 1]
  BY <1>1
<1>3. hybStream[1] \in HybridStates /\ (hybStream[1] = "init" <=> hybSeen = "none")
  BY <1>1, <1>2 DEF HybridInv, CodeInFront
<1>4. hybSeen' # "none" /\ (hybSeen' = "init" <=> hybStream[1] = "init")
  BY <1>1, <1>3, EventsOfStates DEF HybridPoll
<1>5. \A i \in 1..Len(hybStream') : i + 1 \in 1..Len(hybStream) /\ i + 1 # 1
  BY <1>2
<1>6. \A i \in 1..Len(hybStream') :
        hybStream'[i] = "init" <=> (i = 1 /\ hybSeen' = "none")
  BY <1>2, <1>4, <1>5 DEF HybridInv, CodeInFront
<1>7. HybridKinds'
  BY <1>2 DEF HybridPoll, HybridInv, HybridKinds, hybTaskVars, hybRelayVars
<1>8. CodeInFront'
  BY <1>2, <1>4, <1>6 DEF HybridPoll, HybridInv, CodeInFront, hybTaskVars, hybRelayVars
<1>9. VerdictCancels'
  BY DEF HybridPoll, HybridInv, VerdictCancels
<1>10. OutcomeOnItsWay'
  <2> SUFFICES ASSUME hybTask = "ended", hybOpen, ~hybCancelled'
               PROVE  \E i \in 1..Len(hybStream') : hybStream'[i] \in HybridFinals
    BY DEF OutcomeOnItsWay, HybridPoll, hybTaskVars
  <2>1. hybStream[1] \notin HybridFinals
    BY <1>1 DEF HybridPoll
  <2>2. PICK i \in 1..Len(hybStream) : hybStream[i] \in HybridFinals
    BY DEF HybridPoll, HybridInv, OutcomeOnItsWay
  <2>3. i # 1 /\ i - 1 \in 1..Len(hybStream') /\ (i - 1) + 1 = i
    BY <2>1, <2>2, <1>2
  <2> QED
    BY <2>2, <2>3, <1>2
<1> QED
  BY <1>3, <1>4, <1>7, <1>8, <1>9, <1>10 DEF HybridInv

LEMMA HybridStep == HybridInv /\ [HybridNext]_hybVars => HybridInv'
<1> SUFFICES ASSUME HybridInv, [HybridNext]_hybVars PROVE HybridInv'
  OBVIOUS
<1> USE DEF hybTaskVars, hybRelayVars, hybEndVars
<1>1. CASE DeviceCreated
  BY <1>1, QuietSetup DEF DeviceCreated, Quiet
<1>2. CASE DeviceFails
  BY <1>2, QuietSetup DEF DeviceFails, Quiet
<1>3. CASE SendQrCode
  <2>1. /\ hybStream' \in Seq(HybridStates) /\ Len(hybStream') = 1 /\ hybStream'[1] = "init"
        /\ hybSeen' = "none" /\ hybTask = "none"
    <3>1. Len(hybStream) = 0 /\ hybStream \in Seq(HybridStates) /\ "init" \in HybridStates
      BY <1>3 DEF SendQrCode, HybridInv, CodeInFront, HybridKinds, HybridStates
    <3> QED
      BY <1>3, <3>1, Sends DEF SendQrCode, HybridInv, CodeInFront
  <2> QED
    BY <1>3, <2>1 DEF SendQrCode, HybridInv, HybridKinds, CodeInFront, VerdictCancels,
       OutcomeOnItsWay
<1>4. CASE QrCodeUnwanted
  BY <1>4, QuietSetup DEF QrCodeUnwanted, Quiet
<1>5. CASE RelayTakes
  <2>1. Head(hybUpdates) \in PhoneUpdates /\ hybUpdates' \in Seq(PhoneUpdates)
    BY <1>5 DEF RelayTakes, HybridInv, HybridKinds
  <2> QED
    BY <1>5, <2>1, UpdatesAreProgress, QuietRelay DEF RelayTakes, Quiet
<1>6. CASE RelaySends
  <2>1. CASE ~hybOpen
    BY <1>6, <2>1, QuietRelay DEF RelaySends, Quiet, HybridInv, HybridKinds
  <2>2. CASE hybOpen
    <3>1. /\ hybHeld \in Progress /\ hybStream \in Seq(HybridStates) /\ HybridSend(hybHeld)
          /\ hybTask # "none" /\ (hybSeen = "none" => Len(hybStream) # 0)
      BY <1>6, <2>2 DEF RelaySends, HybridInv, HybridKinds, CodeInFront
    <3>2. /\ hybStream' \in Seq(HybridStates)
          /\ Len(hybStream) \in Nat /\ Len(hybStream') = Len(hybStream) + 1
          /\ \A i \in 1..Len(hybStream) : hybStream'[i] = hybStream[i]
      BY <3>1, Sends DEF Progress
    <3>3. /\ Len(hybStream') # 0
          /\ \A i \in 1..Len(hybStream') :
               hybStream'[i] = "init" <=> (i = 1 /\ hybSeen' = "none")
      BY <1>6, <3>1, ProgressKeepsFront DEF RelaySends, HybridInv, CodeInFront
    <3>4. HybridKinds' /\ CodeInFront' /\ VerdictCancels'
      BY <1>6, <3>1, <3>2, <3>3
         DEF RelaySends, HybridInv, HybridKinds, CodeInFront, VerdictCancels
    <3>5. OutcomeOnItsWay'
      BY <1>6, <3>2 DEF RelaySends, HybridInv, OutcomeOnItsWay
    <3> QED
      BY <3>4, <3>5 DEF HybridInv
  <2> QED
    BY <2>1, <2>2
<1>7. CASE RelayEnds
  BY <1>7, QuietRelay DEF RelayEnds, Quiet, HybridInv, HybridKinds
<1>9. CASE OperationStops
  BY <1>9, QuietTask DEF OperationStops, Quiet
<1>10. CASE SendResult
  <2>1. CASE ~hybOpen
    BY <1>10, <2>1, QuietTask DEF SendResult, Quiet
  <2>2. CASE hybOpen
    <3>1. /\ hybResult \in Progress \cap HybridFinals /\ hybStream \in Seq(HybridStates)
          /\ HybridSend(hybResult) /\ hybSetup = "done"
          /\ (hybSeen = "none" => Len(hybStream) # 0)
      BY <1>10, <2>2 DEF SendResult, HybridInv, HybridKinds, CodeInFront, Progress,
         HybridStates, HybridFinals, HybridErrors
    <3>2. /\ hybStream' \in Seq(HybridStates)
          /\ Len(hybStream) \in Nat /\ Len(hybStream') = Len(hybStream) + 1
          /\ hybStream'[Len(hybStream) + 1] = hybResult
      BY <3>1, Sends DEF Progress
    <3>3. /\ Len(hybStream') # 0
          /\ \A i \in 1..Len(hybStream') :
               hybStream'[i] = "init" <=> (i = 1 /\ hybSeen' = "none")
      BY <1>10, <3>1, ProgressKeepsFront DEF SendResult, HybridInv, CodeInFront
    <3>4. HybridKinds' /\ CodeInFront' /\ VerdictCancels'
      BY <1>10, <3>1, <3>2, <3>3
         DEF SendResult, HybridInv, HybridKinds, CodeInFront, VerdictCancels
    <3>5. Len(hybStream) + 1 \in 1..Len(hybStream') /\ hybResult \in HybridFinals
      BY <3>1, <3>2
    <3>6. OutcomeOnItsWay'
      BY <3>2, <3>5 DEF OutcomeOnItsWay
    <3> QED
      BY <3>4, <3>6 DEF HybridInv
  <2> QED
    BY <2>1, <2>2
<1>11. CASE HybridOpens
  BY <1>11, QuietTask DEF HybridOpens, Quiet
<1>12. CASE HybridOpenPanics
  BY <1>12, QuietTask DEF HybridOpenPanics, Quiet
<1>13. CASE PhoneAnswersNothing
  BY <1>13, QuietTask DEF PhoneAnswersNothing, Quiet
<1>14. ASSUME NEW u \in PhoneUpdates, PhoneReports(u) PROVE HybridInv'
  <2>1. hybUpdates' \in Seq(PhoneUpdates)
    <3>1. hybUpdates \in Seq(PhoneUpdates)
      BY DEF HybridInv, HybridKinds
    <3>2. CASE Len(hybUpdates) < UpdateCapacity
      BY <1>14, <3>1, <3>2 DEF PhoneReports
    <3>3. CASE ~(Len(hybUpdates) < UpdateCapacity)
      <4>1. hybUpdates # <<>>
        BY <3>1, <3>3, HybridAssumption
      <4>2. Tail(hybUpdates) \in Seq(PhoneUpdates)
        BY <3>1, <4>1
      <4> QED
        BY <1>14, <3>3, <4>2 DEF PhoneReports
    <3> QED
      BY <3>2, <3>3
  <2> QED
    BY <1>14, <2>1, QuietRelay DEF PhoneReports, Quiet, HybridInv, HybridKinds
<1>15. ASSUME NEW r \in {"completed"} \cup PhoneErrors, PhoneAnswers(r) PROVE HybridInv'
  <2>1. hybResult' \in HybridFinals
    BY <1>15, OutcomesAreFinal DEF PhoneAnswers, HybridFinals
  <2> QED
    BY <1>15, <2>1, QuietTask DEF PhoneAnswers, Quiet
<1>16. CASE HybridPoll
  BY <1>16, Polls
<1>17. CASE HybridStreamEnds
  BY <1>17, LetGo DEF HybridStreamEnds
<1>18. CASE HybridStreamDropped
  BY <1>18, LetGo DEF HybridStreamDropped
<1>19. CASE HybridCancelled
  BY <1>19 DEF HybridCancelled, HybridInv, HybridKinds, CodeInFront, VerdictCancels,
     OutcomeOnItsWay
<1>20. CASE UNCHANGED hybVars
  BY <1>20 DEF hybVars, HybridInv, HybridKinds, CodeInFront, VerdictCancels, OutcomeOnItsWay
<1> QED
  BY <1>1, <1>2, <1>3, <1>4, <1>5, <1>6, <1>7, <1>9, <1>10, <1>11, <1>12, <1>13,
     <1>14, <1>15, <1>16, <1>17, <1>18, <1>19, <1>20
     DEF HybridNext, HybridSetup, HybridRelay, HybridEnds

LEMMA HybridAlways == HybridSpec => []HybridInv
BY InitHybrid, HybridStep, PTL DEF HybridSpec

----
(* An operation that ran to its end settles the request                    *)
(* (hybrid.rs: the state sent after run_until_cancelled).                  *)
THEOREM EndsAreTold == HybridSpec => []HybridEndIsTold
<1>1. HybridInv => HybridEndIsTold
  <2> SUFFICES ASSUME HybridInv, hybTask = "ended", hybOpen, hybStream = <<>>, ~hybCancelled
               PROVE  FALSE
    BY DEF HybridEndIsTold
  <2>1. Len(hybStream) = 0
    OBVIOUS
  <2>2. \E i \in 1..Len(hybStream) : hybStream[i] \in HybridFinals
    BY DEF HybridInv, OutcomeOnItsWay
  <2> QED
    BY <2>1, <2>2
<1> QED
  BY <1>1, HybridAlways, PTL

(* Only a poll changes what the window has seen, or the verdict.           *)
LEMMA OnlyPollsAreSeen ==
  ASSUME [HybridNext]_hybVars, ~HybridPoll
  PROVE  UNCHANGED <<hybSeen, hybVerdict>>
BY DEF HybridNext, hybVars, hybEndVars, HybridSetup, HybridRelay, HybridEnds, DeviceCreated,
   DeviceFails, SendQrCode, QrCodeUnwanted, RelayTakes, RelaySends, RelayEnds,
   OperationStops, SendResult, HybridOpens, HybridOpenPanics,
   PhoneAnswersNothing, PhoneReports, PhoneAnswers, HybridStreamEnds, HybridStreamDropped,
   HybridLetGo, HybridCancelled

(* The window is shown the QR code first (hybrid.rs: the operation's task  *)
(* is spawned once the code is sent).                                      *)
THEOREM QrCodeComesFirst == HybridSpec => QrCodeFirst
<1>1. HybridInv /\ [HybridNext]_hybVars
        => [hybSeen' # hybSeen => (hybSeen = "none" <=> hybSeen' = "init")]_hybVars
  BY Polls, OnlyPollsAreSeen
<1> QED
  BY <1>1, HybridAlways, PTL DEF HybridSpec, QrCodeFirst

(* The first final state that the stream yields decides the request        *)
(* (credential_service/mod.rs: HybridStateStream::poll_next).              *)
THEOREM FirstOutcomesDecide == HybridSpec => FirstOutcomeDecides
<1>1. HybridInv /\ [HybridNext]_hybVars
        => [hybVerdict # "none" => UNCHANGED <<hybVerdict, hybSeen>>]_hybVars
  BY OnlyPollsAreSeen DEF HybridInv, VerdictCancels, HybridPoll
<1> QED
  BY <1>1, HybridAlways, PTL DEF HybridSpec, FirstOutcomeDecides

----
(* The types: what is left to show beyond HybridInv is the bounds of the   *)
(* channels and the kinds of the outcomes.                                 *)
HybridBounds ==
  /\ Len(hybUpdates) <= UpdateCapacity /\ Len(hybStream) <= HybridCapacity
  /\ hybSent \in 0..MaxUpdates

HybridOutcomes ==
  /\ hybResult \in HybridFinals \cup {"none"} /\ hybVerdict \in HybridFinals \cup {"none"}
  /\ hybSeen \in HybridStates \cup {"none"}
  /\ hybRelay \in {"none", "running", "ended"}

LEMMA TypeOfParts ==
  HybridInv /\ HybridBounds /\ HybridOutcomes /\ {hybLagged, hybOpen, hybCancelled} \subseteq BOOLEAN
    => HybridTypeOK
BY DEF HybridInv, HybridKinds, HybridBounds, HybridOutcomes, HybridTypeOK, Progress

LEMMA BoundsStep == HybridInv /\ HybridBounds /\ [HybridNext]_hybVars => HybridBounds'
<1> SUFFICES ASSUME HybridInv, HybridBounds, [HybridNext]_hybVars PROVE HybridBounds'
  OBVIOUS
<1> USE DEF hybTaskVars, hybRelayVars, hybEndVars
<1>1. /\ hybStream \in Seq(HybridStates) /\ hybUpdates \in Seq(PhoneUpdates)
      /\ HybridCapacity \in Nat \ {0} /\ UpdateCapacity \in Nat \ {0} /\ MaxUpdates \in Nat
  BY HybridAssumption DEF HybridInv, HybridKinds
<1>2. ASSUME NEW s, HybridSend(s), UNCHANGED <<hybUpdates, hybSent>> PROVE HybridBounds'
  <2>1. Len(hybStream') = Len(hybStream) + 1 /\ Len(hybStream) \in Nat
    BY <1>1, <1>2 DEF HybridSend
  <2> QED
    BY <1>1, <1>2, <2>1 DEF HybridSend, HybridBounds
<1>3. CASE UNCHANGED <<hybUpdates, hybStream, hybSent>>
  BY <1>3 DEF HybridBounds
<1>4. CASE \/ DeviceCreated \/ DeviceFails \/ QrCodeUnwanted \/ HybridOpens \/ HybridOpenPanics
           \/ OperationStops \/ PhoneAnswersNothing \/ RelayEnds
           \/ HybridCancelled \/ \E r \in {"completed"} \cup PhoneErrors : PhoneAnswers(r)
  BY <1>3, <1>4 DEF DeviceCreated, DeviceFails, QrCodeUnwanted, HybridOpens, HybridOpenPanics,
     OperationStops, PhoneAnswersNothing, RelayEnds, HybridCancelled, PhoneAnswers
<1>5. CASE SendQrCode
  BY <1>2, <1>5 DEF SendQrCode
<1>6. CASE SendResult \/ RelaySends
  BY <1>2, <1>3, <1>6 DEF SendResult, RelaySends
<1>7. CASE RelayTakes
  <2>1. hybUpdates # <<>> /\ hybUpdates' = Tail(hybUpdates) /\ UNCHANGED <<hybStream, hybSent>>
    BY <1>7 DEF RelayTakes
  <2>2. Len(hybUpdates') = Len(hybUpdates) - 1 /\ Len(hybUpdates) \in Nat
    BY <1>1, <2>1
  <2> QED
    BY <1>1, <2>1, <2>2 DEF HybridBounds
<1>8. ASSUME NEW u \in PhoneUpdates, PhoneReports(u) PROVE HybridBounds'
  <2>1. hybSent' \in 0..MaxUpdates /\ UNCHANGED hybStream
    BY <1>1, <1>8 DEF PhoneReports, HybridBounds
  <2>2. CASE Len(hybUpdates) < UpdateCapacity
    <3>1. Len(hybUpdates') = Len(hybUpdates) + 1 /\ Len(hybUpdates) \in Nat
      BY <1>1, <1>8, <2>2 DEF PhoneReports
    <3> QED
      BY <1>1, <2>1, <2>2, <3>1 DEF HybridBounds
  <2>3. CASE ~(Len(hybUpdates) < UpdateCapacity)
    <3>1. hybUpdates # <<>> /\ hybUpdates' = Append(Tail(hybUpdates), u)
      BY <1>1, <1>8, <2>3 DEF PhoneReports
    <3>2. Tail(hybUpdates) \in Seq(PhoneUpdates) /\ Len(Tail(hybUpdates)) = Len(hybUpdates) - 1
      BY <1>1, <3>1
    <3>3. Len(hybUpdates') = Len(hybUpdates)
      BY <1>1, <3>1, <3>2
    <3> QED
      BY <2>1, <3>3 DEF HybridBounds
  <2> QED
    BY <2>2, <2>3
<1>9. CASE HybridPoll
  <2>1. hybStream # <<>> /\ hybStream' = Tail(hybStream) /\ UNCHANGED <<hybUpdates, hybSent>>
    BY <1>9 DEF HybridPoll
  <2>2. Len(hybStream') = Len(hybStream) - 1 /\ Len(hybStream) \in Nat
    BY <1>1, <2>1
  <2> QED
    BY <1>1, <2>1, <2>2 DEF HybridBounds
<1>10. CASE HybridStreamEnds \/ HybridStreamDropped
  <2>1. Len(hybStream') = 0 /\ UNCHANGED <<hybUpdates, hybSent>>
    BY <1>10 DEF HybridStreamEnds, HybridStreamDropped, HybridLetGo
  <2> QED
    BY <1>1, <2>1 DEF HybridBounds
<1>11. CASE UNCHANGED hybVars
  BY <1>3, <1>11 DEF hybVars
<1> QED
  BY <1>4, <1>5, <1>6, <1>7, <1>8, <1>9, <1>10, <1>11
     DEF HybridNext, HybridSetup, HybridRelay, HybridEnds

LEMMA OutcomesStep == HybridInv /\ HybridOutcomes /\ [HybridNext]_hybVars => HybridOutcomes'
<1> SUFFICES ASSUME HybridInv, HybridOutcomes, [HybridNext]_hybVars PROVE HybridOutcomes'
  OBVIOUS
<1> USE DEF hybTaskVars, hybRelayVars, hybEndVars
<1>1. CASE UNCHANGED <<hybResult, hybVerdict, hybSeen>> /\ hybRelay' \in {hybRelay, "running", "ended"}
  BY <1>1 DEF HybridOutcomes
<1>2. CASE HybridSetup \/ HybridRelay \/ HybridEnds \/ HybridOpens \/ HybridOpenPanics
           \/ PhoneAnswersNothing
  BY <1>1, <1>2 DEF HybridSetup, DeviceCreated, DeviceFails, SendQrCode, QrCodeUnwanted,
     HybridRelay, RelayTakes, RelaySends, RelayEnds, HybridEnds, OperationStops,
     SendResult, HybridOpens, HybridOpenPanics, PhoneAnswersNothing
<1>3. CASE \/ \E u \in PhoneUpdates : PhoneReports(u)
           \/ HybridStreamEnds \/ HybridStreamDropped \/ HybridCancelled
  BY <1>1, <1>3 DEF PhoneReports, HybridStreamEnds, HybridStreamDropped, HybridLetGo,
     HybridCancelled
<1>4. ASSUME NEW r \in {"completed"} \cup PhoneErrors, PhoneAnswers(r) PROVE HybridOutcomes'
  <2>1. hybResult' \in HybridFinals
    BY <1>4, OutcomesAreFinal DEF PhoneAnswers, HybridFinals
  <2> QED
    BY <1>4, <2>1 DEF PhoneAnswers, HybridOutcomes
<1>5. CASE HybridPoll
  <2>1. Head(hybStream) \in HybridStates
    BY <1>5 DEF HybridPoll, HybridInv, HybridKinds
  <2>2. HybridEvent(Head(hybStream)) \in HybridStates
    BY <2>1 DEF HybridEvent, HybridStates, HybridFinals, HybridErrors
  <2> QED
    BY <1>5, <2>2 DEF HybridPoll, HybridOutcomes
<1>6. CASE UNCHANGED hybVars
  BY <1>1, <1>6 DEF hybVars
<1> QED
  BY <1>2, <1>3, <1>4, <1>5, <1>6 DEF HybridNext

LEMMA FlagsStep ==
  ASSUME {hybLagged, hybOpen, hybCancelled} \subseteq BOOLEAN, [HybridNext]_hybVars
  PROVE  {hybLagged, hybOpen, hybCancelled}' \subseteq BOOLEAN
<1> USE DEF hybTaskVars, hybRelayVars, hybEndVars
<1>1. CASE HybridSetup \/ HybridRelay \/ HybridEnds \/ HybridOpens \/ HybridOpenPanics
           \/ PhoneAnswersNothing
  BY <1>1 DEF HybridSetup, DeviceCreated, DeviceFails, SendQrCode, QrCodeUnwanted,
     HybridRelay, RelayTakes, RelaySends, RelayEnds, HybridEnds, OperationStops,
     SendResult, HybridOpens, HybridOpenPanics, PhoneAnswersNothing
<1>2. CASE \/ HybridStreamEnds \/ HybridStreamDropped \/ HybridCancelled \/ HybridPoll
  BY <1>2 DEF HybridStreamEnds, HybridStreamDropped, HybridLetGo, HybridCancelled, HybridPoll
<1>3. CASE \/ \E u \in PhoneUpdates : PhoneReports(u)
           \/ \E r \in {"completed"} \cup PhoneErrors : PhoneAnswers(r)
  BY <1>3 DEF PhoneReports, PhoneAnswers
<1>4. CASE UNCHANGED hybVars
  BY <1>4 DEF hybVars
<1> QED
  BY <1>1, <1>2, <1>3, <1>4 DEF HybridNext

(* No fairness is needed for that.                                         *)
LEMMA HybridTypesKept == HybridInit /\ [][HybridNext]_hybVars => []HybridTypeOK
<1> DEFINE Types ==
      HybridBounds /\ HybridOutcomes /\ {hybLagged, hybOpen, hybCancelled} \subseteq BOOLEAN
<1>1. HybridInit => Types
  <2> SUFFICES ASSUME HybridInit PROVE Types
    OBVIOUS
  <2>1. Len(hybUpdates) = 0 /\ Len(hybStream) = 0
    BY DEF HybridInit
  <2>2. HybridBounds
    BY <2>1, HybridAssumption DEF HybridInit, HybridBounds
  <2> QED
    BY <2>2 DEF HybridInit, HybridOutcomes
<1>2. HybridInv /\ Types /\ [HybridNext]_hybVars => Types'
  BY BoundsStep, OutcomesStep, FlagsStep
<1>3. HybridInv /\ Types => HybridTypeOK
  BY TypeOfParts
<1> QED
  BY <1>1, <1>2, <1>3, InitHybrid, HybridStep, PTL

(* The variables keep their types, and the channels their bounds.          *)
THEOREM HybridTypeCorrect == HybridSpec => []HybridTypeOK
BY HybridTypesKept, PTL DEF HybridSpec
====
