---- MODULE WebExtProofs ----
(***************************************************************************)
(* Proofs about WebExt, for any frames, ports and stops of the background  *)
(* script.                                                                 *)
(*                                                                         *)
(* NumbersInv: the page's numbers are fresh, so no request is begun twice. *)
(* TripInv: until its shim asks, the portal knows nothing of a request; a  *)
(* response with data was the portal's; a response under way carries the   *)
(* frame and the number of the request it answers.                         *)
(***************************************************************************)
EXTENDS WebExt, FiniteSetTheorems, TLAPS

AskedBy(f) == {r \in Started : FrameOf(r) = f}

NumbersInv ==
  \A r \in Requests :
    /\ IsFiniteSet(AskedBy(FrameOf(r)))
    /\ r \in Started => IdOf(r) < Cardinality(AskedBy(FrameOf(r)))

Unasked == {"unused", "posted", "sent", "started", "registering", "registered"}

PortalGave(r) == webPortal[r] = "credential"

Answers(m) ==
  /\ DOMAIN m = {"leg", "frame", "port", "id", "from", "answer"}
  /\ m.from \in Requests /\ m.frame = FrameOf(m.from) /\ m.id = IdOf(m.from)
  /\ m.answer = "data" => PortalGave(m.from)

TripInv ==
  /\ \A r \in Requests :
       /\ webStage[r] \in Unasked => webPortal[r] = "none"
       /\ webAnswer[r] = "data" => PortalGave(r)
  /\ \A m \in webBack : Answers(m)

WebDomains ==
  /\ DOMAIN webPromise = Requests /\ DOMAIN webFrom = Requests
  /\ DOMAIN webStage = Requests /\ DOMAIN webPortal = Requests /\ DOMAIN webAnswer = Requests

WebInv == WebDomains /\ NumbersInv /\ TripInv /\ OwnResponseSettles

----
LEMMA RequestIsPair ==
  \A r \in Requests : r = <<FrameOf(r), IdOf(r)>> /\ IdOf(r) \in Nat /\ FrameOf(r) \in Frames
BY WebAssumption DEF Requests, FrameOf, IdOf

LEMMA InitWeb == WebInit => WebInv
<1> SUFFICES ASSUME WebInit PROVE WebInv
  OBVIOUS
<1>1. Started = {}
  BY DEF WebInit, Started, WebAt
<1>2. \A f : AskedBy(f) = {}
  BY <1>1 DEF AskedBy
<1>3. NumbersInv
  BY <1>1, <1>2, FS_EmptySet DEF NumbersInv
<1> QED
  BY <1>3 DEF WebInit, WebInv, WebDomains, TripInv, OwnResponseSettles

(* A step that begins no request keeps the numbers as they are.            *)
LEMMA KeepsNumbers ==
  ASSUME WebInv,
         \A r \in Requests : webStage'[r] = "unused" <=> webStage[r] = "unused"
  PROVE  NumbersInv'
<1>1. Started' = Started
  BY DEF Started, WebAt
<1>2. \A f : AskedBy(f)' = AskedBy(f)
  BY <1>1 DEF AskedBy
<1> QED
  BY <1>1, <1>2 DEF WebInv, NumbersInv

(* A fresh number is not that of a request begun before.                   *)
LEMMA BeginsFresh ==
  ASSUME WebInv, NEW r \in Requests, NEW cmd, StartRequest(r, cmd)
  PROVE  /\ webStage[r] = "unused"
         /\ NumbersInv'
<1> DEFINE f == FrameOf(r)
<1>1. IdOf(r) = Cardinality(AskedBy(f)) /\ IsFiniteSet(AskedBy(f)) /\ IdOf(r) \in Nat
  BY RequestIsPair DEF StartRequest, AskedBy, WebInv, NumbersInv
<1>2. r \notin Started
  BY <1>1 DEF WebInv, NumbersInv
<1>3. Started' = Started \cup {r}
  BY DEF StartRequest, WebGoes, Started, WebAt, WebInv, WebDomains
<1>4. AskedBy(f)' = AskedBy(f) \cup {r} /\ r \notin AskedBy(f)
  BY <1>2, <1>3 DEF AskedBy
<1>5. \A g : g # f => AskedBy(g)' = AskedBy(g)
  BY <1>3 DEF AskedBy
<1>6. /\ IsFiniteSet(AskedBy(f)')
      /\ Cardinality(AskedBy(f)') = Cardinality(AskedBy(f)) + 1
  BY <1>1, <1>4, FS_AddElement
<1>7. ASSUME NEW q \in Requests
      PROVE  /\ IsFiniteSet(AskedBy(FrameOf(q))')
             /\ q \in Started' => IdOf(q) < Cardinality(AskedBy(FrameOf(q))')
  <2>1. CASE FrameOf(q) # f
    BY <1>3, <1>5, <2>1 DEF WebInv, NumbersInv
  <2>2. CASE q = r
    BY <1>1, <1>6, <2>2
  <2>3. CASE FrameOf(q) = f /\ q # r
    <3>1. q \in Started' => IdOf(q) < Cardinality(AskedBy(f))
      BY <1>3, <2>3 DEF WebInv, NumbersInv
    <3>2. IdOf(q) \in Nat
      BY RequestIsPair
    <3> QED
      BY <1>1, <1>6, <2>3, <3>1, <3>2
  <2> QED
    BY <2>1, <2>2, <2>3
<1> QED
  BY <1>2, <1>7 DEF NumbersInv, Started, WebAt

(* A step of requests already begun on their way to the shim or past it.   *)
LEMMA Travels ==
  ASSUME WebInv, UNCHANGED <<webPromise, webFrom, webPortal, webAnswer>>,
         DOMAIN webStage' = Requests,
         \A r \in Requests : webStage'[r] = "unused" <=> webStage[r] = "unused",
         \A r \in Requests : webStage'[r] \in Unasked => webStage[r] \in Unasked,
         \A m \in webBack' : Answers(m)
  PROVE  WebInv'
BY KeepsNumbers DEF WebInv, WebDomains, TripInv, OwnResponseSettles, Answers, PortalGave

LEMMA SameResponses == ASSUME WebInv PROVE \A m \in webBack : Answers(m)
BY DEF WebInv, TripInv

(* The shim writes its answer.                                             *)
LEMMA ShimWrites ==
  ASSUME WebInv, NEW r \in Requests, NEW answer \in {"data", "error"}, Writes(r, answer),
         webStage[r] # "unused", answer = "data" => PortalGave(r),
         UNCHANGED <<webPromise, webFrom, webPortal, webBack>>
  PROVE  WebInv'
<1>1. NumbersInv'
  BY KeepsNumbers DEF Writes, WebGoes, WebInv, WebDomains
<1> QED
  BY <1>1 DEF Writes, WebGoes, WebInv, WebDomains, TripInv, OwnResponseSettles, Answers,
     PortalGave, Unasked

(* A response settles the promise of the request it answers.               *)
LEMMA Settles ==
  ASSUME WebInv, NEW m \in webBack, NEW outcome \in {"resolved", "rejected"},
         Settle(m, outcome), outcome = "resolved" => m.answer = "data"
  PROVE  WebInv'
<1>1. NumbersInv'
  BY KeepsNumbers DEF Settle, webTrip
<1>2. /\ m.from \in Requests /\ <<m.frame, m.id>> = m.from
      /\ m.answer = "data" => PortalGave(m.from)
  BY RequestIsPair DEF WebInv, TripInv, Answers
<1>3. TripInv'
  BY DEF Settle, webTrip, WebInv, TripInv, Answers, PortalGave
<1>4. WebDomains' /\ OwnResponseSettles'
  BY <1>2 DEF Settle, webTrip, WebInv, WebDomains, OwnResponseSettles, PortalGave
<1> QED
  BY <1>1, <1>3, <1>4 DEF WebInv

LEMMA WebStep == WebInv /\ [WebNext]_webVars => WebInv'
<1> SUFFICES ASSUME WebInv, [WebNext]_webVars PROVE WebInv'
  OBVIOUS
<1> USE DEF webPage, webPorts, webTrip, webEnv, WebAt
<1>1. ASSUME NEW r \in Requests, NEW cmd, StartRequest(r, cmd) PROVE WebInv'
  <2>1. webStage[r] = "unused" /\ NumbersInv'
    BY <1>1, BeginsFresh
  <2> QED
    BY <1>1, <2>1 DEF StartRequest, WebGoes, WebInv, WebDomains, TripInv, OwnResponseSettles,
       Answers, PortalGave, Unasked
<1>2. ASSUME NEW r \in Requests, BridgeForwards(r) PROVE WebInv'
  <2>1. /\ webStage[r] = "posted" /\ (WebGoes(r, "sent") \/ WebGoes(r, "over"))
        /\ UNCHANGED <<webPromise, webFrom, webPortal, webAnswer, webBack>>
    BY <1>2 DEF BridgeForwards
  <2> QED
    BY <2>1, Travels, SameResponses DEF WebGoes, WebInv, WebDomains, Unasked
<1>3. ASSUME NEW r \in Requests, SendNativeMessage(r) PROVE WebInv'
  BY <1>3, Travels, SameResponses DEF SendNativeMessage, WebGoes, WebInv, WebDomains, Unasked
<1>4. ASSUME NEW r \in Requests, PostResponse(r) PROVE WebInv'
  <2> DEFINE m == [ leg |-> "port", frame |-> FrameOf(r), port |-> webPort[r],
                    id |-> IdOf(r), from |-> r, answer |-> webAnswer[r] ]
  <2>1. Answers(m)
    BY DEF Answers, WebInv, TripInv
  <2>2. \A n \in webBack' : Answers(n)
    BY <1>4, <2>1, SameResponses DEF PostResponse
  <2> QED
    BY <1>4, <2>2, Travels DEF PostResponse, WebGoes, WebInv, WebDomains, Unasked
<1>5. ASSUME NEW r \in Requests, ShimFails(r) PROVE WebInv'
  BY <1>5, ShimWrites DEF ShimFails
<1>6. ASSUME NEW r \in Requests, ShimAsks(r) PROVE WebInv'
  <2>1. NumbersInv'
    BY <1>6, KeepsNumbers DEF ShimAsks, WebGoes, WebInv, WebDomains
  <2> QED
    BY <1>6, <2>1 DEF ShimAsks, WebGoes, WebInv, WebDomains, TripInv, OwnResponseSettles,
       Answers, PortalGave, Unasked
<1>7. ASSUME NEW r \in Requests, ShimSucceeds(r) PROVE WebInv'
  BY <1>7, ShimWrites DEF ShimSucceeds, PortalGave
<1>8. ASSUME NEW r \in Requests, ShimTimesOut(r) PROVE WebInv'
  BY <1>8, ShimWrites DEF ShimTimesOut
<1>9. ASSUME NEW r \in Requests, NativeMessageFails(r) PROVE WebInv'
  BY <1>9, Travels, SameResponses DEF NativeMessageFails, WebGoes, WebInv, WebDomains, Unasked
<1>10. ASSUME NEW r \in Requests, NEW result, PortalResponds(r, result) PROVE WebInv'
  <2>1. NumbersInv'
    BY <1>10, KeepsNumbers DEF PortalResponds
  <2> QED
    BY <1>10, <2>1 DEF PortalResponds, WebInv, WebDomains, TripInv, OwnResponseSettles,
       Answers, PortalGave, Unasked
<1>11. ASSUME NEW f \in Frames, WebBridge(f) PROVE WebInv'
  <2>1. UNCHANGED <<webPage, webTrip, webBack, webEnv>>
    BY <1>11 DEF WebBridge, Reconnect, OnDisconnect
  <2> QED
    BY <2>1, Travels, SameResponses DEF WebInv, WebDomains
<1>12. ASSUME NEW m \in webBack, WebReturns(m) PROVE WebInv'
  <2>1. CASE BridgeReturns(m)
    <3>1. Answers([m EXCEPT !.leg = "window"])
      BY SameResponses DEF Answers
    <3>2. \A n \in webBack' : Answers(n)
      BY <2>1, <3>1, SameResponses DEF BridgeReturns
    <3> QED
      BY <2>1, <3>2, Travels DEF BridgeReturns, WebInv, WebDomains
  <2>2. CASE Resolves(m)
    BY <2>2, Settles DEF Resolves
  <2>3. CASE Rejects(m)
    BY <2>3, Settles DEF Rejects
  <2>4. CASE ReconstructFails(m)
    BY <2>4, Settles DEF ReconstructFails
  <2> QED
    BY <1>12, <2>1, <2>2, <2>3, <2>4 DEF WebReturns
<1>13. CASE BackgroundStops
  <2>1. \A n \in webBack' : Answers(n)
    BY <1>13, SameResponses DEF BackgroundStops
  <2> QED
    BY <1>13, <2>1, Travels DEF BackgroundStops, WebInv, WebDomains, Unasked
<1>14. CASE UNCHANGED webVars
  BY <1>14, Travels, SameResponses DEF webVars, WebInv, WebDomains
<1>15. ASSUME NEW r \in Requests, ShimRegisters(r) \/ RegisterReturns(r) PROVE WebInv'
  BY <1>15, Travels, SameResponses DEF ShimRegisters, RegisterReturns, WebGoes, WebInv, WebDomains,
     Unasked
<1> QED
  BY <1>1, <1>2, <1>3, <1>4, <1>5, <1>6, <1>7, <1>8, <1>9, <1>10, <1>11, <1>12, <1>13, <1>14, <1>15
     DEF WebNext, WebBackground, WebShim

(* No frame is given another's response, nor a page a credential that the  *)
(* portal did not give for its request (content-bridge.js and              *)
(* content-main.js: responses are matched by the request's number).        *)
THEOREM OwnResponsesSettle == WebSpec => []OwnResponseSettles
<1>1. WebInv => OwnResponseSettles
  BY DEF WebInv
<1> QED
  BY <1>1, InitWeb, WebStep, PTL DEF WebSpec

----
(* The types.  A pending reconnection, a port that the frame has not yet   *)
(* been told it lost and a connected port each stand for a port opened, so *)
(* that a frame has no more timers than ports; a request that left its     *)
(* frame has the port it left by.                                          *)
PortsOf(f) ==
  /\ webUp[f] \subseteq 1..webOpened[f] /\ webCut[f] \subseteq 1..webOpened[f]
  /\ webUp[f] \cap webCut[f] = {}
  /\ webTimers[f] + Cardinality(webUp[f]) + Cardinality(webCut[f]) <= webOpened[f]
  /\ webMain[f] <= webOpened[f]

PortsInv == \A f \in Frames : PortsOf(f)

Ported == {"sent", "started", "registering", "registered", "asking", "written"}

PortedInv ==
  \A r \in Requests :
    /\ webStage[r] \in Ported => webPort[r] \in 1..MaxPorts
    /\ webStage[r] = "written" => webAnswer[r] \in {"data", "error"}

WebTypeInv == WebTypeOK /\ PortsInv /\ PortedInv

LEMMA PortSets ==
  ASSUME WebTypeInv, NEW f \in Frames
  PROVE  /\ IsFiniteSet(webUp[f]) /\ IsFiniteSet(webCut[f])
         /\ Cardinality(webUp[f]) \in Nat /\ Cardinality(webCut[f]) \in Nat
         /\ webOpened[f] \in Nat /\ webOpened[f] <= MaxPorts
         /\ webTimers[f] \in Nat /\ webMain[f] \in Nat /\ MaxPorts \in Nat
<1>1. webOpened[f] \in 0..MaxPorts /\ webTimers[f] \in 0..MaxPorts /\ webMain[f] \in 0..MaxPorts
  BY DEF WebTypeInv, WebTypeOK
<1>2. MaxPorts \in Nat
  BY WebAssumption
<1>3. IsFiniteSet(1..webOpened[f])
  <2>1. webOpened[f] \in Int /\ 1 \in Int
    BY <1>1, <1>2
  <2> QED
    BY <2>1, FS_Interval
<1>4. webUp[f] \subseteq 1..webOpened[f] /\ webCut[f] \subseteq 1..webOpened[f]
  BY DEF WebTypeInv, PortsInv, PortsOf
<1>5. IsFiniteSet(webUp[f]) /\ IsFiniteSet(webCut[f])
  BY <1>3, <1>4, FS_Subset
<1>6. Cardinality(webUp[f]) \in Nat /\ Cardinality(webCut[f]) \in Nat
  BY <1>5, FS_CardinalityType
<1> QED
  BY <1>1, <1>2, <1>5, <1>6

LEMMA InitTypes == WebInit => WebTypeInv
<1> SUFFICES ASSUME WebInit PROVE WebTypeInv
  OBVIOUS
<1>1. {MaxRequests, MaxPorts, MaxStops} \subseteq Nat
  BY WebAssumption
<1>2. WebTypeOK
  BY <1>1 DEF WebInit, WebTypeOK, WebStages
<1>3. PortsInv
  <2> SUFFICES ASSUME NEW f \in Frames PROVE PortsOf(f)
    BY DEF PortsInv
  <2>1. webUp[f] = {} /\ webCut[f] = {} /\ webOpened[f] = 0 /\ webTimers[f] = 0 /\ webMain[f] = 0
    BY DEF WebInit
  <2>2. Cardinality({}) = 0
    BY FS_EmptySet
  <2> QED
    BY <2>1, <2>2 DEF PortsOf
<1>4. PortedInv
  BY DEF WebInit, PortedInv, Ported
<1> QED
  BY <1>2, <1>3, <1>4 DEF WebTypeInv

(* The types of the ports.                                                 *)
PortTypes ==
  /\ webMain \in [Frames -> 0..MaxPorts]
  /\ webUp \in [Frames -> SUBSET (1..MaxPorts)]
  /\ webCut \in [Frames -> SUBSET (1..MaxPorts)]
  /\ webOpened \in [Frames -> 0..MaxPorts] /\ webTimers \in [Frames -> 0..MaxPorts]

(* A frame opens a port, which nothing knew; a pending reconnection may be *)
(* what has it do so.                                                      *)
LEMMA Connects ==
  ASSUME WebTypeInv, NEW f \in Frames, Connect(f), UNCHANGED webCut,
         \/ UNCHANGED webTimers
         \/ webTimers[f] > 0 /\ webTimers' = [webTimers EXCEPT ![f] = @ - 1]
  PROVE  PortTypes' /\ PortsInv' /\ webMain'[f] \in 1..MaxPorts
<1> DEFINE port == webOpened[f] + 1
<1>1. /\ IsFiniteSet(webUp[f]) /\ Cardinality(webUp[f]) \in Nat
      /\ Cardinality(webCut[f]) \in Nat
      /\ webOpened[f] \in Nat /\ webTimers[f] \in Nat /\ MaxPorts \in Nat
  BY PortSets
<1>2. PortsOf(f)
  BY DEF WebTypeInv, PortsInv
<1>3. port \in 1..MaxPorts
  BY <1>1 DEF Connect
<1>4. /\ webOpened' = [webOpened EXCEPT ![f] = port]
      /\ webMain' = [webMain EXCEPT ![f] = port]
      /\ webUp' = [webUp EXCEPT ![f] = @ \cup {port}]
  BY DEF Connect
<1>5. /\ DOMAIN webOpened = Frames /\ DOMAIN webMain = Frames /\ DOMAIN webUp = Frames
      /\ DOMAIN webTimers = Frames
  BY DEF WebTypeInv, WebTypeOK
<1>6. webTimers'[f] \in Nat /\ webTimers'[f] <= webTimers[f]
  BY <1>1, <1>5
<1>7. \A g \in Frames : webTimers'[g] \in 0..MaxPorts
  <2>1. \A g \in Frames : webTimers[g] \in 0..MaxPorts
    BY DEF WebTypeInv, WebTypeOK
  <2>2. \A g \in Frames : g # f => webTimers'[g] = webTimers[g]
    BY <1>5
  <2>3. webTimers'[f] \in 0..MaxPorts
    BY <1>1, <1>6, <2>1
  <2> QED
    BY <2>1, <2>2, <2>3
<1>8. PortTypes'
  <2> HIDE DEF port
  <2>1. webTimers' \in [Frames -> 0..MaxPorts]
    BY <1>7, <1>5 DEF WebTypeInv, WebTypeOK
  <2>2. port \in 0..MaxPorts
    BY <1>3
  <2> QED
    BY <1>3, <1>4, <2>1, <2>2 DEF PortTypes, WebTypeInv, WebTypeOK
<1>9. PortsOf(f)'
  <2>1. port \notin webUp[f] /\ port \notin webCut[f]
    BY <1>1, <1>2 DEF PortsOf
  <2>2. Cardinality(webUp[f] \cup {port}) = Cardinality(webUp[f]) + 1
    BY <1>1, <2>1, FS_AddElement
  <2>3. /\ webUp'[f] = webUp[f] \cup {port} /\ webOpened'[f] = port /\ webMain'[f] = port
        /\ webCut'[f] = webCut[f]
    BY <1>4, <1>5
  <2>4. Cardinality(webUp'[f]) = Cardinality(webUp[f]) + 1
    BY <2>2, <2>3
  <2>5. webTimers'[f] + Cardinality(webUp'[f]) + Cardinality(webCut'[f]) <= webOpened'[f]
    BY <1>1, <1>2, <1>6, <2>3, <2>4 DEF PortsOf
  <2>6. webUp'[f] \subseteq 1..webOpened'[f] /\ webCut'[f] \subseteq 1..webOpened'[f]
    BY <1>1, <1>2, <2>3 DEF PortsOf
  <2>7. webUp'[f] \cap webCut'[f] = {}
    BY <1>2, <2>1, <2>3 DEF PortsOf
  <2> QED
    BY <1>1, <2>3, <2>5, <2>6, <2>7 DEF PortsOf
<1>10. \A g \in Frames : g # f => PortsOf(g)'
  BY <1>4, <1>5 DEF WebTypeInv, PortsInv, PortsOf
<1> QED
  BY <1>3, <1>4, <1>5, <1>8, <1>9, <1>10 DEF PortsInv

(* The rest of the types, for a step that leaves the ports alone.          *)
LEMMA SamePorts ==
  ASSUME WebTypeInv, UNCHANGED webPorts
  PROVE  PortTypes' /\ PortsInv'
BY DEF WebTypeInv, WebTypeOK, PortTypes, PortsInv, PortsOf, webPorts

RestTypes ==
  /\ webPromise \in [Requests -> {"unused", "pending", "resolved", "rejected"}]
  /\ webFrom \in [Requests -> Requests \cup {NoRequest}]
  /\ webCmd \in [Requests -> Commands \cup {"none"}]
  /\ webStage \in [Requests -> WebStages]
  /\ webPort \in [Requests -> 0..MaxPorts]
  /\ webPortal \in [Requests -> {"none", "working", "credential", "failure"}]
  /\ webAnswer \in [Requests -> {"none", "data", "error"}]
  /\ webBack \subseteq Responses
  /\ webStops \in 0..MaxStops
  /\ webHostFailed \subseteq Requests

LEMMA TypesInTwo ==
  /\ WebTypeOK <=> PortTypes /\ RestTypes
  /\ WebTypeOK' <=> PortTypes' /\ RestTypes'
BY DEF WebTypeOK, PortTypes, RestTypes

LEMMA TypesStep == WebTypeInv /\ [WebNext]_webVars => WebTypeInv'
<1> SUFFICES ASSUME WebTypeInv, [WebNext]_webVars PROVE WebTypeInv'
  OBVIOUS
<1> USE DEF webPage, webTrip, webEnv, WebAt, WebGoes
<1>a. RestTypes /\ PortedInv /\ PortTypes /\ PortsInv
  BY TypesInTwo DEF WebTypeInv
<1>b. ASSUME RestTypes', PortedInv', UNCHANGED webPorts PROVE WebTypeInv'
  BY <1>b, SamePorts, TypesInTwo DEF WebTypeInv
<1>1. ASSUME NEW r \in Requests, NEW cmd \in Commands, StartRequest(r, cmd) PROVE WebTypeInv'
  BY <1>1, <1>a, <1>b DEF StartRequest, RestTypes, PortedInv, WebStages, Ported
<1>2. ASSUME NEW r \in Requests, BridgeForwards(r) PROVE WebTypeInv'
  <2> DEFINE f == FrameOf(r)
  <2>1. f \in Frames
    BY RequestIsPair
  <2>2. PortTypes' /\ PortsInv'
    <3>1. CASE webMain[f] = 0
      BY <1>2, <2>1, <3>1, Connects DEF BridgeForwards
    <3>2. CASE webMain[f] # 0
      BY <1>2, <3>2, SamePorts DEF BridgeForwards, webPorts
    <3> QED
      BY <3>1, <3>2
  <2>3. webMain'[f] \in webUp'[f] => webMain'[f] \in 1..MaxPorts
    BY <2>1, <2>2 DEF PortTypes
  <2>4. \/ webMain'[f] \in webUp'[f] /\ WebGoes(r, "sent") /\ webPort' = [webPort EXCEPT ![r] = webMain'[f]]
        \/ WebGoes(r, "over") /\ UNCHANGED webPort
    BY <1>2 DEF BridgeForwards
  <2>5. UNCHANGED <<webPortal, webAnswer, webPage, webBack, webEnv>>
    BY <1>2 DEF BridgeForwards
  <2>6. \A n \in 1..MaxPorts : n \in 0..MaxPorts
    BY WebAssumption
  <2>7. RestTypes'
    <3> HIDE DEF f
    <3> QED
      BY <1>a, <2>3, <2>4, <2>5, <2>6 DEF RestTypes, WebStages
  <2>8. PortedInv'
    <3> HIDE DEF f
    <3> QED
      BY <1>a, <2>3, <2>4, <2>5 DEF RestTypes, PortedInv, Ported
  <2> QED
    BY <2>2, <2>7, <2>8, TypesInTwo DEF WebTypeInv
<1>3. ASSUME NEW r \in Requests, SendNativeMessage(r) PROVE WebTypeInv'
  BY <1>3, <1>a, <1>b DEF SendNativeMessage, RestTypes, PortedInv, WebStages, Ported
<1>4. ASSUME NEW r \in Requests, PostResponse(r) PROVE WebTypeInv'
  <2> DEFINE m == [ leg |-> "port", frame |-> FrameOf(r), port |-> webPort[r],
                    id |-> IdOf(r), from |-> r, answer |-> webAnswer[r] ]
  <2>1. webPort[r] \in 1..MaxPorts /\ webAnswer[r] \in {"data", "error"}
    BY <1>4, <1>a DEF PostResponse, PortedInv, Ported
  <2>2. m \in Responses
    BY <2>1, RequestIsPair DEF Responses
  <2>3. webBack' \subseteq Responses
    BY <1>4, <1>a, <2>2 DEF PostResponse, RestTypes
  <2> QED
    BY <1>4, <1>a, <1>b, <2>3 DEF PostResponse, RestTypes, PortedInv, WebStages, Ported
<1>5. ASSUME NEW r \in Requests, NEW answer \in {"data", "error"},
             webStage[r] \in {"started", "registered", "asking"}, Writes(r, answer),
             UNCHANGED <<webPort, webPortal, webPage, webPorts, webBack, webEnv>>
      PROVE WebTypeInv'
  BY <1>5, <1>a, <1>b DEF Writes, RestTypes, PortedInv, WebStages, Ported
<1>6. ASSUME NEW r \in Requests, ShimAsks(r) PROVE WebTypeInv'
  BY <1>6, <1>a, <1>b DEF ShimAsks, RestTypes, PortedInv, WebStages, Ported
<1>16. ASSUME NEW r \in Requests, ShimRegisters(r) \/ RegisterReturns(r) PROVE WebTypeInv'
  BY <1>16, <1>a, <1>b DEF ShimRegisters, RegisterReturns, RestTypes, PortedInv, WebStages, Ported
<1>7. ASSUME NEW r \in Requests, WebShim(r) PROVE WebTypeInv'
  BY <1>5, <1>6, <1>7, <1>16 DEF WebShim, ShimFails, ShimSucceeds, ShimTimesOut
<1>8. ASSUME NEW r \in Requests, NativeMessageFails(r) PROVE WebTypeInv'
  BY <1>8, <1>a, <1>b DEF NativeMessageFails, RestTypes, PortedInv, WebStages, Ported
<1>9. ASSUME NEW r \in Requests, NEW result \in {"credential", "failure"},
             PortalResponds(r, result)
      PROVE WebTypeInv'
  BY <1>9, <1>a, <1>b DEF PortalResponds, RestTypes, PortedInv, Ported
<1>10. ASSUME NEW f \in Frames, Reconnect(f) PROVE WebTypeInv'
  <2>1. PortTypes' /\ PortsInv'
    BY <1>10, Connects DEF Reconnect
  <2>2. RestTypes' /\ PortedInv'
    BY <1>10, <1>a DEF Reconnect, RestTypes, PortedInv
  <2> QED
    BY <2>1, <2>2, TypesInTwo DEF WebTypeInv
<1>11. ASSUME NEW f \in Frames, NEW port \in webCut[f], OnDisconnect(f, port) PROVE WebTypeInv'
  <2>1. /\ webCut' = [webCut EXCEPT ![f] = @ \ {port}]
        /\ webMain' = [webMain EXCEPT ![f] = 0]
        /\ webTimers' = [webTimers EXCEPT ![f] = @ + 1]
        /\ UNCHANGED <<webUp, webOpened>>
    BY <1>11 DEF OnDisconnect
  <2>2. /\ webMain' = [g \in Frames |-> IF g = f THEN 0 ELSE webMain[g]]
        /\ webCut' = [g \in Frames |-> IF g = f THEN webCut[f] \ {port} ELSE webCut[g]]
        /\ webTimers' = [g \in Frames |-> IF g = f THEN webTimers[f] + 1 ELSE webTimers[g]]
    BY <1>a, <2>1 DEF PortTypes
  <2>3. /\ IsFiniteSet(webCut[f]) /\ Cardinality(webUp[f]) \in Nat
        /\ Cardinality(webCut[f]) \in Nat /\ webOpened[f] \in Nat /\ webOpened[f] <= MaxPorts
        /\ webTimers[f] \in Nat /\ MaxPorts \in Nat /\ webMain[f] \in Nat
    BY PortSets
  <2>4. Cardinality(webCut[f] \ {port}) = Cardinality(webCut[f]) - 1
    BY <1>11, <2>3, FS_RemoveElement
  <2>5. PortsOf(f)
    BY <1>a DEF PortsInv
  <2>6. webTimers[f] + 1 + Cardinality(webUp[f]) + Cardinality(webCut[f] \ {port}) <= webOpened[f]
    <3> HIDE DEF PortsOf
    <3>1. webTimers[f] + Cardinality(webUp[f]) + Cardinality(webCut[f]) <= webOpened[f]
      BY <2>5 DEF PortsOf
    <3> QED
      BY <2>3, <2>4, <3>1
  <2>7. Cardinality(webCut[f] \ {port}) \in Nat
    BY <2>3, FS_RemoveElement, FS_CardinalityType
  <2>8. webTimers[f] + 1 \in 0..MaxPorts
    BY <2>3, <2>6, <2>7
  <2>9. PortsOf(f)'
    <3>1. webCut'[f] \subseteq 1..webOpened[f] /\ webUp[f] \cap webCut'[f] = {}
      BY <2>2, <2>5 DEF PortsOf
    <3>2. webTimers'[f] + Cardinality(webUp'[f]) + Cardinality(webCut'[f]) <= webOpened'[f]
      BY <2>1, <2>2, <2>6
    <3>3. webMain'[f] <= webOpened'[f]
      BY <2>1, <2>2, <2>3
    <3> QED
      BY <2>1, <2>5, <3>1, <3>2, <3>3 DEF PortsOf
  <2>10. \A g \in Frames : g # f => PortsOf(g)'
    BY <1>a, <2>1, <2>2 DEF PortsInv, PortsOf
  <2>11. PortTypes'
    <3>1. 0 \in 0..MaxPorts
      BY <2>3
    <3> QED
      BY <1>a, <2>1, <2>2, <2>8, <3>1 DEF PortTypes
  <2>12. RestTypes' /\ PortedInv'
    BY <1>11, <1>a DEF OnDisconnect, RestTypes, PortedInv
  <2> QED
    BY <2>9, <2>10, <2>11, <2>12, TypesInTwo DEF WebTypeInv, PortsInv
<1>12. ASSUME NEW m \in webBack, BridgeReturns(m) PROVE WebTypeInv'
  <2>1. m \in Responses
    BY <1>a DEF RestTypes
  <2>2. [m EXCEPT !.leg = "window"] \in Responses
    BY <2>1 DEF Responses
  <2> QED
    BY <1>12, <1>a, <1>b, <2>2 DEF BridgeReturns, RestTypes, PortedInv
<1>13. ASSUME NEW m \in webBack, NEW outcome \in {"resolved", "rejected"}, Settle(m, outcome)
       PROVE WebTypeInv'
  <2>1. m.from \in Requests
    BY <1>a DEF RestTypes, Responses
  <2> QED
    BY <1>13, <1>a, <1>b, <2>1 DEF Settle, RestTypes, PortedInv
<1>14. CASE BackgroundStops
  <2>1. RestTypes' /\ PortedInv'
    BY <1>14, <1>a, WebAssumption DEF BackgroundStops, RestTypes, PortedInv, WebStages, Ported
  <2>2. PortTypes'
    BY <1>14, <1>a DEF BackgroundStops, PortTypes
  <2>3. ASSUME NEW f \in Frames PROVE PortsOf(f)'
    <3>1. PortsOf(f)
      BY <1>a DEF PortsInv
    <3>2. /\ IsFiniteSet(webUp[f]) /\ IsFiniteSet(webCut[f])
          /\ Cardinality(webUp[f]) \in Nat /\ Cardinality(webCut[f]) \in Nat
          /\ webOpened[f] \in Nat /\ webTimers[f] \in Nat
      BY PortSets
    <3>3. Cardinality(webCut[f] \cup webUp[f])
            = Cardinality(webCut[f]) + Cardinality(webUp[f]) - Cardinality(webCut[f] \cap webUp[f])
      BY <3>2, FS_Union
    <3>4. webCut[f] \cap webUp[f] = {}
      BY <3>1 DEF PortsOf
    <3>5. Cardinality({}) = 0
      BY FS_EmptySet
    <3>6. Cardinality(webCut[f] \cup webUp[f]) = Cardinality(webCut[f]) + Cardinality(webUp[f])
      BY <3>2, <3>3, <3>4, <3>5
    <3>7. /\ webCut'[f] = webCut[f] \cup webUp[f] /\ webUp'[f] = {}
          /\ UNCHANGED <<webMain, webOpened, webTimers>>
      BY <1>14 DEF BackgroundStops
    <3>8. webTimers'[f] + Cardinality(webUp'[f]) + Cardinality(webCut'[f]) <= webOpened'[f]
      BY <3>1, <3>2, <3>5, <3>6, <3>7 DEF PortsOf
    <3>9. /\ webUp'[f] \subseteq 1..webOpened'[f] /\ webCut'[f] \subseteq 1..webOpened'[f]
          /\ webUp'[f] \cap webCut'[f] = {} /\ webMain'[f] <= webOpened'[f]
      BY <3>1, <3>7 DEF PortsOf
    <3> QED
      BY <3>8, <3>9 DEF PortsOf
  <2> QED
    BY <2>1, <2>2, <2>3, TypesInTwo DEF WebTypeInv, PortsInv
<1>15. CASE UNCHANGED webVars
  BY <1>15, <1>a, <1>b DEF webVars, RestTypes, PortedInv
<1> QED
  BY <1>1, <1>2, <1>3, <1>4, <1>7, <1>8, <1>9, <1>10, <1>11, <1>12, <1>13, <1>14, <1>15,
     <1>16
     DEF WebNext, WebBackground, WebBridge, WebReturns, Resolves, Rejects, ReconstructFails

(* No fairness is needed for the types.                                    *)
LEMMA WebTypesKept == WebInit /\ [][WebNext]_webVars => []WebTypeOK
<1>1. WebTypeInv => WebTypeOK
  BY DEF WebTypeInv
<1> QED
  BY <1>1, InitTypes, TypesStep, PTL

(* The add-on's variables have their types: a frame has no more ports and  *)
(* pending reconnections than it opened ports (content-bridge.js), and a   *)
(* response knows the port it goes back by (background.js).                *)
THEOREM WebTypeCorrect == WebSpec => []WebTypeOK
BY WebTypesKept, PTL DEF WebSpec
====
