---- MODULE WebExt ----
(***************************************************************************)
(* The browser's way to the daemon: the script that stands in for          *)
(* navigator.credentials in a page (webext/add-on/content-main.js), the    *)
(* bridge of the page's frame (content-bridge.js), the background script   *)
(* of all frames (background.js), and the shim the browser starts for      *)
(* every request (webext/app/credential_manager_shim.py).                  *)
(*                                                                         *)
(* A request is known by its frame and the number the frame gave it, so    *)
(* that two frames have requests of the same number.  The browser may stop *)
(* the background script (a service worker), which disconnects the ports   *)
(* of all frames.  The browser and the portal are external.                *)
(***************************************************************************)
EXTENDS Naturals, FiniteSets

CONSTANTS
  Frames,      (* frames with both content scripts                         *)
  MaxRequests, (* bound on the requests of all frames                      *)
  MaxPorts,    (* bound on the ports a frame opens                         *)
  MaxStops     (* bound on how often the background script is stopped      *)

ASSUME WebAssumption == {MaxRequests, MaxPorts, MaxStops} \subseteq Nat

Requests == Frames \X (0..MaxRequests - 1)
NoRequest == <<>>
FrameOf(r) == r[1]
IdOf(r) == r[2]

(* create and get are alike.                                               *)
Commands == {"credential", "getClientCapabilities"}

VARIABLES
  webPromise,   (* what the page holds                                     *)
  webFrom,      (* the request whose response settled it                   *)
  webCmd,       (* its command                                             *)
  webStage,     (* how far the request has got                             *)
  webPort,      (* the port it went through                                *)
  webPortal,    (* the portal's request for it                             *)
  webAnswer,    (* the response the shim wrote                             *)
  webBack,      (* responses on their way from the background to a page    *)
  webMain,      (* per frame: mainPort, 0 when there is none               *)
  webUp,        (* the connected ports                                     *)
  webCut,       (* disconnected ports, of which the frame is not yet told  *)
  webOpened,    (* ports opened so far                                     *)
  webTimers,    (* pending reconnections                                   *)
  webStops,     (* stops of the background script so far                   *)
  webHostFailed (* requests whose shim could not run to its end            *)

webPage == <<webPromise, webFrom, webCmd>>
webPorts == <<webMain, webUp, webCut, webOpened, webTimers>>
webTrip == <<webStage, webPort, webPortal, webAnswer>>
webEnv == <<webStops, webHostFailed>>
webVars == <<webPage, webPorts, webTrip, webBack, webEnv>>

WebStages ==
  {"unused", "posted", "sent", "started", "registering", "registered", "asking", "written", "over"}
Responses ==
  [leg : {"port", "window"}, frame : Frames, port : 1..MaxPorts,
   id : {IdOf(r) : r \in Requests}, from : Requests, answer : {"data", "error"}]

WebTypeOK ==
  /\ webPromise \in [Requests -> {"unused", "pending", "resolved", "rejected"}]
  /\ webFrom \in [Requests -> Requests \cup {NoRequest}]
  /\ webCmd \in [Requests -> Commands \cup {"none"}]
  /\ webStage \in [Requests -> WebStages]
  /\ webPort \in [Requests -> 0..MaxPorts]
  /\ webPortal \in [Requests -> {"none", "working", "credential", "failure"}]
  /\ webAnswer \in [Requests -> {"none", "data", "error"}]
  /\ webBack \subseteq Responses
  /\ webMain \in [Frames -> 0..MaxPorts]
  /\ webUp \in [Frames -> SUBSET (1..MaxPorts)]
  /\ webCut \in [Frames -> SUBSET (1..MaxPorts)]
  /\ webOpened \in [Frames -> 0..MaxPorts] /\ webTimers \in [Frames -> 0..MaxPorts]
  /\ webStops \in 0..MaxStops
  /\ webHostFailed \subseteq Requests

WebInit ==
  /\ webPromise = [r \in Requests |-> "unused"]
  /\ webFrom = [r \in Requests |-> NoRequest]
  /\ webCmd = [r \in Requests |-> "none"]
  /\ webStage = [r \in Requests |-> "unused"]
  /\ webPort = [r \in Requests |-> 0]
  /\ webPortal = [r \in Requests |-> "none"]
  /\ webAnswer = [r \in Requests |-> "none"]
  /\ webBack = {}
  /\ webMain = [f \in Frames |-> 0]
  /\ webUp = [f \in Frames |-> {}] /\ webCut = [f \in Frames |-> {}]
  /\ webOpened = [f \in Frames |-> 0] /\ webTimers = [f \in Frames |-> 0]
  /\ webStops = 0 /\ webHostFailed = {}

WebAt(r, stage) == webStage[r] = stage
WebGoes(r, stage) == webStage' = [webStage EXCEPT ![r] = stage]

----
(* The page.                                                               *)

Started == {r \in Requests : ~WebAt(r, "unused")}

(* startRequest and window.postMessage; requests are numbered from 0.      *)
StartRequest(r, cmd) ==
  /\ Cardinality(Started) < MaxRequests
  /\ IdOf(r) = Cardinality({q \in Started : FrameOf(q) = FrameOf(r)})
  /\ WebGoes(r, "posted")
  /\ webPromise' = [webPromise EXCEPT ![r] = "pending"]
  /\ webCmd' = [webCmd EXCEPT ![r] = cmd]
  /\ UNCHANGED <<webFrom, webPort, webPortal, webAnswer, webPorts, webBack, webEnv>>

(* Mutant of Settle: the newest request is the one that waits.             *)
SettleNewest(m, outcome) ==
  LET asked == {q \in Started : FrameOf(q) = m.frame}
      r == CHOOSE q \in asked : \A p \in asked : IdOf(p) <= IdOf(q)
  IN /\ m.leg = "window"
     /\ webBack' = webBack \ {m}
     /\ IF webPromise[r] = "pending"
        THEN /\ webPromise' = [webPromise EXCEPT ![r] = outcome]
             /\ webFrom' = [webFrom EXCEPT ![r] = m.from]
        ELSE UNCHANGED <<webPromise, webFrom>>
     /\ UNCHANGED <<webCmd, webPorts, webTrip, webEnv>>

(* A response settles the promise filed under its number, if there is one. *)
Settle(m, outcome) ==
  LET r == <<m.frame, m.id>> IN
  /\ m.leg = "window"
  /\ webBack' = webBack \ {m}
  /\ IF webPromise[r] = "pending"
     THEN /\ webPromise' = [webPromise EXCEPT ![r] = outcome]
          /\ webFrom' = [webFrom EXCEPT ![r] = m.from]
     ELSE UNCHANGED <<webPromise, webFrom>>
  /\ UNCHANGED <<webCmd, webPorts, webTrip, webEnv>>

Resolves(m) == m.answer = "data" /\ Settle(m, "resolved")
Rejects(m) == m.answer = "error" /\ Settle(m, "rejected")

(* reconstructCredentialResponse throws.                                   *)
ReconstructFails(m) ==
  /\ m.answer = "data" /\ webCmd[<<m.frame, m.id>>] # "getClientCapabilities"
  /\ Settle(m, "rejected")

----
(* The bridge.                                                             *)

(* connectToBackground.                                                    *)
Connect(f) ==
  LET port == webOpened[f] + 1 IN
  /\ port <= MaxPorts
  /\ webOpened' = [webOpened EXCEPT ![f] = port]
  /\ webMain' = [webMain EXCEPT ![f] = port]
  /\ webUp' = [webUp EXCEPT ![f] = @ \cup {port}]

(* A request connects if need be; posting to a port that was just cut off  *)
(* throws, and the request goes nowhere.                                   *)
BridgeForwards(r) ==
  LET f == FrameOf(r) IN
  /\ WebAt(r, "posted")
  /\ IF webMain[f] = 0 THEN Connect(f) ELSE UNCHANGED <<webMain, webUp, webOpened>>
  /\ IF webMain'[f] \in webUp'[f]
     THEN WebGoes(r, "sent") /\ webPort' = [webPort EXCEPT ![r] = webMain'[f]]
     ELSE WebGoes(r, "over") /\ UNCHANGED webPort
  /\ UNCHANGED <<webCut, webTimers, webPortal, webAnswer, webPage, webBack, webEnv>>

(* onDisconnect, of whichever port, forgets the main one.                  *)
OnDisconnect(f, port) ==
  /\ port \in webCut[f]
  /\ webCut' = [webCut EXCEPT ![f] = @ \ {port}]
  /\ webMain' = [webMain EXCEPT ![f] = 0]
  /\ webTimers' = [webTimers EXCEPT ![f] = @ + 1]
  /\ UNCHANGED <<webUp, webOpened, webPage, webTrip, webBack, webEnv>>

Reconnect(f) ==
  /\ webTimers[f] > 0
  /\ webTimers' = [webTimers EXCEPT ![f] = @ - 1]
  /\ Connect(f)
  /\ UNCHANGED <<webCut, webPage, webTrip, webBack, webEnv>>

(* Every port of the frame is listened to, the main one or not.            *)
BridgeReturns(m) ==
  /\ m.leg = "port" /\ m.port \in webUp[m.frame]
  /\ webBack' = (webBack \ {m}) \cup {[m EXCEPT !.leg = "window"]}
  /\ UNCHANGED <<webPage, webPorts, webTrip, webEnv>>

----
(* The background script.                                                  *)

(* rcvFromContent: sendNativeMessage starts the shim.                      *)
SendNativeMessage(r) ==
  /\ WebAt(r, "sent")
  /\ WebGoes(r, "started")
  /\ UNCHANGED <<webPort, webPortal, webAnswer, webPage, webPorts, webBack, webEnv>>

(* Mutant of PostResponse: it goes to the frame that connected last.       *)
PostToNewest(r) ==
  /\ WebAt(r, "written")
  /\ WebGoes(r, "over")
  /\ \E f \in Frames :
       /\ webUp[f] # {}
       /\ LET port == CHOOSE p \in webUp[f] : \A q \in webUp[f] : q <= p IN
            webBack' = webBack \cup {[ leg |-> "port", frame |-> f, port |-> port,
                                       id |-> IdOf(r), from |-> r, answer |-> webAnswer[r] ]}
  /\ UNCHANGED <<webPort, webPortal, webAnswer, webPage, webPorts, webEnv>>

(* The response goes to the port the request came from.                    *)
PostResponse(r) ==
  /\ WebAt(r, "written")
  /\ WebGoes(r, "over")
  /\ webBack' = webBack \cup {[ leg |-> "port", frame |-> FrameOf(r), port |-> webPort[r],
                                id |-> IdOf(r), from |-> r, answer |-> webAnswer[r] ]}
  /\ UNCHANGED <<webPort, webPortal, webAnswer, webPage, webPorts, webEnv>>

(* The shim is not installed, or ends without a response (SIGTERM raises   *)
(* CancelledError, which main does not catch): only logged.                *)
NativeMessageFails(r) ==
  /\ webStage[r] \in {"started", "registering", "registered", "asking"}
  /\ WebGoes(r, "over")
  /\ webHostFailed' = webHostFailed \cup {r}
  /\ UNCHANGED <<webPort, webPortal, webAnswer, webPage, webPorts, webBack, webStops>>

(* The browser stops the script: what it waits for, and what is under way  *)
(* on its ports, is gone.                                                  *)
BackgroundStops ==
  /\ webStops < MaxStops /\ \E f \in Frames : webUp[f] # {}
  /\ webStops' = webStops + 1
  /\ webCut' = [f \in Frames |-> webCut[f] \cup webUp[f]]
  /\ webUp' = [f \in Frames |-> {}]
  /\ webBack' = {m \in webBack : m.leg = "window"}
  /\ webStage' = [r \in Requests |->
                    IF webStage[r] \in {"unused", "posted"} THEN webStage[r] ELSE "over"]
  /\ UNCHANGED <<webMain, webOpened, webTimers, webPort, webPortal, webAnswer>>
  /\ UNCHANGED <<webPage, webHostFailed>>

----
(* The shim.                                                               *)

(* sendMessage.                                                            *)
Writes(r, answer) ==
  /\ WebGoes(r, "written")
  /\ webAnswer' = [webAnswer EXCEPT ![r] = answer]

(* get_interface: the shim connects to the bus and gives the portal its     *)
(* name.  It waits for the answer without a timeout, its own timer not yet *)
(* set; an answer that is an error is taken like any other.                *)
ShimRegisters(r) ==
  /\ WebAt(r, "started")
  /\ WebGoes(r, "registering")
  /\ UNCHANGED <<webPort, webPortal, webAnswer, webPage, webPorts, webBack, webEnv>>

RegisterReturns(r) ==
  /\ WebAt(r, "registering")
  /\ WebGoes(r, "registered")
  /\ UNCHANGED <<webPort, webPortal, webAnswer, webPage, webPorts, webBack, webEnv>>

(* Mutant of ShimFails: the process ends with a message in its log.        *)
ShimFailsSilently(r) ==
  /\ webStage[r] \in {"started", "registered", "asking"}
  /\ WebGoes(r, "over")
  /\ UNCHANGED <<webPort, webPortal, webAnswer, webPage, webPorts, webBack, webEnv>>

(* main's except: no bus, no interface, no options to look for a timeout in, a     *)
(* call that fails, an error or an unreadable credential from the portal.  *)
ShimFails(r) ==
  /\ webStage[r] \in {"started", "registered", "asking"}
  /\ Writes(r, "error")
  /\ UNCHANGED <<webPort, webPortal, webPage, webPorts, webBack, webEnv>>

(* create_passkey, get_passkey: the handler of the response is in place    *)
(* before the call.  A command without options does not get here           *)
(* (options.get on None).                                                  *)
ShimAsks(r) ==
  /\ WebAt(r, "registered") /\ webCmd[r] # "getClientCapabilities"
  /\ WebGoes(r, "asking")
  /\ webPortal' = [webPortal EXCEPT ![r] = "working"]
  /\ UNCHANGED <<webPort, webAnswer, webPage, webPorts, webBack, webEnv>>

(* The portal's Response signal, of this request's own path; the handler   *)
(* keeps one that comes before the call returns.                           *)
PortalResponds(r, result) ==
  /\ WebAt(r, "asking") /\ webPortal[r] = "working"
  /\ webPortal' = [webPortal EXCEPT ![r] = result]
  /\ UNCHANGED <<webStage, webPort, webAnswer, webPage, webPorts, webBack, webEnv>>

ShimSucceeds(r) ==
  /\ WebAt(r, "asking") /\ webPortal[r] = "credential"
  /\ Writes(r, "data")
  /\ UNCHANGED <<webPort, webPortal, webPage, webPorts, webBack, webEnv>>

(* asyncio.wait gives up; the portal's request is left as it is.           *)
ShimTimesOut(r) ==
  /\ WebAt(r, "asking")
  /\ Writes(r, "error")
  /\ UNCHANGED <<webPort, webPortal, webPage, webPorts, webBack, webEnv>>

----
WebShim(r) ==
  ShimRegisters(r) \/ ShimFails(r) \/ ShimAsks(r) \/ ShimSucceeds(r) \/ ShimTimesOut(r)
WebBackground(r) == SendNativeMessage(r) \/ PostResponse(r)
WebBridge(f) == Reconnect(f) \/ \E port \in webCut[f] : OnDisconnect(f, port)
WebReturns(m) == BridgeReturns(m) \/ Resolves(m) \/ Rejects(m) \/ ReconstructFails(m)

WebNext ==
  \/ \E r \in Requests : \E cmd \in Commands : StartRequest(r, cmd)
  \/ \E r \in Requests :
       \/ BridgeForwards(r) \/ WebBackground(r) \/ WebShim(r) \/ NativeMessageFails(r)
       \/ RegisterReturns(r)
       \/ \E result \in {"credential", "failure"} : PortalResponds(r, result)
  \/ \E f \in Frames : WebBridge(f)
  \/ \E m \in webBack : WebReturns(m)
  \/ BackgroundStops

(* The browser and the shim run, the shim's timer included; nothing makes  *)
(* the portal answer a registration or a request.                          *)
WebRuns ==
  \/ \E r \in Requests : BridgeForwards(r) \/ WebBackground(r) \/ WebShim(r)
  \/ \E f \in Frames : WebBridge(f)
  \/ \E m \in webBack : WebReturns(m)

WebFairness == WF_webVars(WebRuns)

WebSpec == WebInit /\ [][WebNext]_webVars /\ WebFairness

----
(* Properties.                                                             *)

(* Whatever frames have requests of the same number under way, and through *)
(* whichever of its ports a frame is answered, a promise is settled by the *)
(* response to its own request, and a credential that the page is given is *)
(* one that the portal gave for it.                                        *)
OwnResponseSettles ==
  \A r \in Requests :
    webPromise[r] \in {"resolved", "rejected"} =>
      /\ webFrom[r] = r
      /\ webPromise[r] = "resolved" => webPortal[r] = "credential"

(* The page hears of every request in the end, unless its shim died        *)
(* without a word or waits for the portal to register it for ever, or the  *)
(* background script was stopped.  (A shim registers once, so a request    *)
(* that is past its registration has no such excuse left.)                 *)
PromisesSettle ==
  \A r \in Requests :
    webPromise[r] = "pending" /\ ~WebAt(r, "registering")
      ~> ( \/ webPromise[r] # "pending" \/ WebAt(r, "registering")
           \/ r \in webHostFailed \/ webStops > 0 )
====
