---- MODULE MCComponents ----
(***************************************************************************)
(* Four components that share no state, checked in one run, whose         *)
(* behaviours are those of each of them while the others stand still.      *)
(***************************************************************************)
EXTENDS HybridHandler, Gateway, Window, WebExt

CONSTANTS c1, c2

VARIABLE component

(* Calls of every kind: c1 with each caller, client and origin, c2 behind  *)
(* it in the queue.                                                        *)
MCGood ==
  [kind |-> "get", public_key |-> TRUE, pid |-> TRUE, exe |-> "portal", app |-> "other",
   origin |-> "https_a", top |-> NoTop]
MCCallers ==
  {[MCGood EXCEPT !.kind = k, !.public_key = p, !.pid = i, !.exe = x] :
     k \in Kinds, p \in BOOLEAN, i \in BOOLEAN, x \in Executables}
MCClients ==
  {[MCGood EXCEPT !.kind = k, !.app = a, !.origin = o, !.top = t] :
     k \in Kinds, a \in AppIds, o \in Origins, t \in Origins \cup {NoTop}}
  \cup {[MCGood EXCEPT !.exe = "sidecar", !.app = a, !.origin = o] :
          a \in AppIds, o \in Origins}
MCCallInputs ==
  [c \in {c1, c2} |-> IF c = c1 THEN MCCallers \cup MCClients
                                ELSE {MCGood, [MCGood EXCEPT !.origin = "app"]}]

MCAttempts == {1, 2, Unknown}

MCInit ==
  /\ component \in {"hybrid", "gateway", "window", "web"}
  /\ HybridInit /\ GatewayInit /\ WindowInit /\ WebInit

MCNext ==
  /\ UNCHANGED component
  /\ \/ component = "hybrid" /\ HybridNext /\ UNCHANGED <<gwVars, winVars, webVars>>
     \/ component = "gateway" /\ GatewayNext /\ UNCHANGED <<hybVars, winVars, webVars>>
     \/ component = "window" /\ WindowNext /\ UNCHANGED <<hybVars, gwVars, webVars>>
     \/ component = "web" /\ WebNext /\ UNCHANGED <<hybVars, gwVars, winVars>>

(* The fairness of each component, while it runs.                          *)
MCFairness ==
  /\ WF_hybVars(component = "hybrid" /\ HybridRuns)
  /\ WF_gwVars(component = "gateway" /\ GatewayRuns)
  /\ WF_winVars(component = "window" /\ WindowRuns)
  /\ WF_webVars(component = "web" /\ WebRuns)

MCSpec ==
  MCInit /\ [][MCNext]_<<component, hybVars, gwVars, winVars, webVars>> /\ MCFairness

----
(* Each component's variables have their types: a stream or a queue within *)
(* its bound, no call twice in the gateway's queue, no update on its way   *)
(* to the window that it does not know.                                    *)
ComponentsTypeOK == HybridTypeOK /\ GatewayTypeOK /\ WindowTypeOK /\ WebTypeOK
====
