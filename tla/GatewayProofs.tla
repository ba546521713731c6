---- MODULE GatewayProofs ----
(***************************************************************************)
(* Proofs about Gateway, for any calls, inputs and debug lists.            *)
(*                                                                         *)
(* QueueInv is why calls are served alone: those that wait for the mutex   *)
(* or have it are in its queue, each once, and the one that has it is the  *)
(* first.  CheckedInv keeps what the checks found until the controller is  *)
(* asked.                                                                  *)
(***************************************************************************)
EXTENDS Gateway, TLAPS

Serving == {"locked", "asking", "came"}
Waiting == Serving \cup {"queued"}

(* The queue of the mutex, said with its places.                           *)
QueueInv ==
  /\ gwQueue \in Seq(Calls)
  /\ \A i, j \in 1..Len(gwQueue) : gwQueue[i] = gwQueue[j] => i = j
  /\ \A i \in 1..Len(gwQueue) : gwPc[gwQueue[i]] \in Waiting
  /\ \A c \in Calls : gwPc[c] \in Waiting => \E i \in 1..Len(gwQueue) : gwQueue[i] = c
  /\ \A c \in Calls : gwPc[c] \in Serving => gwQueue[1] = c

PcInv == gwPc \in [Calls -> GatewayStages]

ServingInv == PcInv /\ QueueInv

----
LEMMA InitServing == GatewayInit => ServingInv
<1> SUFFICES ASSUME GatewayInit PROVE ServingInv
  OBVIOUS
<1>1. PcInv
  BY DEF GatewayInit, PcInv, GatewayStages
<1>2. gwQueue \in Seq(Calls) /\ Len(gwQueue) = 0
  <2>1. gwQueue = <<>>
    BY DEF GatewayInit
  <2>2. <<>> \in Seq(Calls) /\ Len(<<>>) = 0
    OBVIOUS
  <2> QED
    BY <2>1, <2>2
<1>3. \A c \in Calls : gwPc[c] \notin Waiting /\ gwPc[c] \notin Serving
  BY DEF GatewayInit, Waiting, Serving
<1> QED
  BY <1>1, <1>2, <1>3 DEF ServingInv, QueueInv

(* A step that keeps a call's place, and whether it waits or is served.    *)
LEMMA KeepsPlace ==
  ASSUME NEW c \in Calls, NEW stage \in GatewayStages, ServingInv,
         Goes(c, stage), UNCHANGED gwQueue,
         stage \in Waiting <=> gwPc[c] \in Waiting,
         stage \in Serving => gwQueue[1] = c
  PROVE  ServingInv'
BY DEF ServingInv, PcInv, QueueInv, Goes

LEMMA Enqueues ==
  ASSUME NEW c \in Calls, ServingInv, gwPc[c] \notin Waiting,
         Goes(c, "queued"), gwQueue' = Append(gwQueue, c)
  PROVE  ServingInv'
<1>1. PcInv'
  BY DEF ServingInv, PcInv, Goes, GatewayStages
<1>2. /\ gwQueue' \in Seq(Calls) /\ Len(gwQueue') = Len(gwQueue) + 1
      /\ \A i \in 1..Len(gwQueue) : gwQueue'[i] = gwQueue[i]
      /\ gwQueue'[Len(gwQueue) + 1] = c
      /\ Len(gwQueue) \in Nat
  BY DEF ServingInv, QueueInv
<1>3. \A i \in 1..Len(gwQueue) : gwQueue[i] # c /\ gwQueue[i] \in Calls
  BY DEF ServingInv, QueueInv
<1>4. gwPc' \in [Calls -> GatewayStages] /\ gwPc'[c] = "queued"
      /\ \A d \in Calls \ {c} : gwPc'[d] = gwPc[d]
  BY <1>1 DEF ServingInv, PcInv, Goes
<1>5. \A i, j \in 1..Len(gwQueue') : gwQueue'[i] = gwQueue'[j] => i = j
  BY <1>2, <1>3 DEF ServingInv, QueueInv
<1>6. \A i \in 1..Len(gwQueue') : gwPc'[gwQueue'[i]] \in Waiting
  <2> SUFFICES ASSUME NEW i \in 1..Len(gwQueue') PROVE gwPc'[gwQueue'[i]] \in Waiting
    OBVIOUS
  <2>1. CASE i = Len(gwQueue) + 1
    BY <2>1, <1>2, <1>4 DEF Waiting
  <2>2. CASE i \in 1..Len(gwQueue)
    BY <2>2, <1>2, <1>3, <1>4 DEF ServingInv, QueueInv
  <2> QED
    BY <1>2, <2>1, <2>2
<1>7. ASSUME NEW d \in Calls, gwPc'[d] \in Waiting
      PROVE  \E i \in 1..Len(gwQueue') : gwQueue'[i] = d
  <2>1. CASE d = c
    <3>1. Len(gwQueue) + 1 \in 1..Len(gwQueue')
      BY <1>2
    <3> QED
      BY <3>1, <2>1, <1>2
  <2>2. CASE d # c
    <3>1. PICK i \in 1..Len(gwQueue) : gwQueue[i] = d
      BY <1>4, <1>7, <2>2 DEF ServingInv, QueueInv
    <3>2. i \in 1..Len(gwQueue')
      BY <1>2
    <3> QED
      BY <1>2, <3>1, <3>2
  <2> QED
    BY <2>1, <2>2
<1>8. ASSUME NEW d \in Calls, gwPc'[d] \in Serving
      PROVE  gwQueue'[1] = d
  <2>1. d # c /\ gwPc[d] \in Serving
    BY <1>4, <1>8 DEF Serving
  <2>2. gwQueue[1] = d /\ Len(gwQueue) # 0
    BY <2>1 DEF ServingInv, QueueInv, Waiting
  <2> QED
    BY <2>2, <1>2
<1> QED
  BY <1>1, <1>2, <1>5, <1>6, <1>7, <1>8 DEF ServingInv, QueueInv

LEMMA Dequeues ==
  ASSUME NEW c \in Calls, NEW stage \in GatewayStages \ Waiting, ServingInv,
         gwPc[c] \in Serving, Goes(c, stage), Unlock
  PROVE  ServingInv'
<1>1. PcInv'
  BY DEF ServingInv, PcInv, Goes
<1>2. gwPc'[c] = stage /\ \A d \in Calls \ {c} : gwPc'[d] = gwPc[d]
  BY DEF ServingInv, PcInv, Goes
<1>3. gwQueue \in Seq(Calls) /\ gwQueue # <<>> /\ gwQueue[1] = c /\ Len(gwQueue) \in Nat
  BY DEF ServingInv, QueueInv, Waiting
<1>4. /\ gwQueue' \in Seq(Calls) /\ Len(gwQueue') = Len(gwQueue) - 1 /\ Len(gwQueue') \in Nat
      /\ \A i \in 1..Len(gwQueue') : gwQueue'[i] = gwQueue[i + 1]
  BY <1>3 DEF Unlock
<1>5. \A i \in 1..Len(gwQueue') : i + 1 \in 1..Len(gwQueue) /\ i + 1 # 1
  BY <1>3, <1>4
<1>6. \A i \in 1..Len(gwQueue') : gwQueue'[i] \in Calls \ {c}
  <2> SUFFICES ASSUME NEW i \in 1..Len(gwQueue') PROVE gwQueue'[i] \in Calls \ {c}
    OBVIOUS
  <2>1. gwQueue[i + 1] # gwQueue[1] /\ gwQueue[i + 1] \in Calls
    BY <1>3, <1>5 DEF ServingInv, QueueInv
  <2> QED
    BY <2>1, <1>3, <1>4
<1>7. \A i, j \in 1..Len(gwQueue') : gwQueue'[i] = gwQueue'[j] => i = j
  <2> SUFFICES ASSUME NEW i \in 1..Len(gwQueue'), NEW j \in 1..Len(gwQueue'),
                      gwQueue'[i] = gwQueue'[j]
               PROVE  i = j
    OBVIOUS
  <2>1. i + 1 = j + 1
    BY <1>4, <1>5 DEF ServingInv, QueueInv
  <2> QED
    BY <2>1
<1>8. \A i \in 1..Len(gwQueue') : gwPc'[gwQueue'[i]] \in Waiting
  BY <1>2, <1>4, <1>5, <1>6 DEF ServingInv, QueueInv
<1>9. ASSUME NEW d \in Calls, gwPc'[d] \in Waiting
      PROVE  \E i \in 1..Len(gwQueue') : gwQueue'[i] = d
  <2>1. d # c /\ gwPc[d] \in Waiting
    BY <1>2, <1>9
  <2>2. PICK i \in 1..Len(gwQueue) : gwQueue[i] = d
    BY <2>1 DEF ServingInv, QueueInv
  <2>3. i # 1 /\ i - 1 \in 1..Len(gwQueue') /\ (i - 1) + 1 = i
    BY <2>1, <2>2, <1>3, <1>4
  <2>4. gwQueue'[i - 1] = d
    BY <2>2, <2>3, <1>4
  <2> QED
    BY <2>3, <2>4
<1>10. ASSUME NEW d \in Calls, gwPc'[d] \in Serving
       PROVE  gwQueue'[1] = d
  <2>1. d # c /\ gwPc[d] \in Serving
    BY <1>2, <1>10 DEF Waiting
  <2> QED
    BY <2>1, <1>3 DEF ServingInv, QueueInv
<1> QED
  BY <1>1, <1>4, <1>7, <1>8, <1>9, <1>10 DEF ServingInv, QueueInv

LEMMA ServingStep == ServingInv /\ [GatewayNext]_gwVars => ServingInv'
<1> SUFFICES ASSUME ServingInv, [GatewayNext]_gwVars PROVE ServingInv'
  OBVIOUS
<1> USE DEF At
<1>1. ASSUME NEW c \in Calls, NEW q \in CallInputs[c], GatewayReceive(c, q) PROVE ServingInv'
  BY <1>1, KeepsPlace DEF GatewayReceive, GatewayStages, Waiting, Serving
<1>2. ASSUME NEW c \in Calls, CreateWithoutRequest(c) PROVE ServingInv'
  BY <1>2, KeepsPlace DEF CreateWithoutRequest, Answer, GatewayStages, Waiting, Serving
<1>3. ASSUME NEW c \in Calls, QueryPid(c) PROVE ServingInv'
  BY <1>3, KeepsPlace DEF QueryPid, GatewayStages, Waiting, Serving
<1>4. ASSUME NEW c \in Calls, QueryPidFails(c) PROVE ServingInv'
  BY <1>4, KeepsPlace DEF QueryPidFails, Answer, GatewayStages, Waiting, Serving
<1>5. ASSUME NEW c \in Calls, Reject(c) PROVE ServingInv'
  BY <1>5, KeepsPlace DEF Reject, Answer, GatewayStages, Waiting, Serving
<1>6. ASSUME NEW c \in Calls, Admit(c) PROVE ServingInv'
  BY <1>6, Enqueues DEF Admit, Waiting, Serving
<1>7. ASSUME NEW c \in Calls, Locks(c) PROVE ServingInv'
  <2>1. gwQueue[1] = c
    BY <1>7 DEF Locks
  <2> QED
    BY <1>7, <2>1, KeepsPlace DEF Locks, GatewayStages, Waiting, Serving
<1>8. ASSUME NEW c \in Calls, OriginPanics(c) PROVE ServingInv'
  BY <1>8, Dequeues DEF OriginPanics, GatewayStages, Waiting, Serving
<1>9. ASSUME NEW c \in Calls, NEW err, ConversionFails(c, err) PROVE ServingInv'
  BY <1>9, Dequeues DEF ConversionFails, Answer, GatewayStages, Waiting, Serving
<1>10. ASSUME NEW c \in Calls, NoAlgorithms(c) PROVE ServingInv'
  BY <1>10, Dequeues DEF NoAlgorithms, Answer, GatewayStages, Waiting, Serving
<1>11. ASSUME NEW c \in Calls, Ask(c) PROVE ServingInv'
  <2>1. gwQueue[1] = c
    BY <1>11 DEF Ask, ServingInv, QueueInv, Serving
  <2> QED
    BY <1>11, <2>1, KeepsPlace DEF Ask, GatewayStages, Waiting, Serving
<1>12. ASSUME NEW c \in Calls, NEW a, ControllerAnswers(c, a) PROVE ServingInv'
  <2>1. gwQueue[1] = c
    BY <1>12 DEF ControllerAnswers, ServingInv, QueueInv, Serving
  <2> QED
    BY <1>12, <2>1, KeepsPlace DEF ControllerAnswers, GatewayStages, Waiting, Serving
<1>13. ASSUME NEW c \in Calls, ControllerPanics(c) PROVE ServingInv'
  BY <1>13, Dequeues DEF ControllerPanics, GatewayStages, Waiting, Serving
<1>14. ASSUME NEW c \in Calls, Reply(c) PROVE ServingInv'
  BY <1>14, Dequeues DEF Reply, Answer, GatewayStages, Waiting, Serving
<1>15. ASSUME NEW c \in Calls, ReplyFails(c) PROVE ServingInv'
  BY <1>15, Dequeues DEF ReplyFails, Answer, GatewayStages, Waiting, Serving
<1>16. CASE UNCHANGED gwVars
  BY <1>16 DEF gwVars, ServingInv, PcInv, QueueInv
<1> QED
  BY <1>1, <1>2, <1>3, <1>4, <1>5, <1>6, <1>7, <1>8, <1>9, <1>10, <1>11, <1>12, <1>13,
     <1>14, <1>15, <1>16 DEF GatewayNext, GatewayWorks, ControllerWorks

LEMMA ServingAlways == GatewaySpec => []ServingInv
BY InitServing, ServingStep, PTL DEF GatewaySpec

(* The gateway asks for one credential at a time, however many calls come  *)
(* (gateway/mod.rs: the guard of the mutex is held over the whole request). *)
THEOREM ServedAloneAlways == GatewaySpec => []ServedAlone
<1>1. ServingInv => ServedAlone
  BY DEF ServingInv, QueueInv, ServedAlone, Serving
<1> QED
  BY <1>1, ServingAlways, PTL

----
(* What is known of a call once the checks let it through, up to the       *)
(* conversion of its origin and after it.                                  *)
Checked(c) ==
  LET q == gwIn[c] IN
  /\ q \in Inputs /\ q.pid /\ q.public_key
  /\ Validate(q).ok
  /\ gwApp[c] = Validate(q).app
  /\ gwNav[c] = Validate(q).nav

CheckedInv ==
  /\ gwPc \in [Calls -> GatewayStages]
  /\ DOMAIN gwIn = Calls /\ DOMAIN gwApp = Calls /\ DOMAIN gwNav = Calls
  /\ \A c \in Calls :
       /\ gwPc[c] \in {"received", "known"} => gwIn[c] \in Inputs
       /\ gwPc[c] = "known" => gwIn[c].pid
       /\ gwPc[c] \in Waiting => Checked(c)
       /\ gwPc[c] \in {"asking", "came"} => gwNav[c].origin # "app"

LEMMA InitChecked == GatewayInit => CheckedInv
<1> SUFFICES ASSUME GatewayInit PROVE CheckedInv
  OBVIOUS
<1>1. gwPc \in [Calls -> GatewayStages] /\ \A c \in Calls : gwPc[c] = "idle"
  BY DEF GatewayInit, GatewayStages
<1>2. DOMAIN gwIn = Calls /\ DOMAIN gwApp = Calls /\ DOMAIN gwNav = Calls
  BY DEF GatewayInit
<1> QED
  BY <1>1, <1>2 DEF CheckedInv, Waiting, Serving

(* A step of a call that leaves what is known of it as it is.              *)
LEMMA KeepsKnown ==
  ASSUME NEW c \in Calls, NEW stage \in GatewayStages \ {"received", "known"}, CheckedInv,
         Goes(c, stage), UNCHANGED <<gwIn, gwApp, gwNav>>,
         stage \in Waiting => gwPc[c] \in Waiting,
         stage \in {"asking", "came"} => gwNav[c].origin # "app"
  PROVE  CheckedInv'
BY DEF CheckedInv, Checked, Goes

LEMMA CheckedStep == CheckedInv /\ [GatewayNext]_gwVars => CheckedInv'
<1> SUFFICES ASSUME CheckedInv, [GatewayNext]_gwVars PROVE CheckedInv'
  OBVIOUS
<1> USE DEF At
<1>1. ASSUME NEW c \in Calls, NEW q \in CallInputs[c], GatewayReceive(c, q) PROVE CheckedInv'
  <2>1. q \in Inputs
    BY GatewayAssumption
  <2> QED
    BY <1>1, <2>1 DEF GatewayReceive, Goes, CheckedInv, Checked, GatewayStages, Waiting, Serving
<1>2. ASSUME NEW c \in Calls, CreateWithoutRequest(c) PROVE CheckedInv'
  BY <1>2, KeepsKnown DEF CreateWithoutRequest, Answer, GatewayStages, Waiting, Serving
<1>3. ASSUME NEW c \in Calls, QueryPid(c) PROVE CheckedInv'
  BY <1>3 DEF QueryPid, Goes, CheckedInv, Checked, GatewayStages, Waiting, Serving
<1>4. ASSUME NEW c \in Calls, QueryPidFails(c) PROVE CheckedInv'
  BY <1>4, KeepsKnown DEF QueryPidFails, Answer, GatewayStages, Waiting, Serving
<1>5. ASSUME NEW c \in Calls, Reject(c) PROVE CheckedInv'
  BY <1>5, KeepsKnown DEF Reject, Answer, GatewayStages, Waiting, Serving
<1>6. ASSUME NEW c \in Calls, Admit(c) PROVE CheckedInv'
  <2>1. gwIn[c] \in Inputs /\ gwIn[c].pid /\ gwIn[c].public_key /\ Validate(gwIn[c]).ok
    BY <1>6 DEF Admit, CheckedInv
  <2>2. Checked(c)'
    BY <1>6, <2>1 DEF Admit, Checked, CheckedInv
  <2> QED
    BY <1>6, <2>2 DEF Admit, Goes, CheckedInv, Checked, GatewayStages, Waiting, Serving
<1>7. ASSUME NEW c \in Calls, Locks(c) PROVE CheckedInv'
  BY <1>7, KeepsKnown DEF Locks, GatewayStages, Waiting, Serving
<1>8. ASSUME NEW c \in Calls, OriginPanics(c) PROVE CheckedInv'
  BY <1>8, KeepsKnown DEF OriginPanics, GatewayStages, Waiting, Serving
<1>9. ASSUME NEW c \in Calls, NEW err, ConversionFails(c, err) PROVE CheckedInv'
  BY <1>9, KeepsKnown DEF ConversionFails, Answer, GatewayStages, Waiting, Serving
<1>10. ASSUME NEW c \in Calls, NoAlgorithms(c) PROVE CheckedInv'
  BY <1>10, KeepsKnown DEF NoAlgorithms, Answer, GatewayStages, Waiting, Serving
<1>11. ASSUME NEW c \in Calls, Ask(c) PROVE CheckedInv'
  BY <1>11, KeepsKnown DEF Ask, GatewayStages, Waiting, Serving
<1>12. ASSUME NEW c \in Calls, NEW a, ControllerAnswers(c, a) PROVE CheckedInv'
  <2>1. gwNav[c].origin # "app"
    BY <1>12 DEF ControllerAnswers, CheckedInv
  <2> QED
    BY <1>12, <2>1, KeepsKnown DEF ControllerAnswers, GatewayStages, Waiting, Serving
<1>13. ASSUME NEW c \in Calls, ControllerPanics(c) PROVE CheckedInv'
  BY <1>13, KeepsKnown DEF ControllerPanics, GatewayStages, Waiting, Serving
<1>14. ASSUME NEW c \in Calls, Reply(c) PROVE CheckedInv'
  BY <1>14, KeepsKnown DEF Reply, Answer, GatewayStages, Waiting, Serving
<1>15. ASSUME NEW c \in Calls, ReplyFails(c) PROVE CheckedInv'
  BY <1>15, KeepsKnown DEF ReplyFails, Answer, GatewayStages, Waiting, Serving
<1>16. CASE UNCHANGED gwVars
  BY <1>16 DEF gwVars, CheckedInv, Checked
<1> QED
  BY <1>1, <1>2, <1>3, <1>4, <1>5, <1>6, <1>7, <1>8, <1>9, <1>10, <1>11, <1>12, <1>13,
     <1>14, <1>15, <1>16 DEF GatewayNext, GatewayWorks, ControllerWorks

(* What the checks, made one after the other, come to.                     *)
LEMMA ValidateAdmits ==
  ASSUME NEW q \in Inputs, q.pid, q.public_key, Validate(q).ok, Validate(q).nav.origin # "app"
  PROVE  /\ Admissible(q)
         /\ Validate(q).app \notin {"", "bad"}
         /\ Validate(q).nav.top # NoTop <=>
              /\ q.app \in {"", "firefox", "org.mozilla.firefox", "demo"} \cup DebugApps
              /\ q.top \in HttpsOrigins \ {q.origin}
<1> DEFINE id == ResolveAppId(q.app, TrustedCaller(q.exe))
           checked == CheckOrigin(id.app, q.origin, q.top)
<1>1. id.ok /\ id.app # "bad" /\ "bad" \notin {q.origin, q.top} /\ checked.ok
  BY DEF Validate, Failed
<1>2. Validate(q).app = id.app /\ Validate(q).nav = checked.nav
  BY <1>1 DEF Validate, Failed
<1>3. /\ TrustedCaller(q.exe) # "none"
      /\ q.app = "" => TrustedCaller(q.exe) = "sidecar"
      /\ id.app = IF q.app = "" THEN "org.mozilla.firefox" ELSE q.app
  BY <1>1 DEF ResolveAppId, Failed
<1>4. /\ q.exe \in {"portal", "sidecar"} \cup DebugCallers
      /\ TrustedCaller(q.exe) = "sidecar" => q.exe = "sidecar"
  BY <1>3 DEF TrustedCaller
<1>5. id.app \notin {"", "bad"} /\ q.app # "bad" /\ (q.app = "" => q.exe = "sidecar")
  BY <1>1, <1>3, <1>4
<1>6. Privileged(id.app) <=>
        q.app \in {"", "firefox", "org.mozilla.firefox", "demo"} \cup DebugApps
  BY <1>3 DEF Privileged
<1> HIDE DEF id
<1>7. q.origin \in Origins /\ q.top \in Origins \cup {NoTop}
  BY DEF Inputs
<1>8. CASE Privileged(id.app)
  <2>1. checked = CheckPrivileged(q.origin, q.top)
    BY <1>8 DEF CheckOrigin
  <2>2. q.origin \in HttpsOrigins /\ q.top \in HttpsOrigins \cup {NoTop}
    BY <1>1, <2>1 DEF CheckPrivileged, Failed
  <2>3. checked.nav.top = IF q.top = q.origin THEN NoTop ELSE q.top
    BY <2>1, <2>2 DEF CheckPrivileged
  <2> QED
    BY <1>1, <1>2, <1>4, <1>5, <1>6, <1>8, <2>2, <2>3 DEF Admissible, HttpsOrigins, NoTop
<1>9. CASE ~Privileged(id.app)
  <2>1. checked.nav = [origin |-> q.origin, top |-> NoTop]
    BY <1>9 DEF CheckOrigin
  <2>2. q.origin \in HttpsOrigins
    BY <1>1, <1>2, <1>7, <2>1 DEF Origins
  <2>3. Admissible(q)
    BY <1>1, <1>4, <1>5, <1>6, <1>9, <2>2 DEF Admissible
  <2>4. Validate(q).nav.top = NoTop
    BY <1>2, <2>1
  <2> QED
    BY <1>2, <1>5, <1>6, <1>9, <2>3, <2>4
<1> QED
  BY <1>8, <1>9

(* The controller is only asked for a call whose caller is trusted, whose  *)
(* app id it may claim and whose origins that app may set                  *)
(* (gateway/mod.rs: validate_app_details).                                 *)
THEOREM OnlyAdmissibleAskedAlways == GatewaySpec => []OnlyAdmissibleAsked
<1>1. CheckedInv => OnlyAdmissibleAsked
  <2> SUFFICES ASSUME CheckedInv, NEW c \in Calls, gwPc[c] \in {"asking", "came"}
               PROVE  LET q == gwIn[c] IN
                      /\ Admissible(q)
                      /\ gwApp[c] \notin {"", "bad"}
                      /\ gwNav[c].top # NoTop <=>
                           /\ q.app \in {"", "firefox", "org.mozilla.firefox", "demo"}
                                         \cup DebugApps
                           /\ q.top \in HttpsOrigins \ {q.origin}
    BY DEF OnlyAdmissibleAsked
  <2>1. Checked(c) /\ gwNav[c].origin # "app"
    BY DEF CheckedInv, Waiting, Serving
  <2> QED
    BY <2>1, ValidateAdmits DEF Checked
<1> QED
  BY <1>1, InitChecked, CheckedStep, PTL DEF GatewaySpec

----
(* The types; what is asked and answered are outcomes, never the lack of   *)
(* one.                                                                    *)
Outcomes == Credentials \cup WebAuthnErrors

OutcomeInv ==
  /\ gwCame \in [Calls -> Outcomes \cup {"none", "panic"}]
  /\ gwAnswer \in [Calls -> Outcomes \cup {"none"}]
  /\ \A c \in Calls : gwPc[c] = "came" => gwCame[c] \in Outcomes

KnownInv ==
  /\ \A c \in Calls : gwIn[c] \in Inputs \/ gwIn[c] = NoInput
  /\ gwApp \in [Calls -> AppIds]
  /\ gwNav \in [Calls -> Contexts]

(* What the checks pass on is an app id and a context.                     *)
LEMMA ValidateTypes ==
  ASSUME NEW q \in Inputs, Validate(q).ok
  PROVE  Validate(q).app \in AppIds /\ Validate(q).nav \in Contexts
<1> DEFINE id == ResolveAppId(q.app, TrustedCaller(q.exe))
           checked == CheckOrigin(id.app, q.origin, q.top)
<1>1. q.app \in AppIds /\ q.origin \in Origins /\ q.top \in Origins \cup {NoTop}
  BY DEF Inputs
<1>2. id.ok /\ checked.ok
  BY DEF Validate, Failed
<1>3. Validate(q).app = id.app /\ Validate(q).nav = checked.nav
  BY DEF Validate, Failed
<1>4. id.app = IF q.app = "" THEN "org.mozilla.firefox" ELSE q.app
  BY <1>2 DEF ResolveAppId, Failed
<1>5. \E o \in Origins, t \in Origins \cup {NoTop} : checked.nav = [origin |-> o, top |-> t]
  <2> HIDE DEF id
  <2>1. CASE Privileged(id.app)
    BY <1>1, <1>2, <2>1 DEF CheckOrigin, CheckPrivileged, Failed
  <2>2. CASE ~Privileged(id.app)
    BY <1>1, <2>2 DEF CheckOrigin
  <2> QED
    BY <2>1, <2>2
<1>6. id.app \in AppIds
  <2> HIDE DEF id, checked
  <2> QED
    BY <1>1, <1>4 DEF AppIds
<1>7. checked.nav \in Contexts
  <2> HIDE DEF id, checked
  <2> QED
    BY <1>5 DEF Contexts
<1> QED
  BY <1>3, <1>6, <1>7

LEMMA KnownStep == CheckedInv /\ KnownInv /\ [GatewayNext]_gwVars => KnownInv'
<1> SUFFICES ASSUME CheckedInv, KnownInv, [GatewayNext]_gwVars PROVE KnownInv'
  OBVIOUS
<1>1. ASSUME NEW c \in Calls, NEW q \in CallInputs[c], GatewayReceive(c, q) PROVE KnownInv'
  <2>1. q \in Inputs
    BY GatewayAssumption
  <2> QED
    BY <1>1, <2>1 DEF GatewayReceive, CheckedInv, KnownInv
<1>2. ASSUME NEW c \in Calls, Admit(c) PROVE KnownInv'
  <2>1. gwIn[c] \in Inputs /\ Validate(gwIn[c]).ok
    BY <1>2 DEF Admit, At, CheckedInv
  <2>2. Validate(gwIn[c]).app \in AppIds /\ Validate(gwIn[c]).nav \in Contexts
    BY <2>1, ValidateTypes
  <2>3. /\ gwIn' = gwIn
        /\ gwApp' = [gwApp EXCEPT ![c] = Validate(gwIn[c]).app]
        /\ gwNav' = [gwNav EXCEPT ![c] = Validate(gwIn[c]).nav]
    BY <1>2 DEF Admit
  <2> QED
    BY <2>2, <2>3 DEF KnownInv
<1>3. CASE UNCHANGED <<gwIn, gwApp, gwNav>>
  BY <1>3 DEF KnownInv
<1>4. ASSUME NEW c \in Calls, GatewayWorks(c), ~Admit(c)
      PROVE  UNCHANGED <<gwIn, gwApp, gwNav>>
  BY <1>4 DEF GatewayWorks, CreateWithoutRequest, QueryPid, QueryPidFails, Reject, Locks,
     OriginPanics, NoAlgorithms, Ask, ConversionFails, Reply, ReplyFails
<1>5. ASSUME NEW c \in Calls, ControllerWorks(c)
      PROVE  UNCHANGED <<gwIn, gwApp, gwNav>>
  BY <1>5 DEF ControllerWorks, ControllerPanics, ControllerAnswers
<1> QED
  BY <1>1, <1>2, <1>3, <1>4, <1>5 DEF GatewayNext, gwVars

LEMMA OutcomeStep == ServingInv /\ OutcomeInv /\ [GatewayNext]_gwVars => OutcomeInv'
<1> SUFFICES ASSUME ServingInv, OutcomeInv, [GatewayNext]_gwVars PROVE OutcomeInv'
  OBVIOUS
<1> USE DEF At
<1>0. gwPc \in [Calls -> GatewayStages]
  BY DEF ServingInv, PcInv
<1>1. ASSUME NEW c \in Calls, NEW stage \in GatewayStages \ {"came"}, Goes(c, stage),
             UNCHANGED <<gwCame, gwAnswer>>
      PROVE  OutcomeInv'
  BY <1>0, <1>1 DEF Goes, OutcomeInv
<1>2. ASSUME NEW c \in Calls, NEW a \in Outcomes, Answer(c, a), UNCHANGED gwCame
      PROVE  OutcomeInv'
  BY <1>0, <1>2 DEF Answer, Goes, OutcomeInv
<1>3. {"TypeError", "SecurityError", "NotSupportedError", "NotAllowedError"} \subseteq Outcomes
  BY DEF Outcomes, WebAuthnErrors
<1>4. ASSUME NEW c \in Calls, NEW q, GatewayReceive(c, q) PROVE OutcomeInv'
  BY <1>1, <1>4 DEF GatewayReceive, GatewayStages
<1>5. ASSUME NEW c \in Calls, CreateWithoutRequest(c) \/ QueryPidFails(c) \/ Reject(c)
      PROVE  OutcomeInv'
  BY <1>2, <1>3, <1>5 DEF CreateWithoutRequest, QueryPidFails, Reject, Rejection
<1>6. ASSUME NEW c \in Calls, QueryPid(c) \/ Admit(c) \/ Locks(c) \/ OriginPanics(c) \/ Ask(c)
      PROVE  OutcomeInv'
  BY <1>1, <1>6 DEF QueryPid, Admit, Locks, OriginPanics, Ask, GatewayStages
<1>7. ASSUME NEW c \in Calls, NEW err \in ConversionErrors, ConversionFails(c, err)
      PROVE  OutcomeInv'
  BY <1>2, <1>3, <1>7 DEF ConversionFails, ConversionErrors, ConversionError
<1>8. ASSUME NEW c \in Calls, NoAlgorithms(c) \/ ReplyFails(c) PROVE OutcomeInv'
  BY <1>2, <1>3, <1>8 DEF NoAlgorithms, ReplyFails
<1>9. ASSUME NEW c \in Calls, Reply(c) PROVE OutcomeInv'
  <2>1. gwCame[c] \in Outcomes
    BY <1>9 DEF Reply, OutcomeInv
  <2> QED
    BY <1>2, <1>3, <1>9, <2>1 DEF Reply
<1>10. ASSUME NEW c \in Calls, NEW a \in Credentials \cup {"NotAllowedError", "InvalidStateError"},
              ControllerAnswers(c, a)
       PROVE  OutcomeInv'
  <2>1. a \in Outcomes
    BY DEF Outcomes, WebAuthnErrors
  <2> QED
    BY <1>0, <1>10, <2>1 DEF ControllerAnswers, Goes, OutcomeInv
<1>11. ASSUME NEW c \in Calls, ControllerPanics(c) PROVE OutcomeInv'
  BY <1>0, <1>11 DEF ControllerPanics, Goes, OutcomeInv
<1>12. CASE UNCHANGED gwVars
  BY <1>12 DEF gwVars, OutcomeInv
<1> QED
  BY <1>4, <1>5, <1>6, <1>7, <1>8, <1>9, <1>10, <1>11, <1>12
     DEF GatewayNext, GatewayWorks, ControllerWorks

(* No fairness is needed for the types.                                    *)
LEMMA GatewayTypesKept == GatewayInit /\ [][GatewayNext]_gwVars => []GatewayTypeOK
<1>1. GatewayInit => KnownInv /\ OutcomeInv
  BY DEF GatewayInit, KnownInv, OutcomeInv, AppIds, Contexts
<1>2. ServingInv /\ KnownInv /\ OutcomeInv => GatewayTypeOK
  <2> SUFFICES ASSUME ServingInv, KnownInv, OutcomeInv PROVE GatewayTypeOK
    OBVIOUS
  <2>1. gwQueue \in Seq(Calls) /\ IsInjective(gwQueue)
    BY DEF ServingInv, QueueInv, IsInjective
  <2> QED
    BY <2>1 DEF ServingInv, PcInv, KnownInv, OutcomeInv, Outcomes, GatewayTypeOK
<1> QED
  BY <1>1, <1>2, InitServing, ServingStep, InitChecked, CheckedStep, KnownStep, OutcomeStep, PTL

(* The variables keep their types, and no call is in the queue of the      *)
(* mutex twice.                                                            *)
THEOREM GatewayTypeCorrect == GatewaySpec => []GatewayTypeOK
BY GatewayTypesKept, PTL DEF GatewaySpec
====
