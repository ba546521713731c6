---- MODULE Gateway ----
(***************************************************************************)
(* The D-Bus gateway of the daemon (credentialsd/src/gateway/): a call of  *)
(* create_credential or get_credential is checked for the identity of its  *)
(* caller and for its origin, waits for the gateway's mutex, is turned     *)
(* into a CTAP2 request, and keeps the mutex while the controller serves   *)
(* it.                                                                     *)
(*                                                                         *)
(* A call is a record of what the code reads of it and of its caller.  The *)
(* strings are the classes the code tells apart: an app id or an origin    *)
(* that does not parse is "bad", "app" is an origin `app:<id>`, the hosts  *)
(* of https origins are a and b.                                           *)
(***************************************************************************)
EXTENDS Naturals, Sequences, SequencesExt

CONSTANTS
  Calls,        (* the method calls                                        *)
  CallInputs,   (* per call, the records it may come with                  *)
  DebugCallers, (* CREDSD_TRUSTED_CALLERS, empty in a release build        *)
  DebugApps     (* CREDSD_TRUSTED_APP_IDS, empty in a release build        *)

Kinds == {"create", "get"}
Executables == {"portal", "sidecar", "elsewhere", "unreadable", "other_namespace"}
AppIds == {"org.mozilla.firefox", "firefox", "demo", "other", "bad", ""}
HttpsOrigins == {"https_a", "https_b"}
Origins == HttpsOrigins \cup {"app", "bad"}
NoTop == "none"

Inputs ==
  [ kind : Kinds,
    public_key : BOOLEAN,                 (* the request's JSON is there     *)
    pid : BOOLEAN,                        (* D-Bus and procfs know the caller *)
    exe : Executables,
    app : AppIds,
    origin : Origins,
    top : Origins \cup {NoTop} ]

ASSUME GatewayAssumption ==
  /\ \A c \in Calls : CallInputs[c] \subseteq Inputs
  /\ DebugCallers \subseteq Executables \ {"unreadable", "other_namespace"}
  /\ DebugApps \subseteq AppIds

WebAuthnErrors ==
  {"SecurityError", "TypeError", "NotSupportedError", "NotAllowedError", "InvalidStateError"}

VARIABLES
  gwPc,     (* where a call stands                                         *)
  gwIn,     (* its inputs                                                  *)
  gwApp,    (* the app id it is served under                               *)
  gwNav,    (* its navigation context                                      *)
  gwQueue,  (* the calls that wait for the mutex; the head has it          *)
  gwCame,   (* what the controller answered a call                         *)
  gwAnswer  (* the PortalResult sent                                       *)

gwVars == <<gwPc, gwIn, gwApp, gwNav, gwQueue, gwCame, gwAnswer>>

NoContext == [origin |-> NoTop, top |-> NoTop]
Contexts == [origin : Origins, top : Origins \cup {NoTop}] \cup {NoContext}
GatewayStages ==
  {"idle", "received", "known", "queued", "locked", "asking", "came", "answered", "dropped"}
Credentials == {"created", "asserted"}
NoInput == [ kind |-> "none", public_key |-> FALSE, pid |-> FALSE, exe |-> "unreadable",
             app |-> "", origin |-> "bad", top |-> NoTop ]

GatewayTypeOK ==
  /\ gwPc \in [Calls -> GatewayStages]
  /\ \A c \in Calls : gwIn[c] \in Inputs \/ gwIn[c] = NoInput
  /\ gwApp \in [Calls -> AppIds]
  /\ gwNav \in [Calls -> Contexts]
  /\ gwQueue \in Seq(Calls) /\ IsInjective(gwQueue)
  /\ gwCame \in [Calls -> Credentials \cup WebAuthnErrors \cup {"none", "panic"}]
  /\ gwAnswer \in [Calls -> Credentials \cup WebAuthnErrors \cup {"none"}]

GatewayInit ==
  /\ gwPc = [c \in Calls |-> "idle"]
  /\ gwIn = [c \in Calls |-> NoInput]
  /\ gwApp = [c \in Calls |-> ""]
  /\ gwNav = [c \in Calls |-> NoContext]
  /\ gwQueue = <<>>
  /\ gwCame = [c \in Calls |-> "none"]
  /\ gwAnswer = [c \in Calls |-> "none"]

----
(* The checks, as the code makes them.                                     *)

(* trusted_caller: same mount namespace, readable executable, known path.  *)
TrustedCaller(exe) ==
  IF exe \in {"unreadable", "other_namespace"} THEN "none"
  ELSE IF exe = "sidecar" THEN "sidecar"
  ELSE IF exe = "portal" \/ exe \in DebugCallers THEN "portal"
  ELSE "none"

Failed(err) == [ok |-> FALSE, err |-> err]

(* Mutant of ResolveAppId: whoever is trusted may leave the app id out.    *)
ResolveAnyEmpty(app, caller) ==
  IF caller = "none" THEN Failed("SecurityError")
  ELSE [ok |-> TRUE, app |-> IF app = "" THEN "org.mozilla.firefox" ELSE app]

(* resolve_claimed_app_id.                                                 *)
ResolveAppId(app, caller) ==
  IF caller = "none" \/ (app = "" /\ caller # "sidecar") THEN Failed("SecurityError")
  ELSE [ok |-> TRUE, app |-> IF app = "" THEN "org.mozilla.firefox" ELSE app]

(* The privileged clients; Arch's Firefox goes by an alias.                *)
Privileged(app) ==
  \/ (IF app = "firefox" THEN "org.mozilla.firefox" ELSE app)
       \in {"org.mozilla.firefox", "demo"}
  \/ app \in DebugApps

(* Mutant of CheckPrivileged: the two origins are not compared.            *)
CheckUncompared(origin, top) ==
  IF origin \in HttpsOrigins /\ top \in HttpsOrigins \cup {NoTop}
  THEN [ok |-> TRUE, nav |-> [origin |-> origin, top |-> top]]
  ELSE Failed("SecurityError")

(* check_origin_from_privileged_client.                                    *)
CheckPrivileged(origin, top) ==
  IF origin \in HttpsOrigins /\ top \in HttpsOrigins \cup {NoTop}
  THEN [ok |-> TRUE, nav |-> [origin |-> origin,
                              top |-> IF top = origin THEN NoTop ELSE top]]
  ELSE Failed("SecurityError")

(* check_origin_from_app, and then validate_request: a privileged client's *)
(* origins are checked, another one's top origin is dropped and its origin *)
(* is taken as it is (origin_allowed_for_app_id = true).                   *)
CheckOrigin(app, origin, top) ==
  IF Privileged(app) THEN CheckPrivileged(origin, top)
  ELSE [ok |-> TRUE, nav |-> [origin |-> origin, top |-> NoTop]]

(* validate_app_details, from the executable on.                           *)
Validate(q) ==
  LET id == ResolveAppId(q.app, TrustedCaller(q.exe))
      checked == CheckOrigin(id.app, q.origin, q.top)
  IN IF ~id.ok \/ id.app = "bad" \/ "bad" \in {q.origin, q.top}
     THEN Failed("SecurityError")
     ELSE IF ~checked.ok THEN checked
     ELSE [ok |-> TRUE, app |-> id.app, nav |-> checked.nav]

----
(* The life of a call.                                                     *)

At(c, stage) == gwPc[c] = stage
Goes(c, stage) == gwPc' = [gwPc EXCEPT ![c] = stage]

(* Serialize for PortalResult: Success with the credential, or Other with  *)
(* the error's name.                                                       *)
Answer(c, a) ==
  /\ Goes(c, "answered")
  /\ gwAnswer' = [gwAnswer EXCEPT ![c] = a]

(* Leaving the mutex: the guard goes with the call's future.               *)
Unlock == gwQueue' = Tail(gwQueue)

GatewayReceive(c, q) ==
  /\ At(c, "idle")
  /\ Goes(c, "received")
  /\ gwIn' = [gwIn EXCEPT ![c] = q]
  /\ UNCHANGED <<gwApp, gwNav, gwQueue, gwCame, gwAnswer>>

(* create_credential looks for the request before anything else.           *)
CreateWithoutRequest(c) ==
  /\ At(c, "received") /\ gwIn[c].kind = "create" /\ ~gwIn[c].public_key
  /\ Answer(c, "TypeError")
  /\ UNCHANGED <<gwIn, gwApp, gwNav, gwQueue, gwCame>>

(* query_peer_pid_via_fdinfo.                                              *)
QueryPid(c) ==
  /\ At(c, "received") /\ (gwIn[c].kind = "create" => gwIn[c].public_key)
  /\ gwIn[c].pid
  /\ Goes(c, "known")
  /\ UNCHANGED <<gwIn, gwApp, gwNav, gwQueue, gwCame, gwAnswer>>

(* get_credential validates first and reports a missing request first.     *)
Rejection(c, err) == IF gwIn[c].public_key THEN err ELSE "TypeError"

QueryPidFails(c) ==
  /\ At(c, "received") /\ (gwIn[c].kind = "create" => gwIn[c].public_key)
  /\ ~gwIn[c].pid
  /\ Answer(c, Rejection(c, "SecurityError"))
  /\ UNCHANGED <<gwIn, gwApp, gwNav, gwQueue, gwCame>>

Reject(c) ==
  /\ At(c, "known")
  /\ ~(Validate(gwIn[c]).ok /\ gwIn[c].public_key)
  /\ Answer(c, Rejection(c, "SecurityError"))
  /\ UNCHANGED <<gwIn, gwApp, gwNav, gwQueue, gwCame>>

(* Mutant of Admit: the call asks for the mutex again and again.           *)
AdmitAgain(c) ==
  /\ At(c, "known")
  /\ Validate(gwIn[c]).ok /\ gwIn[c].public_key
  /\ gwApp' = [gwApp EXCEPT ![c] = Validate(gwIn[c]).app]
  /\ gwNav' = [gwNav EXCEPT ![c] = Validate(gwIn[c]).nav]
  /\ gwQueue' = Append(gwQueue, c)
  /\ UNCHANGED <<gwPc, gwIn, gwCame, gwAnswer>>

(* The call waits for the mutex; tokio's is fair.                          *)
Admit(c) ==
  /\ At(c, "known")
  /\ Validate(gwIn[c]).ok /\ gwIn[c].public_key
  /\ Goes(c, "queued")
  /\ gwApp' = [gwApp EXCEPT ![c] = Validate(gwIn[c]).app]
  /\ gwNav' = [gwNav EXCEPT ![c] = Validate(gwIn[c]).nav]
  /\ gwQueue' = Append(gwQueue, c)
  /\ UNCHANGED <<gwIn, gwCame, gwAnswer>>

(* Mutant of Locks: the mutex is not waited for.                           *)
LocksAtOnce(c) ==
  /\ At(c, "queued")
  /\ Goes(c, "locked")
  /\ UNCHANGED <<gwIn, gwApp, gwNav, gwQueue, gwCame, gwAnswer>>

Locks(c) ==
  /\ At(c, "queued") /\ Head(gwQueue) = c
  /\ Goes(c, "locked")
  /\ UNCHANGED <<gwIn, gwApp, gwNav, gwQueue, gwCame, gwAnswer>>

(* Mutant of OriginPanics: the mutex stays locked.                         *)
OriginPanicsLocked(c) ==
  /\ At(c, "locked") /\ gwNav[c].origin = "app"
  /\ Goes(c, "dropped")
  /\ UNCHANGED <<gwIn, gwApp, gwNav, gwQueue, gwCame, gwAnswer>>

(* LibwebauthnOrigin of an `app:` origin: unimplemented!().  The call's    *)
(* task dies without a reply; its guard is dropped.                        *)
OriginPanics(c) ==
  /\ At(c, "locked") /\ gwNav[c].origin = "app"
  /\ Goes(c, "dropped") /\ Unlock
  /\ UNCHANGED <<gwIn, gwApp, gwNav, gwCame, gwAnswer>>

(* The conversion fails on an origin libwebauthn does not take             *)
(* (SecurityError), for want of a public suffix list or of a               *)
(* related-origins source (NotAllowedError) or on the request's JSON       *)
(* (TypeError); get_credential reports each as TypeError.                  *)
ConversionErrors == {"SecurityError", "NotAllowedError", "TypeError"}
ConversionError(c, err) ==
  IF gwIn[c].kind = "get" THEN "TypeError" ELSE err

ConversionFails(c, err) ==
  /\ At(c, "locked") /\ gwNav[c].origin # "app"
  /\ Answer(c, ConversionError(c, err)) /\ Unlock
  /\ UNCHANGED <<gwIn, gwApp, gwNav, gwCame>>

NoAlgorithms(c) ==
  /\ At(c, "locked") /\ gwNav[c].origin # "app" /\ gwIn[c].kind = "create"
  /\ Answer(c, "NotSupportedError") /\ Unlock
  /\ UNCHANGED <<gwIn, gwApp, gwNav, gwCame>>

Ask(c) ==
  /\ At(c, "locked") /\ gwNav[c].origin # "app"
  /\ Goes(c, "asking")
  /\ UNCHANGED <<gwIn, gwApp, gwNav, gwQueue, gwCame, gwAnswer>>

(* request_credential returns a credential or one of its two errors.       *)
ControllerAnswers(c, a) ==
  /\ At(c, "asking")
  /\ Goes(c, "came")
  /\ gwCame' = [gwCame EXCEPT ![c] = a]
  /\ UNCHANGED <<gwIn, gwApp, gwNav, gwQueue, gwAnswer>>

(* request_credential panics when the flow controller is gone.             *)
ControllerPanics(c) ==
  /\ At(c, "asking")
  /\ Goes(c, "dropped") /\ Unlock
  /\ gwCame' = [gwCame EXCEPT ![c] = "panic"]
  /\ UNCHANGED <<gwIn, gwApp, gwNav, gwAnswer>>

Produces(kind) == IF kind = "create" THEN "created" ELSE "asserted"

(* A credential of the wrong kind is NotAllowedError.                      *)
Reply(c) ==
  /\ At(c, "came")
  /\ Answer(c, IF gwCame[c] \in Credentials \ {Produces(gwIn[c].kind)}
               THEN "NotAllowedError" ELSE gwCame[c])
  /\ Unlock
  /\ UNCHANGED <<gwIn, gwApp, gwNav, gwCame>>

(* The credential cannot be written as JSON.                               *)
ReplyFails(c) ==
  /\ At(c, "came") /\ gwCame[c] \in Credentials
  /\ Answer(c, "NotAllowedError") /\ Unlock
  /\ UNCHANGED <<gwIn, gwApp, gwNav, gwCame>>

----
GatewayWorks(c) ==
  \/ CreateWithoutRequest(c) \/ QueryPid(c) \/ QueryPidFails(c) \/ Reject(c)
  \/ Admit(c) \/ Locks(c) \/ OriginPanics(c) \/ NoAlgorithms(c) \/ Ask(c)
  \/ \E err \in ConversionErrors : ConversionFails(c, err)
  \/ Reply(c) \/ ReplyFails(c)

ControllerWorks(c) ==
  \/ ControllerPanics(c)
  \/ \E a \in Credentials \cup {"NotAllowedError", "InvalidStateError"} : ControllerAnswers(c, a)

GatewayNext ==
  \E c \in Calls :
    \/ \E q \in CallInputs[c] : GatewayReceive(c, q)
    \/ GatewayWorks(c) \/ ControllerWorks(c)

(* The daemon runs its tasks, and the ceremony of a call ends some day.    *)
GatewayRuns == \E c \in Calls : GatewayWorks(c) \/ ControllerWorks(c)

GatewayFairness == WF_gwVars(GatewayRuns)

GatewaySpec == GatewayInit /\ [][GatewayNext]_gwVars /\ GatewayFairness

----
(* Properties.                                                             *)

(* While a call is being served, no other is: the controller is asked for  *)
(* one credential at a time.                                               *)
ServedAlone ==
  \A c, d \in Calls :
    gwPc[c] \in {"locked", "asking", "came"} /\ gwPc[d] \in {"locked", "asking", "came"}
      => c = d

(* What the code makes sure of before a ceremony is started for a call,    *)
(* said without the order of its checks: who calls, that a privileged      *)
(* client's origins are https ones ("Only privileged clients are trusted   *)
(* to set both the origin and top origin"), and no more than that of an    *)
(* unprivileged client.  Any https origin of an unprivileged client will   *)
(* do: validate_request sets origin_allowed_for_app_id to true where a     *)
(* comment speaks of a static list (UnprivilegedOriginsAreListed of        *)
(* MCGateway does not hold).                                               *)
Admissible(q) ==
  /\ q.public_key /\ q.pid
  /\ q.exe \in {"portal", "sidecar"} \cup DebugCallers
  /\ q.app # "bad" /\ (q.app = "" => q.exe = "sidecar")
  /\ q.origin \in HttpsOrigins /\ q.top # "bad"
  /\ q.app \in {"", "firefox", "org.mozilla.firefox", "demo"} \cup DebugApps => q.top # "app"

(* The controller is only asked for calls that passed every check, and the *)
(* ceremony is cross-origin exactly for a privileged client that names two *)
(* origins.                                                                *)
OnlyAdmissibleAsked ==
  \A c \in Calls : gwPc[c] \in {"asking", "came"} =>
    LET q == gwIn[c] IN
    /\ Admissible(q)
    /\ gwApp[c] \notin {"", "bad"}
    /\ gwNav[c].top # NoTop <=>
         /\ q.app \in {"", "firefox", "org.mozilla.firefox", "demo"} \cup DebugApps
         /\ q.top \in HttpsOrigins \ {q.origin}

(* Dropped by a panic, of its own `app:` origin or of the controller.      *)
Panicked(c) ==
  gwPc[c] = "dropped" /\ (gwNav[c].origin = "app" \/ gwCame[c] = "panic")

Unanswered == {c \in Calls : gwPc[c] \notin {"idle", "answered"} /\ ~Panicked(c)}

(* Every call is answered, or dropped by a panic, and one call's panic     *)
(* never keeps another one waiting.                                        *)
CallsAreAnswered == Unanswered # {} ~> Unanswered = {}
====
