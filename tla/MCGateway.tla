---- MODULE MCGateway ----
(***************************************************************************)
(* Gateway with one call of an unprivileged client, to look at what the    *)
(* client's origin is compared with.                                       *)
(***************************************************************************)
EXTENDS Gateway

CONSTANT c1

MCCallInputs ==
  [c \in {c1} |->
     {[kind |-> k, public_key |-> TRUE, pid |-> TRUE, exe |-> "portal", app |-> "other",
       origin |-> o, top |-> NoTop] : k \in Kinds, o \in HttpsOrigins}]

(* A static list of the origins of an unprivileged client; any list that   *)
(* leaves an origin out would do.                                          *)
AllowedOrigins(app) == IF app = "other" THEN {"https_a"} ELSE {}

(* gateway/mod.rs on RequestKind::Unprivileged: "Unprivileged clients may  *)
(* only set an origin, which will be verified against a static list of     *)
(* allowed origins for the client."                                        *)
UnprivilegedOriginsAreListed ==
  \A c \in Calls :
    gwPc[c] \in {"asking", "came"} /\ ~Privileged(gwApp[c]) =>
      gwNav[c].origin \in AllowedOrigins(gwApp[c])
====
