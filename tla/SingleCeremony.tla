---- MODULE SingleCeremony ----
(***************************************************************************)
(* What the credential service promises its callers, without its slot,     *)
(* its tokens and its streams: at most one ceremony runs at a time; a      *)
(* request is refused only while another one runs; a request that runs is  *)
(* answered once, by its own ceremony or its own user; a service that has  *)
(* broken down drops new requests.                                         *)
(*                                                                         *)
(* A service with Overtaking promises less: a ceremony that comes too late *)
(* for its own request, which has been answered already, may answer the    *)
(* next one.  Even then a user cancels only the user's own request.        *)
(***************************************************************************)

CONSTANTS
  Requests, NoRequest,
  Verdicts,       (* what a request that runs may be answered              *)
  Cancellation,   (* the verdict that comes from a user                    *)
  Overtaking      (* TRUE: late ceremonies may answer the next request     *)

VARIABLES active, verdict, author

vars == <<active, verdict, author>>

Init ==
  /\ active = NoRequest
  /\ verdict = [r \in Requests |-> "unused"]
  /\ author = [r \in Requests |-> NoRequest]

Begin(r) ==
  /\ active = NoRequest /\ verdict[r] = "unused"
  /\ active' = r
  /\ verdict' = [verdict EXCEPT ![r] = "open"]
  /\ UNCHANGED author

Refuse(r) ==
  /\ active # NoRequest /\ verdict[r] = "unused"
  /\ verdict' = [verdict EXCEPT ![r] = "refused"]
  /\ UNCHANGED <<active, author>>

Drop(r) ==
  /\ verdict[r] = "unused"
  /\ verdict' = [verdict EXCEPT ![r] = "dropped"]
  /\ UNCHANGED <<active, author>>

(* s is whose ceremony or user the verdict comes from.                     *)
MayAnswer(s, r, v) ==
  \/ s = r
  \/ Overtaking /\ verdict[s] \in Verdicts /\ v # Cancellation

Answer(r, v, s) ==
  /\ active = r
  /\ MayAnswer(s, r, v)
  /\ active' = NoRequest
  /\ verdict' = [verdict EXCEPT ![r] = v]
  /\ author' = [author EXCEPT ![r] = s]

Next ==
  \E r \in Requests :
    \/ Begin(r) \/ Refuse(r) \/ Drop(r)
    \/ \E v \in Verdicts, s \in Requests : Answer(r, v, s)

Spec == Init /\ [][Next]_vars
====
