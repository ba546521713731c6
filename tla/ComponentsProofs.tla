---- MODULE ComponentsProofs ----
(***************************************************************************)
(* Proofs about Window, for any counts and bounds, and the types of the    *)
(* four components of MCComponents beside each other.                      *)
(*                                                                         *)
(* Three invariants carry the window's theorems, each about the whole way  *)
(* of a state: the wire, the updates, the screen.  DoneInv: completion is  *)
(* the last that is told.  AskingInv: a key that asks has the window wait  *)
(* for it, or at a page for prompts.  ShownInv: the last state sent is the *)
(* last thing on the first of the three that is not empty.                 *)
(***************************************************************************)
EXTENDS MCComponents, HybridProofs, GatewayProofs, WebExtProofs, SequenceTheorems, TLAPS

(* The states that the window is told of, what it hears of one after the   *)
(* wire, and the last update that the event loop makes of it.              *)
SentStates == {s \in Messages : s.tag \notin UsbIdling}

Told == {OnWire(BackgroundEventOf(s)) : s \in SentStates}

Heard(s) ==
  IF s.tag \in {"needs_pin", "needs_uv"}
  THEN Msg(s.tag, IF s.n = MaxU32 THEN Unknown ELSE s.n, NoReason)
  ELSE IF s.tag \in ServiceErrors
       THEN Plain(IF s.tag = "pin_exhausted" THEN "authenticator" ELSE s.tag)
       ELSE Msg(s.tag, Unknown, s.why)

LastUpdate(s) ==
  IF s.tag = "connected" THEN Plain("waiting_usb")
  ELSE IF s.tag \in ServiceErrors THEN Msg("failed", Unknown, MessageOf(Heard(s).tag))
       ELSE Heard(s)

Whys == Reasons \cup {NoReason, "something_wrong", "choice_failed"} \cup ServiceErrors
Updates == [tag : ViewUpdates, n : Int, why : Whys]
ScreenFields == {"page", "prompt", "pinEntry", "setPinButton", "qrCode", "spinner"}
Entries == {"initiated", "pin", "new_pin", "long_pin", "credential", "cancel"}
Phases == {"undiscovered", "finding", "asking", "choosing", "over"}

WinTypes ==
  /\ winPhase \in Phases
  /\ winLast \in Messages
  /\ winSent \in 0..MaxSent /\ winCommits \in 0..MaxCommits
  /\ winWire \in Seq(Told) /\ Len(winWire) <= winSent
  /\ winEntries \in Seq(Entries)
  /\ winLoop \in {"running", "ending", "ended"}
  /\ winUpdates \in Seq(Updates)
  /\ DOMAIN winScreen = ScreenFields /\ winScreen.page \in Pages
  /\ winScreen.pinEntry \in BOOLEAN /\ winScreen.setPinButton \in BOOLEAN
  /\ winState \in {"open", "closing", "closed"}
  /\ winTimer \in BOOLEAN /\ winLocal \in BOOLEAN

(* Before the devices are asked for, nothing is sent; a key that asks is   *)
(* the last state sent until it ends or lists its credentials.             *)
PhaseInv ==
  /\ \A i \in 1..Len(winEntries) :
       winEntries[i] = "initiated" => i = 1 /\ winPhase = "undiscovered"
  /\ winPhase = "undiscovered" => winLast = Plain("idle")
  /\ winLast.tag \in UsbIdling => winLast.tag = "idle"
  /\ winLast.tag \in {"needs_up", "needs_uv"} => winPhase = "asking"

(* Completion is the last that a window is told.                           *)
DoneInv ==
  ~winLocal =>
    /\ \A i \in 1..Len(winWire) :
         winWire[i].method = "completed" => i = Len(winWire) /\ winPhase = "over"
    /\ \A i \in 1..Len(winUpdates) :
         winUpdates[i].tag = "completed" =>
           /\ winPhase = "over" /\ winWire = <<>>
           /\ \A j \in 1..Len(winUpdates) : j > i => winUpdates[j].tag = "cancelled"
    /\ winScreen.page = "completed" =>
         /\ winPhase = "over" /\ winWire = <<>>
         /\ \A j \in 1..Len(winUpdates) : winUpdates[j].tag = "cancelled"

(* Until a key lists its credentials or ends, nothing on the way leads to  *)
(* the pages of either; while it asks, the window is told to wait for it   *)
(* or is at a page for the prompts.                                        *)
AskingInv ==
  winLoop = "running" =>
    /\ winPhase \in {"undiscovered", "finding", "asking"} =>
         /\ \A i \in 1..Len(winWire) : winWire[i].method \notin {"credentials", "completed"}
         /\ \A i \in 1..Len(winUpdates) : winUpdates[i].tag \notin {"credentials", "completed"}
    /\ winPhase = "asking" =>
         \/ \E i \in 1..Len(winWire) : winWire[i].method = "connected"
         \/ \E i \in 1..Len(winUpdates) : winUpdates[i].tag = "waiting_usb"
         \/ winScreen.page \in PromptPages \cup {"set_new_pin"}

(* The last state is the last on the wire, else the last of the updates,   *)
(* else on the screen.                                                     *)
Following == winLoop = "running" /\ winState = "open" /\ ~winLocal

ShownInv ==
  Following =>
    /\ winWire # <<>> => winWire[Len(winWire)] = OnWire(BackgroundEventOf(winLast))
    /\ winWire = <<>> /\ winUpdates # <<>> /\ winLast.tag # "idle" =>
         winUpdates[Len(winUpdates)] = LastUpdate(winLast)
    /\ winWire = <<>> /\ winUpdates = <<>> => Shows(winLast)

(* The PIN entry is only ever on the page that holds it, next to the       *)
(* prompt that asks for the PIN: a hybrid state or an error that takes the *)
(* window to another page has taken the entry away.                        *)
PinEntryOnItsPage ==
  winScreen.pinEntry => winScreen.page = "usb_or_nfc" /\ winScreen.prompt.text = "enter_pin"

WinInv == WinTypes /\ PinEntryOnItsPage /\ PhaseInv /\ DoneInv /\ AskingInv /\ ShownInv

----
(* The operators.                                                          *)

LEMMA RoundTrip == \A s \in Messages : Received(OnWire(BackgroundEventOf(s))) = Heard(s)
<1> SUFFICES ASSUME NEW s \in Messages
             PROVE  Received(OnWire(BackgroundEventOf(s))) = Heard(s)
  OBVIOUS
<1> DEFINE e == BackgroundEventOf(s)
           w == OnWire(e)
<1>1. /\ s.n \in 0..MaxU32 \cup {Unknown} /\ s = Msg(s.tag, s.n, s.why)
      /\ s.tag \in {"needs_pin", "needs_uv", "needs_up", "pin_not_set", "connected", "credentials"}
                   \cup UsbIdling \cup PhoneStates \cup Ends
  BY DEF Messages, Msg
<1>2. CASE s.tag \in {"needs_pin", "needs_uv"}
  <2>1. e = s
    BY <1>2 DEF BackgroundEventOf
  <2>2. w.method = s.tag /\ w.arg = IF s.n = Unknown THEN MaxU32 ELSE s.n
    <3>1. e.tag \in {"needs_pin", "needs_uv"}
      BY <1>2, <2>1
    <3> HIDE DEF e
    <3>2. CASE e.n = Unknown
      BY <2>1, <3>1, <3>2 DEF OnWire, ServiceErrors
    <3>3. CASE e.n # Unknown
      BY <2>1, <3>1, <3>3 DEF OnWire, ServiceErrors
    <3> QED
      BY <3>2, <3>3
  <2> HIDE DEF w
  <2>3. Received(w) = Msg(s.tag, IF w.arg = MaxU32 THEN Unknown ELSE w.arg, NoReason)
    BY <1>2, <2>2 DEF Received
  <2>4. (IF w.arg = MaxU32 THEN Unknown ELSE w.arg) = IF s.n = MaxU32 THEN Unknown ELSE s.n
    BY <2>2
  <2>5. Received(w) = Msg(s.tag, IF s.n = MaxU32 THEN Unknown ELSE s.n, NoReason)
    BY <2>3, <2>4
  <2> QED
    BY <1>2, <2>5 DEF Heard, w
<1>3. CASE s.tag \in ServiceErrors
  <2> DEFINE t == IF s.tag = "pin_exhausted" THEN "authenticator" ELSE s.tag
  <2>1. e.tag = t /\ t \in ServiceErrors
    BY <1>3 DEF BackgroundEventOf, Plain, Msg, ServiceErrors
  <2>2. w = [method |-> "error", arg |-> CodeOf(t), why |-> NoReason]
    <3> HIDE DEF t, e
    <3> QED
      BY <2>1 DEF OnWire, ServiceErrors
  <2>3. \E c \in DOMAIN ErrorCodes : ErrorCodes[c] = t
    <3>1. /\ ErrorCodes[1] = "internal" /\ ErrorCodes[4] = "authenticator"
          /\ ErrorCodes[5] = "no_credentials" /\ ErrorCodes[6] = "excluded"
          /\ ErrorCodes[7] = "pin_exhausted" /\ {1, 4, 5, 6, 7} \subseteq DOMAIN ErrorCodes
      BY DEF ErrorCodes
    <3> HIDE DEF t
    <3> QED
      BY <2>1, <3>1 DEF ServiceErrors
  <2>4. ErrorCodes[CodeOf(t)] = t
    BY <2>3 DEF CodeOf
  <2> HIDE DEF t, w
  <2>5. Received(w) = Plain(t)
    BY <2>2, <2>4 DEF Received
  <2> QED
    BY <1>3, <2>5 DEF Heard, t, w, ServiceErrors
<1>4. CASE s.tag \notin {"needs_pin", "needs_uv"} \cup ServiceErrors
  <2>1. e = s
    BY <1>4 DEF BackgroundEventOf, ServiceErrors
  <2>2. w = [method |-> s.tag, arg |-> Unknown, why |-> s.why]
    BY <1>4, <2>1 DEF OnWire
  <2>3. s.tag # "error"
    BY <1>1 DEF UsbIdling, PhoneStates, Ends, ServiceErrors
  <2> HIDE DEF w
  <2>4. Received(w) = Msg(s.tag, Unknown, s.why)
    BY <1>4, <2>2, <2>3 DEF Received
  <2> QED
    BY <1>4, <2>4 DEF Heard, w
<1> QED
  BY <1>2, <1>3, <1>4

(* The call that tells of a state.                                         *)
LEMMA CallOf ==
  \A s \in Messages :
    OnWire(BackgroundEventOf(s)).method = IF s.tag \in ServiceErrors THEN "error" ELSE s.tag
<1> SUFFICES ASSUME NEW s \in Messages
             PROVE  OnWire(BackgroundEventOf(s)).method
                      = IF s.tag \in ServiceErrors THEN "error" ELSE s.tag
  OBVIOUS
<1>1. CASE s.tag \in ServiceErrors
  <2>1. BackgroundEventOf(s).tag \in ServiceErrors
    BY <1>1 DEF BackgroundEventOf, Plain, Msg, ServiceErrors
  <2> QED
    BY <1>1, <2>1 DEF OnWire, ServiceErrors
<1>2. CASE s.tag \notin ServiceErrors
  BY <1>2 DEF BackgroundEventOf, OnWire, ServiceErrors
<1> QED
  BY <1>1, <1>2

LEMMA HeardTypes ==
  ASSUME NEW s \in SentStates
  PROVE  /\ LastUpdate(s) \in Updates
         /\ \/ s.tag = "phone_connecting"
               /\ UpdatesOf(Heard(s)) = <<Plain("waiting_phone"), LastUpdate(s)>>
            \/ s.tag # "phone_connecting" /\ UpdatesOf(Heard(s)) = <<LastUpdate(s)>>
<1>1. /\ s.n \in Int /\ s.why \in Reasons \cup {NoReason} /\ MaxU32 \in Nat
      /\ s.tag \in {"needs_pin", "needs_uv", "needs_up", "pin_not_set", "connected", "credentials"}
                   \cup PhoneStates \cup Ends
  BY WindowAssumption DEF SentStates, Messages, Unknown
<1> USE DEF Plain, Msg, Unknown
<1>2. CASE s.tag \in ServiceErrors
  <2>1. Heard(s).tag \in ServiceErrors
    BY <1>2 DEF Heard, ServiceErrors
  <2>2. LastUpdate(s) = [tag |-> "failed", n |-> -1, why |-> MessageOf(Heard(s).tag)]
    BY <1>2 DEF LastUpdate, ServiceErrors
  <2>3. MessageOf(Heard(s).tag) \in Whys
    BY <2>1 DEF MessageOf, Whys, ServiceErrors
  <2>4. LastUpdate(s) \in Updates
    BY <2>2, <2>3 DEF Updates, ViewUpdates
  <2>5. UpdatesOf(Heard(s)) = <<LastUpdate(s)>>
    BY <2>1, <2>2 DEF UpdatesOf, ServiceErrors
  <2> QED
    BY <1>2, <2>4, <2>5 DEF ServiceErrors
<1>3. CASE s.tag = "connected"
  <2>1. Heard(s).tag = "connected" /\ LastUpdate(s) = [tag |-> "waiting_usb", n |-> -1, why |-> NoReason]
    BY <1>3 DEF Heard, LastUpdate, ServiceErrors
  <2>2. LastUpdate(s) \in Updates
    BY <2>1 DEF Updates, ViewUpdates, Whys
  <2> QED
    BY <1>3, <2>1, <2>2 DEF UpdatesOf, ServiceErrors
<1>4. CASE s.tag \notin ServiceErrors \cup {"connected"}
  <2>1. LastUpdate(s) = Heard(s) /\ Heard(s).tag = s.tag
    BY <1>4 DEF LastUpdate, Heard
  <2>2. s.tag \in ViewUpdates
    BY <1>1, <1>4 DEF ViewUpdates, PhoneStates, Ends
  <2>3. Heard(s) \in Updates
    BY <1>1, <1>4, <2>2 DEF Heard, Updates, Whys
  <2>4. UpdatesOf(Heard(s))
          = IF s.tag = "phone_connecting" THEN <<Plain("waiting_phone"), Heard(s)>> ELSE <<Heard(s)>>
    BY <1>4, <2>1 DEF UpdatesOf, ServiceErrors
  <2> QED
    BY <2>1, <2>3, <2>4
<1> QED
  BY <1>2, <1>3, <1>4

(* What an update does to the page and to the ways to answer.              *)
PageAfter(tag, page) ==
  CASE tag \in {"waiting_usb", "needs_pin"} -> "usb_or_nfc"
    [] tag \in {"pin_not_set", "failed"} -> "failed"
    [] tag \in {"waiting_phone", "phone_connecting"} -> "hybrid_qr"
    [] tag = "credentials" -> "choose_credential"
    [] tag = "completed" -> "completed"
    [] OTHER -> page

LEMMA HandledPage ==
  ASSUME NEW u \in Updates, NEW s, DOMAIN s = ScreenFields
  PROVE  /\ DOMAIN Handled(u, s) = ScreenFields
         /\ Handled(u, s).page = PageAfter(u.tag, s.page)
         /\ Handled(u, s).pinEntry = (u.tag = "needs_pin")
         /\ Handled(u, s).setPinButton = (u.tag = "pin_not_set")
<1> DEFINE c == Cleared(s)
<1>1. /\ DOMAIN c = ScreenFields /\ c.page = s.page
      /\ c.pinEntry = FALSE /\ c.setPinButton = FALSE
  BY DEF Cleared, ScreenFields
<1>2. u.tag \in ViewUpdates
  BY DEF Updates
<1> HIDE DEF c
<1> USE DEF WaitingForDevice, UpdateCredentials, ScreenFields, PageAfter
<1>3. CASE u.tag \in {"waiting_usb", "needs_pin", "needs_uv", "needs_up"}
  BY <1>1, <1>3 DEF Handled, c
<1>4. CASE u.tag \in {"pin_not_set", "credentials", "init", "waiting_phone"}
  BY <1>1, <1>4 DEF Handled, c
<1>5. CASE u.tag \in {"phone_connecting", "phone_connected", "completed", "failed"}
  BY <1>1, <1>5 DEF Handled, c
<1>6. CASE u.tag \in {"title", "devices", "cancelled"}
  BY <1>1, <1>6 DEF Handled, c
<1> QED
  BY <1>2, <1>3, <1>4, <1>5, <1>6 DEF ViewUpdates

----
(* The queues.                                                             *)

LEMMA Taken ==
  ASSUME NEW S, NEW q \in Seq(S), q # <<>>
  PROVE  /\ Head(q) = q[1] /\ q[1] \in S /\ Len(q) \in Nat /\ Len(q) >= 1
         /\ Tail(q) \in Seq(S) /\ Len(Tail(q)) = Len(q) - 1
         /\ \A i \in 1..Len(Tail(q)) : Tail(q)[i] = q[i + 1]
BY HeadTailProperties, EmptySeq, LenProperties

(* A queue with more at its end: what is new but last has a tag of T.      *)
Grows(q, r, T, last) ==
  /\ r \in Seq(Updates) /\ Len(q) \in Nat /\ Len(r) \in Nat /\ Len(r) > Len(q)
  /\ \A i \in 1..Len(q) : r[i] = q[i]
  /\ \A i \in 1..Len(r) : i > Len(q) /\ i < Len(r) => r[i].tag \in T
  /\ r[Len(r)] = last

LEMMA GrowsByOne ==
  ASSUME NEW q \in Seq(Updates), NEW u \in Updates
  PROVE  Grows(q, Append(q, u), {}, u) /\ Grows(q, q \o <<u>>, {}, u)
<1>1. Append(q, u) = q \o <<u>>
  BY AppendIsConcat
<1>2. Grows(q, Append(q, u), {}, u)
  BY AppendProperties, LenProperties DEF Grows
<1> QED
  BY <1>1, <1>2

LEMMA GrowsByTwo ==
  ASSUME NEW q \in Seq(Updates), NEW t \in Updates, NEW u \in Updates
  PROVE  Grows(q, q \o <<t, u>>, {t.tag}, u)
<1> DEFINE r == q \o <<t, u>>
           p == <<t, u>>
<1>1. p \in Seq(Updates) /\ Len(p) = 2 /\ p[1] = t /\ p[2] = u
  OBVIOUS
<1> HIDE DEF p
<1>2. /\ q \o p \in Seq(Updates) /\ Len(q \o p) = Len(q) + 2 /\ Len(q) \in Nat
      /\ \A i \in 1..Len(q) + 2 : (q \o p)[i] = IF i <= Len(q) THEN q[i] ELSE p[i - Len(q)]
  BY <1>1, ConcatProperties, LenProperties
<1>3. \A i \in 1..Len(q) : (q \o p)[i] = q[i]
  BY <1>2
<1>4. (q \o p)[Len(q) + 1] = t /\ (q \o p)[Len(q) + 2] = u
  BY <1>1, <1>2
<1>5. Grows(q, q \o p, {t.tag}, u)
  BY <1>2, <1>3, <1>4 DEF Grows
<1> QED
  BY <1>5 DEF p

LEMMA PlainUpdates ==
  /\ \A t \in ViewUpdates : Plain(t) \in Updates /\ Plain(t).tag = t
  /\ Msg("pin_not_set", Unknown, "too_long") \in Updates
  /\ Msg("failed", Unknown, "choice_failed") \in Updates
BY DEF Plain, Msg, Updates, Whys, Unknown, Reasons, ViewUpdates

LEMMA InitiatedGrows ==
  ASSUME WinTypes, Initiated
  PROVE  Grows(winUpdates, winUpdates', {"title"}, Plain("devices"))
<1>1. Plain("title") \in Updates /\ Plain("devices") \in Updates /\ Plain("title").tag = "title"
  BY PlainUpdates DEF ViewUpdates
<1>2. winUpdates \in Seq(Updates) /\ winUpdates' = winUpdates \o <<Plain("title"), Plain("devices")>>
  BY DEF WinTypes, Initiated
<1> QED
  BY <1>1, <1>2, GrowsByTwo

(* The event loop takes a call and makes its updates.                      *)
LEMMA LoopTranslates ==
  ASSUME WinTypes, BackgroundEvent
  PROVE  \E s \in SentStates :
           /\ winWire[1] = OnWire(BackgroundEventOf(s))
           /\ winWire[1].method = IF s.tag \in ServiceErrors THEN "error" ELSE s.tag
           /\ Grows(winUpdates, winUpdates', {"waiting_phone"}, LastUpdate(s))
<1>1. winWire \in Seq(Told) /\ winWire # <<>> /\ winUpdates \in Seq(Updates)
  BY DEF WinTypes, BackgroundEvent
<1>2. Head(winWire) = winWire[1] /\ winWire[1] \in Told
  BY <1>1, Taken
<1>3. PICK s \in SentStates : winWire[1] = OnWire(BackgroundEventOf(s))
  BY <1>2 DEF Told
<1>4. s \in Messages
  BY DEF SentStates
<1>5. winWire[1].method = IF s.tag \in ServiceErrors THEN "error" ELSE s.tag
  BY <1>3, <1>4, CallOf
<1>6. winUpdates' = winUpdates \o UpdatesOf(Heard(s))
  BY <1>2, <1>3, <1>4, RoundTrip DEF BackgroundEvent
<1>7. LastUpdate(s) \in Updates
  BY HeardTypes
<1>8. CASE UpdatesOf(Heard(s)) = <<LastUpdate(s)>>
  <2>1. Grows(winUpdates, winUpdates', {}, LastUpdate(s))
    BY <1>1, <1>6, <1>7, <1>8, GrowsByOne
  <2>2. Grows(winUpdates, winUpdates', {"waiting_phone"}, LastUpdate(s))
    BY <2>1 DEF Grows
  <2> QED
    BY <1>3, <1>5, <2>2
<1>9. CASE UpdatesOf(Heard(s)) = <<Plain("waiting_phone"), LastUpdate(s)>>
  <2>1. Plain("waiting_phone") \in Updates /\ Plain("waiting_phone").tag = "waiting_phone"
    BY PlainUpdates DEF ViewUpdates
  <2>2. Grows(winUpdates, winUpdates', {"waiting_phone"}, LastUpdate(s))
    BY <1>1, <1>6, <1>7, <1>9, <2>1, GrowsByTwo
  <2> QED
    BY <1>3, <1>5, <2>2
<1> QED
  BY <1>8, <1>9, HeardTypes

LEMMA Takes ==
  ASSUME WinTypes, NEW k, TakesEntry(k)
  PROVE  /\ winEntries' \in Seq(Entries) /\ UNCHANGED winCommits
         /\ winLoop = "running" /\ winEntries[1] = k /\ Len(winEntries) >= 1
         /\ Len(winEntries) \in Nat /\ Len(winEntries') = Len(winEntries) - 1
         /\ \A i \in 1..Len(winEntries') : winEntries'[i] = winEntries[i + 1]
<1>1. winEntries \in Seq(Entries) /\ winEntries # <<>> /\ winEntries' = Tail(winEntries)
  BY DEF WinTypes, TakesEntry
<1>2. Head(winEntries) = k /\ winLoop = "running" /\ UNCHANGED winCommits
  BY DEF TakesEntry
<1> QED
  BY <1>1, <1>2, Taken

LEMMA Enters ==
  ASSUME WinTypes, NEW k \in Entries \ {"initiated"}, winEntries' = Arriving(winEntries, k)
  PROVE  /\ winEntries' \in Seq(Entries)
         /\ \A i \in 1..Len(winEntries') : winEntries'[i] = "initiated" =>
              i \in 1..Len(winEntries) /\ winEntries[i] = "initiated"
<1>1. winEntries \in Seq(Entries) /\ k \in Entries
  BY DEF WinTypes
<1>2. CASE winLoop = "ended"
  BY <1>1, <1>2 DEF Arriving
<1>3. CASE winLoop # "ended"
  <2>1. winEntries' = Append(winEntries, k)
    BY <1>3 DEF Arriving
  <2>2. /\ winEntries' \in Seq(Entries) /\ Len(winEntries') = Len(winEntries) + 1
        /\ \A i \in 1..Len(winEntries) : winEntries'[i] = winEntries[i]
        /\ winEntries'[Len(winEntries) + 1] = k /\ Len(winEntries) \in Nat
    BY <1>1, <2>1, AppendProperties, LenProperties
  <2> QED
    BY <2>2
<1> QED
  BY <1>2, <1>3

(* A state that the window is told of goes to the end of the wire.         *)
LEMMA SendableStates == \A s \in Sendable : s \in Messages
<1> SUFFICES ASSUME NEW s \in Sendable PROVE s \in Messages
  OBVIOUS
<1> USE DEF Messages, Plain, Msg, Unknown
<1>1. -1 \in 0..MaxU32 \cup {-1}
  OBVIOUS
<1>2. CASE s \in KeyPrompts
  BY <1>2, WindowAssumption DEF KeyPrompts, Reasons
<1>3. CASE s \notin KeyPrompts
  BY <1>1, <1>3 DEF Sendable, UsbIdling, PhoneStates, Ends, ServiceErrors
<1> QED
  BY <1>2, <1>3

LEMMA Tells ==
  ASSUME WinTypes, NEW s \in Sendable, SendStateUpdate(s)
  PROVE  \/ s.tag \in UsbIdling /\ UNCHANGED <<winPhase, winLast, winWire>>
         \/ /\ s \in SentStates /\ winLast' = s /\ winPhase' = PhaseAfter(s)
            /\ winLoop = "ended" /\ winWire' = winWire
         \/ /\ s \in SentStates /\ winLast' = s /\ winPhase' = PhaseAfter(s)
            /\ winLoop # "ended"
            /\ winWire' \in Seq(Told) /\ winWire' # <<>>
            /\ Len(winWire) \in Nat /\ Len(winWire') = Len(winWire) + 1
            /\ \A i \in 1..Len(winWire) : winWire'[i] = winWire[i]
            /\ winWire'[Len(winWire) + 1] = OnWire(BackgroundEventOf(s))
            /\ winWire'[Len(winWire) + 1].method
                 = IF s.tag \in ServiceErrors THEN "error" ELSE s.tag
<1> DEFINE e == BackgroundEventOf(s)
<1>1. s \in Messages
  BY SendableStates
<1>2. NotSent(e) <=> s.tag \in UsbIdling
  BY DEF NotSent, BackgroundEventOf, UsbIdling, Plain, Msg
<1>3. winPhase' = PhaseAfter(s)
  BY DEF SendStateUpdate
<1> HIDE DEF e
<1>4. CASE s.tag \in UsbIdling
  <2>1. UNCHANGED <<winLast, winWire>>
    BY <1>2, <1>4 DEF SendStateUpdate, e
  <2>2. PhaseAfter(s) = winPhase
    BY <1>4 DEF PhaseAfter, UsbIdling, Ends, ServiceErrors
  <2> QED
    BY <1>3, <1>4, <2>1, <2>2
<1>5. CASE s.tag \notin UsbIdling
  <2>1. winLast' = s /\ winWire' = Arriving(winWire, OnWire(e))
    BY <1>2, <1>5 DEF SendStateUpdate, e
  <2>2. s \in SentStates
    BY <1>1, <1>5 DEF SentStates
  <2>3. OnWire(e) \in Told
    BY <2>2 DEF Told, e
  <2>4. CASE winLoop = "ended"
    BY <1>3, <2>1, <2>2, <2>4 DEF Arriving
  <2>5. CASE winLoop # "ended"
    <3>1. winWire' = Append(winWire, OnWire(e)) /\ winWire \in Seq(Told)
      BY <2>1, <2>5 DEF Arriving, WinTypes
    <3>2. /\ winWire' \in Seq(Told) /\ winWire' # <<>>
          /\ Len(winWire) \in Nat /\ Len(winWire') = Len(winWire) + 1
          /\ \A i \in 1..Len(winWire) : winWire'[i] = winWire[i]
          /\ winWire'[Len(winWire) + 1] = OnWire(e)
      BY <2>3, <3>1, AppendProperties, LenProperties
    <3>3. OnWire(e).method = IF s.tag \in ServiceErrors THEN "error" ELSE s.tag
      BY <1>1, CallOf DEF e
    <3> QED
      BY <1>3, <2>1, <2>2, <2>5, <3>2, <3>3 DEF e
  <2> QED
    BY <2>4, <2>5
<1> QED
  BY <1>4, <1>5

----
(* The types.                                                              *)

LEMMA WindowInitTypes == WindowInit => WinTypes
<1> SUFFICES ASSUME WindowInit PROVE WinTypes
  OBVIOUS
<1>1. <<>> \in Seq(Told) /\ <<>> \in Seq(Updates) /\ Len(<<>>) = 0
  BY EmptySeq
<1>2. <<"initiated">> \in Seq(Entries)
  BY DEF Entries
<1>3. winSent \in 0..MaxSent /\ winCommits \in 0..MaxCommits
  BY WindowAssumption DEF WindowInit
<1>4. winLast \in Messages
  BY DEF WindowInit, Messages, Plain, Msg, Unknown, UsbIdling
<1> HIDE DEF WindowAssumption
<1>5. DOMAIN winScreen = ScreenFields /\ winScreen.page \in Pages
      /\ winScreen.pinEntry \in BOOLEAN /\ winScreen.setPinButton \in BOOLEAN
  BY DEF WindowInit, FirstScreen, ScreenFields, Pages
<1>6. winWire \in Seq(Told) /\ winUpdates \in Seq(Updates) /\ Len(winWire) <= winSent
  BY <1>1 DEF WindowInit
<1>7. winEntries \in Seq(Entries)
  BY <1>2 DEF WindowInit
<1>8. /\ winPhase \in Phases /\ winLoop = "running" /\ winState = "open"
      /\ winTimer = FALSE /\ winLocal = FALSE
  BY DEF WindowInit, Phases
<1> QED
  BY <1>3, <1>4, <1>5, <1>6, <1>7, <1>8 DEF WinTypes

LEMMA WindowTypesStep == WinTypes /\ [WindowNext]_winVars => WinTypes'
<1> SUFFICES ASSUME WinTypes, [WindowNext]_winVars PROVE WinTypes'
  OBVIOUS
<1> USE DEF winDaemon, winUser, winShown
<1>1. ASSUME NEW s \in Sendable, SendStateUpdate(s) PROVE WinTypes'
  <2>1. /\ winSent' = winSent + 1 /\ winSent < MaxSent /\ winPhase' = PhaseAfter(s)
        /\ UNCHANGED <<winUser, winLoop, winUpdates, winShown, winState, winLocal>>
    BY <1>1 DEF SendStateUpdate
  <2>2. winPhase' \in Phases
    BY <2>1 DEF PhaseAfter, WinTypes, Phases, Ends, ServiceErrors
  <2>3. winSent' \in 0..MaxSent /\ winSent \in Nat
    BY <2>1, WindowAssumption DEF WinTypes
  <2>4. winLast' \in Messages /\ winWire' \in Seq(Told) /\ Len(winWire') <= winSent'
    <3>1. winLast \in Messages /\ winWire \in Seq(Told) /\ Len(winWire) <= winSent
          /\ Len(winWire) \in Nat
      BY LenProperties DEF WinTypes
    <3>2. CASE winWire' = winWire
      <4>1. winLast' \in Messages
        BY <1>1, <3>1, Tells DEF SentStates
      <4> QED
        BY <2>1, <2>3, <3>1, <3>2, <4>1
    <3>3. CASE winWire' # winWire
      <4>1. winLast' \in Messages /\ winWire' \in Seq(Told) /\ Len(winWire') = Len(winWire) + 1
        BY <1>1, <3>3, Tells DEF SentStates
      <4> QED
        BY <2>1, <2>3, <3>1, <4>1
    <3> QED
      BY <3>2, <3>3
  <2> QED
    BY <2>1, <2>2, <2>3, <2>4 DEF WinTypes
<1>2. CASE Initiated
  <2>1. TakesEntry("initiated") /\ winPhase' = "finding"
        /\ UNCHANGED <<winLast, winSent, winWire, winLoop, winShown, winState, winLocal>>
    BY <1>2 DEF Initiated
  <2>2. winUpdates' \in Seq(Updates)
    BY <1>2, InitiatedGrows DEF Grows
  <2>3. winEntries' \in Seq(Entries) /\ UNCHANGED winCommits
    BY <2>1, Takes
  <2> QED
    BY <2>1, <2>2, <2>3 DEF WinTypes, Phases
<1>3. CASE EntryGoesOn
  <2>1. winEntries' \in Seq(Entries) /\ UNCHANGED winCommits
    BY <1>3, Takes DEF EntryGoesOn
  <2> QED
    BY <1>3, <2>1 DEF EntryGoesOn, WinTypes
<1>4. CASE LongPinRefused
  <2>1. winEntries' \in Seq(Entries) /\ UNCHANGED winCommits
    BY <1>4, Takes DEF LongPinRefused
  <2>2. winUpdates' \in Seq(Updates)
    <3>1. winUpdates \in Seq(Updates)
          /\ winUpdates' = Append(winUpdates, Msg("pin_not_set", Unknown, "too_long"))
      BY <1>4 DEF LongPinRefused, WinTypes
    <3> QED
      BY <3>1, PlainUpdates, AppendProperties
  <2> QED
    BY <1>4, <2>1, <2>2 DEF LongPinRefused, WinTypes
<1>16. CASE ChoiceFails
  <2>1. winEntries' \in Seq(Entries) /\ UNCHANGED winCommits
    BY <1>16, Takes DEF ChoiceFails
  <2>2. winUpdates' \in Seq(Updates)
    <3>1. winUpdates \in Seq(Updates)
          /\ winUpdates' = Append(winUpdates, Msg("failed", Unknown, "choice_failed"))
      BY <1>16 DEF ChoiceFails, WinTypes
    <3> QED
      BY <3>1, PlainUpdates, AppendProperties
  <2> QED
    BY <1>16, <2>1, <2>2 DEF ChoiceFails, WinTypes
<1>5. CASE UserCancels
  <2>1. winEntries' \in Seq(Entries) /\ UNCHANGED winCommits
    BY <1>5, Takes DEF UserCancels
  <2>2. winUpdates' \in Seq(Updates)
    <3>1. winUpdates \in Seq(Updates) /\ winUpdates' = Append(winUpdates, Plain("cancelled"))
      BY <1>5 DEF UserCancels, WinTypes
    <3>2. Plain("cancelled") \in Updates
      BY PlainUpdates DEF ViewUpdates
    <3> QED
      BY <3>1, <3>2, AppendProperties
  <2> QED
    BY <1>5, <2>1, <2>2 DEF UserCancels, WinTypes
<1>6. CASE BackgroundEvent
  <2>1. winUpdates' \in Seq(Updates)
    BY <1>6, LoopTranslates DEF Grows
  <2>2. winWire \in Seq(Told) /\ winWire # <<>> /\ winWire' = Tail(winWire) /\ UNCHANGED winSent
        /\ Len(winWire) <= winSent /\ winSent \in Nat
    BY <1>6, WindowAssumption DEF BackgroundEvent, WinTypes
  <2>3. winWire' \in Seq(Told) /\ Len(winWire') = Len(winWire) - 1 /\ Len(winWire) \in Nat
    BY <2>2, Taken
  <2>4. Len(winWire') <= winSent'
    BY <2>2, <2>3
  <2> QED
    BY <1>6, <2>1, <2>3, <2>4 DEF BackgroundEvent, WinTypes
<1>7. CASE DropLoop
  <2>1. <<>> \in Seq(Told) /\ <<>> \in Seq(Entries) /\ Len(<<>>) = 0
    BY EmptySeq
  <2>2. winWire' = <<>> /\ winEntries' = <<>> /\ winLoop' = "ended"
        /\ UNCHANGED <<winDaemon, winCommits, winUpdates, winShown, winState, winLocal>>
    BY <1>7 DEF DropLoop
  <2>3. 0 <= winSent
    BY WindowAssumption DEF WinTypes
  <2> QED
    BY <2>1, <2>2, <2>3 DEF WinTypes
<1>8. CASE HandleUpdate
  <2>1. /\ winUpdates \in Seq(Updates) /\ winUpdates # <<>> /\ winUpdates' = Tail(winUpdates)
        /\ winScreen' = Handled(Head(winUpdates), winScreen)
        /\ DOMAIN winScreen = ScreenFields /\ winScreen.page \in Pages
    BY <1>8 DEF HandleUpdate, WinTypes
  <2>2. Head(winUpdates) \in Updates /\ winUpdates' \in Seq(Updates)
    BY <2>1, Taken
  <2>3. /\ DOMAIN winScreen' = ScreenFields
        /\ winScreen'.page = PageAfter(Head(winUpdates).tag, winScreen.page)
        /\ winScreen'.pinEntry \in BOOLEAN /\ winScreen'.setPinButton \in BOOLEAN
    BY <2>1, <2>2, HandledPage
  <2>4. winScreen'.page \in Pages
    BY <2>1, <2>3 DEF PageAfter, Pages
  <2>5. winTimer' \in BOOLEAN /\ winState' \in {"open", "closing", "closed"}
    BY <1>8 DEF HandleUpdate, WinTypes
  <2> QED
    BY <1>8, <2>2, <2>3, <2>4, <2>5 DEF HandleUpdate, WinTypes
<1>9. CASE UpdatesEnd
  BY <1>9 DEF UpdatesEnd, WinTypes
<1>10. CASE Close
  <2>1. winEntries' \in Seq(Entries)
    BY <1>10, Enters DEF Close, Entries
  <2> QED
    BY <1>10, <2>1 DEF Close, WinTypes
<1>11. ASSUME NEW k \in Entries \ {"initiated"}, winEntries' = Arriving(winEntries, k),
              winCommits < MaxCommits, winCommits' = winCommits + 1,
              UNCHANGED <<winDaemon, winWire, winLoop, winUpdates, winShown, winState, winLocal>>
       PROVE WinTypes'
  <2>1. winEntries' \in Seq(Entries)
    BY <1>11, Enters
  <2>2. winCommits' \in 0..MaxCommits
    BY <1>11, WindowAssumption DEF WinTypes
  <2> QED
    BY <1>11, <2>1, <2>2 DEF WinTypes
<1>12. CASE StartSettingNewPin
  BY <1>12 DEF StartSettingNewPin, WinTypes, ScreenFields, Pages
<1>13. CASE UNCHANGED winVars
  BY <1>13 DEF winVars, WinTypes
<1>14. SessionStops => WinTypes'
  BY <1>11 DEF SessionStops, Entries
<1>15. ASSUME NEW k \in {"pin", "new_pin", "long_pin", "credential"}, UserEnters(k) PROVE WinTypes'
  BY <1>11, <1>15 DEF UserEnters, Entries
<1> QED
  BY <1>1, <1>2, <1>3, <1>4, <1>5, <1>6, <1>7, <1>8, <1>9, <1>10, <1>12, <1>13, <1>14, <1>15,
     <1>16
     DEF WindowNext, LoopPanics, LoopEnds, CancelEventLoop, CloseAfterTimer, CloseCancelled

(* No fairness is needed for the types.                                    *)
LEMMA WindowTypesKept == WindowInit /\ [][WindowNext]_winVars => []WindowTypeOK
<1>1. WinTypes => WindowTypeOK
  <2> SUFFICES ASSUME WinTypes PROVE WindowTypeOK
    OBVIOUS
  <2>1. \A i \in DOMAIN winUpdates : winUpdates[i].tag \in ViewUpdates
    <3>1. \A i \in DOMAIN winUpdates : winUpdates[i] \in Updates
      BY DEF WinTypes
    <3> QED
      BY <3>1 DEF Updates
  <2> QED
    BY <2>1 DEF WinTypes, WindowTypeOK, Phases, Entries
<1> QED
  BY <1>1, WindowInitTypes, WindowTypesStep, PTL

(* The window's variables have their types; no update reaches it that it   *)
(* does not know (gui/view_model/gtk/mod.rs).                              *)
THEOREM WindowTypeCorrect == WindowSpec => []WindowTypeOK
BY WindowTypesKept, PTL DEF WindowSpec

----
(* The PIN entry.                                                          *)

(* What shows the screen another face.                                     *)
LEMMA ScreenChanges ==
  ASSUME WinTypes, [WindowNext]_winVars
  PROVE  \/ UNCHANGED winScreen
         \/ HandleUpdate
         \/ StartSettingNewPin
BY DEF WindowNext, winVars, winShown, winUser, winDaemon, SendStateUpdate, Initiated, EntryGoesOn,
   LongPinRefused, ChoiceFails, UserCancels, BackgroundEvent, LoopPanics, LoopEnds, DropLoop,
   UpdatesEnd, CloseAfterTimer, CloseCancelled, Close, CancelEventLoop, SessionStops, UserEnters

(* The update that the window handles.                                     *)
LEMMA Handles ==
  ASSUME WinTypes, HandleUpdate
  PROVE  /\ winUpdates[1] \in Updates /\ Len(winUpdates) \in Nat /\ Len(winUpdates) >= 1
         /\ Len(winUpdates') = Len(winUpdates) - 1
         /\ \A i \in 1..Len(winUpdates') : winUpdates'[i] = winUpdates[i + 1]
         /\ winScreen' = Handled(winUpdates[1], winScreen)
         /\ DOMAIN winScreen = ScreenFields
         /\ winScreen'.page = PageAfter(winUpdates[1].tag, winScreen.page)
         /\ winScreen'.pinEntry = (winUpdates[1].tag = "needs_pin")
         /\ winScreen'.setPinButton = (winUpdates[1].tag = "pin_not_set")
<1>1. /\ winUpdates \in Seq(Updates) /\ winUpdates # <<>> /\ winUpdates' = Tail(winUpdates)
      /\ winScreen' = Handled(Head(winUpdates), winScreen)
      /\ DOMAIN winScreen = ScreenFields
  BY DEF HandleUpdate, WinTypes
<1>2. /\ Head(winUpdates) = winUpdates[1] /\ winUpdates[1] \in Updates
      /\ Len(winUpdates) \in Nat /\ Len(winUpdates) >= 1
      /\ Len(winUpdates') = Len(winUpdates) - 1
      /\ \A i \in 1..Len(winUpdates') : winUpdates'[i] = winUpdates[i + 1]
  BY <1>1, Taken
<1> QED
  BY <1>1, <1>2, HandledPage

LEMMA PinEntryStep ==
  WinTypes /\ PinEntryOnItsPage /\ [WindowNext]_winVars => PinEntryOnItsPage'
<1> SUFFICES ASSUME WinTypes, PinEntryOnItsPage, [WindowNext]_winVars PROVE PinEntryOnItsPage'
  OBVIOUS
<1>1. CASE UNCHANGED winScreen
  BY <1>1 DEF PinEntryOnItsPage
<1>2. CASE HandleUpdate
  <2>1. CASE winUpdates[1].tag = "needs_pin"
    <3>1. winScreen'.page = "usb_or_nfc"
      BY <1>2, <2>1, Handles DEF PageAfter
    <3>2. winScreen'.prompt = Text("enter_pin", winUpdates[1].n)
      BY <1>2, <2>1, Handles DEF Handled, Cleared, ScreenFields
    <3> QED
      BY <3>1, <3>2 DEF PinEntryOnItsPage, Text
  <2>2. CASE winUpdates[1].tag # "needs_pin"
    BY <1>2, <2>2, Handles DEF PinEntryOnItsPage
  <2> QED
    BY <2>1, <2>2
<1>3. CASE StartSettingNewPin
  BY <1>3 DEF StartSettingNewPin, PinEntryOnItsPage, WinTypes, ScreenFields
<1> QED
  BY <1>1, <1>2, <1>3, ScreenChanges

(* The PIN entry is never on the screen without the prompt for the PIN on  *)
(* the page that holds both (handle_update and the window's handlers,      *)
(* gui/view_model/gtk/mod.rs).                                             *)
THEOREM PinEntriesAreOnTheirPage == WindowSpec => []PinEntryOnItsPage
<1>1. WindowInit => PinEntryOnItsPage
  <2>1. FirstScreen.pinEntry = FALSE
    BY DEF FirstScreen
  <2> QED
    BY <2>1 DEF WindowInit, PinEntryOnItsPage
<1> QED
  BY <1>1, WindowInitTypes, WindowTypesStep, PinEntryStep, PTL DEF WindowSpec

----
(* The phases of a key.                                                    *)

LEMMA SendablePhases ==
  ASSUME NEW s \in Sendable
  PROVE  /\ winPhase \notin {"undiscovered", "over"}
         /\ s.tag \in {"needs_up", "needs_uv", "credentials"} => winPhase = "asking"
<1> USE DEF Sendable, UsbIdling, PhoneStates, Ends, ServiceErrors, Plain, Msg
<1>1. CASE s \in KeyPrompts
  BY <1>1 DEF KeyPrompts
<1>2. CASE s \notin KeyPrompts
  BY <1>2
<1> QED
  BY <1>1, <1>2

LEMMA PhaseStep == WinTypes /\ PhaseInv /\ [WindowNext]_winVars => PhaseInv'
<1> SUFFICES ASSUME WinTypes, PhaseInv, [WindowNext]_winVars PROVE PhaseInv'
  OBVIOUS
<1> USE DEF winDaemon, winUser, winShown
<1>1. ASSUME NEW s \in Sendable, SendStateUpdate(s) PROVE PhaseInv'
  <2>1. winPhase \notin {"undiscovered", "over"} /\ UNCHANGED winEntries
    BY <1>1, SendablePhases DEF SendStateUpdate
  <2>2. CASE UNCHANGED <<winPhase, winLast>>
    BY <2>1, <2>2 DEF PhaseInv
  <2>3. CASE s \in SentStates /\ winLast' = s /\ winPhase' = PhaseAfter(s)
    <3>1. winPhase' # "undiscovered"
      BY <2>1, <2>3 DEF PhaseAfter, Ends, ServiceErrors
    <3>2. s.tag \in {"needs_up", "needs_uv"} => winPhase' = "asking"
      BY <2>3, SendablePhases DEF PhaseAfter, Ends, ServiceErrors
    <3> QED
      BY <2>1, <2>3, <3>1, <3>2 DEF PhaseInv, SentStates
  <2> QED
    BY <1>1, <2>2, <2>3, Tells
<1>2. CASE Initiated
  <2>1. TakesEntry("initiated") /\ winPhase' = "finding" /\ UNCHANGED winLast
    BY <1>2 DEF Initiated
  <2>2. /\ winEntries[1] = "initiated" /\ Len(winEntries) >= 1 /\ Len(winEntries) \in Nat
        /\ Len(winEntries') = Len(winEntries) - 1
        /\ \A i \in 1..Len(winEntries') : winEntries'[i] = winEntries[i + 1]
    BY <2>1, Takes
  <2>3. winPhase = "undiscovered" /\ winLast = Plain("idle")
    BY <2>2 DEF PhaseInv
  <2>4. \A i \in 1..Len(winEntries') : winEntries'[i] # "initiated"
    BY <2>2 DEF PhaseInv
  <2> QED
    BY <2>1, <2>3, <2>4 DEF PhaseInv, Plain, Msg
<1>3. ASSUME NEW k \in Entries \ {"initiated"}, TakesEntry(k), UNCHANGED winDaemon
      PROVE PhaseInv'
  <2>1. /\ winEntries[1] = k /\ Len(winEntries) >= 1 /\ Len(winEntries) \in Nat
        /\ Len(winEntries') = Len(winEntries) - 1
        /\ \A i \in 1..Len(winEntries') : winEntries'[i] = winEntries[i + 1]
    BY <1>3, Takes
  <2>2. \A i \in 1..Len(winEntries') : winEntries'[i] # "initiated"
    BY <2>1 DEF PhaseInv
  <2> QED
    BY <1>3, <2>2 DEF PhaseInv
<1>4. EntryGoesOn \/ LongPinRefused \/ ChoiceFails \/ UserCancels => PhaseInv'
  BY <1>3 DEF EntryGoesOn, LongPinRefused, ChoiceFails, UserCancels, Entries
<1>5. CASE DropLoop
  BY <1>5, EmptySeq DEF DropLoop, PhaseInv
<1>6. ASSUME NEW k \in Entries \ {"initiated"}, winEntries' = Arriving(winEntries, k),
             UNCHANGED winDaemon
      PROVE PhaseInv'
  BY <1>6, Enters DEF PhaseInv
<1>7. Close \/ SessionStops => PhaseInv'
  BY <1>6 DEF Close, SessionStops, Entries
<1>8. ASSUME NEW k \in {"pin", "new_pin", "long_pin", "credential"}, UserEnters(k)
      PROVE PhaseInv'
  BY <1>6, <1>8 DEF UserEnters, Entries
<1>9. CASE UNCHANGED <<winDaemon, winEntries>>
  BY <1>9 DEF PhaseInv
<1>10. BackgroundEvent \/ HandleUpdate \/ UpdatesEnd \/ StartSettingNewPin \/ UNCHANGED winVars
         => UNCHANGED <<winDaemon, winEntries>>
  BY DEF BackgroundEvent, HandleUpdate, UpdatesEnd, StartSettingNewPin, winVars
<1> QED
  BY <1>1, <1>2, <1>4, <1>5, <1>7, <1>8, <1>9, <1>10
     DEF WindowNext, LoopPanics, LoopEnds, CancelEventLoop, CloseAfterTimer, CloseCancelled

----
(* Completion.                                                             *)

(* The parts of DoneInv, while no entry was refused by the event loop.     *)
NothingFollows ==
  \A j \in 1..Len(winUpdates) : winUpdates[j].tag = "cancelled"

DoneOnWire ==
  \A i \in 1..Len(winWire) :
    winWire[i].method = "completed" => i = Len(winWire) /\ winPhase = "over"

DoneUnderWay ==
  \A i \in 1..Len(winUpdates) :
    winUpdates[i].tag = "completed" =>
      /\ winPhase = "over" /\ winWire = <<>>
      /\ \A j \in 1..Len(winUpdates) : j > i => winUpdates[j].tag = "cancelled"

DoneShown == winScreen.page = "completed" => winPhase = "over" /\ winWire = <<>> /\ NothingFollows

LEMMA DoneParts ==
  /\ DoneInv <=> (~winLocal => DoneOnWire /\ DoneUnderWay /\ DoneShown)
  /\ DoneInv' <=> (~winLocal' => DoneOnWire' /\ DoneUnderWay' /\ DoneShown')
BY DEF DoneInv, DoneOnWire, DoneUnderWay, DoneShown, NothingFollows

LEMMA LastUpdateTag ==
  ASSUME NEW s \in SentStates
  PROVE  LastUpdate(s).tag = IF s.tag = "connected" THEN "waiting_usb"
                             ELSE IF s.tag \in ServiceErrors THEN "failed" ELSE s.tag
BY DEF LastUpdate, Heard, Plain, Msg, ServiceErrors

(* Nothing is changed that DoneInv speaks of.                              *)
LEMMA DoneUntouched ==
  ASSUME DoneInv, UNCHANGED <<winPhase, winWire, winUpdates, winScreen, winLocal>>
  PROVE  DoneInv'
BY DEF DoneInv

LEMMA DoneSends ==
  ASSUME WinTypes, DoneInv, ~winLocal, NEW s \in Sendable, SendStateUpdate(s)
  PROVE  DoneInv'
<1>1. winPhase # "over" /\ UNCHANGED <<winLoop, winUpdates, winScreen, winLocal>>
  BY SendablePhases DEF SendStateUpdate, winShown
<1>2. DoneOnWire /\ DoneUnderWay /\ DoneShown
  BY DoneParts
<1>3. /\ \A i \in 1..Len(winWire) : winWire[i].method # "completed"
      /\ \A i \in 1..Len(winUpdates) : winUpdates[i].tag # "completed"
      /\ winScreen.page # "completed"
  BY <1>1, <1>2 DEF DoneOnWire, DoneUnderWay, DoneShown
<1>4. DoneUnderWay' /\ DoneShown'
  BY <1>1, <1>3 DEF DoneUnderWay, DoneShown
<1>5. DoneOnWire'
  <2>1. CASE winWire' = winWire
    BY <1>3, <2>1 DEF DoneOnWire
  <2>2. CASE winWire' # winWire
    <3>1. /\ winPhase' = PhaseAfter(s) /\ Len(winWire) \in Nat /\ Len(winWire') = Len(winWire) + 1
          /\ \A i \in 1..Len(winWire) : winWire'[i] = winWire[i]
          /\ winWire'[Len(winWire) + 1].method
               = IF s.tag \in ServiceErrors THEN "error" ELSE s.tag
      BY <2>2, Tells
    <3>2. s.tag = "completed" => winPhase' = "over"
      BY <3>1 DEF PhaseAfter, Ends, ServiceErrors
    <3>3. winWire'[Len(winWire')].method = "completed" => winPhase' = "over"
      BY <3>1, <3>2
    <3>4. ASSUME NEW i \in 1..Len(winWire'), i # Len(winWire')
          PROVE  winWire'[i].method # "completed"
      BY <1>3, <3>1, <3>4
    <3> QED
      BY <3>3, <3>4 DEF DoneOnWire
  <2> QED
    BY <2>1, <2>2
<1> QED
  BY <1>4, <1>5, DoneParts

LEMMA DoneTranslates ==
  ASSUME WinTypes, DoneInv, ~winLocal, BackgroundEvent
  PROVE  DoneInv'
<1>1. /\ winWire \in Seq(Told) /\ winWire # <<>> /\ winWire' = Tail(winWire)
      /\ UNCHANGED <<winPhase, winScreen, winLocal>>
  BY DEF WinTypes, BackgroundEvent, winShown, winDaemon
<1>2. /\ Len(winWire) \in Nat /\ Len(winWire) >= 1 /\ Len(winWire') = Len(winWire) - 1
      /\ \A i \in 1..Len(winWire') : winWire'[i] = winWire[i + 1]
      /\ winWire' \in Seq(Told)
  BY <1>1, Taken
<1>3. DoneOnWire /\ DoneUnderWay /\ DoneShown
  BY DoneParts
<1>4. /\ \A i \in 1..Len(winUpdates) : winUpdates[i].tag # "completed"
      /\ winScreen.page # "completed"
  BY <1>1, <1>3 DEF DoneUnderWay, DoneShown
<1>5. DoneOnWire'
  <2> SUFFICES ASSUME NEW i \in 1..Len(winWire'), winWire'[i].method = "completed"
               PROVE  i = Len(winWire') /\ winPhase' = "over"
    BY DEF DoneOnWire
  <2>1. i + 1 \in 1..Len(winWire) /\ winWire'[i] = winWire[i + 1] /\ i \in Int
    BY <1>2
  <2>2. i + 1 = Len(winWire) /\ winPhase = "over"
    BY <1>3, <2>1 DEF DoneOnWire
  <2>3. i = Len(winWire')
    BY <1>2, <2>1, <2>2
  <2>4. winPhase' = winPhase
    BY <1>1
  <2> QED
    BY <2>2, <2>3, <2>4
<1>6. DoneShown'
  BY <1>1, <1>4 DEF DoneShown
<1>7. DoneUnderWay'
  <2>1. PICK s \in SentStates :
          /\ winWire[1].method = IF s.tag \in ServiceErrors THEN "error" ELSE s.tag
          /\ Grows(winUpdates, winUpdates', {"waiting_phone"}, LastUpdate(s))
    BY LoopTranslates
  <2>2. ASSUME NEW i \in 1..Len(winUpdates'), winUpdates'[i].tag = "completed"
        PROVE  i = Len(winUpdates') /\ LastUpdate(s).tag = "completed"
    BY <1>4, <2>1, <2>2 DEF Grows
  <2>3. LastUpdate(s).tag = "completed" => winWire[1].method = "completed"
    BY <2>1, LastUpdateTag DEF ServiceErrors
  <2>4. winWire[1].method = "completed" => winPhase = "over" /\ Len(winWire') = 0
    BY <1>2, <1>3 DEF DoneOnWire
  <2>5. Len(winWire') = 0 => winWire' = <<>>
    BY <1>2, EmptySeq
  <2>6. Len(winUpdates') \in Nat
    BY <2>1 DEF Grows
  <2> QED
    BY <1>1, <2>2, <2>3, <2>4, <2>5, <2>6 DEF DoneUnderWay
<1> QED
  BY <1>5, <1>6, <1>7, DoneParts

LEMMA DoneHandles ==
  ASSUME WinTypes, DoneInv, ~winLocal, HandleUpdate
  PROVE  /\ DoneInv'
         /\ winScreen.page = "completed" => winScreen'.page = "completed"
<1>1. UNCHANGED <<winPhase, winWire, winLocal>>
  BY DEF HandleUpdate, winDaemon
<1>2. /\ Len(winUpdates) \in Nat /\ Len(winUpdates) >= 1
      /\ Len(winUpdates') = Len(winUpdates) - 1
      /\ \A i \in 1..Len(winUpdates') : winUpdates'[i] = winUpdates[i + 1]
      /\ winScreen'.page = PageAfter(winUpdates[1].tag, winScreen.page)
  BY Handles
<1>3. DoneOnWire /\ DoneUnderWay /\ DoneShown
  BY DoneParts
<1>4. DoneOnWire'
  BY <1>1, <1>3 DEF DoneOnWire
<1>5. DoneUnderWay'
  BY <1>1, <1>2, <1>3 DEF DoneUnderWay
<1>6. CASE winScreen.page = "completed"
  <2>1. winPhase = "over" /\ winWire = <<>> /\ winUpdates[1].tag = "cancelled" /\ NothingFollows'
    BY <1>2, <1>3, <1>6 DEF DoneShown, NothingFollows
  <2>2. winScreen'.page = "completed"
    BY <1>2, <1>6, <2>1 DEF PageAfter
  <2> QED
    BY <1>1, <1>4, <1>5, <2>1, <2>2, DoneParts DEF DoneShown
<1>7. CASE winUpdates[1].tag = "completed"
  <2>1. winPhase = "over" /\ winWire = <<>> /\ NothingFollows'
    BY <1>2, <1>3, <1>7 DEF DoneUnderWay, NothingFollows
  <2>2. winScreen'.page = "completed"
    BY <1>2, <1>7 DEF PageAfter
  <2> QED
    BY <1>1, <1>4, <1>5, <2>1, <2>2, DoneParts DEF DoneShown
<1>8. CASE winScreen.page # "completed" /\ winUpdates[1].tag # "completed"
  <2>1. winScreen'.page # "completed"
    BY <1>2, <1>8 DEF PageAfter
  <2> QED
    BY <1>4, <1>5, <1>8, <2>1, DoneParts DEF DoneShown
<1> QED
  BY <1>6, <1>7, <1>8

LEMMA DoneStep == WinTypes /\ PhaseInv /\ DoneInv /\ [WindowNext]_winVars => DoneInv'
<1> SUFFICES ASSUME WinTypes, PhaseInv, DoneInv, [WindowNext]_winVars PROVE DoneInv'
  OBVIOUS
<1> USE DEF winDaemon, winUser, winShown
<1>1. CASE winLocal
  <2>1. winLocal' = winLocal \/ winLocal' = TRUE
    BY DEF WindowNext, winVars, SendStateUpdate, Initiated, EntryGoesOn,
       LongPinRefused, ChoiceFails, UserCancels, BackgroundEvent, LoopPanics, LoopEnds, DropLoop,
       HandleUpdate, UpdatesEnd, CloseAfterTimer, CloseCancelled, Close, CancelEventLoop, SessionStops,
       UserEnters, StartSettingNewPin
  <2> QED
    BY <1>1, <2>1, DoneParts
<1>2. CASE ~winLocal
  <2>1. ASSUME NEW s \in Sendable, SendStateUpdate(s) PROVE DoneInv'
    BY <1>2, <2>1, DoneSends
  <2>2. CASE Initiated
    <3>1. winEntries[1] = "initiated" /\ Len(winEntries) >= 1 /\ Len(winEntries) \in Nat
      BY <2>2, Takes DEF Initiated
    <3>2. winPhase = "undiscovered"
      BY <3>1 DEF PhaseInv
    <3>3. /\ \A i \in 1..Len(winWire) : winWire[i].method # "completed"
          /\ \A i \in 1..Len(winUpdates) : winUpdates[i].tag # "completed"
          /\ winScreen.page # "completed"
      BY <1>2, <3>2, DoneParts DEF DoneOnWire, DoneUnderWay, DoneShown
    <3>4. Grows(winUpdates, winUpdates', {"title"}, Plain("devices")) /\ Plain("devices").tag = "devices"
      BY <2>2, InitiatedGrows, PlainUpdates DEF ViewUpdates
    <3>5. \A i \in 1..Len(winUpdates') : winUpdates'[i].tag # "completed"
      BY <3>3, <3>4 DEF Grows
    <3>6. UNCHANGED <<winWire, winScreen>>
      BY <2>2 DEF Initiated
    <3> QED
      BY <3>3, <3>5, <3>6 DEF DoneInv
  <2>3. CASE LongPinRefused
    BY <2>3, DoneParts DEF LongPinRefused
  <2>11. CASE ChoiceFails
    BY <2>11, DoneParts DEF ChoiceFails
  <2>4. CASE UserCancels
    <3>1. winUpdates \in Seq(Updates) /\ winUpdates' = Append(winUpdates, Plain("cancelled"))
          /\ UNCHANGED <<winPhase, winWire, winScreen, winLocal>>
      BY <2>4 DEF UserCancels, WinTypes
    <3>2. Plain("cancelled") \in Updates /\ Plain("cancelled").tag = "cancelled"
      BY PlainUpdates DEF ViewUpdates
    <3>3. /\ Len(winUpdates) \in Nat /\ Len(winUpdates') = Len(winUpdates) + 1
          /\ \A i \in 1..Len(winUpdates) : winUpdates'[i] = winUpdates[i]
          /\ winUpdates'[Len(winUpdates) + 1].tag = "cancelled"
      BY <3>1, <3>2, AppendProperties, LenProperties
    <3>4. DoneOnWire /\ DoneUnderWay /\ DoneShown
      BY <1>2, DoneParts
    <3>5. DoneUnderWay' /\ DoneShown' /\ DoneOnWire'
      BY <3>1, <3>3, <3>4 DEF DoneUnderWay, DoneShown, NothingFollows, DoneOnWire
    <3> QED
      BY <3>5, DoneParts
  <2>5. CASE BackgroundEvent
    BY <1>2, <2>5, DoneTranslates
  <2>6. CASE DropLoop
    <3>1. winWire' = <<>> /\ UNCHANGED <<winPhase, winUpdates, winScreen, winLocal>>
      BY <2>6 DEF DropLoop
    <3>2. Len(winWire') = 0
      BY <3>1, EmptySeq
    <3> QED
      BY <3>1, <3>2 DEF DoneInv
  <2>7. CASE HandleUpdate
    BY <1>2, <2>7, DoneHandles
  <2>8. CASE StartSettingNewPin
    <3>1. winScreen'.page = "set_new_pin" /\ UNCHANGED <<winPhase, winWire, winUpdates, winLocal>>
      BY <2>8 DEF StartSettingNewPin, WinTypes, ScreenFields
    <3> QED
      BY <3>1 DEF DoneInv
  <2>9. EntryGoesOn \/ UpdatesEnd \/ Close \/ SessionStops \/ UNCHANGED winVars => DoneInv'
    BY DoneUntouched DEF EntryGoesOn, UpdatesEnd, Close, SessionStops, winVars
  <2>10. ASSUME NEW k, UserEnters(k) PROVE DoneInv'
    BY <2>10, DoneUntouched DEF UserEnters
  <2> QED
    BY <2>1, <2>2, <2>3, <2>4, <2>5, <2>6, <2>7, <2>8, <2>9, <2>10, <2>11
       DEF WindowNext, LoopPanics, LoopEnds, CancelEventLoop, CloseAfterTimer, CloseCancelled
<1> QED
  BY <1>1, <1>2

LEMMA WindowStart == WindowInit => WinTypes /\ PhaseInv /\ DoneInv
<1> SUFFICES ASSUME WindowInit PROVE WinTypes /\ PhaseInv /\ DoneInv
  OBVIOUS
<1>1. Len(winWire) = 0 /\ Len(winUpdates) = 0 /\ winScreen.page = "start_page"
  BY EmptySeq DEF WindowInit, FirstScreen
<1>2. Len(winEntries) = 1
  BY DEF WindowInit
<1>3. PhaseInv
  BY <1>2 DEF WindowInit, PhaseInv, Plain, Msg
<1>4. DoneInv
  BY <1>1 DEF DoneInv
<1> QED
  BY <1>3, <1>4, WindowInitTypes

(* However the states of the two transports and the user's cancellation    *)
(* interleave on the wire and in the event loop, nothing takes "Done!" off *)
(* the screen again but what the event loop tells of its own: a new PIN it *)
(* refused, or a choice that the session did not take                      *)
(* (gui/view_model/mod.rs, gui/view_model/gtk/mod.rs).                     *)
THEOREM CompletionStays == WindowSpec => CompletedPageStays
<1>1. ASSUME WinTypes, DoneInv, [WindowNext]_winVars
      PROVE  [winScreen.page = "completed" /\ winScreen'.page # "completed" => winLocal]_winVars
  <2>1. CASE UNCHANGED winScreen
    BY <2>1
  <2>2. CASE HandleUpdate
    BY <1>1, <2>2, DoneHandles
  <2>3. CASE StartSettingNewPin
    BY <2>3 DEF StartSettingNewPin
  <2> QED
    BY <1>1, <2>1, <2>2, <2>3, ScreenChanges
<1> QED
  BY <1>1, WindowStart, WindowTypesStep, PhaseStep, DoneStep, PTL DEF WindowSpec, CompletedPageStays

----
(* A key that asks.                                                        *)

Early == winPhase \in {"undiscovered", "finding", "asking"}
Leads == {"credentials", "completed"}

QuietUntilEnd ==
  Early =>
    /\ \A i \in 1..Len(winWire) : winWire[i].method \notin Leads
    /\ \A i \in 1..Len(winUpdates) : winUpdates[i].tag \notin Leads

AtPrompts ==
  \/ \E i \in 1..Len(winWire) : winWire[i].method = "connected"
  \/ \E i \in 1..Len(winUpdates) : winUpdates[i].tag = "waiting_usb"
  \/ winScreen.page \in PromptPages \cup {"set_new_pin"}

LEMMA AskingParts ==
  /\ AskingInv <=> (winLoop = "running" => QuietUntilEnd /\ (winPhase = "asking" => AtPrompts))
  /\ AskingInv' <=> (winLoop' = "running" => QuietUntilEnd' /\ (winPhase' = "asking" => AtPrompts'))
BY DEF AskingInv, QuietUntilEnd, AtPrompts, Early, Leads

LEMMA AskingUntouched ==
  ASSUME AskingInv, UNCHANGED <<winPhase, winWire, winUpdates, winScreen, winLoop>>
  PROVE  AskingInv'
BY DEF AskingInv

LEMMA AskingSends ==
  ASSUME WinTypes, AskingInv, winLoop = "running", NEW s \in Sendable, SendStateUpdate(s)
  PROVE  AskingInv'
<1>1. /\ winPhase' = PhaseAfter(s) /\ winPhase \notin {"undiscovered", "over"}
      /\ UNCHANGED <<winLoop, winUpdates, winScreen>>
  BY SendablePhases DEF SendStateUpdate, winShown
<1>2. QuietUntilEnd /\ (winPhase = "asking" => AtPrompts)
  BY AskingParts
<1>3. CASE UNCHANGED <<winPhase, winWire>>
  BY <1>1, <1>3, AskingUntouched
<1>4. CASE /\ Len(winWire) \in Nat /\ Len(winWire') = Len(winWire) + 1
           /\ \A i \in 1..Len(winWire) : winWire'[i] = winWire[i]
           /\ winWire'[Len(winWire) + 1].method
                = IF s.tag \in ServiceErrors THEN "error" ELSE s.tag
  <2>1. /\ Early' => Early /\ s.tag \notin Leads
        /\ winPhase' = "asking" => s.tag = "connected" \/ winPhase = "asking"
    <3>1. CASE s.tag = "connected"
      <4>1. winPhase = "finding"
        BY <1>1, <3>1 DEF Sendable, KeyPrompts, Plain, Msg, PhoneStates, Ends, ServiceErrors
      <4> QED
        BY <3>1, <4>1 DEF Early, Leads
    <3>2. CASE s.tag = "credentials" \/ s.tag \in Ends
      <4>1. winPhase' \in {"choosing", "over"}
        BY <1>1, <3>2 DEF PhaseAfter, Ends, ServiceErrors
      <4> QED
        BY <4>1 DEF Early
    <3>3. CASE s.tag \notin {"connected", "credentials"} \cup Ends
      <4>1. winPhase' = winPhase
        BY <1>1, <3>3 DEF PhaseAfter
      <4> QED
        BY <3>3, <4>1 DEF Early, Leads, Ends
    <3> QED
      BY <3>1, <3>2, <3>3
  <2>2. QuietUntilEnd'
    <3> SUFFICES ASSUME Early' PROVE
          /\ \A i \in 1..Len(winWire') : winWire'[i].method \notin Leads
          /\ \A i \in 1..Len(winUpdates') : winUpdates'[i].tag \notin Leads
      BY DEF QuietUntilEnd, Leads
    <3>1. winWire'[Len(winWire')].method \notin Leads
      BY <1>4, <2>1 DEF Leads, ServiceErrors
    <3>2. \A i \in 1..Len(winWire') : i # Len(winWire') => winWire'[i].method \notin Leads
      BY <1>2, <1>4, <2>1 DEF QuietUntilEnd
    <3>3. \A i \in 1..Len(winUpdates') : winUpdates'[i].tag \notin Leads
      BY <1>1, <1>2, <2>1 DEF QuietUntilEnd
    <3> QED
      BY <3>1, <3>2, <3>3
  <2>3. s.tag = "connected" => AtPrompts'
    <3>1. Len(winWire) + 1 \in 1..Len(winWire')
      BY <1>4
    <3> QED
      BY <1>4, <3>1 DEF AtPrompts, ServiceErrors
  <2>4. AtPrompts => AtPrompts'
    <3>1. ASSUME NEW i \in 1..Len(winWire), winWire[i].method = "connected"
          PROVE  i \in 1..Len(winWire') /\ winWire'[i].method = "connected"
      BY <1>4, <3>1
    <3> QED
      BY <1>1, <3>1 DEF AtPrompts
  <2> QED
    BY <1>2, <2>1, <2>2, <2>3, <2>4, AskingParts
<1> QED
  BY <1>3, <1>4, Tells

LEMMA AskingTranslates ==
  ASSUME WinTypes, AskingInv, BackgroundEvent
  PROVE  AskingInv'
<1>1. /\ winWire \in Seq(Told) /\ winWire # <<>> /\ winWire' = Tail(winWire)
      /\ winLoop = "running" /\ UNCHANGED <<winPhase, winScreen>>
  BY DEF WinTypes, BackgroundEvent, winShown, winDaemon
<1>2. /\ Len(winWire) \in Nat /\ Len(winWire) >= 1 /\ Len(winWire') = Len(winWire) - 1
      /\ \A i \in 1..Len(winWire') : winWire'[i] = winWire[i + 1]
  BY <1>1, Taken
<1>3. QuietUntilEnd /\ (winPhase = "asking" => AtPrompts)
  BY <1>1, AskingParts
<1>4. PICK s \in SentStates :
        /\ winWire[1].method = IF s.tag \in ServiceErrors THEN "error" ELSE s.tag
        /\ Grows(winUpdates, winUpdates', {"waiting_phone"}, LastUpdate(s))
  BY LoopTranslates
<1>5. QuietUntilEnd'
  <2> SUFFICES ASSUME Early' PROVE
        /\ \A i \in 1..Len(winWire') : winWire'[i].method \notin Leads
        /\ \A i \in 1..Len(winUpdates') : winUpdates'[i].tag \notin Leads
    BY DEF QuietUntilEnd, Leads
  <2>1. Early
    BY <1>1 DEF Early
  <2>2. winWire[1].method \notin Leads
    BY <1>2, <1>3, <2>1 DEF QuietUntilEnd
  <2>3. LastUpdate(s).tag \notin Leads
    BY <1>4, <2>2, LastUpdateTag DEF Leads, ServiceErrors
  <2>4. \A i \in 1..Len(winUpdates') : winUpdates'[i].tag \notin Leads
    <3> SUFFICES ASSUME NEW i \in 1..Len(winUpdates') PROVE winUpdates'[i].tag \notin Leads
      OBVIOUS
    <3>1. CASE i \in 1..Len(winUpdates)
      BY <1>3, <1>4, <2>1, <3>1 DEF QuietUntilEnd, Grows
    <3>2. CASE i = Len(winUpdates')
      BY <1>4, <2>3, <3>2 DEF Grows
    <3>3. CASE i > Len(winUpdates) /\ i < Len(winUpdates')
      BY <1>4, <3>3 DEF Grows, Leads
    <3>4. Len(winUpdates) \in Nat /\ Len(winUpdates') \in Nat
      BY <1>4 DEF Grows
    <3> QED
      BY <3>1, <3>2, <3>3, <3>4
  <2>5. \A i \in 1..Len(winWire') : winWire'[i].method \notin Leads
    BY <1>2, <1>3, <2>1 DEF QuietUntilEnd
  <2> QED
    BY <2>4, <2>5
<1>6. AtPrompts => AtPrompts'
  <2>1. ASSUME NEW i \in 1..Len(winWire), winWire[i].method = "connected"
        PROVE  AtPrompts'
    <3>1. CASE i = 1
      <4>1. s.tag = "connected"
        BY <1>4, <2>1, <3>1 DEF ServiceErrors
      <4>2. LastUpdate(s).tag = "waiting_usb"
        BY <4>1, LastUpdateTag
      <4>3. Len(winUpdates') \in 1..Len(winUpdates') /\ winUpdates'[Len(winUpdates')] = LastUpdate(s)
        BY <1>4 DEF Grows
      <4> QED
        BY <4>2, <4>3 DEF AtPrompts
    <3>2. CASE i # 1
      <4>1. i - 1 \in 1..Len(winWire') /\ winWire'[i - 1] = winWire[i]
        BY <1>2, <3>2
      <4> QED
        BY <2>1, <4>1 DEF AtPrompts
    <3> QED
      BY <3>1, <3>2
  <2>2. ASSUME NEW i \in 1..Len(winUpdates), winUpdates[i].tag = "waiting_usb"
        PROVE  AtPrompts'
    <3>1. i \in 1..Len(winUpdates') /\ winUpdates'[i] = winUpdates[i]
      BY <1>4 DEF Grows
    <3> QED
      BY <2>2, <3>1 DEF AtPrompts
  <2>3. winScreen.page \in PromptPages \cup {"set_new_pin"} => AtPrompts'
    BY <1>1 DEF AtPrompts
  <2> QED
    BY <2>1, <2>2, <2>3 DEF AtPrompts
<1> QED
  BY <1>1, <1>3, <1>5, <1>6, AskingParts

LEMMA AskingHandles ==
  ASSUME WinTypes, AskingInv, winLoop = "running", HandleUpdate
  PROVE  AskingInv'
<1>1. UNCHANGED <<winPhase, winWire, winLoop>>
  BY DEF HandleUpdate, winDaemon
<1>2. /\ Len(winUpdates) \in Nat /\ Len(winUpdates) >= 1
      /\ Len(winUpdates') = Len(winUpdates) - 1
      /\ \A i \in 1..Len(winUpdates') : winUpdates'[i] = winUpdates[i + 1]
      /\ winScreen'.page = PageAfter(winUpdates[1].tag, winScreen.page)
  BY Handles
<1>3. QuietUntilEnd /\ (winPhase = "asking" => AtPrompts)
  BY AskingParts
<1>4. QuietUntilEnd'
  BY <1>1, <1>2, <1>3 DEF QuietUntilEnd, Early
<1>5. ASSUME winPhase = "asking", AtPrompts PROVE AtPrompts'
  <2>1. winUpdates[1].tag \notin Leads
    BY <1>2, <1>3, <1>5 DEF QuietUntilEnd, Early
  <2>2. CASE winUpdates[1].tag = "waiting_usb"
    BY <1>2, <2>2 DEF AtPrompts, PageAfter, PromptPages
  <2>3. CASE winScreen.page \in PromptPages \cup {"set_new_pin"}
    BY <1>2, <2>1, <2>3 DEF AtPrompts, PageAfter, PromptPages, Leads
  <2>4. ASSUME NEW i \in 1..Len(winUpdates), i # 1, winUpdates[i].tag = "waiting_usb"
        PROVE  AtPrompts'
    <3>1. i - 1 \in 1..Len(winUpdates') /\ winUpdates'[i - 1] = winUpdates[i]
      BY <1>2, <2>4
    <3> QED
      BY <2>4, <3>1 DEF AtPrompts
  <2>5. (\E i \in 1..Len(winWire) : winWire[i].method = "connected") => AtPrompts'
    BY <1>1 DEF AtPrompts
  <2> QED
    BY <1>5, <2>2, <2>3, <2>4, <2>5 DEF AtPrompts
<1> QED
  BY <1>1, <1>3, <1>4, <1>5, AskingParts

(* An entry has the event loop add to the updates.                         *)
LEMMA AskingGrows ==
  ASSUME WinTypes, AskingInv, winLoop = "running", UNCHANGED <<winWire, winScreen>>,
         NEW T, NEW u \in Updates, Grows(winUpdates, winUpdates', T, u),
         T \subseteq {"title"}, u.tag \notin Leads,
         UNCHANGED winPhase \/ (winPhase = "undiscovered" /\ winPhase' = "finding")
  PROVE  AskingInv'
<1>1. QuietUntilEnd /\ (winPhase = "asking" => AtPrompts)
  BY AskingParts
<1>2. QuietUntilEnd'
  <2> SUFFICES ASSUME Early' PROVE
        /\ \A i \in 1..Len(winWire') : winWire'[i].method \notin Leads
        /\ \A i \in 1..Len(winUpdates') : winUpdates'[i].tag \notin Leads
    BY DEF QuietUntilEnd, Leads
  <2>1. Early
    BY DEF Early
  <2>2. ASSUME NEW i \in 1..Len(winUpdates') PROVE winUpdates'[i].tag \notin Leads
    <3>1. Len(winUpdates) \in Nat /\ Len(winUpdates') \in Nat
      BY DEF Grows
    <3>2. CASE i \in 1..Len(winUpdates)
      BY <1>1, <2>1, <3>2 DEF QuietUntilEnd, Grows
    <3>3. CASE i = Len(winUpdates')
      BY <3>3 DEF Grows
    <3>4. CASE i > Len(winUpdates) /\ i < Len(winUpdates')
      BY <3>4 DEF Grows, Leads
    <3> QED
      BY <3>1, <3>2, <3>3, <3>4
  <2> QED
    BY <1>1, <2>1, <2>2 DEF QuietUntilEnd
<1>3. winPhase' = "asking" => AtPrompts'
  <2>1. ASSUME NEW i \in 1..Len(winUpdates), winUpdates[i].tag = "waiting_usb"
        PROVE  i \in 1..Len(winUpdates') /\ winUpdates'[i].tag = "waiting_usb"
    BY <2>1 DEF Grows
  <2> QED
    BY <1>1, <2>1 DEF AtPrompts
<1> QED
  BY <1>2, <1>3, AskingParts

LEMMA AskingStep == WinTypes /\ PhaseInv /\ AskingInv /\ [WindowNext]_winVars => AskingInv'
<1> SUFFICES ASSUME WinTypes, PhaseInv, AskingInv, [WindowNext]_winVars PROVE AskingInv'
  OBVIOUS
<1> USE DEF winDaemon, winUser, winShown
<1>1. CASE winLoop # "running"
  <2>1. winLoop' # "running"
    BY <1>1 DEF WindowNext, winVars, SendStateUpdate, Initiated, EntryGoesOn, TakesEntry,
       LongPinRefused, ChoiceFails, UserCancels, BackgroundEvent, LoopPanics, LoopEnds, DropLoop,
       HandleUpdate, UpdatesEnd, CloseAfterTimer, CloseCancelled, Close, CancelEventLoop, SessionStops,
       UserEnters, StartSettingNewPin
  <2> QED
    BY <2>1, AskingParts
<1>2. CASE winLoop = "running"
  <2>1. ASSUME NEW s \in Sendable, SendStateUpdate(s) PROVE AskingInv'
    BY <1>2, <2>1, AskingSends
  <2>2. CASE Initiated
    <3>1. winEntries[1] = "initiated" /\ Len(winEntries) >= 1 /\ Len(winEntries) \in Nat
      BY <2>2, Takes DEF Initiated
    <3>2. winPhase = "undiscovered"
      BY <3>1 DEF PhaseInv
    <3>3. Grows(winUpdates, winUpdates', {"title"}, Plain("devices"))
      BY <2>2, InitiatedGrows
    <3>4. Plain("devices").tag = "devices" /\ Plain("devices") \in Updates
      BY PlainUpdates DEF ViewUpdates
    <3>5. Plain("devices").tag \notin Leads
      BY <3>4 DEF Leads
    <3>6. winPhase' = "finding" /\ UNCHANGED <<winWire, winScreen>>
      BY <2>2 DEF Initiated
    <3> QED
      BY <1>2, <3>2, <3>3, <3>4, <3>5, <3>6, AskingGrows
  <2>3. CASE LongPinRefused
    <3> DEFINE u == Msg("pin_not_set", Unknown, "too_long")
    <3>1. winUpdates \in Seq(Updates) /\ winUpdates' = Append(winUpdates, u)
          /\ UNCHANGED <<winWire, winScreen, winPhase>>
      BY <2>3 DEF LongPinRefused, WinTypes
    <3>2. u \in Updates /\ u.tag = "pin_not_set"
      BY PlainUpdates DEF Msg
    <3>3. u.tag \notin Leads
      BY <3>2 DEF Leads
    <3> HIDE DEF u
    <3>4. Grows(winUpdates, winUpdates', {}, u)
      BY <3>1, <3>2, GrowsByOne
    <3> QED
      BY <1>2, <3>1, <3>2, <3>3, <3>4, AskingGrows
  <2>11. CASE ChoiceFails
    <3> DEFINE u == Msg("failed", Unknown, "choice_failed")
    <3>1. winUpdates \in Seq(Updates) /\ winUpdates' = Append(winUpdates, u)
          /\ UNCHANGED <<winWire, winScreen, winPhase>>
      BY <2>11 DEF ChoiceFails, WinTypes
    <3>2. u \in Updates /\ u.tag = "failed"
      BY PlainUpdates DEF Msg
    <3>3. u.tag \notin Leads
      BY <3>2 DEF Leads
    <3> HIDE DEF u
    <3>4. Grows(winUpdates, winUpdates', {}, u)
      BY <3>1, <3>2, GrowsByOne
    <3> QED
      BY <1>2, <3>1, <3>2, <3>3, <3>4, AskingGrows
  <2>4. CASE UserCancels
    BY <2>4, AskingParts DEF UserCancels
  <2>5. CASE BackgroundEvent
    BY <2>5, AskingTranslates
  <2>6. CASE DropLoop
    BY <2>6, AskingParts DEF DropLoop
  <2>7. CASE HandleUpdate
    BY <1>2, <2>7, AskingHandles
  <2>8. CASE StartSettingNewPin
    <3>1. winScreen'.page = "set_new_pin" /\ UNCHANGED <<winPhase, winWire, winUpdates, winLoop>>
      BY <2>8 DEF StartSettingNewPin, WinTypes, ScreenFields
    <3>2. AtPrompts'
      BY <3>1 DEF AtPrompts
    <3>3. QuietUntilEnd'
      BY <1>2, <3>1, AskingParts DEF QuietUntilEnd, Early
    <3> QED
      BY <3>2, <3>3, AskingParts
  <2>9. EntryGoesOn \/ UpdatesEnd \/ Close \/ SessionStops \/ UNCHANGED winVars => AskingInv'
    BY AskingUntouched DEF EntryGoesOn, UpdatesEnd, Close, SessionStops, winVars
  <2>10. ASSUME NEW k, UserEnters(k) PROVE AskingInv'
    BY <2>10, AskingUntouched DEF UserEnters
  <2> QED
    BY <2>1, <2>2, <2>3, <2>4, <2>5, <2>6, <2>7, <2>8, <2>9, <2>10, <2>11
       DEF WindowNext, LoopPanics, LoopEnds, CancelEventLoop, CloseAfterTimer, CloseCancelled
<1> QED
  BY <1>1, <1>2

----
(* What the window shows.                                                  *)

(* The last update of a state shows it, whatever was on the screen.        *)
LEMMA UpdateShows ==
  ASSUME NEW s \in SentStates, DOMAIN winScreen = ScreenFields,
         winScreen' = Handled(LastUpdate(s), winScreen),
         s.tag \in {"needs_up", "needs_uv"} => winScreen.page \in PromptPages \cup {"set_new_pin"}
  PROVE  Shows(s)'
<1> DEFINE u == LastUpdate(s)
           c == Cleared(winScreen)
<1>1. /\ DOMAIN c = ScreenFields /\ c.page = winScreen.page
      /\ c.pinEntry = FALSE /\ c.setPinButton = FALSE
  BY DEF Cleared, ScreenFields
<1>2. s.tag \in {"needs_pin", "needs_uv", "needs_up", "pin_not_set", "connected", "credentials"}
                \cup PhoneStates \cup Ends
  BY DEF SentStates, Messages
<1>3. winScreen' = Handled(u, winScreen)
  OBVIOUS
<1>4. u.tag = IF s.tag = "connected" THEN "waiting_usb"
              ELSE IF s.tag \in ServiceErrors THEN "failed" ELSE s.tag
  BY LastUpdateTag
<1>5. s.tag \in {"needs_pin", "needs_uv"} => u.n = IF s.n = MaxU32 THEN Unknown ELSE s.n
  BY DEF LastUpdate, Heard, Msg, ServiceErrors
<1>6. s.tag = "pin_not_set" => u.why = s.why
  BY DEF LastUpdate, Heard, Msg, ServiceErrors
<1>7. s.tag \in ServiceErrors =>
        u.why = IF s.tag = "pin_exhausted" THEN "something_wrong" ELSE MessageOf(s.tag)
  BY DEF LastUpdate, Heard, Msg, Plain, ServiceErrors, MessageOf
<1> HIDE DEF u, c
<1> USE DEF ScreenFields, Text
<1>8. CASE s.tag = "needs_pin"
  <2>1. winScreen' = [c EXCEPT !.prompt = Text("enter_pin", u.n), !.pinEntry = TRUE,
                               !.page = "usb_or_nfc"]
    BY <1>3, <1>4, <1>8 DEF Handled, c, ServiceErrors
  <2>2. winScreen'.pinEntry = TRUE
    BY <1>1, <2>1
  <2>3. winScreen'.prompt = Text("enter_pin", u.n)
    BY <1>1, <2>1
  <2>4. winScreen'.prompt = Text("enter_pin", IF s.n = MaxU32 THEN Unknown ELSE s.n)
    <3> HIDE DEF Text
    <3> QED
      BY <1>5, <1>8, <2>3
  <2> HIDE DEF Text
  <2> QED
    BY <1>8, <2>2, <2>4 DEF Shows, UsbIdling, ServiceErrors
<1>9. CASE s.tag \in {"needs_up", "needs_uv"}
  <2>1. \E n : winScreen' = [c EXCEPT !.prompt = Text("touch", n)]
    BY <1>3, <1>4, <1>9 DEF Handled, c, ServiceErrors
  <2>2. winScreen'.prompt.text = "touch" /\ winScreen'.page = winScreen.page
    BY <1>1, <2>1
  <2> QED
    BY <1>9, <2>2 DEF Shows, UsbIdling, ServiceErrors
<1>10. CASE s.tag = "pin_not_set"
  <2>1. winScreen' = [c EXCEPT !.prompt = Text(PinText(u.why), Unknown), !.setPinButton = TRUE,
                               !.page = "failed"]
    BY <1>3, <1>4, <1>10 DEF Handled, c, ServiceErrors
  <2>2. /\ winScreen'.page = "failed" /\ winScreen'.setPinButton
        /\ winScreen'.prompt.text = PinText(u.why)
    BY <1>1, <2>1
  <2> QED
    BY <1>6, <1>10, <2>2 DEF Shows, UsbIdling, ServiceErrors
<1>11. CASE s.tag \in {"connected", "credentials", "completed"}
  <2>1. winScreen'.page = IF s.tag = "connected" THEN "usb_or_nfc"
                          ELSE IF s.tag = "credentials" THEN "choose_credential" ELSE "completed"
    BY <1>1, <1>3, <1>4, <1>11 DEF Handled, c, ServiceErrors, WaitingForDevice, UpdateCredentials
  <2> QED
    BY <1>11, <2>1 DEF Shows, UsbIdling, ServiceErrors
<1>12. CASE s.tag = "phone_connecting"
  <2>1. winScreen'.page = "hybrid_qr" /\ winScreen'.spinner
    BY <1>1, <1>3, <1>4, <1>12 DEF Handled, c, ServiceErrors, WaitingForDevice
  <2> QED
    BY <1>12, <2>1 DEF Shows, UsbIdling, ServiceErrors
<1>13. CASE s.tag = "phone_connected"
  <2>1. winScreen' = [c EXCEPT !.prompt = Text("follow_phone", Unknown), !.qrCode = FALSE,
                               !.spinner = FALSE]
    BY <1>3, <1>4, <1>13 DEF Handled, c, ServiceErrors
  <2>2. winScreen'.prompt.text = "follow_phone" /\ ~winScreen'.qrCode /\ ~winScreen'.spinner
    BY <1>1, <2>1
  <2> QED
    BY <1>13, <2>2 DEF Shows, UsbIdling, ServiceErrors
<1>14. CASE s.tag = "init"
  <2>1. winScreen'.qrCode
    BY <1>1, <1>3, <1>4, <1>14 DEF Handled, c, ServiceErrors
  <2> QED
    BY <1>14, <2>1 DEF Shows, UsbIdling, ServiceErrors
<1>15. CASE s.tag \in ServiceErrors
  <2>1. winScreen' = [c EXCEPT !.prompt = Text(u.why, Unknown), !.page = "failed",
                               !.spinner = FALSE]
    BY <1>3, <1>4, <1>15 DEF Handled, c, ServiceErrors
  <2>2. /\ winScreen'.page = "failed" /\ ~winScreen'.setPinButton
        /\ winScreen'.prompt.text = u.why
    BY <1>1, <2>1
  <2>3. /\ winScreen'.page = "failed" /\ ~winScreen'.setPinButton
        /\ winScreen'.prompt.text
             = IF s.tag = "pin_exhausted" THEN "something_wrong" ELSE MessageOf(s.tag)
    BY <1>7, <1>15, <2>2
  <2> QED
    BY <1>15, <2>3 DEF Shows, UsbIdling, ServiceErrors
<1> QED
  BY <1>2, <1>8, <1>9, <1>10, <1>11, <1>12, <1>13, <1>14, <1>15 DEF PhoneStates, Ends

(* The page for a new PIN still shows the state that led there.            *)
LEMMA NewPinShows ==
  ASSUME WinTypes, Shows(winLast), StartSettingNewPin
  PROVE  Shows(winLast)'
<1> DEFINE t == winLast.tag
<1>1. /\ winScreen.page = "failed" /\ winScreen.setPinButton
      /\ winScreen' = [winScreen EXCEPT !.page = "set_new_pin"] /\ winLast' = winLast
      /\ DOMAIN winScreen = ScreenFields
  BY DEF StartSettingNewPin, WinTypes, winDaemon
<1>2. /\ winScreen'.page = "set_new_pin"
      /\ winScreen'.prompt = winScreen.prompt /\ winScreen'.pinEntry = winScreen.pinEntry
      /\ winScreen'.qrCode = winScreen.qrCode /\ winScreen'.spinner = winScreen.spinner
  BY <1>1 DEF ScreenFields
<1>3. t \in {"needs_pin", "needs_uv", "needs_up", "pin_not_set", "connected", "credentials"}
            \cup UsbIdling \cup PhoneStates \cup Ends
  BY DEF WinTypes, Messages
<1>4. CASE t \in {"needs_pin", "needs_uv", "needs_up", "pin_not_set"}
  BY <1>1, <1>2, <1>4 DEF Shows, UsbIdling, ServiceErrors
<1>5. CASE t \in {"connected", "credentials", "phone_connecting", "completed"}
  BY <1>1, <1>5 DEF Shows, UsbIdling, ServiceErrors
<1>6. CASE t \in ServiceErrors
  BY <1>1, <1>6 DEF Shows, UsbIdling, ServiceErrors
<1>7. CASE t \in {"init", "phone_connected"} \cup UsbIdling
  BY <1>1, <1>2, <1>7 DEF Shows, UsbIdling, ServiceErrors
<1> QED
  BY <1>3, <1>4, <1>5, <1>6, <1>7 DEF PhoneStates, Ends

(* The parts of ShownInv.                                                  *)
OnItsWay == winWire # <<>> => winWire[Len(winWire)] = OnWire(BackgroundEventOf(winLast))

Queued ==
  winWire = <<>> /\ winUpdates # <<>> /\ winLast.tag # "idle" =>
    winUpdates[Len(winUpdates)] = LastUpdate(winLast)

OnScreen == winWire = <<>> /\ winUpdates = <<>> => Shows(winLast)

LEMMA ShownParts ==
  /\ ShownInv <=> (Following => OnItsWay /\ Queued /\ OnScreen)
  /\ ShownInv' <=> (Following' => OnItsWay' /\ Queued' /\ OnScreen')
BY DEF ShownInv, OnItsWay, Queued, OnScreen

LEMMA SameShows ==
  ASSUME Shows(winLast), UNCHANGED <<winLast, winScreen>>
  PROVE  Shows(winLast)'
BY DEF Shows

LEMMA ShownUntouched ==
  ASSUME ShownInv,
         UNCHANGED <<winLast, winWire, winUpdates, winScreen, winLoop, winState, winLocal>>
  PROVE  ShownInv'
<1>1. Following' <=> Following
  BY DEF Following
<1>2. OnScreen => OnScreen'
  BY SameShows DEF OnScreen
<1>3. (OnItsWay => OnItsWay') /\ (Queued => Queued')
  BY DEF OnItsWay, Queued
<1> QED
  BY <1>1, <1>2, <1>3, ShownParts

(* States of which the window hears the same are shown alike.              *)
LEMMA HeardDecides ==
  ASSUME NEW s \in Messages, NEW t \in Messages, Heard(s) = Heard(t)
  PROVE  LastUpdate(s) = LastUpdate(t)
<1>1. /\ s.tag \in ServiceErrors <=> Heard(s).tag \in ServiceErrors
      /\ t.tag \in ServiceErrors <=> Heard(t).tag \in ServiceErrors
  BY DEF Heard, Plain, Msg, ServiceErrors
<1>2. /\ s.tag = "connected" <=> Heard(s).tag = "connected"
      /\ t.tag = "connected" <=> Heard(t).tag = "connected"
  BY DEF Heard, Plain, Msg, ServiceErrors
<1> QED
  BY <1>1, <1>2 DEF LastUpdate

LEMMA ShownTranslates ==
  ASSUME WinTypes, ShownInv, Following, BackgroundEvent
  PROVE  OnItsWay' /\ Queued' /\ OnScreen'
<1>1. /\ winWire \in Seq(Told) /\ winWire # <<>> /\ winWire' = Tail(winWire)
      /\ winLast' = winLast /\ winLast \in Messages
  BY DEF WinTypes, BackgroundEvent, winDaemon
<1>2. /\ Len(winWire) \in Nat /\ Len(winWire) >= 1 /\ Len(winWire') = Len(winWire) - 1
      /\ \A i \in 1..Len(winWire') : winWire'[i] = winWire[i + 1]
      /\ winWire' \in Seq(Told)
  BY <1>1, Taken
<1>3. winWire[Len(winWire)] = OnWire(BackgroundEventOf(winLast))
  BY <1>1, ShownParts DEF OnItsWay
<1>4. PICK s \in SentStates :
        /\ winWire[1] = OnWire(BackgroundEventOf(s))
        /\ Grows(winUpdates, winUpdates', {"waiting_phone"}, LastUpdate(s))
  BY LoopTranslates
<1>5. winUpdates' # <<>> /\ winUpdates'[Len(winUpdates')] = LastUpdate(s)
  <2>1. Len(winUpdates') > 0 /\ winUpdates'[Len(winUpdates')] = LastUpdate(s)
    BY <1>4 DEF Grows
  <2>2. winUpdates' = <<>> => Len(winUpdates') = 0
    BY EmptySeq
  <2> QED
    BY <2>1, <2>2
<1>6. OnItsWay'
  <2> SUFFICES ASSUME winWire' # <<>>
               PROVE  winWire'[Len(winWire')] = OnWire(BackgroundEventOf(winLast))
    BY <1>1 DEF OnItsWay
  <2>1. Len(winWire') \in Nat \ {0}
    BY <1>2, EmptySeq
  <2>2. winWire'[Len(winWire')] = winWire[Len(winWire)]
    BY <1>2, <2>1
  <2> QED
    BY <1>3, <2>2
<1>7. Queued'
  <2> SUFFICES ASSUME winWire' = <<>> PROVE LastUpdate(s) = LastUpdate(winLast)
    BY <1>1, <1>5 DEF Queued
  <2>1. Len(winWire') = 0
    BY EmptySeq
  <2>2. Len(winWire) = 1
    BY <1>2, <2>1
  <2>3. OnWire(BackgroundEventOf(s)) = OnWire(BackgroundEventOf(winLast))
    BY <1>3, <1>4, <2>2
  <2>4. s \in Messages
    BY DEF SentStates
  <2>5. Heard(s) = Heard(winLast)
    BY <1>1, <2>3, <2>4, RoundTrip
  <2> QED
    BY <1>1, <2>4, <2>5, HeardDecides
<1>8. OnScreen'
  BY <1>5 DEF OnScreen
<1> QED
  BY <1>6, <1>7, <1>8

LEMMA ShownHandles ==
  ASSUME WinTypes, PhaseInv, AskingInv, ShownInv, Following, HandleUpdate
  PROVE  OnItsWay' /\ Queued' /\ OnScreen'
<1>1. /\ UNCHANGED winWire /\ winLast' = winLast /\ winLast \in Messages
      /\ winLoop = "running" /\ winUpdates \in Seq(Updates)
  BY DEF HandleUpdate, winDaemon, WinTypes, Following
<1>2. /\ Len(winUpdates) \in Nat /\ Len(winUpdates) >= 1
      /\ Len(winUpdates') = Len(winUpdates) - 1
      /\ \A i \in 1..Len(winUpdates') : winUpdates'[i] = winUpdates[i + 1]
      /\ winScreen' = Handled(winUpdates[1], winScreen)
      /\ DOMAIN winScreen = ScreenFields
  BY Handles
<1>3. winUpdates # <<>> /\ winUpdates' \in Seq(Updates)
  <2>1. winUpdates # <<>> /\ winUpdates' = Tail(winUpdates)
    BY DEF HandleUpdate
  <2> QED
    BY <1>1, <2>1, Taken
<1>4. OnItsWay /\ Queued /\ OnScreen
  BY ShownParts
<1>5. OnItsWay'
  BY <1>1, <1>4 DEF OnItsWay
<1>6. Queued'
  <2> SUFFICES ASSUME winWire = <<>>, winUpdates' # <<>>, winLast.tag # "idle"
               PROVE  winUpdates'[Len(winUpdates')] = LastUpdate(winLast)
    BY <1>1 DEF Queued
  <2>1. Len(winUpdates') \in Nat \ {0}
    BY <1>3, EmptySeq
  <2>2. winUpdates'[Len(winUpdates')] = winUpdates[Len(winUpdates)]
    BY <1>2, <2>1
  <2> QED
    BY <1>3, <1>4, <2>2 DEF Queued
<1>7. OnScreen'
  <2> SUFFICES ASSUME winWire = <<>>, winUpdates' = <<>> PROVE Shows(winLast)'
    BY <1>1 DEF OnScreen
  <2>1. Len(winUpdates) = 1
    <3>1. Len(winUpdates') = 0
      BY EmptySeq
    <3> QED
      BY <1>2, <3>1
  <2>2. CASE winLast.tag = "idle"
    BY <1>1, <2>2 DEF Shows, UsbIdling, ServiceErrors
  <2>3. CASE winLast.tag # "idle"
    <3>1. winUpdates[1] = LastUpdate(winLast)
      BY <1>3, <1>4, <2>1, <2>3 DEF Queued
    <3>2. winLast \in SentStates
      BY <1>1, <2>3 DEF PhaseInv, SentStates
    <3>3. PICK s \in SentStates : s = winLast
      BY <3>2
    <3>4. s.tag \in {"needs_up", "needs_uv"} => winScreen.page \in PromptPages \cup {"set_new_pin"}
      <4> SUFFICES ASSUME s.tag \in {"needs_up", "needs_uv"}
                   PROVE  winScreen.page \in PromptPages \cup {"set_new_pin"}
        OBVIOUS
      <4>1. winPhase = "asking"
        BY <3>3 DEF PhaseInv
      <4>2. AtPrompts
        BY <1>1, <4>1, AskingParts
      <4>3. winUpdates[1].tag = s.tag
        BY <3>1, <3>3, LastUpdateTag DEF ServiceErrors
      <4>4. Len(winWire) = 0
        BY EmptySeq
      <4>5. ~\E i \in 1..Len(winWire) : winWire[i].method = "connected"
        BY <4>4
      <4>6. ~\E i \in 1..Len(winUpdates) : winUpdates[i].tag = "waiting_usb"
        BY <2>1, <4>3
      <4> QED
        BY <4>2, <4>5, <4>6 DEF AtPrompts
    <3>5. winScreen' = Handled(LastUpdate(s), winScreen)
      BY <1>2, <3>1, <3>3
    <3>6. Shows(s)'
      BY <1>2, <3>4, <3>5, UpdateShows
    <3> QED
      BY <1>1, <3>3, <3>6 DEF Shows
  <2> QED
    BY <2>2, <2>3
<1> QED
  BY <1>5, <1>6, <1>7

LEMMA ShownStep ==
  WinTypes /\ PhaseInv /\ AskingInv /\ ShownInv /\ [WindowNext]_winVars => ShownInv'
<1> SUFFICES ASSUME WinTypes, PhaseInv, AskingInv, ShownInv, [WindowNext]_winVars, Following'
             PROVE  ShownInv'
  BY ShownParts
<1> USE DEF winDaemon, winUser, winShown
<1>0. Following
  BY DEF Following, WindowNext, winVars, SendStateUpdate, Initiated, EntryGoesOn, TakesEntry,
     LongPinRefused, ChoiceFails, UserCancels, BackgroundEvent, LoopPanics, LoopEnds, DropLoop,
     HandleUpdate, UpdatesEnd, CloseAfterTimer, CloseCancelled, Close, CancelEventLoop, SessionStops,
     UserEnters, StartSettingNewPin
<1>1. ASSUME NEW s \in Sendable, SendStateUpdate(s) PROVE ShownInv'
  <2>1. UNCHANGED <<winUpdates, winScreen, winLoop, winState, winLocal>>
    BY <1>1 DEF SendStateUpdate
  <2>2. CASE UNCHANGED <<winLast, winWire>>
    BY <2>1, <2>2, ShownUntouched
  <2>3. CASE /\ winLast' = s /\ winWire' # <<>>
             /\ Len(winWire') = Len(winWire) + 1
             /\ winWire'[Len(winWire) + 1] = OnWire(BackgroundEventOf(s))
    <3>1. OnItsWay'
      BY <2>3 DEF OnItsWay
    <3>2. Queued' /\ OnScreen'
      BY <2>3 DEF Queued, OnScreen
    <3> QED
      BY <3>1, <3>2, ShownParts
  <2>4. winLoop # "ended"
    BY <1>0 DEF Following
  <2> QED
    BY <1>1, <2>2, <2>3, <2>4, Tells
<1>2. CASE Initiated
  <2>1. winEntries[1] = "initiated" /\ Len(winEntries) >= 1 /\ Len(winEntries) \in Nat
    BY <1>2, Takes DEF Initiated
  <2>2. winLast = Plain("idle")
    BY <2>1 DEF PhaseInv
  <2>3. UNCHANGED <<winLast, winWire>> /\ winLast.tag = "idle"
    BY <1>2, <2>2 DEF Initiated, Plain, Msg
  <2>4. winUpdates' # <<>>
    <3>1. Len(winUpdates') > 0
      BY <1>2, InitiatedGrows DEF Grows
    <3> QED
      BY <3>1, EmptySeq
  <2>5. OnItsWay
    BY <1>0, ShownParts
  <2>6. OnItsWay' /\ Queued' /\ OnScreen'
    BY <2>3, <2>4, <2>5 DEF OnItsWay, Queued, OnScreen
  <2> QED
    BY <2>6, ShownParts
<1>3. CASE BackgroundEvent
  BY <1>0, <1>3, ShownTranslates, ShownParts
<1>4. CASE HandleUpdate
  BY <1>0, <1>4, ShownHandles, ShownParts
<1>5. CASE StartSettingNewPin
  <2>1. UNCHANGED <<winLast, winWire, winUpdates>>
    BY <1>5 DEF StartSettingNewPin
  <2>2. OnItsWay /\ Queued /\ OnScreen
    BY <1>0, ShownParts
  <2>3. OnScreen'
    BY <1>5, <2>1, <2>2, NewPinShows DEF OnScreen
  <2>4. OnItsWay' /\ Queued'
    BY <2>1, <2>2 DEF OnItsWay, Queued
  <2> QED
    BY <2>3, <2>4, ShownParts
<1>6. EntryGoesOn \/ SessionStops \/ UNCHANGED winVars => ShownInv'
  BY ShownUntouched DEF EntryGoesOn, SessionStops, winVars
<1>7. ASSUME NEW k, UserEnters(k) PROVE ShownInv'
  BY <1>7, ShownUntouched DEF UserEnters
<1>8. LongPinRefused \/ ChoiceFails \/ UserCancels \/ DropLoop \/ UpdatesEnd \/ Close
        => ~Following'
  BY DEF LongPinRefused, ChoiceFails, UserCancels, DropLoop, UpdatesEnd, Close, Following
<1> QED
  BY <1>1, <1>2, <1>3, <1>4, <1>5, <1>6, <1>7, <1>8
     DEF WindowNext, LoopPanics, LoopEnds, CancelEventLoop, CloseAfterTimer, CloseCancelled

(* A window that has shown all it was told shows the last state sent: the  *)
(* conversions of send_state_update, of the notify methods and of the      *)
(* event loop lose nothing the user has to see, and a phone's states that  *)
(* come between a key's leave no stale page (dbus/ui_control.rs,           *)
(* gui/view_model/mod.rs, gui/view_model/gtk/mod.rs).                      *)
THEOREM LastStateShown == WindowSpec => []LastStateIsShown
<1>1. WindowInit => AskingInv /\ ShownInv
  <2> SUFFICES ASSUME WindowInit PROVE AskingInv /\ ShownInv
    OBVIOUS
  <2>1. /\ Len(winWire) = 0 /\ Len(winUpdates) = 0 /\ winPhase = "undiscovered"
        /\ winWire = <<>> /\ winUpdates = <<>> /\ winLast.tag = "idle"
    BY EmptySeq DEF WindowInit, Plain, Msg
  <2>2. AskingInv
    BY <2>1 DEF AskingInv
  <2>3. Shows(winLast)
    BY <2>1 DEF Shows, UsbIdling, ServiceErrors
  <2>4. ShownInv
    BY <2>1, <2>3 DEF ShownInv
  <2> QED
    BY <2>2, <2>4
<1>2. ShownInv => LastStateIsShown
  BY DEF ShownInv, Following, LastStateIsShown, UpToDate
<1> QED
  BY <1>1, <1>2, WindowStart, WindowTypesStep, PhaseStep, AskingStep, ShownStep, PTL DEF WindowSpec

----
(* The components beside each other.                                       *)

(* While one component runs the others stand still, so that each behaves   *)
(* as it does alone.                                                       *)
LEMMA SideBySide ==
  MCSpec => /\ HybridInit /\ [][HybridNext]_hybVars
            /\ GatewayInit /\ [][GatewayNext]_gwVars
            /\ WindowInit /\ [][WindowNext]_winVars
            /\ WebInit /\ [][WebNext]_webVars
<1> DEFINE all == <<component, hybVars, gwVars, winVars, webVars>>
<1>1. MCInit => HybridInit /\ GatewayInit /\ WindowInit /\ WebInit
  BY DEF MCInit
<1>2. [MCNext]_all => /\ [HybridNext]_hybVars /\ [GatewayNext]_gwVars
                      /\ [WindowNext]_winVars /\ [WebNext]_webVars
  BY DEF MCNext
<1> QED
  BY <1>1, <1>2, PTL DEF MCSpec

(* Every component's variables have their types while it runs beside the   *)
(* others (the streams and queues of credential_service/hybrid.rs,         *)
(* dbus/gateway, the window and the add-on).                               *)
THEOREM ComponentsTypeCorrect == MCSpec => []ComponentsTypeOK
<1>1. HybridTypeOK /\ GatewayTypeOK /\ WindowTypeOK /\ WebTypeOK => ComponentsTypeOK
  BY DEF ComponentsTypeOK
<1> QED
  BY <1>1, SideBySide, HybridTypesKept, GatewayTypesKept, WindowTypesKept, WebTypesKept, PTL
====
