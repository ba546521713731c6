---- MODULE Window ----
(***************************************************************************)
(* What the window of a ceremony shows: the states the daemon sends over   *)
(* D-Bus (send_state_update in credentialsd/src/dbus/ui_control.rs, the    *)
(* notify methods in credentialsd-ui/src/dbus.rs), the view model's event  *)
(* loop (gui/view_model/mod.rs), and the GTK view model and window that    *)
(* carry out its updates (gui/view_model/gtk/).                            *)
(*                                                                         *)
(* What the user enters goes on from the event loop to the session's       *)
(* forwarder, which module UiSession describes, as it does a session that  *)
(* breaks down.  A text is named, not spelt.                               *)
(***************************************************************************)
EXTENDS Integers, Sequences

CONSTANTS
  MaxU32,       (* the largest u32, which stands for an unknown count      *)
  Attempts,     (* counts of attempts left that a key may give             *)
  MaxSent,      (* bound on the states the daemon sends                    *)
  MaxPending,   (* bound on what is on its way when a state is sent        *)
  MaxCommits    (* bound on the entries the user makes                     *)

Unknown == -1

ASSUME WindowAssumption ==
  /\ {MaxU32, MaxSent, MaxPending, MaxCommits} \subseteq Nat
  /\ Attempts \subseteq 0..MaxU32 \cup {Unknown}

Reasons == {"pin_not_set", "too_short", "too_long", "policy", "change_required"}
NoReason == "no_reason"

Msg(tag, n, why) == [tag |-> tag, n |-> n, why |-> why]
Plain(tag) == Msg(tag, Unknown, NoReason)

(* The states of the two handlers, and the errors of the service.          *)
UsbIdling == {"idle", "waiting", "selecting"}
ServiceErrors == {"authenticator", "no_credentials", "excluded", "pin_exhausted", "internal"}
Ends == ServiceErrors \cup {"completed"}
KeyPrompts ==
  {Msg(t, n, NoReason) : t \in {"needs_pin", "needs_uv"}, n \in Attempts}
  \cup {Msg("pin_not_set", Unknown, r) : r \in Reasons}
  \cup {Plain("needs_up")}
PhoneStates == {"init", "phone_connecting", "phone_connected"}
Messages ==
  [tag : {"needs_pin", "needs_uv", "needs_up", "pin_not_set", "connected", "credentials"}
         \cup UsbIdling \cup PhoneStates \cup Ends,
   n : 0..MaxU32 \cup {Unknown}, why : Reasons \cup {NoReason}]

(* Mutant of BackgroundEventOf: another error takes the same arm.          *)
BackgroundEventMerged(s) ==
  IF s.tag \in {"pin_exhausted", "excluded"} THEN Plain("authenticator") ELSE s

(* From<&UsbState> and From<&HybridState>: used up PIN attempts become a   *)
(* general error.                                                          *)
BackgroundEventOf(s) == IF s.tag = "pin_exhausted" THEN Plain("authenticator") ELSE s

(* The codes of notify_error_occurred.                                     *)
ErrorCodes == <<"internal", "timed_out", "cancelled", "authenticator", "no_credentials",
                "excluded", "pin_exhausted", "pin_required">>
CodeOf(e) == CHOOSE c \in DOMAIN ErrorCodes : ErrorCodes[c] = e

(* send_state_update: some events are not sent; a count that is not known  *)
(* is sent as the largest number.                                          *)
NotSent(e) == e.tag \in UsbIdling

(* Mutant of OnWire: no sentinel for a count that is not known.            *)
OnWireZero(e) ==
  CASE e.tag \in {"needs_pin", "needs_uv"} ->
         [method |-> e.tag, arg |-> IF e.n = Unknown THEN 0 ELSE e.n, why |-> NoReason]
    [] e.tag \in ServiceErrors -> [method |-> "error", arg |-> CodeOf(e.tag), why |-> NoReason]
    [] OTHER -> [method |-> e.tag, arg |-> Unknown, why |-> e.why]

OnWire(e) ==
  CASE e.tag \in {"needs_pin", "needs_uv"} ->
         [method |-> e.tag, arg |-> IF e.n = Unknown THEN MaxU32 ELSE e.n, why |-> NoReason]
    [] e.tag \in ServiceErrors -> [method |-> "error", arg |-> CodeOf(e.tag), why |-> NoReason]
    [] OTHER -> [method |-> e.tag, arg |-> Unknown, why |-> e.why]

(* The notify methods turn a call back into an event.                      *)
Received(w) ==
  CASE w.method \in {"needs_pin", "needs_uv"} ->
         Msg(w.method, IF w.arg = MaxU32 THEN Unknown ELSE w.arg, NoReason)
    [] w.method = "error" -> Plain(ErrorCodes[w.arg])
    [] OTHER -> Msg(w.method, w.arg, w.why)

(* The texts of the errors in the event loop.                              *)
MessageOf(e) == IF e \in {"authenticator", "internal"} THEN "something_wrong" ELSE e

(* Mutant of UpdatesOf: one event is not translated.                       *)
UpdatesOfRaw(e) ==
  CASE e.tag = "phone_connecting" -> <<Plain("waiting_phone"), e>>
    [] e.tag \in ServiceErrors -> <<Msg("failed", Unknown, MessageOf(e.tag))>>
    [] OTHER -> <<e>>

(* The updates the event loop makes of an event.                           *)
UpdatesOf(e) ==
  CASE e.tag = "connected" -> <<Plain("waiting_usb")>>
    [] e.tag = "phone_connecting" -> <<Plain("waiting_phone"), e>>
    [] e.tag \in ServiceErrors -> <<Msg("failed", Unknown, MessageOf(e.tag))>>
    [] OTHER -> <<e>>

(* The view model's updates of the window.                                 *)
ViewUpdates ==
  {"title", "devices", "credentials", "waiting_usb", "waiting_phone", "needs_pin", "pin_not_set",
   "needs_uv", "needs_up", "init", "phone_connecting", "phone_connected", "completed",
   "cancelled", "failed"}

----
(* The window.                                                             *)

Pages == {"start_page", "usb_or_nfc", "hybrid_qr", "choose_credential", "set_new_pin",
          "completed", "failed"}

(* The pages that have a label for the prompt (window.blp).                *)
PromptPages == {"usb_or_nfc", "hybrid_qr", "failed"}

Text(t, n) == [text |-> t, n |-> n]

(* The texts for PinNotSet.                                                *)
PinText(r) ==
  CASE r = "pin_not_set" -> "pin_required"
    [] r \in {"too_short", "policy"} -> "pin_violates_policy"
    [] r = "too_long" -> "pin_too_long"
    [] r = "change_required" -> "pin_change"

FirstScreen ==
  [page |-> "start_page", prompt |-> Text("", Unknown), pinEntry |-> FALSE,
   setPinButton |-> FALSE, qrCode |-> FALSE, spinner |-> FALSE]

(* Every update first takes these away.                                    *)
Cleared(s) == [s EXCEPT !.pinEntry = FALSE, !.setPinButton = FALSE]

(* waiting_for_device: the prompt, and the page of the selected device.    *)
WaitingForDevice(s, transport) ==
  IF transport = "usb"
  THEN [s EXCEPT !.prompt = Text("insert_key", Unknown), !.page = "usb_or_nfc"]
  ELSE [s EXCEPT !.prompt = Text("", Unknown), !.page = "hybrid_qr"]

(* update_credentials.                                                     *)
UpdateCredentials(s) == [s EXCEPT !.page = "choose_credential"]

(* What an update makes of the screen, the handlers of the window that it  *)
(* sets off included.                                                      *)
Handled(u, before) ==
  LET s == Cleared(before) IN
  CASE u.tag = "waiting_usb" -> WaitingForDevice(s, "usb")
    [] u.tag = "needs_pin" ->
         [s EXCEPT !.prompt = Text("enter_pin", u.n), !.pinEntry = TRUE, !.page = "usb_or_nfc"]
    [] u.tag = "needs_uv" -> [s EXCEPT !.prompt = Text("touch", u.n)]
    [] u.tag = "needs_up" -> [s EXCEPT !.prompt = Text("touch", Unknown)]
    [] u.tag = "pin_not_set" ->
         [s EXCEPT !.prompt = Text(PinText(u.why), Unknown), !.setPinButton = TRUE,
                   !.page = "failed"]
    [] u.tag = "credentials" -> UpdateCredentials(s)
    [] u.tag = "init" -> [s EXCEPT !.prompt = Text("scan_qr", Unknown), !.qrCode = TRUE]
    [] u.tag = "waiting_phone" -> WaitingForDevice(s, "phone")
    [] u.tag = "phone_connecting" ->
         [WaitingForDevice(s, "phone") EXCEPT
            !.prompt = Text("connecting", Unknown), !.qrCode = FALSE, !.spinner = TRUE]
    [] u.tag = "phone_connected" ->
         [s EXCEPT !.prompt = Text("follow_phone", Unknown), !.qrCode = FALSE, !.spinner = FALSE]
    [] u.tag = "completed" -> [s EXCEPT !.page = "completed", !.spinner = FALSE]
    [] u.tag = "failed" ->
         [s EXCEPT !.prompt = Text(u.why, Unknown), !.page = "failed", !.spinner = FALSE]
    [] u.tag \in {"title", "devices", "cancelled"} -> s

VARIABLES
  winPhase,    (* how far the security key has got                         *)
  winLast,     (* the last state sent that the window is told of           *)
  winSent,     (* states sent so far                                       *)
  winWire,     (* notifications on their way to the event loop             *)
  winEntries,  (* what the user entered, on its way to the event loop      *)
  winCommits,  (* entries so far                                           *)
  winLoop,     (* the task of the event loop                               *)
  winUpdates,  (* the updates on their way to the window                   *)
  winScreen,   (* what the window shows                                    *)
  winTimer,    (* the window closes soon after completion                  *)
  winState,    (* the window is open, about to close, or closed            *)
  winLocal     (* the event loop told the window something of its own      *)

winDaemon == <<winPhase, winLast, winSent>>
winUser == <<winEntries, winCommits>>
winShown == <<winScreen, winTimer>>
winVars == <<winDaemon, winWire, winUser, winLoop, winUpdates, winShown, winState, winLocal>>

WindowTypeOK ==
  /\ winPhase \in {"undiscovered", "finding", "asking", "choosing", "over"}
  /\ winLast \in Messages
  /\ winSent \in 0..MaxSent /\ winCommits \in 0..MaxCommits
  /\ Len(winWire) <= winSent
  /\ winEntries \in Seq({"initiated", "pin", "new_pin", "long_pin", "credential", "cancel"})
  /\ winLoop \in {"running", "ending", "ended"}
  /\ \A i \in DOMAIN winUpdates : winUpdates[i].tag \in ViewUpdates
  /\ winScreen.page \in Pages
  /\ winState \in {"open", "closing", "closed"}
  /\ {winTimer, winLocal} \subseteq BOOLEAN

WindowInit ==
  /\ winPhase = "undiscovered" /\ winLast = Plain("idle") /\ winSent = 0
  /\ winWire = <<>> /\ winEntries = <<"initiated">> /\ winCommits = 0
  /\ winLoop = "running" /\ winUpdates = <<>>
  /\ winScreen = FirstScreen /\ winTimer = FALSE
  /\ winState = "open" /\ winLocal = FALSE

----
(* The daemon.                                                             *)

(* A key asks once it is chosen, and after a list of credentials it can    *)
(* only end; a phone may be anywhere.  The first end is the last state.    *)
Sendable ==
  (IF winPhase = "finding" THEN {Plain(t) : t \in UsbIdling \cup {"connected"}} ELSE {})
  \cup (IF winPhase = "asking" THEN KeyPrompts \cup {Plain("credentials")} ELSE {})
  \cup (IF winPhase \in {"undiscovered", "over"}
        THEN {} ELSE {Plain(t) : t \in PhoneStates \cup Ends})

(* Mutant of PhaseAfter: an end is a state like any other.                 *)
PhaseAfterEndless(s) ==
  CASE s.tag = "connected" -> "asking"
    [] s.tag = "credentials" -> "choosing"
    [] OTHER -> winPhase

PhaseAfter(s) ==
  CASE s.tag = "connected" -> "asking"
    [] s.tag = "credentials" -> "choosing"
    [] s.tag \in Ends -> "over"
    [] OTHER -> winPhase

(* What a closed window would be sent is left out.                         *)
(* What is sent to an event loop that has ended goes nowhere.              *)
Arriving(queue, m) == IF winLoop = "ended" THEN queue ELSE Append(queue, m)

SendStateUpdate(s) ==
  /\ winState # "closed" /\ winSent < MaxSent /\ Len(winWire \o winUpdates) < MaxPending
  /\ winSent' = winSent + 1
  /\ winPhase' = PhaseAfter(s)
  /\ LET e == BackgroundEventOf(s) IN
       IF NotSent(e) THEN UNCHANGED <<winLast, winWire>>
       ELSE winLast' = s /\ winWire' = Arriving(winWire, OnWire(e))
  /\ UNCHANGED <<winUser, winLoop, winUpdates, winShown, winState, winLocal>>

----
(* The event loop.                                                         *)

TakesEntry(k) ==
  /\ winLoop = "running" /\ winEntries # <<>> /\ Head(winEntries) = k
  /\ winEntries' = Tail(winEntries)
  /\ UNCHANGED winCommits

Initiated ==
  /\ TakesEntry("initiated")
  /\ winUpdates' = winUpdates \o <<Plain("title"), Plain("devices")>>
  /\ winPhase' = "finding"
  /\ UNCHANGED <<winLast, winSent, winWire, winLoop, winShown, winState, winLocal>>

(* A PIN, a new PIN or a choice goes on to the session; a PIN that is too  *)
(* long or that nobody takes any more is only logged.                      *)
EntryGoesOn ==
  /\ \E k \in {"pin", "new_pin", "credential"} : TakesEntry(k)
  /\ UNCHANGED <<winDaemon, winWire, winLoop, winUpdates, winShown, winState, winLocal>>

(* A new PIN that is too long is refused without asking the key.           *)
LongPinRefused ==
  /\ TakesEntry("long_pin")
  /\ winUpdates' = Append(winUpdates, Msg("pin_not_set", Unknown, "too_long"))
  /\ winLocal' = TRUE
  /\ UNCHANGED <<winDaemon, winWire, winLoop, winShown, winState>>

(* The session's forwarder has gone: select_credential fails, and the      *)
(* window is told so.                                                      *)
ChoiceFails ==
  /\ TakesEntry("credential")
  /\ winUpdates' = Append(winUpdates, Msg("failed", Unknown, "choice_failed"))
  /\ winLocal' = TRUE
  /\ UNCHANGED <<winDaemon, winWire, winLoop, winShown, winState>>

UserCancels ==
  /\ TakesEntry("cancel")
  /\ winUpdates' = Append(winUpdates, Plain("cancelled"))
  /\ winLoop' = "ending"
  /\ UNCHANGED <<winDaemon, winWire, winShown, winState, winLocal>>

BackgroundEvent ==
  /\ winLoop = "running" /\ winWire # <<>>
  /\ winWire' = Tail(winWire)
  /\ winUpdates' = winUpdates \o UpdatesOf(Received(Head(winWire)))
  /\ UNCHANGED <<winDaemon, winUser, winLoop, winShown, winState, winLocal>>

(* The task drops its channels.                                            *)
DropLoop ==
  /\ winLoop' = "ended"
  /\ winWire' = <<>> /\ winEntries' = <<>>
  /\ UNCHANGED <<winDaemon, winCommits, winUpdates, winShown, winState, winLocal>>

(* The session is gone at the first request, or the QR code cannot be      *)
(* read: unwrap panics.                                                    *)
LoopPanics ==
  /\ winLoop = "running"
  /\ \/ winEntries # <<>> /\ Head(winEntries) = "initiated"
     \/ winWire # <<>> /\ Head(winWire).method = "init"
  /\ DropLoop

(* The request is cancelled at the daemon, then the channel closes.        *)
LoopEnds ==
  /\ winLoop = "ending"
  /\ DropLoop

----
(* The window.                                                             *)

(* Mutant of HandleUpdate: completion does not close the window.           *)
HandleUpdateUntimed ==
  /\ winState # "closed" /\ winUpdates # <<>>
  /\ winUpdates' = Tail(winUpdates)
  /\ LET u == Head(winUpdates) IN
       /\ winScreen' = Handled(u, winScreen)
       /\ winState' = IF u.tag = "cancelled" THEN "closing" ELSE winState
  /\ UNCHANGED <<winDaemon, winWire, winUser, winLoop, winLocal, winTimer>>

HandleUpdate ==
  /\ winState # "closed" /\ winUpdates # <<>>
  /\ winUpdates' = Tail(winUpdates)
  /\ LET u == Head(winUpdates) IN
       /\ winScreen' = Handled(u, winScreen)
       /\ winTimer' = (winTimer \/ u.tag = "completed")
       /\ winState' = IF u.tag = "cancelled" THEN "closing" ELSE winState
  /\ UNCHANGED <<winDaemon, winWire, winUser, winLoop, winLocal>>

(* The channel of the updates is closed.                                   *)
UpdatesEnd ==
  /\ winState = "open" /\ winUpdates = <<>> /\ winLoop = "ended"
  /\ winState' = "closing"
  /\ UNCHANGED <<winDaemon, winWire, winUser, winLoop, winUpdates, winShown, winLocal>>

(* close_request, which tells the event loop that the user cancelled; the  *)
(* application ends with its window, and run_gui stops the event loop.     *)
Close ==
  /\ winState # "closed"
  /\ winState' = "closed"
  /\ winEntries' = Arriving(winEntries, "cancel")
  /\ UNCHANGED <<winDaemon, winCommits, winWire, winLoop, winUpdates, winShown, winLocal>>

CloseAfterTimer == winTimer /\ Close
CloseCancelled == winState = "closing" /\ Close

CancelEventLoop ==
  /\ winState = "closed" /\ winLoop # "ended"
  /\ DropLoop

(* The client or the daemon's bus name goes: the session tells the window  *)
(* to stop.                                                                *)
SessionStops ==
  /\ winState # "closed" /\ winCommits < MaxCommits
  /\ winCommits' = winCommits + 1
  /\ winEntries' = Arriving(winEntries, "cancel")
  /\ UNCHANGED <<winDaemon, winWire, winLoop, winUpdates, winShown, winState, winLocal>>

(* The user enters something that the page offers.                         *)
Offered ==
  (IF winScreen.pinEntry THEN {"pin"} ELSE {})
  \cup (IF winScreen.page = "set_new_pin" THEN {"new_pin", "long_pin"} ELSE {})
  \cup (IF winScreen.page = "choose_credential" THEN {"credential"} ELSE {})

UserEnters(k) ==
  /\ k \in Offered /\ winState # "closed" /\ winCommits < MaxCommits
  /\ winCommits' = winCommits + 1
  /\ winEntries' = Arriving(winEntries, k)
  /\ UNCHANGED <<winDaemon, winWire, winLoop, winUpdates, winShown, winState, winLocal>>

StartSettingNewPin ==
  /\ winState # "closed" /\ winScreen.page = "failed" /\ winScreen.setPinButton
  /\ winScreen' = [winScreen EXCEPT !.page = "set_new_pin"]
  /\ UNCHANGED <<winDaemon, winWire, winUser, winLoop, winUpdates, winTimer, winState, winLocal>>

----
TheLoop ==
  Initiated \/ EntryGoesOn \/ LongPinRefused \/ ChoiceFails \/ UserCancels \/ BackgroundEvent
TheWindow == HandleUpdate \/ UpdatesEnd

WindowNext ==
  \/ \E s \in Sendable : SendStateUpdate(s)
  \/ Initiated \/ EntryGoesOn \/ LongPinRefused \/ ChoiceFails \/ UserCancels
  \/ BackgroundEvent
  \/ LoopPanics \/ LoopEnds
  \/ HandleUpdate \/ UpdatesEnd
  \/ CloseAfterTimer \/ CloseCancelled \/ Close \/ CancelEventLoop
  \/ SessionStops \/ StartSettingNewPin
  \/ \E k \in {"pin", "new_pin", "long_pin", "credential"} : UserEnters(k)

(* The event loop or GTK's main loop, timers included, runs while either   *)
(* can; the user owes nothing.                                             *)
WindowRuns ==
  \/ TheLoop \/ LoopEnds \/ CancelEventLoop
  \/ TheWindow \/ CloseAfterTimer \/ CloseCancelled

WindowFairness == WF_winVars(WindowRuns)

WindowSpec == WindowInit /\ [][WindowNext]_winVars /\ WindowFairness

----
(* Properties.                                                             *)

(* The window has shown all it was told, and all came from the daemon.     *)
UpToDate ==
  winState = "open" /\ winWire = <<>> /\ winUpdates = <<>> /\ winLoop = "running" /\ ~winLocal

(* What the service's last state should have the user see; used up PIN     *)
(* attempts are shown as a general error (usb.rs:705), and a touch asked   *)
(* for while the user is at the page for a new PIN, or a phone's progress  *)
(* while a page without a prompt is up, is not seen at all.                *)
Shows(s) ==
  CASE s.tag = "needs_pin" ->
         winScreen.pinEntry /\ winScreen.prompt = Text("enter_pin", IF s.n = MaxU32 THEN Unknown ELSE s.n)
    [] s.tag \in {"needs_up", "needs_uv"} ->
         /\ winScreen.prompt.text = "touch"
         /\ winScreen.page \in PromptPages \cup {"set_new_pin"}
    [] s.tag = "pin_not_set" ->
         winScreen.page = "set_new_pin"
         \/ (winScreen.page = "failed" /\ winScreen.setPinButton
             /\ winScreen.prompt.text = PinText(s.why))
    [] s.tag = "credentials" -> winScreen.page = "choose_credential"
    [] s.tag = "connected" -> winScreen.page = "usb_or_nfc"
    [] s.tag = "phone_connecting" -> winScreen.page = "hybrid_qr" /\ winScreen.spinner
    [] s.tag = "phone_connected" ->
         winScreen.prompt.text = "follow_phone" /\ ~winScreen.qrCode /\ ~winScreen.spinner
    [] s.tag = "init" -> winScreen.qrCode
    [] s.tag = "completed" -> winScreen.page = "completed"
    [] s.tag \in ServiceErrors ->
         /\ winScreen.page = "failed" /\ ~winScreen.setPinButton
         /\ winScreen.prompt.text
              = IF s.tag = "pin_exhausted" THEN "something_wrong" ELSE MessageOf(s.tag)
    [] s.tag \in UsbIdling -> TRUE

(* A window that is up to date shows the service's last state: its page,   *)
(* its prompt and its way to answer survive the wire, the event loop and   *)
(* two interleaved transports.                                             *)
LastStateIsShown == UpToDate => Shows(winLast)

(* Nothing the daemon sends takes "Done!" off the screen again.  What can  *)
(* is what the event loop tells of its own: a new PIN it refused, or a     *)
(* choice of credential it could not hand over.                            *)
CompletedPageStays ==
  [][winScreen.page = "completed" /\ winScreen'.page # "completed"
     => winLocal]_winVars

(* A window whose ceremony completed, or whose event loop has ended,       *)
(* closes without the user.                                                *)
FinishedWindowCloses ==
  (winScreen.page = "completed" \/ winLoop # "running") ~> winState = "closed"
====
