---- MODULE UsbHandler ----
(***************************************************************************)
(* The USB transport handler of one ceremony                               *)
(* (credentialsd/src/credential_service/usb.rs): the state loop `process`, *)
(* the tasks that let every plugged-in key blink, the task that runs the   *)
(* operation on the chosen key (handle_events) and the one that relays the *)
(* key's questions (handle_usb_updates).                                   *)
(*                                                                         *)
(* `process` runs each round inside run_until_cancelled, which polls the   *)
(* round first and looks at the token only when the round waits            *)
(* (tokio-util 0.7.13): a cancelled round goes on as far as it need not    *)
(* wait, and is dropped where it must (Waits).                             *)
(***************************************************************************)
EXTENDS Naturals, Sequences

CONSTANTS
  Keys,            (* the security keys                                    *)
  NoKey,
  ListFailures,    (* failed listings after which the handler gives up (5) *)
  StreamCapacity,  (* bound of the channel to the state stream (32)        *)
  KeyErrors,       (* the errors of a key told apart                       *)
  MaxAttempts,     (* bound on the attempts a key reports                  *)
  MaxQuestions,    (* bound on the questions a key asks                    *)
  MaxAssertions    (* bound on the assertions a key returns                *)

ASSUME UsbAssumption ==
  /\ NoKey \notin Keys
  /\ {ListFailures, StreamCapacity, MaxAttempts, MaxAssertions} \subseteq Nat \ {0}
  /\ MaxQuestions \in Nat
  /\ KeyErrors \subseteq {"authenticator", "no_credentials", "excluded", "pin_exhausted"}

PinQuestions == {"needs_pin", "pin_not_set"}
Questions == PinQuestions \cup {"needs_uv", "needs_up"}
Errors == KeyErrors \cup {"no_credentials", "internal"}
FinalTags == {"completed"} \cup Errors
Tags == {"idle", "waiting", "selecting", "connected", "select_credential"}
          \cup Questions \cup FinalTags

(* A state (or message) and the number it carries: attempts left, number   *)
(* of assertions, or 0.                                                    *)
Counts == 0..MaxAttempts \cup 0..MaxAssertions
S(tag, n) == [tag |-> tag, n |-> n]
States == [tag : Tags, n : Counts]
Signals == [tag : Questions \cup KeyErrors \cup {"credentials", "cancelled"}, n : Counts]

VARIABLES
  state,      (* process's state                                           *)
  pc,         (* where process is in its round                             *)
  failures,   (* failed listings so far                                    *)
  listed,     (* the keys of the SelectingDevice state                     *)
  blink,      (* per key, its blinking task                                *)
  handles,    (* the keys whose cancel handle process holds                *)
  answers,    (* the channel from the blinking tasks                       *)
  operation,  (* the task of handle_events                                 *)
  keyWaits,   (* the key's operation waits for a PIN                       *)
  asked,      (* questions the key raised so far                           *)
  questions,  (* the key's questions, not yet relayed                      *)
  relay,      (* the question whose PIN handle_usb_updates waits for       *)
  signals,    (* the channel to process                                    *)
  stream,     (* the channel to the state stream                           *)
  open,       (* the state stream is still held                            *)
  seen,       (* the last state read from the stream                       *)
  cancelled   (* the request's token                                       *)

loopVars == <<state, pc, failures, listed>>
blinkVars == <<blink, handles, answers>>
keyVars == <<operation, keyWaits, asked, questions, relay>>
outVars == <<stream, open, seen, cancelled>>
vars == <<loopVars, blinkVars, keyVars, signals, outVars>>

NoQuestion == S("idle", 0)
InRound == {"poll", "setup", "choosing", "quieting", "calling_off"}

UsbTypeOK ==
  /\ state \in States /\ seen \in States
  /\ pc \in InRound \cup {"send", "stopped"}
  /\ {keyWaits, open, cancelled} \subseteq BOOLEAN
  /\ failures \in 0..ListFailures
  /\ listed \subseteq Keys /\ handles \subseteq Keys
  /\ blink \in [Keys -> {"off", "opening", "lit", "told"}]
  /\ answers \in Seq(Keys \cup {NoKey})
  /\ operation \in {"none", "opening", "running", "finished", "failed"}
  /\ asked \in 0..MaxQuestions
  /\ questions \in Seq(States) /\ relay \in States
  /\ signals \in Seq(Signals)
  /\ stream \in Seq(States) /\ Len(stream) <= StreamCapacity

Init ==
  /\ state = S("idle", 0) /\ pc = "poll"
  /\ failures = 0 /\ listed = {}
  /\ blink = [k \in Keys |-> "off"] /\ handles = {} /\ answers = <<>>
  /\ operation = "none" /\ keyWaits = FALSE /\ asked = 0
  /\ questions = <<>> /\ relay = NoQuestion
  /\ signals = <<>> /\ stream = <<>>
  /\ open = TRUE /\ seen = S("idle", 0) /\ cancelled = FALSE

----
(* The state loop.                                                         *)

(* Mutant of Changed: only the kind of state counts.                       *)
ChangedByKind(new, old) == new.tag # old.tag

(* A new state is sent when its kind differs from the last one's, and      *)
(* always for a PIN prompt.                                                *)
Changed(new, old) == new.tag # old.tag \/ new.tag \in PinQuestions

AfterSend(tag) == IF tag \in FinalTags THEN "stopped" ELSE "poll"

(* The round ends with a next state; without one to send, the next begins. *)
Advance(next) ==
  /\ state' = next
  /\ pc' = IF Changed(next, state) THEN "send" ELSE AfterSend(next.tag)

Listing == pc = "poll" /\ state.tag \in {"idle", "waiting"}

Interacting ==
  pc = "poll" /\ \/ state.tag \in Questions
                 \/ state.tag = "connected" /\ operation # "none"

(* Mutant of Waits: the wait for the user's choice does not look at the    *)
(* token.                                                                  *)
WaitsButForChoice ==
  \/ Listing
  \/ pc = "setup" /\ \E k \in Keys : blink[k] = "opening"
  \/ Interacting /\ signals = <<>>

(* Where a round can wait: for the devices (or the pause after them), for   *)
(* the keys being opened, for the operation's next message, for the user.  *)
(* A selection waiting for a touch has a branch of its own (CallOff).      *)
Waits ==
  \/ Listing
  \/ pc = "setup" /\ \E k \in Keys : blink[k] = "opening"
  \/ Interacting /\ signals = <<>>
  \/ pc = "poll" /\ state.tag = "select_credential"

(* Mutant of Stop: the token is looked at first, as later versions of      *)
(* run_until_cancelled do.                                                 *)
StopTokenFirst ==
  /\ cancelled /\ pc \in InRound
  /\ pc' = "stopped"
  /\ UNCHANGED <<state, failures, listed, blinkVars, keyVars, signals, outVars>>

(* run_until_cancelled drops the round.                                    *)
Stop ==
  /\ cancelled /\ Waits
  /\ pc' = "stopped"
  /\ UNCHANGED <<state, failures, listed, blinkVars, keyVars, signals, outVars>>

(* The new state goes to the stream; a stream that is gone ends the loop.  *)
Send ==
  /\ pc = "send"
  /\ IF open
     THEN /\ Len(stream) < StreamCapacity
          /\ stream' = Append(stream, state)
          /\ pc' = AfterSend(state.tag)
     ELSE pc' = "stopped" /\ UNCHANGED stream
  /\ UNCHANGED <<state, failures, listed, blinkVars, keyVars, signals>>
  /\ UNCHANGED <<open, seen, cancelled>>

(* process_idle_waiting.  The pauses end with the token.                   *)

ListNone ==
  /\ Listing /\ ~cancelled
  /\ Advance(S("waiting", 0))
  /\ UNCHANGED <<failures, listed, blinkVars, keyVars, signals, outVars>>

ListSome(K) ==
  /\ Listing
  /\ Advance(S("selecting", 0))
  /\ listed' = K
  /\ UNCHANGED <<failures, blinkVars, keyVars, signals, outVars>>

(* Mutant of GivesUp: one listing too many.                                *)
GivesUpLate(n) == n > ListFailures

GivesUp(n) == n = ListFailures

(* The failures are counted over the whole ceremony, never reset.          *)
ListFails ==
  /\ Listing
  /\ failures' = failures + 1
  /\ cancelled => GivesUp(failures')
  /\ Advance(IF GivesUp(failures') THEN S("internal", 0) ELSE state)
  /\ UNCHANGED <<listed, blinkVars, keyVars, signals, outVars>>

----
(* process_selecting_device.                                               *)

SpawnBlinkers ==
  /\ pc = "poll" /\ state.tag = "selecting"
  /\ blink' = [k \in Keys |-> IF k \in listed THEN "opening" ELSE blink[k]]
  /\ pc' = "setup"
  /\ UNCHANGED <<state, failures, listed, handles, answers>>
  /\ UNCHANGED <<keyVars, signals, outVars>>

(* A blinking task reports; nobody listens once the selection is over.     *)
Report(a) ==
  answers' = IF pc \in {"setup", "choosing"} THEN Append(answers, a) ELSE answers

(* The key's channel is open: its cancel handle goes to process; without a *)
(* receiver, the task panics before the key blinks.                        *)
BlinkOpens(k) ==
  /\ blink[k] = "opening"
  /\ IF pc = "setup"
     THEN blink' = [blink EXCEPT ![k] = "lit"] /\ handles' = handles \cup {k}
     ELSE blink' = [blink EXCEPT ![k] = "off"] /\ UNCHANGED handles
  /\ UNCHANGED <<answers, loopVars, keyVars, signals, outVars>>

(* The key cannot be opened, times out, is unplugged or was called off.    *)
BlinkEnds(k) ==
  /\ blink[k] # "off"
  /\ blink' = [blink EXCEPT ![k] = "off"]
  /\ Report(NoKey)
  /\ UNCHANGED <<handles, loopVars, keyVars, signals, outVars>>

Touch(k) ==
  /\ blink[k] \in {"lit", "told"}
  /\ blink' = [blink EXCEPT ![k] = "off"]
  /\ Report(k)
  /\ UNCHANGED <<handles, loopVars, keyVars, signals, outVars>>

(* Every task has handed over its cancel handle or given up.               *)
SetupDone ==
  /\ pc = "setup" /\ \A k \in Keys : blink[k] # "opening"
  /\ pc' = "choosing"
  /\ UNCHANGED <<state, failures, listed, blinkVars, keyVars, signals, outVars>>

AnswerNone ==
  /\ pc = "choosing" /\ answers # <<>> /\ Head(answers) = NoKey
  /\ answers' = Tail(answers)
  /\ UNCHANGED <<blink, handles, loopVars, keyVars, signals, outVars>>

AnswerKey ==
  /\ pc = "choosing" /\ answers # <<>> /\ Head(answers) # NoKey
  /\ handles' = handles \ {Head(answers)}
  /\ answers' = <<>>
  /\ pc' = "quieting"
  /\ UNCHANGED <<state, failures, listed, blink, keyVars, signals, outVars>>

(* The channel closes with no key touched.                                 *)
NoneChosen ==
  /\ pc = "choosing" /\ answers = <<>> /\ \A k \in Keys : blink[k] = "off"
  /\ Advance(S("idle", 0))
  /\ handles' = {}
  /\ UNCHANGED <<failures, listed, blink, answers, keyVars, signals, outVars>>

(* The selection waits for its next answer.                                *)
AwaitsAnswer == pc = "choosing" /\ answers = <<>> /\ \E k \in Keys : blink[k] # "off"

(* It finds the token cancelled.                                           *)
CallOff ==
  /\ AwaitsAnswer /\ cancelled
  /\ pc' = "calling_off"
  /\ UNCHANGED <<state, failures, listed, blinkVars, keyVars, signals, outVars>>

(* The token is cancelled after the selection looked at it and before the  *)
(* loop around it does: the selection is dropped with nobody told.         *)
CancelUnseen ==
  /\ AwaitsAnswer /\ ~cancelled
  /\ cancelled' = TRUE /\ pc' = "stopped"
  /\ UNCHANGED <<state, failures, listed, blinkVars, keyVars, signals>>
  /\ UNCHANGED <<stream, open, seen>>

(* Telling a key does not wait: its handle's channel has room for one      *)
(* message and this is the first.                                          *)
Tell(k) ==
  /\ pc \in {"quieting", "calling_off"} /\ k \in handles
  /\ handles' = handles \ {k}
  /\ blink' = IF blink[k] = "lit" THEN [blink EXCEPT ![k] = "told"] ELSE blink
  /\ UNCHANGED <<answers, loopVars, keyVars, signals, outVars>>

(* Mutant of QuietDone: the other keys are not called off.                 *)
QuietAtOnce ==
  /\ pc = "quieting"
  /\ Advance(S("connected", 0))
  /\ UNCHANGED <<failures, listed, blinkVars, keyVars, signals, outVars>>

QuietDone ==
  /\ pc = "quieting" /\ handles = {}
  /\ Advance(S("connected", 0))
  /\ UNCHANGED <<failures, listed, blinkVars, keyVars, signals, outVars>>

CalledOff ==
  /\ pc = "calling_off" /\ handles = {}
  /\ pc' = "stopped"
  /\ UNCHANGED <<state, failures, listed, blinkVars, keyVars, signals, outVars>>

----
(* The operation on the chosen key.                                        *)

(* The Connected round spawns handle_events.                               *)
SpawnOperation ==
  /\ pc = "poll" /\ state.tag = "connected" /\ operation = "none"
  /\ operation' = "opening"
  /\ UNCHANGED <<keyWaits, asked, questions, relay, loopVars, blinkVars, signals, outVars>>

ChannelOpens ==
  /\ operation = "opening"
  /\ operation' = "running"
  /\ UNCHANGED <<keyWaits, asked, questions, relay, loopVars, blinkVars, signals, outVars>>

(* The channel to the key cannot be opened: only logged.                   *)
ChannelFails ==
  /\ operation = "opening"
  /\ operation' = "failed"
  /\ UNCHANGED <<keyWaits, asked, questions, relay, loopVars, blinkVars, signals, outVars>>

(* The key asks something of the user; it waits for a PIN it asked for.    *)
KeyAsks(q) ==
  /\ operation = "running" /\ ~keyWaits /\ asked < MaxQuestions
  /\ asked' = asked + 1
  /\ questions' = Append(questions, q)
  /\ keyWaits' = (q.tag \in PinQuestions)
  /\ UNCHANGED <<operation, relay, loopVars, blinkVars, signals, outVars>>

(* A message to process, lost once process has ended.                      *)
Signal(m) == signals' = IF pc = "stopped" THEN signals ELSE Append(signals, m)

(* handle_usb_updates passes a question on and then waits for its PIN.     *)
Relay ==
  /\ relay = NoQuestion /\ questions # <<>>
  /\ operation = "running" \/ pc # "stopped"
  /\ questions' = Tail(questions)
  /\ Signal(Head(questions))
  /\ relay' = IF Head(questions).tag \in PinQuestions THEN Head(questions) ELSE NoQuestion
  /\ UNCHANGED <<operation, keyWaits, asked, loopVars, blinkVars, outVars>>

(* The user answers the prompt on the screen: its sender is used up.  (An  *)
(* entry for an older prompt finds that prompt's receiver gone.)           *)
EnterPin ==
  /\ relay # NoQuestion
  /\ seen.tag \in PinQuestions /\ signals = <<>> /\ stream = <<>> /\ pc = "poll"
  /\ relay' = NoQuestion /\ keyWaits' = FALSE
  /\ UNCHANGED <<operation, asked, questions, loopVars, blinkVars, signals, outVars>>

(* The last sender of a prompt is gone: the key's operation goes on.       *)
PinChannelCloses ==
  /\ relay # NoQuestion /\ pc = "stopped"
  /\ relay' = NoQuestion /\ keyWaits' = FALSE
  /\ UNCHANGED <<operation, asked, questions, loopVars, blinkVars, signals, outVars>>

(* Mutant of KeyAnswers: an error is only logged.                          *)
KeyAnswersLoggingErrors(m) ==
  /\ operation = "running" /\ ~keyWaits
  /\ operation' = "finished"
  /\ IF m.tag = "credentials" THEN Signal(m) ELSE UNCHANGED signals
  /\ UNCHANGED <<keyWaits, asked, questions, relay, loopVars, blinkVars, outVars>>

(* The operation ends with n assertions (or one new credential), or with   *)
(* an error.                                                               *)
KeyAnswers(m) ==
  /\ operation = "running" /\ ~keyWaits
  /\ operation' = "finished"
  /\ Signal(m)
  /\ UNCHANGED <<keyWaits, asked, questions, relay, loopVars, blinkVars, outVars>>

(* handle_events finds the token cancelled and calls the key off.          *)
OperationCancelled ==
  /\ operation = "running" /\ cancelled
  /\ operation' = "finished" /\ keyWaits' = FALSE
  /\ Signal(S("cancelled", 0))
  /\ UNCHANGED <<asked, questions, relay, loopVars, blinkVars, outVars>>

----
(* process_user_interaction and process_select_credential.                 *)

NextState(m) ==
  IF m.tag # "credentials" THEN m
  ELSE IF m.n = 1 THEN S("completed", 0) ELSE S("select_credential", m.n)

(* RequestCancelled ends the loop without a word.                          *)
Silenced(m) == m.tag = "cancelled"

Interact ==
  /\ Interacting /\ signals # <<>>
  /\ LET m == Head(signals)
     IN  IF Silenced(m)
         THEN pc' = "stopped" /\ UNCHANGED state
         ELSE Advance(NextState(m))
  /\ signals' = Tail(signals)
  /\ UNCHANGED <<failures, listed, blinkVars, keyVars, outVars>>

(* The user picks a credential from the list on the screen; an id that     *)
(* matches nothing ends with NoCredentials.                                *)
PickCredential(known) ==
  /\ pc = "poll" /\ state.tag = "select_credential"
  /\ stream = <<>> /\ seen = state
  /\ known => state.n > 0
  /\ Advance(S(IF known THEN "completed" ELSE "no_credentials", 0))
  /\ UNCHANGED <<failures, listed, blinkVars, keyVars, signals, outVars>>

----
(* The other end of the stream, and the request's token.                   *)

Take ==
  /\ open /\ stream # <<>>
  /\ seen' = Head(stream) /\ stream' = Tail(stream)
  /\ UNCHANGED <<open, cancelled, loopVars, blinkVars, keyVars, signals>>

Hangup ==
  /\ open /\ open' = FALSE
  /\ UNCHANGED <<stream, seen, cancelled, loopVars, blinkVars, keyVars, signals>>

Cancel ==
  /\ ~cancelled /\ cancelled' = TRUE
  /\ UNCHANGED <<stream, open, seen, loopVars, blinkVars, keyVars, signals>>

----
Loop ==
  \/ Send \/ SpawnBlinkers \/ SetupDone \/ AnswerNone \/ AnswerKey \/ NoneChosen
  \/ QuietDone \/ CalledOff \/ SpawnOperation \/ Interact \/ \E k \in Keys : Tell(k)

List == ListNone \/ ListFails \/ \E K \in SUBSET Keys \ {{}} : ListSome(K)

(* A prompt carries the attempts left, or the reason for a new PIN.        *)
KeyQuestions ==
  {S(q, n) : q \in Questions \ {"needs_up"}, n \in 0..MaxAttempts} \cup {S("needs_up", 0)}

KeyResults ==
  {S("credentials", n) : n \in 0..MaxAssertions} \cup {S(e, 0) : e \in KeyErrors}

Environment ==
  \/ ChannelOpens \/ ChannelFails \/ EnterPin \/ Take \/ Hangup \/ Cancel
  \/ \E k \in Keys : BlinkOpens(k) \/ BlinkEnds(k) \/ Touch(k)
  \/ \E q \in KeyQuestions : KeyAsks(q)
  \/ \E m \in KeyResults : KeyAnswers(m)
  \/ \E known \in BOOLEAN : PickCredential(known)

Next ==
  Loop \/ List \/ Stop \/ CallOff \/ CancelUnseen \/ Relay \/ PinChannelCloses \/ OperationCancelled \/ Environment

Spec == Init /\ [][Next]_vars

(* The handler's tasks are scheduled and the stream is read until it is    *)
(* hung up.  A round that could wait again and again is stopped in the     *)
(* end: tokio makes a task wait that has used up its budget.  Keys and     *)
(* users owe nothing.                                                      *)
Fairness ==
  /\ WF_vars(Loop) /\ WF_vars(CallOff) /\ SF_vars(Stop)
  /\ WF_vars(Relay) /\ WF_vars(Take)

FairSpec == Spec /\ Fairness

----
(* Properties.                                                             *)

(* Once the handler works with the touched key, no other key is left       *)
(* blinking untold.                                                        *)
ChosenAlone ==
  state.tag \in {"connected", "select_credential"} \cup Questions =>
    \A k \in Keys : blink[k] # "lit"

(* Stop all blinking devices: a selection that waits for a touch when the  *)
(* request is cancelled does not end before every key is told.             *)
ParkedSelectionGoesDark ==
  [][cancelled /\ pc \in {"choosing", "calling_off"} /\ pc' = "stopped" =>
       \A k \in Keys : blink[k] # "lit"]_vars

(* A PIN prompt reaches the window each time the key asks, with the        *)
(* attempts it has left: while a prompt is unanswered and nothing is under *)
(* way, it is the prompt on the screen.                                    *)
PromptOnScreen ==
  relay # NoQuestion /\ pc = "poll" /\ signals = <<>> /\ stream = <<>> /\ open =>
    seen = relay

(* What the key answered ends the ceremony or is put before the user.      *)
ResultSettles ==
  operation = "finished" ~>
    \/ pc = "stopped" \/ cancelled
    \/ state.tag = "select_credential" /\ seen = state
    \/ ~open

(* A cancelled handler ends, whatever its keys, its user and its stream's  *)
(* reader do: at no await of `process` is it left waiting.                 *)
CancelledHandlerStops == cancelled ~> pc = "stopped"

(* process_selecting_device: "The request was cancelled (...). Stop all     *)
(* blinking devices."  A cancelled selection leaves no key blinking.       *)
CancelStopsBlinking ==
  [][cancelled /\ state.tag = "selecting" /\ pc # "stopped" /\ pc' = "stopped" =>
       \A k \in Keys : blink[k] # "lit"]_vars
====
