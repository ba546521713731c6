# credentialsd: formal specification

TLA+ specifications of credentialsd, the daemon that serves WebAuthn requests of
Linux applications over D-Bus: what runs concurrently in it, what its parts promise each other, which of these promises TLC has
checked on small instances, and which TLAPS has proved for all instances.

Paths below are relative to the repository; `mod.rs`, `usb.rs`, `hybrid.rs` and `nfc.rs` are
in `credentialsd/src/credential_service/`, `flow_control.rs` and `ui_control.rs` in
`credentialsd/src/dbus/`, `dbus.rs`, `client.rs` and `gui/` in `credentialsd-ui/src/`.

## 1. The system

A client (an application through the portal, or a browser through the add-on and the
native-messaging shim) calls `CreateCredential` or `GetCredential`. The request takes this way:

    client -> gateway -> channel(2) -> flow controller -> credential service -> USB / hybrid handler
                                          ^    |               (one slot)            |
                                          |    v                                     v
                              UI control client <--- forwarding task <--- merged state streams
                                          ^    |
                               signals    |    v  Notify* calls
                              UI process (session object, GUI thread)

| Component | State it keeps | Operations | What makes it correct |
|---|---|---|---|
| Gateway (`gateway/dbus.rs`, `gateway/mod.rs`) | an async mutex around the gateway service | the D-Bus methods; origin, app and option validation | a call returns, with its own request's answer; only a privileged app speaks for two origins (an unprivileged one names any, see section 5) |
| Flow controller (`flow_control.rs`) | the listener, one interaction loop per window with its cancellation token and three prompt slots, one forwarding task per discovery | `handle`, the interaction loop, `forward_background_event_stream`, `request_credential` | prompts, entries, cancellations and answers go to their own request; nothing waits for ever |
| Credential service (`mod.rs`) | `ctx`: the slot with request, id, token and response sender | `init_request`, `cancel_request`, `start_discovery`, polling of the streams, `complete_request` | one ceremony at a time, each answered exactly once by its own outcome |
| USB handler (`usb.rs`) | the state of `process`, failed listings, blinking tasks and their cancel handles, the operation's task, the relay of its questions | listing, selection, operation, prompts, cancellation | only the touched key stays active; every prompt is shown; the result ends the ceremony; a cancelled handler calls the keys off and ends |
| Hybrid handler (`hybrid.rs`) | two nested tasks, an update relay, a channel(16) | QR code, tunnel, operation | the QR code first; one final state; a cancelled handler ends |
| NFC handler (`nfc.rs`) | like USB | not called: `start_discovery` has its block commented out | - |
| UI control client (`ui_control.rs`) | merged signal streams, a channel(32) to the loop | `create_session`, `send_state_update`, `subscribe_ui_events` | no event lost or overtaken |
| UI backend (`credentialsd-ui/src/dbus.rs`, `client.rs`) | a session object per request, its cancellation task, event forwarder, `emit_closed_signal` | `CreateSession` (which may be refused when it registers the session), `Notify*`, `Close`, shutdown | `Closed` at most once; the GUI learns that a session ended |
| GUI (`credentialsd-ui/src/gui`) | view model, widgets | event loop of the view model | shows the last state |
| Sealed memory file (`credentialsd-common/src/memfd.rs`) | - | write and read of a secret | - |
| Add-on and shim (`webext/`) | pending promises by id; one process per request | registration with the portal, routing | each page request is settled once, by its own response |

Hard behaviours. `main.rs` uses tokio's multi-threaded runtime, so tasks interleave between
any two steps. Cancellation is by token and by dropping futures
(`run_until_cancelled`): a step is abandoned at whatever `await` it stands at. The version of tokio-util in `Cargo.lock`, 0.7.13, polls the
future before the token, so a future is never dropped without having been polled after the cancellation, and one that does not have to wait
goes on with its token cancelled. Two mutexes
with different reach are involved: the asynchronous one around the service, held across the whole of `start_discovery`,
and the slot's own, which a panic poisons. Errors end loops
early; users close windows at any moment; transports race each other for one answer.
Nothing is persisted, so there is no crash recovery to specify; a restart begins from the
initial state. `PROJECT.json` lists the hazards line by line, with the properties that
watch them or the reason why none does.

## 2. The modules

| Module | Specifies |
|---|---|
| `SingleCeremony` | abstract: what the credential service promises its callers |
| `CredentialService` | `mod.rs`: slot, tokens, response channels, discoveries, polling |
| `FlowControl` | `flow_control.rs` and the gateway's mutex, composed with `CredentialService` |
| `UsbHandler` | `usb.rs`: one ceremony of the USB handler |
| `HybridHandler` | `hybrid.rs` and its stream in `mod.rs`: one ceremony of the hybrid handler |
| `Gateway` | `credentialsd/src/gateway/`: a D-Bus call from its arrival to its answer |
| `Window` | what the window shows: `send_state_update`, the notify methods, the view model, GTK |
| `UiSession` | `dbus.rs`, `client.rs`, `gui/mod.rs`: the life of a session of the UI and its window |
| `WebExt` | `webext/`: page, bridge, background script and shim |
| `CredentialServiceProofs`, `FlowControlProofs` | the theorems about the first three |
| `UsbProofs`, `HybridProofs`, `GatewayProofs`, `WebExtProofs`, `UiSessionProofs` | the theorems about `UsbHandler`, `HybridHandler`, `Gateway`, `WebExt` and `UiSession` |
| `ComponentsProofs` | the theorems about `Window`, and about the components of `MCComponents` beside each other |
| `MC...` | the modules TLC is given |

### CredentialService

| Variable | Code |
|---|---|
| `ctx` | `CredentialService::ctx`; a request stands for its id, token and channel |
| `poisoned` | the poisoning of that mutex |
| `cancelled` | the tokens that are cancelled |
| `answer`, `answeredBy` | the state of each response channel; history of who the answer stems from |
| `owner`, `stream` | a discovery's streams and the request they were started for |
| `polled` | an event that passed the token check and has not reached `complete_request` |

`Accept`, `Refuse` and `InitPanics` are the outcomes of `init_request`; `CancelRequest` is
`cancel_request`; `StartDiscovery`, `StartTransport` and `StartPanics` are `start_discovery`
up to its `await` and `get_usb_credential` / `get_hybrid_credential` (which panic on an
empty slot, with the guard in hand); `AbandonDiscovery` is the drop of that call. A poll is
two steps, `PollReady` and `YieldProgress`/`YieldFinal`/`YieldPanics`, because
`is_cancelled()` (mod.rs:443) is not read under the lock `complete_request` takes (mod.rs:550).
`MultiThreaded` decides whether other tasks run in between. A handler's
`Failed(RequestCancelled)` is no event of its own: it is sent only after the token was
cancelled and is swallowed like every event then (`StreamEnds`). Errors other than
`CredentialExcluded` are one value: the client is told `NotAllowedError` for each of them.

`SingleCeremony` has no slot, token or stream: requests begin when nothing is active, are refused only
while something is, and are answered once, by themselves. `ImplementsSingleCeremony`
is the refinement, under the mapping at the end of `CredentialService`. Its constant `Overtaking` is `MultiThreaded` there: with several
threads the service promises less, namely that a verdict which is no cancellation may also come from a ceremony whose own request
has been answered before (section 5, item 2). The state property of the same content is `OutcomeOwnOrOvertaken`.

### FlowControl

Extends `CredentialService`, whose actions its actions contain. Actors: D-Bus methods
(`Call`, `Submit`, `SubmitPanics`, `Return`), the listener (`Receive...`, `Launch`, `LaunchFails`,
`Reply`, `ListenerDies`), one interaction loop per window (`Ui...`), one task per
discovery (`Forward...`).

| Variable | Code |
|---|---|
| `caller`, `gateway`, `result` | a D-Bus method, the mutex of `CredentialPortalGateway`, the response channel of `UiRequestContext` |
| `mailbox`, `listener`, `serving` | the channel of main.rs:32, the listener task and the request in `handle` |
| `launchFailed` | history: the requests whose `create_session` failed |
| `ui`, `uiEvent` | the interaction loop's place and the event it is at |
| `startedBy` | the loop a discovery belongs to (its closure's captures) |
| `entrySlot` | `client_pin_tx`, `set_pin_tx`, `cred_selector_tx` |
| `outgoing`, `shown` | the state being forwarded; history of the final state given to the window |

The loop runs inside `run_until_cancelled`: it may take an event with its token cancelled already, since the loop is polled first
(`UiTakes`, `UiStreamCloses` and `UiUnreadablePin` ask only that the loop is listening). Wherever it would wait for an event, for the service's
mutex or for the list of transports, a cancelled token ends it (`UiStops`, `UiAbandons`).

### UsbHandler

`process` is a program counter `pc` and a `state`; a round that ends is `Advance`, which
includes the comparison of states and the decision to send. Blinking tasks are `blink[k]`,
their cancel handles `handles`; the operation on the chosen key is `operation`, its
questions go through `questions`, `relay` (the prompt `handle_usb_updates` waits for) and
`signals` to the loop. A cancelled round is dropped (`Stop`) only where it waits (`Waits`), because it is polled before the token is looked at. The
selection that waits for a touch (`AwaitsAnswer`) watches the token itself, inside the round, and so calls the keys off (`CallOff`) before
the loop around it can drop it; only a token cancelled between the two looks of one poll is missed (`CancelUnseen`).
The key, the user and the reader of the stream are the environment. A retried
operation (`is_retryable_user_error`) is the same running operation; the 50 ms and 1 s pauses are left out.

### HybridHandler

`hybSetup` is the task that makes the QR code, `hybTask` the one that opens the channel and
runs the operation, `hybRelay` `handle_hybrid_updates`, `hybStream` the channel(16) between
them and `HybridStateStream::poll_next` (`HybridPoll`). libwebauthn's updates come by a broadcast
channel, from which a slow relay misses the oldest (`hybLagged`). A poll and the completion of the request are
one step: what can come between them is the subject of `CredentialService`. The
panics of the channel and of `assertions[0]` are steps; the stream may also be dropped by a poll that panics on the QR code's memory file.

### Gateway

One action per early return of `create_credential` / `get_credential`. A call is a record of
what the code reads: its kind, whether the request's JSON is there, whether the caller can be identified, the class of its
executable, app id, origin and top origin. The checks are operators translated one by one
(`TrustedCaller`, `ResolveAppId`, `Privileged`, `CheckPrivileged`); `Admissible` says what they
should amount to without following their order. `gwQueue` is tokio's fair mutex; a guard goes with
the call's task, also when that panics. The controller is external here and the subject of `FlowControl`.

### Window

The way of a state: `BackgroundEventOf` (usb.rs, hybrid.rs), `OnWire` (`send_state_update`),
`Received` (the notify methods), `UpdatesOf` (the view model's event loop), `Handled` (the GTK view
model with the handlers of the window it sets off). An entry is handed over (`EntryGoesOn`), or the loop tells the window why not: a new PIN it refuses
(`LongPinRefused`), a choice the session did not take (`ChoiceFails`); `winLocal` remembers that it did. The daemon sends what two interleaved transports can
(`Sendable`); notifications arrive in the order they are sent, which the daemon's awaited calls and the bus give.
The view model's loop merges them with the user's entries in any order.

### UiSession

| Variable | Code |
|---|---|
| `create`, `registered`, `guard` | `create_session`; the session on the object server; the lock around it |
| `emits`, `shut` | `emit_closed_signal`; where each caller of `shutdown` is |
| `notice`, `close` | `notify_state_changed` of each notification; `Session.Close` |
| `canceller`, `forwarder` | `cancel_task`, `ui_events_forwarder_task` |
| `gui`, `guiCancel`, `vm`, `window` | the GUI thread with one window at a time, `run_gui`'s cancel task, the event loop, the window |

zbus is modelled by what the code relies on: `get_mut` excludes `get`, a method with `&mut self` holds the write lock, an object is
found by its path as long as it is registered. Panics end their own task only. `RegisterFails` is `object_server.at` refusing the session: it is
dropped, while its window and tasks have been started. `Close` awaits its two cancellations one after the other
(`CancelForwarder`, `CancelCanceller`); the canceller, which sees the forwarder's end of its channel go, may wake in between.

### WebExt

A request is a frame and the number the frame gave it. `webStage` is its way to the shim and the
shim's own progress, `webBack` the responses on their way back, by the port the request came by.
`webUp`, `webCut`, `webMain` and `webTimers` are the ports of a frame: connected, cut off without its knowing, `mainPort`, and
pending reconnections. A shim registers with the portal first (`ShimRegisters`), waits for the answer without a timeout (`RegisterReturns`, which is the
portal's doing), and sets its timer afterwards. The browser may stop the background script, which cuts all ports and ends what it waits for.

## 3. What is checked

| Run | Result | Shows |
|---|---|---|
| `service` | holds, 236 000 states | on many threads: no reply is lost, tokens and answers agree, answers are final, outcomes are own or overtaken, and `SingleCeremony` with `Overtaking` is implemented |
| `flow` | holds, 575 000 states (with symmetry) | on many threads: a live loop owns the slot, cancellations, entries and answers reach their own request, refusals follow failed launches only, windows follow clients |
| `flow_breakdown` | holds, 193 000 states (with symmetry) | a discovery on an empty slot panics: nobody accepted is stranded |
| `flow_live` | holds, 12 000 states | every call returns unless a loop ended without cancelling; loops of finished requests end |
| `usb` | holds, 348 000 states | only the touched key stays active, prompts reach the screen, results settle the ceremony, a selection that sees its cancellation calls every key off, a cancelled handler ends |
| `components` | holds, 232 000 states | hybrid handler: the QR code first, the first outcome decides, cancellation lets go; gateway: calls are served alone, only admissible ones, and all are answered; window: it shows the service's last state, keeps its final page whatever the daemon sends, and closes; browser: promises are settled by their own response |
| `ui` | holds, 494 000 states | `Closed` once at most and nothing after it; a client that leaves takes the window along; a window that closes is told |
| `flow_launch`, `flow_threads`, `usb_cancel`, `gateway_origins`, `ui_failed_notice` | violated | see section 5 |

`components` checks `HybridHandler`, `Gateway`, `Window` and `WebExt` in one run: they share no variables, the initial
state chooses one, and the others stand still, so the behaviours are those of each by itself.

Deadlock is not checked: a finite number of requests and discoveries is exhausted in the
end, a service that broke down stops, and so does `process` after its final state.

Bounds. Three requests in the run of the service: one in the slot, one refused, one that takes the slot afterwards. Two requests and
two discoveries in `flow`: every property relates at most two requests, and an entry can go astray
only between two discoveries. The mailbox has its real
capacity, 2. `flow_breakdown` has three calls, so that one finds the listener gone, and three discoveries,
so that one is still at its answer when another panics; it lists USB alone and has one outcome. `flow_live` has one discovery per
behaviour: which loop runs it is open, and a second one adds nothing to who waits for whom. Symmetry is used for safety only.
In `usb`: two keys (one touched, one to call off), `ListFailures` 2 for the code's 5 (counted the same way),
`StreamCapacity` 2 for 32 so that it fills up, two questions (a repeated prompt needs two), attempts 0 and 1,
0 to 2 assertions (none, one, a choice), one kind of error besides those of the handler itself: `process` treats all alike.
In `components`: three updates of the phone and channels of two, so that both the stream and the broadcast overflow; two calls, the first one with
every kind of caller and with every combination of app id, origin and top origin, the second one behind it in the mutex's queue; three states sent
to a window, two on their way at a time (a chosen key, its prompt, and what replaces it: another prompt, an end or a state of the other transport), two entries of
the user (the window's safety is proved for any number of either); two requests of one frame or of two, one stop of the background script, three ports (the first one, one that a request opens, one that the timer opens).
`MaxU32` is 2, so that 2 is both a count and the sentinel. In `ui`: one notification, two entries and channels of one event, so that every send can find its channel full.

Fairness. In `FlowControl` the runtime schedules each task that can run (weak fairness of
the listener, the methods, each loop's own work, each forwarding task), which includes
that `create_session` and the calls to the window return. A user left alone closes the
window in the end, as long as the request is not over; this is strong fairness, because the event waits in the loop's channel
while the loop is busy with other events. `UiStops` is strongly fair as well: a loop with events to take is always ready to go on, but tokio makes
a task wait that has used up its budget, and there its token is seen. Authenticators get none. In `UsbHandler` the loop, the relay and the reader of the stream are
scheduled, and `Stop` is strongly fair for the same reason as `UiStops`; keys, users, listing of devices and cancellation get none.
In `HybridHandler`, `Gateway`, `Window` and `WebExt` it is assumed only that some task of the component runs while one can
(the weak fairness of their disjunction), in the gateway with a controller that answers or dies in the end, in the window with GTK's timers, in
the browser with the shim's timer; nothing makes the phone, the user or the portal act, so a shim may wait for its registration for ever, and `PromisesSettle` names that exception. In `UiSession` each task is scheduled by itself; a window
that was told to close does close.
Each passing property has a mutant of the code that breaks it, listed in `PROJECT.json`.

## 4. What is proved

All theorems hold for any finite or infinite sets of requests, discoveries and events
that satisfy the modules' `ASSUME`s (`ServiceAssumption`, `FlowAssumption`: sentinels are not members, the names of failures
and prompts are those of the code, the flow control runs on many threads, the mailbox has a capacity).

`CredentialServiceProofs`. The inductive invariant `SlotInv` joins `ServiceTypeOK`, `NoReplyLost` and
`TokenCancelledIffAnswered` with two facts without which it is not inductive: a poisoned
slot is empty (else a panicking call could lose an accepted reply) and streams belong to accepted requests (else a stale event
could settle a request that was never accepted).
From it follow `TypeCorrect`, `RepliesAreNotLost`, `PanicsStrandNobody`, `TokensFollowAnswers` and, step by step,
`AnswersAreFinal`. Neither these theorems nor the next two assume anything about threads. `OutcomesAreOwn` says that every answer is the request's own or, on
several threads, that of a ceremony whose own request was answered first: an accepted request without an answer is the one in the slot
(`NoReplyLost`), so an event of any other request that reaches `complete_request` is of an answered one. `ServiceImplementsSingleCeremony` refines the service to
`SingleCeremony` with `Overtaking` = `MultiThreaded`. What one worker thread adds is `ThreadInv`: an event past the token check belongs to the request in
the slot, and there is one such event at most; with it `OutcomesAreOwn` has the stronger half (`OwnOutcome`) and the refinement needs no
overtaking. Run `flow_threads` shows that several threads do not have it. The runs are all of many threads, as main.rs is.

`FlowControlProofs`. `FlowImplementsService`: each step of the composition is a step of the
service or leaves it alone, so the service's theorems hold in it. `FlowInv` adds `SlotIsServed` (who occupies the slot: the
request `handle` is serving, or one whose launch failed), `LoopsOfAccepted` and `DiscoveriesOfLoops`. From it:
`FlowTypeCorrect`, `LoopsOwnTheSlot`, `RefusalsFollowFailedLaunch`, `CancellationsAreOwn`,
`ClientsAreToldTheDecision` and `WindowsFollowClients`.
`EntriesReachTheirCeremony` needs two more invariants. `DiscoveriesAreOwn`: a discovery's streams are of the request whose loop asked for it. The service's
mutex is what this rests on: a discovery that waits for its transports began with an uncancelled token, so with the loop's own request in the slot, and nobody fills the slot until it is released, so while a
discovery starts its transports the slot holds that request or nothing (and then the start panics). `EntriesOfLoops`: a prompt's sender is
kept by the loop that asked for the discovery, and only once it has streams. Neither needs the token to be uncancelled later on, which the code does not ensure.

`UsbProofs`, for any keys, capacities and bounds (`UsbAssumption`). `RoundInv` ties the places of a round to the state it serves; with it the types
are inductive. `BlinkInv` is why `ChosenIsAlone` holds: while a key is selected, `process` has the
handle of every one still lit, and a key that answered no longer blinks. From it also follows `ParkedSelectionsGoDark`: of the steps that end a cancelled
selection only `CalledOff` can end one that waits for a touch (`EndsCalledOff`), and it has no handle left. `PromptsAreShown` needs `AskInv` (a key that waits for a PIN has asked
last and asks no more) and `PromptInv`, which follows a prompt from the relay through the loop's round and the stream to the window.

`UiSessionProofs`. `LockInv` says who has the session's write lock, `CloserInv` why each of the tasks that shut a session down does
so, `LoopInv` that its event loop runs once. `OnceInv` gives `ClosedIsSentOnce`: the flag is up only until `Closed` is sent, and
whoever reads it takes it. `EventInv` gives `ClosedIsLast`: the user's cancellation is the last event of a window, so a forwarder that
closes the session has nothing left to forward.

`GatewayProofs`. `ServedAlone` is not inductive: it needs `ServingInv`, that the calls which wait for the mutex or have it stand in
its queue, each once, and the one that has it first. Lemmas `Enqueues`, `Dequeues` and `KeepsPlace` are about the queue alone, and
each action is one of the three. `CheckedInv` keeps what the checks found from `Admit` until the controller is asked, and
`ValidateAdmits` shows that the checks, made one after the other, come to `Admissible`; together they give
`OnlyAdmissibleAskedAlways`, for any `Calls` and debug lists (`GatewayAssumption`). `GatewayTypeCorrect` adds that the checks pass on an app
id and a context (`ValidateTypes`).

`HybridProofs`. `HybridInv` says that the QR code, until it is seen, is in front of the stream and nothing else is sent before it
(`CodeInFront`), that a verdict cancels the request (`VerdictCancels`), and that an operation which ended by itself has left its
outcome in the stream (`OutcomeOnItsWay`). It gives `QrCodeComesFirst`, `FirstOutcomesDecide` and `EndsAreTold`, for channels
of any capacity (`HybridAssumption`). `HybridTypeCorrect` adds the bounds of both channels.

`WebExtProofs`. `WebInv` adds to `OwnResponseSettles` that a page's numbers are fresh (`NumbersInv`; it counts, and rests on the
library's facts about finite sets), that the portal knows nothing of a request before its shim asks, and that a response under way carries
the frame and the number of the request it answers (`TripInv`). It gives `OwnResponsesSettle`. `WebTypeCorrect` rests on a count that the
code does not keep (`PortsInv`): the connected ports of a frame, those it has not been told it lost and its pending reconnections are together no more
than the ports it ever opened.

`ComponentsProofs`. The window's theorems begin with its operators: `RoundTrip` says what `Received` makes of what `OnWire` made of a state
(`Heard`: only the largest count and the used up PIN attempts change), and `HandledPage` what each update does to page, PIN entry and button.
`PinEntriesAreOnTheirPage` is then inductive by itself. The two others speak of the whole way of a state, the wire, the updates and the screen. `DoneInv`, that completion is the last a
window is told unless the event loop adds something of its own (`winLocal`), gives `CompletionStays`. `ShownInv`, that the last state sent is the last thing on the first of the three that is not empty, gives
`LastStateShown`; its last step, where the update reaches the screen (`UpdateShows`), holds for a touch only at a page with a prompt, which is what
`AskingInv` is for: a key that asks has the window wait for it, or at such a page. `PhaseInv` supplies that nothing is sent before the devices are asked for.
All this is for any `MaxU32`, attempts and bounds (`WindowAssumption`).
`SideBySide`: `MCSpec` implies the specification of each of its four components without fairness, so their theorems hold in run
`components`; with each component's type invariant it gives `ComponentsTypeCorrect`.

Every invariant and every action property of a passing run is stated by a theorem. Only model-checked is what holds
under fairness (`CallsReturnUnlessLoopBroke`, `LoopsEnd`, `ResultSettles`, `CancelledHandlerStops`, `CancelledHybridStops`, `CallsAreAnswered`,
`FinishedWindowCloses`, `PromisesSettle`, `GoneClientClosesWindow`, `ClosedWindowIsTold`), as
TLAPS does not reason about `ENABLED` here. No recursion is used, so nothing is lost to induction over data.

## 5. Where the code differs from what it says

1. `flow_launch`: when `create_session` fails, `handle` logs "Cancelling request."
   (flow_control.rs:138) and returns without cancelling. The slot stays taken; all later requests are refused.
2. `flow_threads`: a poll passes the token check, the user's cancellation frees the slot, the next
   request takes it, and `complete_request`, which compares no ids, answers it with the old
   ceremony's outcome. Comments at mod.rs:450 and 1337 say that a cancelled ceremony does not complete a second time.
3. `usb_cancel`: "Stop all blinking devices" (usb.rs:141) is said of a cancelled request, but only the wait for a touch (usb.rs:140) does it. There the
   code is right: the selection is polled before the token of the loop around it, and calls the keys off (`ParkedSelectionGoesDark`, proved). The
   wait for the keys to be opened (usb.rs:130) has no such branch: when the token is cancelled while one key is still being opened, the
   selection is dropped there, and the tasks of the keys already opened blink on for up to 300 s (usb.rs:105).
4. `gateway_origins`: "Unprivileged clients may only set an origin, which will be verified against a static list of allowed origins for the
   client" (gateway/mod.rs:48-49). There is no list: mod.rs:217 sets `origin_allowed_for_app_id` to true. `Admissible` follows the code.
5. `ui_failed_notice`: a notification that the view model does not take is to close the session
   ("Closing session.", dbus.rs:406), but holds the session's write lock while `shutdown` waits for
   its read lock: neither ends, and the session stays on the bus.

Met while modelling, and kept in the models as the code has it:

- ARCHITECTURE.md:103 says that a second request is rejected immediately; it waits for the
  gateway's mutex and is served afterwards (`Admit`, `Locks`; `Submit` in `FlowControl`).
- ARCHITECTURE.md:105 leaves the user's window as the only way to cancel. An unreadable PIN (flow_control.rs:216,
  243), or the end of the UI's events (149), ends the loop without a cancellation: the client's call then
  never returns. `CallsReturnUnlessLoopBroke` names this exception.
- `Session.Close` shuts the session down under its own write lock like item 5, after it has cancelled the
  task that would have told the GUI (dbus.rs:694-703), so the window stays open, unless that task woke up between the two cancellations
  (dbus.rs:691-696). The daemon does not call it.
- Every update first takes the PIN entry off the window (gui/view_model/gtk/mod.rs:138): a phone's state that arrives while a key
  waits for a PIN leaves no way to enter it. A touch that is asked for while the user is at the page for a new PIN is not seen.
  `Shows` says of each state what can be seen.
- Two updates that the UI's event loop makes itself may take "Done!" off the window: a new PIN that is too long, and a choice of credential it
  could not hand over (gui/view_model/mod.rs:182-197). `CompletedPageStays` names both (`winLocal`).
- An `app:` origin of a client that is not privileged ends in `unimplemented!()`: the call gets no answer.
- `getClientCapabilities` always fails: the add-on sends it without options, and the shim looks for a timeout in
  them (credential_manager_shim.py:586). The same line looks beside `publicKey`, where the page's timeout is.
- A shim that times out leaves the ceremony running; a retry waits behind it. Its registration with the portal
  (credential_manager_shim.py:496) stands before the timer and has none: a portal that does not answer leaves the page's promise pending.
- A native host that fails without a word leaves the page's promise pending as well (background.js:30). `PromisesSettle` names both.

## 6. Not modelled

- The NFC handler cannot be reached: its block in `start_discovery` is commented out.
- The merging of the UI's two streams of signals in `ui_control.rs` and zbus's queues: in `FlowControl` the user's events
  arrive one at a time. The codes of the wire are in `Window`; the encodings of requests and responses, the WebAuthn
  conversions, CBOR and the memory file are data conversions without state: a step that may fail.
- A second `CreateSession` with a handle that is in use: the refused session's tasks have the same path, and their end shuts the first session down.
  `UiSession` has one handle per session; `RegisterFails` stands for the refusal alone.
- In the window: lists of devices and credentials, titles, style.
- Start-up, shutdown (`ctrl_c`, abort of the listener), the portal frontend, the demo client, packaging and its tests.
- The composition of the daemon with `UiSession` or `WebExt` is too large for TLC; each is specified against what the other side may do.

## 7. Plan

Done: what serves a request (`CredentialService`, `FlowControl`), what drives an authenticator (`UsbHandler`, `HybridHandler`),
what lets a request in (`Gateway`), what the user sees (`Window`, `UiSession`), the browser's side (`WebExt`), and the theorems
about the safety of each. Left:

1. Abstract specification of a transport handler (progress, at most one final state,
   no state after one that saw its cancellation), implemented by `UsbHandler` and `HybridHandler`.
