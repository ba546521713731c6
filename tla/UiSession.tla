---- MODULE UiSession ----
(***************************************************************************)
(* One session of the UI's D-Bus backend, and the window it asks for       *)
(* (credentialsd-ui/src/dbus.rs, gui/mod.rs and the event loop of          *)
(* gui/view_model/mod.rs).                                                 *)
(*                                                                         *)
(* The session is an object on the bus behind a read-write lock.  Around   *)
(* it run the call that creates it, a canceller that waits for any reason  *)
(* to give up, a forwarder of the user's events, the notifications of the  *)
(* daemon (each a task of its own), a client's Close, and the GUI thread,  *)
(* which shows one window at a time.  Four of them may shut the session    *)
(* down.  The object server and its locks are zbus's, modelled by what     *)
(* these calls rely on.                                                    *)
(***************************************************************************)
EXTENDS Naturals, Sequences, FiniteSets

CONSTANTS
  Notices,     (* the notifications of the daemon                          *)
  Nobody,      (* no holder of the session's write lock                    *)
  Capacity,    (* bound of the channels of events (32)                     *)
  MaxEntries   (* bound on the user's entries                              *)

ASSUME UiAssumption ==
  /\ Capacity \in Nat \ {0} /\ MaxEntries \in Nat
  /\ Nobody \notin Notices
  /\ {"close", "forwarder", "canceller"} \cap (Notices \cup {Nobody}) = {}

(* The callers of CeremonySession::shutdown.                               *)
Closers == Notices \cup {"close", "forwarder", "canceller"}

VARIABLES
  create,      (* the create_session call                                  *)
  registered,  (* the object on the bus                                    *)
  emits,       (* emit_closed_signal                                       *)
  guard,       (* who holds the object's write lock                        *)
  shut,        (* per closer, where it is in shutdown                      *)
  notice,      (* per notification, its notify_state_changed               *)
  close,       (* the client's Close                                       *)
  forwarder,   (* ui_events_forwarder_task                                 *)
  stopped,     (* its message that the GUI has stopped                     *)
  canceller,   (* cancel_task                                              *)
  cancelGui,   (* the canceller's message to the GUI was sent              *)
  uiEvents,    (* view model to forwarder                                  *)
  bgEvents,    (* notifications to view model                              *)
  gui,         (* the GUI thread                                           *)
  asked,       (* this session's request is in the GUI's queue             *)
  guiCancel,   (* run_gui's cancel task                                    *)
  vm,          (* the view model's event loop                              *)
  viewEvents,  (* window to view model                                     *)
  window,      (* the window                                               *)
  closes,      (* the window was told to close                             *)
  client,      (* the client on the bus                                    *)
  entered,     (* the user's entries so far                                *)
  signals,     (* signals of the user's actions sent to the client         *)
  closed,      (* Closed signals sent                                      *)
  spoilt       (* an entry could not be handed over: the session was given *)
               (* up but the window stays                                  *)

objVars == <<registered, emits, guard, shut>>
taskVars == <<forwarder, stopped, canceller, cancelGui>>
guiVars == <<gui, asked, guiCancel, vm, viewEvents, window, closes>>
chanVars == <<uiEvents, bgEvents>>
outVars == <<client, entered, signals, closed, spoilt>>
vars == <<create, objVars, notice, close, taskVars, guiVars, chanVars, outVars>>

UiTypeOK ==
  /\ create \in {"idle", "watching", "forwarding", "requested", "returned", "failed", "refused"}
  /\ registered \in {"no", "yes", "removed"}
  /\ guard \in Notices \cup {"close", Nobody}
  /\ shut \in [Closers -> {"off", "lookup", "get", "got", "emitted", "done"}]
  /\ notice \in [Notices -> {"idle", "found", "locked", "closing", "done"}]
  /\ close \in {"idle", "called", "locked", "quiet", "silenced", "closing", "done"}
  /\ forwarder \in {"off", "running", "closing", "done", "cancelled"}
  /\ canceller \in {"off", "waiting", "woken", "closing", "done", "cancelled"}
  /\ uiEvents \in Seq({"discovery", "entry", "cancelled"}) /\ Len(uiEvents) <= Capacity
  /\ bgEvents \in Seq({"update", "completed"}) /\ Len(bgEvents) <= Capacity
  /\ gui \in {"other", "free", "up"}
  /\ guiCancel \in {"off", "waiting", "done"}
  /\ vm \in {"off", "running", "finishing", "done", "panicked", "killed"}
  /\ viewEvents \in Seq({"initiated", "entry", "cancelled"})
  /\ window \in {"none", "open", "closed"}
  /\ client \in {"there", "gone"}
  /\ entered \in 0..MaxEntries /\ signals \in Nat /\ closed \in Nat
  /\ {emits, stopped, cancelGui, asked, closes, spoilt} \subseteq BOOLEAN

(* The window of an earlier session may still be up: it, or what is left   *)
(* of it, goes first.                                                      *)
Init ==
  /\ create = "idle"
  /\ registered = "no" /\ emits = TRUE /\ guard = Nobody
  /\ shut = [a \in Closers |-> "off"]
  /\ notice = [n \in Notices |-> "idle"] /\ close = "idle"
  /\ forwarder = "off" /\ stopped = FALSE
  /\ canceller = "off" /\ cancelGui = FALSE
  /\ uiEvents = <<>> /\ bgEvents = <<>>
  /\ gui = "other" /\ asked = FALSE
  /\ guiCancel = "off" /\ vm = "off" /\ viewEvents = <<>>
  /\ window = "none" /\ closes = FALSE
  /\ client = "there" /\ entered = 0 /\ signals = 0 /\ closed = 0 /\ spoilt = FALSE

----
(* Ends of channels.                                                       *)

ForwarderListens == forwarder \in {"running", "closing"}
VmGone == vm \in {"done", "panicked", "killed"}

(* The flow control client goes with the call that failed or with the loop. *)
UiSenderGone == create = "failed" \/ VmGone
BgReceiverGone == create = "failed" \/ VmGone \/ vm = "finishing"

Readers == {a \in Closers : shut[a] \in {"got", "emitted"}}

(* Nobody refers to the session any more: its senders are dropped.         *)
SessionDropped ==
  \/ create \in {"failed", "refused"}
  \/ /\ registered = "removed"
     /\ \A a \in Closers : shut[a] \notin {"get", "got", "emitted"}
     /\ \A n \in Notices : notice[n] \in {"idle", "done"}
     /\ close \in {"idle", "done"}

----
(* create_session.                                                         *)

(* setup_cancellation: the canceller watches the client.                   *)
SetupCancellation ==
  /\ create = "idle"
  /\ create' = "watching" /\ canceller' = "waiting"
  /\ UNCHANGED <<objVars, notice, close, forwarder, stopped, cancelGui>>
  /\ UNCHANGED <<guiVars, chanVars, outVars>>

(* No desktop file for the app, or no RP ID: the call's ends are dropped.  *)
CreateFails ==
  /\ create \in {"watching", "forwarding"}
  /\ create' = "failed"
  /\ UNCHANGED <<objVars, notice, close, taskVars, guiVars, chanVars, outVars>>

(* CeremonyObject::start.                                                  *)
StartForwarder ==
  /\ create = "watching"
  /\ create' = "forwarding" /\ forwarder' = "running"
  /\ UNCHANGED <<objVars, notice, close, stopped, canceller, cancelGui>>
  /\ UNCHANGED <<guiVars, chanVars, outVars>>

SendRequest ==
  /\ create = "forwarding"
  /\ create' = "requested" /\ asked' = TRUE
  /\ UNCHANGED <<objVars, notice, close, taskVars, chanVars, outVars>>
  /\ UNCHANGED <<gui, guiCancel, vm, viewEvents, window, closes>>

(* object_server.at: only now can the session be found.                    *)
Register ==
  /\ create = "requested"
  /\ create' = "returned" /\ registered' = "yes"
  /\ UNCHANGED <<emits, guard, shut, notice, close, taskVars, guiVars, chanVars, outVars>>

(* There is a session under this name already, or at fails: the session is *)
(* dropped and the call returns an error, but the GUI has its request.     *)
RegisterFails ==
  /\ create = "requested"
  /\ create' = "refused"
  /\ UNCHANGED <<objVars, notice, close, taskVars, guiVars, chanVars, outVars>>

----
(* CeremonySession::shutdown, called by a.                                 *)

ShutLookup(a) ==
  /\ shut[a] = "lookup"
  /\ shut' = [shut EXCEPT ![a] = IF registered = "yes" THEN "get" ELSE "done"]
  /\ UNCHANGED <<create, registered, emits, guard, notice, close, taskVars>>
  /\ UNCHANGED <<guiVars, chanVars, outVars>>

(* iface.get() waits for the writer, be it the caller itself.              *)
ShutGet(a) ==
  /\ shut[a] = "get" /\ guard = Nobody
  /\ shut' = [shut EXCEPT ![a] = "got"]
  /\ UNCHANGED <<create, registered, emits, guard, notice, close, taskVars>>
  /\ UNCHANGED <<guiVars, chanVars, outVars>>

(* Mutant of ShutEmit: the flag is read, not swapped.                      *)
ShutEmitUnswapped(a) ==
  /\ shut[a] = "got"
  /\ closed' = IF emits THEN closed + 1 ELSE closed
  /\ shut' = [shut EXCEPT ![a] = "emitted"]
  /\ UNCHANGED <<create, registered, emits, guard, notice, close, taskVars>>
  /\ UNCHANGED <<guiVars, chanVars, client, entered, signals, spoilt>>

ShutEmit(a) ==
  /\ shut[a] = "got"
  /\ closed' = IF emits THEN closed + 1 ELSE closed
  /\ emits' = FALSE
  /\ shut' = [shut EXCEPT ![a] = "emitted"]
  /\ UNCHANGED <<create, registered, guard, notice, close, taskVars>>
  /\ UNCHANGED <<guiVars, chanVars, client, entered, signals, spoilt>>

ShutRemove(a) ==
  /\ shut[a] = "emitted"
  /\ registered' = "removed"
  /\ shut' = [shut EXCEPT ![a] = "done"]
  /\ UNCHANGED <<create, emits, guard, notice, close, taskVars>>
  /\ UNCHANGED <<guiVars, chanVars, outVars>>

Shutdown(a) == ShutLookup(a) \/ ShutGet(a) \/ ShutEmit(a) \/ ShutRemove(a)

----
(* notify_state_changed.                                                   *)

(* Without a session the notification is refused; it expects no reply.     *)
NoticeArrives(n) ==
  /\ notice[n] = "idle" /\ create = "returned" /\ client = "there"
  /\ notice' = [notice EXCEPT ![n] = IF registered = "yes" THEN "found" ELSE "done"]
  /\ UNCHANGED <<create, objVars, close, taskVars, guiVars, chanVars, outVars>>

(* session_iface.get_mut().                                                *)
NoticeLocks(n) ==
  /\ notice[n] = "found" /\ guard = Nobody /\ Readers = {}
  /\ notice' = [notice EXCEPT ![n] = "locked"] /\ guard' = n
  /\ UNCHANGED <<create, registered, emits, shut, close, taskVars>>
  /\ UNCHANGED <<guiVars, chanVars, outVars>>

(* on_state_changed hands the event to the view model, waiting for room    *)
(* with the lock in hand.                                                  *)
NoticeSends(n, e) ==
  /\ notice[n] = "locked" /\ ~BgReceiverGone /\ Len(bgEvents) < Capacity
  /\ bgEvents' = Append(bgEvents, e)
  /\ notice' = [notice EXCEPT ![n] = "done"] /\ guard' = Nobody
  /\ UNCHANGED <<create, registered, emits, shut, close, taskVars>>
  /\ UNCHANGED <<guiVars, uiEvents, outVars>>

(* Mutant of NoticeFails: the lock is let go first.                        *)
NoticeFailsUnlocked(n) ==
  /\ notice[n] = "locked" /\ BgReceiverGone
  /\ notice' = [notice EXCEPT ![n] = "closing"] /\ guard' = Nobody
  /\ shut' = [shut EXCEPT ![n] = "lookup"]
  /\ UNCHANGED <<create, registered, emits, close, taskVars>>
  /\ UNCHANGED <<guiVars, chanVars, outVars>>

(* The view model is gone: shutdown, still with the lock in hand.          *)
NoticeFails(n) ==
  /\ notice[n] = "locked" /\ BgReceiverGone
  /\ notice' = [notice EXCEPT ![n] = "closing"]
  /\ shut' = [shut EXCEPT ![n] = "lookup"]
  /\ UNCHANGED <<create, registered, emits, guard, close, taskVars>>
  /\ UNCHANGED <<guiVars, chanVars, outVars>>

NoticeReturns(n) ==
  /\ notice[n] = "closing" /\ shut[n] = "done"
  /\ notice' = [notice EXCEPT ![n] = "done"] /\ guard' = Nobody
  /\ UNCHANGED <<create, registered, emits, shut, close, taskVars>>
  /\ UNCHANGED <<guiVars, chanVars, outVars>>

----
(* Session.Close, a method that holds the write lock.                      *)

CloseArrives ==
  /\ close = "idle" /\ registered = "yes" /\ client = "there"
  /\ close' = "called"
  /\ UNCHANGED <<create, objVars, notice, taskVars, guiVars, chanVars, outVars>>

CloseLocks ==
  /\ close = "called" /\ guard = Nobody /\ Readers = {}
  /\ close' = "locked" /\ guard' = "close"
  /\ UNCHANGED <<create, registered, emits, shut, notice, taskVars>>
  /\ UNCHANGED <<guiVars, chanVars, outVars>>

(* Two tasks are cancelled, wherever they wait.  The first takes its end   *)
(* of the channel with it that the second waits on.                        *)
CancelForwarder ==
  /\ close = "locked"
  /\ close' = "quiet"
  /\ forwarder' = IF ForwarderListens THEN "cancelled" ELSE forwarder
  /\ shut' = [shut EXCEPT !["forwarder"] = "off"]
  /\ uiEvents' = <<>>
  /\ UNCHANGED <<create, registered, emits, guard, notice, stopped, canceller, cancelGui>>
  /\ UNCHANGED <<guiVars, bgEvents, outVars>>

CancelCanceller ==
  /\ close = "quiet"
  /\ close' = "silenced"
  /\ canceller' = IF canceller = "done" THEN canceller ELSE "cancelled"
  /\ shut' = [shut EXCEPT !["canceller"] = "off"]
  /\ UNCHANGED <<create, registered, emits, guard, notice, forwarder, stopped, cancelGui>>
  /\ UNCHANGED <<guiVars, chanVars, outVars>>

(* client_cancelled_tx finds its receiver gone; the flag; shutdown.        *)
CloseShutsDown ==
  /\ close = "silenced"
  /\ close' = "closing"
  /\ emits' = FALSE
  /\ shut' = [shut EXCEPT !["close"] = "lookup"]
  /\ UNCHANGED <<create, registered, guard, notice, taskVars, guiVars, chanVars, outVars>>

CloseReturns ==
  /\ close = "closing" /\ shut["close"] = "done"
  /\ close' = "done" /\ guard' = Nobody
  /\ UNCHANGED <<create, registered, emits, shut, notice, taskVars>>
  /\ UNCHANGED <<guiVars, chanVars, outVars>>

----
(* The canceller.                                                          *)

(* Mutant of CancellerWakes: the client is not watched.                    *)
CancellerWakesUnwatched ==
  /\ canceller = "waiting" /\ (stopped \/ forwarder = "cancelled" \/ SessionDropped)
  /\ canceller' = "woken"
  /\ UNCHANGED <<create, objVars, notice, close, forwarder, stopped, cancelGui>>
  /\ UNCHANGED <<guiVars, chanVars, outVars>>

(* The client left, the GUI stopped, or a channel it waits on was dropped. *)
CancellerWakes ==
  /\ canceller = "waiting"
  /\ client = "gone" \/ stopped \/ forwarder = "cancelled" \/ SessionDropped
  /\ canceller' = "woken"
  /\ UNCHANGED <<create, objVars, notice, close, forwarder, stopped, cancelGui>>
  /\ UNCHANGED <<guiVars, chanVars, outVars>>

CancelsGui ==
  /\ canceller = "woken"
  /\ canceller' = "closing" /\ cancelGui' = TRUE
  /\ shut' = [shut EXCEPT !["canceller"] = "lookup"]
  /\ UNCHANGED <<create, registered, emits, guard, notice, close, forwarder, stopped>>
  /\ UNCHANGED <<guiVars, chanVars, outVars>>

CancellerEnds ==
  /\ canceller = "closing" /\ shut["canceller"] = "done"
  /\ canceller' = "done"
  /\ UNCHANGED <<create, objVars, notice, close, forwarder, stopped, cancelGui>>
  /\ UNCHANGED <<guiVars, chanVars, outVars>>

----
(* The forwarder.                                                          *)

HasSignal == uiEvents # <<>> /\ Head(uiEvents) # "cancelled"

(* on_user_interacted: an event becomes a signal to the client.            *)
Forward ==
  /\ forwarder = "running" /\ HasSignal
  /\ uiEvents' = Tail(uiEvents)
  /\ signals' = signals + 1
  /\ UNCHANGED <<create, objVars, notice, close, taskVars, guiVars, bgEvents>>
  /\ UNCHANGED <<client, entered, closed, spoilt>>

(* RequestCancelled becomes a shutdown.                                    *)
ForwardCancel ==
  /\ forwarder = "running" /\ uiEvents # <<>> /\ Head(uiEvents) = "cancelled"
  /\ uiEvents' = Tail(uiEvents)
  /\ forwarder' = "closing" /\ shut' = [shut EXCEPT !["forwarder"] = "lookup"]
  /\ UNCHANGED <<create, registered, emits, guard, notice, close>>
  /\ UNCHANGED <<stopped, canceller, cancelGui, guiVars, bgEvents, outVars>>

ForwarderResumes ==
  /\ forwarder = "closing" /\ shut["forwarder"] = "done"
  /\ forwarder' = "running" /\ shut' = [shut EXCEPT !["forwarder"] = "off"]
  /\ UNCHANGED <<create, registered, emits, guard, notice, close>>
  /\ UNCHANGED <<stopped, canceller, cancelGui, guiVars, chanVars, outVars>>

(* Mutant of ForwarderEnds: nobody is told.                                *)
ForwarderEndsSilently ==
  /\ forwarder = "running"
  /\ HasSignal \/ (uiEvents = <<>> /\ UiSenderGone)
  /\ forwarder' = "done" /\ uiEvents' = <<>>
  /\ UNCHANGED <<create, objVars, notice, close, stopped, canceller, cancelGui>>
  /\ UNCHANGED <<guiVars, bgEvents, outVars>>

(* A signal cannot be sent, or the events have ended: the GUI has stopped. *)
ForwarderEnds ==
  /\ forwarder = "running"
  /\ HasSignal \/ (uiEvents = <<>> /\ UiSenderGone)
  /\ forwarder' = "done" /\ stopped' = TRUE /\ uiEvents' = <<>>
  /\ UNCHANGED <<create, objVars, notice, close, canceller, cancelGui>>
  /\ UNCHANGED <<guiVars, bgEvents, outVars>>

----
(* The GUI thread and the window.                                          *)

OtherWindowCloses ==
  /\ gui = "other" /\ gui' = "free"
  /\ UNCHANGED <<asked, guiCancel, vm, viewEvents, window, closes>>
  /\ UNCHANGED <<create, objVars, notice, close, taskVars, chanVars, outVars>>

(* run_gui: the tasks are spawned, the window opens and says so.           *)
RunGui ==
  /\ gui = "free" /\ asked
  /\ gui' = "up" /\ asked' = FALSE
  /\ guiCancel' = "waiting" /\ vm' = "running"
  /\ window' = "open" /\ viewEvents' = <<"initiated">>
  /\ UNCHANGED <<closes, create, objVars, notice, close, taskVars, chanVars, outVars>>

(* To a view model that is gone, a view event is only logged.              *)
ViewEvent(e) == viewEvents' = IF vm = "running" THEN Append(viewEvents, e) ELSE viewEvents

GuiCancelled ==
  /\ guiCancel = "waiting" /\ cancelGui
  /\ guiCancel' = "done" /\ ViewEvent("cancelled")
  /\ UNCHANGED <<gui, asked, vm, window, closes>>
  /\ UNCHANGED <<create, objVars, notice, close, taskVars, chanVars, outVars>>

UserEnters ==
  /\ window = "open" /\ entered < MaxEntries
  /\ entered' = entered + 1 /\ ViewEvent("entry")
  /\ UNCHANGED <<gui, asked, guiCancel, vm, window, closes>>
  /\ UNCHANGED <<create, objVars, notice, close, taskVars, chanVars>>
  /\ UNCHANGED <<client, signals, closed, spoilt>>

(* close_request, by the user or by the window itself.                     *)
WindowCloses ==
  /\ window = "open"
  /\ window' = "closed" /\ ViewEvent("cancelled")
  /\ UNCHANGED <<gui, asked, guiCancel, vm, closes>>
  /\ UNCHANGED <<create, objVars, notice, close, taskVars, chanVars, outVars>>

(* The application returns: the event loop is cancelled where it stands.   *)
GuiReturns ==
  /\ gui = "up" /\ window = "closed"
  /\ gui' = "free"
  /\ vm' = IF VmGone THEN vm ELSE "killed"
  /\ UNCHANGED <<asked, guiCancel, viewEvents, window, closes>>
  /\ UNCHANGED <<create, objVars, notice, close, taskVars, chanVars, outVars>>

----
(* The view model's event loop.                                            *)

VmTakes(e) == vm = "running" /\ viewEvents # <<>> /\ Head(viewEvents) = e

(* Mutant of ToForwarder: a send does not wait for room.                   *)
ToForwarderAtOnce(e) ==
  uiEvents' = IF ForwarderListens THEN Append(uiEvents, e) ELSE uiEvents

(* A send to the forwarder waits for room; without a receiver it fails.    *)
ToForwarder(e) ==
  IF ForwarderListens
  THEN Len(uiEvents) < Capacity /\ uiEvents' = Append(uiEvents, e)
  ELSE UNCHANGED uiEvents

VmElse == <<create, objVars, notice, close, taskVars, gui, asked, window>>

(* start_discovery unwraps: without a forwarder the loop panics, and the   *)
(* window closes for want of updates.                                      *)
VmInitiated ==
  /\ VmTakes("initiated")
  /\ viewEvents' = Tail(viewEvents)
  /\ ToForwarder("discovery")
  /\ vm' = IF ForwarderListens THEN vm ELSE "panicked"
  /\ closes' = ~ForwarderListens
  /\ UNCHANGED <<guiCancel, bgEvents, outVars, VmElse>>

VmEntry ==
  /\ VmTakes("entry")
  /\ viewEvents' = Tail(viewEvents)
  /\ ToForwarder("entry")
  /\ UNCHANGED <<vm, closes, guiCancel, bgEvents, outVars, VmElse>>

(* write_secret fails: the request is cancelled and the loop goes on.      *)
VmEntryFails ==
  /\ VmTakes("entry")
  /\ viewEvents' = Tail(viewEvents)
  /\ ToForwarder("cancelled")
  /\ spoilt' = TRUE
  /\ UNCHANGED <<vm, closes, guiCancel, bgEvents, VmElse>>
  /\ UNCHANGED <<client, entered, signals, closed>>

(* UserCancelled: the window is told, and the loop breaks.                 *)
VmCancelled ==
  /\ VmTakes("cancelled")
  /\ viewEvents' = Tail(viewEvents)
  /\ vm' = "finishing" /\ closes' = TRUE
  /\ UNCHANGED <<guiCancel, chanVars, outVars, VmElse>>

VmBackground ==
  /\ vm = "running" /\ bgEvents # <<>>
  /\ bgEvents' = Tail(bgEvents)
  /\ closes' = (closes \/ Head(bgEvents) = "completed")
  /\ UNCHANGED <<vm, viewEvents, guiCancel, uiEvents, outVars, VmElse>>

(* After the loop: cancel_task.cancel, cancel_request, and the client goes. *)
VmFinishes ==
  /\ vm = "finishing"
  /\ vm' = "done" /\ guiCancel' = "done"
  /\ ToForwarder("cancelled")
  /\ UNCHANGED <<closes, viewEvents, bgEvents, outVars, VmElse>>

ClientLeaves ==
  /\ client = "there" /\ create # "idle"
  /\ client' = "gone"
  /\ UNCHANGED <<create, objVars, notice, close, taskVars, guiVars, chanVars>>
  /\ UNCHANGED <<entered, signals, closed, spoilt>>

----
CreateSession ==
  \/ SetupCancellation \/ StartForwarder \/ CreateFails
  \/ SendRequest \/ Register \/ RegisterFails
NotifyStateChanged(n) ==
  \/ NoticeLocks(n) \/ NoticeFails(n) \/ NoticeReturns(n)
  \/ \E e \in {"update", "completed"} : NoticeSends(n, e)
Close == CloseLocks \/ CancelForwarder \/ CancelCanceller \/ CloseShutsDown \/ CloseReturns
Canceller == CancellerWakes \/ CancelsGui \/ CancellerEnds
Forwarder == Forward \/ ForwardCancel \/ ForwarderResumes \/ ForwarderEnds
EventLoop ==
  VmInitiated \/ VmEntry \/ VmEntryFails \/ VmCancelled \/ VmBackground \/ VmFinishes

Next ==
  \/ CreateSession \/ Close \/ CloseArrives \/ Canceller \/ Forwarder \/ EventLoop
  \/ \E a \in Closers : Shutdown(a)
  \/ \E n \in Notices : NoticeArrives(n) \/ NotifyStateChanged(n)
  \/ OtherWindowCloses \/ RunGui \/ GuiCancelled \/ UserEnters \/ WindowCloses \/ GuiReturns
  \/ ClientLeaves

(* Every task runs; the user need not act, nor the client leave.           *)
Fairness ==
  /\ WF_vars(CreateSession) /\ WF_vars(Close)
  /\ WF_vars(Canceller) /\ WF_vars(Forwarder)
  /\ \A a \in Closers : WF_vars(Shutdown(a))
  /\ \A n \in Notices : WF_vars(NotifyStateChanged(n))
  /\ WF_vars(RunGui) /\ WF_vars(GuiCancelled) /\ WF_vars(GuiReturns)
  /\ WF_vars(EventLoop) /\ WF_vars(closes /\ WindowCloses)

Spec == Init /\ [][Next]_vars /\ Fairness

----
(* Properties.                                                             *)

(* However many of its closers get to a session, its Closed signal is sent *)
(* once at most.                                                           *)
ClosedOnce == closed <= 1

(* After Closed, the client hears no more of the user: only an entry that  *)
(* could not be handed over leaves the window up, and only a client that   *)
(* left is closed behind the window's back.                                *)
NothingAfterClosed ==
  [][closed > 0 /\ ~spoilt /\ client = "there" => signals' = signals]_vars

(* A client that leaves the bus, or whose session could not be put on it,  *)
(* does not leave a window behind, unless it had called Close, which       *)
(* silences the canceller first.                                           *)
GoneClientClosesWindow ==
  client = "gone" \/ create = "refused" ~> (window # "open" \/ close # "idle")

(* A window that closes is told to a client that is still there; what can  *)
(* prevent it is a Close under way, a notification that found the view     *)
(* model gone, or a session not yet on the bus when it was shut down.  Of  *)
(* a session that could not be put there the call's error has told.        *)
ClosedWindowIsTold ==
  window = "closed" ~>
    \/ closed = 1 \/ client = "gone" \/ create = "refused"
    \/ close # "idle"
    \/ \E n \in Notices : notice[n] = "closing"
    \/ canceller = "done" /\ registered = "yes"

(* notify_state_changed, when the view model cannot be reached: "Error     *)
(* occurred while forwarding state update to ceremony session. Closing     *)
(* session."                                                               *)
FailedNoticeClosesSession ==
  \A n \in Notices : notice[n] = "closing" ~> registered # "yes"
====
