---- MODULE UiSessionProofs ----
(***************************************************************************)
(* Proofs about UiSession, for any notifications, capacity and entries.    *)
(*                                                                         *)
(* LockInv: who has the session's write lock, and that a notification that *)
(* found the view model gone waits for its own lock.  CloserInv: why each  *)
(* closer shuts the session down.  EventInv: where the user's last event   *)
(* can be, and that it is sent before Closed.                              *)
(***************************************************************************)
EXTENDS UiSession, TLAPS

----
(* Types.                                                                  *)

UserEvents == {"discovery", "entry", "cancelled"}
ViewEvents == {"initiated", "entry", "cancelled"}

LEMMA InitUiTypes == Init => UiTypeOK
<1> SUFFICES ASSUME Init PROVE UiTypeOK
  OBVIOUS
<1>1. uiEvents = <<>> /\ bgEvents = <<>> /\ viewEvents = <<>>
  BY DEF Init
<1>2. /\ uiEvents \in Seq(UserEvents) /\ bgEvents \in Seq({"update", "completed"})
      /\ viewEvents \in Seq(ViewEvents) /\ Len(uiEvents) = 0 /\ Len(bgEvents) = 0
  BY <1>1
<1>3. 0 <= Capacity /\ entered \in 0..MaxEntries
  BY UiAssumption DEF Init
<1> QED
  BY <1>2, <1>3 DEF Init, UiTypeOK, UserEvents, ViewEvents

(* A send to the forwarder, or to the window's event loop.                 *)
LEMMA ForwarderSend ==
  ASSUME NEW e \in UserEvents, UiTypeOK, ToForwarder(e)
  PROVE  uiEvents' \in Seq(UserEvents) /\ Len(uiEvents') <= Capacity
<1>1. uiEvents \in Seq(UserEvents) /\ Len(uiEvents) <= Capacity
  BY DEF UiTypeOK, UserEvents
<1>2. CASE ForwarderListens
  <2>1. uiEvents' = Append(uiEvents, e) /\ Len(uiEvents) < Capacity
    BY <1>2 DEF ToForwarder
  <2> QED
    BY <1>1, <2>1, UiAssumption
<1>3. CASE ~ForwarderListens
  BY <1>1, <1>3 DEF ToForwarder
<1> QED
  BY <1>2, <1>3

LEMMA ViewSend ==
  ASSUME NEW e \in ViewEvents, UiTypeOK, ViewEvent(e)
  PROVE  viewEvents' \in Seq(ViewEvents)
<1>1. viewEvents \in Seq(ViewEvents)
  BY DEF UiTypeOK, ViewEvents
<1> QED
  BY <1>1 DEF ViewEvent

(* The stages of shutdown.                                                 *)
ShutStages == {"off", "lookup", "get", "got", "emitted", "done"}

LEMMA UserEventsTaken ==
  ASSUME UiTypeOK, uiEvents # <<>>
  PROVE  Tail(uiEvents) \in Seq(UserEvents) /\ Len(Tail(uiEvents)) <= Capacity
<1>1. uiEvents \in Seq(UserEvents) /\ Len(uiEvents) <= Capacity
  BY DEF UiTypeOK, UserEvents
<1>2. Tail(uiEvents) \in Seq(UserEvents) /\ Len(Tail(uiEvents)) = Len(uiEvents) - 1 /\ Len(uiEvents) \in Nat
  BY <1>1
<1> QED
  BY <1>1, <1>2, UiAssumption

LEMMA UiTypesStep == UiTypeOK /\ [Next]_vars => UiTypeOK'
<1> SUFFICES ASSUME UiTypeOK, [Next]_vars PROVE UiTypeOK'
  OBVIOUS
<1> USE DEF objVars, taskVars, guiVars, chanVars, outVars
<1>1. CASE CreateSession
  BY <1>1 DEF CreateSession, SetupCancellation, StartForwarder, CreateFails, SendRequest,
     Register, RegisterFails, UiTypeOK
<1>2. ASSUME NEW a \in Closers, Shutdown(a) PROVE UiTypeOK'
  <2>1. shut' \in [Closers -> ShutStages]
    BY <1>2 DEF Shutdown, ShutLookup, ShutGet, ShutEmit, ShutRemove, UiTypeOK, ShutStages
  <2>2. closed' \in Nat
    BY <1>2 DEF Shutdown, ShutLookup, ShutGet, ShutEmit, ShutRemove, UiTypeOK
  <2> QED
    BY <1>2, <2>1, <2>2
       DEF Shutdown, ShutLookup, ShutGet, ShutEmit, ShutRemove, UiTypeOK, ShutStages
<1>3. ASSUME NEW n \in Notices, NoticeArrives(n) PROVE UiTypeOK'
  BY <1>3 DEF NoticeArrives, UiTypeOK
<1>4. ASSUME NEW n \in Notices, NoticeLocks(n) PROVE UiTypeOK'
  BY <1>4 DEF NoticeLocks, UiTypeOK
<1>5. ASSUME NEW n \in Notices, NEW e \in {"update", "completed"}, NoticeSends(n, e)
      PROVE  UiTypeOK'
  <2>1. /\ bgEvents \in Seq({"update", "completed"}) /\ Len(bgEvents) < Capacity
        /\ bgEvents' = Append(bgEvents, e)
    BY <1>5 DEF NoticeSends, UiTypeOK
  <2>2. bgEvents' \in Seq({"update", "completed"}) /\ Len(bgEvents') <= Capacity
    BY <2>1, UiAssumption
  <2> QED
    BY <1>5, <2>2 DEF NoticeSends, UiTypeOK
<1>6. ASSUME NEW n \in Notices, NoticeFails(n) PROVE UiTypeOK'
  BY <1>6 DEF NoticeFails, UiTypeOK, Closers
<1>7. ASSUME NEW n \in Notices, NoticeReturns(n) PROVE UiTypeOK'
  BY <1>7 DEF NoticeReturns, UiTypeOK
<1>8. CASE CloseArrives \/ CloseLocks \/ CloseShutsDown \/ CloseReturns
  BY <1>8 DEF CloseArrives, CloseLocks, CloseShutsDown, CloseReturns, UiTypeOK, Closers
<1>9. CASE CancelForwarder
  <2>1. uiEvents' \in Seq(UserEvents) /\ Len(uiEvents') <= Capacity
    BY <1>9, UiAssumption DEF CancelForwarder
  <2> QED
    BY <1>9, <2>1 DEF CancelForwarder, UiTypeOK, Closers, UserEvents
<1>22. CASE CancelCanceller
  BY <1>22 DEF CancelCanceller, UiTypeOK, Closers
<1>10. CASE Canceller
  BY <1>10 DEF Canceller, CancellerWakes, CancelsGui, CancellerEnds, UiTypeOK, Closers
<1>11. CASE Forward \/ ForwardCancel
  <2>1. uiEvents' \in Seq(UserEvents) /\ Len(uiEvents') <= Capacity
    BY <1>11, UserEventsTaken DEF Forward, ForwardCancel, HasSignal
  <2>2. signals' \in Nat
    BY <1>11 DEF Forward, ForwardCancel, UiTypeOK
  <2> QED
    BY <1>11, <2>1, <2>2 DEF Forward, ForwardCancel, UiTypeOK, UserEvents, Closers
<1>12. CASE ForwarderResumes
  BY <1>12 DEF ForwarderResumes, UiTypeOK, Closers
<1>13. CASE ForwarderEnds
  <2>1. uiEvents' \in Seq(UserEvents) /\ Len(uiEvents') <= Capacity
    BY <1>13, UiAssumption DEF ForwarderEnds
  <2> QED
    BY <1>13, <2>1 DEF ForwarderEnds, UiTypeOK, UserEvents
<1>14. CASE OtherWindowCloses \/ GuiReturns \/ ClientLeaves
  BY <1>14 DEF OtherWindowCloses, GuiReturns, ClientLeaves, UiTypeOK
<1>15. CASE RunGui
  <2>1. viewEvents' = <<"initiated">>
    BY <1>15 DEF RunGui
  <2>2. viewEvents' \in Seq(ViewEvents)
    BY <2>1 DEF ViewEvents
  <2>3. /\ gui' = "up" /\ asked' = FALSE /\ guiCancel' = "waiting" /\ vm' = "running"
        /\ window' = "open"
        /\ UNCHANGED <<closes, create, objVars, notice, close, taskVars, chanVars, outVars>>
    BY <1>15 DEF RunGui
  <2>4. {emits, stopped, cancelGui, asked, closes, spoilt}' \subseteq BOOLEAN
    BY <2>3 DEF UiTypeOK
  <2>5. /\ gui' \in {"other", "free", "up"} /\ guiCancel' \in {"off", "waiting", "done"}
        /\ vm' \in {"off", "running", "finishing", "done", "panicked", "killed"}
        /\ window' \in {"none", "open", "closed"}
    BY <2>3
  <2> HIDE DEF ViewEvents
  <2> QED
    BY <2>2, <2>3, <2>4, <2>5 DEF UiTypeOK, ViewEvents
<1>16. CASE GuiCancelled \/ UserEnters \/ WindowCloses
  <2>1. viewEvents' \in Seq(ViewEvents)
    BY <1>16, ViewSend DEF GuiCancelled, UserEnters, WindowCloses, ViewEvents
  <2>2. entered' \in 0..MaxEntries
    BY <1>16, UiAssumption DEF GuiCancelled, UserEnters, WindowCloses, UiTypeOK
  <2> QED
    BY <1>16, <2>1, <2>2 DEF GuiCancelled, UserEnters, WindowCloses, UiTypeOK, ViewEvents
<1>17. CASE VmInitiated \/ VmEntry \/ VmEntryFails
  <2>0. viewEvents # <<>> /\ viewEvents' = Tail(viewEvents) /\ viewEvents \in Seq(ViewEvents)
    BY <1>17 DEF VmInitiated, VmEntry, VmEntryFails, VmTakes, UiTypeOK, ViewEvents
  <2>1. viewEvents' \in Seq(ViewEvents)
    BY <2>0
  <2>2. uiEvents' \in Seq(UserEvents) /\ Len(uiEvents') <= Capacity
    BY <1>17, ForwarderSend DEF VmInitiated, VmEntry, VmEntryFails, UserEvents
  <2> QED
    BY <1>17, <2>1, <2>2
       DEF VmInitiated, VmEntry, VmEntryFails, VmElse, UiTypeOK, UserEvents, ViewEvents
<1>18. CASE VmCancelled
  <2>1. viewEvents' \in Seq(ViewEvents)
    BY <1>18 DEF VmCancelled, VmTakes, UiTypeOK, ViewEvents
  <2> QED
    BY <1>18, <2>1 DEF VmCancelled, VmElse, UiTypeOK, ViewEvents
<1>19. CASE VmBackground
  <2>1. bgEvents \in Seq({"update", "completed"}) /\ bgEvents # <<>> /\ bgEvents' = Tail(bgEvents)
        /\ Len(bgEvents) <= Capacity
    BY <1>19 DEF VmBackground, UiTypeOK
  <2>2. bgEvents' \in Seq({"update", "completed"}) /\ Len(bgEvents') <= Capacity
    BY <2>1, UiAssumption
  <2> QED
    BY <1>19, <2>2 DEF VmBackground, VmElse, UiTypeOK
<1>20. CASE VmFinishes
  <2>1. uiEvents' \in Seq(UserEvents) /\ Len(uiEvents') <= Capacity
    BY <1>20, ForwarderSend DEF VmFinishes, UserEvents
  <2> QED
    BY <1>20, <2>1 DEF VmFinishes, VmElse, UiTypeOK, UserEvents
<1>21. CASE UNCHANGED vars
  BY <1>21 DEF vars, UiTypeOK
<1> QED
  BY <1>1, <1>2, <1>3, <1>4, <1>5, <1>6, <1>7, <1>8, <1>9, <1>10, <1>11, <1>12, <1>13,
     <1>14, <1>15, <1>16, <1>17, <1>18, <1>19, <1>20, <1>21, <1>22
     DEF Next, Close, Forwarder, EventLoop, NotifyStateChanged

(* The type invariant, for any notifications, capacity and entries.        *)
THEOREM UiTypeCorrect == Spec => []UiTypeOK
BY InitUiTypes, UiTypesStep, PTL DEF Spec

----
(* Who holds the session.                                                  *)

LockInv ==
  /\ \A n \in Notices : notice[n] \in {"locked", "closing"} => guard = n
  /\ close \in {"locked", "quiet", "silenced", "closing"} => guard = "close"
  /\ \A n \in Notices : shut[n] # "off" => notice[n] \in {"closing", "done"}
  /\ \A n \in Notices : shut[n] \in {"lookup", "get"} => notice[n] = "closing"
  /\ \A n \in Notices : shut[n] \notin {"got", "emitted"}

(* Why each closer shuts the session down.                                 *)
CloserInv ==
  /\ registered # "no" <=> create = "returned"
  /\ create = "idle" => canceller \in {"off", "cancelled"}
  /\ create \in {"idle", "watching"} => forwarder = "off"
  /\ stopped => forwarder = "done"
  /\ shut["forwarder"] # "off" => forwarder = "closing"
  /\ shut["close"] # "off" => ~emits
  /\ canceller \in {"woken", "closing"} =>
       \/ client = "gone" \/ stopped \/ forwarder = "cancelled"
       \/ create \in {"failed", "refused"} \/ registered = "removed"
  /\ shut["canceller"] \in {"lookup", "get", "got", "emitted"} => canceller = "closing"
  /\ shut["canceller"] \in {"get", "got", "emitted"} =>
       client = "gone" \/ stopped \/ forwarder = "cancelled"
  /\ \A a \in Closers : shut[a] \in {"get", "got", "emitted"} => registered # "no"

(* The event loop runs once, for the request this session made.            *)
LoopInv ==
  /\ create \in {"idle", "watching", "forwarding"} => vm = "off" /\ ~asked
  /\ asked => vm = "off"
  /\ gui = "up" => vm # "off"

(* The user's last event, and what is left of them once the session closed. *)
EventInv ==
  /\ ~spoilt => \A i \in 1..Len(uiEvents) :
       uiEvents[i] = "cancelled" => i = Len(uiEvents) /\ vm = "done"
  /\ ~spoilt /\ forwarder = "closing" => uiEvents = <<>> /\ vm = "done"
  /\ closed > 0 /\ ~spoilt /\ client = "there" =>
       \/ forwarder \in {"done", "cancelled"}
       \/ uiEvents = <<>> /\ vm = "done"
  /\ closed > 0 => registered # "no"

(* The flag is up only until Closed is sent.                               *)
OnceInv == closed <= 1 /\ (emits => closed = 0)

LEMMA Distinct ==
  /\ \A n \in Notices : n \notin {Nobody, "close", "forwarder", "canceller"}
  /\ Nobody \notin {"close", "forwarder", "canceller"}
BY UiAssumption

LEMMA InitInvs == Init => LockInv /\ CloserInv /\ LoopInv /\ EventInv /\ OnceInv
<1> SUFFICES ASSUME Init PROVE LockInv /\ CloserInv /\ LoopInv /\ EventInv /\ OnceInv
  OBVIOUS
<1>1. LockInv /\ CloserInv
  BY DEF Init, LockInv, CloserInv, Closers
<1>2. LoopInv /\ OnceInv
  BY DEF Init, LoopInv, OnceInv
<1>3. EventInv
  BY DEF Init, EventInv
<1> QED
  BY <1>1, <1>2, <1>3

LEMMA LockStep == UiTypeOK /\ LockInv /\ [Next]_vars => LockInv'
<1> SUFFICES ASSUME UiTypeOK, LockInv, [Next]_vars PROVE LockInv'
  OBVIOUS
<1> USE DEF objVars, taskVars, guiVars, chanVars, outVars
<1>1. shut \in [Closers -> ShutStages] /\ notice \in [Notices -> {"idle", "found", "locked", "closing", "done"}]
  BY DEF UiTypeOK, ShutStages
<1>2. Notices \subseteq Closers /\ {"close", "forwarder", "canceller"} \subseteq Closers
  BY DEF Closers
<1>3. CASE UNCHANGED <<guard, shut, notice, close>>
  BY <1>3 DEF LockInv
<1>4. CASE CreateSession \/ CloseArrives
  BY <1>4 DEF CreateSession, SetupCancellation, StartForwarder, CreateFails, SendRequest,
     Register, RegisterFails, CloseArrives, LockInv
<1>5. ASSUME NEW a \in Closers, Shutdown(a) PROVE LockInv'
  <2>1. UNCHANGED <<guard, notice, close>>
    BY <1>5 DEF Shutdown, ShutLookup, ShutGet, ShutEmit, ShutRemove
  <2>2. CASE a \in Notices
    <3>1. CASE ShutLookup(a)
      BY <1>1, <1>2, <2>1, <2>2, <3>1 DEF ShutLookup, LockInv
    <3>2. CASE ShutGet(a)
      BY <2>2, <3>2, Distinct DEF ShutGet, LockInv
    <3>3. CASE ShutEmit(a) \/ ShutRemove(a)
      BY <2>2, <3>3 DEF ShutEmit, ShutRemove, LockInv
    <3> QED
      BY <1>5, <3>1, <3>2, <3>3 DEF Shutdown
  <2>3. CASE a \notin Notices
    <3>1. \A n \in Notices : shut'[n] = shut[n]
      BY <1>1, <1>2, <1>5, <2>3 DEF Shutdown, ShutLookup, ShutGet, ShutEmit, ShutRemove
    <3> QED
      BY <2>1, <3>1 DEF LockInv
  <2> QED
    BY <2>2, <2>3
<1>6. ASSUME NEW n \in Notices, NoticeArrives(n) PROVE LockInv'
  BY <1>1, <1>6 DEF NoticeArrives, LockInv
<1>7. ASSUME NEW n \in Notices, NotifyStateChanged(n) PROVE LockInv'
  <2>1. CASE NoticeLocks(n)
    BY <1>1, <1>7, <2>1, Distinct DEF NoticeLocks, LockInv
  <2>2. CASE \E e \in {"update", "completed"} : NoticeSends(n, e)
    BY <1>1, <1>7, <2>2, Distinct DEF NoticeSends, LockInv
  <2>3. CASE NoticeFails(n)
    BY <1>1, <1>2, <1>7, <2>3, Distinct DEF NoticeFails, LockInv
  <2>4. CASE NoticeReturns(n)
    BY <1>1, <1>7, <2>4, Distinct DEF NoticeReturns, LockInv
  <2> QED
    BY <1>7, <2>1, <2>2, <2>3, <2>4 DEF NotifyStateChanged
<1>8. CASE CloseLocks \/ CloseReturns
  BY <1>8, Distinct DEF CloseLocks, CloseReturns, LockInv
<1>9. CASE CancelForwarder \/ CancelCanceller \/ CloseShutsDown
  <2>1. \A n \in Notices : shut'[n] = shut[n]
    BY <1>1, <1>2, <1>9, Distinct DEF CancelForwarder, CancelCanceller, CloseShutsDown
  <2> QED
    BY <1>9, <2>1 DEF CancelForwarder, CancelCanceller, CloseShutsDown, LockInv
<1>10. CASE Canceller \/ Forwarder
  <2>1. \A n \in Notices : shut'[n] = shut[n]
    BY <1>1, <1>2, <1>10, Distinct
       DEF Canceller, CancellerWakes, CancelsGui, CancellerEnds,
           Forwarder, Forward, ForwardCancel, ForwarderResumes, ForwarderEnds
  <2> QED
    BY <1>10, <2>1
       DEF Canceller, CancellerWakes, CancelsGui, CancellerEnds,
           Forwarder, Forward, ForwardCancel, ForwarderResumes, ForwarderEnds, LockInv
<1>11. CASE EventLoop
  <2>1. UNCHANGED <<guard, shut, notice, close>>
    BY <1>11 DEF EventLoop, VmInitiated, VmEntry, VmEntryFails, VmCancelled, VmBackground,
       VmFinishes, VmElse
  <2> QED
    BY <1>3, <2>1
<1>12. CASE OtherWindowCloses \/ RunGui \/ GuiCancelled \/ UserEnters \/ WindowCloses \/ GuiReturns
            \/ ClientLeaves
  <2>1. UNCHANGED <<guard, shut, notice, close>>
    BY <1>12 DEF OtherWindowCloses, RunGui, GuiCancelled, UserEnters, WindowCloses,
       GuiReturns, ClientLeaves
  <2> QED
    BY <1>3, <2>1
<1>13. CASE UNCHANGED vars
  BY <1>3, <1>13 DEF vars
<1> QED
  BY <1>4, <1>5, <1>6, <1>7, <1>8, <1>9, <1>10, <1>11, <1>12, <1>13 DEF Next, Close

(* The steps of the window and its event loop touch nothing of the bus.    *)
LEMMA GuiLeavesBus ==
  ASSUME \/ EventLoop \/ OtherWindowCloses \/ RunGui \/ GuiCancelled \/ UserEnters
         \/ WindowCloses \/ GuiReturns
  PROVE  UNCHANGED <<create, objVars, notice, close, taskVars, client, signals, closed>>
BY DEF EventLoop, VmInitiated, VmEntry, VmEntryFails, VmCancelled, VmBackground, VmFinishes,
   VmElse, OtherWindowCloses, RunGui, GuiCancelled, UserEnters, WindowCloses, GuiReturns,
   objVars, taskVars, outVars, chanVars, guiVars

LEMMA CloserStep == UiTypeOK /\ CloserInv /\ [Next]_vars => CloserInv'
<1> SUFFICES ASSUME UiTypeOK, CloserInv, [Next]_vars PROVE CloserInv'
  OBVIOUS
<1> USE DEF objVars, taskVars, guiVars, chanVars, outVars
<1>1. shut \in [Closers -> ShutStages]
  BY DEF UiTypeOK, ShutStages
<1>2. Notices \subseteq Closers /\ {"close", "forwarder", "canceller"} \subseteq Closers
  BY DEF Closers
<1>3. CASE UNCHANGED <<create, objVars, notice, close, taskVars, client>>
  BY <1>3 DEF CloserInv
<1>4. CASE CreateSession
  <2>1. CASE SetupCancellation \/ CreateFails \/ SendRequest \/ Register \/ RegisterFails
    BY <2>1 DEF SetupCancellation, CreateFails, SendRequest, Register, RegisterFails, CloserInv
  <2>2. CASE StartForwarder
    BY <2>2 DEF StartForwarder, CloserInv
  <2> QED
    BY <1>4, <2>1, <2>2 DEF CreateSession
<1>5. ASSUME NEW a \in Closers, Shutdown(a) PROVE CloserInv'
  <2>0. UNCHANGED <<create, forwarder, stopped, canceller, client>>
    BY <1>5 DEF Shutdown, ShutLookup, ShutGet, ShutEmit, ShutRemove
  <2>1. CASE ShutLookup(a)
    BY <1>1, <1>2, <2>0, <2>1 DEF ShutLookup, CloserInv
  <2>2. CASE ShutGet(a)
    BY <1>1, <1>2, <2>0, <2>2 DEF ShutGet, CloserInv
  <2>3. CASE ShutEmit(a)
    BY <1>1, <1>2, <2>0, <2>3 DEF ShutEmit, CloserInv
  <2>4. CASE ShutRemove(a)
    BY <1>1, <1>2, <2>0, <2>4 DEF ShutRemove, CloserInv
  <2> QED
    BY <1>5, <2>1, <2>2, <2>3, <2>4 DEF Shutdown
<1>6. ASSUME NEW n \in Notices, NoticeArrives(n) \/ NotifyStateChanged(n) PROVE CloserInv'
  <2>1. UNCHANGED <<create, registered, emits, taskVars, client>>
    BY <1>6 DEF NoticeArrives, NotifyStateChanged, NoticeLocks, NoticeSends, NoticeFails,
       NoticeReturns
  <2>2. \A a \in Closers : shut'[a] = shut[a] \/ (a = n /\ shut'[a] = "lookup")
    <3>1. CASE NoticeFails(n)
      BY <1>1, <3>1 DEF NoticeFails
    <3>2. CASE ~NoticeFails(n)
      BY <1>6, <3>2 DEF NoticeArrives, NotifyStateChanged, NoticeLocks, NoticeSends, NoticeReturns
    <3> QED
      BY <3>1, <3>2
  <2>3. \A a \in {"close", "forwarder", "canceller"} : shut'[a] = shut[a]
    BY <1>2, <2>2, Distinct
  <2> QED
    BY <2>1, <2>2, <2>3 DEF CloserInv
<1>7. CASE Close \/ CloseArrives
  <2>1. CASE CloseArrives \/ CloseLocks \/ CloseReturns
    BY <2>1 DEF CloseArrives, CloseLocks, CloseReturns, CloserInv
  <2>2. CASE CancelForwarder \/ CancelCanceller
    BY <1>1, <1>2, <2>2 DEF CancelForwarder, CancelCanceller, ForwarderListens, CloserInv
  <2>3. CASE CloseShutsDown
    BY <1>1, <1>2, <2>3 DEF CloseShutsDown, CloserInv
  <2> QED
    BY <1>7, <2>1, <2>2, <2>3 DEF Close
<1>8. CASE Canceller
  <2>1. CASE CancellerWakes
    BY <2>1 DEF CancellerWakes, SessionDropped, CloserInv
  <2>2. CASE CancelsGui \/ CancellerEnds
    BY <1>1, <1>2, <2>2 DEF CancelsGui, CancellerEnds, CloserInv
  <2> QED
    BY <1>8, <2>1, <2>2 DEF Canceller
<1>9. CASE Forwarder
  BY <1>1, <1>2, <1>9
     DEF Forwarder, Forward, ForwardCancel, ForwarderResumes, ForwarderEnds, CloserInv
<1>10. CASE EventLoop \/ OtherWindowCloses \/ RunGui \/ GuiCancelled \/ UserEnters
            \/ WindowCloses \/ GuiReturns
  BY <1>3, <1>10, GuiLeavesBus
<1>11. CASE ClientLeaves
  BY <1>11 DEF ClientLeaves, CloserInv
<1>12. CASE UNCHANGED vars
  BY <1>3, <1>12 DEF vars
<1> QED
  BY <1>4, <1>5, <1>6, <1>7, <1>8, <1>9, <1>10, <1>11, <1>12 DEF Next

(* The steps of everything but the window touch nothing of it.             *)
LEMMA BusLeavesGui ==
  ASSUME \/ Close \/ CloseArrives \/ Canceller \/ Forwarder \/ ClientLeaves
         \/ \E a \in Closers : Shutdown(a)
         \/ \E n \in Notices : NoticeArrives(n) \/ NotifyStateChanged(n)
  PROVE  UNCHANGED <<create, guiVars, spoilt>>
<1> USE DEF objVars, taskVars, guiVars, chanVars, outVars
<1>1. CASE Close \/ CloseArrives \/ ClientLeaves
  BY <1>1 DEF Close, CloseArrives, CloseLocks, CancelForwarder, CancelCanceller, CloseShutsDown, CloseReturns,
     ClientLeaves
<1>2. CASE Canceller
  BY <1>2 DEF Canceller, CancellerWakes, CancelsGui, CancellerEnds
<1>3. CASE Forwarder
  BY <1>3 DEF Forwarder, Forward, ForwardCancel, ForwarderResumes, ForwarderEnds
<1>4. CASE \E a \in Closers : Shutdown(a)
  BY <1>4 DEF Shutdown, ShutLookup, ShutGet, ShutEmit, ShutRemove
<1>5. CASE \E n \in Notices : NoticeArrives(n) \/ NotifyStateChanged(n)
  BY <1>5 DEF NoticeArrives, NotifyStateChanged, NoticeLocks, NoticeSends, NoticeFails,
     NoticeReturns
<1> QED
  BY <1>1, <1>2, <1>3, <1>4, <1>5

LEMMA LoopStep == LoopInv /\ [Next]_vars => LoopInv'
<1> SUFFICES ASSUME LoopInv, [Next]_vars PROVE LoopInv'
  OBVIOUS
<1> USE DEF objVars, taskVars, guiVars, chanVars, outVars
<1>1. CASE CreateSession
  BY <1>1 DEF CreateSession, SetupCancellation, StartForwarder, CreateFails, SendRequest,
     Register, RegisterFails, LoopInv
<1>2. CASE \/ Close \/ CloseArrives \/ Canceller \/ Forwarder \/ ClientLeaves
           \/ \E a \in Closers : Shutdown(a)
           \/ \E n \in Notices : NoticeArrives(n) \/ NotifyStateChanged(n)
  BY <1>2, BusLeavesGui DEF LoopInv
<1>3. CASE EventLoop
  BY <1>3 DEF EventLoop, VmInitiated, VmEntry, VmEntryFails, VmCancelled, VmBackground,
     VmFinishes, VmTakes, VmElse, LoopInv
<1>4. CASE OtherWindowCloses \/ RunGui \/ GuiCancelled \/ UserEnters \/ WindowCloses
  BY <1>4 DEF OtherWindowCloses, RunGui, GuiCancelled, UserEnters, WindowCloses, LoopInv
<1>5. CASE GuiReturns
  BY <1>5 DEF GuiReturns, LoopInv
<1>6. CASE UNCHANGED vars
  BY <1>6 DEF vars, LoopInv
<1> QED
  BY <1>1, <1>2, <1>3, <1>4, <1>5, <1>6 DEF Next

(* Only a closer that finds the flag up sends Closed.                      *)
LEMMA ClosedElsewhere ==
  ASSUME [Next]_vars, ~\E a \in Closers : ShutEmit(a)
  PROVE  closed' = closed /\ (emits' => emits)
<1> USE DEF objVars, taskVars, guiVars, chanVars, outVars
<1>1. CASE Canceller \/ Forwarder
  BY <1>1 DEF Canceller, CancellerWakes, CancelsGui, CancellerEnds,
     Forwarder, Forward, ForwardCancel, ForwarderResumes, ForwarderEnds
<1>2. CASE Close \/ CloseArrives \/ ClientLeaves
  BY <1>2 DEF Close, CloseArrives, CloseLocks, CancelForwarder, CancelCanceller, CloseShutsDown, CloseReturns,
     ClientLeaves
<1>3. CASE \E a \in Closers : Shutdown(a)
  BY <1>3 DEF Shutdown, ShutLookup, ShutGet, ShutRemove
<1>4. CASE \E n \in Notices : NoticeArrives(n) \/ NotifyStateChanged(n)
  BY <1>4 DEF NoticeArrives, NotifyStateChanged, NoticeLocks, NoticeSends, NoticeFails,
     NoticeReturns
<1>5. CASE CreateSession
  BY <1>5 DEF CreateSession, SetupCancellation, StartForwarder, CreateFails, SendRequest,
     Register, RegisterFails
<1>6. CASE EventLoop \/ OtherWindowCloses \/ RunGui \/ GuiCancelled \/ UserEnters
           \/ WindowCloses \/ GuiReturns
  BY <1>6, GuiLeavesBus
<1>7. CASE UNCHANGED vars
  BY <1>7 DEF vars
<1> QED
  BY <1>1, <1>2, <1>3, <1>4, <1>5, <1>6, <1>7 DEF Next

LEMMA OnceStep == UiTypeOK /\ OnceInv /\ [Next]_vars => OnceInv'
<1> SUFFICES ASSUME UiTypeOK, OnceInv, [Next]_vars PROVE OnceInv'
  OBVIOUS
<1>1. closed \in Nat
  BY DEF UiTypeOK
<1>2. ASSUME NEW a \in Closers, ShutEmit(a) PROVE OnceInv'
  <2>1. CASE emits
    <3>1. closed = 0 /\ closed' = closed + 1 /\ ~emits'
      BY <1>2, <2>1 DEF ShutEmit, OnceInv
    <3> QED
      BY <3>1 DEF OnceInv
  <2>2. CASE ~emits
    <3>1. closed' = closed /\ ~emits'
      BY <1>2, <2>2 DEF ShutEmit
    <3> QED
      BY <3>1 DEF OnceInv
  <2> QED
    BY <2>1, <2>2
<1>3. CASE ~\E a \in Closers : ShutEmit(a)
  BY <1>3, ClosedElsewhere DEF OnceInv
<1> QED
  BY <1>2, <1>3

(* Only the forwarder tells the client of the user.                        *)
LEMMA OnlyForwardSignals ==
  ASSUME [Next]_vars, ~Forward
  PROVE  signals' = signals
<1> USE DEF objVars, taskVars, guiVars, chanVars, outVars
<1>1. CASE Canceller \/ Forwarder
  BY <1>1 DEF Canceller, CancellerWakes, CancelsGui, CancellerEnds,
     Forwarder, ForwardCancel, ForwarderResumes, ForwarderEnds
<1>2. CASE Close \/ CloseArrives \/ ClientLeaves
  BY <1>2 DEF Close, CloseArrives, CloseLocks, CancelForwarder, CancelCanceller, CloseShutsDown, CloseReturns,
     ClientLeaves
<1>3. CASE \E a \in Closers : Shutdown(a)
  BY <1>3 DEF Shutdown, ShutLookup, ShutGet, ShutEmit, ShutRemove
<1>4. CASE \E n \in Notices : NoticeArrives(n) \/ NotifyStateChanged(n)
  BY <1>4 DEF NoticeArrives, NotifyStateChanged, NoticeLocks, NoticeSends, NoticeFails,
     NoticeReturns
<1>5. CASE CreateSession
  BY <1>5 DEF CreateSession, SetupCancellation, StartForwarder, CreateFails, SendRequest,
     Register, RegisterFails
<1>6. CASE EventLoop \/ OtherWindowCloses \/ RunGui \/ GuiCancelled \/ UserEnters
           \/ WindowCloses \/ GuiReturns
  BY <1>6, GuiLeavesBus
<1>7. CASE UNCHANGED vars
  BY <1>7 DEF vars
<1> QED
  BY <1>1, <1>2, <1>3, <1>4, <1>5, <1>6, <1>7 DEF Next

(* The inductive invariant.                                                *)
UiInv == UiTypeOK /\ LockInv /\ CloserInv /\ LoopInv /\ EventInv /\ OnceInv

LEMMA EventStep == UiInv /\ [Next]_vars => EventInv'
<1> SUFFICES ASSUME UiInv, [Next]_vars PROVE EventInv'
  OBVIOUS
<1> USE DEF objVars, taskVars, guiVars, chanVars, outVars
<1>1. uiEvents \in Seq(UserEvents) /\ closed \in Nat
  BY DEF UiInv, UiTypeOK, UserEvents
<1>2. /\ shut \in [Closers -> ShutStages]
      /\ Notices \subseteq Closers /\ {"close", "forwarder", "canceller"} \subseteq Closers
  BY DEF UiInv, UiTypeOK, ShutStages, Closers
<1>3. CASE UNCHANGED <<uiEvents, vm, forwarder, spoilt, closed, client, registered>>
  BY <1>3 DEF UiInv, EventInv
<1>4. CASE CreateSession
  <2>1. CASE SetupCancellation \/ CreateFails \/ SendRequest \/ RegisterFails
    <3>1. UNCHANGED <<uiEvents, vm, forwarder, spoilt, closed, client, registered>>
      BY <2>1 DEF SetupCancellation, CreateFails, SendRequest, RegisterFails
    <3> QED
      BY <1>3, <3>1
  <2>2. CASE StartForwarder
    <3>1. closed <= 0 /\ forwarder' = "running"
      BY <1>1, <2>2 DEF StartForwarder, UiInv, EventInv, CloserInv
    <3> QED
      BY <1>1, <2>2, <3>1 DEF StartForwarder, UiInv, EventInv
  <2>3. CASE Register
    BY <2>3 DEF Register, UiInv, EventInv
  <2> QED
    BY <1>4, <2>1, <2>2, <2>3 DEF CreateSession
<1>5. ASSUME NEW a \in Closers, Shutdown(a) PROVE EventInv'
  <2>1. UNCHANGED <<uiEvents, vm, forwarder, spoilt, client>>
    BY <1>5 DEF Shutdown, ShutLookup, ShutGet, ShutEmit, ShutRemove
  <2>2. CASE ShutEmit(a)
    <3>1. a \notin Notices /\ registered # "no" /\ registered' = registered
      BY <2>2 DEF ShutEmit, UiInv, LockInv, CloserInv
    <3>2. CASE a = "forwarder"
      BY <2>1, <2>2, <3>1, <3>2 DEF ShutEmit, UiInv, EventInv, CloserInv
    <3>3. CASE a = "canceller"
      <4>1. client = "gone" \/ forwarder \in {"done", "cancelled"}
        BY <2>2, <3>3 DEF ShutEmit, UiInv, CloserInv
      <4> QED
        BY <2>1, <3>1, <4>1 DEF UiInv, EventInv
    <3>4. CASE a = "close"
      <4>1. closed' = closed
        BY <2>2, <3>4 DEF ShutEmit, UiInv, CloserInv
      <4> QED
        BY <1>3, <2>1, <3>1, <4>1
    <3> QED
      BY <3>1, <3>2, <3>3, <3>4 DEF Closers
  <2>3. CASE ~ShutEmit(a)
    <3>1. closed' = closed /\ (registered' = registered \/ registered' # "no")
      BY <1>5, <2>3 DEF Shutdown, ShutLookup, ShutGet, ShutRemove
    <3> QED
      BY <2>1, <3>1 DEF UiInv, EventInv
  <2> QED
    BY <2>2, <2>3
<1>6. ASSUME NEW n \in Notices, NoticeArrives(n) \/ NotifyStateChanged(n) PROVE EventInv'
  <2>1. UNCHANGED <<uiEvents, vm, forwarder, spoilt, closed, client, registered>>
    BY <1>6 DEF NoticeArrives, NotifyStateChanged, NoticeLocks, NoticeSends, NoticeFails,
       NoticeReturns
  <2> QED
    BY <1>3, <2>1
<1>7. CASE CloseArrives \/ CloseLocks \/ CloseReturns \/ CloseShutsDown \/ Canceller
            \/ CancelCanceller
  <2>1. UNCHANGED <<uiEvents, vm, forwarder, spoilt, closed, client, registered>>
    BY <1>7 DEF CloseArrives, CloseLocks, CloseReturns, CloseShutsDown, CancelCanceller, Canceller,
       CancellerWakes, CancelsGui, CancellerEnds
  <2> QED
    BY <1>3, <2>1
<1>8. CASE CancelForwarder
  <2>1. uiEvents' = <<>> /\ Len(uiEvents') = 0
    BY <1>8 DEF CancelForwarder
  <2>2. UNCHANGED <<vm, spoilt, closed, client, registered>>
    BY <1>8 DEF CancelForwarder
  <2>3. forwarder' # "closing" /\ (forwarder \in {"done", "cancelled"} => forwarder' = forwarder)
    BY <1>8 DEF CancelForwarder, ForwarderListens
  <2> QED
    BY <2>1, <2>2, <2>3 DEF UiInv, EventInv
<1>9. CASE Forward
  <2>1. uiEvents # <<>> /\ uiEvents' = Tail(uiEvents)
    BY <1>9 DEF Forward, HasSignal
  <2>2. /\ Len(uiEvents') = Len(uiEvents) - 1 /\ Len(uiEvents) \in Nat
        /\ \A i \in 1..Len(uiEvents') : uiEvents'[i] = uiEvents[i + 1] /\ i + 1 \in 1..Len(uiEvents)
    BY <1>1, <2>1
  <2>3. /\ forwarder = "running"
        /\ UNCHANGED <<vm, spoilt, closed, client, registered, forwarder>>
    BY <1>9 DEF Forward
  <2>4. ~spoilt => \A i \in 1..Len(uiEvents') :
          uiEvents'[i] = "cancelled" => i = Len(uiEvents') /\ vm = "done"
    BY <2>2 DEF UiInv, EventInv
  <2> QED
    BY <2>1, <2>3, <2>4 DEF UiInv, EventInv
<1>10. CASE ForwardCancel
  <2>1. uiEvents # <<>> /\ uiEvents' = Tail(uiEvents) /\ uiEvents[1] = "cancelled"
    BY <1>1, <1>10 DEF ForwardCancel
  <2>2. Len(uiEvents) \in Nat /\ 1 \in 1..Len(uiEvents)
    BY <1>1, <2>1
  <2>3. ~spoilt => vm = "done" /\ Len(uiEvents) = 1
    BY <2>1, <2>2 DEF UiInv, EventInv
  <2>4. ~spoilt => uiEvents' = <<>>
    BY <1>1, <2>1, <2>3
  <2>5. forwarder' = "closing" /\ UNCHANGED <<vm, spoilt, closed, client, registered>>
    BY <1>10 DEF ForwardCancel
  <2>6. ~spoilt => Len(uiEvents') = 0
    BY <2>4
  <2> QED
    BY <2>3, <2>4, <2>5, <2>6 DEF UiInv, EventInv
<1>11. CASE ForwarderResumes
  <2>1. /\ forwarder = "closing" /\ forwarder' = "running"
        /\ UNCHANGED <<uiEvents, vm, spoilt, closed, client, registered>>
    BY <1>11 DEF ForwarderResumes
  <2> QED
    BY <2>1 DEF UiInv, EventInv
<1>12. CASE ForwarderEnds
  <2>1. uiEvents' = <<>> /\ Len(uiEvents') = 0
    BY <1>12 DEF ForwarderEnds
  <2>2. forwarder' = "done" /\ UNCHANGED <<vm, spoilt, closed, client, registered>>
    BY <1>12 DEF ForwarderEnds
  <2> QED
    BY <2>1, <2>2 DEF UiInv, EventInv
<1>13. CASE OtherWindowCloses \/ GuiCancelled \/ UserEnters \/ WindowCloses
  <2>1. UNCHANGED <<uiEvents, vm, forwarder, spoilt, closed, client, registered>>
    BY <1>13 DEF OtherWindowCloses, GuiCancelled, UserEnters, WindowCloses
  <2> QED
    BY <1>3, <2>1
<1>14. CASE RunGui \/ GuiReturns
  <2>1. vm = "done" => vm' = "done"
    BY <1>14 DEF RunGui, GuiReturns, VmGone, UiInv, LoopInv
  <2>2. UNCHANGED <<uiEvents, forwarder, spoilt, closed, client, registered>>
    BY <1>14 DEF RunGui, GuiReturns
  <2> QED
    BY <2>1, <2>2 DEF UiInv, EventInv
<1>15. CASE VmInitiated \/ VmEntry
  <2>1. PICK e \in {"discovery", "entry"} : ToForwarder(e)
    BY <1>15 DEF VmInitiated, VmEntry
  <2>2. vm = "running" /\ UNCHANGED <<forwarder, spoilt, closed, client, registered>>
    BY <1>15 DEF VmInitiated, VmEntry, VmTakes, VmElse
  <2>3. ~spoilt => \A i \in 1..Len(uiEvents) : uiEvents[i] # "cancelled"
    BY <2>2 DEF UiInv, EventInv
  <2>4. ~spoilt => \A i \in 1..Len(uiEvents') : uiEvents'[i] # "cancelled"
    <3>1. CASE uiEvents' = uiEvents
      BY <2>3, <3>1
    <3>2. CASE uiEvents' = Append(uiEvents, e)
      <4>1. /\ Len(uiEvents') = Len(uiEvents) + 1 /\ Len(uiEvents) \in Nat
            /\ uiEvents'[Len(uiEvents) + 1] = e
            /\ \A i \in 1..Len(uiEvents) : uiEvents'[i] = uiEvents[i]
        BY <1>1, <2>1, <3>2 DEF UserEvents
      <4> QED
        BY <2>1, <2>3, <4>1
    <3> QED
      BY <2>1, <3>1, <3>2 DEF ToForwarder
  <2>5. closed > 0 /\ ~spoilt /\ client = "there" => forwarder \in {"done", "cancelled"}
    BY <2>2 DEF UiInv, EventInv
  <2>6. forwarder = "closing" => spoilt
    BY <2>2 DEF UiInv, EventInv
  <2>7. closed > 0 => registered # "no"
    BY DEF UiInv, EventInv
  <2> QED
    BY <2>2, <2>4, <2>5, <2>6, <2>7 DEF EventInv
<1>16. CASE VmEntryFails
  <2>1. spoilt' /\ UNCHANGED <<closed, registered>>
    BY <1>16 DEF VmEntryFails, VmElse
  <2> QED
    BY <2>1 DEF UiInv, EventInv
<1>17. CASE VmCancelled \/ VmBackground
  <2>1. vm # "done" /\ UNCHANGED <<uiEvents, forwarder, spoilt, closed, client, registered>>
    BY <1>17 DEF VmCancelled, VmBackground, VmTakes, VmElse
  <2> QED
    BY <2>1 DEF UiInv, EventInv
<1>18. CASE VmFinishes
  <2>1. ToForwarder("cancelled") /\ vm # "done" /\ vm' = "done"
    BY <1>18 DEF VmFinishes
  <2>2. UNCHANGED <<forwarder, spoilt, closed, client, registered>>
    BY <1>18 DEF VmFinishes, VmElse
  <2>3. ~spoilt => \A i \in 1..Len(uiEvents) : uiEvents[i] # "cancelled"
    BY <2>1 DEF UiInv, EventInv
  <2>4. ~spoilt => \A i \in 1..Len(uiEvents') : uiEvents'[i] = "cancelled" => i = Len(uiEvents')
    <3>1. CASE uiEvents' = uiEvents
      BY <2>3, <3>1
    <3>2. CASE uiEvents' = Append(uiEvents, "cancelled")
      <4>1. /\ Len(uiEvents') = Len(uiEvents) + 1 /\ Len(uiEvents) \in Nat
            /\ \A i \in 1..Len(uiEvents) : uiEvents'[i] = uiEvents[i]
        BY <1>1, <3>2 DEF UserEvents
      <4> QED
        BY <2>3, <4>1
    <3> QED
      BY <2>1, <3>1, <3>2 DEF ToForwarder
  <2>5. closed > 0 /\ ~spoilt /\ client = "there" => forwarder \in {"done", "cancelled"}
    BY <2>1 DEF UiInv, EventInv
  <2>6. forwarder = "closing" => spoilt
    BY <2>1 DEF UiInv, EventInv
  <2>7. closed > 0 => registered # "no"
    BY DEF UiInv, EventInv
  <2> QED
    BY <2>1, <2>2, <2>4, <2>5, <2>6, <2>7 DEF EventInv
<1>19. CASE ClientLeaves
  <2>1. client' # "there" /\ UNCHANGED <<uiEvents, vm, forwarder, spoilt, closed, registered>>
    BY <1>19 DEF ClientLeaves
  <2> QED
    BY <2>1 DEF UiInv, EventInv
<1>20. CASE UNCHANGED vars
  BY <1>3, <1>20 DEF vars
<1> QED
  BY <1>4, <1>5, <1>6, <1>7, <1>8, <1>9, <1>10, <1>11, <1>12, <1>13, <1>14, <1>15, <1>16,
     <1>17, <1>18, <1>19, <1>20 DEF Next, Close, Forwarder, EventLoop

LEMMA UiInvInductive == Spec => []UiInv
<1>1. Init => UiInv
  BY InitUiTypes, InitInvs DEF UiInv
<1>2. UiInv /\ [Next]_vars => UiInv'
  BY UiTypesStep, LockStep, CloserStep, LoopStep, EventStep, OnceStep DEF UiInv
<1> QED
  BY <1>1, <1>2, PTL DEF Spec

----
(* However many of its closers get to a session, its Closed signal is sent *)
(* once at most: the flag is taken by the one that reads it.               *)
THEOREM ClosedIsSentOnce == Spec => []ClosedOnce
<1>1. UiInv => ClosedOnce
  BY DEF UiInv, OnceInv, ClosedOnce
<1> QED
  BY <1>1, UiInvInductive, PTL

(* After Closed, a client that is still there hears no more of the user,   *)
(* unless an entry could not be handed over (dbus.rs: shutdown and the     *)
(* forwarder of the user's events).                                        *)
THEOREM ClosedIsLast == Spec => NothingAfterClosed
<1>1. ASSUME UiInv, [Next]_vars, closed > 0 /\ ~spoilt /\ client = "there"
      PROVE  signals' = signals
  <2>1. CASE Forward
    <3>1. forwarder = "running" /\ uiEvents # <<>>
      BY <2>1 DEF Forward, HasSignal
    <3> QED
      BY <1>1, <3>1 DEF UiInv, EventInv
  <2>2. CASE ~Forward
    BY <1>1, <2>2, OnlyForwardSignals
  <2> QED
    BY <2>1, <2>2
<1>2. UiInv /\ [Next]_vars
        => [closed > 0 /\ ~spoilt /\ client = "there" => signals' = signals]_vars
  BY <1>1
<1> QED
  BY <1>2, UiInvInductive, PTL DEF Spec, NothingAfterClosed
====
