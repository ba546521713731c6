---- MODULE UsbProofs ----
(***************************************************************************)
(* Proofs about UsbHandler, for any keys, capacities and bounds.           *)
(*                                                                         *)
(* RoundInv ties the places of a round to the state it serves.  BlinkInv   *)
(* says who can still call a lit key off.  AskInv says that a key waiting  *)
(* for a PIN has asked last and asks no more.  PromptInv follows the       *)
(* prompt from the key to the window.                                      *)
(***************************************************************************)
EXTENDS UsbHandler, SequenceTheorems, TLAPS

----
(* Types.                                                                  *)

(* The relay only waits for a PIN.                                         *)
PinPrompts == {q \in KeyQuestions : q.tag \in PinQuestions}

(* Until process has found a key or given up.                              *)
Searching == {"idle", "waiting", "selecting"}

InSelection == {"setup", "choosing", "quieting", "calling_off"}

(* The places of a round that belong to the selection of a key; the search *)
(* ends when the listings are used up.                                     *)
RoundInv ==
  /\ pc \in InSelection => state.tag = "selecting"
  /\ state.tag \in Searching => failures < ListFailures

UsbTypes ==
  /\ UsbTypeOK
  /\ questions \in Seq(KeyQuestions)
  /\ relay \in PinPrompts \cup {NoQuestion}
  /\ RoundInv

LEMMA CountsOfStates == 0 \in Counts /\ 0..MaxAttempts \subseteq Counts /\ 0..MaxAssertions \subseteq Counts
BY UsbAssumption DEF Counts

LEMMA TagsOfErrors == KeyErrors \subseteq Errors /\ Errors \subseteq Tags
BY UsbAssumption DEF Errors, FinalTags, Tags

LEMMA QuestionsAreStates ==
  /\ KeyQuestions \subseteq States
  /\ KeyQuestions \subseteq Signals
  /\ \A q \in KeyQuestions : q.tag \in Questions
  /\ PinPrompts \subseteq KeyQuestions
  /\ \A q \in PinPrompts : q.tag \in PinQuestions
<1>1. \A q \in KeyQuestions : \E t \in Questions, n \in Counts : q = [tag |-> t, n |-> n]
  BY CountsOfStates DEF KeyQuestions, S, Questions
<1>2. Questions \subseteq Tags
  BY DEF Tags
<1> QED
  BY <1>1, <1>2 DEF States, Signals, PinPrompts

LEMMA ResultsAreSignals ==
  KeyResults \subseteq Signals /\ S("cancelled", 0) \in Signals
BY CountsOfStates DEF KeyResults, Signals, S

(* What a message that does not end the loop makes of the state.           *)
LEMMA MessagesBecomeStates ==
  ASSUME NEW m \in Signals, ~Silenced(m)
  PROVE  /\ NextState(m) \in States
         /\ NextState(m).tag \notin {"idle", "waiting", "selecting", "connected"}
         /\ m.tag \in PinQuestions => NextState(m) = m
<1>1. m.tag \in Questions \cup KeyErrors \cup {"credentials"} /\ m.n \in Counts
  BY DEF Signals, Silenced
<1>2. m = [tag |-> m.tag, n |-> m.n]
  BY DEF Signals
<1>3. Questions \cup KeyErrors \cup {"completed", "select_credential"} \subseteq Tags
  BY TagsOfErrors DEF Tags, FinalTags
<1>4. KeyErrors \cap {"idle", "waiting", "selecting", "connected"} = {}
  BY UsbAssumption
<1> QED
  BY <1>1, <1>2, <1>3, <1>4, CountsOfStates
     DEF NextState, S, States, Questions, PinQuestions

LEMMA NamedStates ==
  /\ {S("idle", 0), S("waiting", 0), S("selecting", 0), S("connected", 0),
      S("internal", 0), S("completed", 0), S("no_credentials", 0)} \subseteq States
  /\ NoQuestion \notin PinPrompts
BY CountsOfStates DEF S, States, Tags, FinalTags, Errors, NoQuestion, PinPrompts, PinQuestions

(* The next round, or the state to be sent first.                          *)
LEMMA Advances ==
  ASSUME NEW next \in States, UsbTypes, Advance(next),
         next.tag \in Searching => failures' < ListFailures
  PROVE  /\ state' = next /\ state' \in States
         /\ pc' \in {"send", "poll", "stopped"}
         /\ RoundInv'
BY DEF Advance, AfterSend, UsbTypes, UsbTypeOK, RoundInv, InSelection

(* A message that may be sent keeps the channel's type.                    *)
LEMMA SignalsType ==
  ASSUME NEW m \in Signals, signals \in Seq(Signals), Signal(m)
  PROVE  signals' \in Seq(Signals)
BY DEF Signal

LEMMA InitTypes == Init => UsbTypes
<1> SUFFICES ASSUME Init PROVE UsbTypes
  OBVIOUS
<1>1. /\ answers = <<>> /\ questions = <<>> /\ signals = <<>> /\ stream = <<>>
  BY DEF Init
<1>2. /\ answers \in Seq(Keys \cup {NoKey}) /\ questions \in Seq(States)
      /\ questions \in Seq(KeyQuestions) /\ signals \in Seq(Signals)
      /\ stream \in Seq(States) /\ Len(stream) = 0
  BY <1>1
<1>3. /\ state \in States /\ seen \in States /\ relay \in States
      /\ relay \in PinPrompts \cup {NoQuestion}
  BY NamedStates DEF Init, NoQuestion
<1>4. UsbTypeOK
  <2>1. failures \in 0..ListFailures /\ asked \in 0..MaxQuestions /\ Len(stream) <= StreamCapacity
    BY <1>2, UsbAssumption DEF Init
  <2> QED
    BY <1>2, <1>3, <2>1 DEF Init, UsbTypeOK, InRound
<1>5. 0 < ListFailures
  BY UsbAssumption
<1> QED
  BY <1>2, <1>3, <1>4, <1>5 DEF Init, UsbTypes, RoundInv, InSelection

LEMMA TypesStep == UsbTypes /\ [Next]_vars => UsbTypes'
<1> SUFFICES ASSUME UsbTypes, [Next]_vars PROVE UsbTypes'
  OBVIOUS
<1> USE DEF loopVars, blinkVars, keyVars, outVars
<1>1. CASE Send
  <2>1. CASE open
    <3>0. stream \in Seq(States) /\ state \in States /\ stream' = Append(stream, state)
      BY <1>1, <2>1 DEF Send, UsbTypes, UsbTypeOK
    <3>1. stream' \in Seq(States) /\ Len(stream') = Len(stream) + 1 /\ Len(stream) \in Nat
      BY <3>0
    <3>2. Len(stream) < StreamCapacity /\ StreamCapacity \in Nat
      BY <1>1, <2>1, UsbAssumption DEF Send
    <3>3. Len(stream') <= StreamCapacity
      BY <3>1, <3>2
    <3> QED
      BY <1>1, <2>1, <3>1, <3>3 DEF Send, UsbTypes, UsbTypeOK, AfterSend, InRound, RoundInv, InSelection
  <2>2. CASE ~open
    BY <1>1, <2>2 DEF Send, UsbTypes, UsbTypeOK, RoundInv, InSelection
  <2> QED
    BY <2>1, <2>2
<1>2. CASE SpawnBlinkers
  BY <1>2 DEF SpawnBlinkers, UsbTypes, UsbTypeOK, InRound, RoundInv, InSelection
<1>3. CASE SetupDone
  BY <1>3 DEF SetupDone, UsbTypes, UsbTypeOK, InRound, RoundInv, InSelection
<1>4. CASE AnswerNone
  BY <1>4 DEF AnswerNone, UsbTypes, UsbTypeOK, RoundInv
<1>5. CASE AnswerKey
  <2>1. <<>> \in Seq(Keys \cup {NoKey})
    OBVIOUS
  <2> QED
    BY <1>5, <2>1 DEF AnswerKey, UsbTypes, UsbTypeOK, InRound, RoundInv, InSelection
<1>6. CASE NoneChosen
  <2>1. failures' < ListFailures
    BY <1>6 DEF NoneChosen, UsbTypes, RoundInv, InSelection, Searching
  <2>2. state' \in States /\ pc' \in {"send", "poll", "stopped"} /\ RoundInv'
    BY <1>6, <2>1, Advances, NamedStates DEF NoneChosen
  <2> QED
    BY <1>6, <2>2 DEF NoneChosen, UsbTypes, UsbTypeOK, InRound
<1>7. CASE QuietDone
  <2>1. S("connected", 0).tag \notin Searching
    BY DEF S, Searching
  <2>2. state' \in States /\ pc' \in {"send", "poll", "stopped"} /\ RoundInv'
    BY <1>7, <2>1, Advances, NamedStates DEF QuietDone
  <2> QED
    BY <1>7, <2>2 DEF QuietDone, UsbTypes, UsbTypeOK, InRound
<1>8. CASE CalledOff \/ CallOff \/ Stop
  BY <1>8 DEF CalledOff, CallOff, AwaitsAnswer, Stop, UsbTypes, UsbTypeOK, InRound, RoundInv, InSelection
<1>9. CASE SpawnOperation \/ ChannelOpens \/ ChannelFails
  BY <1>9 DEF SpawnOperation, ChannelOpens, ChannelFails, UsbTypes, UsbTypeOK, RoundInv
<1>10. CASE Interact
  <2> DEFINE m == Head(signals)
  <2>1. m \in Signals /\ signals' \in Seq(Signals)
    BY <1>10 DEF Interact, UsbTypes, UsbTypeOK, InRound
  <2>2. CASE Silenced(m)
    BY <1>10, <2>1, <2>2 DEF Interact, UsbTypes, UsbTypeOK, RoundInv, InSelection
  <2>3. CASE ~Silenced(m)
    <3>1. NextState(m) \in States /\ NextState(m).tag \notin Searching
      BY <2>1, <2>3, MessagesBecomeStates DEF Searching
    <3>2. state' \in States /\ pc' \in {"send", "poll", "stopped"} /\ RoundInv'
      BY <1>10, <2>3, <3>1, Advances DEF Interact
    <3> QED
      BY <1>10, <2>1, <3>2 DEF Interact, UsbTypes, UsbTypeOK, InRound
  <2> QED
    BY <2>2, <2>3
<1>11. ASSUME NEW k \in Keys, Tell(k) PROVE UsbTypes'
  BY <1>11 DEF Tell, UsbTypes, UsbTypeOK, RoundInv
<1>12. CASE ListNone
  <2>1. failures' < ListFailures
    BY <1>12 DEF ListNone, Listing, UsbTypes, RoundInv, Searching
  <2>2. state' \in States /\ pc' \in {"send", "poll", "stopped"} /\ RoundInv'
    BY <1>12, <2>1, Advances, NamedStates DEF ListNone
  <2> QED
    BY <1>12, <2>2 DEF ListNone, UsbTypes, UsbTypeOK, InRound
<1>13. CASE ListFails
  <2>1. failures < ListFailures /\ failures \in Nat /\ failures' = failures + 1
    BY <1>13, UsbAssumption DEF ListFails, Listing, UsbTypes, UsbTypeOK, RoundInv, Searching
  <2>2. failures' \in 0..ListFailures
    BY <2>1, UsbAssumption
  <2>3. PICK next \in {S("internal", 0), state} :
          Advance(next) /\ (next.tag \in Searching => failures' < ListFailures)
    <3>1. CASE GivesUp(failures')
      BY <1>13, <3>1 DEF ListFails, S, Searching
    <3>2. CASE ~GivesUp(failures')
      BY <1>13, <2>2, <3>2, UsbAssumption DEF ListFails, GivesUp
    <3> QED
      BY <3>1, <3>2
  <2>4. next \in States
    BY NamedStates DEF UsbTypes, UsbTypeOK
  <2>5. state' \in States /\ pc' \in {"send", "poll", "stopped"} /\ RoundInv'
    BY <2>3, <2>4, Advances
  <2> QED
    BY <1>13, <2>2, <2>5 DEF ListFails, UsbTypes, UsbTypeOK, InRound
<1>14. ASSUME NEW K \in SUBSET Keys, ListSome(K) PROVE UsbTypes'
  <2>1. failures' < ListFailures
    BY <1>14 DEF ListSome, Listing, UsbTypes, RoundInv, Searching
  <2>2. state' \in States /\ pc' \in {"send", "poll", "stopped"} /\ RoundInv'
    BY <1>14, <2>1, Advances, NamedStates DEF ListSome
  <2> QED
    BY <1>14, <2>2 DEF ListSome, UsbTypes, UsbTypeOK, InRound
<1>15. CASE Relay
  <2>1. Head(questions) \in KeyQuestions /\ questions' \in Seq(KeyQuestions)
    BY <1>15 DEF Relay, UsbTypes
  <2>2. questions' \in Seq(States)
    BY <1>15 DEF Relay, UsbTypes, UsbTypeOK
  <2>3. signals' \in Seq(Signals)
    BY <1>15, <2>1, SignalsType, QuestionsAreStates DEF Relay, UsbTypes, UsbTypeOK
  <2>4. relay' \in PinPrompts \cup {NoQuestion} /\ relay' \in States
    BY <1>15, <2>1, QuestionsAreStates, NamedStates DEF Relay, PinPrompts, NoQuestion
  <2> QED
    BY <1>15, <2>1, <2>2, <2>3, <2>4 DEF Relay, UsbTypes, UsbTypeOK, RoundInv
<1>16. CASE EnterPin \/ PinChannelCloses
  <2>1. NoQuestion \in States
    BY NamedStates DEF NoQuestion
  <2> QED
    BY <1>16, <2>1 DEF EnterPin, PinChannelCloses, UsbTypes, UsbTypeOK, RoundInv
<1>17. CASE OperationCancelled
  <2>1. signals' \in Seq(Signals)
    BY <1>17, SignalsType, ResultsAreSignals DEF OperationCancelled, UsbTypes, UsbTypeOK
  <2> QED
    BY <1>17, <2>1 DEF OperationCancelled, UsbTypes, UsbTypeOK, RoundInv
<1>18. CASE Take
  <2>1. stream \in Seq(States) /\ stream # <<>> /\ Len(stream) \in Nat
    BY <1>18 DEF Take, UsbTypes, UsbTypeOK
  <2>2. Head(stream) \in States /\ Tail(stream) \in Seq(States) /\ Len(Tail(stream)) = Len(stream) - 1
    BY <2>1
  <2>3. Len(stream') <= StreamCapacity
    BY <1>18, <2>1, <2>2, UsbAssumption DEF Take, UsbTypes, UsbTypeOK
  <2> QED
    BY <1>18, <2>2, <2>3 DEF Take, UsbTypes, UsbTypeOK, RoundInv
<1>19. CASE Hangup \/ Cancel
  BY <1>19 DEF Hangup, Cancel, UsbTypes, UsbTypeOK, RoundInv
<1>26. CASE CancelUnseen
  BY <1>26 DEF CancelUnseen, UsbTypes, UsbTypeOK, InRound, RoundInv, InSelection
<1>20. ASSUME NEW k \in Keys, BlinkOpens(k) PROVE UsbTypes'
  BY <1>20 DEF BlinkOpens, UsbTypes, UsbTypeOK, RoundInv
<1>21. ASSUME NEW k \in Keys, BlinkEnds(k) \/ Touch(k) PROVE UsbTypes'
  <2>0. answers \in Seq(Keys \cup {NoKey})
        /\ \E a \in Keys \cup {NoKey} : answers' \in {Append(answers, a), answers}
    BY <1>21 DEF BlinkEnds, Touch, Report, UsbTypes, UsbTypeOK
  <2>1. answers' \in Seq(Keys \cup {NoKey})
    BY <2>0
  <2> QED
    BY <1>21, <2>1 DEF BlinkEnds, Touch, UsbTypes, UsbTypeOK, RoundInv
<1>22. ASSUME NEW q \in KeyQuestions, KeyAsks(q) PROVE UsbTypes'
  <2>1. questions' \in Seq(KeyQuestions) /\ questions' \in Seq(States)
    BY <1>22, QuestionsAreStates DEF KeyAsks, UsbTypes, UsbTypeOK
  <2>2. asked' \in 0..MaxQuestions
    BY <1>22, UsbAssumption DEF KeyAsks, UsbTypes, UsbTypeOK
  <2> QED
    BY <1>22, <2>1, <2>2 DEF KeyAsks, UsbTypes, UsbTypeOK, RoundInv
<1>23. ASSUME NEW m \in KeyResults, KeyAnswers(m) PROVE UsbTypes'
  <2>1. signals' \in Seq(Signals)
    BY <1>23, SignalsType, ResultsAreSignals DEF KeyAnswers, UsbTypes, UsbTypeOK
  <2> QED
    BY <1>23, <2>1 DEF KeyAnswers, UsbTypes, UsbTypeOK, RoundInv
<1>24. ASSUME NEW known \in BOOLEAN, PickCredential(known) PROVE UsbTypes'
  <2>1. PICK next \in {S("completed", 0), S("no_credentials", 0)} :
          Advance(next) /\ next.tag \notin Searching
    BY <1>24 DEF PickCredential, S, Searching
  <2>2. state' \in States /\ pc' \in {"send", "poll", "stopped"} /\ RoundInv'
    BY <2>1, Advances, NamedStates
  <2> QED
    BY <1>24, <2>2 DEF PickCredential, UsbTypes, UsbTypeOK, InRound
<1>25. CASE UNCHANGED vars
  BY <1>25 DEF vars, UsbTypes, UsbTypeOK, RoundInv
<1> QED
  BY <1>1, <1>2, <1>3, <1>4, <1>5, <1>6, <1>7, <1>8, <1>9, <1>10, <1>11, <1>12, <1>13,
     <1>14, <1>15, <1>16, <1>17, <1>18, <1>19, <1>20, <1>21, <1>22, <1>23, <1>24, <1>25, <1>26
     DEF Next, Loop, List, Environment

LEMMA TypesAlways == Spec => []UsbTypes
BY InitTypes, TypesStep, PTL DEF Spec

(* The type invariant, for any keys and any bounds.                        *)
THEOREM UsbTypeCorrect == Spec => []UsbTypeOK
<1>1. UsbTypes => UsbTypeOK
  BY DEF UsbTypes
<1> QED
  BY <1>1, TypesAlways, PTL

----
(* The blinking keys.                                                      *)

Lit(k) == blink[k] = "lit"

(* While process selects a key, it can call off every lit one, and a key   *)
(* that has answered no longer blinks; before and after, none is lit.      *)
BlinkInv ==
  /\ pc \in {"poll", "send", "quieting"} => answers = <<>>
  /\ pc \in {"poll", "send"} => \A k \in Keys : ~Lit(k)
  /\ pc \in InSelection => \A k \in Keys : Lit(k) => k \in handles
  /\ pc \in {"setup", "choosing"} =>
       \A i \in 1..Len(answers) : answers[i] \in Keys => blink[answers[i]] = "off"
  /\ pc \in {"poll", "send"} /\ state.tag \in Searching => \A k \in Keys : blink[k] = "off"
  /\ ChosenAlone

LEMMA InitBlink == Init => BlinkInv
<1> SUFFICES ASSUME Init PROVE BlinkInv
  OBVIOUS
<1>1. answers = <<>> /\ pc = "poll" /\ state.tag = "idle" /\ \A k \in Keys : blink[k] = "off"
  BY DEF Init, S
<1> QED
  BY <1>1 DEF BlinkInv, ChosenAlone, InSelection, Lit, Questions, PinQuestions

(* A round that ends from a place where no key is lit.                     *)
LEMMA RoundEndsUnlit ==
  ASSUME UsbTypes, BlinkInv, NEW next \in States, Advance(next), UNCHANGED <<blink, answers>>,
         answers = <<>>, \A k \in Keys : ~Lit(k),
         next.tag \in Searching => \A k \in Keys : blink[k] = "off"
  PROVE  BlinkInv'
<1>1. state' = next /\ pc' \in {"send", "poll", "stopped"}
  BY DEF Advance, AfterSend
<1> QED
  BY <1>1 DEF BlinkInv, ChosenAlone, InSelection, Lit

(* A step that is not one of the blinking keys or of the selection.        *)
LEMMA KeysUntouched ==
  ASSUME UsbTypes, BlinkInv, UNCHANGED <<blinkVars, state>>, pc' \in {pc, "stopped"}
  PROVE  BlinkInv'
BY DEF UsbTypes, RoundInv, BlinkInv, ChosenAlone, InSelection, Lit, blinkVars, Questions,
   PinQuestions

LEMMA BlinkStep == UsbTypes /\ BlinkInv /\ [Next]_vars => BlinkInv'
<1> SUFFICES ASSUME UsbTypes, BlinkInv, [Next]_vars PROVE BlinkInv'
  OBVIOUS
<1> USE DEF loopVars, keyVars, outVars
<1>1. CASE Send
  BY <1>1 DEF Send, AfterSend, BlinkInv, ChosenAlone, InSelection, Lit, blinkVars
<1>2. CASE SpawnBlinkers
  BY <1>2 DEF SpawnBlinkers, BlinkInv, ChosenAlone, InSelection, Lit, Searching, Questions,
     PinQuestions
<1>3. CASE SetupDone
  BY <1>3 DEF SetupDone, BlinkInv, ChosenAlone, InSelection, Lit, blinkVars
<1>4. CASE AnswerNone
  <2>1. /\ answers \in Seq(Keys \cup {NoKey}) /\ answers # <<>> /\ answers' = Tail(answers)
        /\ pc = "choosing"
    BY <1>4 DEF AnswerNone, UsbTypes, UsbTypeOK
  <2>2. \A i \in 1..Len(answers') : answers'[i] = answers[i + 1] /\ i + 1 \in 1..Len(answers)
    BY <2>1
  <2> QED
    BY <1>4, <2>1, <2>2 DEF AnswerNone, BlinkInv, ChosenAlone, InSelection, Lit
<1>5. CASE AnswerKey
  <2>1. /\ answers \in Seq(Keys \cup {NoKey}) /\ answers # <<>> /\ Head(answers) # NoKey
    BY <1>5 DEF AnswerKey, UsbTypes, UsbTypeOK
  <2>2. Head(answers) = answers[1] /\ Head(answers) \in Keys /\ 1 \in 1..Len(answers)
    BY <2>1
  <2>3. blink[Head(answers)] = "off"
    BY <1>5, <2>2 DEF AnswerKey, BlinkInv
  <2>4. state.tag = "selecting"
    BY <1>5 DEF AnswerKey, UsbTypes, RoundInv, InSelection
  <2> QED
    BY <1>5, <2>3, <2>4 DEF AnswerKey, BlinkInv, ChosenAlone, InSelection, Lit, Questions, PinQuestions
<1>6. CASE NoneChosen
  BY <1>6, RoundEndsUnlit, NamedStates DEF NoneChosen, Lit
<1>7. CASE QuietDone
  <2>1. S("connected", 0).tag \notin Searching
    BY DEF S, Searching
  <2>2. answers = <<>> /\ \A k \in Keys : ~Lit(k)
    BY <1>7 DEF QuietDone, BlinkInv, InSelection
  <2> QED
    BY <1>7, <2>1, <2>2, RoundEndsUnlit, NamedStates DEF QuietDone, blinkVars
<1>8. CASE CalledOff \/ CancelUnseen \/ Stop
  BY <1>8, KeysUntouched DEF CalledOff, CancelUnseen, Stop
<1>9. CASE CallOff
  BY <1>9 DEF CallOff, AwaitsAnswer, BlinkInv, ChosenAlone, InSelection, Lit, blinkVars
<1>10. CASE Interact
  <2> DEFINE m == Head(signals)
  <2>1. pc = "poll" /\ m \in Signals
    BY <1>10 DEF Interact, Interacting, UsbTypes, UsbTypeOK
  <2>2. CASE Silenced(m)
    BY <1>10, <2>2, KeysUntouched DEF Interact
  <2>3. CASE ~Silenced(m)
    <3>1. NextState(m) \in States /\ NextState(m).tag \notin Searching
      BY <2>1, <2>3, MessagesBecomeStates DEF Searching
    <3>2. answers = <<>> /\ \A k \in Keys : ~Lit(k)
      BY <2>1 DEF BlinkInv
    <3> QED
      BY <1>10, <2>3, <3>1, <3>2, RoundEndsUnlit DEF Interact, blinkVars
  <2> QED
    BY <2>2, <2>3
<1>11. ASSUME NEW k \in Keys, Tell(k) PROVE BlinkInv'
  <2>1. /\ state.tag = "selecting" /\ pc \in {"quieting", "calling_off"}
        /\ UNCHANGED <<pc, state, answers>> /\ handles' = handles \ {k}
        /\ \A j \in Keys : Lit(j)' => Lit(j) /\ j # k
    BY <1>11 DEF Tell, UsbTypes, UsbTypeOK, RoundInv, InSelection, Lit
  <2> QED
    BY <2>1 DEF BlinkInv, ChosenAlone, InSelection, Questions, PinQuestions
<1>12. CASE List
  <2>1. pc = "poll" /\ answers = <<>> /\ \A k \in Keys : ~Lit(k) /\ blink[k] = "off"
    BY <1>12 DEF List, ListNone, ListFails, ListSome, Listing, BlinkInv, Searching
  <2>2. PICK next \in States : Advance(next)
    BY <1>12, NamedStates DEF List, ListNone, ListFails, ListSome, UsbTypes, UsbTypeOK
  <2>3. UNCHANGED <<blink, answers>>
    BY <1>12 DEF List, ListNone, ListFails, ListSome, blinkVars
  <2> QED
    BY <2>1, <2>2, <2>3, RoundEndsUnlit
<1>13. ASSUME NEW known \in BOOLEAN, PickCredential(known) PROVE BlinkInv'
  <2>1. PICK next \in {S("completed", 0), S("no_credentials", 0)} :
          Advance(next) /\ next.tag \notin Searching
    BY <1>13 DEF PickCredential, S, Searching
  <2>2. answers = <<>> /\ \A k \in Keys : ~Lit(k)
    BY <1>13 DEF PickCredential, BlinkInv
  <2> QED
    BY <1>13, <2>1, <2>2, RoundEndsUnlit, NamedStates DEF PickCredential, blinkVars
<1>14. ASSUME NEW k \in Keys, BlinkOpens(k) PROVE BlinkInv'
  <2>1. UNCHANGED <<pc, state, answers>> /\ blink[k] = "opening" /\ blink \in [Keys -> {"off", "opening", "lit", "told"}]
    BY <1>14 DEF BlinkOpens, UsbTypes, UsbTypeOK
  <2>2. CASE pc = "setup"
    <3>1. /\ handles' = handles \cup {k} /\ blink'[k] = "lit"
          /\ \A j \in Keys : j # k => blink'[j] = blink[j]
      BY <1>14, <2>1, <2>2 DEF BlinkOpens
    <3>2. state.tag = "selecting"
      BY <2>2 DEF UsbTypes, RoundInv, InSelection
    <3>3. \A i \in 1..Len(answers) : answers[i] \in Keys => answers[i] # k
      BY <2>1, <2>2 DEF BlinkInv
    <3> QED
      BY <2>1, <2>2, <3>1, <3>2, <3>3
         DEF BlinkInv, ChosenAlone, InSelection, Lit, Questions, PinQuestions
  <2>3. CASE pc # "setup"
    <3>1. /\ UNCHANGED handles /\ blink'[k] = "off"
          /\ \A j \in Keys : j # k => blink'[j] = blink[j]
      BY <1>14, <2>1, <2>3 DEF BlinkOpens
    <3> QED
      BY <2>1, <3>1 DEF BlinkInv, ChosenAlone, InSelection, Lit
  <2> QED
    BY <2>2, <2>3
<1>15. ASSUME NEW k \in Keys, BlinkEnds(k) \/ Touch(k) PROVE BlinkInv'
  <2>1. /\ UNCHANGED <<pc, state, handles>> /\ blink'[k] = "off"
        /\ \A j \in Keys : j # k => blink'[j] = blink[j]
    BY <1>15 DEF BlinkEnds, Touch, UsbTypes, UsbTypeOK
  <2>2. PICK a \in {k, NoKey} : Report(a)
    BY <1>15 DEF BlinkEnds, Touch
  <2>3. CASE pc \in {"setup", "choosing"}
    <3>1. answers \in Seq(Keys \cup {NoKey}) /\ answers' = Append(answers, a)
      BY <2>2, <2>3 DEF Report, UsbTypes, UsbTypeOK
    <3>2. \A i \in 1..Len(answers') :
            \/ i \in 1..Len(answers) /\ answers'[i] = answers[i]
            \/ answers'[i] = a
      BY <3>1
    <3>3. \A i \in 1..Len(answers') : answers'[i] \in Keys => blink'[answers'[i]] = "off"
      BY <2>1, <2>3, <3>2, UsbAssumption DEF BlinkInv
    <3> QED
      BY <2>1, <2>3, <3>3 DEF BlinkInv, ChosenAlone, InSelection, Lit
  <2>4. CASE pc \notin {"setup", "choosing"}
    <3>1. UNCHANGED answers
      BY <2>2, <2>4 DEF Report
    <3> QED
      BY <2>1, <2>4, <3>1 DEF BlinkInv, ChosenAlone, InSelection, Lit
  <2> QED
    BY <2>3, <2>4
<1>16. CASE \/ SpawnOperation \/ ChannelOpens \/ ChannelFails \/ EnterPin \/ PinChannelCloses
            \/ Relay \/ OperationCancelled \/ Take \/ Hangup \/ Cancel
  BY <1>16, KeysUntouched DEF SpawnOperation, ChannelOpens, ChannelFails, EnterPin,
     PinChannelCloses, Relay, OperationCancelled, Take, Hangup, Cancel
<1>17. ASSUME NEW m, KeyAsks(m) \/ KeyAnswers(m) PROVE BlinkInv'
  BY <1>17, KeysUntouched DEF KeyAsks, KeyAnswers
<1>18. CASE UNCHANGED vars
  BY <1>18, KeysUntouched DEF vars
<1> QED
  BY <1>1, <1>2, <1>3, <1>4, <1>5, <1>6, <1>7, <1>8, <1>9, <1>10, <1>11, <1>12, <1>13,
     <1>14, <1>15, <1>16, <1>17, <1>18 DEF Next, Loop, Environment

LEMMA BlinkAlways == Spec => []BlinkInv
BY InitBlink, BlinkStep, TypesAlways, PTL DEF Spec

(* When the loop works with the touched key, every other key has been told *)
(* to stop or never blinked (usb.rs: process_selecting_device).            *)
THEOREM ChosenIsAlone == Spec => []ChosenAlone
<1>1. BlinkInv => ChosenAlone
  BY DEF BlinkInv
<1> QED
  BY <1>1, BlinkAlways, PTL

(* A step that ends a cancelled selection waiting for a touch is the end   *)
(* of its calling off.                                                     *)
LEMMA EndsCalledOff ==
  ASSUME UsbTypes, [Next]_vars, cancelled, pc \in {"choosing", "calling_off"}, pc' = "stopped"
  PROVE  CalledOff
<1> USE DEF loopVars, blinkVars, keyVars, outVars
<1>1. state.tag = "selecting"
  BY DEF UsbTypes, RoundInv, InSelection
<1>2. ~Stop /\ ~CancelUnseen /\ ~CallOff
  BY <1>1 DEF Stop, Waits, Listing, Interacting, CancelUnseen, CallOff, Questions, PinQuestions
<1>3. ~NoneChosen
  BY UsbAssumption DEF NoneChosen, Advance, AfterSend, FinalTags, Errors, S
<1>4. ~Send /\ ~SpawnBlinkers /\ ~SetupDone /\ ~AnswerNone /\ ~AnswerKey /\ ~QuietDone
  BY DEF Send, SpawnBlinkers, SetupDone, AnswerNone, AnswerKey, QuietDone
<1>5. ~SpawnOperation /\ ~Interact /\ ~List /\ \A known : ~PickCredential(known)
  BY DEF SpawnOperation, Interact, Interacting, List, ListNone, ListFails, ListSome, Listing,
     PickCredential
<1>6. \A k \in Keys : ~Tell(k) /\ ~BlinkOpens(k) /\ ~BlinkEnds(k) /\ ~Touch(k)
  BY DEF Tell, BlinkOpens, BlinkEnds, Touch
<1>7. ~Relay /\ ~PinChannelCloses /\ ~OperationCancelled /\ \A m : ~KeyAsks(m) /\ ~KeyAnswers(m)
  BY DEF Relay, PinChannelCloses, OperationCancelled, KeyAsks, KeyAnswers
<1>8. ~ChannelOpens /\ ~ChannelFails /\ ~EnterPin /\ ~Take /\ ~Hangup /\ ~Cancel
  BY DEF ChannelOpens, ChannelFails, EnterPin, Take, Hangup, Cancel
<1>9. ~UNCHANGED vars
  BY DEF vars
<1> QED
  BY <1>2, <1>3, <1>4, <1>5, <1>6, <1>7, <1>8, <1>9 DEF Next, Loop, Environment

(* A selection that waits for a touch when the request is cancelled, and   *)
(* sees it, ends with no key left lit (usb.rs: process_selecting_device,   *)
(* "Stop all blinking devices").                                           *)
THEOREM ParkedSelectionsGoDark == Spec => ParkedSelectionGoesDark
<1>1. ASSUME UsbTypes, BlinkInv, [Next]_vars, cancelled,
             pc \in {"choosing", "calling_off"}, pc' = "stopped"
      PROVE  \A k \in Keys : blink[k] # "lit"
  <2>1. CalledOff
    BY <1>1, EndsCalledOff
  <2> QED
    BY <1>1, <2>1 DEF CalledOff, BlinkInv, InSelection, Lit
<1>2. UsbTypes /\ BlinkInv /\ [Next]_vars =>
        [cancelled /\ pc \in {"choosing", "calling_off"} /\ pc' = "stopped" =>
           \A k \in Keys : blink[k] # "lit"]_vars
  BY <1>1
<1> QED
  BY <1>2, TypesAlways, BlinkAlways, PTL DEF Spec, ParkedSelectionGoesDark

----
(* The prompt.                                                             *)

(* The key that waits for a PIN has asked last, and asks no more.          *)
AskInv ==
  /\ operation \in {"none", "opening", "failed"} => questions = <<>> /\ relay = NoQuestion
  /\ operation = "running" =>
       /\ relay # NoQuestion => keyWaits
       /\ \A i \in 1..Len(questions) : questions[i].tag \in PinQuestions =>
            i = Len(questions) /\ keyWaits /\ relay = NoQuestion

LEMMA InitAsk == Init => AskInv
BY DEF Init, AskInv

(* A step that is neither the key's nor the relay's.                       *)
LEMMA KeySilent == ASSUME AskInv, UNCHANGED keyVars PROVE AskInv'
BY DEF AskInv, keyVars

LEMMA AskStep == UsbTypes /\ AskInv /\ [Next]_vars => AskInv'
<1> SUFFICES ASSUME UsbTypes, AskInv, [Next]_vars PROVE AskInv'
  OBVIOUS
<1>1. CASE SpawnOperation \/ ChannelOpens \/ ChannelFails
  <2>1. UNCHANGED <<keyWaits, questions, relay>> /\ operation \in {"none", "opening"}
    BY <1>1 DEF SpawnOperation, ChannelOpens, ChannelFails
  <2>2. questions = <<>> /\ relay = NoQuestion
    BY <2>1 DEF AskInv
  <2>3. \A i \in 1..Len(questions) : FALSE
    BY <2>2
  <2> QED
    BY <2>1, <2>2, <2>3 DEF AskInv
<1>2. ASSUME NEW q \in KeyQuestions, KeyAsks(q) PROVE AskInv'
  <2>1. /\ questions \in Seq(KeyQuestions) /\ questions' = Append(questions, q)
        /\ operation = "running" /\ ~keyWaits /\ UNCHANGED <<operation, relay>>
        /\ keyWaits' = (q.tag \in PinQuestions)
    BY <1>2 DEF KeyAsks, UsbTypes
  <2>2. relay = NoQuestion /\ \A i \in 1..Len(questions) : questions[i].tag \notin PinQuestions
    BY <2>1 DEF AskInv
  <2>3. /\ Len(questions') = Len(questions) + 1
        /\ \A i \in 1..Len(questions') :
             \/ i \in 1..Len(questions) /\ questions'[i] = questions[i]
             \/ i = Len(questions') /\ questions'[i] = q
    BY <2>1
  <2>4. \A i \in 1..Len(questions') : questions'[i].tag \in PinQuestions =>
          i = Len(questions') /\ keyWaits'
    BY <2>1, <2>2, <2>3
  <2> QED
    BY <2>1, <2>2, <2>4 DEF AskInv
<1>3. CASE Relay
  <2>1. /\ questions \in Seq(KeyQuestions) /\ questions # <<>> /\ questions' = Tail(questions)
        /\ Head(questions) = questions[1] /\ Len(questions) \in Nat \ {0}
    BY <1>3 DEF Relay, UsbTypes
  <2>2. /\ Len(questions') = Len(questions) - 1
        /\ \A i \in 1..Len(questions') :
             i + 1 \in 1..Len(questions) /\ questions'[i] = questions[i + 1] /\ i + 1 # 1
    BY <2>1
  <2>3. /\ relay = NoQuestion /\ UNCHANGED <<operation, keyWaits>>
        /\ operation \notin {"none", "opening", "failed"}
        /\ relay' = NoQuestion \/ (questions[1].tag \in PinQuestions /\ relay' = questions[1])
    BY <1>3, <2>1 DEF Relay, AskInv
  <2>4. CASE operation # "running"
    BY <2>3, <2>4 DEF AskInv
  <2>5. CASE operation = "running"
    <3>1. 1 \in 1..Len(questions)
      BY <2>1
    <3>2. relay' # NoQuestion => keyWaits /\ Len(questions) = 1
      BY <2>3, <2>5, <3>1 DEF AskInv
    <3>3. \A i \in 1..Len(questions') : questions'[i].tag \in PinQuestions =>
            i = Len(questions') /\ keyWaits /\ relay' = NoQuestion
      <4> SUFFICES ASSUME NEW i \in 1..Len(questions'), questions'[i].tag \in PinQuestions
                   PROVE  i = Len(questions') /\ keyWaits /\ relay' = NoQuestion
        OBVIOUS
      <4>1. i + 1 = Len(questions) /\ keyWaits
        BY <2>2, <2>5 DEF AskInv
      <4>2. Len(questions) # 1
        BY <2>1, <2>2, <4>1
      <4>3. i = Len(questions')
        <5>1. Len(questions) \in Nat /\ Len(questions') = Len(questions) - 1 /\ i \in Int
          BY <2>1, <2>2
        <5> QED
          BY <5>1, <4>1
      <4>4. relay' = NoQuestion
        BY <3>2, <4>2
      <4> QED
        BY <4>1, <4>3, <4>4
    <3> QED
      BY <2>3, <2>5, <3>2, <3>3 DEF AskInv
  <2> QED
    BY <2>4, <2>5
<1>4. CASE EnterPin \/ PinChannelCloses
  <2>1. /\ relay # NoQuestion /\ relay' = NoQuestion /\ UNCHANGED <<operation, questions>>
    BY <1>4 DEF EnterPin, PinChannelCloses
  <2> QED
    BY <2>1 DEF AskInv
<1>5. ASSUME NEW m, KeyAnswers(m) PROVE AskInv'
  BY <1>5 DEF KeyAnswers, AskInv
<1>6. CASE OperationCancelled
  BY <1>6 DEF OperationCancelled, AskInv
<1>7. CASE UNCHANGED keyVars
  BY <1>7, KeySilent
<1> QED
  BY <1>1, <1>2, <1>3, <1>4, <1>5, <1>6, <1>7
     DEF Next, Loop, List, Environment, vars, Send, SpawnBlinkers, SetupDone, AnswerNone,
         AnswerKey, NoneChosen, QuietDone, CalledOff, Interact, Tell, ListNone, ListFails,
         ListSome, Stop, CallOff, CancelUnseen, Take, Hangup, Cancel, BlinkOpens, BlinkEnds, Touch,
         PickCredential

LEMMA AskAlways == Spec => []AskInv
BY InitAsk, AskStep, TypesAlways, PTL DEF Spec

(* Behind the prompt the loop finds nothing but the cancellation.          *)
OnlyCancelledAfter(i) == \A j \in 1..Len(signals) : j > i => signals[j].tag = "cancelled"

(* The prompt the relay waits for is on its way: to process, from process  *)
(* to the stream, through the stream; or it has been read.                 *)
PromptAwaited ==
  \E i \in 1..Len(signals) : signals[i] = relay /\ OnlyCancelledAfter(i)

PromptShown ==
  /\ OnlyCancelledAfter(0)
  /\ state = relay
  /\ \/ pc = "send"
     \/ pc = "poll" /\ stream # <<>> /\ stream[Len(stream)] = relay
     \/ pc = "poll" /\ stream = <<>> /\ (open => seen = relay)

PromptInv == relay # NoQuestion /\ pc # "stopped" => PromptAwaited \/ PromptShown

LEMMA InitPrompt == Init => PromptInv
BY DEF Init, PromptInv

(* A step that touches nothing the prompt passes through, but that may end *)
(* the loop.                                                               *)
LEMMA PromptUntouched ==
  ASSUME PromptInv, UNCHANGED <<relay, signals, state, stream>>, pc' \in {pc, "stopped"},
         UNCHANGED <<open, seen>> \/ (UNCHANGED seen /\ open' = FALSE)
  PROVE  PromptInv'
BY DEF PromptInv, PromptAwaited, PromptShown, OnlyCancelledAfter

(* A round in the middle of a selection, or of a search, shows no prompt.  *)
LEMMA NoPromptYet ==
  ASSUME UsbTypes, PromptInv, relay # NoQuestion, pc # "stopped",
         state.tag \notin PinQuestions
  PROVE  PromptAwaited
BY QuestionsAreStates DEF UsbTypes, PromptInv, PromptShown

(* Such a round goes on, or ends with a next state.                        *)
LEMMA StillAwaited ==
  ASSUME UsbTypes, PromptInv, UNCHANGED <<relay, signals>>, pc # "stopped",
         state.tag \notin PinQuestions
  PROVE  PromptInv'
BY NoPromptYet DEF PromptInv, PromptAwaited, OnlyCancelledAfter

(* The last state of a stream stays the last when the first is taken.      *)
LEMMA LastOfTail ==
  ASSUME NEW s \in Seq(States), s # <<>>, Len(s) # 1
  PROVE  Tail(s) # <<>> /\ Tail(s)[Len(Tail(s))] = s[Len(s)]
<1>1. Len(s) \in Nat \ {0} /\ Len(s) # 1
  BY EmptySeq
<1>2. Len(s) - 1 \in Nat \ {0} /\ (Len(s) - 1) + 1 = Len(s)
  BY <1>1
<1>3. /\ Len(Tail(s)) = Len(s) - 1
      /\ \A i \in 1..Len(Tail(s)) : Tail(s)[i] = s[i + 1]
  BY HeadTailProperties
<1>4. Len(Tail(s)) \in 1..Len(Tail(s))
  BY <1>2, <1>3
<1>5. Tail(s)[Len(Tail(s))] = s[Len(s)]
  BY <1>2, <1>3, <1>4
<1>6. Len(<<>>) = 0
  BY EmptySeq
<1> QED
  BY <1>2, <1>3, <1>5, <1>6

LEMMA PromptStep == UsbTypes /\ AskInv /\ PromptInv /\ [Next]_vars => PromptInv'
<1> SUFFICES ASSUME UsbTypes, AskInv, PromptInv, [Next]_vars PROVE PromptInv'
  OBVIOUS
<1> USE DEF loopVars, blinkVars, keyVars, outVars
<1>1. CASE Send
  <2> SUFFICES ASSUME relay # NoQuestion, pc' # "stopped" PROVE (PromptAwaited \/ PromptShown)'
    BY <1>1 DEF PromptInv, Send
  <2>1. /\ UNCHANGED <<relay, signals, state, open, seen>> /\ open /\ pc = "send" /\ pc' = "poll"
        /\ stream' = Append(stream, state) /\ stream \in Seq(States) /\ state \in States
    BY <1>1 DEF Send, AfterSend, UsbTypes, UsbTypeOK
  <2>2. stream' # <<>> /\ stream'[Len(stream')] = state
    BY <2>1
  <2> QED
    BY <2>1, <2>2 DEF PromptInv, PromptAwaited, PromptShown, OnlyCancelledAfter
<1>2. CASE \/ SpawnBlinkers \/ SetupDone \/ AnswerNone \/ AnswerKey \/ NoneChosen
           \/ QuietDone \/ CallOff \/ List \/ \E k \in Keys : Tell(k)
  <2>1. UNCHANGED <<relay, signals>> /\ pc # "stopped" /\ state.tag \in Searching
    BY <1>2 DEF SpawnBlinkers, SetupDone, AnswerNone, AnswerKey, NoneChosen, QuietDone,
       CallOff, AwaitsAnswer, List, ListNone, ListFails, ListSome, Listing, Tell, UsbTypes, RoundInv,
       InSelection, Searching
  <2> QED
    BY <2>1, StillAwaited DEF Searching, PinQuestions
<1>3. CASE CalledOff \/ CancelUnseen \/ Stop
  BY <1>3, PromptUntouched DEF CalledOff, CancelUnseen, Stop
<1>4. ASSUME NEW known, PickCredential(known) PROVE PromptInv'
  <2>1. UNCHANGED <<relay, signals>> /\ pc # "stopped" /\ state.tag = "select_credential"
    BY <1>4 DEF PickCredential
  <2> QED
    BY <2>1, StillAwaited DEF PinQuestions
<1>5. CASE Interact
  <2> DEFINE m == Head(signals)
  <2> SUFFICES ASSUME relay # NoQuestion, pc' # "stopped" PROVE (PromptAwaited \/ PromptShown)'
    BY <1>5 DEF PromptInv, Interact
  <2>1. /\ signals \in Seq(Signals) /\ signals # <<>> /\ signals' = Tail(signals) /\ pc = "poll"
        /\ m = signals[1] /\ m \in Signals /\ UNCHANGED relay
        /\ relay \in PinPrompts
    BY <1>5 DEF Interact, Interacting, UsbTypes, UsbTypeOK
  <2>2. /\ Len(signals') = Len(signals) - 1 /\ Len(signals) \in Nat \ {0}
        /\ \A i \in 1..Len(signals') : i + 1 \in 1..Len(signals) /\ signals'[i] = signals[i + 1]
    BY <2>1
  <2>3. ~Silenced(m) /\ Advance(NextState(m))
    BY <1>5 DEF Interact
  <2>4. PICK i \in 1..Len(signals) : signals[i] = relay /\ OnlyCancelledAfter(i)
    <3>1. 1 \in 1..Len(signals) /\ 1 > 0
      BY <2>2
    <3>2. ~OnlyCancelledAfter(0)
      BY <2>1, <2>3, <3>1 DEF Silenced, OnlyCancelledAfter
    <3> QED
      BY <2>1, <3>2 DEF PromptInv, PromptAwaited, PromptShown
  <2>5. CASE i = 1
    <3>1. m = relay /\ m.tag \in PinQuestions
      BY <2>1, <2>4, <2>5, QuestionsAreStates
    <3>2. NextState(m) = relay
      BY <2>1, <2>3, <3>1, MessagesBecomeStates
    <3>3. state' = relay /\ pc' = "send"
      BY <2>3, <3>1, <3>2 DEF Advance, Changed
    <3>4. OnlyCancelledAfter(0)'
      BY <2>2, <2>4, <2>5 DEF OnlyCancelledAfter
    <3> QED
      BY <2>1, <3>3, <3>4 DEF PromptShown
  <2>6. CASE i # 1
    <3>1. i - 1 \in 1..Len(signals') /\ (i - 1) + 1 = i
      BY <2>2, <2>6
    <3>2. signals'[i - 1] = relay
      BY <2>2, <2>4, <3>1
    <3>3. OnlyCancelledAfter(i - 1)'
      <4> SUFFICES ASSUME NEW j \in 1..Len(signals'), j > i - 1
                   PROVE  signals'[j].tag = "cancelled"
        BY DEF OnlyCancelledAfter
      <4>1. j + 1 \in 1..Len(signals) /\ j + 1 > i /\ signals'[j] = signals[j + 1]
        BY <2>2
      <4> QED
        BY <2>4, <4>1 DEF OnlyCancelledAfter
    <3> QED
      BY <2>1, <3>1, <3>2, <3>3 DEF PromptAwaited
  <2> QED
    BY <2>5, <2>6
<1>6. CASE Relay
  <2> SUFFICES ASSUME relay' # NoQuestion, pc' # "stopped" PROVE (PromptAwaited)'
    BY DEF PromptInv
  <2>1. /\ questions \in Seq(KeyQuestions) /\ questions # <<>>
        /\ relay' = Head(questions) /\ pc # "stopped" /\ signals \in Seq(Signals)
        /\ signals' = Append(signals, Head(questions))
    BY <1>6 DEF Relay, Signal, UsbTypes, UsbTypeOK
  <2>2. /\ Len(signals') = Len(signals) + 1 /\ Len(signals) \in Nat
        /\ signals'[Len(signals) + 1] = relay'
    BY <2>1
  <2>3. Len(signals) + 1 \in 1..Len(signals')
    BY <2>2
  <2>4. OnlyCancelledAfter(Len(signals) + 1)'
    BY <2>2 DEF OnlyCancelledAfter
  <2> QED
    BY <2>2, <2>3, <2>4 DEF PromptAwaited, OnlyCancelledAfter
<1>7. CASE EnterPin \/ PinChannelCloses
  BY <1>7 DEF EnterPin, PinChannelCloses, PromptInv
<1>8. ASSUME NEW m, KeyAnswers(m) PROVE PromptInv'
  BY <1>8 DEF KeyAnswers, AskInv, PromptInv
<1>9. CASE OperationCancelled
  <2> SUFFICES ASSUME relay # NoQuestion, pc # "stopped" PROVE (PromptAwaited \/ PromptShown)'
    BY <1>9 DEF PromptInv, OperationCancelled
  <2>1. /\ UNCHANGED <<relay, state, pc, stream, open, seen>> /\ signals \in Seq(Signals)
        /\ signals' = Append(signals, S("cancelled", 0))
    BY <1>9 DEF OperationCancelled, Signal, UsbTypes, UsbTypeOK
  <2>2. /\ Len(signals') = Len(signals) + 1 /\ Len(signals) \in Nat
        /\ \A i \in 1..Len(signals) : signals'[i] = signals[i] /\ i \in 1..Len(signals')
        /\ \A i \in 1..Len(signals') : i \in 1..Len(signals) \/ signals'[i] = S("cancelled", 0)
    BY <2>1
  <2>3. \A i : OnlyCancelledAfter(i) => OnlyCancelledAfter(i)'
    BY <2>2 DEF OnlyCancelledAfter, S
  <2> QED
    BY <2>1, <2>2, <2>3 DEF PromptInv, PromptAwaited, PromptShown, OnlyCancelledAfter
<1>10. CASE Take
  <2> SUFFICES ASSUME relay # NoQuestion, pc # "stopped" PROVE (PromptAwaited \/ PromptShown)'
    BY <1>10 DEF PromptInv, Take
  <2>1. /\ UNCHANGED <<relay, signals, state, pc, open>>
        /\ stream \in Seq(States) /\ stream # <<>>
        /\ seen' = Head(stream) /\ stream' = Tail(stream)
    BY <1>10 DEF Take, UsbTypes, UsbTypeOK
  <2>2. CASE Len(stream) = 1
    <3>1. stream' = <<>> /\ seen' = stream[Len(stream)]
      BY <2>1, <2>2
    <3> QED
      BY <2>1, <3>1 DEF PromptInv, PromptAwaited, PromptShown, OnlyCancelledAfter
  <2>3. CASE Len(stream) # 1
    <3>1. stream' # <<>> /\ stream'[Len(stream')] = stream[Len(stream)]
      BY <2>1, <2>3, LastOfTail
    <3> QED
      BY <2>1, <3>1 DEF PromptInv, PromptAwaited, PromptShown, OnlyCancelledAfter
  <2> QED
    BY <2>2, <2>3
<1>11. CASE Hangup \/ Cancel
  BY <1>11, PromptUntouched DEF Hangup, Cancel
<1>12. CASE \E k \in Keys : BlinkOpens(k) \/ BlinkEnds(k) \/ Touch(k)
  BY <1>12, PromptUntouched DEF BlinkOpens, BlinkEnds, Touch
<1>13. CASE SpawnOperation \/ ChannelOpens \/ ChannelFails \/ \E q \in KeyQuestions : KeyAsks(q)
  BY <1>13, PromptUntouched DEF SpawnOperation, ChannelOpens, ChannelFails, KeyAsks
<1>14. CASE UNCHANGED vars
  BY <1>14, PromptUntouched DEF vars
<1> QED
  BY <1>1, <1>2, <1>3, <1>4, <1>5, <1>6, <1>7, <1>8, <1>9, <1>10, <1>11, <1>12, <1>13, <1>14
     DEF Next, Loop, Environment

LEMMA PromptAlways == Spec => []PromptInv
BY InitPrompt, PromptStep, TypesAlways, AskAlways, PTL DEF Spec

(* The prompt that a key waits for is the one on the screen once nothing   *)
(* is under way (usb.rs: process sends every PIN question, even a second   *)
(* one in a row).                                                          *)
THEOREM PromptsAreShown == Spec => []PromptOnScreen
<1>1. PromptInv => PromptOnScreen
  <2> SUFFICES ASSUME PromptInv, relay # NoQuestion, pc = "poll", signals = <<>>,
                      stream = <<>>, open
               PROVE  seen = relay
    BY DEF PromptOnScreen
  <2>1. Len(signals) = 0
    OBVIOUS
  <2>2. ~PromptAwaited
    BY <2>1 DEF PromptAwaited
  <2> QED
    BY <2>2 DEF PromptInv, PromptShown
<1> QED
  BY <1>1, PromptAlways, PTL
====
