-------------------------- MODULE TextInputProofs --------------------------
(***************************************************************************)
(* Proofs about TextInput, for any time-outs, any queue length and any     *)
(* texts.                                                                  *)
(***************************************************************************)
EXTENDS TextInput, SequenceTheorems, TLAPS

-----------------------------------------------------------------------------
(* The inductive invariant *)

\* The parts of TypeOK.
ControlOK ==
  /\ pc \in {"game", "poll", "check", "repoll"} \cup Keyboard
  /\ textActive \in BOOLEAN /\ inSwkbd \in BOOLEAN /\ pressed \in BOOLEAN
  /\ field \in Fields \cup {NoField}
  /\ ev \in Events \cup {NoEvent}
  /\ got \in Events \cup {NoEvent, "text_backspace", "text_return"}
TimeOK == age \in 0..Expire /\ elapsed \in 0..Drain
QueueOK == queue \in Seq(Events) /\ Len(queue) <= MaxQueue
BufferOK == \A f \in Fields : buffer[f] \in 0..Capacity[f]

\* A field that has not expired is a field, and so is the keyboard's.
FieldInv ==
  /\ age < Expire => field \in Fields
  /\ pc \in Keyboard => field \in Fields /\ textActive
  /\ inSwkbd <=> pc \in Keyboard

\* SDL has not seen the closing press before the drain, and has after its
\* first turn.
PressInv ==
  /\ pressed => pc \in {"apply", "drain"} /\ elapsed = 0
  /\ elapsed > 0 => pc = "drain"

\* The closing press is in no event.
QuietQueue == \A k \in 1..Len(queue) : queue[k] # "confirm"
ConfirmInv == QuietQueue /\ ev # "confirm" /\ got # "confirm"

IInv ==
  /\ ControlOK /\ TimeOK /\ QueueOK /\ BufferOK
  /\ FieldInv /\ PressInv /\ ConfirmInv

\* The parts are all of TypeOK.
LEMMA TypeParts == TypeOK <=> ControlOK /\ TimeOK /\ QueueOK /\ BufferOK
BY Zenon DEF TypeOK, ControlOK, TimeOK, QueueOK, BufferOK

\* The smaller of two numbers.
LEMMA MinOfPair ==
  ASSUME NEW a \in Nat, NEW b \in Nat
  PROVE  Min({a, b}) = IF a <= b THEN a ELSE b
BY DEF Min

\* The initial state satisfies the invariant.
LEMMA InitInv == Init => IInv
<1> SUFFICES ASSUME Init PROVE IInv
  OBVIOUS
<1>1. ControlOK
  BY Zenon DEF Init, ControlOK
<1>2. FieldInv
  BY TextAssumption DEF Init, FieldInv, Keyboard
<1>3. TimeOK /\ PressInv
  BY TextAssumption DEF Init, TimeOK, PressInv
<1>4. QueueOK /\ QuietQueue
  BY TextAssumption DEF Init, QueueOK, QuietQueue
<1>5. BufferOK
  BY DEF Init, BufferOK, Fields, Capacity
<1>6. ConfirmInv
  BY <1>4 DEF Init, ConfirmInv, NoEvent
<1> QED
  BY <1>1, <1>2, <1>3, <1>4, <1>5, <1>6 DEF IInv

-----------------------------------------------------------------------------
(* Actions outside the pump *)

\* A step that leaves the queue and the buffers alone keeps their parts.
LEMMA DataKept ==
  ASSUME IInv, UNCHANGED <<queue, buffer>>
  PROVE  QueueOK' /\ QuietQueue' /\ BufferOK'
<1>1. queue' = queue /\ buffer' = buffer
  OBVIOUS
<1>2. QueueOK /\ QuietQueue /\ BufferOK
  BY DEF IInv, ConfirmInv
<1> QED
  BY <1>1, <1>2 DEF QueueOK, QuietQueue, BufferOK

\* The game's own actions and time.
LEMMA GameStep ==
  ASSUME IInv,
         \/ \E f \in Fields : Draw(f)
         \/ StartTextInput \/ StopTextInput \/ BeginPoll \/ Tick
  PROVE  IInv'
<1>1. QueueOK' /\ QuietQueue' /\ BufferOK'
  BY DataKept DEF Draw, StartTextInput, StopTextInput, BeginPoll, Tick
<1>2. (pc' \in {"game", "poll"} /\ pc = "game" /\ inSwkbd' = inSwkbd) \/ Tick
  BY DEF Draw, StartTextInput, StopTextInput, BeginPoll
<1>3. ControlOK'
  BY DEF IInv, ControlOK, Draw, StartTextInput, StopTextInput, BeginPoll, Tick,
         FieldAfterCheck, Active
<1>4. TimeOK'
  BY TextAssumption
     DEF IInv, TimeOK, Draw, StartTextInput, StopTextInput, BeginPoll, Tick
<1>5. FieldInv'
  BY <1>2, TextAssumption
     DEF IInv, FieldInv, TimeOK, Keyboard, Draw, StartTextInput, StopTextInput,
         BeginPoll, Tick, FieldAfterCheck, Active
<1>6. PressInv'
  BY DEF IInv, PressInv, Draw, StartTextInput, StopTextInput, BeginPoll, Tick
<1>7. ConfirmInv'
  BY <1>1 DEF IInv, ConfirmInv, Draw, StartTextInput, StopTextInput, BeginPoll, Tick
<1> QED
  BY <1>1, <1>3, <1>4, <1>5, <1>6, <1>7 DEF IInv

\* The hook decides about the event it took.
LEMMA CheckStep == ASSUME IInv, Check PROVE IInv'
<1>1. QueueOK' /\ QuietQueue' /\ BufferOK'
  BY DataKept DEF Check
<1>2. TimeOK'
  BY DEF IInv, TimeOK, Check
<1>3. ControlOK'
  <2>1. Translated(ev) \in Events \cup {NoEvent, "text_backspace", "text_return"}
    BY DEF IInv, ControlOK, Translated
  <2> QED
    BY <2>1 DEF IInv, ControlOK, Check, Keyboard, FieldAfterCheck, Active
<1>4. FieldInv'
  BY DEF IInv, ControlOK, FieldInv, Check, Keyboard, FieldAfterCheck, Active, OpensKeyboard
<1>5. PressInv'
  BY DEF IInv, PressInv, Check
<1>6. ConfirmInv'
  <2>1. ev # "confirm" => Translated(ev) # "confirm"
    BY DEF Translated
  <2> QED
    BY <1>1, <2>1 DEF IInv, ConfirmInv, Check, NoEvent
<1> QED
  BY <1>1, <1>2, <1>3, <1>4, <1>5, <1>6 DEF IInv

\* The keyboard is created and shown.
LEMMA ShowStep == ASSUME IInv, Create \/ Show PROVE IInv'
<1>1. QueueOK' /\ QuietQueue' /\ BufferOK'
  BY DataKept DEF Create, Show
<1>2. TimeOK'
  BY DEF IInv, TimeOK, Create, Show
<1>3. ControlOK'
  BY DEF IInv, ControlOK, Create, Show, Keyboard
<1>4. FieldInv'
  BY DEF IInv, FieldInv, Create, Show, Keyboard
<1>5. PressInv'
  <2>1. elapsed = 0
    BY TextAssumption DEF IInv, TimeOK, PressInv, Create, Show
  <2> QED
    BY <2>1 DEF IInv, PressInv, Create, Show
<1>6. ConfirmInv'
  BY <1>1 DEF IInv, ConfirmInv, Create, Show
<1> QED
  BY <1>1, <1>2, <1>3, <1>4, <1>5, <1>6 DEF IInv

\* The text is cut to the buffer it is written to.
LEMMA ApplyStep == ASSUME IInv, Apply PROVE IInv'
<1>1. BufferOK'
  <2>1. PICK n \in Texts \ {0} :
          buffer' = [f \in Fields |->
                       IF f = field THEN Min({n, Capacity[f]}) ELSE buffer[f]]
    BY DEF Apply
  <2>2. \A f \in Fields : Min({n, Capacity[f]}) \in 0..Capacity[f]
    <3> SUFFICES ASSUME NEW f \in Fields PROVE Min({n, Capacity[f]}) \in 0..Capacity[f]
      OBVIOUS
    <3>1. n \in Nat /\ Capacity[f] \in Nat
      BY <2>1, TextAssumption DEF Fields, Capacity
    <3> QED
      BY <3>1, MinOfPair
  <2> QED
    BY <2>1, <2>2 DEF IInv, BufferOK
<1>2. QueueOK' /\ QuietQueue'
  BY DEF IInv, QueueOK, ConfirmInv, QuietQueue, Apply
<1>3. ControlOK' /\ TimeOK' /\ FieldInv' /\ PressInv'
  BY DEF IInv, ControlOK, TimeOK, FieldInv, PressInv, Apply, Keyboard
<1>4. ConfirmInv'
  BY <1>2 DEF IInv, ConfirmInv, Apply
<1> QED
  BY <1>1, <1>2, <1>3, <1>4 DEF IInv

-----------------------------------------------------------------------------
(* Actions that pump *)

\* Outside the keyboard's sessions a pump puts no closing press into the
\* queue.
LEMMA PumpFacts ==
  ASSUME IInv, ~pressed, NEW i \in Inflow
  PROVE  QueueAfterPump(i) \in Seq(Events \ {"confirm"})
<1> DEFINE Quiet == Events \ {"confirm"}
           f == IF i.focus /\ ~HookSilent THEN <<"focus">> ELSE << >>
<1>1. queue \in Seq(Quiet)
  <2>1. queue \in Seq(Events) /\ \A k \in 1..Len(queue) : queue[k] # "confirm"
    BY Zenon DEF IInv, QueueOK, ConfirmInv, QuietQueue
  <2>2. \A k \in 1..Len(queue) : queue[k] \in Quiet
    BY <2>1, ElementOfSeq
  <2>3. Len(queue) \in Nat /\ queue = [k \in 1..Len(queue) |-> queue[k]]
    BY <2>1
  <2> HIDE DEF Quiet
  <2> QED
    BY <2>2, <2>3, IsASeq
<1>2. f \in Seq(Quiet)
  BY DEF Events
<1>3. i.new \in Seq(Quiet)
  <2>1. i.new \in {<< >>} \cup {<<d>> : d \in Devices}
    BY Zenon DEF Inflow
  <2>2. Devices \subseteq Quiet
    BY DEF Devices, Events
  <2> HIDE DEF Quiet
  <2>3. << >> \in Seq(Quiet)
    OBVIOUS
  <2>4. \A d \in Devices : <<d>> \in Seq(Quiet)
    BY <2>2
  <2> QED
    BY <2>1, <2>3, <2>4
<1>4. QueueAfterPump(i) = ((queue \o f) \o << >>) \o i.new
  BY DEF QueueAfterPump
<1> HIDE DEF f, Quiet
<1>5. QueueAfterPump(i) \in Seq(Quiet)
  BY <1>1, <1>2, <1>3, <1>4
<1> QED
  BY <1>5 DEF Quiet

\* SDL_PollEvent keeps the queue, the field and the closing press right.
LEMMA PollFacts ==
  ASSUME IInv, ~pressed, NEW e \in Events \cup {NoEvent}, PollEvent(e)
  PROVE  /\ QueueOK' /\ QuietQueue'
         /\ e # "confirm"
         /\ pressed' = FALSE
         /\ field' \in Fields \cup {NoField}
         /\ age < Expire => field' = field
<1>1. PICK i \in Inflow :
        LET q == QueueAfterPump(i) IN
        /\ Len(q) <= MaxQueue
        /\ field' = FieldAfterPump(i)
        /\ pressed' = FALSE
        /\ IF q = << >> THEN e = NoEvent /\ queue' = q
                        ELSE e = Head(q) /\ queue' = Tail(q)
  BY DEF PollEvent
<1> DEFINE q == QueueAfterPump(i)
<1>2. q \in Seq(Events \ {"confirm"})
  BY PumpFacts
<1>3. /\ field' \in Fields \cup {NoField}
      /\ age < Expire => field' = field
  BY <1>1 DEF FieldAfterPump, FieldAfterCheck, Active, IInv, ControlOK
<1>4. Len(q) <= MaxQueue /\ pressed' = FALSE
  BY <1>1
<1>5. IF q = << >> THEN e = NoEvent /\ queue' = q ELSE e = Head(q) /\ queue' = Tail(q)
  BY <1>1
<1> HIDE DEF q
<1>6. queue' \in Seq(Events \ {"confirm"}) /\ Len(queue') <= MaxQueue
  BY <1>2, <1>4, <1>5, TextAssumption
<1>7. QueueOK' /\ QuietQueue'
  <2>1. queue' \in Seq(Events)
    BY <1>6, SeqMonotonic, Events \ {"confirm"} \subseteq Events
  <2>2. \A k \in 1..Len(queue') : queue'[k] \in Events \ {"confirm"}
    BY <1>6, ElementOfSeq
  <2> QED
    BY <1>6, <2>1, <2>2 DEF QueueOK, QuietQueue
<1>8. e # "confirm"
  BY <1>2, <1>5 DEF NoEvent
<1> QED
  BY <1>3, <1>4, <1>7, <1>8

\* Both calls of SDL_PollEvent.
LEMMA PollStep == ASSUME IInv, Poll \/ PollAgain PROVE IInv'
<1>1. pc \in {"poll", "repoll"} /\ ~pressed
  BY DEF Poll, PollAgain, IInv, PressInv
<1>2. PICK e \in Events \cup {NoEvent} :
        /\ PollEvent(e)
        /\ \/ pc' = "game" /\ got' \in {NoEvent, e} /\ UNCHANGED ev
           \/ pc' = "check" /\ ev' = e /\ UNCHANGED got
  BY DEF Poll, PollAgain
<1>3. UNCHANGED <<textActive, inSwkbd, age, elapsed, buffer>>
  BY DEF Poll, PollAgain
<1>4. /\ QueueOK' /\ QuietQueue'
      /\ e # "confirm"
      /\ pressed' = FALSE
      /\ field' \in Fields \cup {NoField}
      /\ age < Expire => field' = field
  BY <1>1, <1>2, PollFacts
<1>5. ControlOK' /\ TimeOK' /\ BufferOK'
  BY <1>2, <1>3, <1>4 DEF IInv, ControlOK, TimeOK, BufferOK
<1>6. FieldInv'
  BY <1>1, <1>2, <1>3, <1>4 DEF IInv, FieldInv, Keyboard
<1>7. PressInv'
  BY <1>1, <1>2, <1>3, <1>4 DEF IInv, PressInv
<1>8. ConfirmInv'
  BY <1>2, <1>4 DEF IInv, ConfirmInv, NoEvent
<1> QED
  BY <1>4, <1>5, <1>6, <1>7, <1>8 DEF IInv

\* While the keyboard is open the applet hook leaves the field alone.
LEMMA DrainKeepsField == ASSUME IInv, DrainOnce PROVE field' = field
BY DEF IInv, FieldInv, DrainOnce, FieldAfterPump, HookAsksForField, Keyboard

\* A turn of the drain loop.
LEMMA DrainStep == ASSUME IInv, DrainOnce PROVE IInv'
<1>1. field' = field
  BY DrainKeepsField
<1>2. TimeOK' /\ (age' < Expire => age < Expire)
  <2>1. age \in Nat /\ age <= Expire /\ Expire \in Nat
    BY TextAssumption DEF IInv, TimeOK
  <2>2. age' = IF age + 1 <= Expire THEN age + 1 ELSE Expire
    BY <2>1, MinOfPair DEF DrainOnce
  <2>3. elapsed' \in 0..Drain
    BY TextAssumption DEF IInv, TimeOK, DrainOnce
  <2> QED
    BY <2>1, <2>2, <2>3 DEF TimeOK
<1>3. QueueOK' /\ QuietQueue'
  BY TextAssumption DEF DrainOnce, QueueOK, QuietQueue
<1>4. ControlOK' /\ BufferOK'
  BY <1>1 DEF IInv, ControlOK, BufferOK, DrainOnce
<1>5. FieldInv'
  BY <1>1, <1>2 DEF IInv, FieldInv, DrainOnce
<1>6. PressInv'
  BY DEF PressInv, DrainOnce
<1>7. ConfirmInv'
  BY <1>3 DEF IInv, ConfirmInv, DrainOnce
<1> QED
  BY <1>2, <1>3, <1>4, <1>5, <1>6, <1>7 DEF IInv

\* The end of the loop and touch_text_field.
LEMMA DrainEndsStep == ASSUME IInv, DrainEnds PROVE IInv'
<1>1. QueueOK' /\ QuietQueue' /\ BufferOK'
  BY DataKept DEF DrainEnds
<1>2. ~pressed
  BY TextAssumption DEF IInv, PressInv, DrainEnds
<1>3. ControlOK'
  BY DEF IInv, ControlOK, DrainEnds
<1>4. TimeOK'
  <2>1. age' = 0 /\ elapsed' = 0
    BY Zenon DEF DrainEnds
  <2> QED
    BY <2>1, TextAssumption DEF TimeOK
<1>5. FieldInv'
  BY DEF IInv, FieldInv, DrainEnds, Keyboard
<1>6. PressInv'
  <2>1. elapsed' = 0 /\ ~pressed'
    BY <1>2, Zenon DEF DrainEnds
  <2> QED
    BY <2>1 DEF PressInv
<1>7. ConfirmInv'
  BY <1>1 DEF IInv, ConfirmInv, DrainEnds
<1> QED
  BY <1>1, <1>3, <1>4, <1>5, <1>6, <1>7 DEF IInv

-----------------------------------------------------------------------------
(* Theorems *)

\* Every step keeps the invariant.
LEMMA NextInv == IInv /\ [Next]_vars => IInv'
<1> SUFFICES ASSUME IInv, [Next]_vars PROVE IInv'
  OBVIOUS
<1>1. CASE UNCHANGED vars
  BY <1>1 DEF vars, IInv, ControlOK, TimeOK, QueueOK, BufferOK, FieldInv, PressInv,
              ConfirmInv, QuietQueue
<1> QED
  BY <1>1, GameStep, CheckStep, ShowStep, ApplyStep, PollStep, DrainStep, DrainEndsStep
     DEF Next, HookStep

\* The invariant always holds.
LEMMA SpecInv == Spec => []IInv
BY InitInv, NextInv, PTL DEF Spec

\* Every variable has its type; texts fit the game's buffers.
THEOREM TypeCorrect == Spec => []TypeOK
<1>1. IInv => TypeOK
  BY TypeParts DEF IInv
<1> QED
  BY <1>1, SpecInv, PTL

\* The keyboard is open only for a field of the game (imports.c:377-389).
THEOREM KeyboardAlwaysHasField == Spec => []KeyboardHasField
<1>1. IInv => KeyboardHasField
  BY DEF IInv, FieldInv, KeyboardHasField, Fields, NoField
<1> QED
  BY <1>1, SpecInv, PTL

\* The press that closes the keyboard never reaches the game
\* (imports.c:349-356).
THEOREM ConfirmIsDiscarded == Spec => []ConfirmStaysOut
<1>1. IInv => ConfirmStaysOut
  BY DEF IInv, ConfirmInv, ConfirmStaysOut
<1> QED
  BY <1>1, SpecInv, PTL

\* The keyboard keeps its field, however long the user types and whatever
\* the applet hook is told meanwhile (game.c:98-99).
THEOREM FieldIsKept == Spec => KeyboardKeepsField
<1>1. ASSUME IInv, [Next]_vars
      PROVE  [(pc \in Keyboard) => UNCHANGED <<field, textActive>>]_vars
  <2> SUFFICES ASSUME pc \in Keyboard, Next PROVE UNCHANGED <<field, textActive>>
    BY <1>1
  <2>1. CASE Create \/ Show \/ Apply \/ DrainEnds \/ Tick
    BY <2>1 DEF Create, Show, Apply, DrainEnds, Tick
  <2>2. CASE DrainOnce
    BY <1>1, <2>2, DrainKeepsField DEF DrainOnce
  <2> QED
    BY <2>1, <2>2 DEF Next, HookStep, Keyboard, Draw, StartTextInput, StopTextInput,
                      BeginPoll, Poll, Check, PollAgain
<1> QED
  BY <1>1, SpecInv, PTL DEF Spec, KeyboardKeepsField

\* A key of a USB keyboard that reaches the game as it is was the first
\* event after the keyboard (imports.c:391-392): no other path leaves the
\* translation out.
THEOREM OnlyFirstKeyIsRaw ==
  Spec => [][got' \in {"backspace", "return"} => got' = got \/ PollAgain]_vars
<1>1. ASSUME IInv, [Next]_vars
      PROVE  [got' \in {"backspace", "return"} => got' = got \/ PollAgain]_vars
  <2> SUFFICES ASSUME Next, got' # got, ~PollAgain PROVE got' \notin {"backspace", "return"}
    BY <1>1
  <2>1. CASE Poll
    BY <2>1 DEF Poll, NoEvent
  <2>2. CASE Check
    BY <2>2 DEF Check, Translated
  <2> QED
    BY <2>1, <2>2 DEF Next, HookStep, Draw, StartTextInput, StopTextInput, BeginPoll,
                      Create, Apply, DrainOnce, DrainEnds, Show, Tick
<1> QED
  BY <1>1, SpecInv, PTL DEF Spec

-----------------------------------------------------------------------------
(* Closing the keyboard and leaving text input mode take finitely many steps *)

\* The guards of HookStep: what the hook does next is possible.  A pump needs
\* room for what it finds, the keyboard a text the user can have typed.
HookReady ==
  \/ pc \in {"check", "create", "drain"}
  \/ pc \in {"poll", "repoll"} /\ \E i \in Inflow : Len(QueueAfterPump(i)) <= MaxQueue
  \/ pc = "apply" /\ Texts \ {0} # {}

\* Weak fairness of the hook and of the game's polling, with the guards
\* written out.
HookRuns == []<>~HookReady \/ []<><<HookStep>>_vars
GamePolls == []<>~(pc = "game") \/ []<><<BeginPoll>>_vars

\* From the answer of swkbdCreate, or from the user's press, to the return
\* to the game, and the steps of the hook that are left at most.
Closing == pc \in {"create", "apply", "drain", "repoll"}
ClosingLeft ==
  CASE pc \in {"create", "apply"} -> Drain + 3
    [] pc = "drain" -> (Drain - elapsed) + 2
    [] OTHER -> 1

\* The field is no longer drawn, and the user does not hold the keyboard open.
Stale == textActive /\ age = Expire /\ pc # "show"
StaleLeft ==
  IF pc = "game" THEN 1
  ELSE IF pc \in {"check", "repoll"} THEN 2
  ELSE IF pc = "poll" THEN 3
  ELSE IF pc = "drain" THEN (Drain - elapsed) + 3
  ELSE Drain + 4

\* Inside the hook the next step is always possible: the queue is never in
\* the way of a poll.
LEMMA HookIsReady ==
  ASSUME IInv, Texts \ {0} # {}, pc \notin {"game", "show"}
  PROVE  HookReady
<1>1. CASE pc \in {"poll", "repoll"}
  <2> DEFINE i == [focus |-> FALSE, new |-> << >>]
  <2>1. i \in Inflow
    BY DEF Inflow
  <2>2. ~pressed
    BY <1>1 DEF IInv, PressInv
  <2>3. queue \in Seq(Events) /\ Len(queue) <= MaxQueue
    BY DEF IInv, QueueOK
  <2>4. QueueAfterPump(i) = ((queue \o << >>) \o << >>) \o << >>
    BY <2>2 DEF QueueAfterPump
  <2>5. Len(QueueAfterPump(i)) <= MaxQueue
    BY <2>3, <2>4
  <2> HIDE DEF i
  <2> QED
    BY <1>1, <2>1, <2>5 DEF HookReady
<1>2. CASE pc \notin {"poll", "repoll"}
  BY <1>2 DEF IInv, ControlOK, Keyboard, HookReady
<1> QED
  BY <1>1, <1>2

\* The counts are numbers, and an open keyboard that is not drained has
\* drained nothing.
LEMMA Counts ==
  ASSUME IInv
  PROVE  /\ ClosingLeft \in Nat \ {0} /\ StaleLeft \in Nat \ {0}
         /\ pc # "drain" => elapsed = 0
         /\ Stale => (StaleLeft = 1 <=> pc = "game")
<1>1. elapsed \in 0..Drain /\ Drain \in Nat \ {0}
  BY TextAssumption DEF IInv, TimeOK
<1>2. pc # "drain" => elapsed = 0
  BY <1>1 DEF IInv, PressInv
<1>3. ClosingLeft \in Nat \ {0}
  BY <1>1 DEF ClosingLeft
<1>4. StaleLeft \in Nat \ {0} /\ (StaleLeft = 1 <=> pc = "game")
  <2>1. CASE pc \in {"game", "poll", "check", "repoll"}
    <3>1. IF pc = "game" THEN StaleLeft = 1 ELSE StaleLeft = 2 \/ StaleLeft = 3
      BY <2>1 DEF StaleLeft
    <3> QED
      BY <3>1
  <2>2. CASE pc = "drain"
    <3>1. StaleLeft = (Drain - elapsed) + 3
      BY <2>2 DEF StaleLeft
    <3> QED
      BY <1>1, <2>2, <3>1
  <2>3. CASE pc \notin {"game", "poll", "check", "repoll", "drain"}
    <3>1. StaleLeft = Drain + 4
      BY <2>3 DEF StaleLeft
    <3> QED
      BY <1>1, <2>3, <3>1
  <2> QED
    BY <2>1, <2>2, <2>3
<1> QED
  BY <1>2, <1>3, <1>4

\* A step goes nearer to the end of the keyboard or is time passing.
LEMMA ClosingStep ==
  ASSUME IInv, Closing, [Next]_vars
  PROVE  \/ pc' \in {"show", "game"}
         \/ Closing' /\ ClosingLeft' < ClosingLeft
         \/ (Tick \/ UNCHANGED vars) /\ Closing' /\ ClosingLeft' = ClosingLeft
<1>1. elapsed \in 0..Drain /\ Drain \in Nat \ {0} /\ (pc # "drain" => elapsed = 0)
  BY Counts, TextAssumption DEF IInv, TimeOK
<1>2. CASE Create
  <2>1. ClosingLeft = Drain + 3 /\ elapsed' = elapsed
    BY <1>2 DEF Create, ClosingLeft
  <2>2. pc' = "show" \/ (pc' = "drain" /\ ClosingLeft' = (Drain - elapsed') + 2)
    BY <1>2 DEF Create, ClosingLeft
  <2>3. pc' = "drain" => ClosingLeft' < ClosingLeft
    BY <1>1, <2>1, <2>2
  <2> QED
    BY <2>2, <2>3 DEF Closing
<1>3. CASE Apply
  BY <1>1, <1>3 DEF Apply, Closing, ClosingLeft
<1>4. CASE DrainOnce
  <2>1. ClosingLeft = (Drain - elapsed) + 2 /\ elapsed' = elapsed + 1
    BY <1>4 DEF DrainOnce, ClosingLeft
  <2>2. pc' = "drain" /\ ClosingLeft' = (Drain - elapsed') + 2
    BY <1>4 DEF DrainOnce, ClosingLeft
  <2> QED
    BY <1>1, <2>1, <2>2 DEF Closing
<1>5. CASE DrainEnds
  BY <1>1, <1>5 DEF DrainEnds, Closing, ClosingLeft
<1>6. CASE PollAgain
  BY <1>6 DEF PollAgain
<1>7. CASE Tick \/ UNCHANGED vars
  <2>1. pc' = pc /\ elapsed' = elapsed
    BY <1>7 DEF Tick, vars
  <2> QED
    BY <1>7, <2>1 DEF Closing, ClosingLeft
<1> QED
  BY <1>2, <1>3, <1>4, <1>5, <1>6, <1>7
     DEF Closing, Next, HookStep, Draw, StartTextInput, StopTextInput, BeginPoll, Poll,
         Check, Show

\* A step of the hook or of the game's polling goes nearer to the end of
\* text input mode, and no other goes further from it.
LEMMA StaleStep ==
  ASSUME IInv, Stale, [Next]_vars
  PROVE  \/ ~Stale'
         \/ Stale' /\ StaleLeft' < StaleLeft
         \/ ~HookStep /\ ~BeginPoll /\ Stale' /\ StaleLeft' = StaleLeft
<1>1. elapsed \in 0..Drain /\ Drain \in Nat \ {0} /\ (pc # "drain" => elapsed = 0)
  BY Counts, TextAssumption DEF IInv, TimeOK
<1>2. ~Active
  BY TextAssumption DEF Stale, Active
<1>3. CASE BeginPoll
  BY <1>2, <1>3 DEF BeginPoll, Stale
<1>4. CASE Poll
  BY <1>4 DEF Poll, StaleLeft
<1>5. CASE Check
  BY <1>2, <1>5 DEF Check, OpensKeyboard, StaleLeft
<1>6. CASE PollAgain
  BY <1>6 DEF PollAgain, StaleLeft
<1>7. CASE Create
  BY <1>1, <1>7 DEF Create, Stale, StaleLeft
<1>8. CASE Apply
  BY <1>1, <1>8 DEF Apply, StaleLeft
<1>9. CASE DrainOnce
  BY <1>1, <1>9 DEF DrainOnce, StaleLeft
<1>10. CASE DrainEnds
  BY <1>10, TextAssumption DEF DrainEnds, Stale
<1>11. CASE ~HookStep /\ ~BeginPoll
  BY <1>11 DEF Next, Draw, StartTextInput, StopTextInput, Show, Tick, vars, Stale, StaleLeft
<1> QED
  BY <1>3, <1>4, <1>5, <1>6, <1>7, <1>8, <1>9, <1>10, <1>11 DEF HookStep

\* Once the user is done (imports.c:351): from n steps of the hook before
\* the end fewer are left eventually, or the game runs on.
THEOREM KeyboardGetsCloser ==
  ASSUME Texts \ {0} # {}, NEW n \in Nat
  PROVE  Spec /\ HookRuns =>
           ((Closing /\ ClosingLeft = n) ~>
              (pc \in {"show", "game"} \/ (Closing /\ ClosingLeft < n)))
<1> DEFINE P == Closing /\ ClosingLeft = n
           Q == pc \in {"show", "game"} \/ (Closing /\ ClosingLeft < n)
<1>1. IInv /\ P /\ [Next]_vars => P' \/ Q'
  BY ClosingStep
<1>2. IInv /\ P /\ <<HookStep>>_vars => Q'
  <2> SUFFICES ASSUME IInv, P, HookStep, ~UNCHANGED vars PROVE Q'
    OBVIOUS
  <2>1. pc' # pc \/ elapsed' # elapsed
    BY DEF HookStep, Poll, Check, PollAgain, Create, Apply, DrainOnce, DrainEnds,
           Closing, IInv, TimeOK
  <2>2. ~Tick
    BY <2>1 DEF Tick
  <2>3. [Next]_vars
    BY DEF Next
  <2> QED
    BY <2>2, <2>3, ClosingStep
<1>3. IInv /\ P => HookReady
  BY HookIsReady DEF Closing
<1> HIDE DEF P, Q
<1>4. Spec /\ HookRuns => (P ~> Q)
  BY <1>1, <1>2, <1>3, SpecInv, PTL DEF Spec, HookRuns
<1> QED
  BY <1>4 DEF P, Q

\* Text input mode of a field that is no longer drawn (imports.c:375-379):
\* from n steps before its end fewer are left eventually, or it has ended,
\* the field is drawn again, or the user holds the keyboard open.
THEOREM TextModeGetsCloser ==
  ASSUME Texts \ {0} # {}, NEW n \in Nat
  PROVE  Spec /\ HookRuns /\ GamePolls =>
           ((Stale /\ StaleLeft = n) ~> (~Stale \/ (Stale /\ StaleLeft < n)))
<1> DEFINE P == Stale /\ StaleLeft = n
           Q == ~Stale \/ (Stale /\ StaleLeft < n)
<1>1. IInv /\ P /\ [Next]_vars => P' \/ Q'
  BY StaleStep
<1>2. IInv /\ P /\ (<<HookStep>>_vars \/ <<BeginPoll>>_vars) => Q'
  <2> SUFFICES ASSUME IInv, P, HookStep \/ BeginPoll PROVE Q'
    OBVIOUS
  <2>1. [Next]_vars
    BY DEF Next
  <2> QED
    BY <2>1, StaleStep
<1>3. CASE n = 1
  <2>1. IInv /\ P => pc = "game"
    BY <1>3, Counts
  <2> HIDE DEF P, Q
  <2>2. Spec /\ GamePolls => (P ~> Q)
    BY <1>1, <1>2, <2>1, SpecInv, PTL DEF Spec, GamePolls
  <2> QED
    BY <2>2 DEF P, Q
<1>4. CASE n # 1
  <2>1. IInv /\ P => HookReady
    BY <1>4, Counts, HookIsReady DEF Stale
  <2> HIDE DEF P, Q
  <2>2. Spec /\ HookRuns => (P ~> Q)
    BY <1>1, <1>2, <2>1, SpecInv, PTL DEF Spec, HookRuns
  <2> QED
    BY <2>2 DEF P, Q
<1> QED
  BY <1>3, <1>4
=============================================================================
