----------------------------- MODULE TextInput -----------------------------
(***************************************************************************)
(* Typing text with the console's software keyboard: the SDL hooks of      *)
(* source/imports.c (328-418), and the text field tracking, the text       *)
(* injection and the applet hook of source/hooks/game.c (28-122).          *)
(*                                                                         *)
(* All of it runs on the game's main thread: the game draws its screens,   *)
(* calls SDL_PollEvent until it returns 0, draws again.  What happens at   *)
(* the same time is time passing, the user pressing buttons, and the       *)
(* system sending focus messages; SDL takes both in when it pumps.         *)
(* The game passes SDL_PollEvent a buffer and exports the two variables    *)
(* text is written to.  swkbdShow and swkbdCreate are the console's.       *)
(***************************************************************************)
EXTENDS Naturals, Sequences, FiniteSetsExt

CONSTANTS
  Expire,     \* a field not drawn for this long (100 ms) is gone
  Drain,      \* how long presses are discarded after the keyboard (250 ms)
  MaxQueue,   \* bound: events in SDL's queue
  Texts       \* lengths of what a user types; 0 is nothing

ASSUME TextAssumption ==
  /\ Expire \in Nat \ {0}
  /\ Drain \in Nat \ {0}
  /\ MaxQueue \in Nat \ {0}
  /\ Texts \subseteq Nat

Fields == {"HOST", "NAME"}
NoField == "NONE"

\* Buffer sizes: host_ip[31] = 0 and a name of at most 15 characters.
Capacity == [HOST |-> 31, NAME |-> 15]

\* Events: "xy" is a press of X or Y, "confirm" the press that closed the
\* keyboard, "backspace" and "return" keys of a USB keyboard.
Devices == {"xy", "backspace", "return", "other"}
Events == Devices \cup {"confirm", "focus"}
NoEvent == "none"

VARIABLES
  pc,          \* where the main thread is
  textActive,  \* s_textInputActive
  inSwkbd,     \* s_inSwkbd
  field,       \* s_currentTextField
  age,         \* time since s_lastTextFieldTick, Expire when 0 or longer
  queue,       \* SDL's event queue
  ev,          \* the event SDL_PollEvent_hook is looking at
  got,         \* the event the game received last
  pressed,     \* the user closed the keyboard and SDL has not noticed yet
  elapsed,     \* time spent draining
  buffer       \* length of the text in the game's two buffers

vars == <<pc, textActive, inSwkbd, field, age, queue, ev, got, pressed, elapsed, buffer>>

\* Positions in SDL_PollEvent_hook that belong to trigger_swkbd.
Keyboard == {"create", "show", "apply", "drain"}

Init ==
  /\ pc = "game"
  /\ textActive = FALSE
  /\ inSwkbd = FALSE
  /\ field = NoField
  /\ age = Expire
  /\ queue = << >>
  /\ ev = NoEvent
  /\ got = NoEvent
  /\ pressed = FALSE
  /\ elapsed = 0
  /\ buffer = [f \in Fields |-> 0]

-----------------------------------------------------------------------------
(* The text field on the screen *)

\* is_text_field_active: the answer, and the field it leaves behind.
Active_Forever == age <= Expire /\ field # NoField   \* faulty: no timeout
Active == age < Expire
FieldAfterCheck == IF Active THEN field ELSE NoField

\* DrawHostComputer_hook, DrawEnterName_hook: the game draws screen f.
Draw(f) ==
  /\ pc = "game"
  /\ field' = f
  /\ age' = 0
  /\ UNCHANGED <<pc, textActive, inSwkbd, queue, ev, got, pressed, elapsed, buffer>>

StartTextInput ==
  /\ pc = "game"
  /\ textActive' = TRUE
  /\ UNCHANGED <<pc, inSwkbd, field, age, queue, ev, got, pressed, elapsed, buffer>>

StopTextInput ==
  /\ pc = "game"
  /\ textActive' = FALSE
  /\ UNCHANGED <<pc, inSwkbd, field, age, queue, ev, got, pressed, elapsed, buffer>>

\* Time passes wherever the main thread is, except that the drain loop
\* measures its own.
Tick ==
  /\ pc # "drain"
  /\ age < Expire
  /\ age' = age + 1
  /\ UNCHANGED <<pc, textActive, inSwkbd, field, queue, ev, got, pressed, elapsed, buffer>>

-----------------------------------------------------------------------------
(* SDL's pump *)

\* Faulty variant: the hook looks at the field before it looks at s_inSwkbd.
HookAsksForField_First == textActive
\* onAppletHook calls is_text_field_active only past two short circuits.
HookAsksForField == ~inSwkbd /\ textActive

\* onAppletHook keeps focus changes from the game while text is typed.
HookSilent == inSwkbd \/ (textActive /\ Active)

\* External: what a pump may find, a focus message and a press of a button.
Inflow == [focus : BOOLEAN, new : {<< >>} \cup {<<d>> : d \in Devices}]

FieldAfterPump(i) ==
  IF i.focus /\ HookAsksForField THEN FieldAfterCheck ELSE field

\* External: the applet hook runs first, then SDL looks at the buttons.
QueueAfterPump(i) ==
  queue \o (IF i.focus /\ ~HookSilent THEN <<"focus">> ELSE << >>)
        \o (IF pressed THEN <<"confirm">> ELSE << >>)
        \o i.new

\* External: SDL_PollEvent pumps and takes the first event e, if any.
PollEvent(e) ==
  \E i \in Inflow :
    LET q == QueueAfterPump(i) IN
    /\ Len(q) <= MaxQueue
    /\ field' = FieldAfterPump(i)
    /\ pressed' = FALSE
    /\ IF q = << >> THEN e = NoEvent /\ queue' = q
                     ELSE e = Head(q) /\ queue' = Tail(q)

-----------------------------------------------------------------------------
(* SDL_PollEvent_hook *)

\* Faulty variant: text input mode outlives the text field.
BeginPoll_KeepMode ==
  /\ pc = "game"
  /\ field' = IF textActive THEN FieldAfterCheck ELSE field
  /\ pc' = "poll"
  /\ UNCHANGED <<textActive, inSwkbd, age, queue, ev, got, pressed, elapsed, buffer>>

\* Text input mode ends when its field is no longer drawn.
BeginPoll ==
  /\ pc = "game"
  /\ textActive' = (textActive /\ Active)
  /\ field' = IF textActive THEN FieldAfterCheck ELSE field
  /\ pc' = "poll"
  /\ UNCHANGED <<inSwkbd, age, queue, ev, got, pressed, elapsed, buffer>>

Poll ==
  /\ pc = "poll"
  /\ \E e \in Events \cup {NoEvent} :
       /\ PollEvent(e)
       /\ IF e = NoEvent
          THEN pc' = "game" /\ got' = NoEvent /\ UNCHANGED ev
          ELSE pc' = "check" /\ ev' = e /\ UNCHANGED got
  /\ UNCHANGED <<textActive, inSwkbd, age, elapsed, buffer>>

\* Keys the game reads as text events.
Translated(e) ==
  CASE e = "backspace" -> "text_backspace"
    [] e = "return"    -> "text_return"
    [] OTHER           -> e

\* Faulty variant: the check at the start of the hook is trusted.
OpensKeyboard_NoRecheck == textActive /\ ~inSwkbd /\ ev = "xy"
OpensKeyboard == textActive /\ Active /\ ~inSwkbd /\ ev = "xy"

Check ==
  /\ pc = "check"
  /\ field' = IF textActive THEN FieldAfterCheck ELSE field
  /\ IF OpensKeyboard
     THEN pc' = "create" /\ inSwkbd' = TRUE /\ UNCHANGED got
     ELSE pc' = "game" /\ got' = Translated(ev) /\ UNCHANGED inSwkbd
  /\ ev' = NoEvent
  /\ UNCHANGED <<textActive, age, queue, pressed, elapsed, buffer>>

\* After the keyboard the next event, if any, is returned as it is.
PollAgain ==
  /\ pc = "repoll"
  /\ \E e \in Events \cup {NoEvent} : PollEvent(e) /\ got' = e
  /\ pc' = "game"
  /\ UNCHANGED <<textActive, inSwkbd, age, ev, elapsed, buffer>>

-----------------------------------------------------------------------------
(* trigger_swkbd *)

Create ==
  /\ pc = "create"
  /\ pc' \in {"show", "drain"}
  /\ UNCHANGED <<textActive, inSwkbd, field, age, queue, ev, got, pressed, elapsed, buffer>>

\* External: the user takes any time, and cancels or confirms with a press;
\* or the applet fails.  What was typed is applied in the next step.
Show ==
  /\ pc = "show"
  /\ pressed' \in BOOLEAN
  /\ pc' \in {"apply", "drain"}
  /\ UNCHANGED <<textActive, inSwkbd, field, age, queue, ev, got, elapsed, buffer>>

\* Faulty variant: strcpy instead of the bounded copies.
Apply_Unbounded ==
  /\ pc = "apply"
  /\ \E n \in Texts \ {0} :
       buffer' = [f \in Fields |-> IF f = field THEN n ELSE buffer[f]]
  /\ pc' = "drain"
  /\ UNCHANGED <<textActive, inSwkbd, field, age, queue, ev, got, pressed, elapsed>>

\* apply_text_input, of a text that is not empty.
Apply ==
  /\ pc = "apply"
  /\ \E n \in Texts \ {0} :
       buffer' = [f \in Fields |->
                    IF f = field THEN Min({n, Capacity[f]}) ELSE buffer[f]]
  /\ pc' = "drain"
  /\ UNCHANGED <<textActive, inSwkbd, field, age, queue, ev, got, pressed, elapsed>>

\* Faulty variant: the queue is pumped but not flushed.
DrainOnce_NoFlush ==
  /\ pc = "drain"
  /\ elapsed < Drain
  /\ \E i \in Inflow :
       /\ Len(QueueAfterPump(i)) <= MaxQueue
       /\ field' = FieldAfterPump(i)
       /\ queue' = QueueAfterPump(i)
  /\ pressed' = FALSE
  /\ elapsed' = elapsed + 1
  /\ age' = Min({age + 1, Expire})
  /\ UNCHANGED <<pc, textActive, inSwkbd, ev, got, buffer>>

\* Faulty variant: a press starts the 250 ms again.
DrainOnce_Restart ==
  /\ pc = "drain"
  /\ elapsed < Drain
  /\ \E i \in Inflow :
       /\ field' = FieldAfterPump(i)
       /\ elapsed' = IF i.new # << >> THEN 0 ELSE elapsed + 1
  /\ queue' = << >>
  /\ pressed' = FALSE
  /\ age' = Min({age + 1, Expire})
  /\ UNCHANGED <<pc, textActive, inSwkbd, ev, got, buffer>>

\* One turn of the loop: pump, flush, sleep one unit of time.
DrainOnce ==
  /\ pc = "drain"
  /\ elapsed < Drain
  /\ \E i \in Inflow : field' = FieldAfterPump(i)
  /\ queue' = << >>
  /\ pressed' = FALSE
  /\ elapsed' = elapsed + 1
  /\ age' = Min({age + 1, Expire})
  /\ UNCHANGED <<pc, textActive, inSwkbd, ev, got, buffer>>

\* touch_text_field: the field counts as drawn just now.
DrainEnds ==
  /\ pc = "drain"
  /\ elapsed = Drain
  /\ elapsed' = 0
  /\ age' = 0
  /\ inSwkbd' = FALSE
  /\ pc' = "repoll"
  /\ UNCHANGED <<textActive, field, queue, ev, got, pressed, buffer>>

\* What the main thread does inside SDL_PollEvent_hook.
HookStep ==
  Poll \/ Check \/ PollAgain \/ Create \/ Apply \/ DrainOnce \/ DrainEnds

Next ==
  \/ \E f \in Fields : Draw(f)
  \/ StartTextInput \/ StopTextInput \/ BeginPoll
  \/ HookStep \/ Show \/ Tick

Spec == Init /\ [][Next]_vars

\* The hook runs on, and the game goes on polling; the user may leave the
\* keyboard open for ever.
FairSpec == Spec /\ WF_vars(HookStep) /\ WF_vars(BeginPoll)

-----------------------------------------------------------------------------
(* Properties *)

\* Every variable has its type; a text fits the game's buffer.
TypeOK ==
  /\ pc \in {"game", "poll", "check", "repoll"} \cup Keyboard
  /\ textActive \in BOOLEAN /\ inSwkbd \in BOOLEAN /\ pressed \in BOOLEAN
  /\ field \in Fields \cup {NoField}
  /\ age \in 0..Expire
  /\ queue \in Seq(Events) /\ Len(queue) <= MaxQueue
  /\ ev \in Events \cup {NoEvent}
  /\ got \in Events \cup {NoEvent, "text_backspace", "text_return"}
  /\ elapsed \in 0..Drain
  /\ \A f \in Fields : buffer[f] \in 0..Capacity[f]

\* The keyboard is open only for a field of the game, however the check at
\* the start of the hook, the pump and the time between them interleave:
\* no text is typed in vain (imports.c:377-389, game.c:72-96).
KeyboardHasField == pc \in Keyboard => textActive /\ inSwkbd /\ field # NoField

\* Between the press of X and the end of the drain the field the text goes
\* to does not change, however long the user types and whatever focus
\* messages arrive (game.c:98-99).
KeyboardKeepsField ==
  [][(pc \in Keyboard) => UNCHANGED <<field, textActive>>]_vars

\* The press that closes the keyboard never reaches the game, where it
\* would start a connection (imports.c:349-356).
ConfirmStaysOut == got # "confirm"

\* Once the user is done the game runs on (imports.c:351).
KeyboardCloses == (pc \in {"create", "apply", "drain"}) ~> (pc \in {"show", "game"})

\* Text input mode ends when the field is no longer drawn
\* (imports.c:375-379).
TextModeEnds ==
  (textActive /\ age = Expire) ~> (~textActive \/ age < Expire \/ pc = "show")

\* Claim of a comment: a physical Backspace or Return reaches the game as
\* text input (imports.c:396-398).
KeysArriveAsText == got \notin {"backspace", "return"}
=============================================================================
