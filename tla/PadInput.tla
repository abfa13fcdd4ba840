------------------------------ MODULE PadInput ------------------------------
(***************************************************************************)
(* The controller: pspdrv_input_from_packed and the head of                *)
(* pspdrv_run_frame in psp-driver.cpp, SetAxis and the head of             *)
(* FrameAdvance in waterbox.cpp.                                           *)
(*                                                                         *)
(* A frame's input is a word: the buttons held and the left stick as two   *)
(* bytes.  The frontend may also hand the stick over through SetAxis, as   *)
(* the frame loops of run-wbx.c do.  The core tells the PSP's controller   *)
(* (sceCtrl) what was pressed and what was let go, not what is held.       *)
(***************************************************************************)
EXTENDS Integers

CONSTANTS Button,     \* the buttons
          XByte,      \* the bytes the stick's X takes: 0 left, 255 right
          YByte,      \* those of its Y: 0 up, 255 down
          Slot,       \* the places the frontend keeps states in
          Empty       \* a slot without a state

ASSUME PadAssumption ==
  /\ XByte \subseteq 0..255
  /\ YByte \subseteq 0..255

VARIABLES guest,  \* the core's memory, sceCtrl included
          slots,  \* the states, each with the input it was taken after
          asked,  \* history: the input of the last frame
          axes    \* whether the frontend uses SetAxis; "a driver uses one path
                  \* or the other, never both" (waterbox.cpp:40)

vars == <<guest, slots, asked, axes>>

NoInput == [buttons |-> {}, x |-> 128, y |-> 128]

Input == [buttons : SUBSET Button, x : XByte \cup {128}, y : YByte \cup {128}]

SByte == -128..127

Memory == [prev     : SUBSET Button,    \* g_prevButtons
           held     : SUBSET Button,    \* what sceCtrl has as pressed
           stick    : SByte \X SByte,   \* where it has the stick, up is positive
           axis     : SByte \X SByte,   \* g_axis
           axisMode : BOOLEAN]          \* g_axisMode

Init ==
  /\ guest = [prev |-> {}, held |-> {}, stick |-> <<0, 0>>, axis |-> <<0, 0>>,
              axisMode |-> FALSE]
  /\ slots = [s \in Slot |-> Empty]
  /\ asked = NoInput
  /\ axes \in BOOLEAN

-----------------------------------------------------------------------------
(* What becomes of the stick.  A definition named X_how is a mutant of X:   *)
(* a mistake the properties below must notice.                             *)

\* (int8_t)n
Int8(n) == ((n + 128) % 256) - 128

Clamped_not(v) == v
Clamped_symmetric(v) == CASE v < -127 -> -127 [] v > 127 -> 127 [] OTHER -> v
Clamped(v) == CASE v < -128 -> -128 [] v > 127 -> 127 [] OTHER -> v

\* The packed bytes; both zero is a frontend that maps no stick.
Unpacked_downIsUp(x, y) == <<Int8(x - 128), Int8(y - 128)>>
Unpacked(x, y) ==
  IF x = 0 /\ y = 0 THEN <<0, 0>> ELSE <<Int8(x - 128), Int8(128 - y)>>

\* run-wbx.c, before a frame: SetAxis(0, x - 128), SetAxis(1, 128 - y).
AxesSet(g, x, y) ==
  [g EXCEPT !.axis = <<Clamped(x - 128), Clamped(128 - y)>>, !.axisMode = TRUE]

\* pspdrv_run_frame: __CtrlUpdateButtons(down, up) and __CtrlSetAnalogXY.
Pressed_pressOnly(g, buttons) ==
  [g EXCEPT !.held = (@ \ (g.prev \ buttons)) \cup (buttons \ g.prev)]
Pressed(g, buttons) ==
  [g EXCEPT !.held = (@ \ (g.prev \ buttons)) \cup (buttons \ g.prev),
            !.prev = buttons]

FrameAdvance(in) ==
  LET told == IF axes THEN AxesSet(guest, in.x, in.y) ELSE guest
      at   == IF told.axisMode THEN told.axis ELSE Unpacked(in.x, in.y)
  IN  /\ guest' = [Pressed(told, in.buttons) EXCEPT !.stick = at]
      /\ asked' = in
      /\ UNCHANGED <<slots, axes>>

SaveState(s) ==
  /\ slots' = [slots EXCEPT ![s] = [memory |-> guest, after |-> asked]]
  /\ UNCHANGED <<guest, asked, axes>>

LoadState(s) ==
  /\ slots[s] # Empty
  /\ guest' = slots[s].memory
  /\ asked' = slots[s].after
  /\ UNCHANGED <<slots, axes>>

Next ==
  \/ \E buttons \in SUBSET Button, x \in XByte, y \in YByte :
       FrameAdvance([buttons |-> buttons, x |-> x, y |-> y])
  \/ \E s \in Slot : SaveState(s) \/ LoadState(s)

Spec == Init /\ [][Next]_vars

-----------------------------------------------------------------------------
(* Properties.                                                             *)

TypeOK ==
  /\ guest \in Memory
  /\ asked \in Input
  /\ axes \in BOOLEAN
  /\ DOMAIN slots = Slot
  /\ \A s \in Slot : slots[s] # Empty => slots[s] \in [memory : Memory, after : Input]

\* What the game has as pressed is what the frame asked for, although the core
\* tells of changes only: whatever frames came before and whichever state was
\* loaded, no button sticks and none is missed.
HeldIsAsked == guest.held = asked.buttons

\* waterbox.cpp:10, "bit 16..23: left stick X, biased u8 (0=left, 128=center,
\* 255=right)", "bit 24..31: left stick Y, biased u8 (0=up, 128=center,
\* 255=down)": the game has the stick on the side it is held to.
OnItsSide ==
  /\ guest.stick[1] > 0 <=> asked.x > 128
  /\ guest.stick[1] < 0 <=> asked.x < 128
  /\ guest.stick[2] > 0 <=> asked.y < 128
  /\ guest.stick[2] < 0 <=> asked.y > 128

\* It is, wherever the stick is held but all the way up.
StickOnItsSide == asked.y # 0 => OnItsSide

\* It is wherever a mapped stick is held, as the comment has it.
StickAlwaysOnItsSide == asked.x # 0 \/ asked.y # 0 => OnItsSide

\* run-wbx.c:356, of SetAxis: "the digests must match the packed-analog path".
\* The stick is where the same word without SetAxis puts it, as long as it is
\* not held all the way up.
PathsAgree == asked.y # 0 => guest.stick = Unpacked(asked.x, asked.y)
=============================================================================
