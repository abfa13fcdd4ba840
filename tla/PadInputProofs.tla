--------------------------- MODULE PadInputProofs ---------------------------
(***************************************************************************)
(* Proofs about PadInput, for any buttons, any bytes the stick takes and   *)
(* any number of states.  A state is loaded together with the input it was *)
(* taken after, so that what is proved of the core's memory is proved of   *)
(* every memory with its input (Follows), the saved ones included.         *)
(***************************************************************************)
EXTENDS PadInput, TLAPS

\* A memory is what the frame with input in leaves: the buttons, which
\* pspdrv_run_frame takes the next changes from, and the stick.
Follows(g, in) ==
  /\ g.held = in.buttons
  /\ g.prev = in.buttons
  /\ g.axisMode => axes
  /\ in.y # 0 => g.stick = Unpacked(in.x, in.y)

PadInv ==
  /\ TypeOK
  /\ Follows(guest, asked)
  /\ \A s \in Slot : slots[s] # Empty => Follows(slots[s].memory, slots[s].after)

-----------------------------------------------------------------------------
(* The arithmetic of the stick.                                            *)

\* A cast to int8_t stays in its range, and changes nothing in it.
LEMMA Int8Range ==
  ASSUME NEW n \in Int
  PROVE  Int8(n) \in SByte /\ (n \in SByte => Int8(n) = n)
BY DEF Int8, SByte

\* What sceCtrl is given for the packed bytes is a pair of signed bytes.
LEMMA UnpackedType ==
  ASSUME NEW x \in 0..255, NEW y \in 0..255
  PROVE  Unpacked(x, y) \in SByte \X SByte
<1>1. Int8(x - 128) \in SByte /\ Int8(128 - y) \in SByte
  BY Int8Range
<1>2. 0 \in SByte
  BY DEF SByte
<1> QED
  BY <1>1, <1>2 DEF Unpacked

\* And it is the bytes' distance from the middle, unless the stick is all the
\* way up, where 128 does not fit.
LEMMA UnpackedValue ==
  ASSUME NEW x \in 0..255, NEW y \in 0..255, y # 0
  PROVE  Unpacked(x, y) = <<x - 128, 128 - y>>
<1>1. x - 128 \in SByte /\ 128 - y \in SByte
  BY DEF SByte
<1>2. Int8(x - 128) = x - 128 /\ Int8(128 - y) = 128 - y
  BY <1>1, Int8Range
<1> QED
  BY <1>2 DEF Unpacked

\* SetAxis leaves such a distance as it is.
LEMMA ClampedValue ==
  ASSUME NEW v \in Int
  PROVE  Clamped(v) \in SByte /\ (v \in SByte => Clamped(v) = v)
<1>1. CASE v < -128
  BY <1>1 DEF Clamped, SByte
<1>2. CASE v > 127
  BY <1>2 DEF Clamped, SByte
<1>3. CASE v \in SByte
  BY <1>3 DEF Clamped, SByte
<1> QED
  BY <1>1, <1>2, <1>3 DEF SByte

-----------------------------------------------------------------------------
(* The steps.                                                              *)

\* An input's fields.
LEMMA InputFields ==
  ASSUME NEW in \in Input
  PROVE  in.buttons \in SUBSET Button /\ in.x \in 0..255 /\ in.y \in 0..255
<1>1. in.buttons \in SUBSET Button /\ in.x \in XByte \cup {128} /\ in.y \in YByte \cup {128}
  BY DEF Input
<1>2. XByte \cup {128} \subseteq 0..255 /\ YByte \cup {128} \subseteq 0..255
  BY PadAssumption
<1> QED
  BY <1>1, <1>2

\* A frame with input in leaves a memory that follows from it.
LEMMA FrameKeeps ==
  ASSUME PadInv, NEW in \in Input, FrameAdvance(in)
  PROVE  PadInv'
<1> USE DEF PadInv
<1>1. guest \in Memory /\ in.buttons \in SUBSET Button /\ in.x \in 0..255 /\ in.y \in 0..255
  BY InputFields DEF TypeOK
<1> DEFINE told == IF axes THEN AxesSet(guest, in.x, in.y) ELSE guest
           at   == IF told.axisMode THEN told.axis ELSE Unpacked(in.x, in.y)
           held == (told.held \ (told.prev \ in.buttons)) \cup (in.buttons \ told.prev)
<1>2. /\ told \in Memory /\ told.held = guest.held /\ told.prev = guest.prev
      /\ told.axisMode = axes
      /\ axes => told.axis = <<Clamped(in.x - 128), Clamped(128 - in.y)>>
  <2>1. CASE axes
    <3> DEFINE axis == <<Clamped(in.x - 128), Clamped(128 - in.y)>>
    <3>1. axis \in SByte \X SByte
      BY <1>1, ClampedValue
    <3>2. told = [guest EXCEPT !.axis = axis, !.axisMode = TRUE]
      BY <2>1 DEF AxesSet
    <3> HIDE DEF axis, told
    <3>3. /\ told \in Memory /\ told.held = guest.held /\ told.prev = guest.prev
          /\ told.axisMode = TRUE /\ told.axis = axis
      BY <1>1, <3>1, <3>2 DEF Memory
    <3> QED
      BY <2>1, <3>3 DEF axis
  <2>2. CASE ~axes
    <3>1. told = guest /\ guest.axisMode = FALSE
      BY <1>1, <2>2 DEF Follows, Memory
    <3> HIDE DEF told
    <3> QED
      BY <1>1, <2>2, <3>1 DEF TypeOK
  <2> QED
    BY <2>1, <2>2
<1>3. at \in SByte \X SByte /\ (in.y # 0 => at = Unpacked(in.x, in.y))
  <2>1. CASE axes
    <3>1. at = <<Clamped(in.x - 128), Clamped(128 - in.y)>>
      BY <1>2, <2>1
    <3>2. at \in SByte \X SByte
      <4>1. in.x - 128 \in Int /\ 128 - in.y \in Int
        BY <1>1
      <4>2. Clamped(in.x - 128) \in SByte /\ Clamped(128 - in.y) \in SByte
        BY <4>1, ClampedValue
      <4> HIDE DEF at
      <4> QED
        BY <3>1, <4>2
    <3>3. ASSUME in.y # 0
          PROVE  at = Unpacked(in.x, in.y)
      <4>1. in.x - 128 \in SByte /\ 128 - in.y \in SByte
        BY <1>1, <3>3 DEF SByte
      <4>2. Clamped(in.x - 128) = in.x - 128 /\ Clamped(128 - in.y) = 128 - in.y
        BY <1>1, <4>1, ClampedValue
      <4>3. Unpacked(in.x, in.y) = <<in.x - 128, 128 - in.y>>
        BY <1>1, <3>3, UnpackedValue
      <4> QED
        BY <3>1, <4>2, <4>3
    <3> QED
      BY <3>2, <3>3
  <2>2. CASE ~axes
    BY <1>1, <1>2, <2>2, UnpackedType
  <2> QED
    BY <2>1, <2>2
<1>4. held = in.buttons
  BY <1>2 DEF Follows
<1>5. guest' = [[told EXCEPT !.held = held, !.prev = in.buttons] EXCEPT !.stick = at]
  BY DEF FrameAdvance, Pressed
<1>6. asked' = in /\ slots' = slots /\ axes' = axes
  BY DEF FrameAdvance
<1> HIDE DEF told, at, held
<1>7. /\ guest' \in Memory /\ guest'.held = held /\ guest'.prev = in.buttons
      /\ guest'.stick = at /\ guest'.axisMode = told.axisMode
  <2> DEFINE pressed == [told EXCEPT !.held = held, !.prev = in.buttons]
  <2>1. /\ pressed \in Memory /\ pressed.held = held /\ pressed.prev = in.buttons
        /\ pressed.axisMode = told.axisMode
    BY <1>1, <1>2, <1>4 DEF Memory
  <2>2. guest' = [pressed EXCEPT !.stick = at]
    BY <1>5
  <2> HIDE DEF pressed
  <2> QED
    BY <1>3, <2>1, <2>2 DEF Memory
<1>8. TypeOK'
  BY <1>6, <1>7 DEF TypeOK
<1>9. Follows(guest', asked')
  BY <1>2, <1>3, <1>4, <1>6, <1>7 DEF Follows
<1> QED
  BY <1>6, <1>8, <1>9 DEF Follows

\* Every memory, saved ones included, follows from the input that comes with it.
THEOREM PadAlways == Spec => []PadInv
<1>1. Init => PadInv
  <2> SUFFICES ASSUME Init PROVE PadInv
    OBVIOUS
  <2>1. TypeOK
    BY DEF Init, TypeOK, Memory, Input, NoInput, SByte
  <2>2. asked.x = 128 /\ asked.y = 128 /\ asked.buttons = {} /\ guest.stick = <<0, 0>>
        /\ guest.held = {} /\ guest.prev = {} /\ guest.axisMode = FALSE
    BY DEF Init, NoInput
  <2>3. Unpacked(128, 128) = <<0, 0>>
    <3>1. Unpacked(128, 128) = <<128 - 128, 128 - 128>>
      <4>1. 128 \in 0..255 /\ 128 # 0
        OBVIOUS
      <4> QED
        BY <4>1, UnpackedValue
    <3>2. 128 - 128 = 0
      OBVIOUS
    <3> QED
      BY <3>1, <3>2
  <2>4. Follows(guest, asked)
    BY <2>2, <2>3 DEF Follows
  <2>5. \A s \in Slot : slots[s] = Empty
    BY DEF Init
  <2> QED
    BY <2>1, <2>4, <2>5 DEF PadInv
<1>2. PadInv /\ [Next]_vars => PadInv'
  <2> SUFFICES ASSUME PadInv, [Next]_vars
               PROVE  PadInv'
    OBVIOUS
  <2>1. ASSUME NEW buttons \in SUBSET Button, NEW x \in XByte, NEW y \in YByte,
               FrameAdvance([buttons |-> buttons, x |-> x, y |-> y])
        PROVE  PadInv'
    <3>1. [buttons |-> buttons, x |-> x, y |-> y] \in Input
      BY DEF Input
    <3> QED
      BY <2>1, <3>1, FrameKeeps
  <2>2. ASSUME NEW s \in Slot, SaveState(s)
        PROVE  PadInv'
    <3> DEFINE state == [memory |-> guest, after |-> asked]
    <3>1. state \in [memory : Memory, after : Input]
      BY DEF PadInv, TypeOK
    <3>2. /\ guest' = guest /\ asked' = asked /\ axes' = axes
          /\ slots' = [slots EXCEPT ![s] = state]
      BY <2>2 DEF SaveState
    <3>3. Follows(state.memory, state.after)
      BY DEF PadInv
    <3> HIDE DEF state
    <3>4. /\ DOMAIN slots' = Slot
          /\ slots'[s] = state
          /\ \A r \in Slot : r # s => slots'[r] = slots[r]
      BY <3>2 DEF PadInv, TypeOK
    <3>5. TypeOK'
      BY <3>1, <3>2, <3>4 DEF PadInv, TypeOK
    <3> QED
      BY <3>2, <3>3, <3>4, <3>5 DEF PadInv, Follows
  <2>3. ASSUME NEW s \in Slot, LoadState(s)
        PROVE  PadInv'
    <3>1. /\ slots[s] # Empty /\ guest' = slots[s].memory /\ asked' = slots[s].after
          /\ slots' = slots /\ axes' = axes
      BY <2>3 DEF LoadState
    <3>2. guest' \in Memory /\ asked' \in Input
      BY <3>1 DEF PadInv, TypeOK
    <3>3. Follows(guest', asked')
      BY <3>1 DEF PadInv
    <3>4. TypeOK'
      BY <3>1, <3>2 DEF PadInv, TypeOK
    <3> QED
      BY <3>1, <3>3, <3>4 DEF PadInv, Follows
  <2>4. CASE UNCHANGED vars
    BY <2>4 DEF vars, PadInv, TypeOK, Follows
  <2> QED
    BY <2>1, <2>2, <2>3, <2>4 DEF Next
<1> QED
  BY <1>1, <1>2, PTL DEF Spec

-----------------------------------------------------------------------------
(* The properties of PadInput.                                             *)

\* The controller's state keeps its types, the signed bytes included.
THEOREM PadTyped == Spec => []TypeOK
BY PadAlways, PTL DEF PadInv

\* No button sticks and none is missed, whatever is loaded between two frames.
THEOREM ButtonsAreAsked == Spec => []HeldIsAsked
<1>1. PadInv => HeldIsAsked
  BY DEF PadInv, Follows, HeldIsAsked
<1> QED
  BY <1>1, PadAlways, PTL

\* SetAxis and the packed word put the stick in the same place, unless it is
\* all the way up.
THEOREM BothPathsAgree == Spec => []PathsAgree
<1>1. PadInv => PathsAgree
  BY DEF PadInv, Follows, PathsAgree
<1> QED
  BY <1>1, PadAlways, PTL

\* And there it is on the side it is held to.
THEOREM StickSide == Spec => []StickOnItsSide
<1>1. PadInv => StickOnItsSide
  <2> SUFFICES ASSUME PadInv, asked.y # 0
               PROVE  OnItsSide
    BY DEF StickOnItsSide
  <2>1. asked.x \in 0..255 /\ asked.y \in 0..255
    BY InputFields DEF PadInv, TypeOK
  <2>2. guest.stick = <<asked.x - 128, 128 - asked.y>>
    BY <2>1, UnpackedValue DEF PadInv, Follows
  <2> QED
    BY <2>1, <2>2 DEF OnItsSide
<1> QED
  BY <1>1, PadAlways, PTL
=============================================================================
