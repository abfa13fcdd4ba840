--------------------------- MODULE FrameLoopProofs ---------------------------
(***************************************************************************)
(* Theorems about module FrameLoop, for any pictures, slots, guard and     *)
(* room for sound: frames of the GPU nest, a frame ends at its vblank and  *)
(* has its own sound, turbo is invisible, and its pictures resume.         *)
(***************************************************************************)
EXTENDS FrameLoop, TLAPS

-----------------------------------------------------------------------------
(* What the parts of a frame do to a memory, field by field.               *)

\* What is the same in a core in turbo and in one that draws.
SameMachine(g, h) ==
  /\ g.state = h.state /\ g.vblank = h.vblank /\ g.turns = h.turns
  /\ g.host = h.host /\ g.misused = h.misused /\ g.display = h.display
  /\ g.accum = h.accum /\ g.audio = h.audio

LEMMA ApartOfTheSame ==
  ASSUME NEW g \in Memory, NEW h \in Memory, SameMachine(g, h)
  PROVE  Apart(g) = Apart(h)
BY DEF SameMachine, Apart, Memory

LEMMA BegunFields ==
  ASSUME NEW g \in Memory, g.host = FALSE, g.misused = FALSE
  PROVE  /\ Begun(g) \in Memory
         /\ Begun(g).render = g.render
         /\ Begun(g).state = "running" /\ Begun(g).vblank = FALSE /\ Begun(g).turns = 0
         /\ Begun(g).host = TRUE /\ Begun(g).misused = FALSE
         /\ Begun(g).display = g.display
         /\ Begun(g).videoBuf = g.videoBuf /\ Begun(g).video = g.video
         /\ Begun(g).accum = g.accum /\ Begun(g).audio = g.audio
<1> DEFINE b == BeginHostFrame(g)
<1>1. g.misused = FALSE /\ g.host = FALSE
  BY DEF Memory
<1>2. b = [g EXCEPT !.host = TRUE, !.misused = FALSE]
  BY <1>1 DEF BeginHostFrame
<1>3. /\ b \in Memory /\ b.host = TRUE /\ b.misused = FALSE /\ b.render = g.render
      /\ b.display = g.display /\ b.videoBuf = g.videoBuf /\ b.video = g.video
      /\ b.accum = g.accum /\ b.audio = g.audio
  BY <1>2 DEF Memory
<1>4. Begun(g) = [b EXCEPT !.vblank = FALSE, !.turns = 0, !.state = "running"]
  BY DEF Begun
<1> HIDE DEF b
<1>5. 0 \in 0..Guard - 1 /\ "running" \in CoreState
  BY FrameAssumption DEF CoreState
<1>6. /\ Begun(g) \in Memory
      /\ Begun(g).render = b.render
      /\ Begun(g).state = "running" /\ Begun(g).vblank = FALSE /\ Begun(g).turns = 0
      /\ Begun(g).host = b.host /\ Begun(g).misused = b.misused
      /\ Begun(g).display = b.display
      /\ Begun(g).videoBuf = b.videoBuf /\ Begun(g).video = b.video
      /\ Begun(g).accum = b.accum /\ Begun(g).audio = b.audio
  BY <1>3, <1>4, <1>5 DEF Memory
<1> QED
  BY <1>3, <1>6

LEMMA TurnedFields ==
  ASSUME NEW g \in Memory, g.host = TRUE, g.misused = FALSE
  PROVE  /\ Turned(g) \in Memory
         /\ Turned(g).render = g.render /\ Turned(g).state = g.state
         /\ Turned(g).vblank = g.vblank /\ Turned(g).turns = g.turns
         /\ Turned(g).host = TRUE /\ Turned(g).misused = FALSE
         /\ Turned(g).display = g.display
         /\ Turned(g).videoBuf = g.videoBuf /\ Turned(g).video = g.video
         /\ Turned(g).accum = g.accum /\ Turned(g).audio = g.audio
BY DEF Turned, BeginHostFrame, EndHostFrame, TurnDrawFrame, Memory

LEMMA AgainFields ==
  ASSUME NEW g \in Memory, g.host = TRUE, g.misused = FALSE, Again(g)
  PROVE  LET h == [Turned(g) EXCEPT !.turns = @ + 1, !.state = "running"]
         IN  /\ h \in Memory
             /\ h.render = g.render /\ h.state = "running"
             /\ h.vblank = g.vblank /\ h.turns = g.turns + 1
             /\ h.host = TRUE /\ h.misused = FALSE /\ h.display = g.display
             /\ h.videoBuf = g.videoBuf /\ h.video = g.video
             /\ h.accum = g.accum /\ h.audio = g.audio
<1> DEFINE t == Turned(g)
<1>1. t \in Memory /\ t.turns = g.turns /\ t.render = g.render /\ t.vblank = g.vblank
      /\ t.host = TRUE /\ t.misused = FALSE /\ t.display = g.display /\ t.videoBuf = g.videoBuf
      /\ t.video = g.video /\ t.accum = g.accum /\ t.audio = g.audio
  BY TurnedFields
<1>2. g.turns + 1 \in 0..Guard - 1 /\ "running" \in CoreState
  BY FrameAssumption DEF Again, Memory, CoreState
<1> HIDE DEF t
<1>3. LET h == [t EXCEPT !.turns = t.turns + 1, !.state = "running"]
      IN  /\ h \in Memory
          /\ h.render = g.render /\ h.state = "running"
          /\ h.vblank = g.vblank /\ h.turns = g.turns + 1
          /\ h.host = TRUE /\ h.misused = FALSE /\ h.display = g.display
          /\ h.videoBuf = g.videoBuf /\ h.video = g.video
          /\ h.accum = g.accum /\ h.audio = g.audio
  BY <1>1, <1>2 DEF Memory
<1> QED
  BY <1>3 DEF t

\* The picture a frame leaves in g_videoBuf.
ReadBack(g) == IF g.render /\ g.display # Off THEN g.display ELSE g.videoBuf

LEMMA FinishedFields ==
  ASSUME NEW g \in Memory, g.host = TRUE, g.misused = FALSE, NEW wants
  PROVE  /\ Finished(g, wants) \in Memory
         /\ Finished(g, wants).render = g.render
         /\ Finished(g, wants).state =
              IF g.state \in {"nextframe", "powerdown"} THEN "running" ELSE g.state
         /\ Finished(g, wants).vblank = g.vblank
         /\ Finished(g, wants).turns = 0
         /\ Finished(g, wants).host = FALSE /\ Finished(g, wants).misused = FALSE
         /\ Finished(g, wants).display = g.display
         /\ Finished(g, wants).accum = 0
         /\ Finished(g, wants).audio = Smaller(g.accum, AudioRoom)
         /\ wants => Finished(g, wants).video = ReadBack(g)
<1> DEFINE st    == IF g.state \in {"nextframe", "powerdown"} THEN "running" ELSE g.state
           ended == EndHostFrame([g EXCEPT !.turns = 0, !.state = st])
           pic   == ReadBack(g)
           read  == TurnDrawFrame(IF g.render THEN ReadbackVideo(ended) ELSE ended)
           aud   == Smaller(g.accum, AudioRoom)
           heard == Swapped(read)
<1>1. st \in CoreState /\ pic \in Pic /\ aud \in Nat /\ 0 \in 0..Guard - 1
  BY FrameAssumption DEF Memory, CoreState, ReadBack, Smaller
<1>2. [g EXCEPT !.turns = 0, !.state = st] \in Memory
  BY <1>1 DEF Memory
<1>3. ended = [g EXCEPT !.turns = 0, !.state = st, !.host = FALSE]
  BY DEF EndHostFrame, Memory
<1>4. read = [g EXCEPT !.turns = 0, !.state = st, !.host = FALSE, !.videoBuf = pic]
  BY <1>3 DEF TurnDrawFrame, ReadbackVideo, ReadBack, Memory
<1>5. heard = [g EXCEPT !.turns = 0, !.state = st, !.host = FALSE, !.videoBuf = pic,
                        !.audio = aud, !.accum = 0]
  BY <1>4 DEF Swapped, Memory
<1>6. Finished(g, wants) = IF wants THEN [heard EXCEPT !.video = heard.videoBuf] ELSE heard
  BY DEF Finished
<1> HIDE DEF st, pic, aud, heard
<1>7. /\ heard \in Memory /\ heard.render = g.render /\ heard.state = st
      /\ heard.vblank = g.vblank /\ heard.turns = 0
      /\ heard.host = FALSE /\ heard.misused = FALSE /\ heard.display = g.display
      /\ heard.accum = 0 /\ heard.audio = aud
      /\ heard.videoBuf = pic /\ heard.video = g.video
  BY <1>1, <1>5 DEF Memory
<1>8. /\ Finished(g, wants) \in Memory /\ Finished(g, wants).render = heard.render
      /\ Finished(g, wants).state = heard.state
      /\ Finished(g, wants).vblank = heard.vblank /\ Finished(g, wants).turns = heard.turns
      /\ Finished(g, wants).host = FALSE /\ Finished(g, wants).misused = FALSE
      /\ Finished(g, wants).display = heard.display
      /\ Finished(g, wants).accum = heard.accum /\ Finished(g, wants).audio = heard.audio
      /\ wants => Finished(g, wants).video = heard.videoBuf
  BY <1>6, <1>7 DEF Memory
<1> QED
  BY <1>7, <1>8 DEF st, pic, aud

-----------------------------------------------------------------------------
(* The invariant.                                                          *)

\* Two cores that are one machine but for their pictures, the second drawing,
\* with the GPU's host frame open or not and so much sound in hand.
Paired(p, open, sound) ==
  /\ p \in [Core -> Memory]
  /\ SameMachine(p["core"], p["drawn"])
  /\ p["drawn"].render = TRUE
  /\ \A c \in Core : p[c].misused = FALSE /\ p[c].host = open /\ p[c].accum = sound

Scalars ==
  /\ pc \in {"idle", "machine"}
  /\ wanted \in BOOLEAN
  /\ made \in 0..MaxSound
  /\ seen \in BOOLEAN
  /\ told \in BOOLEAN

\* Between frames no sound is in hand, in a frame what the game made in it.
CoresPaired ==
  /\ pc = "idle" => Paired(cores, FALSE, 0)
  /\ pc = "machine" => Paired(cores, TRUE, made)

StatesPaired ==
  /\ DOMAIN slots = Slot
  /\ \A s \in Slot : slots[s] # Empty => Paired(slots[s], FALSE, 0)

\* The two flags agree from the frontend's word to the next load.
FlagsAgree == told => cores["core"].render = wanted

FrameInv ==
  /\ Scalars
  /\ CoresPaired
  /\ StatesPaired
  /\ FlagsAgree
  /\ SoundOfTheFrame
  /\ SamePicture

LEMMA InitPaired == Init => FrameInv
<1> SUFFICES ASSUME Init PROVE FrameInv
  OBVIOUS
<1>1. Booted \in Memory
  BY FrameAssumption DEF Booted, Memory, CoreState
<1>2. Paired(cores, FALSE, 0)
  BY <1>1 DEF Init, Paired, SameMachine, Core, Booted
<1>3. Scalars
  <2>1. 0 \in 0..MaxSound
    BY FrameAssumption
  <2> QED
    BY <2>1 DEF Init, Scalars
<1>5. StatesPaired
  BY DEF Init, StatesPaired
<1>4. FlagsAgree /\ SoundOfTheFrame /\ SamePicture
  BY DEF Init, FlagsAgree, SoundOfTheFrame, SamePicture, PictureWanted, Core, Booted
<1> QED
  BY <1>2, <1>3, <1>4, <1>5 DEF Init, FrameInv, CoresPaired

\* What the frontend does between frames.
LEMMA FrontendStep == FrameInv /\ Frontend => FrameInv'
<1> SUFFICES ASSUME FrameInv, Frontend PROVE FrameInv'
  OBVIOUS
<1>1. pc = "idle" /\ Paired(cores, FALSE, 0)
  BY DEF FrameInv, CoresPaired, Frontend, FrameAdvance, SetRenderingEnabled, SaveState, LoadState
<1>2. Scalars'
  <2>1. pc' \in {"idle", "machine"}
    BY <1>1 DEF Frontend, FrameAdvance, SetRenderingEnabled, SaveState, LoadState
  <2>2. wanted' \in BOOLEAN /\ seen' \in BOOLEAN /\ told' \in BOOLEAN
    BY DEF FrameInv, Scalars, Frontend, FrameAdvance, SetRenderingEnabled, SaveState, LoadState
  <2>3. made' = made \/ made' = 0
    BY DEF Frontend, FrameAdvance, SetRenderingEnabled, SaveState, LoadState
  <2> QED
    BY <2>1, <2>2, <2>3, FrameAssumption DEF FrameInv, Scalars
<1>3. CASE FrameAdvance
  <2>1. \A c \in Core : cores'[c] = Begun(cores[c])
    BY <1>3 DEF FrameAdvance
  <2>2. cores' \in [Core -> Memory]
    BY <1>1, <1>3, BegunFields DEF FrameAdvance, Paired
  <2>3. \A c \in Core : /\ cores'[c].misused = FALSE /\ cores'[c].host = TRUE
                        /\ cores'[c].accum = 0 /\ cores'[c].render = cores[c].render
    <3> TAKE c \in Core
    <3>1. /\ cores[c] \in Memory /\ cores[c].misused \in BOOLEAN
          /\ cores[c].misused = FALSE /\ cores[c].host = FALSE /\ cores[c].accum = 0
      BY <1>1 DEF Paired, Memory
    <3> QED
      BY <2>1, <3>1, BegunFields
  <2>4. SameMachine(cores'["core"], cores'["drawn"])
    <3>1. /\ cores["core"] \in Memory /\ cores["drawn"] \in Memory
           /\ cores["core"].host = FALSE /\ cores["drawn"].host = FALSE
           /\ cores["core"].misused = FALSE /\ cores["drawn"].misused = FALSE
      BY <1>1 DEF Paired, Core
    <3>2. SameMachine(cores["core"], cores["drawn"])
      BY <1>1 DEF Paired
    <3>3. cores'["core"] = Begun(cores["core"]) /\ cores'["drawn"] = Begun(cores["drawn"])
      BY <2>1 DEF Core
    <3>4. SameMachine(Begun(cores["core"]), Begun(cores["drawn"]))
      BY <3>1, <3>2, BegunFields DEF SameMachine
    <3> QED
      BY <3>3, <3>4
  <2>5. Paired(cores', TRUE, 0)
    BY <1>1, <2>2, <2>3, <2>4 DEF Paired, Core
  <2>6. /\ pc' = "machine" /\ made' = 0
        /\ UNCHANGED <<wanted, slots, told>>
    BY <1>3 DEF FrameAdvance
  <2>7. CoresPaired'
    BY <2>5, <2>6 DEF CoresPaired
  <2>8. FlagsAgree'
    BY <2>3, <2>6 DEF FrameInv, FlagsAgree, Core
  <2> QED
    BY <1>2, <2>6, <2>7, <2>8
      DEF FrameInv, StatesPaired, SoundOfTheFrame, SamePicture, PictureWanted
<1>4. CASE \E on \in BOOLEAN : SetRenderingEnabled(on)
  <2>1. PICK on \in BOOLEAN : SetRenderingEnabled(on)
    BY <1>4
  <2>2. /\ cores'["drawn"] = cores["drawn"]
        /\ cores'["core"] = [cores["core"] EXCEPT !.render = on]
        /\ DOMAIN cores' = Core
    BY <1>1, <2>1 DEF SetRenderingEnabled, Rendering, Paired, Core
  <2>3. /\ cores["core"] \in Memory /\ cores["drawn"] \in Memory
        /\ SameMachine(cores["core"], cores["drawn"])
    BY <1>1 DEF Paired, Core
  <2>4. /\ cores'["core"] \in Memory /\ cores'["core"].render = on
        /\ SameMachine(cores'["core"], cores'["drawn"])
        /\ cores'["core"].misused = FALSE /\ cores'["core"].host = FALSE
        /\ cores'["core"].accum = 0
    BY <1>1, <2>2, <2>3 DEF Memory, SameMachine, Paired, Core
  <2>5. cores' \in [Core -> Memory]
    BY <2>1, <1>1, <2>2, <2>3, <2>4 DEF SetRenderingEnabled, Paired, Core
  <2>6. Paired(cores', FALSE, 0)
    BY <1>1, <2>2, <2>4, <2>5 DEF Paired, Core
  <2> QED
    BY <1>1, <1>2, <2>1, <2>4, <2>6
      DEF SetRenderingEnabled, FrameInv, CoresPaired, StatesPaired, FlagsAgree,
          SoundOfTheFrame, SamePicture, PictureWanted
<1>5. CASE \E s \in Slot : SaveState(s)
  <2>1. PICK s \in Slot : SaveState(s)
    BY <1>5
  <2>2. slots' = [slots EXCEPT ![s] = cores] /\ UNCHANGED <<cores, pc, wanted, made, seen, told>>
    BY <2>1 DEF SaveState
  <2>3. StatesPaired'
    BY <1>1, <2>2 DEF FrameInv, StatesPaired
  <2>4. (CoresPaired /\ FlagsAgree /\ SoundOfTheFrame /\ SamePicture)'
    BY <2>2 DEF FrameInv, CoresPaired, FlagsAgree, SoundOfTheFrame, SamePicture,
                PictureWanted, ShowsTheSame
  <2> QED
    BY <1>2, <2>3, <2>4 DEF FrameInv
<1>6. CASE \E s \in Slot : LoadState(s)
  BY <1>1, <1>2, <1>6
    DEF LoadState, FrameInv, CoresPaired, StatesPaired, FlagsAgree,
        SoundOfTheFrame, SamePicture, PictureWanted
<1> QED
  BY <1>3, <1>4, <1>5, <1>6 DEF Frontend

\* A step in a slice does to both cores the same, which leaves their pictures
\* and what they draw alone.
LEMMA SliceStep ==
  ASSUME FrameInv, InSlice, made' \in 0..MaxSound,
         cores' \in [Core -> Memory],
         SameMachine(cores'["core"], cores'["drawn"]),
         \A c \in Core : /\ cores'[c].misused = cores[c].misused
                         /\ cores'[c].host = cores[c].host
                         /\ cores'[c].render = cores[c].render
                         /\ cores'[c].accum = made'
  PROVE  FrameInv'
<1>1. Paired(cores, TRUE, made) /\ pc = "machine"
  BY DEF FrameInv, CoresPaired, InSlice
<1>2. Paired(cores', TRUE, made')
  BY <1>1 DEF Paired, Core
<1>3. pc' = "machine" /\ UNCHANGED <<wanted, slots, seen, told>>
  BY <1>1 DEF InSlice
<1> QED
  BY <1>2, <1>3
    DEF FrameInv, Scalars, CoresPaired, StatesPaired, FlagsAgree, SoundOfTheFrame,
        SamePicture, PictureWanted, Core

\* What happens in a slice.
LEMMA SlicesKeepIt ==
  ASSUME FrameInv,
         \/ \E p \in Presented : Flip(p)
         \/ VblankStart
         \/ AudioPush
         \/ AudioClear
         \/ \E how \in Stop : GameStops(how)
  PROVE  FrameInv'
<1>1. Paired(cores, TRUE, made) /\ InSlice
  BY DEF FrameInv, CoresPaired, InSlice, Flip, VblankStart, AudioPush, AudioClear, GameStops
<1>2. /\ \A c \in Core : cores[c] \in Memory /\ cores[c].accum = made
      /\ SameMachine(cores["core"], cores["drawn"])
      /\ "core" \in Core /\ "drawn" \in Core /\ made \in 0..MaxSound
  BY <1>1 DEF Paired, Core, FrameInv, Scalars
<1>3. CASE \E p \in Presented : Flip(p)
  <2>1. PICK p \in Presented : Flip(p)
    BY <1>3
  <2>2. p \in Pic \cup {Off} /\ "nextframe" \in CoreState
    BY FrameAssumption DEF CoreState
  <2>3. /\ cores' = [c \in Core |-> [cores[c] EXCEPT !.display = p, !.state = "nextframe"]]
        /\ made' = made
    BY <2>1 DEF Flip
  <2>4. \A c \in Core : /\ cores'[c] \in Memory
                        /\ cores'[c].misused = cores[c].misused
                        /\ cores'[c].host = cores[c].host
                        /\ cores'[c].render = cores[c].render
                        /\ cores'[c].accum = cores[c].accum
    BY <1>2, <2>2, <2>3 DEF Memory
  <2>5. SameMachine(cores'["core"], cores'["drawn"])
    BY <1>2, <2>3 DEF SameMachine, Memory
  <2>6. cores' \in [Core -> Memory]
    BY <2>3, <2>4
  <2> QED
    BY <1>1, <1>2, <2>3, <2>4, <2>5, <2>6, SliceStep
<1>4. CASE VblankStart
  <2>1. cores' = [c \in Core |-> Vblanked(cores[c])] /\ made' = made
    BY <1>4 DEF VblankStart
  <2>2. \A c \in Core : /\ cores'[c] \in Memory
                        /\ cores'[c].misused = cores[c].misused
                        /\ cores'[c].host = cores[c].host
                        /\ cores'[c].render = cores[c].render
                        /\ cores'[c].accum = cores[c].accum
    BY <1>2, <2>1, ZenonT(60) DEF Memory, Vblanked, CoreState
  <2>3. SameMachine(cores'["core"], cores'["drawn"])
    BY <1>2, <2>1 DEF SameMachine, Memory, Vblanked
  <2>4. cores' \in [Core -> Memory]
    BY <2>1, <2>2
  <2> QED
    BY <1>1, <1>2, <2>1, <2>2, <2>3, <2>4, SliceStep
<1>5. CASE AudioPush \/ AudioClear
  <2>1. PICK n \in 0..MaxSound :
          /\ cores' = [c \in Core |-> [cores[c] EXCEPT !.accum = n]]
          /\ made' = n
    <3>1. CASE AudioPush
      <4>1. made + 1 \in 0..MaxSound
        BY <1>2, <3>1, FrameAssumption DEF AudioPush
      <4>2. cores' = [c \in Core |-> [cores[c] EXCEPT !.accum = made + 1]] /\ made' = made + 1
        BY <1>2, <3>1 DEF AudioPush
      <4> QED
        BY <4>1, <4>2
    <3>2. CASE AudioClear
      <4>1. 0 \in 0..MaxSound
        BY FrameAssumption
      <4> QED
        BY <3>2, <4>1 DEF AudioClear
    <3> QED
      BY <1>5, <3>1, <3>2
  <2>2. \A c \in Core : /\ cores'[c] \in Memory
                        /\ cores'[c].misused = cores[c].misused
                        /\ cores'[c].host = cores[c].host
                        /\ cores'[c].render = cores[c].render
                        /\ cores'[c].accum = made'
    BY <1>2, <2>1, FrameAssumption DEF Memory
  <2>3. SameMachine(cores'["core"], cores'["drawn"])
    BY <1>2, <2>1 DEF SameMachine, Memory
  <2>4. cores' \in [Core -> Memory]
    BY <2>1, <2>2
  <2> QED
    BY <1>1, <2>1, <2>2, <2>3, <2>4, SliceStep
<1>6. CASE \E how \in Stop : GameStops(how)
  <2>1. PICK how \in Stop : GameStops(how)
    BY <1>6
  <2>2. how \in CoreState
    BY FrameAssumption DEF CoreState
  <2>3. cores' = [c \in Core |-> [cores[c] EXCEPT !.state = how]] /\ made' = made
    BY <2>1 DEF GameStops
  <2>4. \A c \in Core : /\ cores'[c] \in Memory
                        /\ cores'[c].misused = cores[c].misused
                        /\ cores'[c].host = cores[c].host
                        /\ cores'[c].render = cores[c].render
                        /\ cores'[c].accum = cores[c].accum
    BY <1>2, <2>2, <2>3 DEF Memory
  <2>5. SameMachine(cores'["core"], cores'["drawn"])
    BY <1>2, <2>3 DEF SameMachine, Memory
  <2>6. cores' \in [Core -> Memory]
    BY <2>3, <2>4
  <2> QED
    BY <1>1, <1>2, <2>3, <2>4, <2>5, <2>6, SliceStep
<1> QED
  BY <1>3, <1>4, <1>5, <1>6

\* The run loop returns: both cores go on together, or finish together with
\* the sound of the frame and, if it is wanted, the picture on display.
LEMMA ReturnsKeepIt ==
  ASSUME FrameInv, RunLoopReturns
  PROVE  FrameInv'
<1>1. /\ Paired(cores, TRUE, made) /\ pc = "machine"
      /\ cores' = [c \in Core |-> Returned(cores[c], Wants(c))]
      /\ pc' = IF Again(cores["core"]) THEN "machine" ELSE "idle"
      /\ UNCHANGED <<wanted, slots, made, seen, told>>
  BY DEF FrameInv, CoresPaired, RunLoopReturns
<1>2. /\ "core" \in Core /\ "drawn" \in Core
      /\ \A c \in Core : /\ cores[c] \in Memory /\ cores[c].host = TRUE
                         /\ cores[c].misused = FALSE /\ cores[c].accum = made
      /\ SameMachine(cores["core"], cores["drawn"])
      /\ cores["drawn"].render = TRUE
  BY <1>1 DEF Paired, Core
<1>4. \A c \in Core : Again(cores[c]) <=> Again(cores["core"])
  BY <1>2 DEF Core, SameMachine, Again
<1>5. (Scalars /\ StatesPaired)'
  BY <1>1 DEF FrameInv, Scalars, StatesPaired
<1>6. CASE Again(cores["core"])
  <2>1. \A c \in Core :
          cores'[c] = [Turned(cores[c]) EXCEPT !.turns = @ + 1, !.state = "running"]
    BY <1>1, <1>4, <1>6 DEF Returned
  <2>2. \A c \in Core :
          /\ cores'[c] \in Memory
          /\ cores'[c].render = cores[c].render /\ cores'[c].state = "running"
          /\ cores'[c].vblank = cores[c].vblank /\ cores'[c].turns = cores[c].turns + 1
          /\ cores'[c].host = TRUE /\ cores'[c].misused = FALSE
          /\ cores'[c].display = cores[c].display
          /\ cores'[c].accum = made /\ cores'[c].audio = cores[c].audio
    <3> TAKE c \in Core
    <3> DEFINE g == cores[c]
    <3>1. g \in Memory /\ g.host = TRUE /\ g.misused = FALSE /\ Again(g) /\ g.accum = made
      BY <1>2, <1>4, <1>6
    <3>2. cores'[c] = [Turned(g) EXCEPT !.turns = @ + 1, !.state = "running"]
      BY <2>1
    <3> HIDE DEF g
    <3>3. LET h == [Turned(g) EXCEPT !.turns = @ + 1, !.state = "running"]
          IN  /\ h \in Memory
              /\ h.render = g.render /\ h.state = "running"
              /\ h.vblank = g.vblank /\ h.turns = g.turns + 1
              /\ h.host = TRUE /\ h.misused = FALSE /\ h.display = g.display
              /\ h.accum = g.accum /\ h.audio = g.audio
      BY <3>1, AgainFields
    <3> QED
      BY <3>1, <3>2, <3>3 DEF g
  <2>3. SameMachine(cores'["core"], cores'["drawn"])
    BY <1>2, <2>2 DEF SameMachine
  <2>4. cores' \in [Core -> Memory]
    BY <1>1, <2>2
  <2>5. Paired(cores', TRUE, made')
    BY <1>1, <1>2, <2>2, <2>3, <2>4 DEF Paired
  <2> QED
    BY <1>1, <1>2, <1>5, <1>6, <2>2, <2>5
      DEF FrameInv, CoresPaired, FlagsAgree, SoundOfTheFrame, SamePicture, PictureWanted
<1>7. CASE ~Again(cores["core"])
  <2>1. \A c \in Core : cores'[c] = Finished(Turned(cores[c]), Wants(c))
    BY <1>1, <1>4, <1>7 DEF Returned
  <2>2. \A c \in Core :
          LET t == Turned(cores[c])
          IN  /\ t \in Memory /\ t.host = TRUE /\ t.misused = FALSE
              /\ t.render = cores[c].render /\ t.state = cores[c].state
              /\ t.vblank = cores[c].vblank /\ t.turns = cores[c].turns
              /\ t.display = cores[c].display /\ t.accum = made
    BY <1>2, TurnedFields
  <2>3. \A c \in Core :
          /\ cores'[c] \in Memory
          /\ cores'[c].render = cores[c].render
          /\ cores'[c].state =
               IF cores[c].state \in {"nextframe", "powerdown"} THEN "running" ELSE cores[c].state
          /\ cores'[c].vblank = cores[c].vblank /\ cores'[c].turns = 0
          /\ cores'[c].host = FALSE /\ cores'[c].misused = FALSE
          /\ cores'[c].display = cores[c].display
          /\ cores'[c].accum = 0 /\ cores'[c].audio = Smaller(made, AudioRoom)
          /\ Wants(c) => cores'[c].video = ReadBack(Turned(cores[c]))
    <3> TAKE c \in Core
    <3> DEFINE t == Turned(cores[c])
               w == Wants(c)
    <3>1. /\ t \in Memory /\ t.host = TRUE /\ t.misused = FALSE
          /\ t.render = cores[c].render /\ t.state = cores[c].state
          /\ t.vblank = cores[c].vblank /\ t.turns = cores[c].turns
          /\ t.display = cores[c].display /\ t.accum = made
      BY <2>2
    <3>2. cores'[c] = Finished(t, w)
      BY <2>1
    <3> HIDE DEF t, w
    <3>3. /\ Finished(t, w) \in Memory
          /\ Finished(t, w).render = t.render
          /\ Finished(t, w).state =
               IF t.state \in {"nextframe", "powerdown"} THEN "running" ELSE t.state
          /\ Finished(t, w).vblank = t.vblank
          /\ Finished(t, w).turns = 0
          /\ Finished(t, w).host = FALSE /\ Finished(t, w).misused = FALSE
          /\ Finished(t, w).display = t.display
          /\ Finished(t, w).accum = 0
          /\ Finished(t, w).audio = Smaller(t.accum, AudioRoom)
          /\ w => Finished(t, w).video = ReadBack(t)
      BY <3>1, FinishedFields
    <3>4. /\ cores'[c] \in Memory
          /\ cores'[c].render = cores[c].render
          /\ cores'[c].state =
               IF cores[c].state \in {"nextframe", "powerdown"} THEN "running" ELSE cores[c].state
          /\ cores'[c].vblank = cores[c].vblank /\ cores'[c].turns = 0
          /\ cores'[c].host = FALSE /\ cores'[c].misused = FALSE
          /\ cores'[c].display = cores[c].display
          /\ cores'[c].accum = 0 /\ cores'[c].audio = Smaller(made, AudioRoom)
          /\ w => cores'[c].video = ReadBack(t)
      BY <3>1, <3>2, <3>3
    <3> QED
      BY <3>4 DEF t, w
  <2>4. SameMachine(cores'["core"], cores'["drawn"])
    <3>1. cores["core"].state = cores["drawn"].state
      BY <1>2 DEF SameMachine
    <3>2. cores'["core"].state = cores'["drawn"].state
      BY <1>2, <2>3, <3>1
    <3>3. /\ cores["core"].vblank = cores["drawn"].vblank
          /\ cores["core"].display = cores["drawn"].display
      BY <1>2 DEF SameMachine
    <3>4. \A c \in Core :
            /\ cores'[c].vblank = cores[c].vblank /\ cores'[c].turns = 0
            /\ cores'[c].display = cores[c].display
            /\ cores'[c].host = FALSE /\ cores'[c].misused = FALSE
            /\ cores'[c].accum = 0 /\ cores'[c].audio = Smaller(made, AudioRoom)
      BY <2>3
    <3> QED
      BY <3>2, <3>3, <3>4, Zenon DEF SameMachine, Core
  <2>5. cores' \in [Core -> Memory]
    BY <1>1, <2>3
  <2>6. Paired(cores', FALSE, 0)
    BY <1>1, <1>2, <2>3, <2>4, <2>5 DEF Paired
  <2>7. (CoresPaired /\ FlagsAgree /\ SoundOfTheFrame)'
    BY <1>1, <1>2, <1>7, <2>3, <2>6 DEF FrameInv, CoresPaired, FlagsAgree, SoundOfTheFrame
  <2>8. ASSUME wanted, told, cores'["core"].display # Off
        PROVE  cores'["core"].video = cores'["drawn"].video
    <3>1. cores["core"].render = TRUE
      BY <2>8 DEF FrameInv, FlagsAgree, Scalars
    <3>2. Wants("core") /\ Wants("drawn")
      BY <2>8 DEF Wants
    <3>3. cores["core"].display = cores["drawn"].display /\ cores["core"].display # Off
      BY <1>2, <2>3, <2>8 DEF SameMachine
    <3> QED
      BY <1>2, <2>2, <2>3, <3>1, <3>2, <3>3 DEF ReadBack
  <2>9. SamePicture'
    BY <1>1, <2>8 DEF SamePicture, PictureWanted, ShowsTheSame
  <2> QED
    BY <1>5, <2>7, <2>9 DEF FrameInv
<1> QED
  BY <1>6, <1>7

LEMMA StepPaired == FrameInv /\ [Next]_vars => FrameInv'
<1> SUFFICES ASSUME FrameInv, [Next]_vars PROVE FrameInv'
  OBVIOUS
<1>1. CASE Frontend
  BY <1>1, FrontendStep
<1>2. CASE Machine
  BY <1>2, SlicesKeepIt, ReturnsKeepIt DEF Machine
<1>3. CASE UNCHANGED vars
  BY <1>3
    DEF vars, FrameInv, Scalars, CoresPaired, StatesPaired, FlagsAgree,
        SoundOfTheFrame, SamePicture, PictureWanted, ShowsTheSame
<1> QED
  BY <1>1, <1>2, <1>3 DEF Next

THEOREM FramesPaired == Spec => []FrameInv
<1> QED
  BY InitPaired, StepPaired, PTL DEF Spec

\* What the loop notes of the vblanks and flips is what there was: the flag is up
\* once there has been a vblank, and every turn but the one that is on ended in a
\* flip of its own.
Counted ==
  /\ vblanks \in 0..MaxVblanks
  /\ flips \in 0..MaxFlips
  /\ pc = "idle" => vblanks = 0 /\ flips = 0
  /\ pc = "machine" =>
       /\ cores["core"].vblank <=> vblanks > 0
       /\ flips >= cores["core"].turns
       /\ cores["core"].state = "nextframe" /\ ~cores["core"].vblank =>
            flips > cores["core"].turns

LEMMA InitCounted == Init => Counted
<1>1. 0 \in 0..MaxVblanks /\ 0 \in 0..MaxFlips
  BY FrameAssumption
<1> QED
  BY <1>1 DEF Init, Counted

LEMMA StepCounted == FrameInv /\ Counted /\ [Next]_vars => Counted'
<1> SUFFICES ASSUME FrameInv, Counted, [Next]_vars PROVE Counted'
  OBVIOUS
<1> DEFINE g == cores["core"]
           h == cores'["core"]
<1>1. /\ pc \in {"idle", "machine"} /\ "core" \in Core /\ g \in Memory
      /\ pc = "idle" => g.host = FALSE /\ g.misused = FALSE
      /\ pc = "machine" => g.host = TRUE /\ g.misused = FALSE
  BY DEF FrameInv, Scalars, CoresPaired, Paired, Core
<1>2. /\ vblanks \in Nat /\ vblanks <= MaxVblanks /\ flips \in Nat /\ flips <= MaxFlips
      /\ MaxVblanks \in Nat /\ MaxFlips \in Nat /\ Guard \in Nat /\ g.turns \in Nat
  BY <1>1, FrameAssumption DEF Counted, Memory
<1>3. CASE FrameAdvance
  <2>1. /\ h = Begun(g) /\ pc = "idle" /\ pc' = "machine" /\ UNCHANGED <<flips, vblanks>>
    BY <1>1, <1>3 DEF FrameAdvance
  <2>2. h.vblank = FALSE /\ h.turns = 0 /\ h.state = "running"
    BY <1>1, <2>1, BegunFields
  <2>3. vblanks = 0 /\ flips = 0
    BY <2>1 DEF Counted
  <2> QED
    BY <1>2, <2>1, <2>2, <2>3 DEF Counted
<1>4. CASE \E on \in BOOLEAN : SetRenderingEnabled(on)
  BY <1>4 DEF SetRenderingEnabled, Counted
<1>5. CASE \E s \in Slot : SaveState(s) \/ LoadState(s)
  BY <1>5 DEF SaveState, LoadState, Counted
<1>6. CASE \E p \in Presented : Flip(p)
  <2>1. PICK p \in Presented : Flip(p)
    BY <1>6
  <2>2. /\ pc = "machine" /\ pc' = "machine" /\ flips < MaxFlips /\ flips' = flips + 1
        /\ vblanks' = vblanks
        /\ h = [g EXCEPT !.display = p, !.state = "nextframe"]
    BY <1>1, <2>1 DEF Flip, InSlice
  <2>3. h.vblank = g.vblank /\ h.turns = g.turns /\ h.state = "nextframe"
    BY <1>1, <2>2 DEF Memory
  <2>4. flips >= g.turns /\ (g.vblank <=> vblanks > 0)
    BY <2>2 DEF Counted
  <2> HIDE DEF g, h
  <2>5. flips' \in 0..MaxFlips /\ flips' > g.turns /\ vblanks' \in 0..MaxVblanks
    BY <1>2, <2>2, <2>4
  <2>6. h.vblank <=> vblanks' > 0
    BY <2>2, <2>3, <2>4, Zenon
  <2>7. flips' > h.turns /\ flips' >= h.turns
    BY <1>2, <2>2, <2>3, <2>4
  <2> QED
    BY <2>2, <2>5, <2>6, <2>7 DEF Counted, h
<1>7. CASE VblankStart
  <2>1. /\ pc = "machine" /\ pc' = "machine" /\ vblanks < MaxVblanks
        /\ vblanks' = vblanks + 1 /\ flips' = flips
        /\ h = Vblanked(g)
    BY <1>1, <1>7 DEF VblankStart, InSlice
  <2>2. h.vblank = TRUE /\ h.turns = g.turns
    BY <1>1, <2>1 DEF Vblanked, Memory
  <2>3. flips >= g.turns
    BY <2>1 DEF Counted
  <2>4. flips' \in 0..MaxFlips /\ vblanks' \in 0..MaxVblanks /\ vblanks' > 0
    BY <1>2, <2>1
  <2> QED
    BY <2>1, <2>2, <2>3, <2>4 DEF Counted
<1>8. CASE AudioPush \/ AudioClear
  <2>1. /\ pc = "machine" /\ pc' = "machine" /\ UNCHANGED <<flips, vblanks>>
        /\ \E n : h = [g EXCEPT !.accum = n]
    BY <1>1, <1>8 DEF AudioPush, AudioClear, InSlice
  <2>2. h.vblank = g.vblank /\ h.turns = g.turns /\ h.state = g.state
    BY <1>1, <2>1 DEF Memory
  <2> QED
    BY <2>1, <2>2 DEF Counted
<1>9. CASE \E how \in Stop : GameStops(how)
  <2>1. PICK how \in Stop : GameStops(how)
    BY <1>9
  <2>2. /\ pc = "machine" /\ pc' = "machine" /\ UNCHANGED <<flips, vblanks>>
        /\ h = [g EXCEPT !.state = how] /\ how # "nextframe"
    BY <1>1, <2>1, FrameAssumption DEF GameStops, InSlice
  <2>3. h.vblank = g.vblank /\ h.turns = g.turns /\ h.state = how
    BY <1>1, <2>2 DEF Memory
  <2> QED
    BY <2>2, <2>3 DEF Counted
<1>10. CASE RunLoopReturns
  <2>1. /\ pc = "machine" /\ g.state # "running" /\ h = Returned(g, Wants("core"))
        /\ pc' = IF Again(g) THEN "machine" ELSE "idle"
        /\ flips' = IF pc' = "idle" THEN 0 ELSE flips
        /\ vblanks' = IF pc' = "idle" THEN 0 ELSE vblanks
    BY <1>1, <1>10 DEF RunLoopReturns
  <2>2. CASE Again(g)
    <3>1. h.state = "running" /\ h.vblank = g.vblank /\ h.turns = g.turns + 1
      BY <1>1, <2>1, <2>2, AgainFields DEF Returned
    <3>2. g.state = "nextframe" /\ ~g.vblank
      BY <1>1, <2>1, <2>2 DEF Again, Memory, CoreState
    <3>3. flips > g.turns /\ (g.vblank <=> vblanks > 0)
      BY <2>1, <3>2 DEF Counted
    <3>4. flips >= h.turns
      BY <1>2, <3>1, <3>3
    <3>5. pc' = "machine" /\ flips' = flips /\ vblanks' = vblanks
      BY <2>1, <2>2
    <3> QED
      BY <3>1, <3>3, <3>4, <3>5 DEF Counted
  <2>3. CASE ~Again(g)
    <3>1. 0 \in 0..MaxFlips /\ 0 \in 0..MaxVblanks
      BY <1>2
    <3> QED
      BY <2>1, <2>3, <3>1 DEF Counted
  <2> QED
    BY <2>2, <2>3
<1>11. CASE UNCHANGED vars
  BY <1>11 DEF vars, Counted
<1> QED
  BY <1>3, <1>4, <1>5, <1>6, <1>7, <1>8, <1>9, <1>10, <1>11 DEF Next, Frontend, Machine

THEOREM FramesCounted == Spec => []Counted
<1> QED
  BY InitCounted, StepCounted, FramesPaired, PTL DEF Spec

-----------------------------------------------------------------------------
(* The properties.                                                         *)

\* The memories of the cores and of all states keep their types, the loop's
\* counter below the guard.
THEOREM FrameTyped == Spec => []TypeOK
<1>1. FrameInv /\ Counted => TypeOK
  BY DEF FrameInv, Scalars, CoresPaired, StatesPaired, Paired, Counted, TypeOK
<1> QED
  BY <1>1, FramesPaired, FramesCounted, PTL

\* However a frame ends, the GPU's host frames are opened and closed in turn.
THEOREM HostFrames == Spec => []HostFramesNest
<1>1. FrameInv => HostFramesNest
  BY DEF FrameInv, Scalars, CoresPaired, Paired, HostFramesNest
<1> QED
  BY <1>1, FramesPaired, PTL

\* A frame has the sound the game made in it, up to the room there is.
THEOREM OwnSound == Spec => []SoundOfTheFrame
<1>1. FrameInv => SoundOfTheFrame
  BY DEF FrameInv
<1> QED
  BY <1>1, FramesPaired, PTL

\* A core in turbo is the core that draws, but for the pictures.
THEOREM TurboUnseen == Spec => []TurboIsInvisible
<1>1. FrameInv => TurboIsInvisible
  <2> SUFFICES ASSUME FrameInv PROVE TurboIsInvisible
    OBVIOUS
  <2>1. /\ cores["core"] \in Memory /\ cores["drawn"] \in Memory
        /\ SameMachine(cores["core"], cores["drawn"])
    BY DEF FrameInv, Scalars, CoresPaired, Paired, Core
  <2> QED
    BY <2>1, ApartOfTheSame DEF TurboIsInvisible
<1> QED
  BY <1>1, FramesPaired, PTL

\* Once drawing resumes, the pictures are those of a core that always drew.
THEOREM PicturesAgree == Spec => []SamePicture
<1>1. FrameInv => SamePicture
  BY DEF FrameInv
<1> QED
  BY <1>1, FramesPaired, PTL

\* A frame ends with a vblank that came in it, a stop of the game or Guard flips,
\* and has no turn after its vblank.
THEOREM OneVblank == Spec => FrameIsOneVblank
<1> DEFINE Ends  == pc = "machine" /\ pc' = "idle" =>
                      \/ vblanks > 0
                      \/ cores["core"].state \in {"powerdown", "error"}
                      \/ flips >= Guard
           GoesOn == pc = "machine" /\ pc' = "machine"
                       /\ cores'["core"].turns # cores["core"].turns => vblanks = 0
<1>1. FrameInv /\ Counted /\ Next => Ends
  <2> SUFFICES ASSUME FrameInv, Counted, Next, pc = "machine", pc' = "idle"
               PROVE  \/ vblanks > 0
                      \/ cores["core"].state \in {"powerdown", "error"}
                      \/ flips >= Guard
    OBVIOUS
  <2>1. RunLoopReturns
    BY DEF Next, Frontend, FrameAdvance, SetRenderingEnabled, SaveState, LoadState,
           Machine, Flip, VblankStart, AudioPush, AudioClear, GameStops, InSlice
  <2>2. /\ ~Again(cores["core"]) /\ cores["core"].state # "running"
    BY <2>1 DEF RunLoopReturns
  <2>3. /\ cores["core"].turns \in Nat /\ cores["core"].state \in CoreState
        /\ Guard \in Nat /\ flips \in Nat
    BY FrameAssumption DEF FrameInv, CoresPaired, Paired, Core, Memory, Counted
  <2>4. SUFFICES ASSUME ~(vblanks > 0), cores["core"].state \notin {"powerdown", "error"}
                 PROVE  flips >= Guard
    OBVIOUS
  <2>5. ~cores["core"].vblank /\ cores["core"].state = "nextframe"
    BY <2>2, <2>3, <2>4 DEF Counted, CoreState
  <2>6. flips > cores["core"].turns /\ cores["core"].turns + 1 >= Guard
    BY <2>2, <2>3, <2>4, <2>5 DEF Counted, Again
  <2> QED
    BY <2>3, <2>6
<1>2. FrameInv /\ Counted /\ Next => GoesOn
  <2> SUFFICES ASSUME FrameInv, Counted, Next, pc = "machine", pc' = "machine",
                      cores'["core"].turns # cores["core"].turns
               PROVE  vblanks = 0
    OBVIOUS
  <2>1. "core" \in Core /\ cores["core"] \in Memory
    BY DEF FrameInv, CoresPaired, Paired, Core
  <2>2. RunLoopReturns
    <3>1. ~Frontend
      BY DEF Frontend, FrameAdvance, SetRenderingEnabled, SaveState, LoadState
    <3>2. ASSUME NEW p \in Presented, Flip(p) PROVE FALSE
      <4>1. cores'["core"] = [cores["core"] EXCEPT !.display = p, !.state = "nextframe"]
        BY <2>1, <3>2 DEF Flip
      <4>2. cores'["core"].turns = cores["core"].turns
        BY <2>1, <4>1 DEF Memory
      <4> QED
        BY <4>2
    <3>3. ~VblankStart
      BY <2>1 DEF VblankStart, Vblanked, Memory
    <3>4. ~AudioPush /\ ~AudioClear
      BY <2>1 DEF AudioPush, AudioClear, Memory
    <3>5. ~(\E how \in Stop : GameStops(how))
      BY <2>1 DEF GameStops, Memory
    <3> QED
      BY <3>1, <3>2, <3>3, <3>4, <3>5 DEF Next, Machine
  <2>3. ~cores["core"].vblank
    BY <2>2 DEF RunLoopReturns, Again
  <2>4. vblanks \in Nat /\ ~(vblanks > 0)
    BY <2>3 DEF Counted
  <2> QED
    BY <2>4
<1>3. FrameInv /\ Counted /\ [Next]_vars => [Ends /\ GoesOn]_vars
  BY <1>1, <1>2
<1> QED
  BY <1>3, FramesPaired, FramesCounted, PTL DEF Spec, FrameIsOneVblank
=============================================================================
