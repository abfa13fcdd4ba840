------------------------------ MODULE FrameLoop ------------------------------
(***************************************************************************)
(* One frame of the machine: FrameAdvance and SetRenderingEnabled of       *)
(* waterbox.cpp over pspdrv_run_frame, chimera_vblank_start and the audio  *)
(* hooks of psp-driver.cpp.                                                *)
(*                                                                         *)
(* The buttons and sticks of a frame are module PadInput's, the look for a *)
(* new Vulkan device at its head is VulkanState's; Init has succeeded.     *)
(*                                                                         *)
(* The frontend calls FrameAdvance between frames; inside one, PPSSPP runs *)
(* the PSP (PSP_RunLoopWhileState) until coreState changes, and on the way *)
(* the game flips, pushes sound, reaches a vblank or stops.                *)
(*                                                                         *)
(* Two cores go through the same frames: "core", whose pictures the        *)
(* frontend may switch off (turbo), and "drawn", which always draws them.  *)
(* They are what the turbo leg of run-gate.sh compares.                    *)
(***************************************************************************)
EXTENDS Integers

CONSTANTS Pic,        \* the pictures of the game
          Blank,      \* the picture g_videoBuf starts with
          Off,        \* the display without a framebuffer
          Presented,  \* what the game sets the display to: pictures, or Off
          Slot,       \* the places the frontend keeps states in
          Empty,      \* a slot without a state
          Guard,      \* turns of the loop in one frame (64)
          AudioRoom,  \* samples g_audio has room for (8192)
          MaxSound,   \* bound: samples pushed in one frame
          MaxFlips,   \* bound: flips in one frame
          MaxVblanks, \* bound: vblanks in one frame
          Stop        \* how the game may stop: "powerdown", "error"

ASSUME FrameAssumption ==
  /\ Blank \in Pic
  /\ Off \notin Pic
  /\ Presented \subseteq Pic \cup {Off}
  /\ Guard \in Nat \ {0}
  /\ AudioRoom \in Nat
  /\ MaxSound \in Nat
  /\ MaxFlips \in Nat
  /\ MaxVblanks \in Nat
  /\ Stop \subseteq {"powerdown", "error"}

VARIABLES cores,   \* the memory of each core
          pc,      \* "idle" between frames, "machine" while the PSP runs
          wanted,  \* g_render of waterbox.cpp, which no state carries
          slots,   \* the states
          made,    \* history: samples the game has pushed in this frame
          flips,   \* history: times the game has flipped in this frame, 0 between frames
          vblanks, \* history: vblanks there have been in this frame, 0 between frames
          seen,    \* history: the last call was a FrameAdvance
          told     \* history: SetRenderingEnabled was called since the last load

vars == <<cores, pc, wanted, slots, made, flips, vblanks, seen, told>>

Core == {"core", "drawn"}

Wants(c) == c = "drawn" \/ wanted

CoreState == {"running", "nextframe", "powerdown", "error"}

Memory == [render   : BOOLEAN,      \* g_render of psp-driver.cpp
           state    : CoreState,    \* coreState
           vblank   : BOOLEAN,      \* g_vblankSeen
           turns    : 0..Guard - 1, \* guard, the loop's counter
           host     : BOOLEAN,      \* the GPU's host frame is open
           misused  : BOOLEAN,      \* history: a GPU call came out of order
           display  : Pic \cup {Off},  \* the framebuffer on display
           videoBuf : Pic,          \* g_videoBuf
           video    : Pic,          \* g_video
           accum    : Nat,          \* samples in g_audioAccum
           audio    : Nat]          \* g_audioFrames

Booted == [render |-> TRUE, state |-> "running", vblank |-> FALSE, turns |-> 0,
           host |-> FALSE, misused |-> FALSE,
           display |-> Off, videoBuf |-> Blank, video |-> Blank,
           accum |-> 0, audio |-> 0]

Init ==
  /\ cores = [c \in Core |-> Booted]
  /\ pc = "idle"
  /\ wanted = TRUE
  /\ slots = [s \in Slot |-> Empty]
  /\ made = 0
  /\ flips = 0
  /\ vblanks = 0
  /\ seen = FALSE
  /\ told = TRUE

-----------------------------------------------------------------------------
(* The GPU's calls.                                                        *)

BeginHostFrame(g) == [g EXCEPT !.host = TRUE, !.misused = @ \/ g.host]
EndHostFrame(g)   == [g EXCEPT !.host = FALSE, !.misused = @ \/ ~g.host]

\* The draw context's frame is closed and opened again, between host frames.
TurnDrawFrame(g) == [g EXCEPT !.misused = @ \/ g.host]

\* Without a framebuffer to read (GetCurrentFramebuffer fails, or an empty one)
\* the buffer keeps its picture.  The conversion is not told from the copy.
ReadbackVideo(g) == [g EXCEPT !.videoBuf = IF g.display = Off THEN @ ELSE g.display]

-----------------------------------------------------------------------------
(* Parts of a frame.                                                       *)

Smaller(a, b) == IF a < b THEN a ELSE b

\* The head of pspdrv_run_frame and the first turn of its loop.
Begun_stale(g) ==
  [BeginHostFrame(g) EXCEPT !.turns = 0, !.state = "running"]
Begun(g) ==
  [BeginHostFrame(g) EXCEPT !.vblank = FALSE, !.turns = 0, !.state = "running"]

\* After a turn: a flip is a boundary of host frames and nothing more.
Turned_atOnce(g) ==
  IF g.state = "nextframe" /\ ~g.vblank THEN BeginHostFrame(g) ELSE g
Turned(g) ==
  IF g.state = "nextframe" /\ ~g.vblank
    THEN BeginHostFrame(TurnDrawFrame(EndHostFrame(g)))
    ELSE g

\* The loop goes on: no vblank, a turn left, and the machine still runs.
Again_onceMore(g) ==
  ~g.vblank /\ g.turns + 1 <= Guard /\ g.state \notin {"powerdown", "error"}
Again(g) ==
  /\ ~g.vblank
  /\ g.turns + 1 < Guard
  /\ g.state \notin {"powerdown", "error"}

\* g_audioFrame.swap(g_audioAccum), and the clear after it.
Swapped_uncleared(g) == [g EXCEPT !.audio = Smaller(g.accum, AudioRoom)]
Swapped(g) == [g EXCEPT !.audio = Smaller(g.accum, AudioRoom), !.accum = 0]

\* The tail of pspdrv_run_frame, and FrameAdvance's after it.  The loop's counter
\* is gone with the loop.
Finished_drawnOnly(g, wants) ==
  LET ended == EndHostFrame([g EXCEPT !.turns = 0, !.state =
                 IF @ \in {"nextframe", "powerdown"} THEN "running" ELSE @])
      read  == IF g.render THEN Swapped(TurnDrawFrame(ReadbackVideo(ended))) ELSE ended
  IN  IF wants THEN [read EXCEPT !.video = read.videoBuf] ELSE read
Finished(g, wants) ==
  LET ended == EndHostFrame([g EXCEPT !.turns = 0, !.state =
                 IF @ \in {"nextframe", "powerdown"} THEN "running" ELSE @])
      read  == TurnDrawFrame(IF g.render THEN ReadbackVideo(ended) ELSE ended)
      heard == Swapped(read)
  IN  IF wants THEN [heard EXCEPT !.video = heard.videoBuf] ELSE heard

\* PSP_RunLoopWhileState has returned.
Returned(g, wants) ==
  IF Again(g)
    THEN [Turned(g) EXCEPT !.turns = @ + 1, !.state = "running"]
    ELSE Finished(Turned(g), wants)

\* chimera_vblank_start: a flip that already ended the turn is left alone.
Vblanked_silent(g) == [g EXCEPT !.vblank = TRUE]
Vblanked(g) ==
  [g EXCEPT !.vblank = TRUE,
            !.state = IF @ = "running" THEN "nextframe" ELSE @]

-----------------------------------------------------------------------------
(* What the frontend does between frames.  A definition named X_how is a   *)
(* mutant of X: a mistake the properties below must notice.                *)

FrameAdvance ==
  /\ pc = "idle"
  /\ pc' = "machine"
  /\ cores' = [c \in Core |-> Begun(cores[c])]
  /\ made' = 0
  /\ seen' = TRUE
  /\ UNCHANGED <<wanted, slots, flips, vblanks, told>>

\* The export writes both flags.
Rendering_offOnly(g, on) == [g EXCEPT !.render = @ /\ on]
Rendering(g, on) == [g EXCEPT !.render = on]

SetRenderingEnabled(on) ==
  /\ pc = "idle"
  /\ wanted' = on
  /\ cores' = [cores EXCEPT !["core"] = Rendering(@, on)]
  /\ seen' = FALSE
  /\ told' = TRUE
  /\ UNCHANGED <<pc, slots, made, flips, vblanks>>

SaveState(s) ==
  /\ pc = "idle"
  /\ slots' = [slots EXCEPT ![s] = cores]
  /\ UNCHANGED <<cores, pc, wanted, made, flips, vblanks, seen, told>>

\* A load brings the driver's flag back with the rest of the memory.
LoadState(s) ==
  /\ pc = "idle"
  /\ slots[s] # Empty
  /\ cores' = slots[s]
  /\ seen' = FALSE
  /\ told' = FALSE
  /\ UNCHANGED <<pc, wanted, slots, made, flips, vblanks>>

-----------------------------------------------------------------------------
(* What happens while the PSP runs.  PPSSPP looks at coreState at the end   *)
(* of a slice, so that more may happen after it has changed.               *)

InSlice == pc = "machine" /\ UNCHANGED <<pc, wanted, slots, seen, told>>

\* __DisplayFlip: the game presents a picture, or switches the display off.
Flip(p) ==
  /\ InSlice
  /\ flips < MaxFlips
  /\ cores["core"].state \in {"running", "nextframe"}
  /\ cores' = [c \in Core |-> [cores[c] EXCEPT !.display = p, !.state = "nextframe"]]
  /\ flips' = flips + 1
  /\ UNCHANGED <<made, vblanks>>

\* chimera_vblank_start, which another vblank may call again before the loop stops.
VblankStart ==
  /\ InSlice
  /\ vblanks < MaxVblanks
  /\ cores' = [c \in Core |-> Vblanked(cores[c])]
  /\ vblanks' = vblanks + 1
  /\ UNCHANGED <<made, flips>>

\* System_AudioPushSamples, and System_AudioClear.
AudioPush ==
  /\ InSlice
  /\ made < MaxSound
  /\ cores' = [c \in Core |-> [cores[c] EXCEPT !.accum = @ + 1]]
  /\ made' = made + 1
  /\ UNCHANGED <<flips, vblanks>>

AudioClear ==
  /\ InSlice
  /\ cores' = [c \in Core |-> [cores[c] EXCEPT !.accum = 0]]
  /\ made' = 0
  /\ UNCHANGED <<flips, vblanks>>

GameStops(how) ==
  /\ InSlice
  /\ cores["core"].state \in {"running", "nextframe"}
  /\ cores' = [c \in Core |-> [cores[c] EXCEPT !.state = how]]
  /\ UNCHANGED <<made, flips, vblanks>>

RunLoopReturns ==
  /\ pc = "machine"
  /\ cores["core"].state # "running"
  /\ cores' = [c \in Core |-> Returned(cores[c], Wants(c))]
  /\ pc' = IF Again(cores["core"]) THEN "machine" ELSE "idle"
  /\ flips' = IF pc' = "idle" THEN 0 ELSE flips
  /\ vblanks' = IF pc' = "idle" THEN 0 ELSE vblanks
  /\ UNCHANGED <<wanted, slots, made, seen, told>>

Frontend ==
  \/ FrameAdvance
  \/ \E on \in BOOLEAN : SetRenderingEnabled(on)
  \/ \E s \in Slot : SaveState(s) \/ LoadState(s)

Machine ==
  \/ \E p \in Presented : Flip(p)
  \/ VblankStart
  \/ AudioPush
  \/ AudioClear
  \/ \E how \in Stop : GameStops(how)
  \/ RunLoopReturns

Next == Frontend \/ Machine

Spec == Init /\ [][Next]_vars

\* Emulated time does not stand still: a PSP that runs on reaches its next
\* vblank, and PPSSPP's loop returns once coreState has changed.  Nothing is
\* asked of the frontend.
FairSpec == Spec /\ WF_vars(VblankStart) /\ WF_vars(RunLoopReturns)

-----------------------------------------------------------------------------
(* Properties.                                                             *)

TypeOK ==
  /\ cores \in [Core -> Memory]
  /\ pc \in {"idle", "machine"}
  /\ wanted \in BOOLEAN
  /\ DOMAIN slots = Slot
  /\ \A s \in Slot : slots[s] # Empty => slots[s] \in [Core -> Memory]
  /\ made \in 0..MaxSound
  /\ flips \in 0..MaxFlips
  /\ vblanks \in 0..MaxVblanks
  /\ seen \in BOOLEAN
  /\ told \in BOOLEAN

\* The GPU's host frames open and close in turn, however a frame ends and
\* however often the game flips in it: none is open between frames, where
\* CheckVulkanDevice may rebuild the GPU, nor while a draw frame is turned over.
HostFramesNest ==
  \A c \in Core :
    /\ ~cores[c].misused
    /\ cores[c].host <=> pc = "machine"

\* chimera#58, "A FRAME IS ONE VBLANK, not one flip" (psp-driver.cpp:780): a
\* frame ends with a vblank that came in it, and with nothing else but a stop of
\* the game or Guard flips ("a flip inside the frame is a host-frame boundary for
\* the GPU and nothing more"); and once the vblank has come, no turn is added to
\* it.  The vblanks and flips are those the PSP had, not the loop's notes of them.
FrameIsOneVblank ==
  [][/\ pc = "machine" /\ pc' = "idle" =>
          \/ vblanks > 0
          \/ cores["core"].state \in {"powerdown", "error"}
          \/ flips >= Guard
     /\ pc = "machine" /\ pc' = "machine"
        /\ cores'["core"].turns # cores["core"].turns =>
          vblanks = 0]_vars

\* The sound of a frame is that frame's: what the game pushed in it, up to the
\* room there is, and nothing an earlier frame left over.
SoundOfTheFrame ==
  pc = "idle" /\ seen =>
    \A c \in Core : cores[c].audio = Smaller(made, AudioRoom)

\* waterbox.cpp:264, "otherwise exactly the machine it would have been": apart
\* from its pictures a core in turbo is the core that draws, in every state it
\* passes through, saved, loaded or stepped.
Apart(g) == [g EXCEPT !.render = TRUE, !.videoBuf = Blank, !.video = Blank]

TurboIsInvisible == Apart(cores["core"]) = Apart(cores["drawn"])

\* run-gate.sh's turbo leg, "the same pictures once drawing resumes", and
\* waterbox.cpp:46, "a state saved while fast-forwarding must not put the
\* machine back into it when it is loaded to be looked at": after a frame the
\* frontend wanted to see, the core shows the picture of the core that draws
\* always, if the frontend has said that it wants pictures since it last loaded
\* a state.  The display has to be on: a readback leaves g_videoBuf alone else.
PictureWanted == pc = "idle" /\ seen /\ wanted /\ told
ShowsTheSame  == cores["core"].video = cores["drawn"].video

SamePicture == PictureWanted /\ cores["core"].display # Off => ShowsTheSame

\* The same, as waterbox.cpp:267 has it, whatever the display.
PicturesResume == PictureWanted => ShowsTheSame

\* FrameAdvance returns, whatever the game does in the frame.
FrameReturns == pc = "machine" ~> pc = "idle"
=============================================================================
