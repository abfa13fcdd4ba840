-------------------------------- MODULE Gate --------------------------------
(***************************************************************************)
(* The equivalence gate: the frame loops of run-wbx.c, which drives the    *)
(* core in the sandbox, and of run-native.cpp, the native reference, both  *)
(* over the same movie or pattern of inputs, and what run-gate.sh compares *)
(* of them.                                                                *)
(*                                                                         *)
(* The core is composed of the controller (PadInput), the Vulkan renderer  *)
(* (VulkanState) and what a frame leaves outside, the two last coarsely: a *)
(* game hears the controller, and draws on one canvas in the frames in     *)
(* which something is held.  A picture is everything heard when it was     *)
(* drawn, so that two machines that ever differed never look the same.     *)
(* The reference runs first, as run-gate.sh has it, and keeps no states.   *)
(* A card on which the renderer cannot start again is left out, and so is  *)
(* a game that switches its display off (FrameLoop has that).              *)
(***************************************************************************)
EXTENDS Integers, Sequences, Functions

CONSTANTS Legs,     \* run-wbx's options
          Movies,   \* the movies, sequences of lines
          Pattern,  \* padForFrame, a sequence of words
          Frames,   \* how many frames are run
          Empty     \* no state taken

ASSUME FramesAssumption == Frames \in Nat /\ Frames >= 2

VARIABLES ref,                    \* the native reference
          leg, movie,             \* the options and the movie, <<>> for none
          at, f, pass,            \* where main is, its frame, and its time through
          render,                 \* g_render, outside the machine
          mem, memState,          \* the core's memory but for the parts below
          pad, padStates, asked, axes,                   \* see PadInput
          live, card, vk, vkStates, halted, touched, crossed, taken,
                                                         \* see VulkanState
          digests                 \* what main hashed, by pass

loopVars == <<leg, movie, at, f, pass, render, digests>>
padVars  == <<pad, padStates, asked, axes>>
vkVars   == <<live, card, vk, vkStates, halted, touched, crossed, taken>>
gateVars == <<ref, loopVars, mem, memState, padVars, vkVars>>

\* kButtonMap, by bit.
ButtonMap == <<"up", "down", "left", "right", "cross", "circle", "square",
               "triangle", "start", "select", "L", "R">>

P == INSTANCE PadInput
       WITH Button <- Range(ButtonMap), XByte <- 0..255, YByte <- 0..255,
            Slot <- {"st"}, guest <- pad, slots <- padStates
V == INSTANCE VulkanState
       WITH FB <- {"canvas"}, Pic <- Seq(Seq(P!Input)), Blank <- <<>>, Slot <- {"st"},
            Fits <- {"canvas"}, SaveTold <- BOOLEAN, LoadTold <- BOOLEAN,
            EarlySave <- TRUE, MaxDevice <- Frames + 2,
            guest <- vk, slots <- vkStates

-----------------------------------------------------------------------------
(* The inputs.  A line of a movie has letters, by their place, and a stick. *)
(* A definition named X_how is a mutant of X.                              *)

Line == [ok : BOOLEAN, letters : SUBSET (1..12), lx : Int, ly : Int]
InWord == [buttons : SUBSET Range(ButtonMap), x : 0..255, y : 0..255]

ASSUME InputsAssumption ==
  /\ \A m \in Movies : m \in Seq(Line)
  /\ Pattern \in [1..Frames -> InWord]

BadLine == [ok |-> FALSE, letters |-> {}, lx |-> 0, ly |-> 0]

\* kBit of parseSolLine: the bit of the letter at each place.
Bit_inOrder == <<0, 1, 2, 3, 4, 5, 6, 7, 8, 9, 10, 11>>
Bit == <<0, 1, 2, 3, 8, 9, 6, 7, 5, 4, 10, 11>>

\* The byte of a stick, after the clamp.
Byte(n) == P!Clamped(n) + 128
ParseSolLine(line) ==
  [buttons |-> {ButtonMap[Bit[i] + 1] : i \in line.letters},
   x |-> Byte(line.lx), y |-> Byte(line.ly)]

\* The lines that are none are skipped.
Filtered(lines, line) == IF line.ok THEN Append(lines, line) ELSE lines
Lines(m) ==
  LET kept[n \in 0..Len(m)] ==
        IF n = 0 THEN <<>> ELSE Filtered(kept[n - 1], m[n])
  IN  kept[Len(m)]
LoadMovie(m) == [i \in 1..Len(Lines(m)) |-> ParseSolLine(Lines(m)[i])]

\* Frames count from 0.  Each host has its own copy of this.
Word_zeroAfter(m, n) ==
  IF m = <<>> THEN Pattern[n + 1]
  ELSE IF n < Len(LoadMovie(m)) THEN LoadMovie(m)[n + 1]
  ELSE [buttons |-> {}, x |-> 0, y |-> 0]
Word(m, n) ==
  IF m = <<>> THEN Pattern[n + 1]
  ELSE IF n < Len(LoadMovie(m)) THEN LoadMovie(m)[n + 1]
  ELSE P!NoInput
NativeWord(m, n) ==
  IF m = <<>> THEN Pattern[n + 1]
  ELSE IF n < Len(LoadMovie(m)) THEN LoadMovie(m)[n + 1]
  ELSE P!NoInput

-----------------------------------------------------------------------------
(* The game.                                                               *)

Hears(p) == [held |-> p.held, stick |-> p.stick]
Draws(p) == p.held # {}

\* pspdrv_run_frame and what main hashes of it, in the reference.
NativeStart == [pad |-> [prev |-> {}, held |-> {}], heard |-> <<>>, canvas |-> <<>>,
                digests |-> <<>>]
NativeFrame(s, in) ==
  LET p     == P!Pressed(s.pad, in.buttons)
      hears == [held |-> p.held, stick |-> P!Unpacked(in.x, in.y)]
      heard == Append(s.heard, hears)
      shown == IF Draws(p) THEN heard ELSE s.canvas
  IN  [pad |-> p, heard |-> heard, canvas |-> shown,
       digests |-> Append(s.digests, [video |-> shown, audio |-> hears])]

-----------------------------------------------------------------------------
(* The core in the sandbox.                                                *)

Displayed(m, v, c) ==
  IF ~leg.vulkan THEN m.canvas
  ELSE IF "canvas" \in V!Framebufs(v) THEN c["canvas"]
  ELSE <<>>

\* FrameAdvance.
Frame(in) ==
  LET heard == Append(mem.heard, Hears(pad'))
      drawn == [mem EXCEPT !.heard = heard,
                           !.canvas = IF Draws(pad') /\ ~leg.vulkan THEN heard ELSE @]
      buffer == IF mem.rendering THEN Displayed(drawn, vk', card') ELSE mem.buffer
  IN  /\ P!FrameAdvance(in)
      /\ IF leg.vulkan
           THEN LET onto == IF Draws(pad') THEN {"canvas"} ELSE {}
                IN  V!Frame(onto, {}, [c \in onto |-> heard])
           ELSE UNCHANGED vkVars
      /\ mem' = [drawn EXCEPT !.buffer = buffer,
                              !.video = IF render THEN buffer ELSE @]
      /\ UNCHANGED memState

\* state_saving, unless CHIMERA_NO_STATE_SAVING, and wbx_save_state.
SaveState ==
  /\ P!SaveState("st")
  /\ memState' = mem
  /\ IF leg.vulkan THEN V!SaveState("st", leg.saveTold) ELSE UNCHANGED vkVars
  /\ UNCHANGED mem

\* wbx_load_state, and state_loaded if the core has StateLoaded.
LoadState ==
  /\ P!LoadState("st")
  /\ mem' = memState
  /\ IF leg.vulkan THEN V!LoadState("st", leg.loadTold) ELSE UNCHANGED vkVars
  /\ UNCHANGED memState

-----------------------------------------------------------------------------
(* main.                                                                   *)

Half == Frames \div 2

\* Where the loop starts; with --rewind, --rerecord and --turbo are not looked at.
LoopHead(l) ==
  IF l.rewind THEN "frame"
  ELSE IF l.turbo THEN "turbo"
  ELSE IF l.rerecord THEN "save"
  ELSE "frame"

GateInit ==
  /\ leg \in Legs
  /\ movie \in Movies
  /\ movie = <<>> \/ LoadMovie(movie) # <<>>    \* "no frames parsed"
  /\ at = "native" /\ f = 0 /\ pass = 1
  /\ ref = NativeStart
  /\ render = TRUE
  /\ mem = [heard |-> <<>>, canvas |-> <<>>, rendering |-> TRUE, buffer |-> <<>>,
            video |-> <<>>]
  /\ memState = mem
  /\ P!Init /\ axes = leg.axes
  /\ V!Init
  /\ digests = [p \in 1..2 |-> <<>>]

Goto(place) == at' = place /\ UNCHANGED <<ref, leg, movie, f, pass, render, digests>>

\* run-native's main.
RunNative ==
  /\ at = "native"
  /\ ref' = NativeFrame(ref, NativeWord(movie, Len(ref.heard)))
  /\ at' = IF Len(ref.heard) + 1 = Frames THEN LoopHead(leg) ELSE at
  /\ UNCHANGED <<leg, movie, f, pass, render, digests, mem, memState, padVars, vkVars>>

\* Nothing is drawn for the first half of the run.
Rendering_late(n) == n > Half
Rendering(n) == n >= Half

SetRenderingEnabled ==
  /\ at = "turbo"
  /\ at' = IF leg.rerecord THEN "save" ELSE "frame"
  /\ render' = Rendering(f)
  /\ mem' = [mem EXCEPT !.rendering = Rendering(f)]
  /\ UNCHANGED <<ref, leg, movie, f, pass, digests, memState, padVars, vkVars>>

Save == at = "save" /\ SaveState /\ Goto(IF leg.rewind THEN "frame" ELSE "load")

\* With --rewind the second half is run again from the state at its start.
Load ==
  /\ at = "load"
  /\ LoadState
  /\ at' = "frame"
  /\ IF leg.rewind THEN f' = Half /\ pass' = 2 ELSE UNCHANGED <<f, pass>>
  /\ UNCHANGED <<ref, leg, movie, render, digests>>

\* Where main goes after its n-th frame.
After(l, n, p) ==
  IF n = Frames THEN IF l.rewind /\ p = 1 THEN "load" ELSE "done"
  ELSE IF l.rewind /\ n = Half THEN "save"
  ELSE LoopHead(l)

FrameAndHash ==
  /\ at = "frame"
  /\ Frame(Word(movie, f))
  /\ digests' = IF leg.rewind /\ f < Half THEN digests
                ELSE [digests EXCEPT ![pass] =
                        Append(@, [video |-> mem'.video, audio |-> Hears(pad')])]
  /\ f' = f + 1
  /\ at' = After(leg, f + 1, pass)
  /\ UNCHANGED <<ref, leg, movie, pass, render>>

GateNext == RunNative \/ SetRenderingEnabled \/ Save \/ Load \/ FrameAndHash

GateSpec == GateInit /\ [][GateNext]_gateVars

-----------------------------------------------------------------------------
(* Properties.                                                             *)

Done == at = "done"

\* run-native.cpp:29, "the 12 letter positions are Up Down Left Right Start
\* Select Square Triangle Circle Cross LTrigger RTrigger": through three tables
\* and only the changes of a button being told, the game has pressed, in each
\* frame and across any states, the buttons of that frame's line, and the stick
\* on its side; but for a stick all the way up without SetAxis.
Letters == <<"up", "down", "left", "right", "start", "select", "square",
             "triangle", "circle", "cross", "L", "R">>
SameSide(m, n) == (m > 0 <=> n > 0) /\ (m < 0 <=> n < 0)
MovieIsHeard ==
  LET lines == Lines(movie)
  IN  movie # <<>> =>
        \A n \in DOMAIN mem.heard :
          IF n > Len(lines)
            THEN mem.heard[n] = [held |-> {}, stick |-> <<0, 0>>]
            ELSE /\ mem.heard[n].held = {Letters[i] : i \in lines[n].letters}
                 /\ axes \/ lines[n].ly > -128 =>
                      /\ SameSide(mem.heard[n].stick[1], lines[n].lx)
                      /\ SameSide(mem.heard[n].stick[2], -lines[n].ly)

\* run-gate.sh:99, "native==sandbox==rerecord==turbo", and run-wbx.c:388, "both
\* passes must digest identically": whatever states are taken and loaded around
\* the frames, whatever half is not drawn and whichever way the stick is handed
\* over, the machine hears what the reference hears and sounds like it; but for
\* frames in which SetAxis has the stick all the way up.
AxesMayDiffer == axes /\ \E n \in 0..Frames - 1 : NativeWord(movie, n).y = 0
Hashed == IF leg.rewind THEN (Half + 1)..Frames ELSE 1..Frames
Digest(p, n) == digests[p][IF leg.rewind THEN n - Half ELSE n]
TwinsHear ==
  Done /\ ~AxesMayDiffer =>
    /\ mem.heard = ref.heard
    /\ \A p \in 1..pass : \A n \in Hashed :
         Digest(p, n).audio = ref.digests[n].audio

\* waterbox.cpp:267, "half a run undrawn leaves the same machine, and the same
\* pictures once drawing resumes": each picture main hashes while pictures are
\* wanted is the one the reference has, if the core is told of every state and
\* every load that its renderer has to survive.
Survives == ~leg.vulkan \/ (leg.saveTold /\ leg.loadTold) \/ ~(leg.rerecord \/ leg.rewind)
SamePictures ==
  Done /\ ~AxesMayDiffer /\ Survives =>
    \A p \in 1..pass : \A n \in Hashed :
      ~leg.turbo \/ leg.rewind \/ n > Half =>
        Digest(p, n).video = ref.digests[n].video
=============================================================================
