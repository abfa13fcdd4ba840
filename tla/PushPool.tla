------------------------------ MODULE PushPool ------------------------------
(***************************************************************************)
(* The push pools of the Vulkan renderer, as                               *)
(* patches/0003-chimera-the-vulkan-renderer-is-chimeras.patch leaves them  *)
(* (VulkanMemory.cpp, VulkanFrameData.cpp).                                *)
(*                                                                         *)
(* What the renderer pushes for the card, vertices above all, it writes    *)
(* into the mapped bytes of a block.  Through Chimera's bridge a mapping   *)
(* is a copy in the core's memory, and the card has of it what was         *)
(* flushed.  A pool fills one block after another through a frame, and     *)
(* starts the blocks of a frame again when that frame's turn comes back.   *)
(* A unit stands for the bytes of the smallest allocation; of what it holds *)
(* only whether the card has it too is modelled.                           *)
(***************************************************************************)
EXTENDS Integers, Sequences

CONSTANTS BlockSize,     \* originalBlockSize_, in units
          Inflight,      \* frames the card may be behind (MAX_INFLIGHT_FRAMES)
          AllocSize,     \* the sizes the renderer asks for
          MaxBlocks      \* bound: blocks of the pool

ASSUME PoolAssumption ==
  /\ BlockSize \in Nat \ {0}
  /\ Inflight \in Nat \ {0}
  /\ AllocSize \subseteq Nat \ {0}
  /\ MaxBlocks \in Nat

VARIABLES blocks,     \* blocks_
          cur,        \* curBlockIndex_, counted from 1
          frame,      \* the frame the renderer is in (GetCurFrame)
          submitted   \* the last step handed commands to the card

vars == <<blocks, cur, frame, submitted>>

Frame == 0..Inflight - 1
Common == -1    \* the frame of a block any frame may take

Block == [size     : Nat,
          used     : Nat,
          flushed  : Nat,                    \* chimeraFlushed
          frame    : Frame \cup {Common},
          original : BOOLEAN,                \* one of those the pool began with
          onCard   : SUBSET (Nat \ {0})]     \* the units the card has as written

\* CreateBlock, with nothing in it.
NewBlock(size, f, original) ==
  [size |-> size, used |-> 0, flushed |-> 0, frame |-> f, original |-> original,
   onCard |-> {}]

\* The constructor: one block for each frame.
Fresh == [i \in 1..Inflight |-> NewBlock(BlockSize, i - 1, TRUE)]

Init ==
  /\ blocks = Fresh
  /\ cur = 1
  /\ frame = 0
  /\ submitted = FALSE

Larger(a, b) == IF a < b THEN b ELSE a

-----------------------------------------------------------------------------
(* A block's part of the operations.  A definition named X_how is a mutant *)
(* of X: a mistake the properties below must notice.                       *)

\* The renderer writes n units at the end of what is used.
Pushed(b, n) ==
  [b EXCEPT !.used = @ + n, !.onCard = @ \ (b.used + 1..b.used + n)]

\* NextBlock takes a block over: its first n units are used, none is flushed.
Taken(b, n) ==
  [Pushed([b EXCEPT !.used = 0], n) EXCEPT !.frame = frame, !.flushed = 0]

\* BeginFrame starts the blocks of the frame again, and lets the others go.
Restarted_flushed(b, f) ==
  IF b.frame # f THEN b
  ELSE [b EXCEPT !.used = 0, !.frame = IF b.original THEN @ ELSE Common]
Restarted_kept(b, f) ==
  IF b.frame # f THEN b
  ELSE [b EXCEPT !.used = IF b.original THEN 0 ELSE @, !.flushed = 0,
                 !.frame = IF b.original THEN @ ELSE Common]
Restarted(b, f) ==
  IF b.frame # f THEN b
  ELSE [b EXCEPT !.used = 0, !.flushed = 0, !.frame = IF b.original THEN @ ELSE Common]

\* ChimeraFlush: what is used and not flushed goes to the card.
Flushed(b) ==
  LET from == IF b.used < b.flushed THEN 0 ELSE b.flushed
  IN  [b EXCEPT !.flushed = b.used,
                !.onCard = @ \cup (from + 1..b.used)]

-----------------------------------------------------------------------------
Fits(n) == blocks[cur].used + n <= blocks[cur].size

\* The blocks NextBlock may take over, after the current one.
Free(n) ==
  {i \in cur + 1..Len(blocks) :
     blocks[i].frame \in {frame, Common} /\ blocks[i].size >= n}

\* Allocate, and the write through the pointer it answers with.
Allocate(n) ==
  /\ submitted' = FALSE
  /\ UNCHANGED frame
  /\ \/ /\ Fits(n)
        /\ blocks' = [blocks EXCEPT ![cur] = Pushed(@, n)]
        /\ UNCHANGED cur
     \/ /\ ~Fits(n)
        /\ \E i \in Free(n) :
             /\ \A j \in Free(n) : i <= j
             /\ cur' = i
             /\ blocks' = [blocks EXCEPT ![i] = Taken(@, n)]
     \/ /\ ~Fits(n)
        /\ Free(n) = {}
        /\ Len(blocks) < MaxBlocks
        /\ cur' = Len(blocks) + 1
        /\ blocks' = Append(blocks,
             Pushed(NewBlock(Larger(2 * BlockSize, n), frame, FALSE), n))

\* The next frame, once the card is done with what it drew in its last turn.
BeginFrame ==
  LET f == (frame + 1) % Inflight
  IN  /\ frame' = f
      /\ blocks' = [i \in DOMAIN blocks |-> Restarted(blocks[i], f)]
      /\ \E i \in DOMAIN blocks :
           /\ blocks[i].frame = f
           /\ \A j \in DOMAIN blocks : blocks[j].frame = f => i <= j
           /\ cur' = i
      /\ submitted' = FALSE

\* FrameData::Submit flushes every pool first.
Submit ==
  /\ blocks' = [i \in DOMAIN blocks |-> Flushed(blocks[i])]
  /\ submitted' = TRUE
  /\ UNCHANGED <<cur, frame>>

\* DeviceLost and DeviceRestore: the pool is destroyed and made again.
Rebuild ==
  /\ blocks' = Fresh
  /\ cur' = 1
  /\ frame' = 0
  /\ submitted' = FALSE

Next ==
  \/ \E n \in AllocSize : Allocate(n)
  \/ BeginFrame
  \/ Submit
  \/ Rebuild

Spec == Init /\ [][Next]_vars

-----------------------------------------------------------------------------
(* Properties.                                                             *)

TypeOK ==
  /\ blocks \in Seq(Block)
  /\ cur \in DOMAIN blocks
  /\ frame \in Frame
  /\ submitted \in BOOLEAN

\* No block holds more than its room, nor was more of it flushed than is used:
\* the comparison in ChimeraFlush with what is flushed never has to help.
WithinBlock ==
  \A i \in DOMAIN blocks :
    blocks[i].flushed <= blocks[i].used /\ blocks[i].used <= blocks[i].size

\* "What the commands read has to be on the card first" (Submit): whatever the
\* card may read of any frame's blocks is what was written there last.  A frame
\* that writes more than the one before draws all of it from its own bytes.
CommandsReadWhatWasWritten ==
  submitted =>
    \A i \in DOMAIN blocks : 1..blocks[i].used \subseteq blocks[i].onCard

\* NextBlock's assertion, "block.used == 0": a block that can be taken over is
\* not in use, neither by this frame nor by one the card is still drawing.
Takeable(i) ==
  \/ blocks[i].frame = Common
  \/ blocks[i].frame = frame /\ i > cur

FreeIsUnused == \A i \in DOMAIN blocks : Takeable(i) => blocks[i].used = 0
=============================================================================
