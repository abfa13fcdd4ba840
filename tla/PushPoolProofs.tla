--------------------------- MODULE PushPoolProofs ---------------------------
(***************************************************************************)
(* Proofs about PushPool, for any number of frames in flight, any block    *)
(* size and any sizes the renderer asks for.  The invariant says of each   *)
(* block that what counts as flushed is on the card (Sound), that a step   *)
(* that hands commands over has flushed all that is used, and which blocks *)
(* belong to which frame.                                                  *)
(***************************************************************************)
EXTENDS PushPool, TLAPS

\* A block that does not hold more than its room, and whose flushed part, never
\* more than is used, the card has as written.
Sound(b) ==
  /\ b.flushed <= b.used
  /\ b.used <= b.size
  /\ 1..b.flushed \subseteq b.onCard

BlocksSound == \A i \in DOMAIN blocks : Sound(blocks[i])

\* After a Submit nothing is left to flush.
AllFlushed == submitted => \A i \in DOMAIN blocks : blocks[i].flushed = blocks[i].used

\* The blocks the pool began with are still there, each its frame's own.
OriginalsStay ==
  \A i \in 1..Inflight :
    i \in DOMAIN blocks /\ blocks[i].frame = i - 1 /\ blocks[i].original

\* The block that is being filled is the current frame's.
CurrentIsOurs == blocks[cur].frame = frame

PoolInv ==
  /\ TypeOK
  /\ BlocksSound
  /\ AllFlushed
  /\ OriginalsStay
  /\ CurrentIsOurs
  /\ FreeIsUnused

-----------------------------------------------------------------------------
(* What becomes of one block.                                              *)

\* Of a block written into.
LEMMA FieldsPushed ==
  ASSUME NEW b \in Block, NEW n \in Nat \ {0}
  PROVE  /\ Pushed(b, n) \in Block
         /\ Pushed(b, n).used = b.used + n
         /\ Pushed(b, n).onCard = b.onCard \ (b.used + 1..b.used + n)
         /\ Pushed(b, n).size = b.size
         /\ Pushed(b, n).flushed = b.flushed
         /\ Pushed(b, n).frame = b.frame
         /\ Pushed(b, n).original = b.original
<1> DEFINE u == b.used + n
           c == b.onCard \ (b.used + 1..b.used + n)
<1>1. u \in Nat /\ c \in SUBSET (Nat \ {0})
  BY DEF Block
<1>2. Pushed(b, n) = [b EXCEPT !.used = u, !.onCard = c]
  BY DEF Pushed
<1> HIDE DEF u, c
<1>3. /\ Pushed(b, n) \in Block
      /\ Pushed(b, n).used = u /\ Pushed(b, n).onCard = c
      /\ Pushed(b, n).size = b.size /\ Pushed(b, n).flushed = b.flushed
      /\ Pushed(b, n).frame = b.frame /\ Pushed(b, n).original = b.original
  BY <1>1, <1>2 DEF Block
<1> QED
  BY <1>3 DEF u, c

\* A fresh block is empty and sound.
LEMMA NewBlockSound ==
  ASSUME NEW size \in Nat, NEW f \in Frame, NEW original \in BOOLEAN
  PROVE  /\ NewBlock(size, f, original) \in Block
         /\ Sound(NewBlock(size, f, original))
         /\ NewBlock(size, f, original).size = size
         /\ NewBlock(size, f, original).used = 0
         /\ NewBlock(size, f, original).frame = f
         /\ NewBlock(size, f, original).original = original
BY DEF NewBlock, Block, Sound

\* Writing what there is room for leaves a block sound, and its frame alone.
LEMMA PushedSound ==
  ASSUME NEW b \in Block, NEW n \in Nat \ {0}, Sound(b), b.used + n <= b.size
  PROVE  /\ Pushed(b, n) \in Block
         /\ Sound(Pushed(b, n))
         /\ Pushed(b, n).frame = b.frame
         /\ Pushed(b, n).original = b.original
<1>1. b.used \in Nat /\ b.flushed \in Nat /\ b.size \in Nat
  BY DEF Block
<1>2. 1..b.flushed \subseteq b.onCard \ (b.used + 1..b.used + n)
  BY <1>1 DEF Sound
<1> DEFINE p == Pushed(b, n)
<1>3. /\ p \in Block /\ p.used = b.used + n /\ p.size = b.size
      /\ p.flushed = b.flushed /\ p.frame = b.frame /\ p.original = b.original
      /\ p.onCard = b.onCard \ (b.used + 1..b.used + n)
  BY FieldsPushed
<1> HIDE DEF p
<1>4. 1..p.flushed \subseteq p.onCard
  BY <1>2, <1>3
<1>5. p.flushed <= p.used /\ p.used <= p.size
  BY <1>1, <1>3 DEF Sound
<1>6. Sound(p)
  BY <1>4, <1>5 DEF Sound
<1> QED
  BY <1>3, <1>6 DEF p

\* A block that is taken over is sound and the frame's.
LEMMA TakenSound ==
  ASSUME NEW b \in Block, NEW n \in Nat \ {0}, n <= b.size, frame \in Frame
  PROVE  /\ Taken(b, n) \in Block
         /\ Sound(Taken(b, n))
         /\ Taken(b, n).frame = frame
         /\ Taken(b, n).original = b.original
<1> DEFINE empty == [b EXCEPT !.used = 0]
           full  == Pushed(empty, n)
<1>1. /\ empty \in Block /\ empty.used = 0 /\ empty.size = b.size
      /\ empty.original = b.original
  BY DEF Block
<1> HIDE DEF empty
<1>2. /\ full \in Block /\ full.used = n /\ full.size = b.size
      /\ full.original = b.original
  BY <1>1, FieldsPushed
<1> HIDE DEF full
<1> DEFINE t == [full EXCEPT !.frame = frame, !.flushed = 0]
<1>3. Taken(b, n) = t
  BY DEF Taken, full, empty
<1>4. t \in Block
  BY <1>2 DEF Block
<1>5. /\ t.used = n /\ t.flushed = 0 /\ t.size = b.size /\ t.frame = frame
      /\ t.original = b.original
  BY <1>2 DEF Block
<1> HIDE DEF t
<1>6. Sound(t)
  BY <1>5 DEF Sound, Block
<1> QED
  BY <1>3, <1>4, <1>5, <1>6

\* Starting a frame again empties its blocks and touches no other.
LEMMA RestartedSound ==
  ASSUME NEW b \in Block, NEW f \in Frame, Sound(b)
  PROVE  /\ Restarted(b, f) \in Block
         /\ Sound(Restarted(b, f))
         /\ Restarted(b, f).original = b.original
         /\ b.frame # f => Restarted(b, f) = b
         /\ b.frame = f => Restarted(b, f).used = 0
         /\ b.original => Restarted(b, f).frame = b.frame
<1>1. CASE b.frame # f
  <2>1. Restarted(b, f) = b
    BY <1>1 DEF Restarted
  <2> QED
    BY <1>1, <2>1
<1>2. CASE b.frame = f
  <2> DEFINE owner == IF b.original THEN b.frame ELSE Common
  <2>1. owner \in Frame \cup {Common} /\ (b.original => owner = b.frame)
    BY DEF Block
  <2> DEFINE r == [b EXCEPT !.used = 0, !.flushed = 0, !.frame = owner]
  <2>2. Restarted(b, f) = r
    BY <1>2 DEF Restarted
  <2> HIDE DEF owner
  <2>3. r \in Block
    BY <2>1 DEF Block
  <2>4. /\ r.used = 0 /\ r.flushed = 0 /\ r.frame = owner
        /\ r.size = b.size /\ r.size \in Nat /\ r.original = b.original
    BY <2>1 DEF Block
  <2> HIDE DEF r
  <2>5. Sound(r)
    BY <2>4 DEF Sound
  <2> QED
    BY <1>2, <2>1, <2>2, <2>3, <2>4, <2>5
<1> QED
  BY <1>1, <1>2

\* A flush leaves nothing unflushed and nothing else changed.
LEMMA FlushedSound ==
  ASSUME NEW b \in Block, Sound(b)
  PROVE  /\ Flushed(b) \in Block
         /\ Sound(Flushed(b))
         /\ Flushed(b).flushed = Flushed(b).used
         /\ Flushed(b).used = b.used
         /\ Flushed(b).frame = b.frame
         /\ Flushed(b).original = b.original
<1> DEFINE c == b.onCard \cup (b.flushed + 1..b.used)
<1>1. /\ b.used \in Nat /\ b.flushed \in Nat /\ b.size \in Nat
      /\ c \in SUBSET (Nat \ {0})
  BY DEF Block
<1>2. ~(b.used < b.flushed) /\ 1..b.used \subseteq c
  BY <1>1 DEF Sound
<1>3. Flushed(b) = [b EXCEPT !.flushed = b.used, !.onCard = c]
  BY <1>2 DEF Flushed
<1> HIDE DEF c
<1>4. /\ Flushed(b) \in Block
      /\ Flushed(b).flushed = b.used /\ Flushed(b).onCard = c
      /\ Flushed(b).used = b.used /\ Flushed(b).size = b.size
      /\ Flushed(b).frame = b.frame /\ Flushed(b).original = b.original
  BY <1>1, <1>3 DEF Block
<1> QED
  BY <1>1, <1>2, <1>4 DEF Sound

-----------------------------------------------------------------------------
(* The steps.                                                              *)

\* The constructor's blocks satisfy the invariant, at the start and after the
\* device is lost.
LEMMA FreshPool ==
  ASSUME blocks = Fresh, cur = 1, frame = 0, submitted = FALSE
  PROVE  PoolInv
<1>1. DOMAIN blocks = 1..Inflight /\ 1 \in DOMAIN blocks /\ 0 \in Frame
  BY PoolAssumption DEF Fresh, Frame
<1>2. \A i \in 1..Inflight :
        /\ blocks[i] \in Block /\ Sound(blocks[i])
        /\ blocks[i].frame = i - 1 /\ blocks[i].original /\ blocks[i].used = 0
  <2> SUFFICES ASSUME NEW i \in 1..Inflight
               PROVE  /\ blocks[i] \in Block /\ Sound(blocks[i])
                      /\ blocks[i].frame = i - 1 /\ blocks[i].original
                      /\ blocks[i].used = 0
    OBVIOUS
  <2>1. blocks[i] = NewBlock(BlockSize, i - 1, TRUE)
    BY DEF Fresh
  <2>2. i - 1 \in Frame /\ BlockSize \in Nat
    BY PoolAssumption DEF Frame
  <2>3. /\ NewBlock(BlockSize, i - 1, TRUE) \in Block
        /\ Sound(NewBlock(BlockSize, i - 1, TRUE))
        /\ NewBlock(BlockSize, i - 1, TRUE).frame = i - 1
        /\ NewBlock(BlockSize, i - 1, TRUE).original = TRUE
        /\ NewBlock(BlockSize, i - 1, TRUE).used = 0
    BY <2>2, NewBlockSound, Zenon
  <2> QED
    BY <2>1, <2>3
<1>3. blocks \in Seq(Block)
  <2>1. blocks = [i \in 1..Inflight |-> NewBlock(BlockSize, i - 1, TRUE)]
    BY DEF Fresh
  <2>2. blocks \in [1..Inflight -> Block]
    BY <1>2, <2>1
  <2> QED
    BY <2>2, PoolAssumption
<1>4. TypeOK /\ BlocksSound /\ AllFlushed
  BY <1>1, <1>2, <1>3 DEF TypeOK, BlocksSound, AllFlushed
<1>5. OriginalsStay /\ CurrentIsOurs
  BY <1>1, <1>2 DEF OriginalsStay, CurrentIsOurs
<1>6. FreeIsUnused
  BY <1>1, <1>2 DEF FreeIsUnused
<1> QED
  BY <1>4, <1>5, <1>6 DEF PoolInv

\* Writing keeps the invariant: into the current block, into one taken over or
\* into a new one.
LEMMA AllocateKeeps ==
  ASSUME PoolInv, NEW n \in AllocSize, Allocate(n)
  PROVE  PoolInv'
<1> USE DEF PoolInv
<1>1. n \in Nat \ {0}
  BY PoolAssumption
<1>2. /\ blocks \in Seq(Block) /\ cur \in DOMAIN blocks /\ frame \in Frame
      /\ submitted' = FALSE /\ frame' = frame
  BY DEF TypeOK, Allocate
<1>3. \A i \in DOMAIN blocks : blocks[i] \in Block /\ Sound(blocks[i])
  BY <1>2 DEF BlocksSound
<1>4. CASE Fits(n) /\ blocks' = [blocks EXCEPT ![cur] = Pushed(@, n)] /\ cur' = cur
  <2>1. Pushed(blocks[cur], n) \in Block /\ Sound(Pushed(blocks[cur], n))
        /\ Pushed(blocks[cur], n).frame = blocks[cur].frame
        /\ Pushed(blocks[cur], n).original = blocks[cur].original
    BY <1>1, <1>2, <1>3, <1>4, PushedSound DEF Fits
  <2>2. blocks' \in Seq(Block) /\ DOMAIN blocks' = DOMAIN blocks
    BY <1>2, <1>4, <2>1
  <2>3. blocks'[cur] = Pushed(blocks[cur], n)
    BY <1>2, <1>4
  <2>4. \A i \in DOMAIN blocks : i # cur => blocks'[i] = blocks[i]
    BY <1>2, <1>4
  <2>5. \A i \in DOMAIN blocks :
          /\ Sound(blocks'[i])
          /\ blocks'[i].frame = blocks[i].frame
          /\ blocks'[i].original = blocks[i].original
    BY <1>3, <2>1, <2>3, <2>4
  <2>6. TypeOK' /\ BlocksSound' /\ AllFlushed'
    BY <1>2, <1>4, <2>2, <2>5 DEF TypeOK, BlocksSound, AllFlushed
  <2>7. OriginalsStay' /\ CurrentIsOurs'
    BY <1>2, <1>4, <2>2, <2>5 DEF OriginalsStay, CurrentIsOurs
  <2>8. FreeIsUnused'
    <3>1. blocks[cur].frame # Common
      BY <1>2 DEF CurrentIsOurs, Frame, Common
    <3> QED
      BY <1>2, <1>4, <2>2, <2>4, <2>5, <3>1 DEF FreeIsUnused, Takeable
  <2> QED
    BY <2>6, <2>7, <2>8
<1>5. ASSUME NEW i \in Free(n), cur' = i, blocks' = [blocks EXCEPT ![i] = Taken(@, n)]
      PROVE  PoolInv'
  <2>1. /\ i \in DOMAIN blocks /\ i > cur
        /\ blocks[i].frame \in {frame, Common} /\ blocks[i].size >= n
    BY <1>2 DEF Free
  <2>2. Taken(blocks[i], n) \in Block /\ Sound(Taken(blocks[i], n))
        /\ Taken(blocks[i], n).frame = frame
        /\ Taken(blocks[i], n).original = blocks[i].original
    <3>1. blocks[i] \in Block /\ n <= blocks[i].size
      BY <1>1, <1>3, <2>1 DEF Block
    <3> QED
      BY <1>1, <1>2, <3>1, TakenSound
  <2>3. blocks' \in Seq(Block) /\ DOMAIN blocks' = DOMAIN blocks
    BY <1>2, <1>5, <2>1, <2>2
  <2>4. blocks'[i] = Taken(blocks[i], n)
    BY <1>2, <1>5, <2>1
  <2>5. \A j \in DOMAIN blocks : j # i => blocks'[j] = blocks[j]
    BY <1>2, <1>5, <2>1
  <2>6. TypeOK' /\ BlocksSound' /\ AllFlushed' /\ CurrentIsOurs'
    BY <1>2, <1>3, <1>5, <2>1, <2>2, <2>3, <2>4, <2>5
    DEF TypeOK, BlocksSound, AllFlushed, CurrentIsOurs
  <2>7. OriginalsStay'
    <3> SUFFICES ASSUME NEW j \in 1..Inflight
                 PROVE  /\ j \in DOMAIN blocks'
                        /\ blocks'[j].frame = j - 1 /\ blocks'[j].original
      BY DEF OriginalsStay
    <3>1. j \in DOMAIN blocks /\ blocks[j].frame = j - 1 /\ blocks[j].original
      BY DEF OriginalsStay
    <3>2. j - 1 # Common
      BY DEF Common
    <3> QED
      BY <2>1, <2>2, <2>3, <2>4, <2>5, <3>1, <3>2
  <2>8. FreeIsUnused'
    <3>1. frame # Common
      BY <1>2 DEF Frame, Common
    <3>2. \A j \in DOMAIN blocks : j > i => j # i /\ j > cur
      BY <1>2, <2>1
    <3> QED
      BY <1>2, <1>5, <2>2, <2>3, <2>4, <2>5, <3>1, <3>2 DEF FreeIsUnused, Takeable
  <2> QED
    BY <2>6, <2>7, <2>8
<1>6. ASSUME cur' = Len(blocks) + 1,
             blocks' = Append(blocks,
               Pushed(NewBlock(Larger(2 * BlockSize, n), frame, FALSE), n))
      PROVE  PoolInv'
  <2> DEFINE room == Larger(2 * BlockSize, n)
             new  == Pushed(NewBlock(room, frame, FALSE), n)
  <2>1. room \in Nat /\ n <= room
    BY <1>1, PoolAssumption DEF Larger
  <2>2. new \in Block /\ Sound(new) /\ new.frame = frame
    <3> DEFINE b == NewBlock(room, frame, FALSE)
    <3>1. new = Pushed(b, n)
      OBVIOUS
    <3> HIDE DEF room, new
    <3>2. b \in Block /\ Sound(b) /\ b.used = 0 /\ b.size = room /\ b.frame = frame
      BY <1>2, <2>1, NewBlockSound
    <3> HIDE DEF b
    <3>3. b.used + n <= b.size
      BY <1>1, <2>1, <3>2
    <3> QED
      BY <1>1, <3>1, <3>2, <3>3, PushedSound
  <2>3. blocks' = Append(blocks, new)
    BY <1>6
  <2> HIDE DEF new
  <2>4. /\ blocks' \in Seq(Block)
        /\ Len(blocks) \in Nat
        /\ DOMAIN blocks = 1..Len(blocks)
        /\ DOMAIN blocks' = 1..Len(blocks) + 1
        /\ blocks'[Len(blocks) + 1] = new
        /\ \A j \in DOMAIN blocks : blocks'[j] = blocks[j]
    BY <1>2, <2>2, <2>3
  <2>5. \A j \in DOMAIN blocks' : j \in DOMAIN blocks \/ j = Len(blocks) + 1
    BY <2>4
  <2>6. TypeOK' /\ BlocksSound' /\ AllFlushed' /\ CurrentIsOurs'
    <3>1. Len(blocks) + 1 \in DOMAIN blocks'
      BY <2>4
    <3> QED
      BY <1>2, <1>3, <1>6, <2>2, <2>4, <2>5, <3>1
      DEF TypeOK, BlocksSound, AllFlushed, CurrentIsOurs
  <2>7. OriginalsStay'
    BY <2>4 DEF OriginalsStay
  <2>8. FreeIsUnused'
    <3>1. frame # Common
      BY <1>2 DEF Frame, Common
    <3>2. \A j \in DOMAIN blocks' : ~(j > Len(blocks) + 1)
      BY <2>4
    <3> QED
      BY <1>2, <1>6, <2>2, <2>4, <2>5, <3>1, <3>2 DEF FreeIsUnused, Takeable
  <2> QED
    BY <2>6, <2>7, <2>8
<1> QED
  BY <1>4, <1>5, <1>6 DEF Allocate

\* So does starting the next frame: the first of its blocks is the one it began
\* with, so that the current block does not go to the others.
LEMMA BeginFrameKeeps ==
  ASSUME PoolInv, BeginFrame
  PROVE  PoolInv'
<1> USE DEF PoolInv
<1>1. blocks \in Seq(Block) /\ frame \in Frame /\ submitted' = FALSE
  BY DEF TypeOK, BeginFrame
<1>2. PICK f \in Frame :
        f = (frame + 1) % Inflight /\ frame' = f
        /\ blocks' = [i \in DOMAIN blocks |-> Restarted(blocks[i], f)]
  <2>1. (frame + 1) % Inflight \in Frame
    BY <1>1, PoolAssumption DEF Frame
  <2> QED
    BY <2>1 DEF BeginFrame
<1>3. \A i \in DOMAIN blocks : blocks[i] \in Block /\ Sound(blocks[i])
  BY <1>1 DEF BlocksSound
<1>4. \A i \in DOMAIN blocks :
        /\ blocks'[i] \in Block /\ Sound(blocks'[i])
        /\ blocks'[i].original = blocks[i].original
        /\ blocks[i].frame # f => blocks'[i] = blocks[i]
        /\ blocks[i].frame = f => blocks'[i].used = 0
        /\ blocks[i].original => blocks'[i].frame = blocks[i].frame
  BY <1>2, <1>3, RestartedSound
<1>5. DOMAIN blocks' = DOMAIN blocks /\ blocks' \in Seq(Block)
  BY <1>1, <1>2, <1>4
<1>6. PICK i \in DOMAIN blocks :
        /\ blocks[i].frame = f
        /\ \A j \in DOMAIN blocks : blocks[j].frame = f => i <= j
        /\ cur' = i
  BY <1>2 DEF BeginFrame
<1>7. i = f + 1
  <2>1. f + 1 \in 1..Inflight /\ f \in Nat
    BY PoolAssumption DEF Frame
  <2>2. f + 1 \in DOMAIN blocks /\ blocks[f + 1].frame = f
    BY <2>1 DEF OriginalsStay
  <2>3. i <= f + 1 /\ i \in Nat /\ i >= 1
    BY <1>1, <1>6, <2>2
  <2>4. i \in 1..Inflight
    BY <2>1, <2>3, PoolAssumption
  <2>5. blocks[i].frame = i - 1
    BY <2>4 DEF OriginalsStay
  <2> QED
    BY <1>6, <2>1, <2>3, <2>5
<1>8. TypeOK' /\ BlocksSound' /\ AllFlushed'
  BY <1>1, <1>2, <1>4, <1>5, <1>6 DEF TypeOK, BlocksSound, AllFlushed
<1>9. OriginalsStay'
  BY <1>4, <1>5 DEF OriginalsStay
<1>10. CurrentIsOurs'
  <2>1. blocks[i].original
    BY <1>7, PoolAssumption DEF OriginalsStay, Frame
  <2> QED
    BY <1>2, <1>4, <1>6, <2>1 DEF CurrentIsOurs
<1>11. FreeIsUnused'
  <2>1. \A j \in DOMAIN blocks : blocks[j].frame # f => blocks'[j] = blocks[j]
    BY <1>4
  <2>2. \A j \in DOMAIN blocks : blocks[j].frame = Common => blocks[j].used = 0
    BY DEF FreeIsUnused, Takeable
  <2> QED
    BY <1>2, <1>4, <1>5, <2>1, <2>2 DEF FreeIsUnused, Takeable
<1> QED
  BY <1>8, <1>9, <1>10, <1>11

\* And a Submit, after which all that is used is flushed.
LEMMA SubmitKeeps ==
  ASSUME PoolInv, Submit
  PROVE  PoolInv'
<1> USE DEF PoolInv
<1>1. /\ blocks \in Seq(Block) /\ cur' = cur /\ frame' = frame /\ submitted' = TRUE
      /\ blocks' = [i \in DOMAIN blocks |-> Flushed(blocks[i])]
  BY DEF TypeOK, Submit
<1>2. \A i \in DOMAIN blocks : blocks[i] \in Block /\ Sound(blocks[i])
  BY <1>1 DEF BlocksSound
<1>3. \A i \in DOMAIN blocks :
        /\ blocks'[i] \in Block /\ Sound(blocks'[i])
        /\ blocks'[i].flushed = blocks'[i].used
        /\ blocks'[i].used = blocks[i].used
        /\ blocks'[i].frame = blocks[i].frame
        /\ blocks'[i].original = blocks[i].original
  BY <1>1, <1>2, FlushedSound
<1>4. DOMAIN blocks' = DOMAIN blocks /\ blocks' \in Seq(Block)
  BY <1>1, <1>3
<1> QED
  BY <1>1, <1>3, <1>4
  DEF TypeOK, BlocksSound, AllFlushed, OriginalsStay, CurrentIsOurs, FreeIsUnused,
      Takeable

\* The pool always is as PoolInv says.
THEOREM PoolAlways == Spec => []PoolInv
<1>1. Init => PoolInv
  BY FreshPool DEF Init
<1>2. PoolInv /\ [Next]_vars => PoolInv'
  <2> SUFFICES ASSUME PoolInv, [Next]_vars
               PROVE  PoolInv'
    OBVIOUS
  <2>1. ASSUME NEW n \in AllocSize, Allocate(n)
        PROVE  PoolInv'
    BY <2>1, AllocateKeeps
  <2>2. CASE BeginFrame
    BY <2>2, BeginFrameKeeps
  <2>3. CASE Submit
    BY <2>3, SubmitKeeps
  <2>4. CASE Rebuild
    <3>1. blocks' = Fresh /\ cur' = 1 /\ frame' = 0 /\ submitted' = FALSE
      BY <2>4 DEF Rebuild
    <3>2. (blocks = Fresh /\ cur = 1 /\ frame = 0 /\ submitted = FALSE => PoolInv)'
      BY FreshPool, PTL
    <3> QED
      BY <3>1, <3>2 DEF Fresh, NewBlock
  <2>5. CASE UNCHANGED vars
    BY <2>5 DEF vars, PoolInv, TypeOK, BlocksSound, AllFlushed, OriginalsStay,
       CurrentIsOurs, FreeIsUnused, Takeable
  <2> QED
    BY <2>1, <2>2, <2>3, <2>4, <2>5 DEF Next
<1> QED
  BY <1>1, <1>2, PTL DEF Spec

-----------------------------------------------------------------------------
(* The properties of PushPool.                                             *)

\* The pool's state keeps its types.
THEOREM PoolTyped == Spec => []TypeOK
BY PoolAlways, PTL DEF PoolInv

\* No block is written past its room, and ChimeraFlush's comparison of what is
\* used with what is flushed never finds less used.
THEOREM BlocksStayWithin == Spec => []WithinBlock
<1>1. PoolInv => WithinBlock
  BY DEF PoolInv, BlocksSound, Sound, WithinBlock
<1> QED
  BY <1>1, PoolAlways, PTL

\* What is handed to the card is read by it as it was written, whatever frames
\* came before: the title screen that drew with the last frame's vertices
\* (VulkanMemory.cpp) cannot come back.
THEOREM CardReadsWhatWasWritten == Spec => []CommandsReadWhatWasWritten
<1>1. PoolInv => CommandsReadWhatWasWritten
  BY DEF PoolInv, BlocksSound, Sound, AllFlushed, CommandsReadWhatWasWritten
<1> QED
  BY <1>1, PoolAlways, PTL

\* NextBlock's assertion cannot fail.
THEOREM TakenBlocksAreFree == Spec => []FreeIsUnused
BY PoolAlways, PTL DEF PoolInv
=============================================================================
