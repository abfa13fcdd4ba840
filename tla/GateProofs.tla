----------------------------- MODULE GateProofs -----------------------------
(***************************************************************************)
(* Theorems about the equivalence gate, for any movies, options of run-wbx *)
(* and number of frames.                                                   *)
(*                                                                         *)
(* Neither host is compared with the other.  Each is shown to hear and to  *)
(* draw what the movie says: after n frames it has heard To(m, a, n), and  *)
(* what is on the screen is all it had heard when something was last held  *)
(* (IsShown).  A state that is loaded takes the machine back to an earlier *)
(* n, and the invariant says of the state what it says of the machine.     *)
(***************************************************************************)
EXTENDS Gate, SequenceTheorems, WellFoundedInduction, TLAPS

-----------------------------------------------------------------------------
(* Numbers and recursion.                                                  *)

\* A set of numbers that is not empty has a least element.
LEMMA LeastNumber ==
  ASSUME NEW T \in SUBSET Nat, T # {}
  PROVE  \E n \in T : \A m \in T : n <= m
<1>. DEFINE Less == OpToRel(<, Nat)
<1>1. IsWellFoundedOn(Less, Nat)
  BY NatLessThanWellFounded
<1>2. PICK n \in T : \A m \in T : ~(<<m, n>> \in Less)
  <2>. HIDE DEF Less
  <2>. QED BY <1>1, WFMin
<1>3. \A m \in T : <<m, n>> \in Less <=> m < n
  BY DEF OpToRel
<1>. HIDE DEF Less
<1>4. \A m \in T : n <= m
  <2>. TAKE m \in T
  <2>1. m \in Nat /\ n \in Nat /\ ~(m < n)
    BY <1>2, <1>3
  <2>. QED BY <2>1
<1>. QED BY <1>4

\* A set that holds 0, and with a number below n the next, holds all up to n.
LEMMA Counting ==
  ASSUME NEW n \in Nat, NEW T, 0 \in T,
         \A i \in 0..n : i \in T /\ i < n => i + 1 \in T
  PROVE  \A i \in 0..n : i \in T
<1>. DEFINE Missing == {i \in 0..n : i \notin T}
<1>. SUFFICES ASSUME Missing # {} PROVE FALSE
  OBVIOUS
<1>1. Missing \in SUBSET Nat
  OBVIOUS
<1>2. PICK i \in Missing : \A m \in Missing : i <= m
  <2>. HIDE DEF Missing
  <2>. QED BY <1>1, LeastNumber
<1>3. i # 0 /\ i - 1 \in 0..n /\ i - 1 < n /\ ~(i <= i - 1)
  OBVIOUS
<1>4. i - 1 \in T
  BY <1>2, <1>3
<1>. QED BY <1>3, <1>4

\* w begins with a, and F[i] takes each step from i - 1 to i.
Steps(w, A, a, F, n) ==
  w \in [0..n -> A] /\ w[0] = a /\ \A i \in 1..n : w[i] = F[i][w[i - 1]]

\* A function of 0..n may be defined by its value at 0 and a step.
LEMMA Recursion ==
  ASSUME NEW A, NEW a \in A, NEW F \in [Nat -> [A -> A]], NEW n \in Nat
  PROVE  \E w : Steps(w, A, a, F, n)
<1>. DEFINE Good(w, m) == w[0] = a /\ \A i \in 1..m : w[i] = F[i][w[i - 1]]
            Has(m) == \E w \in [0..m -> A] : Good(w, m)
            T == {m \in 0..n : Has(m)}
<1>1. Has(0)
  <2>1. /\ [i \in 0..0 |-> a] \in [0..0 -> A]
        /\ Good([i \in 0..0 |-> a], 0)
    OBVIOUS
  <2>. HIDE DEF Good
  <2>. QED BY <2>1
<1>2. ASSUME NEW m \in 0..n, Has(m), m < n PROVE Has(m + 1)
  <2>1. PICK w \in [0..m -> A] : Good(w, m)
    BY <1>2
  <2>. DEFINE v == [i \in 0..m + 1 |-> IF i = m + 1 THEN F[m + 1][w[m]] ELSE w[i]]
  <2>2. v \in [0..m + 1 -> A]
    OBVIOUS
  <2>3. Good(v, m + 1)
    <3>1. v[0] = a /\ \A i \in 0..m : v[i] = w[i]
      BY <2>1
    <3>2. v[m + 1] = F[m + 1][v[m]]
      BY <3>1
    <3>3. \A i \in 1..m : v[i] = F[i][v[i - 1]]
      BY <2>1, <3>1
    <3>. HIDE DEF v
    <3>. QED BY <3>1, <3>2, <3>3
  <2>. HIDE DEF v, Good
  <2>. QED BY <2>2, <2>3
<1>. HIDE DEF Has
<1>3. 0 \in T /\ \A m \in 0..n : m \in T /\ m < n => m + 1 \in T
  BY <1>1, <1>2
<1>4. n \in T
  <2>. HIDE DEF T
  <2>1. \A m \in 0..n : m \in T
    BY <1>3, Counting
  <2>. QED BY <2>1
<1>. QED BY <1>4 DEF Has, Steps

-----------------------------------------------------------------------------
(* What a movie m makes of a machine, with SetAxis or without (a).          *)

\* The reference has the stick in the word.
Packed == FALSE

Moved(a, w) ==
  IF a THEN <<P!Clamped(w.x - 128), P!Clamped(128 - w.y)>> ELSE P!Unpacked(w.x, w.y)
HeardIn(m, a, n) ==
  [held |-> NativeWord(m, n).buttons, stick |-> Moved(a, NativeWord(m, n))]
To(m, a, n) == [i \in 1..n |-> HeardIn(m, a, i - 1)]

\* Of n frames the l-th was the last that drew, and it left this picture.
Drawn(m, n) == NativeWord(m, n).buttons # {}
LastDrawn(m, l, n) == (l = 0 \/ Drawn(m, l - 1)) /\ \A i \in l..n - 1 : ~Drawn(m, i)
IsShown(m, a, pic, n) == \E l \in 0..n : LastDrawn(m, l, n) /\ pic = To(m, a, l)

-----------------------------------------------------------------------------
(* The invariant.                                                          *)

IsASequence(s) == s \in Seq(Range(s))

\* Where main can be.
Place == {"native", "turbo", "save", "load", "frame", "done"}
LoopOK ==
  /\ at \in Place /\ f \in 0..Frames /\ pass \in {1, 2}
  /\ pass = 2 => leg.rewind /\ f >= Half
  /\ at = "native" => f = 0 /\ pass = 1
  /\ at \in {"turbo", "save", "frame"} => f < Frames
  /\ at = "turbo" => leg.turbo /\ ~leg.rewind
  /\ at \in {"save", "load"} => leg.rewind \/ leg.rerecord
  /\ at = "save" /\ leg.rewind => f = Half /\ pass = 1
  /\ at = "load" => IF leg.rewind THEN f = Frames /\ pass = 1 ELSE f < Frames
  /\ at = "done" => f = Frames /\ (leg.rewind => pass = 2)

\* The reference after k frames.
RefAfter(m, r, k) ==
  /\ r.heard = To(m, Packed, k)
  /\ DOMAIN r.pad = {"prev", "held"} /\ r.pad.held = r.pad.prev
  /\ IsShown(m, Packed, r.canvas, k)
  /\ IsASequence(r.digests) /\ Len(r.digests) = k
  /\ \A n \in 1..k : /\ r.digests[n].audio = HeardIn(m, Packed, n - 1)
                     /\ IsShown(m, Packed, r.digests[n].video, n)
RefOK ==
  \E k \in 0..Frames : /\ RefAfter(movie, ref, k)
                       /\ at = "native" => k < Frames
                       /\ at # "native" => k = Frames

\* The core's memory after n frames, but for the parts below.
CoreAfter(l, m, a, g, n) ==
  /\ DOMAIN g = {"heard", "canvas", "rendering", "buffer", "video"}
  /\ g.heard = To(m, a, n)
  /\ ~l.vulkan => IsShown(m, a, g.canvas, n)

\* The controller's between two frames.
PadOK(p, a) ==
  /\ DOMAIN p = {"prev", "held", "stick", "axis", "axisMode"}
  /\ p.held = p.prev
  /\ p.axisMode => a

\* The renderer's after n frames: what is on the live device d is what is shown;
VkFields == {"context", "device", "image", "loaded", "block", "current", "usable"}
Settled(m, a, v, c, d, n) ==
  /\ DOMAIN v = VkFields /\ DOMAIN v.image \subseteq {"canvas"}
  /\ ~v.loaded
  /\ v.device \in {0, d}
  /\ IF "canvas" \in DOMAIN v.image THEN v.device = d /\ IsShown(m, a, c["canvas"], n)
                                    ELSE IsShown(m, a, <<>>, n)
\* or it has just been loaded, and what is shown is in its block;
Loaded(m, a, v, d, n) ==
  /\ DOMAIN v = VkFields /\ DOMAIN v.image \subseteq {"canvas"}
  /\ v.loaded
  /\ v.device \in 0..d - 1
  /\ IF "canvas" \in DOMAIN v.image
       THEN v.usable /\ "canvas" \in DOMAIN v.block /\ IsShown(m, a, v.block["canvas"], n)
       ELSE IsShown(m, a, <<>>, n)
\* and what a state is taken of has it there.
Taken(m, a, v, d, n) ==
  /\ DOMAIN v = VkFields /\ DOMAIN v.image \subseteq {"canvas"}
  /\ v.device \in 0..d
  /\ IF "canvas" \in DOMAIN v.image
       THEN v.current /\ "canvas" \in DOMAIN v.block /\ IsShown(m, a, v.block["canvas"], n)
       ELSE IsShown(m, a, <<>>, n)

CoreOK ==
  /\ axes \in BOOLEAN
  /\ CoreAfter(leg, movie, axes, mem, f) /\ PadOK(pad, axes)
  /\ DOMAIN padStates = {"st"} /\ DOMAIN vkStates = {"st"}

VulkanOK ==
  leg.vulkan /\ Survives =>
    /\ live \in Nat \ {0} /\ DOMAIN card = {"canvas"}
    /\ \/ Settled(movie, axes, vk, card, live, f)
       \/ at = "frame" /\ Loaded(movie, axes, vk, live, f)

\* Pictures are wanted, of the n-th frame or of the one that is next.
Always(l) == ~l.turbo \/ l.rewind
WantedOf(l, n) == Always(l) \/ n > Half
WantedNow(l, n) == Always(l) \/ n >= Half
RenderOK ==
  Always(leg) \/ (at \in {"save", "load", "frame"} /\ f >= Half) => render /\ mem.rendering

\* The state that is going to be loaded, and the frames it was taken after.
ToBeLoaded == at = "load" \/ (leg.rewind /\ pass = 1 /\ at = "frame" /\ f >= Half)
TakenAfter == IF leg.rewind THEN Half ELSE f
StateOK ==
  ToBeLoaded =>
    /\ CoreAfter(leg, movie, axes, memState, TakenAfter)
    /\ PadOK(padStates["st"].memory, axes)
    /\ WantedNow(leg, f) => memState.rendering
    /\ leg.vulkan /\ Survives => Taken(movie, axes, vkStates["st"], live, TakenAfter)

\* What was hashed in a pass.
FirstHashed(l) == IF l.rewind THEN Half ELSE 0
HashedIn(l, p) ==
  IF p < pass THEN Frames - FirstHashed(l)
  ELSE IF p = pass /\ f > FirstHashed(l) THEN f - FirstHashed(l)
  ELSE 0
DigestAfter(l, m, a, d, n) ==
  /\ d.audio = HeardIn(m, a, n - 1)
  /\ Survives /\ WantedOf(l, n) => IsShown(m, a, d.video, n)
DigestsOK ==
  /\ DOMAIN digests = 1..2
  /\ \A p \in 1..2 :
       /\ IsASequence(digests[p]) /\ Len(digests[p]) = HashedIn(leg, p)
       /\ \A i \in 1..HashedIn(leg, p) :
            DigestAfter(leg, movie, axes, digests[p][i], FirstHashed(leg) + i)

GateInv ==
  /\ movie \in Movies
  /\ LoopOK /\ RefOK /\ CoreOK /\ VulkanOK /\ RenderOK /\ StateOK /\ DigestsOK

-----------------------------------------------------------------------------
(* The inputs.                                                             *)

\* The lines of a movie are lines.
LEMMA LinesTyped ==
  ASSUME NEW m \in Seq(Line)
  PROVE  Lines(m) \in Seq(Line)
<1>. DEFINE n == Len(m)
            A == Seq(Line)
            F == [i \in Nat |-> [k \in A |-> IF i \in 1..n THEN Filtered(k, m[i]) ELSE k]]
            Step(w) == [i \in 0..n |-> IF i = 0 THEN <<>> ELSE Filtered(w[i - 1], m[i])]
<1>1. n \in Nat /\ \A i \in 1..n : m[i] \in Line
  OBVIOUS
<1>2. F \in [Nat -> [A -> A]]
  <2>1. ASSUME NEW k \in A, NEW line \in Line PROVE Filtered(k, line) \in A
    BY AppendProperties DEF Filtered
  <2>. HIDE DEF A, n
  <2>. QED BY <1>1, <2>1
<1>3. <<>> \in A
  BY EmptySeq
<1>4. \E w : Steps(w, A, <<>>, F, n)
  <2>. HIDE DEF F, n, A
  <2>. QED BY <1>1, <1>2, <1>3, Recursion
<1>5. PICK w : w \in [0..n -> A] /\ w[0] = <<>> /\ \A i \in 1..n : w[i] = F[i][w[i - 1]]
  BY <1>4 DEF Steps
<1>6. \A i \in 1..n : w[i] = Filtered(w[i - 1], m[i])
  <2>. HIDE DEF A, n
  <2>1. ASSUME NEW i \in 1..n PROVE w[i] = Filtered(w[i - 1], m[i])
    <3>1. i - 1 \in 0..n /\ i \in Nat
      BY <1>1
    <3>2. w[i - 1] \in A
      BY <1>5, <3>1
    <3>. QED BY <1>5, <3>1, <3>2
  <2>. QED BY <2>1
<1>7. w = Step(w)
  <2>. HIDE DEF A, F, n
  <2>. QED BY <1>1, <1>5, <1>6
<1>. DEFINE chosen == CHOOSE kept : kept = Step(kept)
<1>8. Lines(m) = chosen[n]
  BY DEF Lines
<1>9. chosen = Step(chosen)
  <2>. HIDE DEF Step
  <2>. QED BY <1>7, Zenon
<1>10. \E v : v = Step(v) /\ Lines(m) = v[n]
  <2>. HIDE DEF chosen, Step
  <2>. QED BY <1>8, <1>9
<1>11. PICK v : v = Step(v) /\ Lines(m) = v[n]
  BY <1>10
<1>. HIDE DEF chosen
<1>12. v[0] = <<>> /\ \A i \in 1..n : v[i] = Filtered(v[i - 1], m[i])
  <2>. HIDE DEF n
  <2>. QED BY <1>1, <1>11
<1>. DEFINE T == {j \in 0..n : v[j] \in A}
<1>13. 0 \in T /\ \A i \in 0..n : i \in T /\ i < n => i + 1 \in T
  <2>1. ASSUME NEW k \in A, NEW line \in Line PROVE Filtered(k, line) \in A
    BY AppendProperties DEF Filtered
  <2>. HIDE DEF n, Step, F, A
  <2>2. 0 \in 0..n /\ \A i \in 0..n : i < n => i + 1 \in 1..n /\ i + 1 \in 0..n /\ (i + 1) - 1 = i
    BY <1>1
  <2>. QED BY <1>1, <1>3, <1>12, <2>1, <2>2
<1>14. n \in T
  <2>. HIDE DEF T, n
  <2>1. \A i \in 0..n : i \in T
    BY <1>1, <1>13, Counting
  <2>. QED BY <1>1, <2>1
<1>. QED BY <1>11, <1>14

\* A byte of a movie is a byte.
LEMMA Bytes ==
  ASSUME NEW v \in Int
  PROVE  /\ P!Clamped(v) \in -128..127
         /\ v \in -128..127 => P!Clamped(v) = v
         /\ Byte(v) \in 0..255 /\ Byte(v) - 128 = P!Clamped(v)
         /\ v > -128 => Byte(v) # 0
         /\ SameSide(P!Clamped(v), v)
<1>1. CASE v < -128
  BY <1>1 DEF P!Clamped, Byte, SameSide
<1>2. CASE v > 127
  BY <1>2 DEF P!Clamped, Byte, SameSide
<1>3. CASE v \in -128..127
  BY <1>3 DEF P!Clamped, Byte, SameSide
<1>. QED BY <1>1, <1>2, <1>3

\* The letters are the buttons: through the bits, and the map of the bits.
LEMMA TheLetters ==
  ASSUME NEW i \in 1..12
  PROVE  /\ Bit[i] + 1 \in 1..12
         /\ ButtonMap[Bit[i] + 1] = Letters[i]
         /\ ButtonMap[Bit[i] + 1] \in Range(ButtonMap)
<1>1. /\ Bit[i] + 1 \in 1..12
      /\ ButtonMap[Bit[i] + 1] = Letters[i]
  <2>1. i \in {1, 2, 3, 4, 5, 6, 7, 8, 9, 10, 11, 12}
    OBVIOUS
  <2>. QED BY <2>1 DEF Bit, ButtonMap, Letters
<1>2. DOMAIN ButtonMap = 1..12
  BY DEF ButtonMap
<1>. QED BY <1>1, <1>2 DEF Range

\* A frame's word.
LEMMA Words ==
  ASSUME NEW m \in Movies, NEW n \in 0..Frames - 1
  PROVE  NativeWord(m, n) \in InWord /\ Word(m, n) = NativeWord(m, n)
<1>1. m \in Seq(Line) /\ Pattern \in [1..Frames -> InWord] /\ Frames \in Nat
  BY InputsAssumption, FramesAssumption
<1>2. Pattern[n + 1] \in InWord
  BY <1>1
<1>3. P!NoInput \in InWord
  BY DEF P!NoInput, InWord
<1>4. ASSUME NEW line \in Line PROVE ParseSolLine(line) \in InWord
  <2>1. line.lx \in Int /\ line.ly \in Int /\ line.letters \in SUBSET (1..12)
    BY DEF Line
  <2>2. Byte(line.lx) \in 0..255 /\ Byte(line.ly) \in 0..255
    BY <2>1, Bytes
  <2>3. {ButtonMap[Bit[i] + 1] : i \in line.letters} \in SUBSET Range(ButtonMap)
    BY <2>1, TheLetters
  <2>. QED BY <2>2, <2>3 DEF ParseSolLine, InWord
<1>5. LoadMovie(m) = [i \in 1..Len(Lines(m)) |-> ParseSolLine(Lines(m)[i])]
  BY DEF LoadMovie
<1>6. Lines(m) \in Seq(Line)
  BY <1>1, LinesTyped
<1>7. n < Len(LoadMovie(m)) => LoadMovie(m)[n + 1] \in InWord
  <2>1. PICK ls : ls = Lines(m)
    OBVIOUS
  <2>2. Len(ls) \in Nat /\ \A i \in 1..Len(ls) : ls[i] \in Line
    BY <1>6, <2>1
  <2>3. Len(LoadMovie(m)) = Len(ls) /\ \A i \in 1..Len(ls) : LoadMovie(m)[i] = ParseSolLine(ls[i])
    BY <1>5, <2>1, <2>2
  <2>. QED BY <1>4, <2>2, <2>3
<1>. QED BY <1>2, <1>3, <1>7 DEF NativeWord, Word

-----------------------------------------------------------------------------
(* What is heard and shown.                                                *)

\* The middle of the run is inside it.
LEMMA HalfInside == Half \in 1..Frames - 1
BY FramesAssumption DEF Half

\* One frame more is heard.
LEMMA HearsOneMore ==
  ASSUME NEW m, NEW a, NEW n \in Nat
  PROVE  /\ Append(To(m, a, n), HeardIn(m, a, n)) = To(m, a, n + 1)
         /\ DOMAIN To(m, a, n) = 1..n /\ Len(To(m, a, n)) = n
<1>1. PICK h : h = [i \in 1..n + 1 |-> HeardIn(m, a, i - 1)]
  OBVIOUS
<1>2. \A i \in 1..n + 1 : h[i] = HeardIn(m, a, i - 1)
  BY <1>1
<1>3. h[n + 1] = HeardIn(m, a, n)
  BY <1>2
<1>4. PICK g : g = [i \in 1..n |-> h[i]]
  OBVIOUS
<1>5. To(m, a, n) = g
  BY <1>2, <1>4 DEF To
<1>6. Append(g, h[n + 1]) = h
  <2>0. PICK S : S = Range(h)
    OBVIOUS
  <2>1. g \in Seq(S) /\ h[n + 1] \in S /\ Len(g) = n
    <3>1. \A i \in 1..n + 1 : h[i] \in S
      BY <1>1, <2>0 DEF Range
    <3>. QED BY <1>4, <3>1
  <2>2. PICK k : k = Append(g, h[n + 1])
    OBVIOUS
  <2>3. DOMAIN k = 1..n + 1 /\ \A i \in 1..n + 1 : k[i] = h[i]
    BY <1>4, <2>1, <2>2
  <2>4. k = [i \in 1..n + 1 |-> k[i]]
    BY <2>1, <2>2, <2>3, AppendProperties
  <2>5. h = [i \in 1..n + 1 |-> h[i]]
    BY <1>1
  <2>. QED BY <2>2, <2>3, <2>4, <2>5
<1>7. To(m, a, n + 1) = h
  BY <1>1 DEF To
<1>8. DOMAIN g = 1..n /\ Len(g) = n
  BY <1>4
<1>. QED BY <1>3, <1>5, <1>6, <1>7, <1>8

\* Before the first frame nothing is heard or shown.
LEMMA NothingYet ==
  ASSUME NEW m, NEW a
  PROVE  <<>> = To(m, a, 0) /\ IsShown(m, a, <<>>, 0)
<1>1. <<>> = To(m, a, 0)
  BY DEF To
<1>2. LastDrawn(m, 0, 0) /\ 0 \in 0..0
  BY DEF LastDrawn
<1>. QED BY <1>1, <1>2 DEF IsShown

\* A frame that draws shows all that was heard, and one that does not leaves the
\* picture.
LEMMA DrawsAnew ==
  ASSUME NEW m, NEW a, NEW n \in Nat, Drawn(m, n)
  PROVE  IsShown(m, a, To(m, a, n + 1), n + 1)
<1>1. LastDrawn(m, n + 1, n + 1) /\ n + 1 \in 0..n + 1
  BY DEF LastDrawn
<1>. QED BY <1>1 DEF IsShown

LEMMA DrawsNothing ==
  ASSUME NEW m, NEW a, NEW n \in Nat, ~Drawn(m, n), NEW pic, IsShown(m, a, pic, n)
  PROVE  IsShown(m, a, pic, n + 1)
<1>1. PICK l \in 0..n : LastDrawn(m, l, n) /\ pic = To(m, a, l)
  BY DEF IsShown
<1>2. \A i \in l..(n + 1) - 1 : i = n \/ i \in l..n - 1
  OBVIOUS
<1>3. LastDrawn(m, l, n + 1) /\ l \in 0..n + 1
  BY <1>1, <1>2 DEF LastDrawn
<1>. QED BY <1>1, <1>3 DEF IsShown

\* After n frames there is one picture that is shown.
LEMMA OnePicture ==
  ASSUME NEW m, NEW a, NEW n \in Nat, NEW p, NEW q, IsShown(m, a, p, n), IsShown(m, a, q, n)
  PROVE  p = q
<1>1. PICK k \in 0..n : LastDrawn(m, k, n) /\ p = To(m, a, k)
  BY DEF IsShown
<1>2. PICK l \in 0..n : LastDrawn(m, l, n) /\ q = To(m, a, l)
  BY DEF IsShown
<1>3. ~(k < l)
  <2>1. k < l => l # 0 /\ l - 1 \in k..n - 1
    OBVIOUS
  <2>. QED BY <1>1, <1>2, <2>1 DEF LastDrawn
<1>4. ~(l < k)
  <2>1. l < k => k # 0 /\ k - 1 \in l..n - 1
    OBVIOUS
  <2>. QED BY <1>1, <1>2, <2>1 DEF LastDrawn
<1>. QED BY <1>1, <1>2, <1>3, <1>4

\* Both ways to hand the stick over say the same, unless it is all the way up.
LEMMA WaysAgree ==
  ASSUME NEW w \in InWord, w.y # 0
  PROVE  /\ Moved(TRUE, w) = <<w.x - 128, P!Clamped(128 - w.y)>>
         /\ Moved(FALSE, w) = <<w.x - 128, 128 - w.y>>
         /\ P!Clamped(128 - w.y) = 128 - w.y
<1>1. w.x \in 0..255 /\ w.y \in 1..255
  BY DEF InWord
<1>2. w.x - 128 \in -128..127 /\ 128 - w.y \in -128..127
  BY <1>1
<1>3. P!Clamped(w.x - 128) = w.x - 128 /\ P!Clamped(128 - w.y) = 128 - w.y
  <2>1. \A v \in -128..127 : P!Clamped(v) = v
    BY Bytes
  <2>. QED BY <1>2, <2>1
<1>4. P!Int8(w.x - 128) = w.x - 128 /\ P!Int8(128 - w.y) = 128 - w.y
  BY <1>1 DEF P!Int8
<1>. QED BY <1>1, <1>3, <1>4 DEF Moved, P!Unpacked

LEMMA SameEitherWay ==
  ASSUME NEW m \in Movies, NEW n \in 0..Frames - 1, NativeWord(m, n).y # 0, NEW a \in BOOLEAN
  PROVE  HeardIn(m, a, n) = HeardIn(m, Packed, n)
<1>1. NativeWord(m, n) \in InWord
  BY Words
<1>2. PICK w : w = NativeWord(m, n)
  OBVIOUS
<1>3. Moved(TRUE, w) = Moved(Packed, w)
  BY <1>1, <1>2, WaysAgree DEF Packed
<1>4. Moved(a, w) = Moved(Packed, w)
  <2>1. CASE a = TRUE
    BY <1>3, <2>1
  <2>2. CASE a = FALSE
    BY <2>2 DEF Packed
  <2>. QED BY <2>1, <2>2
<1>. QED BY <1>2, <1>4 DEF HeardIn

\* A sequence with one more at its end.
LEMMA OneMore ==
  ASSUME NEW s, IsASequence(s), NEW e
  PROVE  /\ IsASequence(Append(s, e)) /\ Len(Append(s, e)) = Len(s) + 1 /\ Len(s) \in Nat
         /\ Append(s, e)[Len(s) + 1] = e
         /\ \A i \in 1..Len(s) : Append(s, e)[i] = s[i]
<1>1. PICK S : S = Range(s) \cup {e}
  OBVIOUS
<1>2. s \in Seq(S) /\ e \in S
  <2>1. s \in Seq(Range(s)) /\ Range(s) \subseteq S
    BY <1>1 DEF IsASequence
  <2>. QED BY <1>1, <2>1, SeqMonotonic
<1>3. PICK t : t = Append(s, e)
  OBVIOUS
<1>4. /\ t \in Seq(S) /\ Len(t) = Len(s) + 1 /\ Len(s) \in Nat
      /\ t[Len(s) + 1] = e /\ \A i \in 1..Len(s) : t[i] = s[i]
  BY <1>2, <1>3, AppendProperties
<1>5. \A i \in 1..Len(t) : t[i] \in Range(t)
  BY <1>4 DEF Range
<1>6. t \in Seq(Range(t))
  BY <1>4, <1>5
<1>. QED BY <1>3, <1>4, <1>6 DEF IsASequence

-----------------------------------------------------------------------------
(* The parts of the core.                                                  *)

\* A frame tells the controller what the frame's word has, whichever way the
\* stick is handed over.
LEMMA PadFrame ==
  ASSUME axes \in BOOLEAN, PadOK(pad, axes), NEW w \in InWord, P!FrameAdvance(w)
  PROVE  /\ PadOK(pad', axes')
         /\ pad'.held = w.buttons /\ pad'.stick = Moved(axes, w)
         /\ axes' = axes /\ padStates' = padStates
<1>1. PICK told : told = IF axes THEN P!AxesSet(pad, w.x, w.y) ELSE pad
  OBVIOUS
<1>2. /\ DOMAIN told = {"prev", "held", "stick", "axis", "axisMode"}
      /\ told.held = pad.held /\ told.prev = pad.prev
      /\ axes => told.axisMode /\ told.axis = <<P!Clamped(w.x - 128), P!Clamped(128 - w.y)>>
      /\ ~axes => ~told.axisMode
  BY <1>1 DEF PadOK, P!AxesSet
<1>3. PICK stick : stick = IF told.axisMode THEN told.axis ELSE P!Unpacked(w.x, w.y)
  OBVIOUS
<1>4. stick = Moved(axes, w)
  BY <1>2, <1>3 DEF Moved
<1>5. pad' = [P!Pressed(told, w.buttons) EXCEPT !.stick = stick]
  BY <1>1, <1>3 DEF P!FrameAdvance
<1>6. (told.held \ (told.prev \ w.buttons)) \cup (w.buttons \ told.prev) = w.buttons
  BY <1>2 DEF PadOK
<1>7. /\ DOMAIN pad' = {"prev", "held", "stick", "axis", "axisMode"}
      /\ pad'.held = w.buttons /\ pad'.prev = w.buttons /\ pad'.stick = stick
      /\ pad'.axisMode = told.axisMode
  BY <1>2, <1>5, <1>6 DEF P!Pressed
<1>8. axes' = axes /\ padStates' = padStates
  BY DEF P!FrameAdvance
<1>9. pad'.axisMode => axes
  BY <1>2, <1>7
<1>. QED BY <1>4, <1>7, <1>8, <1>9 DEF PadOK

\* What the head of a frame makes of a machine that has been running: nothing.
LEMMA GoesOn ==
  ASSUME live \in Nat \ {0}, NEW m, NEW a, NEW n \in Nat, Settled(m, a, vk, card, live, n)
  PROVE  /\ Settled(m, a, V!Checked(vk), V!CheckedCard(vk), live, n)
         /\ V!Checked(vk).device = live
         /\ DOMAIN card = {"canvas"} => DOMAIN V!CheckedCard(vk) = {"canvas"}
<1>1. ~V!MustRebuild(vk)
  BY DEF V!MustRebuild, V!NoDevice, Settled
<1>2. V!Checked(vk) = V!Noted(vk) /\ V!CheckedCard(vk) = card
  BY <1>1 DEF V!Checked, V!CheckedCard
<1>3. PICK g : g = V!Noted(vk)
  OBVIOUS
<1>4. DOMAIN g = VkFields /\ g.image = vk.image /\ ~g.loaded /\ g.device = live
  BY <1>3 DEF V!Noted, Settled, VkFields
<1>. QED BY <1>2, <1>3, <1>4 DEF Settled

\* What it makes of a machine that has been loaded: the picture comes back.
LEMMA ComesBack ==
  ASSUME live \in Nat \ {0}, NEW m, NEW a, NEW n \in Nat, Loaded(m, a, vk, live, n)
  PROVE  /\ Settled(m, a, V!Checked(vk), V!CheckedCard(vk), live, n)
         /\ V!Checked(vk).device = live
         /\ DOMAIN V!CheckedCard(vk) = {"canvas"}
<1>1. V!MustRebuild(vk)
  BY DEF V!MustRebuild, V!NoDevice, Loaded
<1>2. PICK h : h = V!Rebuilt(vk)
  OBVIOUS
<1>3. DOMAIN h = VkFields /\ DOMAIN h.image = DOMAIN vk.image
  BY <1>2 DEF V!Rebuilt, V!Framebufs, Loaded, VkFields
<1>4. PICK g : g = V!Noted(h)
  OBVIOUS
<1>5. DOMAIN g = VkFields /\ g.image = h.image /\ ~g.loaded /\ g.device = live
  BY <1>3, <1>4 DEF V!Noted, VkFields
<1>6. V!Checked(vk) = g
  BY <1>1, <1>2, <1>4 DEF V!Checked
<1>7. PICK c : c = V!CheckedCard(vk)
  OBVIOUS
<1>8. /\ DOMAIN c = {"canvas"}
      /\ "canvas" \in DOMAIN vk.image => c["canvas"] = vk.block["canvas"]
  BY <1>1, <1>2, <1>3, <1>7 DEF V!CheckedCard, V!Framebufs, V!Restored, Loaded
<1>. QED BY <1>3, <1>5, <1>6, <1>7, <1>8 DEF Settled, Loaded

\* A frame leaves on the card what is shown after it.
LEMMA VulkanFrame ==
  ASSUME live \in Nat \ {0}, DOMAIN card = {"canvas"}, NEW m, NEW a, NEW n \in Nat,
         Settled(m, a, vk, card, live, n) \/ Loaded(m, a, vk, live, n),
         NEW onto, onto = IF Drawn(m, n) THEN {"canvas"} ELSE {},
         V!Frame(onto, {}, [c \in onto |-> To(m, a, n + 1)])
  PROVE  /\ Settled(m, a, vk', card', live', n + 1)
         /\ live' = live /\ DOMAIN card' = {"canvas"} /\ vkStates' = vkStates
<1>1. PICK g, c : g = V!Checked(vk) /\ c = V!CheckedCard(vk)
  OBVIOUS
<1>2. Settled(m, a, g, c, live, n) /\ g.device = live /\ DOMAIN c = {"canvas"}
  BY <1>1, GoesOn, ComesBack
<1>3. live' = live /\ vkStates' = vkStates
  BY DEF V!Frame
<1>4. PICK pics : pics = [x \in onto |-> To(m, a, n + 1)]
  OBVIOUS
<1>5. /\ vk' = [g EXCEPT !.image = [x \in (V!Framebufs(g) \ {}) \cup onto |->
                                      IF x \in V!Framebufs(g) THEN g.image[x] ELSE g.context]]
      /\ card' = [x \in {"canvas"} |-> IF x \in onto THEN pics[x] ELSE c[x]]
  <2>1. card' = [x \in {"canvas"} |-> CASE x \in onto -> pics[x]
                                        [] x \in {}   -> <<>>
                                        [] OTHER      -> c[x]]
    BY <1>1, <1>4 DEF V!Frame
  <2>. QED BY <1>1, <2>1 DEF V!Frame
<1>6. /\ DOMAIN vk' = VkFields /\ ~vk'.loaded /\ vk'.device = live
      /\ DOMAIN vk'.image = DOMAIN g.image \cup onto
  BY <1>2, <1>5 DEF Settled, VkFields, V!Framebufs
<1>7. CASE Drawn(m, n)
  <2>1. card'["canvas"] = To(m, a, n + 1) /\ DOMAIN card' = {"canvas"}
    BY <1>4, <1>5, <1>7
  <2>2. IsShown(m, a, To(m, a, n + 1), n + 1)
    BY <1>7, DrawsAnew
  <2>. QED BY <1>2, <1>3, <1>6, <1>7, <2>1, <2>2 DEF Settled
<1>8. CASE ~Drawn(m, n)
  <2>1. card'["canvas"] = c["canvas"] /\ DOMAIN card' = {"canvas"} /\ onto = {}
    BY <1>5, <1>8
  <2>2. \A pic : IsShown(m, a, pic, n) => IsShown(m, a, pic, n + 1)
    BY <1>8, DrawsNothing
  <2>. QED BY <1>2, <1>3, <1>6, <1>8, <2>1, <2>2 DEF Settled
<1>. QED BY <1>7, <1>8

\* A state that the core was told of has what is shown.
LEMMA VulkanSave ==
  ASSUME live \in Nat \ {0}, DOMAIN card = {"canvas"}, DOMAIN vkStates = {"st"},
         NEW m, NEW a, NEW n \in Nat, Settled(m, a, vk, card, live, n),
         NEW told, told, V!SaveState("st", told)
  PROVE  /\ Settled(m, a, vk', card', live', n) /\ Taken(m, a, vkStates'["st"], live', n)
         /\ live' = live /\ DOMAIN card' = {"canvas"} /\ DOMAIN vkStates' = {"st"}
<1>1. /\ live' = live /\ card' = card /\ DOMAIN vkStates' = {"st"}
      /\ vkStates'["st"] = vk'
  BY DEF V!SaveState
<1>2. CASE V!MayCopy
  <2>1. PICK stored \in V!Stored(vk) : vk' = V!Copied(vk, stored)
    BY <1>2 DEF V!SaveState
  <2>2. "canvas" \in DOMAIN vk.image => "canvas" \in stored
    BY <2>1 DEF V!Stored, V!Framebufs
  <2>3. /\ DOMAIN vk' = VkFields /\ vk'.image = vk.image /\ vk'.device = vk.device
        /\ vk'.loaded = vk.loaded /\ vk'.current
        /\ vk'.block = [x \in stored |-> card[x]]
    BY <2>1 DEF V!Copied, Settled, VkFields
  <2>4. Settled(m, a, vk', card', live', n)
    BY <1>1, <2>3 DEF Settled
  <2>5. Taken(m, a, vk', live', n)
    BY <1>1, <2>2, <2>3 DEF Settled, Taken
  <2>. QED BY <1>1, <2>4, <2>5
<1>3. CASE ~V!MayCopy
  <2>1. vk' = vk /\ "canvas" \notin DOMAIN vk.image
    BY <1>3 DEF V!SaveState, V!MayCopy, Settled
  <2>. QED BY <1>1, <2>1 DEF Settled, Taken
<1>. QED BY <1>2, <1>3

\* A load that the core is told of brings it.
LEMMA VulkanLoad ==
  ASSUME live \in Nat \ {0}, NEW m, NEW a, NEW n \in Nat, Taken(m, a, vkStates["st"], live, n),
         NEW told, told, V!LoadState("st", told)
  PROVE  /\ Loaded(m, a, vk', live', n)
         /\ live' \in Nat \ {0} /\ DOMAIN card' = {"canvas"} /\ vkStates' = vkStates
<1>1. /\ live' = live + 1 /\ DOMAIN card' = {"canvas"} /\ vkStates' = vkStates
      /\ vk' = V!Told(vkStates["st"])
  BY DEF V!LoadState, V!NewDevice
<1>2. PICK s : s = vkStates["st"]
  OBVIOUS
<1>3. /\ DOMAIN vk' = VkFields /\ vk'.image = s.image /\ vk'.device = s.device
      /\ vk'.loaded /\ vk'.usable = s.current /\ vk'.block = s.block
  BY <1>1, <1>2 DEF V!Told, Taken, VkFields
<1>. QED BY <1>1, <1>2, <1>3 DEF Taken, Loaded

-----------------------------------------------------------------------------
(* The invariant holds at the start.                                       *)

LEMMA GateBegins == GateInit => GateInv
<1>. SUFFICES ASSUME GateInit PROVE GateInv
  OBVIOUS
<1>1. /\ movie \in Movies /\ at = "native" /\ f = 0 /\ pass = 1
      /\ ref = NativeStart /\ render = TRUE /\ digests = [p \in 1..2 |-> <<>>]
      /\ memState = mem /\ axes \in BOOLEAN
      /\ mem = [heard |-> <<>>, canvas |-> <<>>, rendering |-> TRUE, buffer |-> <<>>,
                video |-> <<>>]
  BY DEF GateInit, P!Init
<1>2. Half \in 1..Frames - 1 /\ Frames \in Nat /\ FirstHashed(leg) \in 0..Frames - 1
  BY HalfInside, FramesAssumption DEF FirstHashed
<1>3. LoopOK
  BY <1>1, <1>2 DEF LoopOK, Place
<1>4. RefOK
  <2>1. /\ ref.heard = <<>> /\ ref.canvas = <<>> /\ ref.digests = <<>>
        /\ DOMAIN ref.pad = {"prev", "held"} /\ ref.pad.held = ref.pad.prev
    BY <1>1 DEF NativeStart
  <2>2. IsASequence(<<>>) /\ Len(<<>>) = 0
    BY EmptySeq DEF IsASequence
  <2>3. <<>> = To(movie, Packed, 0) /\ IsShown(movie, Packed, <<>>, 0)
    BY NothingYet
  <2>4. RefAfter(movie, ref, 0)
    BY <2>1, <2>2, <2>3 DEF RefAfter
  <2>. QED BY <1>1, <1>2, <2>4 DEF RefOK
<1>5. CoreOK
  <2>1. PadOK(pad, axes) /\ DOMAIN padStates = {"st"}
    BY DEF GateInit, P!Init, PadOK
  <2>2. DOMAIN vkStates = {"st"}
    BY DEF GateInit, V!Init
  <2>3. CoreAfter(leg, movie, axes, mem, f)
    BY <1>1, NothingYet DEF CoreAfter
  <2>. QED BY <1>1, <2>1, <2>2, <2>3 DEF CoreOK
<1>6. VulkanOK
  <2>1. live = 1 /\ DOMAIN card = {"canvas"} /\ vk = V!Booted(1)
    BY DEF GateInit, V!Init
  <2>2. DOMAIN vk = VkFields /\ DOMAIN vk.image = {} /\ ~vk.loaded /\ vk.device = 0
    BY <2>1 DEF V!Booted, V!NoDevice, VkFields
  <2>3. Settled(movie, axes, vk, card, live, f)
    BY <1>1, <2>1, <2>2, NothingYet DEF Settled
  <2>. QED BY <2>1, <2>3 DEF VulkanOK
<1>7. RenderOK
  BY <1>1 DEF RenderOK
<1>8. StateOK
  BY <1>1, <1>2 DEF StateOK, ToBeLoaded
<1>9. DigestsOK
  <2>1. \A p \in 1..2 : HashedIn(leg, p) = 0
    BY <1>1, <1>2 DEF HashedIn
  <2>2. \A p \in 1..2 : digests[p] = <<>>
    BY <1>1
  <2>3. IsASequence(<<>>) /\ Len(<<>>) = 0 /\ DOMAIN digests = 1..2
    BY <1>1, EmptySeq DEF IsASequence
  <2>. QED BY <2>1, <2>2, <2>3 DEF DigestsOK
<1>. QED BY <1>1, <1>3, <1>4, <1>5, <1>6, <1>7, <1>8, <1>9 DEF GateInv

-----------------------------------------------------------------------------
(* The steps keep it.                                                      *)

\* What a step leaves alone is as it was.
LEMMA SurvivesStays ==
  ASSUME leg' = leg PROVE Survives' <=> Survives
BY DEF Survives

LEMMA DigestsStay ==
  ASSUME DigestsOK, leg' = leg, movie' = movie, axes' = axes, digests' = digests,
         f' = f, pass' = pass
  PROVE  DigestsOK'
<1>1. \A p : HashedIn(leg, p)' = HashedIn(leg, p)
  BY DEF HashedIn
<1>2. \A d, n : DigestAfter(leg, movie, axes, d, n)' <=> DigestAfter(leg, movie, axes, d, n)
  BY SurvivesStays DEF DigestAfter
<1>. QED BY <1>1, <1>2 DEF DigestsOK

LEMMA ReferenceStays ==
  ASSUME RefOK, ref' = ref, movie' = movie, at # "native", at' # "native"
  PROVE  RefOK'
BY DEF RefOK

\* The step that changes the reference: one frame of it.
LEMMA ReferenceFrame ==
  ASSUME NEW m \in Movies, NEW k \in 0..Frames - 1, RefAfter(m, ref, k)
  PROVE  RefAfter(m, NativeFrame(ref, NativeWord(m, k)), k + 1) /\ Len(ref.heard) = k
<1>1. k \in Nat /\ Frames \in Nat
  BY FramesAssumption
<1>2. PICK w : w = NativeWord(m, k)
  OBVIOUS
<1>3. PICK p : p = P!Pressed(ref.pad, w.buttons)
  OBVIOUS
<1>4. (ref.pad.held \ (ref.pad.prev \ w.buttons)) \cup (w.buttons \ ref.pad.prev) = w.buttons
  BY DEF RefAfter
<1>5. DOMAIN p = {"prev", "held"} /\ p.held = w.buttons /\ p.prev = w.buttons
  BY <1>3, <1>4 DEF P!Pressed, RefAfter
<1>6. PICK hears : hears = [held |-> p.held, stick |-> P!Unpacked(w.x, w.y)]
  OBVIOUS
<1>7. hears = HeardIn(m, Packed, k)
  BY <1>2, <1>5, <1>6 DEF HeardIn, Moved, Packed
<1>8. PICK heard : heard = Append(ref.heard, hears)
  OBVIOUS
<1>9. heard = To(m, Packed, k + 1) /\ Len(ref.heard) = k
  <2>1. /\ Append(To(m, Packed, k), HeardIn(m, Packed, k)) = To(m, Packed, k + 1)
        /\ Len(To(m, Packed, k)) = k
    BY <1>1, HearsOneMore
  <2>2. ref.heard = To(m, Packed, k)
    BY DEF RefAfter
  <2>. QED BY <1>7, <1>8, <2>1, <2>2
<1>10. PICK shown : shown = IF Draws(p) THEN heard ELSE ref.canvas
  OBVIOUS
<1>11. IsShown(m, Packed, shown, k + 1)
  <2>1. Draws(p) <=> Drawn(m, k)
    BY <1>2, <1>5 DEF Draws, Drawn
  <2>2. CASE Drawn(m, k)
    BY <1>1, <1>9, <1>10, <2>1, <2>2, DrawsAnew
  <2>3. CASE ~Drawn(m, k)
    BY <1>1, <1>10, <2>1, <2>3, DrawsNothing DEF RefAfter
  <2>. QED BY <2>2, <2>3
<1>12. PICK e : e = [video |-> shown, audio |-> hears]
  OBVIOUS
<1>13. PICK ds : ds = Append(ref.digests, e)
  OBVIOUS
<1>14. /\ IsASequence(ds) /\ Len(ds) = k + 1 /\ ds[k + 1] = e
       /\ \A n \in 1..k : ds[n] = ref.digests[n]
  BY <1>13, OneMore DEF RefAfter
<1>15. NativeFrame(ref, w) = [pad |-> p, heard |-> heard, canvas |-> shown, digests |-> ds]
  BY <1>3, <1>6, <1>8, <1>10, <1>12, <1>13 DEF NativeFrame
<1>16. ASSUME NEW n \in 1..k + 1
       PROVE  ds[n].audio = HeardIn(m, Packed, n - 1) /\ IsShown(m, Packed, ds[n].video, n)
  <2>1. CASE n = k + 1
    <3>1. n - 1 = k /\ ds[n] = e /\ e.audio = hears /\ e.video = shown
      BY <1>1, <1>12, <1>14, <2>1
    <3>. QED BY <1>7, <1>11, <2>1, <3>1
  <2>2. CASE n \in 1..k
    <3>1. ds[n] = ref.digests[n]
      BY <1>14, <2>2
    <3>. QED BY <2>2, <3>1 DEF RefAfter
  <2>. QED BY <1>1, <2>1, <2>2
<1>17. PICK r : r = NativeFrame(ref, w)
  OBVIOUS
<1>18. /\ r.pad = p /\ r.heard = heard /\ r.canvas = shown /\ r.digests = ds
  BY <1>15, <1>17
<1>19. RefAfter(m, r, k + 1)
  BY <1>5, <1>9, <1>11, <1>14, <1>16, <1>18 DEF RefAfter
<1>. QED BY <1>2, <1>9, <1>17, <1>19

LEMMA RunNativeStep ==
  ASSUME GateInv, RunNative PROVE GateInv'
<1>1. /\ at = "native" /\ at' = IF Len(ref.heard) + 1 = Frames THEN LoopHead(leg) ELSE at
      /\ ref' = NativeFrame(ref, NativeWord(movie, Len(ref.heard)))
      /\ leg' = leg /\ movie' = movie /\ f' = f /\ pass' = pass /\ render' = render
      /\ digests' = digests /\ mem' = mem /\ memState' = memState
  BY DEF RunNative
<1>2. /\ pad' = pad /\ padStates' = padStates /\ axes' = axes
      /\ live' = live /\ card' = card /\ vk' = vk /\ vkStates' = vkStates
  BY DEF RunNative, padVars, vkVars
<1>3. Half \in 1..Frames - 1 /\ Frames \in Nat
  BY HalfInside, FramesAssumption
<1>4. f = 0 /\ pass = 1 /\ movie \in Movies
  BY <1>1 DEF GateInv, LoopOK
<1>5. LoopHead(leg) \in {"turbo", "save", "frame"}
  BY DEF LoopHead
<1>6. at' \in {"native", "turbo", "save", "frame"}
  BY <1>1, <1>5
<1>7. LoopOK'
  <2>1. at' = "turbo" => leg.turbo /\ ~leg.rewind
    BY <1>1 DEF LoopHead
  <2>2. at' = "save" => leg.rerecord /\ ~leg.rewind
    BY <1>1 DEF LoopHead
  <2>. QED BY <1>1, <1>3, <1>4, <1>6, <2>1, <2>2 DEF LoopOK, Place
<1>8. RefOK'
  <2>1. PICK k \in 0..Frames - 1 : RefAfter(movie, ref, k)
    BY <1>1, <1>3 DEF GateInv, RefOK
  <2>2. RefAfter(movie, ref', k + 1) /\ Len(ref.heard) = k
    BY <1>1, <1>4, <2>1, ReferenceFrame
  <2>3. k + 1 \in 0..Frames /\ (at' = "native" => k + 1 < Frames) /\ (at' # "native" => k + 1 = Frames)
    BY <1>1, <1>3, <1>5, <2>1, <2>2
  <2>. QED BY <1>1, <2>2, <2>3 DEF RefOK
<1>9. CoreOK'
  BY <1>1, <1>2 DEF GateInv, CoreOK
<1>10. VulkanOK'
  BY <1>1, <1>2, SurvivesStays DEF GateInv, VulkanOK
<1>11. RenderOK'
  BY <1>1, <1>3, <1>4 DEF GateInv, RenderOK
<1>12. StateOK'
  BY <1>1, <1>3, <1>4, <1>6 DEF StateOK, ToBeLoaded
<1>13. DigestsOK'
  BY <1>1, <1>2, DigestsStay DEF GateInv
<1>. QED BY <1>1, <1>4, <1>7, <1>8, <1>9, <1>10, <1>11, <1>12, <1>13 DEF GateInv

LEMMA SetRenderingStep ==
  ASSUME GateInv, SetRenderingEnabled PROVE GateInv'
<1>1. /\ at = "turbo" /\ at' = IF leg.rerecord THEN "save" ELSE "frame"
      /\ ref' = ref /\ leg' = leg /\ movie' = movie /\ f' = f /\ pass' = pass
      /\ digests' = digests /\ memState' = memState
      /\ render' = Rendering(f) /\ mem' = [mem EXCEPT !.rendering = Rendering(f)]
  BY DEF SetRenderingEnabled
<1>2. /\ pad' = pad /\ padStates' = padStates /\ axes' = axes
      /\ live' = live /\ card' = card /\ vk' = vk /\ vkStates' = vkStates
  BY DEF SetRenderingEnabled, padVars, vkVars
<1>3. leg.turbo /\ ~leg.rewind /\ f \in 0..Frames /\ f < Frames
  BY <1>1 DEF GateInv, LoopOK
<1>4. at' \in {"save", "frame"} /\ (at' = "save" => leg.rerecord)
  BY <1>1
<1>5. LoopOK'
  BY <1>1, <1>3, <1>4 DEF GateInv, LoopOK, Place
<1>6. RefOK'
  BY <1>1, <1>4, ReferenceStays DEF GateInv
<1>7. CoreOK'
  <2>1. /\ DOMAIN mem' = DOMAIN mem /\ mem'.heard = mem.heard /\ mem'.canvas = mem.canvas
    BY <1>1 DEF GateInv, CoreOK, CoreAfter
  <2>. QED BY <1>1, <1>2, <2>1 DEF GateInv, CoreOK, CoreAfter
<1>8. VulkanOK'
  BY <1>1, <1>2, SurvivesStays DEF GateInv, VulkanOK
<1>9. RenderOK'
  <2>1. f >= Half => render' /\ mem'.rendering
    BY <1>1 DEF Rendering, GateInv, CoreOK, CoreAfter
  <2>. QED BY <1>1, <1>3, <2>1 DEF RenderOK, Always
<1>10. StateOK'
  BY <1>1, <1>3, <1>4 DEF StateOK, ToBeLoaded
<1>11. DigestsOK'
  BY <1>1, <1>2, DigestsStay DEF GateInv
<1>. QED BY <1>1, <1>5, <1>6, <1>7, <1>8, <1>9, <1>10, <1>11 DEF GateInv

LEMMA SaveStep ==
  ASSUME GateInv, Save PROVE GateInv'
<1>1. /\ at = "save" /\ at' = IF leg.rewind THEN "frame" ELSE "load"
      /\ ref' = ref /\ leg' = leg /\ movie' = movie /\ f' = f /\ pass' = pass
      /\ render' = render /\ digests' = digests /\ mem' = mem /\ memState' = mem
  BY DEF Save, SaveState, Goto
<1>2. /\ pad' = pad /\ axes' = axes /\ DOMAIN padStates' = {"st"}
      /\ padStates'["st"].memory = pad
  BY DEF Save, SaveState, P!SaveState, GateInv, CoreOK
<1>3. /\ leg.rewind \/ leg.rerecord
      /\ f \in 0..Frames /\ f < Frames
      /\ leg.rewind => f = Half /\ pass = 1
  BY <1>1 DEF GateInv, LoopOK
<1>4. at' \in {"load", "frame"} /\ (at' = "frame" <=> leg.rewind)
  BY <1>1
<1>5. LoopOK'
  BY <1>1, <1>3, <1>4 DEF GateInv, LoopOK, Place
<1>6. RefOK'
  BY <1>1, <1>4, ReferenceStays DEF GateInv
<1>7. f \in Nat /\ TakenAfter' = f
  BY <1>1, <1>3, FramesAssumption DEF TakenAfter
<1>8. DOMAIN vkStates' = {"st"}
  BY DEF Save, SaveState, V!SaveState, vkVars, GateInv, CoreOK
<1>9. CoreOK'
  BY <1>1, <1>2, <1>8 DEF GateInv, CoreOK, CoreAfter
<1>10. Survives' <=> Survives
  BY <1>1, SurvivesStays
<1>11. leg.vulkan /\ Survives =>
         /\ Settled(movie, axes, vk', card', live', f)
         /\ Taken(movie, axes, vkStates'["st"], live', f)
         /\ live' \in Nat \ {0} /\ DOMAIN card' = {"canvas"}
  <2>. SUFFICES ASSUME leg.vulkan, Survives
                PROVE  /\ Settled(movie, axes, vk', card', live', f)
                       /\ Taken(movie, axes, vkStates'["st"], live', f)
                       /\ live' \in Nat \ {0} /\ DOMAIN card' = {"canvas"}
    OBVIOUS
  <2>1. leg.saveTold /\ V!SaveState("st", leg.saveTold)
    BY <1>3 DEF Survives, Save, SaveState
  <2>2. /\ live \in Nat \ {0} /\ DOMAIN card = {"canvas"} /\ DOMAIN vkStates = {"st"}
        /\ Settled(movie, axes, vk, card, live, f)
    BY <1>1 DEF GateInv, VulkanOK, CoreOK
  <2>. QED BY <1>7, <2>1, <2>2, VulkanSave
<1>12. VulkanOK'
  BY <1>1, <1>2, <1>10, <1>11 DEF VulkanOK
<1>13. RenderOK'
  BY <1>1, <1>3 DEF GateInv, RenderOK
<1>14. StateOK'
  <2>1. CoreAfter(leg, movie, axes, mem, f) /\ PadOK(pad, axes)
    BY DEF GateInv, CoreOK
  <2>2. WantedNow(leg, f) => mem.rendering
    BY <1>1 DEF WantedNow, GateInv, RenderOK
  <2>. QED BY <1>1, <1>2, <1>7, <1>10, <1>11, <2>1, <2>2 DEF StateOK
<1>15. DigestsOK'
  BY <1>1, <1>2, DigestsStay DEF GateInv
<1>. QED BY <1>1, <1>5, <1>6, <1>9, <1>12, <1>13, <1>14, <1>15 DEF GateInv

LEMMA LoadStep ==
  ASSUME GateInv, Load PROVE GateInv'
<1>1. /\ at = "load" /\ at' = "frame"
      /\ IF leg.rewind THEN f' = Half /\ pass' = 2 ELSE f' = f /\ pass' = pass
      /\ ref' = ref /\ leg' = leg /\ movie' = movie
      /\ render' = render /\ digests' = digests /\ mem' = memState /\ memState' = memState
  BY DEF Load, LoadState
<1>2. pad' = padStates["st"].memory /\ axes' = axes /\ padStates' = padStates
  BY DEF Load, LoadState, P!LoadState
<1>3. /\ leg.rewind \/ leg.rerecord
      /\ IF leg.rewind THEN f = Frames /\ pass = 1 ELSE f < Frames
      /\ f \in 0..Frames /\ pass \in {1, 2} /\ (pass = 2 => leg.rewind)
  BY <1>1 DEF GateInv, LoopOK
<1>4. Half \in 1..Frames - 1 /\ Frames \in Nat
  BY HalfInside, FramesAssumption
<1>5. f' = TakenAfter /\ TakenAfter \in Nat /\ f' \in 0..Frames - 1
  BY <1>1, <1>3, <1>4 DEF TakenAfter
<1>6. /\ CoreAfter(leg, movie, axes, memState, TakenAfter)
      /\ PadOK(padStates["st"].memory, axes)
      /\ WantedNow(leg, f) => memState.rendering
      /\ leg.vulkan /\ Survives => Taken(movie, axes, vkStates["st"], live, TakenAfter)
  BY <1>1 DEF GateInv, StateOK, ToBeLoaded
<1>7. LoopOK'
  BY <1>1, <1>3, <1>4, <1>5 DEF LoopOK, Place
<1>8. RefOK'
  BY <1>1, ReferenceStays DEF GateInv
<1>9. DOMAIN vkStates' = {"st"}
  BY DEF Load, LoadState, V!LoadState, vkVars, GateInv, CoreOK
<1>10. CoreOK'
  <2>1. CoreAfter(leg, movie, axes, mem, f)'
    BY <1>1, <1>2, <1>5, <1>6 DEF CoreAfter
  <2>2. axes \in BOOLEAN /\ DOMAIN padStates = {"st"}
    BY DEF GateInv, CoreOK
  <2>. QED BY <1>2, <1>6, <1>9, <2>1, <2>2 DEF CoreOK
<1>11. Survives' <=> Survives
  BY <1>1, SurvivesStays
<1>12. VulkanOK'
  <2>. SUFFICES ASSUME leg.vulkan, Survives
                PROVE  /\ Loaded(movie, axes, vk', live', TakenAfter)
                       /\ live' \in Nat \ {0} /\ DOMAIN card' = {"canvas"}
    BY <1>1, <1>2, <1>5, <1>11 DEF VulkanOK
  <2>1. leg.loadTold /\ V!LoadState("st", leg.loadTold)
    BY <1>3 DEF Survives, Load, LoadState
  <2>2. live \in Nat \ {0} /\ Taken(movie, axes, vkStates["st"], live, TakenAfter)
    BY <1>6 DEF GateInv, VulkanOK
  <2>. QED BY <1>5, <2>1, <2>2, VulkanLoad
<1>13. RenderOK'
  <2>1. Always(leg) \/ f >= Half => render /\ memState.rendering
    BY <1>1, <1>6 DEF WantedNow, GateInv, RenderOK
  <2>2. leg.rewind => Always(leg)
    BY DEF Always
  <2>. QED BY <1>1, <2>1, <2>2 DEF RenderOK
<1>14. StateOK'
  BY <1>1, <1>3 DEF StateOK, ToBeLoaded
<1>15. DigestsOK'
  <2>1. \A p \in 1..2 : HashedIn(leg, p)' = HashedIn(leg, p)
    BY <1>1, <1>3, <1>4 DEF HashedIn, FirstHashed
  <2>2. \A d, n : DigestAfter(leg, movie, axes, d, n)' <=> DigestAfter(leg, movie, axes, d, n)
    BY <1>1, <1>2, <1>11 DEF DigestAfter
  <2>. QED BY <1>1, <1>2, <2>1, <2>2 DEF GateInv, DigestsOK
<1>. QED BY <1>1, <1>7, <1>8, <1>10, <1>12, <1>13, <1>14, <1>15 DEF GateInv

\* A frame of the core: what is heard, and what is shown where pictures are wanted.
LEMMA CoreFrame ==
  ASSUME GateInv, at = "frame", f \in Nat, NEW w, w = NativeWord(movie, f), w \in InWord, Frame(w),
         leg' = leg, movie' = movie, f' = f + 1, at' # "native", render' = render
  PROVE  /\ CoreOK' /\ VulkanOK'
         /\ Hears(pad') = HeardIn(movie, axes, f)
         /\ axes' = axes /\ padStates' = padStates /\ memState' = memState
         /\ mem'.rendering = mem.rendering
         /\ leg.vulkan /\ Survives => vkStates' = vkStates /\ live' = live
         /\ Survives /\ render /\ mem.rendering => IsShown(movie, axes, mem'.video, f + 1)
<1>1. CoreOK /\ VulkanOK
  BY DEF GateInv
<1>2. PICK heard : heard = Append(mem.heard, Hears(pad'))
  OBVIOUS
<1>3. PICK drawn : drawn = [mem EXCEPT !.heard = heard,
                              !.canvas = IF Draws(pad') /\ ~leg.vulkan THEN heard ELSE @]
  OBVIOUS
<1>4. PICK buffer : buffer = IF mem.rendering THEN Displayed(drawn, vk', card') ELSE mem.buffer
  OBVIOUS
<1>5. PICK onto : onto = IF Draws(pad') THEN {"canvas"} ELSE {}
  OBVIOUS
<1>6. /\ P!FrameAdvance(w)
      /\ leg.vulkan => V!Frame(onto, {}, [c \in onto |-> heard])
      /\ ~leg.vulkan => vkVars' = vkVars
      /\ mem' = [drawn EXCEPT !.buffer = buffer, !.video = IF render THEN buffer ELSE @]
      /\ memState' = memState
  BY <1>2, <1>3, <1>4, <1>5 DEF Frame
<1>7. /\ PadOK(pad', axes') /\ axes' = axes /\ padStates' = padStates
      /\ pad'.held = w.buttons /\ pad'.stick = Moved(axes, w)
  BY <1>1, <1>6, PadFrame DEF CoreOK
<1>8. Hears(pad') = HeardIn(movie, axes, f) /\ (Draws(pad') <=> Drawn(movie, f))
  BY <1>7 DEF Hears, HeardIn, Draws, Drawn
<1>9. heard = To(movie, axes, f + 1)
  <2>1. mem.heard = To(movie, axes, f)
    BY <1>1 DEF CoreOK, CoreAfter
  <2>. QED BY <1>2, <1>8, <2>1, HearsOneMore
<1>10. /\ DOMAIN drawn = DOMAIN mem /\ drawn.heard = heard /\ drawn.rendering = mem.rendering
       /\ drawn.canvas = IF Draws(pad') /\ ~leg.vulkan THEN heard ELSE mem.canvas
  BY <1>1, <1>3 DEF CoreOK, CoreAfter
<1>11. /\ DOMAIN mem' = DOMAIN mem /\ mem'.heard = heard /\ mem'.rendering = mem.rendering
       /\ mem'.canvas = drawn.canvas /\ (render => mem'.video = buffer)
  BY <1>1, <1>6, <1>10 DEF CoreOK, CoreAfter
<1>12. ~leg.vulkan => IsShown(movie, axes, drawn.canvas, f + 1)
  <2>. SUFFICES ASSUME ~leg.vulkan PROVE IsShown(movie, axes, drawn.canvas, f + 1)
    OBVIOUS
  <2>1. IsShown(movie, axes, mem.canvas, f)
    BY <1>1 DEF CoreOK, CoreAfter
  <2>2. CASE Drawn(movie, f)
    BY <1>8, <1>9, <1>10, <2>2, DrawsAnew
  <2>3. CASE ~Drawn(movie, f)
    BY <1>8, <1>10, <2>1, <2>3, DrawsNothing
  <2>. QED BY <2>2, <2>3
<1>13. CoreAfter(leg, movie, axes, mem, f)'
  BY <1>1, <1>7, <1>9, <1>11, <1>12 DEF CoreOK, CoreAfter
<1>14. Survives' <=> Survives
  BY SurvivesStays
<1>15. leg.vulkan /\ Survives =>
         /\ Settled(movie, axes, vk', card', live', f + 1)
         /\ live' = live /\ live \in Nat \ {0} /\ DOMAIN card' = {"canvas"}
         /\ vkStates' = vkStates
  <2>. SUFFICES ASSUME leg.vulkan, Survives
                PROVE  /\ Settled(movie, axes, vk', card', live', f + 1)
                       /\ live' = live /\ live \in Nat \ {0} /\ DOMAIN card' = {"canvas"}
                       /\ vkStates' = vkStates
    OBVIOUS
  <2>1. /\ live \in Nat \ {0} /\ DOMAIN card = {"canvas"}
        /\ Settled(movie, axes, vk, card, live, f) \/ Loaded(movie, axes, vk, live, f)
    BY <1>1 DEF VulkanOK
  <2>2. onto = IF Drawn(movie, f) THEN {"canvas"} ELSE {}
    BY <1>5, <1>8
  <2>3. V!Frame(onto, {}, [c \in onto |-> To(movie, axes, f + 1)])
    BY <1>6, <1>9
  <2>. QED BY <2>1, <2>2, <2>3, VulkanFrame
<1>16. DOMAIN vkStates' = {"st"}
  <2>1. vkStates' = vkStates
    BY <1>6 DEF V!Frame, vkVars
  <2>. QED BY <1>1, <2>1 DEF CoreOK
<1>17. CoreOK'
  BY <1>1, <1>7, <1>13, <1>16 DEF CoreOK
<1>18. VulkanOK'
  BY <1>7, <1>14, <1>15 DEF VulkanOK
<1>19. Survives /\ render /\ mem.rendering => IsShown(movie, axes, mem'.video, f + 1)
  <2>. SUFFICES ASSUME Survives, render, mem.rendering
                PROVE  IsShown(movie, axes, Displayed(drawn, vk', card'), f + 1)
    BY <1>4, <1>11
  <2>1. CASE ~leg.vulkan
    BY <1>12, <2>1 DEF Displayed
  <2>2. CASE leg.vulkan
    <3>1. Settled(movie, axes, vk', card', live', f + 1)
      BY <1>15, <2>2
    <3>. QED BY <2>2, <3>1 DEF Displayed, Settled, V!Framebufs
  <2>. QED BY <2>1, <2>2
<1>. QED BY <1>6, <1>7, <1>8, <1>11, <1>15, <1>17, <1>18, <1>19

LEMMA FrameStep ==
  ASSUME GateInv, FrameAndHash PROVE GateInv'
<1>1. /\ at = "frame" /\ f' = f + 1 /\ at' = After(leg, f + 1, pass)
      /\ Frame(Word(movie, f))
      /\ ref' = ref /\ leg' = leg /\ movie' = movie /\ pass' = pass /\ render' = render
      /\ digests' = IF leg.rewind /\ f < Half THEN digests
                    ELSE [digests EXCEPT ![pass] =
                            Append(@, [video |-> mem'.video, audio |-> Hears(pad')])]
  BY DEF FrameAndHash
<1>2. Half \in 1..Frames - 1 /\ Frames \in Nat
  BY HalfInside, FramesAssumption
<1>3. /\ f \in 0..Frames - 1 /\ f \in Nat /\ movie \in Movies /\ pass \in {1, 2}
      /\ pass = 2 => leg.rewind /\ f >= Half
  BY <1>1, <1>2 DEF GateInv, LoopOK
<1>4. Word(movie, f) = NativeWord(movie, f) /\ Word(movie, f) \in InWord
  BY <1>3, Words
<1>5. /\ f + 1 = Frames => at' = IF leg.rewind /\ pass = 1 THEN "load" ELSE "done"
      /\ f + 1 # Frames => at' = IF leg.rewind /\ f + 1 = Half THEN "save" ELSE LoopHead(leg)
  BY <1>1 DEF After
<1>6. /\ LoopHead(leg) \in {"turbo", "save", "frame"}
      /\ LoopHead(leg) = "turbo" => leg.turbo /\ ~leg.rewind
      /\ LoopHead(leg) = "save" => leg.rerecord /\ ~leg.rewind /\ ~leg.turbo
      /\ LoopHead(leg) = "frame" => leg.rewind \/ ~leg.turbo
  BY DEF LoopHead
<1>7. at' # "native"
  BY <1>5, <1>6
<1>8. /\ CoreOK' /\ VulkanOK'
      /\ Hears(pad') = HeardIn(movie, axes, f)
      /\ axes' = axes /\ padStates' = padStates /\ memState' = memState
      /\ mem'.rendering = mem.rendering
      /\ leg.vulkan /\ Survives => vkStates' = vkStates /\ live' = live
      /\ Survives /\ render /\ mem.rendering => IsShown(movie, axes, mem'.video, f + 1)
  BY <1>1, <1>3, <1>4, <1>7, CoreFrame
<1>9. LoopOK'
  <2>1. CASE f + 1 = Frames
    BY <1>1, <1>2, <1>3, <1>5, <2>1 DEF LoopOK, Place
  <2>2. CASE f + 1 # Frames
    BY <1>1, <1>2, <1>3, <1>5, <1>6, <2>2 DEF LoopOK, Place
  <2>. QED BY <2>1, <2>2
<1>10. RefOK'
  BY <1>1, <1>7, ReferenceStays DEF GateInv
<1>11. Survives' <=> Survives
  BY <1>1, SurvivesStays
<1>12. RenderOK'
  <2>1. at' \in {"save", "load", "frame"} => Always(leg)
    BY <1>5, <1>6 DEF Always
  <2>2. Always(leg) => render /\ mem.rendering
    BY DEF GateInv, RenderOK
  <2>. QED BY <1>1, <1>8, <2>1, <2>2 DEF RenderOK
<1>13. StateOK'
  <2>. SUFFICES ASSUME ToBeLoaded' PROVE StateOK'
    BY DEF StateOK
  <2>1. leg.rewind /\ pass = 1 /\ f >= Half
    BY <1>1, <1>2, <1>3, <1>5, <1>6 DEF ToBeLoaded
  <2>2. ToBeLoaded
    BY <1>1, <2>1 DEF ToBeLoaded
  <2>3. TakenAfter' = TakenAfter
    BY <1>1, <2>1 DEF TakenAfter
  <2>4. (WantedNow(leg, f))' => WantedNow(leg, f)
    BY <1>1, <2>1 DEF WantedNow, Always
  <2>5. StateOK
    BY DEF GateInv
  <2>. QED BY <1>1, <1>8, <1>11, <2>2, <2>3, <2>4, <2>5 DEF StateOK
<1>14. DigestsOK'
  <2>1. DigestsOK /\ FirstHashed(leg)' = FirstHashed(leg)
    BY <1>1 DEF GateInv, FirstHashed
  <2>2. \A d, n : DigestAfter(leg, movie, axes, d, n)' <=> DigestAfter(leg, movie, axes, d, n)
    BY <1>1, <1>8, <1>11 DEF DigestAfter
  <2>3. CASE leg.rewind /\ f < Half
    <3>1. \A p \in 1..2 : HashedIn(leg, p)' = HashedIn(leg, p)
      BY <1>1, <1>2, <1>3, <2>3 DEF HashedIn, FirstHashed
    <3>. QED BY <1>1, <2>1, <2>2, <2>3, <3>1 DEF DigestsOK
  <2>4. CASE ~(leg.rewind /\ f < Half)
    <3>1. PICK first : first = FirstHashed(leg)
      OBVIOUS
    <3>2. first \in 0..Frames /\ f >= first
      BY <1>2, <1>3, <2>4, <3>1 DEF FirstHashed
    <3>3. /\ HashedIn(leg, pass) = f - first
          /\ \A p \in 1..2 : HashedIn(leg, p)' =
                IF p = pass THEN f + 1 - first ELSE HashedIn(leg, p)
      BY <1>1, <1>3, <2>1, <3>1, <3>2 DEF HashedIn
    <3>4. PICK e : e = [video |-> mem'.video, audio |-> Hears(pad')]
      OBVIOUS
    <3>5. PICK s : s = Append(digests[pass], e)
      OBVIOUS
    <3>6. /\ DOMAIN digests' = 1..2 /\ digests'[pass] = s
          /\ \A p \in 1..2 : p # pass => digests'[p] = digests[p]
      BY <1>1, <1>3, <2>1, <2>4, <3>4, <3>5 DEF DigestsOK
    <3>7. IsASequence(digests[pass]) /\ Len(digests[pass]) = f - first
      BY <1>3, <2>1, <3>3 DEF DigestsOK
    <3>8. /\ IsASequence(s) /\ Len(s) = f + 1 - first
          /\ s[f + 1 - first] = e
          /\ \A i \in 1..f - first : s[i] = digests[pass][i]
      <4>1. (f - first) + 1 = f + 1 - first
        BY <1>3, <3>2
      <4>. QED BY <3>5, <3>7, <4>1, OneMore
    <3>9. DigestAfter(leg, movie, axes, e, f + 1)
      <4>1. e.audio = HeardIn(movie, axes, (f + 1) - 1)
        <5>1. (f + 1) - 1 = f
          BY <1>3
        <5>. QED BY <1>8, <3>4, <5>1
      <4>2. WantedOf(leg, f + 1) => render /\ mem.rendering
        BY <1>1, <1>2, <1>3 DEF WantedOf, GateInv, RenderOK
      <4>. QED BY <1>8, <3>4, <4>1, <4>2 DEF DigestAfter
    <3>10. ASSUME NEW i \in 1..f + 1 - first
           PROVE  DigestAfter(leg, movie, axes, s[i], first + i)
      <4>1. CASE i = f + 1 - first
        <5>1. first + i = f + 1
          BY <1>3, <3>2, <4>1
        <5>. QED BY <3>8, <3>9, <4>1, <5>1
      <4>2. CASE i \in 1..f - first
        <5>1. DigestAfter(leg, movie, axes, digests[pass][i], first + i)
          BY <1>3, <2>1, <3>1, <3>3, <4>2 DEF DigestsOK
        <5>. QED BY <3>8, <4>2, <5>1
      <4>. QED BY <1>3, <3>2, <4>1, <4>2
    <3>11. ASSUME NEW p \in 1..2
           PROVE  /\ IsASequence(digests'[p]) /\ Len(digests'[p]) = HashedIn(leg, p)'
                  /\ \A i \in 1..HashedIn(leg, p)' :
                       DigestAfter(leg, movie, axes, digests'[p][i], first + i)
      <4>1. CASE p = pass
        BY <3>3, <3>6, <3>8, <3>10, <4>1
      <4>2. CASE p # pass
        BY <2>1, <3>1, <3>3, <3>6, <4>2 DEF DigestsOK
      <4>. QED BY <4>1, <4>2
    <3>. QED BY <2>1, <2>2, <3>1, <3>6, <3>11 DEF DigestsOK
  <2>. QED BY <2>3, <2>4
<1>. QED BY <1>1, <1>3, <1>8, <1>9, <1>10, <1>12, <1>13, <1>14 DEF GateInv

LEMMA NothingStep ==
  ASSUME GateInv, UNCHANGED gateVars PROVE GateInv'
<1>1. /\ ref' = ref /\ leg' = leg /\ movie' = movie /\ at' = at /\ f' = f /\ pass' = pass
      /\ render' = render /\ digests' = digests /\ mem' = mem /\ memState' = memState
  BY DEF gateVars, loopVars
<1>2. /\ pad' = pad /\ padStates' = padStates /\ axes' = axes
      /\ live' = live /\ card' = card /\ vk' = vk /\ vkStates' = vkStates
  BY DEF gateVars, padVars, vkVars
<1>3. LoopOK' /\ RefOK'
  BY <1>1 DEF GateInv, LoopOK, RefOK
<1>4. CoreOK' /\ VulkanOK' /\ RenderOK'
  BY <1>1, <1>2, SurvivesStays DEF GateInv, CoreOK, VulkanOK, RenderOK
<1>5. StateOK'
  BY <1>1, <1>2, SurvivesStays DEF GateInv, StateOK, ToBeLoaded, TakenAfter
<1>6. DigestsOK'
  BY <1>1, <1>2, DigestsStay DEF GateInv
<1>. QED BY <1>1, <1>3, <1>4, <1>5, <1>6 DEF GateInv

\* The invariant of the gate.
THEOREM GateAlways == GateSpec => []GateInv
<1>1. GateInv /\ [GateNext]_gateVars => GateInv'
  <2>. SUFFICES ASSUME GateInv, [GateNext]_gateVars PROVE GateInv'
    OBVIOUS
  <2>1. CASE RunNative
    BY <2>1, RunNativeStep
  <2>2. CASE SetRenderingEnabled
    BY <2>2, SetRenderingStep
  <2>3. CASE Save
    BY <2>3, SaveStep
  <2>4. CASE Load
    BY <2>4, LoadStep
  <2>5. CASE FrameAndHash
    BY <2>5, FrameStep
  <2>6. CASE UNCHANGED gateVars
    BY <2>6, NothingStep
  <2>. QED BY <2>1, <2>2, <2>3, <2>4, <2>5, <2>6 DEF GateNext
<1>. QED BY <1>1, GateBegins, PTL DEF GateSpec

-----------------------------------------------------------------------------
(* What the gate compares.                                                 *)

\* What a line of the movie makes a machine hear.
LEMMA LineHeard ==
  ASSUME NEW a \in BOOLEAN, NEW line \in Line, a \/ line.ly > -128
  PROVE  /\ SameSide(Moved(a, ParseSolLine(line))[1], line.lx)
         /\ SameSide(Moved(a, ParseSolLine(line))[2], -line.ly)
<1>1. line.lx \in Int /\ line.ly \in Int
  BY DEF Line
<1>2. PICK x, y : x = Byte(line.lx) /\ y = Byte(line.ly)
  OBVIOUS
<1>3. /\ x \in 0..255 /\ y \in 0..255
      /\ x - 128 = P!Clamped(line.lx) /\ y - 128 = P!Clamped(line.ly)
      /\ SameSide(P!Clamped(line.lx), line.lx) /\ SameSide(P!Clamped(line.ly), line.ly)
      /\ line.ly > -128 => y # 0
  BY <1>1, <1>2, Bytes
<1>4. SameSide(x - 128, line.lx) /\ SameSide(128 - y, -line.ly)
  BY <1>1, <1>3 DEF SameSide
<1>5. PICK w : w = ParseSolLine(line)
  OBVIOUS
<1>6. w.x = x /\ w.y = y
  BY <1>2, <1>5 DEF ParseSolLine
<1>7. CASE a
  <2>1. x - 128 \in Int /\ 128 - y \in Int /\ x - 128 \in -128..127
    BY <1>3
  <2>2. P!Clamped(x - 128) = x - 128 /\ SameSide(P!Clamped(128 - y), 128 - y)
    BY <2>1, Bytes
  <2>3. SameSide(P!Clamped(128 - y), -line.ly)
    BY <1>4, <2>2 DEF SameSide
  <2>4. PICK st : st = <<P!Clamped(x - 128), P!Clamped(128 - y)>>
    OBVIOUS
  <2>5. Moved(a, w) = st
    BY <1>6, <1>7, <2>4 DEF Moved
  <2>6. st[1] = x - 128 /\ st[2] = P!Clamped(128 - y)
    BY <2>2, <2>4
  <2>. QED BY <1>4, <1>5, <2>3, <2>5, <2>6
<1>8. CASE ~a
  <2>1. y # 0
    BY <1>3, <1>8
  <2>2. P!Int8(x - 128) = x - 128 /\ P!Int8(128 - y) = 128 - y
    BY <1>3, <2>1 DEF P!Int8
  <2>3. Moved(a, w) = <<x - 128, 128 - y>>
    BY <1>3, <1>6, <1>8, <2>1, <2>2 DEF Moved, P!Unpacked
  <2>. QED BY <1>4, <1>5, <2>3
<1>. QED BY <1>7, <1>8

\* MovieIsHeard, for any movie.
THEOREM GateHearsTheMovie == GateSpec => []MovieIsHeard
<1>1. GateInv => MovieIsHeard
  <2>. SUFFICES ASSUME GateInv, movie # <<>>, NEW n \in DOMAIN mem.heard
                PROVE  LET lines == Lines(movie)
                       IN  IF n > Len(lines)
                             THEN mem.heard[n] = [held |-> {}, stick |-> <<0, 0>>]
                             ELSE /\ mem.heard[n].held = {Letters[i] : i \in lines[n].letters}
                                  /\ axes \/ lines[n].ly > -128 =>
                                       /\ SameSide(mem.heard[n].stick[1], lines[n].lx)
                                       /\ SameSide(mem.heard[n].stick[2], -lines[n].ly)
    BY DEF MovieIsHeard
  <2>1. PICK lines : lines = Lines(movie)
    OBVIOUS
  <2>2. movie \in Movies /\ axes \in BOOLEAN /\ f \in 0..Frames /\ mem.heard = To(movie, axes, f)
    BY DEF GateInv, CoreOK, LoopOK, CoreAfter
  <2>3. f \in Nat /\ Frames \in Nat
    BY <2>2, FramesAssumption
  <2>4. n \in 1..f /\ mem.heard[n] = HeardIn(movie, axes, n - 1)
    BY <2>2, <2>3 DEF To
  <2>5. lines \in Seq(Line)
    BY <2>1, <2>2, InputsAssumption, LinesTyped
  <2>6. LoadMovie(movie) = [i \in 1..Len(lines) |-> ParseSolLine(lines[i])]
    BY <2>1 DEF LoadMovie
  <2>7. Len(lines) \in Nat /\ \A i \in 1..Len(lines) : lines[i] \in Line
    BY <2>5
  <2>8. CASE n > Len(lines)
    <3>1. NativeWord(movie, n - 1) = P!NoInput
      BY <2>4, <2>6, <2>7, <2>8 DEF NativeWord
    <3>2. Moved(axes, P!NoInput) = <<0, 0>>
      <4>1. P!NoInput.x = 128 /\ P!NoInput.y = 128
        BY DEF P!NoInput
      <4>2. P!Clamped(0) = 0 /\ P!Int8(0) = 0
        BY DEF P!Clamped, P!Int8
      <4>. QED BY <4>1, <4>2 DEF Moved, P!Unpacked
    <3>3. P!NoInput.buttons = {}
      BY DEF P!NoInput
    <3>. QED BY <2>1, <2>4, <2>8, <3>1, <3>2, <3>3 DEF HeardIn
  <2>9. CASE ~(n > Len(lines))
    <3>1. n \in 1..Len(lines) /\ n - 1 < Len(lines) /\ (n - 1) + 1 = n
      BY <2>4, <2>7, <2>9, <2>3
    <3>2. NativeWord(movie, n - 1) = ParseSolLine(lines[n])
      BY <2>6, <2>7, <3>1 DEF NativeWord
    <3>3. lines[n] \in Line
      BY <2>7, <3>1
    <3>4. ParseSolLine(lines[n]).buttons = {Letters[i] : i \in lines[n].letters}
      <4>1. lines[n].letters \in SUBSET (1..12)
        BY <3>3 DEF Line
      <4>2. {ButtonMap[Bit[i] + 1] : i \in lines[n].letters} = {Letters[i] : i \in lines[n].letters}
        BY <4>1, TheLetters
      <4>. QED BY <4>2 DEF ParseSolLine
    <3>5. /\ mem.heard[n].held = ParseSolLine(lines[n]).buttons
          /\ mem.heard[n].stick = Moved(axes, ParseSolLine(lines[n]))
      BY <2>4, <3>2 DEF HeardIn
    <3>. QED BY <2>1, <2>2, <2>9, <3>3, <3>4, <3>5, LineHeard
  <2>. QED BY <2>8, <2>9
<1>. QED BY <1>1, GateAlways, PTL

\* What both hosts hashed when main is done, of one frame.
LEMMA BothHashed ==
  ASSUME GateInv, Done, NEW p \in 1..pass, NEW n \in Hashed
  PROVE  /\ n \in 1..Frames
         /\ DigestAfter(leg, movie, axes, Digest(p, n), n)
         /\ ref.digests[n].audio = HeardIn(movie, Packed, n - 1)
         /\ IsShown(movie, Packed, ref.digests[n].video, n)
<1>1. Half \in 1..Frames - 1 /\ Frames \in Nat
  BY HalfInside, FramesAssumption
<1>2. f = Frames /\ pass \in {1, 2} /\ (leg.rewind => pass = 2)
  BY DEF Done, GateInv, LoopOK
<1>3. PICK first : first = FirstHashed(leg)
  OBVIOUS
<1>4. first \in 0..Frames - 1 /\ n \in first + 1..Frames /\ Digest(p, n) = digests[p][n - first]
  BY <1>1, <1>3 DEF FirstHashed, Hashed, Digest
<1>5. p \in 1..2 /\ HashedIn(leg, p) = Frames - first
  BY <1>1, <1>2, <1>3, <1>4 DEF HashedIn
<1>6. n - first \in 1..Frames - first /\ first + (n - first) = n /\ n \in 1..Frames
  BY <1>1, <1>4
<1>7. DigestAfter(leg, movie, axes, digests[p][n - first], first + (n - first))
  BY <1>3, <1>5, <1>6 DEF GateInv, DigestsOK
<1>8. RefAfter(movie, ref, Frames)
  BY DEF Done, GateInv, RefOK
<1>. QED BY <1>4, <1>6, <1>7, <1>8 DEF RefAfter

\* Where the ways agree, the machines hear the same.
LEMMA SameHeard ==
  ASSUME GateInv, ~AxesMayDiffer, NEW n \in 0..Frames
  PROVE  To(movie, axes, n) = To(movie, Packed, n)
<1>1. movie \in Movies /\ axes \in BOOLEAN /\ Frames \in Nat
  BY FramesAssumption DEF GateInv, CoreOK
<1>2. ASSUME NEW i \in 0..Frames - 1 PROVE HeardIn(movie, axes, i) = HeardIn(movie, Packed, i)
  <2>1. CASE axes
    BY <1>1, <2>1, SameEitherWay DEF AxesMayDiffer
  <2>2. CASE ~axes
    BY <1>1, <2>2 DEF Packed
  <2>. QED BY <2>1, <2>2
<1>3. \A i \in 1..n : i - 1 \in 0..Frames - 1
  BY <1>1
<1>. QED BY <1>2, <1>3 DEF To

\* TwinsHear, for any movie, any options and any number of frames.
THEOREM GateTwinsHear == GateSpec => []TwinsHear
<1>1. GateInv => TwinsHear
  <2>. SUFFICES ASSUME GateInv, Done, ~AxesMayDiffer
                PROVE  /\ mem.heard = ref.heard
                       /\ \A p \in 1..pass : \A n \in Hashed :
                            Digest(p, n).audio = ref.digests[n].audio
    BY DEF TwinsHear
  <2>1. movie \in Movies /\ axes \in BOOLEAN /\ Frames \in Nat
    BY FramesAssumption DEF GateInv, CoreOK
  <2>2. mem.heard = ref.heard
    <3>1. mem.heard = To(movie, axes, Frames)
      BY DEF Done, GateInv, LoopOK, CoreOK, CoreAfter
    <3>2. ref.heard = To(movie, Packed, Frames)
      BY DEF Done, GateInv, RefOK, RefAfter
    <3>3. Frames \in 0..Frames
      BY <2>1
    <3>. QED BY <3>1, <3>2, <3>3, SameHeard
  <2>3. ASSUME NEW p \in 1..pass, NEW n \in Hashed
        PROVE  Digest(p, n).audio = ref.digests[n].audio
    <3>1. /\ n \in 1..Frames /\ Digest(p, n).audio = HeardIn(movie, axes, n - 1)
          /\ ref.digests[n].audio = HeardIn(movie, Packed, n - 1)
      BY BothHashed DEF DigestAfter
    <3>2. To(movie, axes, Frames)[n] = To(movie, Packed, Frames)[n]
      BY <2>1, SameHeard
    <3>. QED BY <3>1, <3>2 DEF To
  <2>. QED BY <2>2, <2>3
<1>. QED BY <1>1, GateAlways, PTL

\* SamePictures, for the same.
THEOREM GateSamePictures == GateSpec => []SamePictures
<1>1. GateInv => SamePictures
  <2>. SUFFICES ASSUME GateInv, Done, ~AxesMayDiffer, Survives, NEW p \in 1..pass,
                       NEW n \in Hashed, ~leg.turbo \/ leg.rewind \/ n > Half
                PROVE  Digest(p, n).video = ref.digests[n].video
    BY DEF SamePictures
  <2>1. /\ n \in 1..Frames /\ IsShown(movie, axes, Digest(p, n).video, n)
        /\ IsShown(movie, Packed, ref.digests[n].video, n)
    <3>1. WantedOf(leg, n)
      BY DEF WantedOf, Always
    <3>. QED BY <3>1, BothHashed DEF DigestAfter
  <2>2. n \in Nat /\ Frames \in Nat
    BY <2>1, FramesAssumption
  <2>3. IsShown(movie, Packed, Digest(p, n).video, n)
    <3>1. PICK l \in 0..n : /\ LastDrawn(movie, l, n)
                            /\ Digest(p, n).video = To(movie, axes, l)
      BY <2>1 DEF IsShown
    <3>2. l \in 0..Frames
      BY <2>1, <2>2
    <3>3. To(movie, axes, l) = To(movie, Packed, l)
      BY <3>2, SameHeard
    <3>. QED BY <3>1, <3>3 DEF IsShown
  <2>. QED BY <2>1, <2>2, <2>3, OnePicture
<1>. QED BY <1>1, GateAlways, PTL

=============================================================================
