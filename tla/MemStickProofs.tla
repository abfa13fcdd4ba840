--------------------------- MODULE MemStickProofs ---------------------------
(***************************************************************************)
(* Theorems about the RAM memory stick, for every set of names, paths,     *)
(* modes, chunks and offsets, and with no bound on the card.               *)
(*                                                                         *)
(* The card keeps its types whatever the program does.  That it stays a    *)
(* tree with every open handle backed by a file is one inductive           *)
(* invariant, StickInv: a removal keeps the tree because its directory is  *)
(* empty, a rename because its target is in the tree and nothing is there, *)
(* and a handle stays backed because it is not below what moves.           *)
(***************************************************************************)
EXTENDS MemStick, SequenceTheorems, WellFoundedInduction, TLAPS

-----------------------------------------------------------------------------
(* Numbers and recursion.                                                  *)

\* A set of numbers that is not empty has a least element.
LEMMA LeastNumber ==
  ASSUME NEW T \in SUBSET Nat, T # {}
  PROVE  \E n \in T : \A m \in T : n <= m
<1>. DEFINE Less == OpToRel(<, Nat)
<1>1. IsWellFoundedOn(Less, Nat)
  BY NatLessThanWellFounded
<1>2. PICK n \in T : \A m \in T : ~(<<m, n>> \in Less)
  <2>. HIDE DEF Less
  <2>. QED BY <1>1, WFMin
<1>3. \A m \in T : <<m, n>> \in Less <=> m < n
  BY DEF OpToRel
<1>. HIDE DEF Less
<1>4. \A m \in T : n <= m
  <2>. TAKE m \in T
  <2>1. m \in Nat /\ n \in Nat /\ ~(m < n)
    BY <1>2, <1>3
  <2>. QED BY <2>1
<1>. QED BY <1>4

\* A set that holds 0, and with a number below n the next, holds all up to n.
LEMMA Counting ==
  ASSUME NEW n \in Nat, NEW T, 0 \in T,
         \A i \in 0..n : i \in T /\ i < n => i + 1 \in T
  PROVE  \A i \in 0..n : i \in T
<1>. DEFINE Missing == {i \in 0..n : i \notin T}
<1>. SUFFICES ASSUME Missing # {} PROVE FALSE
  OBVIOUS
<1>1. Missing \in SUBSET Nat
  OBVIOUS
<1>2. PICK i \in Missing : \A m \in Missing : i <= m
  <2>. HIDE DEF Missing
  <2>. QED BY <1>1, LeastNumber
<1>3. i # 0 /\ i - 1 \in 0..n /\ i - 1 < n /\ ~(i <= i - 1)
  OBVIOUS
<1>4. i - 1 \in T
  BY <1>2, <1>3
<1>. QED BY <1>3, <1>4

\* w begins with a, and F[i] takes each step from i - 1 to i.
Steps(w, A, a, F, n) ==
  w \in [0..n -> A] /\ w[0] = a /\ \A i \in 1..n : w[i] = F[i][w[i - 1]]

\* A function of 0..n may be defined by its value at 0 and a step.
LEMMA Recursion ==
  ASSUME NEW A, NEW a \in A, NEW F \in [Nat -> [A -> A]], NEW n \in Nat
  PROVE  \E w : Steps(w, A, a, F, n)
<1>. DEFINE Good(w, m) == w[0] = a /\ \A i \in 1..m : w[i] = F[i][w[i - 1]]
            Has(m) == \E w \in [0..m -> A] : Good(w, m)
            T == {m \in 0..n : Has(m)}
<1>1. Has(0)
  <2>1. /\ [i \in 0..0 |-> a] \in [0..0 -> A]
        /\ Good([i \in 0..0 |-> a], 0)
    OBVIOUS
  <2>. HIDE DEF Good
  <2>. QED BY <2>1
<1>2. ASSUME NEW m \in 0..n, Has(m), m < n PROVE Has(m + 1)
  <2>1. PICK w \in [0..m -> A] : Good(w, m)
    BY <1>2
  <2>. DEFINE v == [i \in 0..m + 1 |-> IF i = m + 1 THEN F[m + 1][w[m]] ELSE w[i]]
  <2>2. v \in [0..m + 1 -> A]
    OBVIOUS
  <2>3. Good(v, m + 1)
    <3>1. v[0] = a /\ \A i \in 0..m : v[i] = w[i]
      BY <2>1
    <3>2. v[m + 1] = F[m + 1][v[m]]
      BY <3>1
    <3>3. \A i \in 1..m : v[i] = F[i][v[i - 1]]
      BY <2>1, <3>1
    <3>. HIDE DEF v
    <3>. QED BY <3>1, <3>2, <3>3
  <2>. HIDE DEF v, Good
  <2>. QED BY <2>2, <2>3
<1>. HIDE DEF Has
<1>3. 0 \in T /\ \A m \in 0..n : m \in T /\ m < n => m + 1 \in T
  BY <1>1, <1>2
<1>4. n \in T
  <2>. HIDE DEF T
  <2>1. \A m \in 0..n : m \in T
    BY <1>3, Counting
  <2>. QED BY <2>1
<1>. QED BY <1>4 DEF Has, Steps

-----------------------------------------------------------------------------
(* Normalize.                                                              *)

\* What Normalize builds, component by component.
Walk(raw, w) ==
  /\ w \in [0..Len(raw) -> Path]
  /\ w[0] = Root
  /\ \A i \in 1..Len(raw) : w[i] = Enter(w[i - 1], raw[i])

LEMMA EnterTyped ==
  ASSUME NEW p \in Path, NEW part \in RawName
  PROVE  Enter(p, part) \in Path
<1>1. ParentOf(p) \in Path
  BY SubSeqProperties, \A i \in 1..Len(p) - 1 : p[i] \in Name DEF ParentOf, Path
<1>2. part \in Name => Append(p, part) \in Path
  BY AppendProperties DEF Path
<1>. QED BY <1>1, <1>2 DEF Enter, RawName

LEMMA NormalizeWalks ==
  ASSUME NEW raw \in Seq(RawName)
  PROVE  \E w : Walk(raw, w) /\ Normalize(raw) = w[Len(raw)]
<1>. DEFINE n == Len(raw)
            F == [i \in Nat |-> [p \in Path |-> IF i \in 1..n THEN Enter(p, raw[i]) ELSE p]]
            Step(w) == [i \in 0..n |-> IF i = 0 THEN Root ELSE Enter(w[i - 1], raw[i])]
<1>1. n \in Nat /\ \A i \in 1..n : raw[i] \in RawName
  OBVIOUS
<1>2. F \in [Nat -> [Path -> Path]]
  BY <1>1, EnterTyped
<1>3. Root \in Path
  BY EmptySeq DEF Root, Path
<1>4. \E w : Steps(w, Path, Root, F, n)
  <2>1. n \in Nat
    BY <1>1
  <2>. HIDE DEF F, n, Step
  <2>. QED BY <1>2, <1>3, <2>1, Recursion
<1>5. PICK w : w \in [0..n -> Path] /\ w[0] = Root /\ \A i \in 1..n : w[i] = F[i][w[i - 1]]
  BY <1>4 DEF Steps
<1>6. \A i \in 1..n : w[i] = Enter(w[i - 1], raw[i])
  BY <1>1, <1>5
<1>7. w = Step(w)
  BY <1>1, <1>5, <1>6
<1>. DEFINE chosen == CHOOSE walk : walk = Step(walk)
<1>8. Normalize(raw) = chosen[n]
  BY DEF Normalize
<1>9. chosen = Step(chosen)
  <2>. HIDE DEF Step
  <2>. QED BY <1>7, Zenon
<1>10. \E v : v = Step(v) /\ Normalize(raw) = v[n]
  <2>. HIDE DEF chosen, Step
  <2>. QED BY <1>8, <1>9
<1>11. PICK v : v = Step(v) /\ Normalize(raw) = v[n]
  BY <1>10
<1>. HIDE DEF chosen
<1>12. v[0] = Root /\ \A i \in 1..n : v[i] = Enter(v[i - 1], raw[i])
  <2>. HIDE DEF n
  <2>. QED BY <1>1, <1>11
<1>. DEFINE Same == {j \in 0..n : v[j] = w[j]}
<1>13. 0 \in Same /\ \A i \in 0..n : i \in Same /\ i < n => i + 1 \in Same
  <2>. HIDE DEF n, Step, F
  <2>1. 0 \in 0..n /\ \A i \in 0..n : i < n => i + 1 \in 1..n /\ i + 1 \in 0..n /\ (i + 1) - 1 = i
    BY <1>1
  <2>. QED BY <1>5, <1>6, <1>12, <2>1
<1>14. n \in Same
  <2>. HIDE DEF Same, n
  <2>1. \A i \in 0..n : i \in Same
    BY <1>1, <1>13, Counting
  <2>. QED BY <1>1, <2>1
<1>. QED BY <1>1, <1>5, <1>6, <1>11, <1>14 DEF Walk

\* A path the program uses is normalized to a path.
LEMMA NormalizeTyped ==
  ASSUME NEW raw \in Seq(RawName)
  PROVE  Normalize(raw) \in Path
<1>1. PICK w : Walk(raw, w) /\ Normalize(raw) = w[Len(raw)]
  BY NormalizeWalks
<1>2. Len(raw) \in 0..Len(raw)
  OBVIOUS
<1>. QED BY <1>1, <1>2 DEF Walk

\* Two walks that agree on the first n components are at the same place there.
LEMMA WalksAgree ==
  ASSUME NEW r, NEW s, NEW v, NEW w, NEW n \in Nat, Walk(r, v), Walk(s, w),
         Len(r) \in Nat, Len(s) \in Nat, n <= Len(r), n <= Len(s),
         \A i \in 1..n : r[i] = s[i]
  PROVE  v[n] = w[n]
<1>. DEFINE Same == {j \in 0..n : v[j] = w[j]}
<1>1. 0 \in Same /\ \A i \in 0..n : i \in Same /\ i < n => i + 1 \in Same
  <2>1. \A i \in 0..n : i < n => /\ i + 1 \in 1..n /\ i + 1 \in 0..n /\ (i + 1) - 1 = i
                               /\ i + 1 \in 1..Len(r) /\ i + 1 \in 1..Len(s)
    OBVIOUS
  <2>2. \A i \in 0..n : i < n =>
          v[i + 1] = Enter(v[i], r[i + 1]) /\ w[i + 1] = Enter(w[i], s[i + 1])
    BY <2>1 DEF Walk
  <2>3. v[0] = w[0]
    BY DEF Walk
  <2>. QED BY <2>1, <2>2, <2>3
<1>2. n \in Same
  <2>. HIDE DEF Same
  <2>1. \A i \in 0..n : i \in Same
    BY <1>1, Counting
  <2>. QED BY <2>1
<1>. QED BY <1>2

\* The last component comes last.
LEMMA NormalizeAppend ==
  ASSUME NEW raw \in Seq(RawName), NEW part \in RawName
  PROVE  Normalize(Append(raw, part)) = Enter(Normalize(raw), part)
<1>. DEFINE all == Append(raw, part)
            n == Len(raw)
<1>1. all \in Seq(RawName) /\ n \in Nat /\ Len(all) = n + 1 /\ all[n + 1] = part
      /\ \A i \in 1..n : all[i] = raw[i]
  BY AppendProperties
<1>2. PICK w : Walk(raw, w) /\ Normalize(raw) = w[n]
  BY NormalizeWalks
<1>. HIDE DEF all
<1>3. PICK v : Walk(all, v) /\ Normalize(all) = v[Len(all)]
  BY <1>1, NormalizeWalks
<1>. HIDE DEF n
<1>4. v[n] = w[n]
  <2>1. n <= Len(all) /\ n <= Len(raw) /\ Len(all) \in Nat /\ Len(raw) \in Nat /\ n \in Nat
    BY <1>1 DEF n
  <2>2. Walk(all, v) /\ Walk(raw, w) /\ \A i \in 1..n : all[i] = raw[i]
    BY <1>1, <1>2, <1>3
  <2>. QED BY <2>1, <2>2, WalksAgree
<1>5. v[n + 1] = Enter(v[n], part)
  <2>1. n + 1 \in 1..Len(all) /\ (n + 1) - 1 = n
    BY <1>1
  <2>. QED BY <1>1, <1>3, <2>1 DEF Walk
<1>. QED BY <1>1, <1>2, <1>3, <1>4, <1>5 DEF all

\* A path is normalized already.
LEMMA NormalizeOfPath ==
  ASSUME NEW p \in Path
  PROVE  Normalize(p) = p
<1>. DEFINE n == Len(p)
            T == {i \in 0..n : Normalize(SubSeq(p, 1, i)) = SubSeq(p, 1, i)}
<1>1. n \in Nat /\ (\A i \in 1..n : p[i] \in Name) /\ p \in Seq(RawName)
  BY DEF Path, RawName
<1>2. Normalize(<<>>) = <<>>
  <2>1. <<>> \in Seq(RawName) /\ Len(<<>>) = 0
    OBVIOUS
  <2>2. PICK w : Walk(<<>>, w) /\ Normalize(<<>>) = w[Len(<<>>)]
    BY <2>1, NormalizeWalks
  <2>. QED BY <2>1, <2>2 DEF Walk, Root
<1>3. 0 \in T
  <2>1. SubSeq(p, 1, 0) = <<>> /\ 0 \in 0..n
    BY <1>1, SubSeqEmpty
  <2>2. Normalize(SubSeq(p, 1, 0)) = SubSeq(p, 1, 0)
    BY <1>2, <2>1
  <2>. HIDE DEF n
  <2>. QED BY <2>1, <2>2
<1>4. ASSUME NEW i \in 0..n, i \in T, i < n PROVE i + 1 \in T
  <2>. DEFINE pre == SubSeq(p, 1, i)
              part == p[i + 1]
  <2>1. pre \in Seq(RawName) /\ part \in Name /\ part \in RawName
    <3>1. i \in Int /\ 1 \in Int /\ i + 1 \in 1..n /\ \A j \in 1..i : p[j] \in RawName
      BY <1>1, <1>4 DEF RawName
    <3>2. pre \in Seq(RawName)
      BY <3>1, SubSeqProperties
    <3>. QED BY <1>1, <3>1, <3>2 DEF RawName
  <2>2. SubSeq(p, 1, i + 1) = Append(pre, part)
    BY <1>1, <1>4
  <2>3. Normalize(pre) = pre
    BY <1>4
  <2>4. Enter(pre, part) = Append(pre, part)
    BY <2>1, DotsAssumption DEF Enter
  <2>5. Normalize(Append(pre, part)) = Append(pre, part)
    <3>. HIDE DEF pre, part
    <3>. QED BY <2>1, <2>3, <2>4, NormalizeAppend
  <2>6. i + 1 \in 0..n
    BY <1>1, <1>4
  <2>. QED BY <2>2, <2>5, <2>6
<1>5. n \in T
  <2>. HIDE DEF T, n
  <2>1. \A i \in 0..n : i \in T
    BY <1>1, <1>3, <1>4, Counting
  <2>. QED BY <1>1, <2>1
<1>6. SubSeq(p, 1, n) = p
  BY <1>1
<1>. QED BY <1>5, <1>6

\* What is entered before components that do not climb stays in front.
LEMMA NormalizeKeepsFront ==
  ASSUME NEW p \in Path, NEW r \in Seq(Name \cup {Dot})
  PROVE  /\ Normalize(p \o r) \in Path
         /\ Len(Normalize(p \o r)) >= Len(p)
         /\ \A i \in 1..Len(p) : Normalize(p \o r)[i] = p[i]
<1>. DEFINE n == Len(r)
            Keeps(q) == /\ q \in Path /\ Len(q) >= Len(p)
                        /\ \A i \in 1..Len(p) : q[i] = p[i]
            T == {i \in 0..n : Keeps(Normalize(p \o SubSeq(r, 1, i)))}
<1>1. n \in Nat /\ (\A i \in 1..n : r[i] \in Name \cup {Dot}) /\ r \in Seq(RawName)
      /\ p \in Seq(RawName) /\ Len(p) \in Nat
  BY DEF Path, RawName
<1>2. 0 \in T
  <2>1. p \o SubSeq(r, 1, 0) = p
    BY <1>1, SubSeqEmpty, ConcatEmptySeq
  <2>2. Normalize(p) = p /\ 0 \in 0..n
    BY <1>1, NormalizeOfPath
  <2>3. Keeps(p)
    BY <1>1
  <2>4. Normalize(p \o SubSeq(r, 1, 0)) = p
    BY <2>1, <2>2
  <2>. HIDE DEF n, Keeps
  <2>. QED BY <2>2, <2>3, <2>4
<1>3. ASSUME NEW i \in 0..n, i \in T, i < n PROVE i + 1 \in T
  <2>. DEFINE pre == p \o SubSeq(r, 1, i)
              part == r[i + 1]
              q == Normalize(pre)
  <2>0. SubSeq(r, 1, i) \in Seq(RawName) /\ i + 1 \in 1..n
    <3>1. i \in Int /\ 1 \in Int /\ i + 1 \in 1..n /\ \A j \in 1..i : r[j] \in RawName
      BY <1>1, <1>3 DEF RawName
    <3>. QED BY <3>1, SubSeqProperties
  <2>1. pre \in Seq(RawName) /\ part \in Name \cup {Dot} /\ part \in RawName
    <3>1. pre \in Seq(RawName)
      BY <1>1, <2>0, ConcatProperties
    <3>. QED BY <1>1, <2>0, <3>1 DEF RawName
  <2>2. p \o SubSeq(r, 1, i + 1) = Append(pre, part)
    <3>1. SubSeq(r, 1, i + 1) = Append(SubSeq(r, 1, i), part)
      BY <1>1, <2>0
    <3>. QED BY <1>1, <2>0, <2>1, <3>1
  <2>3. Keeps(q)
    BY <1>3
  <2>4. Normalize(Append(pre, part)) = Enter(q, part)
    <3>. HIDE DEF pre, part
    <3>. QED BY <2>1, NormalizeAppend
  <2>5. Keeps(Enter(q, part))
    <3>. HIDE DEF q, part
    <3>1. CASE part = Dot
      <4>1. Enter(q, part) = q
        BY <3>1, DotsAssumption DEF Enter
      <4>. QED BY <2>3, <4>1
    <3>2. CASE part \in Name
      <4>1. Enter(q, part) = Append(q, part)
        BY <3>2, DotsAssumption DEF Enter
      <4>2. Keeps(Append(q, part))
        <5>1. q \in Seq(Name) /\ Len(q) \in Nat
          BY <2>3 DEF Path
        <5>2. /\ Append(q, part) \in Seq(Name)
              /\ Len(Append(q, part)) = Len(q) + 1
              /\ \A j \in 1..Len(q) : Append(q, part)[j] = q[j]
          BY <3>2, <5>1, AppendProperties
        <5>. HIDE DEF n, T
        <5>. QED BY <1>1, <2>3, <5>1, <5>2 DEF Path
      <4>. QED BY <4>1, <4>2
    <3>. QED BY <2>1, <3>1, <3>2
  <2>6. i + 1 \in 0..n
    BY <1>1, <1>3
  <2>. HIDE DEF q, part, pre, n, Keeps
  <2>. QED BY <2>2, <2>4, <2>5, <2>6
<1>4. n \in T
  <2>. HIDE DEF T, n
  <2>1. \A i \in 0..n : i \in T
    BY <1>1, <1>2, <1>3, Counting
  <2>. QED BY <1>1, <2>1
<1>5. SubSeq(r, 1, n) = r
  BY <1>1
<1>. QED BY <1>4, <1>5

-----------------------------------------------------------------------------
(* Paths.                                                                  *)

\* ParentOf takes the last component away.
LEMMA ParentLemma ==
  ASSUME NEW p \in Path
  PROVE  /\ ParentOf(p) \in Path
         /\ p # Root => Len(ParentOf(p)) = Len(p) - 1
         /\ p = Root => ParentOf(p) = Root
         /\ \A i \in 1..Len(p) - 1 : ParentOf(p)[i] = p[i]
<1>1. /\ ParentOf(p) \in Path
      /\ Len(ParentOf(p)) = IF 1 <= Len(p) - 1 THEN Len(p) - 1 ELSE 0
      /\ \A i \in 1..Len(p) - 1 : ParentOf(p)[i] = p[i]
  BY SubSeqProperties, \A i \in 1..Len(p) - 1 : p[i] \in Name DEF ParentOf, Path
<1>2. p # Root => Len(p) >= 1
  BY EmptySeq DEF Root, Path
<1>3. p = Root => ParentOf(p) = Root
  BY SubSeqEmpty DEF Root, ParentOf
<1>4. p # Root => Len(ParentOf(p)) = Len(p) - 1
  <2>. DEFINE m == Len(p)
              n == Len(ParentOf(p))
  <2>1. /\ m \in Nat /\ n \in Nat
        /\ p # Root => m >= 1
        /\ n = IF 1 <= m - 1 THEN m - 1 ELSE 0
    BY <1>1, <1>2 DEF Path
  <2>. HIDE DEF m, n
  <2>2. p # Root => n = m - 1
    BY <2>1
  <2>. QED BY <2>2 DEF m, n
<1>. QED BY <1>1, <1>3, <1>4

\* A prefix of a path is a path.
LEMMA PrefixLemma ==
  ASSUME NEW p \in Path, NEW n \in 0..Len(p)
  PROVE  /\ SubSeq(p, 1, n) \in Path
         /\ Len(SubSeq(p, 1, n)) = n
         /\ \A i \in 1..n : SubSeq(p, 1, n)[i] = p[i]
<1>1. Len(p) \in Nat /\ \A i \in 1..Len(p) : p[i] \in Name
  BY DEF Path
<1>2. \A i \in 1..n : p[i] \in Name
  BY <1>1
<1>. QED BY <1>1, <1>2, SubSeqProperties DEF Path

\* UpperKey changes letters only.
LEMMA UpperLemma ==
  ASSUME NEW p \in Path
  PROVE  /\ UpperKey(p) \in Path
         /\ Len(UpperKey(p)) = Len(p)
         /\ \A i \in 1..Len(p) : UpperKey(p)[i] = Upper[p[i]]
BY UpperAssumption DEF UpperKey, Path

\* The key of a parent is the parent of the key.
LEMMA UpperOfParent ==
  ASSUME NEW p \in Path
  PROVE  UpperKey(ParentOf(p)) = ParentOf(UpperKey(p))
<1>1. UpperKey(ParentOf(p)) \in Path /\ ParentOf(UpperKey(p)) \in Path
  BY ParentLemma, UpperLemma
<1>2. p = Root <=> UpperKey(p) = Root
  BY UpperLemma, EmptySeq DEF Root, Path
<1>3. Len(UpperKey(ParentOf(p))) = Len(ParentOf(UpperKey(p)))
  BY <1>2, ParentLemma, UpperLemma
<1>4. \A i \in 1..Len(ParentOf(p)) : UpperKey(ParentOf(p))[i] = ParentOf(UpperKey(p))[i]
  <2>. SUFFICES ASSUME NEW i \in 1..Len(ParentOf(p))
                PROVE  UpperKey(ParentOf(p))[i] = ParentOf(UpperKey(p))[i]
    OBVIOUS
  <2>1. p # Root
    BY ParentLemma, EmptySeq DEF Root, Path
  <2>2. i \in 1..Len(p) - 1 /\ i \in 1..Len(p)
    BY <2>1, ParentLemma, UpperLemma DEF Path
  <2>3. UpperKey(ParentOf(p))[i] = Upper[p[i]]
    BY <2>2, ParentLemma, UpperLemma
  <2>4. ParentOf(UpperKey(p))[i] = Upper[p[i]]
    BY <2>2, ParentLemma, UpperLemma
  <2>. QED BY <2>3, <2>4
<1>. QED BY <1>1, <1>3, <1>4, SeqEqual, UpperLemma, ParentLemma DEF Path

\* What Below says, position by position.
LEMMA BelowLemma ==
  ASSUME NEW d \in Path, NEW k \in Path
  PROVE  Below(d, k) <=> /\ Len(d) >= 1
                         /\ Len(k) > Len(d)
                         /\ \A i \in 1..Len(d) : k[i] = d[i]
<1>. Len(d) \in Nat /\ Len(k) \in Nat
  BY DEF Path
<1>1. d # Root <=> Len(d) >= 1
  BY EmptySeq DEF Root, Path
<1>2. ASSUME Len(k) > Len(d)
      PROVE  SubSeq(k, 1, Len(d)) = d <=> \A i \in 1..Len(d) : k[i] = d[i]
  BY <1>2, PrefixLemma, SeqEqual DEF Path
<1>. QED BY <1>1, <1>2 DEF Below

\* Rebase puts what is under `from` under `to`, in the same place.
LEMMA RebaseLemma ==
  ASSUME NEW from \in Path, NEW to \in Path, NEW k \in Path, Len(k) >= Len(from)
  PROVE  /\ Rebase(k, from, to) \in Path
         /\ Len(Rebase(k, from, to)) = Len(to) + Len(k) - Len(from)
         /\ \A i \in 1..Len(to) : Rebase(k, from, to)[i] = to[i]
         /\ \A i \in Len(to) + 1..Len(to) + Len(k) - Len(from) :
              Rebase(k, from, to)[i] = k[i - Len(to) + Len(from)]
<1>. DEFINE tail == SubSeq(k, Len(from) + 1, Len(k))
<1>. Len(k) \in Nat /\ Len(from) \in Nat /\ Len(to) \in Nat /\ \A i \in 1..Len(k) : k[i] \in Name
  BY DEF Path
<1>1. /\ tail \in Path
      /\ Len(tail) = Len(k) - Len(from)
      /\ \A i \in 1..Len(k) - Len(from) : tail[i] = k[Len(from) + i]
  <2>1. \A i \in Len(from) + 1..Len(k) : k[i] \in Name
    OBVIOUS
  <2>2. /\ tail \in Path
        /\ Len(tail) = IF Len(from) + 1 <= Len(k) THEN Len(k) - (Len(from) + 1) + 1 ELSE 0
        /\ \A i \in 1..Len(k) - (Len(from) + 1) + 1 : tail[i] = k[Len(from) + 1 + i - 1]
    BY <2>1, SubSeqProperties DEF Path
  <2>3. Len(tail) = Len(k) - Len(from)
    BY <2>2
  <2>4. ASSUME NEW i \in 1..Len(k) - Len(from)
        PROVE  tail[i] = k[Len(from) + i]
    <3>1. i \in 1..Len(k) - (Len(from) + 1) + 1 /\ Len(from) + 1 + i - 1 = Len(from) + i
      OBVIOUS
    <3>. QED BY <2>2, <3>1
  <2>. QED BY <2>2, <2>3, <2>4
<1>. HIDE DEF tail
<1>2. Rebase(k, from, to) = to \o tail
  BY DEF Rebase, tail
<1>3. /\ to \o tail \in Path
      /\ Len(to \o tail) = Len(to) + Len(tail)
      /\ \A i \in 1..Len(to) + Len(tail) :
           (to \o tail)[i] = IF i <= Len(to) THEN to[i] ELSE tail[i - Len(to)]
  BY <1>1, ConcatProperties DEF Path
<1>4. ASSUME NEW i \in Len(to) + 1..Len(to) + Len(k) - Len(from)
      PROVE  Rebase(k, from, to)[i] = k[i - Len(to) + Len(from)]
  <2>1. i - Len(to) \in 1..Len(k) - Len(from) /\ i \in 1..Len(to) + Len(tail) /\ ~(i <= Len(to))
    BY <1>1
  <2>2. Len(from) + (i - Len(to)) = i - Len(to) + Len(from)
    BY <2>1
  <2>. QED BY <1>1, <1>2, <1>3, <2>1, <2>2
<1>. QED BY <1>1, <1>2, <1>3, <1>4

\* k is `dir` or lies below it: what a rename of dir moves.
Under(dir, k) == k = dir \/ Below(dir, k)

LEMMA UnderLemma ==
  ASSUME NEW d \in Path, NEW k \in Path, Under(d, k)
  PROVE  Len(k) >= Len(d) /\ \A i \in 1..Len(d) : k[i] = d[i]
BY BelowLemma DEF Under, Path

\* Moving back what has been moved gives what there was.
LEMMA RebaseInverse ==
  ASSUME NEW from \in Path, NEW to \in Path, NEW k \in Path, Under(from, k)
  PROVE  Rebase(Rebase(k, from, to), to, from) = k
<1>. DEFINE r  == Rebase(k, from, to)
            b  == Rebase(r, to, from)
            lf == Len(from)
            lt == Len(to)
            lk == Len(k)
<1>1. lf \in Nat /\ lt \in Nat /\ lk \in Nat
  BY DEF Path
<1>2. lk >= lf /\ \A i \in 1..lf : k[i] = from[i]
  BY UnderLemma
<1>3. /\ r \in Path
      /\ Len(r) = lt + lk - lf
      /\ \A i \in lt + 1..lt + lk - lf : r[i] = k[i - lt + lf]
  BY <1>2, RebaseLemma
<1>4. Len(r) >= lt
  <2>. DEFINE lr == Len(r)
  <2>1. lr = lt + lk - lf
    BY <1>3
  <2>. HIDE DEF lr, lt, lk, lf
  <2>2. lr >= lt
    BY <1>1, <1>2, <2>1
  <2>. QED BY <2>2 DEF lr
<1>5. /\ b \in Path
      /\ Len(b) = lf + Len(r) - lt
      /\ \A i \in 1..lf : b[i] = from[i]
      /\ \A i \in lf + 1..lf + Len(r) - lt : b[i] = r[i - lf + lt]
  BY <1>3, <1>4, RebaseLemma
<1>. HIDE DEF r, b, lf, lt, lk
<1>6. lf + Len(r) - lt = lk
  BY <1>1, <1>3
<1>7. ASSUME NEW i \in 1..lk
      PROVE  b[i] = k[i]
  <2>1. CASE i \in 1..lf
    BY <1>2, <1>5, <2>1
  <2>2. CASE i \in lf + 1..lk
    <3>. DEFINE j == i - lf + lt
    <3>1. b[i] = r[j]
      BY <1>5, <1>6, <2>2
    <3>2. j \in lt + 1..lt + lk - lf /\ j - lt + lf = i
      BY <1>1, <2>2
    <3>. HIDE DEF j
    <3>3. r[j] = k[j - lt + lf]
      BY <1>3, <3>2
    <3>. QED BY <3>1, <3>2, <3>3
  <2>. QED BY <1>1, <2>1, <2>2
<1>8. Len(b) = Len(k)
  BY <1>5, <1>6 DEF lk
<1>. QED BY <1>5, <1>7, <1>8, SeqEqual DEF r, b, lk, Path

\* What is below a path is below its parent, or is the parent.
LEMMA BelowParent ==
  ASSUME NEW k \in Path, NEW d \in Path, k # Root
  PROVE  /\ Below(d, k) => d = ParentOf(k) \/ Below(d, ParentOf(k))
         /\ ParentOf(k) = Root \/ Below(ParentOf(k), k)
<1>. DEFINE p  == ParentOf(k)
            lp == Len(p)
            lk == Len(k)
            ld == Len(d)
<1>1. /\ p \in Path
      /\ lp = lk - 1
      /\ \A i \in 1..lk - 1 : p[i] = k[i]
  BY ParentLemma
<1>2. lp \in Nat /\ lk \in Nat /\ ld \in Nat
  BY <1>1 DEF Path
<1>3. p # Root => lp >= 1
  BY <1>1, EmptySeq DEF Path, Root
<1>. HIDE DEF p
<1>4. Below(p, k) <=> lp >= 1 /\ lk > lp /\ \A i \in 1..lp : k[i] = p[i]
  BY <1>1, BelowLemma
<1>5. Below(d, k) <=> ld >= 1 /\ lk > ld /\ \A i \in 1..ld : k[i] = d[i]
  BY BelowLemma
<1>6. Below(d, p) <=> ld >= 1 /\ lp > ld /\ \A i \in 1..ld : p[i] = d[i]
  BY <1>1, BelowLemma
<1>7. p \in Seq(Name) /\ d \in Seq(Name)
  BY <1>1 DEF Path
<1>8. lp = ld /\ (\A i \in 1..lp : p[i] = d[i]) => p = d
  BY <1>7, SeqEqual
<1>. HIDE DEF lp, lk, ld
<1>9. p = Root \/ Below(p, k)
  BY <1>1, <1>2, <1>3, <1>4
<1>10. ASSUME Below(d, k) PROVE d = p \/ Below(d, p)
  <2>1. ld >= 1 /\ ld <= lp /\ \A i \in 1..ld : p[i] = d[i]
    BY <1>1, <1>2, <1>5, <1>10
  <2>. QED BY <1>2, <1>6, <1>8, <2>1
<1>. QED BY <1>9, <1>10 DEF p

\* Two directories above one path lie one above the other.
LEMMA AboveIsChain ==
  ASSUME NEW a \in Path, NEW b \in Path, NEW k \in Path, Under(a, k), Below(b, k), a # Root
  PROVE  Under(a, b) \/ Below(b, a)
<1>. DEFINE la == Len(a)
            lb == Len(b)
            lk == Len(k)
<1>1. la \in Nat /\ lb \in Nat /\ lk \in Nat
  BY DEF Path
<1>2. lk >= la /\ \A i \in 1..la : k[i] = a[i]
  BY UnderLemma
<1>3. lb >= 1 /\ lk > lb /\ \A i \in 1..lb : k[i] = b[i]
  BY BelowLemma
<1>4. Below(a, b) <=> la >= 1 /\ lb > la /\ \A i \in 1..la : b[i] = a[i]
  BY BelowLemma
<1>5. Below(b, a) <=> lb >= 1 /\ la > lb /\ \A i \in 1..lb : a[i] = b[i]
  BY BelowLemma
<1>6. a \in Seq(Name) /\ b \in Seq(Name)
  BY DEF Path
<1>7. la = lb /\ (\A i \in 1..la : a[i] = b[i]) => a = b
  BY <1>6, SeqEqual
<1>8. la >= 1
  BY <1>6, EmptySeq DEF Root
<1>. HIDE DEF la, lb, lk
<1>9. CASE la < lb
  BY <1>1, <1>2, <1>3, <1>4, <1>8, <1>9 DEF Under
<1>10. CASE la = lb
  BY <1>1, <1>2, <1>3, <1>7, <1>10 DEF Under
<1>11. CASE la > lb
  BY <1>1, <1>2, <1>3, <1>5, <1>11
<1>. QED BY <1>1, <1>9, <1>10, <1>11

\* Under is transitive.
LEMMA UnderTransitive ==
  ASSUME NEW a \in Path, NEW b \in Path, NEW k \in Path, Under(a, b), Below(b, k), a # Root
  PROVE  Below(a, k)
<1>. DEFINE la == Len(a)
            lb == Len(b)
            lk == Len(k)
<1>1. la \in Nat /\ lb \in Nat /\ lk \in Nat
  BY DEF Path
<1>2. lb >= la /\ \A i \in 1..la : b[i] = a[i]
  BY UnderLemma
<1>3. lb >= 1 /\ lk > lb /\ \A i \in 1..lb : k[i] = b[i]
  BY BelowLemma
<1>4. Below(a, k) <=> la >= 1 /\ lk > la /\ \A i \in 1..la : k[i] = a[i]
  BY BelowLemma
<1>5. la >= 1
  BY EmptySeq DEF Root, Path
<1>. HIDE DEF la, lb, lk
<1>. QED BY <1>1, <1>2, <1>3, <1>4, <1>5

\* What was under `from` is under `to`, and what was below it still is.
LEMMA RebaseUnder ==
  ASSUME NEW from \in Path, NEW to \in Path, NEW k \in Path, Under(from, k), to # Root
  PROVE  Under(to, Rebase(k, from, to))
<1>. DEFINE r  == Rebase(k, from, to)
            lf == Len(from)
            lt == Len(to)
            lk == Len(k)
            lr == Len(r)
<1>1. lf \in Nat /\ lt \in Nat /\ lk \in Nat
  BY DEF Path
<1>2. lk >= lf
  BY UnderLemma
<1>3. r \in Path /\ lr = lt + lk - lf /\ \A i \in 1..lt : r[i] = to[i]
  BY <1>2, RebaseLemma
<1>4. lt >= 1
  BY EmptySeq DEF Root, Path
<1>. HIDE DEF r
<1>5. Below(to, r) <=> lt >= 1 /\ lr > lt /\ \A i \in 1..lt : r[i] = to[i]
  BY <1>3, BelowLemma
<1>6. r \in Seq(Name) /\ to \in Seq(Name)
  BY <1>3 DEF Path
<1>7. lr = lt /\ (\A i \in 1..lr : r[i] = to[i]) => r = to
  BY <1>6, SeqEqual
<1>. HIDE DEF lf, lt, lk, lr
<1>8. CASE lr = lt
  BY <1>3, <1>7, <1>8 DEF Under, r
<1>9. CASE lr > lt
  BY <1>3, <1>4, <1>5, <1>9 DEF Under, r
<1>10. lr >= lt
  BY <1>1, <1>2, <1>3
<1>. QED BY <1>1, <1>3, <1>8, <1>9, <1>10

LEMMA RebaseBelow ==
  ASSUME NEW from \in Path, NEW to \in Path, NEW d \in Path, NEW k \in Path,
         Under(from, d), Below(d, k), from # Root, to # Root
  PROVE  Below(Rebase(d, from, to), Rebase(k, from, to))
<1>. DEFINE rd == Rebase(d, from, to)
            rk == Rebase(k, from, to)
            lf == Len(from)
            lt == Len(to)
            ld == Len(d)
            lk == Len(k)
<1>1. lf \in Nat /\ lt \in Nat /\ lk \in Nat /\ ld \in Nat
  BY DEF Path
<1>2. ld >= lf
  BY UnderLemma
<1>3. ld >= 1 /\ lk > ld /\ \A i \in 1..ld : k[i] = d[i]
  BY BelowLemma
<1>4. lk >= lf
  <2>. HIDE DEF lf, ld, lk
  <2>. QED BY <1>1, <1>2, <1>3
<1>5. /\ rd \in Path
      /\ Len(rd) = lt + ld - lf
      /\ \A i \in 1..lt : rd[i] = to[i]
      /\ \A i \in lt + 1..lt + ld - lf : rd[i] = d[i - lt + lf]
  BY <1>2, RebaseLemma
<1>6. /\ rk \in Path
      /\ Len(rk) = lt + lk - lf
      /\ \A i \in 1..lt : rk[i] = to[i]
      /\ \A i \in lt + 1..lt + lk - lf : rk[i] = k[i - lt + lf]
  BY <1>4, RebaseLemma
<1>7. lt >= 1
  BY EmptySeq DEF Root, Path
<1>. HIDE DEF rd, rk
<1>8. Below(rd, rk) <=> /\ Len(rd) >= 1
                        /\ Len(rk) > Len(rd)
                        /\ \A i \in 1..Len(rd) : rk[i] = rd[i]
  BY <1>5, <1>6, BelowLemma
<1>. HIDE DEF lf, lt, ld, lk
<1>9. ASSUME NEW i \in 1..lt + ld - lf
      PROVE  rk[i] = rd[i]
  <2>1. CASE i \in 1..lt
    BY <1>5, <1>6, <2>1
  <2>2. CASE i \in lt + 1..lt + ld - lf
    <3>. DEFINE j == i - lt + lf
    <3>1. rd[i] = d[j]
      BY <1>5, <2>2
    <3>2. j \in 1..ld /\ i \in lt + 1..lt + lk - lf
      BY <1>1, <1>2, <1>3, <2>2
    <3>3. rk[i] = k[j]
      BY <1>6, <3>2
    <3>. HIDE DEF j
    <3>. QED BY <1>3, <3>1, <3>2, <3>3
  <2>. QED BY <1>1, <2>1, <2>2
<1>. DEFINE m == Len(rd)
            n == Len(rk)
<1>10. m = lt + ld - lf /\ n = lt + lk - lf
  BY <1>5, <1>6
<1>11. Below(rd, rk) <=> m >= 1 /\ n > m /\ \A i \in 1..m : rk[i] = rd[i]
  BY <1>8
<1>. HIDE DEF m, n
<1>12. m >= 1 /\ n > m
  BY <1>1, <1>2, <1>3, <1>7, <1>10
<1>. QED BY <1>9, <1>10, <1>11, <1>12 DEF rd, rk

\* A move onto itself moves nothing.
LEMMA RebaseSelf ==
  ASSUME NEW from \in Path, NEW k \in Path, Under(from, k)
  PROVE  Rebase(k, from, from) = k
<1>. DEFINE r  == Rebase(k, from, from)
            lf == Len(from)
            lk == Len(k)
            lr == Len(r)
<1>1. lf \in Nat /\ lk \in Nat
  BY DEF Path
<1>2. lk >= lf /\ \A i \in 1..lf : k[i] = from[i]
  BY UnderLemma
<1>3. /\ r \in Path
      /\ lr = lf + lk - lf
      /\ \A i \in 1..lf : r[i] = from[i]
      /\ \A i \in lf + 1..lf + lk - lf : r[i] = k[i - lf + lf]
  BY <1>2, RebaseLemma
<1>. HIDE DEF r
<1>4. r \in Seq(Name) /\ k \in Seq(Name)
  BY <1>3 DEF Path
<1>5. lr = lk /\ (\A i \in 1..lr : r[i] = k[i]) => r = k
  BY <1>4, SeqEqual
<1>. HIDE DEF lf, lk, lr
<1>6. lr = lk
  BY <1>1, <1>3
<1>7. ASSUME NEW i \in 1..lk
      PROVE  r[i] = k[i]
  <2>1. CASE i \in 1..lf
    BY <1>2, <1>3, <2>1
  <2>2. CASE i \in lf + 1..lf + lk - lf
    <3>1. i - lf + lf = i
      BY <1>1
    <3>. QED BY <1>3, <2>2, <3>1
  <2>. QED BY <1>1, <2>1, <2>2
<1>. QED BY <1>5, <1>6, <1>7 DEF r

-----------------------------------------------------------------------------
(* Cards.                                                                  *)

IsCard(card) ==
  /\ DOMAIN card \subseteq Path
  /\ card = [k \in DOMAIN card |-> card[k]]
  /\ \A k \in DOMAIN card : card[k] \in Node

\* Put and Without change the node they name and no other.
LEMMA PutLemma ==
  ASSUME NEW card, IsCard(card), NEW k \in Path, NEW n \in Node
  PROVE  /\ IsCard(Put(card, k, n))
         /\ DOMAIN Put(card, k, n) = DOMAIN card \cup {k}
         /\ Put(card, k, n)[k] = n
         /\ \A x \in DOMAIN card \ {k} : Put(card, k, n)[x] = card[x]
BY DEF IsCard, Put

LEMMA WithoutLemma ==
  ASSUME NEW card, IsCard(card), NEW K
  PROVE  /\ IsCard(Without(card, K))
         /\ DOMAIN Without(card, K) = DOMAIN card \ K
         /\ \A x \in DOMAIN card \ K : Without(card, K)[x] = card[x]
BY DEF IsCard, Without

\* The nodes the code makes are nodes.
LEMMA GhostTyped == Ghost \in Node /\ ~Ghost.isDirectory /\ Ghost.data = <<>>
<1>1. Root \in Path /\ <<>> \in Seq(Nat)
  BY EmptySeq DEF Root, Path
<1>. QED BY <1>1 DEF Ghost, Node

LEMMA LastNameTyped ==
  ASSUME NEW p \in Seq(RawName)
  PROVE  LastName(p) \in RawName \cup {NoName}
<1>1. CASE p = Root
  BY <1>1 DEF LastName
<1>2. CASE p # Root
  <2>1. Len(p) \in 1..Len(p)
    BY <1>2, EmptySeq DEF Root
  <2>. QED BY <1>2, <2>1, ElementOfSeq DEF LastName
<1>. QED BY <1>1, <1>2

LEMMA PathIsRaw == Path \subseteq Seq(RawName)
BY SeqMonotonic DEF Path, RawName

LEMMA MkNodeTyped ==
  ASSUME NEW norm \in Path, NEW dir \in BOOLEAN
  PROVE  /\ MkNode(norm, dir) \in Node
         /\ MkNode(norm, dir).isDirectory = dir
         /\ MkNode(norm, dir).data = <<>>
<1>1. LastName(norm) \in RawName \cup {NoName}
  BY PathIsRaw, LastNameTyped
<1>2. <<>> \in Seq(Nat)
  BY EmptySeq
<1>. QED BY <1>1, <1>2 DEF MkNode, Node

\* A look-up through a handle keeps the card a card.
LEMMA TouchedLemma ==
  ASSUME IsCard(nodes), NEW k \in Path
  PROVE  /\ IsCard(Touched(k))
         /\ DOMAIN Touched(k) = DOMAIN nodes \cup {k}
         /\ \A x \in DOMAIN nodes : Touched(k)[x] = nodes[x]
<1>1. CASE k \in DOMAIN nodes
  BY <1>1 DEF Touched
<1>2. CASE k \notin DOMAIN nodes
  <2>1. Touched(k) = Put(nodes, k, Ghost)
    BY <1>2 DEF Touched
  <2>2. IsCard(Put(nodes, k, Ghost))
    BY PutLemma, GhostTyped
  <2>3. /\ DOMAIN Put(nodes, k, Ghost) = DOMAIN nodes \cup {k}
        /\ \A x \in DOMAIN nodes : Put(nodes, k, Ghost)[x] = nodes[x]
    BY <1>2 DEF Put
  <2>. QED BY <2>1, <2>2, <2>3
<1>. QED BY <1>1, <1>2

LEMMA ResizeLemma ==
  ASSUME NEW d \in Seq(Nat), NEW n \in Nat
  PROVE  /\ Resize(d, n) \in Seq(Nat)
         /\ Len(Resize(d, n)) = n
<1>1. \A i \in 1..n : (IF i <= Len(d) THEN d[i] ELSE 0) \in Nat
  OBVIOUS
<1>. QED BY <1>1 DEF Resize

\* A write makes a file at least as long as it reaches, and never shorter.
LEMMA OverwriteLemma ==
  ASSUME NEW d \in Seq(Nat), NEW pos \in Nat, NEW c \in Seq(Nat)
  PROVE  /\ Overwrite(d, pos, c) \in Seq(Nat)
         /\ Len(Overwrite(d, pos, c)) >= Len(d)
         /\ Len(Overwrite(d, pos, c)) >= pos + Len(c)
<1>. DEFINE n == Len(d)
            m == Len(c)
            byte(i) == IF i > pos /\ i <= pos + m THEN c[i - pos]
                       ELSE IF i <= n THEN d[i] ELSE 0
<1>1. /\ n \in Nat /\ m \in Nat
      /\ \A i \in 1..n : d[i] \in Nat
      /\ \A i \in 1..m : c[i] \in Nat
  OBVIOUS
<1>2. Overwrite(d, pos, c) = [i \in 1..Larger(n, pos + m) |-> byte(i)]
  BY DEF Overwrite
<1>. HIDE DEF n, m
<1>3. Larger(n, pos + m) \in Nat /\ Larger(n, pos + m) >= n /\ Larger(n, pos + m) >= pos + m
  BY <1>1 DEF Larger
<1>4. ASSUME NEW i \in 1..Larger(n, pos + m)
      PROVE  byte(i) \in Nat
  <2>1. CASE i > pos /\ i <= pos + m
    <3>1. i - pos \in 1..m
      BY <1>1, <1>3, <2>1
    <3>. QED BY <1>1, <2>1, <3>1
  <2>2. CASE ~(i > pos /\ i <= pos + m) /\ i <= n
    <3>1. i \in 1..n
      BY <1>1, <1>3, <2>2
    <3>. QED BY <1>1, <2>2, <3>1
  <2>3. CASE ~(i > pos /\ i <= pos + m) /\ ~(i <= n)
    BY <2>3
  <2>. QED BY <2>1, <2>2, <2>3
<1>. HIDE DEF byte
<1>5. /\ Overwrite(d, pos, c) \in Seq(Nat)
      /\ Len(Overwrite(d, pos, c)) = Larger(n, pos + m)
  <2>. DEFINE top == Larger(n, pos + m)
  <2>. HIDE DEF top
  <2>1. [i \in 1..top |-> byte(i)] \in Seq(Nat) /\ Len([i \in 1..top |-> byte(i)]) = top
    BY <1>3, <1>4 DEF top
  <2>. QED BY <1>2, <2>1 DEF top
<1>. QED BY <1>3, <1>5 DEF n, m

-----------------------------------------------------------------------------
(* Types.                                                                  *)

IsOpen(files, last) ==
  /\ last \in Nat
  /\ DOMAIN files \subseteq 1..last
  /\ files = [h \in DOMAIN files |-> files[h]]
  /\ \A h \in DOMAIN files : files[h] \in OpenEntry

LEMMA TypeParts == TypeOK <=> IsCard(nodes) /\ IsOpen(open, lastHandle)
BY DEF TypeOK, IsCard, IsOpen

\* Changing the fields of one entry keeps the handles.
LEMMA EntryLemma ==
  ASSUME IsOpen(open, lastHandle), NEW h \in DOMAIN open, NEW p \in Nat,
         NEW t \in Nat \cup {NotTruncating}
  PROVE  /\ IsOpen([open EXCEPT ![h].pos = p], lastHandle)
         /\ IsOpen([open EXCEPT ![h].pos = p, ![h].truncTo = t], lastHandle)
BY ZenonT(60) DEF IsOpen, OpenEntry

\* The positions that the operations on a handle arrive at.
LEMMA PositionsTyped ==
  ASSUME NEW a \in Nat, NEW b \in Nat, NEW i \in Int,
         NEW t \in Nat \cup {NotTruncating}
  PROVE  /\ Larger(i, 0) \in Nat
         /\ Smaller(a, b) \in Nat
         /\ Landing(a, i) \in Nat
         /\ TruncAfterWrite(t, a) \in Nat \cup {NotTruncating}
BY DEF Larger, Smaller, Landing, TruncAfterWrite, NotTruncating

\* What a rename's target is made of: a path, the target itself if it is one, and
\* the way a trailing dot says.
LEMMA RenamesLemma ==
  ASSUME NEW from \in RawPath, NEW to \in RawPath
  PROVE  /\ \A bare \in BOOLEAN :
              LET target == RenameTarget(from, to, bare)
              IN  /\ Normalize(target) \in Path
                  /\ target \in Path => Normalize(target) = target
         /\ \A part \in {Dot, DotDot} :
              to = <<part>> => Normalize(RenameTarget(from, to, TRUE)) =
                                 Enter(ParentOf(Normalize(from)), part)
<1>. DEFINE above == ParentOf(Normalize(from))
<1>1. from \in Seq(RawName) /\ to \in Seq(RawName)
  BY PathsAssumption
<1>2. Normalize(from) \in Path /\ Normalize(to) \in Path
  BY <1>1, NormalizeTyped
<1>3. above \in Path
  BY <1>2, ParentLemma
<1>4. above \in Seq(RawName) /\ Normalize(to) \in Seq(RawName)
  BY <1>2, <1>3 DEF Path, RawName
<1>5. above \o to \in Seq(RawName)
  <2>. HIDE DEF above
  <2>. QED BY <1>1, <1>4, ConcatProperties
<1>6. ASSUME NEW bare \in BOOLEAN
      PROVE  RenameTarget(from, to, bare) \in Seq(RawName)
  BY <1>4, <1>5 DEF RenameTarget
<1>7. ASSUME NEW part \in {Dot, DotDot}, to = <<part>>
      PROVE  Normalize(RenameTarget(from, to, TRUE)) = Enter(above, part)
  <2>. HIDE DEF above
  <2>1. part \in RawName
    BY DEF RawName
  <2>2. above \o to = Append(above, part)
    BY <1>4, <1>7, <2>1, AppendIsConcat
  <2>3. Normalize(Append(above, part)) = Enter(Normalize(above), part)
    BY <1>4, <2>1, NormalizeAppend
  <2>4. Normalize(above) = above
    BY <1>3, NormalizeOfPath
  <2>5. RenameTarget(from, to, TRUE) = above \o to
    BY DEF RenameTarget, above
  <2>. QED BY <2>2, <2>3, <2>4, <2>5
<1>. HIDE DEF above
<1>8. ASSUME NEW bare \in BOOLEAN
      PROVE  LET target == RenameTarget(from, to, bare)
             IN  /\ Normalize(target) \in Path
                 /\ target \in Path => Normalize(target) = target
  BY <1>6, NormalizeTyped, NormalizeOfPath
<1>. QED BY <1>7, <1>8 DEF above

\* The names the program uses are names of the card.
LEMMA NamesTyped ==
  ASSUME NEW raw \in RawPath
  PROVE  /\ Normalize(raw) \in Path
         /\ UpperKey(Normalize(raw)) \in Path
         /\ \A to \in RawPath, bare \in BOOLEAN :
              /\ Normalize(RenameTarget(raw, to, bare)) \in Path
              /\ UpperKey(Normalize(RenameTarget(raw, to, bare))) \in Path
BY PathsAssumption, NormalizeTyped, RenamesLemma, UpperLemma

LEMMA OpenFileTyped ==
  ASSUME TypeOK, NEW raw \in RawPath, NEW access \in OpenMode, OpenFile(raw, access)
  PROVE  TypeOK'
<1>. DEFINE norm  == Normalize(raw)
            key   == UpperKey(norm)
            after == Opened(norm, access)
            entry == [key     |-> key,
                      access  |-> access,
                      pos     |-> IF "append" \in access THEN Len(after[key].data) ELSE 0,
                      truncTo |-> IF "truncate" \in access THEN 0 ELSE NotTruncating]
<1>1. norm \in Path /\ key \in Path /\ access \subseteq Flag
  BY NamesTyped, InputsAssumption
<1>2. /\ nodes' = after
      /\ lastHandle' = lastHandle + 1
      /\ open' = Put(open, lastHandle + 1, entry)
  BY DEF OpenFile
<1>3. IsCard(nodes) /\ IsOpen(open, lastHandle)
  BY TypeParts
<1>4. IsCard(after) /\ key \in DOMAIN after
  <2>. HIDE DEF norm
  <2>1. CASE key \in DOMAIN nodes
    BY <1>3, <2>1 DEF Opened
  <2>2. CASE key \notin DOMAIN nodes
    <3>1. after = Put(nodes, key, MkNode(norm, FALSE))
      BY <2>2 DEF Opened
    <3>2. MkNode(norm, FALSE) \in Node
      BY <1>1, MkNodeTyped
    <3>3. IsCard(Put(nodes, key, MkNode(norm, FALSE)))
      BY <1>1, <1>3, <3>2, PutLemma
    <3>4. key \in DOMAIN Put(nodes, key, MkNode(norm, FALSE))
      BY DEF Put
    <3>. QED BY <3>1, <3>3, <3>4
  <2>. QED BY <2>1, <2>2
<1>. HIDE DEF norm, key, after
<1>5. entry \in OpenEntry
  <2>1. after[key].data \in Seq(Nat)
    BY <1>4 DEF IsCard, Node
  <2>2. Len(after[key].data) \in Nat
    BY <2>1
  <2>. QED BY <1>1, <2>2 DEF OpenEntry, NotTruncating
<1>. HIDE DEF entry
<1>6. IsOpen(Put(open, lastHandle + 1, entry), lastHandle + 1)
  BY <1>3, <1>5 DEF IsOpen, Put
<1>. QED BY <1>2, <1>4, <1>6 DEF TypeOK, IsCard, IsOpen

LEMMA CloseFileTyped ==
  ASSUME TypeOK, NEW h \in DOMAIN open, CloseFile(h)
  PROVE  TypeOK'
<1>1. IsCard(nodes) /\ IsOpen(open, lastHandle) /\ open[h] \in OpenEntry
  BY TypeParts DEF IsOpen
<1>2. IsCard(nodes')
  <2>1. CASE Truncating(h) /\ open[h].key \in DOMAIN nodes
    <3>. DEFINE k == open[h].key
                d == Resize(nodes[k].data, open[h].truncTo)
    <3>1. d \in Seq(Nat)
      BY <1>1, <2>1, ResizeLemma DEF OpenEntry, Truncating, IsCard, Node
    <3>2. nodes' = [nodes EXCEPT ![k].data = d]
      BY <2>1 DEF CloseFile
    <3>. HIDE DEF d
    <3>. QED BY <1>1, <2>1, <3>1, <3>2 DEF IsCard, Node
  <2>2. CASE ~(Truncating(h) /\ open[h].key \in DOMAIN nodes)
    BY <1>1, <2>2 DEF CloseFile
  <2>. QED BY <2>1, <2>2
<1>3. IsOpen(open', lastHandle')
  BY <1>1 DEF CloseFile, Without, IsOpen
<1>. QED BY <1>2, <1>3 DEF TypeOK, IsCard, IsOpen

LEMMA ReadFileTyped ==
  ASSUME TypeOK, NEW h \in DOMAIN open, NEW size \in ReadSize, ReadFile(h, size)
  PROVE  TypeOK'
<1>. DEFINE e      == open[h]
            card   == Touched(e.key)
            all    == Len(card[e.key].data)
            length == IF Truncating(h) THEN Smaller(e.truncTo, all) ELSE all
            take   == Smaller(size, Larger(length - e.pos, 0))
<1>1. IsCard(nodes) /\ IsOpen(open, lastHandle)
  BY TypeParts
<1>2. e \in OpenEntry /\ size \in Nat
  BY <1>1, InputsAssumption DEF IsOpen
<1>3. /\ nodes' = card
      /\ open' = [open EXCEPT ![h].pos = @ + take]
      /\ lastHandle' = lastHandle
  BY DEF ReadFile
<1>4. e.key \in Path /\ e.pos \in Nat /\ e.truncTo \in Nat \cup {NotTruncating}
  BY <1>2 DEF OpenEntry
<1>. HIDE DEF e
<1>5. IsCard(card) /\ e.key \in DOMAIN card
  BY <1>1, <1>4, TouchedLemma
<1>. HIDE DEF card
<1>6. card[e.key].data \in Seq(Nat)
  BY <1>5 DEF IsCard, Node
<1>7. all \in Nat
  BY <1>6
<1>. HIDE DEF all
<1>8. length \in Nat
  BY <1>4, <1>7 DEF e, Truncating, Smaller, NotTruncating
<1>. HIDE DEF length
<1>9. e.pos + take \in Nat
  BY <1>2, <1>4, <1>8 DEF Smaller, Larger
<1>. HIDE DEF take
<1>10. open' = [open EXCEPT ![h].pos = e.pos + take]
  BY <1>3 DEF e
<1>11. IsOpen(open', lastHandle')
  BY <1>1, <1>3, <1>9, <1>10, EntryLemma DEF NotTruncating
<1>. QED BY <1>3, <1>5, <1>11 DEF TypeOK, IsCard, IsOpen

LEMMA WriteFileTyped ==
  ASSUME TypeOK, NEW h \in DOMAIN open, NEW bytes \in Chunk, WriteFile(h, bytes)
  PROVE  TypeOK'
<1>. DEFINE e    == open[h]
            card == Touched(e.key)
            data == card[e.key].data
            pos  == IF "append" \in e.access THEN Len(data) ELSE e.pos
            end  == pos + Len(bytes)
<1>1. IsCard(nodes) /\ IsOpen(open, lastHandle)
  BY TypeParts
<1>2. e \in OpenEntry /\ bytes \in Seq(Nat)
  BY <1>1, InputsAssumption DEF IsOpen
<1>3. /\ nodes' = [card EXCEPT ![e.key].data = Overwrite(data, pos, bytes)]
      /\ open' = [open EXCEPT ![h].pos = end, ![h].truncTo = TruncAfterWrite(@, end)]
      /\ lastHandle' = lastHandle
  BY DEF WriteFile
<1>4. e.key \in Path /\ e.pos \in Nat /\ e.truncTo \in Nat \cup {NotTruncating}
  BY <1>2 DEF OpenEntry
<1>. HIDE DEF e
<1>5. IsCard(card) /\ e.key \in DOMAIN card
  BY <1>1, <1>4, TouchedLemma
<1>. HIDE DEF card
<1>6. data \in Seq(Nat)
  BY <1>5 DEF IsCard, Node
<1>7. pos \in Nat
  <2>1. Len(data) \in Nat
    BY <1>6
  <2>. QED BY <1>4, <2>1
<1>8. Overwrite(data, pos, bytes) \in Seq(Nat)
  BY <1>2, <1>6, <1>7, OverwriteLemma
<1>9. end \in Nat
  <2>1. Len(bytes) \in Nat
    BY <1>2
  <2>. HIDE DEF pos
  <2>. QED BY <1>7, <2>1
<1>. HIDE DEF data, pos, end
<1>10. IsCard(nodes')
  <2>. DEFINE written == Overwrite(data, pos, bytes)
  <2>. HIDE DEF written
  <2>1. nodes' = [card EXCEPT ![e.key].data = written]
    BY <1>3 DEF written
  <2>2. written \in Seq(Nat)
    BY <1>8 DEF written
  <2>. QED BY <1>5, <2>1, <2>2 DEF IsCard, Node
<1>11. open' = [open EXCEPT ![h].pos = end, ![h].truncTo = TruncAfterWrite(e.truncTo, end)]
  BY <1>3 DEF e
<1>12. IsOpen(open', lastHandle')
  <2>. DEFINE t == TruncAfterWrite(e.truncTo, end)
  <2>1. t \in Nat \cup {NotTruncating}
    BY <1>4, <1>9 DEF TruncAfterWrite, Larger, NotTruncating
  <2>2. open' = [open EXCEPT ![h].pos = end, ![h].truncTo = t]
    BY <1>11
  <2>. HIDE DEF t
  <2>3. IsOpen([open EXCEPT ![h].pos = end, ![h].truncTo = t], lastHandle)
    BY <1>1, <1>9, <2>1, EntryLemma
  <2>. QED BY <1>3, <2>2, <2>3
<1>. QED BY <1>10, <1>12 DEF TypeOK, IsCard, IsOpen

LEMMA SeekFileTyped ==
  ASSUME TypeOK, NEW h \in DOMAIN open, NEW position \in SeekOffset,
         NEW type \in FileMove, SeekFile(h, position, type)
  PROVE  TypeOK'
<1>. DEFINE e    == open[h]
            card == Touched(e.key)
            all  == Len(card[e.key].data)
            base == CASE type = "begin"   -> 0
                      [] type = "current" -> e.pos
                      [] type = "end"     -> IF Truncating(h) THEN e.truncTo ELSE all
            np   == Landing(base, position)
<1>1. IsCard(nodes) /\ IsOpen(open, lastHandle)
  BY TypeParts
<1>2. e \in OpenEntry /\ position \in Int
  BY <1>1, InputsAssumption DEF IsOpen
<1>3. /\ nodes' = card
      /\ open' = [open EXCEPT ![h].pos = np]
      /\ lastHandle' = lastHandle
  BY DEF SeekFile
<1>4. e.key \in Path /\ e.pos \in Nat /\ e.truncTo \in Nat \cup {NotTruncating}
  BY <1>2 DEF OpenEntry
<1>. HIDE DEF e
<1>5. IsCard(card) /\ e.key \in DOMAIN card
  BY <1>1, <1>4, TouchedLemma
<1>. HIDE DEF card
<1>6. card[e.key].data \in Seq(Nat)
  BY <1>5 DEF IsCard, Node
<1>7. all \in Nat
  BY <1>6
<1>. HIDE DEF all
<1>8. base \in Nat
  BY <1>4, <1>7 DEF e, Truncating, NotTruncating, FileMove
<1>. HIDE DEF base
<1>9. np \in Nat
  BY <1>2, <1>8, PositionsTyped
<1>. HIDE DEF np
<1>10. IsOpen(open', lastHandle')
  BY <1>1, <1>3, <1>9, EntryLemma DEF NotTruncating
<1>. QED BY <1>3, <1>5, <1>10 DEF TypeOK, IsCard, IsOpen

LEMMA GetFileInfoTyped ==
  ASSUME TypeOK, NEW h \in DOMAIN open, GetFileInfoByHandle(h)
  PROVE  TypeOK'
<1>1. IsCard(nodes) /\ IsOpen(open, lastHandle)
  BY TypeParts
<1>2. open[h].key \in Path
  BY <1>1 DEF IsOpen, OpenEntry
<1>3. IsCard(Touched(open[h].key))
  BY <1>1, <1>2, TouchedLemma
<1>4. nodes' = Touched(open[h].key) /\ UNCHANGED <<open, lastHandle>>
  BY DEF GetFileInfoByHandle
<1>. QED BY <1>1, <1>3, <1>4 DEF TypeOK, IsCard, IsOpen

LEMMA MkDirTyped ==
  ASSUME TypeOK, NEW raw \in RawPath, MkDir(raw)
  PROVE  TypeOK'
<1>. DEFINE norm == Normalize(raw)
            key  == UpperKey(norm)
<1>1. IsCard(nodes) /\ IsOpen(open, lastHandle)
  BY TypeParts
<1>2. norm \in Path /\ key \in Path
  BY NamesTyped
<1>3. nodes' = Put(nodes, key, MkNode(norm, TRUE)) /\ UNCHANGED <<open, lastHandle>>
  BY DEF MkDir
<1>. HIDE DEF norm, key
<1>4. MkNode(norm, TRUE) \in Node
  BY <1>2, MkNodeTyped
<1>5. IsCard(Put(nodes, key, MkNode(norm, TRUE)))
  BY <1>1, <1>2, <1>4, PutLemma
<1>. QED BY <1>1, <1>3, <1>5 DEF TypeOK, IsCard, IsOpen

LEMMA RmDirTyped ==
  ASSUME TypeOK, NEW raw \in RawPath, RmDir(raw) \/ RemoveFile(raw)
  PROVE  TypeOK'
<1>. DEFINE gone == {UpperKey(Normalize(raw))}
<1>1. IsCard(nodes) /\ IsOpen(open, lastHandle)
  BY TypeParts
<1>2. nodes' = Without(nodes, gone) /\ UNCHANGED <<open, lastHandle>>
  BY DEF RmDir, RemoveFile
<1>. HIDE DEF gone
<1>3. IsCard(Without(nodes, gone))
  BY <1>1, WithoutLemma
<1>. QED BY <1>1, <1>2, <1>3 DEF TypeOK, IsCard, IsOpen

LEMMA FreshCardTyped ==
  /\ IsCard(FreshCard)
  /\ DOMAIN FreshCard = StandardDirs \cup {Root}
  /\ \A k \in DOMAIN FreshCard : FreshCard[k].isDirectory
<1>1. StandardDirs \cup {Root} \subseteq Path
  BY StandardAssumption, EmptySeq DEF Root, Path
<1>2. \A k \in StandardDirs \cup {Root} : MkNode(k, TRUE) \in Node /\ MkNode(k, TRUE).isDirectory
  BY <1>1, MkNodeTyped
<1>. QED BY <1>1, <1>2 DEF FreshCard, IsCard

LEMMA PowerCycleTyped ==
  ASSUME TypeOK, PowerCycle
  PROVE  TypeOK'
<1>1. IsCard(nodes)
  BY TypeParts
<1>2. IsCard(nodes')
  <2>1. CASE Root \in DOMAIN nodes
    BY <1>1, <2>1 DEF PowerCycle
  <2>2. CASE Root \notin DOMAIN nodes
    <3>1. nodes' = [k \in DOMAIN nodes \cup DOMAIN FreshCard |->
                      IF k \in DOMAIN FreshCard THEN FreshCard[k] ELSE nodes[k]]
      BY <2>2 DEF PowerCycle
    <3>. QED BY <1>1, <3>1, FreshCardTyped DEF IsCard
  <2>. QED BY <2>1, <2>2
<1>3. IsOpen(open', lastHandle')
  <2>1. open' = <<>> /\ lastHandle' = 0
    BY DEF PowerCycle
  <2>. QED BY <2>1 DEF IsOpen
<1>. QED BY <1>2, <1>3 DEF TypeOK, IsCard, IsOpen

-----------------------------------------------------------------------------
(* Renames.                                                                *)

\* The keys that move, and where they go.
Moving(from)     == {k \in DOMAIN nodes : Under(from, k)}
Places(from, to) == {Rebase(k, from, to) : k \in Moving(from)}

\* card is nodes with what is under `from` moved to `to`.
HasMoved(card, from, to, norm, name) ==
  /\ DOMAIN card = (DOMAIN nodes \ Moving(from)) \cup Places(from, to)
  /\ \A k \in Moving(from) :
       /\ card[Rebase(k, from, to)].isDirectory = nodes[k].isDirectory
       /\ card[Rebase(k, from, to)].data = nodes[k].data
       /\ card[Rebase(k, from, to)].displayPath = Rebase(k, from, norm)
       /\ card[Rebase(k, from, to)].displayName =
            IF k = from THEN name ELSE nodes[k].displayName
  /\ \A k \in DOMAIN nodes :
       k \notin Places(from, to) => k \in Moving(from) \/ card[k] = nodes[k]

\* What a rename of a directory does to the card.
LEMMA MovedLemma ==
  ASSUME IsCard(nodes), NEW from \in Path, NEW to \in Path, NEW norm \in Path,
         NEW name \in RawName \cup {NoName}
  PROVE  /\ IsCard(Moved(from, to, norm, name))
         /\ HasMoved(Moved(from, to, norm, name), from, to, norm, name)
<1>. DEFINE moving == Moving(from)
            at     == Places(from, to)
            node(old) == [nodes[old] EXCEPT
                            !.displayPath = Rebase(old, from, norm),
                            !.displayName = IF old = from THEN name ELSE @]
            card   == Moved(from, to, norm, name)
<1>1. card = [k \in (DOMAIN nodes \ moving) \cup at |->
                IF k \notin at THEN nodes[k] ELSE node(Rebase(k, to, from))]
  BY DEF Moved, Under, Moving, Places
<1>2. \A k \in moving : /\ k \in Path /\ k \in DOMAIN nodes
                         /\ Len(k) >= Len(from)
                         /\ Rebase(Rebase(k, from, to), to, from) = k
  BY RebaseInverse, UnderLemma DEF IsCard, Moving
<1>3. ASSUME NEW k \in moving
      PROVE  /\ node(k) \in Node
             /\ node(k).isDirectory = nodes[k].isDirectory
             /\ node(k).data = nodes[k].data
             /\ node(k).displayPath = Rebase(k, from, norm)
             /\ node(k).displayName = IF k = from THEN name ELSE nodes[k].displayName
  <2>1. Rebase(k, from, norm) \in Path
    BY <1>2, RebaseLemma
  <2>2. nodes[k] \in Node
    BY <1>2 DEF IsCard
  <2>. QED BY <2>1, <2>2 DEF Node
<1>4. at \subseteq Path
  BY <1>2, RebaseLemma DEF Places
<1>5. \A k \in at : Rebase(k, to, from) \in moving
  BY <1>2 DEF Places
<1>6. \A k \in moving : Rebase(k, from, to) \in at
  BY DEF Places
<1>. HIDE DEF moving, at, node, card
<1>7. IsCard(card)
  BY <1>1, <1>3, <1>4, <1>5 DEF IsCard
<1>8. DOMAIN card = (DOMAIN nodes \ moving) \cup at
  BY <1>1
<1>9. \A k \in moving : card[Rebase(k, from, to)] = node(k)
  BY <1>1, <1>2, <1>6
<1>10. \A k \in DOMAIN nodes : k \notin at => k \in moving \/ card[k] = nodes[k]
  BY <1>1
<1>. QED BY <1>3, <1>7, <1>8, <1>9, <1>10 DEF HasMoved, moving, at, card

\* The name a rename gives to what it moves.
LEMMA TargetNameTyped ==
  ASSUME NEW raw \in RawPath, NEW rawTo \in RawPath, NEW bare \in BOOLEAN
  PROVE  LastName(IF bare THEN rawTo ELSE RenameTarget(raw, rawTo, bare))
           \in RawName \cup {NoName}
<1>1. CASE bare
  BY <1>1, LastNameTyped, PathsAssumption
<1>2. CASE ~bare
  <2>1. RenameTarget(raw, rawTo, bare) = Normalize(rawTo)
    BY <1>2 DEF RenameTarget
  <2>2. Normalize(rawTo) \in Seq(RawName)
    BY NamesTyped, PathIsRaw
  <2>. QED BY <1>2, <2>1, <2>2, LastNameTyped
<1>. QED BY <1>1, <1>2

LEMMA RenameFileTyped ==
  ASSUME TypeOK, NEW raw \in RawPath, NEW rawTo \in RawPath, NEW bare \in BOOLEAN,
         RenameFile(raw, rawTo, bare)
  PROVE  TypeOK'
<1>. DEFINE from   == UpperKey(Normalize(raw))
            toNorm == RenameTarget(raw, rawTo, bare)
            norm   == Normalize(toNorm)
            to     == UpperKey(norm)
            name   == LastName(IF bare THEN rawTo ELSE toNorm)
            file   == [nodes[from] EXCEPT !.displayName = name, !.displayPath = norm]
<1>1. IsCard(nodes) /\ IsOpen(open, lastHandle)
  BY TypeParts
<1>2. from \in Path /\ norm \in Path /\ to \in Path
  BY NamesTyped
<1>3. name \in RawName \cup {NoName}
  BY TargetNameTyped
<1>4. /\ from \in DOMAIN nodes
      /\ nodes' = IF nodes[from].isDirectory
                    THEN Moved(from, to, norm, name)
                    ELSE Put(Without(nodes, {from}), to, file)
      /\ UNCHANGED <<open, lastHandle>>
  BY DEF RenameFile
<1>. HIDE DEF from, toNorm, norm, to, name
<1>5. IsCard(Moved(from, to, norm, name))
  BY <1>1, <1>2, <1>3, MovedLemma
<1>6. file \in Node
  BY <1>1, <1>2, <1>3, <1>4 DEF IsCard, Node
<1>. HIDE DEF file
<1>7. IsCard(Without(nodes, {from}))
  BY <1>1, WithoutLemma
<1>8. IsCard(Put(Without(nodes, {from}), to, file))
  BY <1>2, <1>6, <1>7, PutLemma
<1>. QED BY <1>1, <1>4, <1>5, <1>8 DEF TypeOK, IsCard, IsOpen

\* Whatever the program does, the card keeps its types.
LEMMA TypeStep ==
  ASSUME TypeOK, [Next]_vars
  PROVE  TypeOK'
<1>1. CASE UNCHANGED vars
  BY <1>1 DEF vars, TypeOK
<1>2. ASSUME NEW h \in DOMAIN open, HandleStep(h)
      PROVE  TypeOK'
  BY <1>2, CloseFileTyped, ReadFileTyped, WriteFileTyped, SeekFileTyped,
     GetFileInfoTyped DEF HandleStep
<1>3. ASSUME NEW raw \in RawPath, PathStep(raw)
      PROVE  TypeOK'
  BY <1>3, OpenFileTyped, MkDirTyped, RmDirTyped, RenameFileTyped DEF PathStep
<1>4. CASE PowerCycle
  BY <1>4, PowerCycleTyped
<1>. QED BY <1>1, <1>2, <1>3, <1>4 DEF Next

LEMMA TypeInit == Init => TypeOK
<1>. SUFFICES ASSUME Init PROVE TypeOK
  OBVIOUS
<1>1. IsCard(nodes)
  BY FreshCardTyped DEF Init
<1>2. IsOpen(open, lastHandle)
  BY DEF Init, IsOpen
<1>. QED BY <1>1, <1>2, TypeParts

\* The card stays a map from paths to nodes and the open files entries under
\* the handles given out, whatever the program opens, renames and removes.
THEOREM CardTyped == Spec => []TypeOK
<1>1. TypeOK /\ [Next]_vars => TypeOK'
  BY TypeStep
<1>. QED BY TypeInit, <1>1, PTL DEF Spec

-----------------------------------------------------------------------------
(* The tree and the handles.                                               *)

\* The rules under which the stick is a tree with backed handles.
TreeRules == {"closeBeforeRename", "renameIntoTree"} \subseteq Rule

\* Everything above a node is a directory, and so is the root.
Rooted ==
  /\ IsDir(Root)
  /\ \A k \in DOMAIN nodes, d \in Path : Below(d, k) => IsDir(d)

StickInv == TypeOK /\ Rooted /\ HandlesBacked

\* Nothing happens to the file of an open handle.
FilesStay ==
  \A h \in DOMAIN open : /\ open[h].key \in DOMAIN nodes'
                         /\ nodes'[open[h].key] = nodes[open[h].key]

LEMMA RootedIsTree == TypeOK /\ Rooted => TreeOK
<1>. SUFFICES ASSUME TypeOK, Rooted, NEW k \in DOMAIN nodes \ {Root}
              PROVE  IsDir(ParentOf(k))
  BY DEF TreeOK, Rooted
<1>1. k \in Path /\ ParentOf(k) \in Path
  BY ParentLemma DEF TypeOK
<1>. QED BY <1>1, BelowParent DEF Rooted

LEMMA NothingBelowRoot == \A k : ~Below(Root, k)
BY DEF Below

LEMMA StickInit == Init => StickInv
<1>. SUFFICES ASSUME Init PROVE StickInv
  OBVIOUS
<1>1. nodes = FreshCard /\ \A k \in StandardDirs \cup {Root} : IsDir(k)
  BY FreshCardTyped DEF Init, IsDir
<1>2. ASSUME NEW k \in DOMAIN nodes, NEW d \in Path, Below(d, k)
      PROVE  IsDir(d)
  <2>1. k \in StandardDirs
    <3>1. k # Root
      BY <1>2, EmptySeq DEF Below, Root, Path
    <3>. QED BY <1>1, <3>1, FreshCardTyped
  <2>2. d = SubSeq(k, 1, Len(d))
    BY <1>2 DEF Below
  <2>3. Len(d) \in 1..Len(k) - 1
    <3>1. k \in Seq(Name) /\ d \in Seq(Name)
      BY <2>1, StandardAssumption DEF Path
    <3>2. Len(d) >= 1 /\ Len(k) > Len(d)
      BY <1>2, <2>1, BelowLemma, StandardAssumption
    <3>. QED BY <3>1, <3>2
  <2>4. d \in StandardDirs
    BY <2>1, <2>2, <2>3, StandardAssumption
  <2>. QED BY <1>1, <2>4
<1>3. HandlesBacked
  BY DEF Init, HandlesBacked
<1>. QED BY <1>1, <1>2, <1>3, TypeInit DEF StickInv, Rooted

\* A step that keeps every key and its kind keeps the tree.
LEMMA SameShape ==
  ASSUME Rooted, DOMAIN nodes' = DOMAIN nodes,
         \A k \in DOMAIN nodes : nodes'[k].isDirectory = nodes[k].isDirectory
  PROVE  Rooted'
BY DEF Rooted, IsDir

\* A node made in an existing directory keeps the tree.
LEMMA AddedNode ==
  ASSUME StickInv, NEW key \in Path, NEW n \in Node, key \notin DOMAIN nodes,
         IsDir(ParentOf(key)), nodes' = Put(nodes, key, n)
  PROVE  Rooted' /\ FilesStay
<1>1. /\ DOMAIN nodes' = DOMAIN nodes \cup {key}
      /\ \A k \in DOMAIN nodes : nodes'[k] = nodes[k]
  BY DEF Put
<1>2. key # Root
  BY DEF StickInv, Rooted, IsDir
<1>3. \A d : IsDir(d) => IsDir(d)'
  BY <1>1 DEF IsDir
<1>4. ASSUME NEW k \in DOMAIN nodes', NEW d \in Path, Below(d, k)
      PROVE  IsDir(d)
  <2>1. CASE k \in DOMAIN nodes
    BY <1>4, <2>1 DEF StickInv, Rooted
  <2>2. CASE k = key
    <3>1. d = ParentOf(key) \/ Below(d, ParentOf(key))
      BY <1>2, <1>4, <2>2, BelowParent
    <3>2. ParentOf(key) \in DOMAIN nodes
      BY DEF IsDir
    <3>. QED BY <3>1, <3>2 DEF StickInv, Rooted
  <2>. QED BY <1>1, <2>1, <2>2
<1>5. IsDir(Root)
  BY DEF StickInv, Rooted
<1>6. FilesStay
  BY <1>1 DEF FilesStay, StickInv, HandlesBacked, IsFile
<1>. QED BY <1>3, <1>4, <1>5, <1>6 DEF Rooted

\* A node with nothing below it can go.
LEMMA RemovedNode ==
  ASSUME StickInv, NEW key, key # Root, \A k \in DOMAIN nodes : ~Below(key, k),
         \A h \in DOMAIN open : open[h].key # key, nodes' = Without(nodes, {key})
  PROVE  Rooted' /\ FilesStay
<1>1. /\ DOMAIN nodes' = DOMAIN nodes \ {key}
      /\ \A k \in DOMAIN nodes \ {key} : nodes'[k] = nodes[k]
  BY DEF Without
<1>2. IsDir(Root)'
  BY <1>1 DEF StickInv, Rooted, IsDir
<1>3. ASSUME NEW k \in DOMAIN nodes', NEW d \in Path, Below(d, k)
      PROVE  IsDir(d)'
  BY <1>1, <1>3 DEF StickInv, Rooted, IsDir
<1>4. FilesStay
  BY <1>1 DEF FilesStay, StickInv, HandlesBacked, IsFile
<1>. QED BY <1>2, <1>3, <1>4 DEF Rooted

\* A file has nothing below it.
LEMMA FilesAreLeaves ==
  ASSUME StickInv, NEW key \in DOMAIN nodes, ~nodes[key].isDirectory
  PROVE  key # Root /\ \A k \in DOMAIN nodes : ~Below(key, k)
BY DEF StickInv, Rooted, IsDir, TypeOK

\* The directory at `from` moves to `to`, with everything below it.
LEMMA MovedTree ==
  ASSUME StickInv, NEW from \in DOMAIN nodes, NEW to \in Path, NEW norm \in Path,
         NEW name \in RawName \cup {NoName},
         nodes[from].isDirectory, Available(to, from), to # Root,
         ClosedBelow(from), IntoTree(from, to),
         nodes' = Moved(from, to, norm, name)
  PROVE  /\ Rooted'
         /\ FilesStay
         /\ \A k \in DOMAIN nodes \cap DOMAIN nodes' : nodes'[k].data = nodes[k].data
         /\ \A k \in DOMAIN nodes \ DOMAIN nodes' :
              \E m \in DOMAIN nodes' \ DOMAIN nodes : nodes'[m].data = nodes[k].data
<1>. DEFINE moving == Moving(from)
            at     == Places(from, to)
<1>1. /\ IsCard(nodes)
      /\ DOMAIN nodes \subseteq Path
      /\ from \in Path
      /\ from # Root
  BY TypeParts DEF StickInv, TypeOK, IntoTree
<1>2. /\ IsCard(nodes')
      /\ DOMAIN nodes' = (DOMAIN nodes \ moving) \cup at
      /\ \A k \in moving :
           /\ nodes'[Rebase(k, from, to)].isDirectory = nodes[k].isDirectory
           /\ nodes'[Rebase(k, from, to)].data = nodes[k].data
      /\ \A k \in DOMAIN nodes : k \notin at => k \in moving \/ nodes'[k] = nodes[k]
  <2>1. /\ IsCard(Moved(from, to, norm, name))
        /\ HasMoved(Moved(from, to, norm, name), from, to, norm, name)
    BY <1>1, MovedLemma
  <2>. QED BY <2>1 DEF HasMoved
<1>3. \A k \in moving : k \in Path /\ Under(from, k) /\ k \in DOMAIN nodes
  BY <1>1 DEF Moving
<1>0. /\ \A k \in DOMAIN nodes : Under(from, k) => k \in moving
      /\ \A k \in at : \E m \in moving : k = Rebase(m, from, to)
      /\ \A k \in moving : Rebase(k, from, to) \in at
  BY DEF Moving, Places
<1>. HIDE DEF moving, at
\* What is in the way of the move is itself moved, onto itself.
<1>4. ASSUME NEW k \in moving, Rebase(k, from, to) \in DOMAIN nodes
      PROVE  to = from
  <2>. DEFINE r == Rebase(k, from, to)
  <2>1. Under(to, r)
    BY <1>1, <1>3, RebaseUnder
  <2>2. to \in DOMAIN nodes
    BY <1>4, <2>1 DEF Under, StickInv, Rooted, IsDir
  <2>. QED BY <2>2 DEF Available
<1>5. to = from => \A k \in moving : Rebase(k, from, to) = k
  BY <1>1, <1>3, RebaseSelf
\* What is not moved stays as it was.
<1>6. ASSUME NEW k \in DOMAIN nodes \ moving
      PROVE  k \in DOMAIN nodes' /\ nodes'[k] = nodes[k]
  <2>1. k \notin at
    BY <1>4, <1>5, <1>0
  <2>. QED BY <1>2, <2>1
<1>7. ASSUME NEW d \in Path, IsDir(d), ~Under(from, d)
      PROVE  IsDir(d)'
  BY <1>3, <1>6, <1>7 DEF IsDir
<1>8. IsDir(Root)'
  <2>1. IsDir(Root) /\ Root \in Path
    BY EmptySeq DEF StickInv, Rooted, Root, Path
  <2>2. ~Under(from, Root)
    <3>1. ~Below(from, Root)
      BY <1>1, <2>1, BelowLemma DEF Root
    <3>. QED BY <1>1, <3>1 DEF Under
  <2>. QED BY <1>7, <2>1, <2>2
<1>9. ASSUME NEW k \in DOMAIN nodes', NEW d \in Path, Below(d, k)
      PROVE  IsDir(d)'
  <2>0. k \in Path
    BY <1>2 DEF IsCard
  <2>1. CASE k \in DOMAIN nodes \ moving
    <3>1. IsDir(d)
      BY <1>9, <2>1 DEF StickInv, Rooted
    <3>2. ~Under(from, d)
      BY <1>1, <1>9, <1>0, <2>0, <2>1, UnderTransitive DEF Under
    <3>. QED BY <1>7, <3>1, <3>2
  <2>2. CASE k \in at
    <3>1. PICK m \in moving : k = Rebase(m, from, to)
      BY <1>0, <2>2
    <3>2. Under(to, k)
      BY <1>1, <1>3, <3>1, RebaseUnder
    <3>3. Under(to, d) \/ Below(d, to)
      BY <1>9, <2>0, <3>2, AboveIsChain
    <3>4. CASE Below(d, to)
      <4>1. d = ParentOf(to) \/ Below(d, ParentOf(to))
        BY <3>4, BelowParent
      <4>2. IsDir(ParentOf(to))
        BY DEF IntoTree
      <4>3. IsDir(d)
        BY <4>1, <4>2 DEF StickInv, Rooted, IsDir
      <4>4. ~Under(from, d)
        BY <1>1, <3>4, UnderTransitive DEF IntoTree
      <4>. QED BY <1>7, <4>3, <4>4
    <3>5. CASE Under(to, d)
      <4>. DEFINE d0 == Rebase(d, to, from)
      <4>1. d0 \in Path /\ Under(from, d0)
        BY <1>1, <3>5, RebaseUnder, RebaseLemma, UnderLemma
      <4>2. Rebase(d0, from, to) = d
        BY <1>1, <3>5, RebaseInverse
      <4>3. Rebase(k, to, from) = m
        BY <1>1, <1>3, <3>1, RebaseInverse
      <4>4. Below(d0, m)
        BY <1>1, <1>9, <2>0, <3>5, <4>3, RebaseBelow
      <4>5. IsDir(d0)
        BY <1>3, <4>1, <4>4 DEF StickInv, Rooted
      <4>6. d0 \in moving
        BY <1>0, <4>1, <4>5 DEF IsDir
      <4>. HIDE DEF d0
      <4>7. d \in DOMAIN nodes'
        BY <1>2, <1>0, <4>2, <4>6
      <4>8. nodes'[d].isDirectory = nodes[d0].isDirectory
        BY <1>2, <4>2, <4>6
      <4>. QED BY <4>5, <4>7, <4>8 DEF IsDir
    <3>. QED BY <3>3, <3>4, <3>5
  <2>. QED BY <1>2, <2>1, <2>2
<1>10. FilesStay
  <2>. SUFFICES ASSUME NEW h \in DOMAIN open
                PROVE  open[h].key \in DOMAIN nodes \ moving
    BY <1>6 DEF FilesStay
  <2>. QED BY <1>3 DEF ClosedBelow, Under, StickInv, HandlesBacked, IsFile
<1>11. ASSUME NEW k \in DOMAIN nodes \cap DOMAIN nodes'
       PROVE  nodes'[k].data = nodes[k].data
  <2>1. CASE k \in moving
    <3>1. k \in at
      BY <1>2, <2>1
    <3>2. Rebase(k, from, to) = k
      <4>1. PICK m \in moving : k = Rebase(m, from, to)
        BY <1>0, <3>1
      <4>. QED BY <1>4, <1>5, <2>1, <4>1
    <3>. QED BY <1>2, <2>1, <3>2
  <2>. QED BY <1>6, <2>1
<1>12. ASSUME NEW k \in DOMAIN nodes \ DOMAIN nodes'
       PROVE  \E m \in DOMAIN nodes' \ DOMAIN nodes : nodes'[m].data = nodes[k].data
  <2>. DEFINE m == Rebase(k, from, to)
  <2>1. k \in moving
    BY <1>6
  <2>2. m \in DOMAIN nodes' /\ nodes'[m].data = nodes[k].data
    BY <1>2, <1>0, <2>1
  <2>3. m \notin DOMAIN nodes
    <3>1. CASE m \in DOMAIN nodes
      BY <1>4, <1>5, <2>1, <2>2, <3>1
    <3>. QED BY <3>1
  <2>. QED BY <2>2, <2>3
<1>. QED BY <1>8, <1>9, <1>10, <1>11, <1>12 DEF Rooted

\* The file at `from` moves to `to`.
LEMMA MovedFile ==
  ASSUME StickInv, NEW from \in DOMAIN nodes, NEW to \in Path, NEW norm \in Path,
         NEW name \in RawName \cup {NoName},
         ~nodes[from].isDirectory, Available(to, from), to # Root,
         ClosedBelow(from), IntoTree(from, to),
         nodes' = Put(Without(nodes, {from}), to,
                      [nodes[from] EXCEPT !.displayName = name, !.displayPath = norm])
  PROVE  /\ Rooted'
         /\ FilesStay
         /\ \A k \in DOMAIN nodes \cap DOMAIN nodes' : nodes'[k].data = nodes[k].data
         /\ \A k \in DOMAIN nodes \ DOMAIN nodes' :
              \E m \in DOMAIN nodes' \ DOMAIN nodes : nodes'[m].data = nodes[k].data
<1>. DEFINE file == [nodes[from] EXCEPT !.displayName = name, !.displayPath = norm]
<1>1. nodes[from] \in Node /\ DOMAIN nodes \subseteq Path
  BY DEF StickInv, TypeOK
<1>2. file.data = nodes[from].data
  BY <1>1 DEF Node
<1>. HIDE DEF file
<1>3. /\ DOMAIN nodes' = (DOMAIN nodes \ {from}) \cup {to}
      /\ nodes'[to] = file
      /\ \A k \in DOMAIN nodes \ {from} : k # to => nodes'[k] = nodes[k]
  BY DEF Put, Without, file
<1>4. from # Root /\ \A k \in DOMAIN nodes : ~Below(from, k)
  BY FilesAreLeaves
<1>5. \A k \in DOMAIN nodes \ {from} : k \in DOMAIN nodes' /\ nodes'[k] = nodes[k]
  BY <1>3 DEF Available
<1>6. \A d : IsDir(d) => IsDir(d)'
  BY <1>5 DEF IsDir
<1>7. ASSUME NEW k \in DOMAIN nodes', NEW d \in Path, Below(d, k)
      PROVE  IsDir(d)
  <2>1. CASE k \in DOMAIN nodes
    BY <1>7, <2>1 DEF StickInv, Rooted
  <2>2. CASE k = to
    <3>1. d = ParentOf(to) \/ Below(d, ParentOf(to))
      BY <1>7, <2>2, BelowParent
    <3>. QED BY <3>1 DEF IntoTree, IsDir, StickInv, Rooted
  <2>. QED BY <1>3, <2>1, <2>2
<1>8. Rooted'
  BY <1>6, <1>7 DEF StickInv, Rooted
<1>9. FilesStay
  BY <1>5 DEF FilesStay, ClosedBelow, StickInv, HandlesBacked, IsFile
<1>10. \A k \in DOMAIN nodes \cap DOMAIN nodes' : nodes'[k].data = nodes[k].data
  BY <1>2, <1>3, <1>5
<1>11. ASSUME NEW k \in DOMAIN nodes \ DOMAIN nodes'
       PROVE  \E m \in DOMAIN nodes' \ DOMAIN nodes : nodes'[m].data = nodes[k].data
  <2>1. k = from /\ to # from
    BY <1>3, <1>5
  <2>2. to \notin DOMAIN nodes
    BY <2>1 DEF Available
  <2>. QED BY <1>2, <1>3, <2>1, <2>2
<1>. QED BY <1>8, <1>9, <1>10, <1>11

\* A rename keeps the tree, the open files and what every file holds.
LEMMA RenameLemma ==
  ASSUME TreeRules, StickInv, NEW raw \in RawPath, NEW rawTo \in RawPath,
         NEW bare \in BOOLEAN, RenameFile(raw, rawTo, bare)
  PROVE  /\ Rooted'
         /\ FilesStay
         /\ open' = open
         /\ \A k \in DOMAIN nodes \cap DOMAIN nodes' : nodes'[k].data = nodes[k].data
         /\ \A k \in DOMAIN nodes \ DOMAIN nodes' :
              \E m \in DOMAIN nodes' \ DOMAIN nodes : nodes'[m].data = nodes[k].data
<1>. DEFINE from   == UpperKey(Normalize(raw))
            toNorm == RenameTarget(raw, rawTo, bare)
            norm   == Normalize(toNorm)
            to     == UpperKey(norm)
            name   == LastName(IF bare THEN rawTo ELSE toNorm)
            file   == [nodes[from] EXCEPT !.displayName = name, !.displayPath = norm]
<1>1. norm \in Path /\ to \in Path /\ name \in RawName \cup {NoName}
  BY NamesTyped, TargetNameTyped
<1>2. /\ from \in DOMAIN nodes
      /\ Available(to, from)
      /\ to # Root
      /\ ClosedBelow(from)
      /\ IntoTree(from, to)
      /\ open' = open
      /\ nodes' = IF nodes[from].isDirectory
                    THEN Moved(from, to, norm, name)
                    ELSE Put(Without(nodes, {from}), to, file)
  BY DEF RenameFile, Careful, TreeRules
<1>. HIDE DEF from, toNorm, norm, to, name
<1>3. CASE nodes[from].isDirectory
  BY <1>1, <1>2, <1>3, MovedTree
<1>4. CASE ~nodes[from].isDirectory
  BY <1>1, <1>2, <1>4, MovedFile
<1>. QED BY <1>3, <1>4

\* Opening changes no node that was there.
LEMMA OpenFileLemma ==
  ASSUME StickInv, NEW raw \in RawPath, NEW access \in OpenMode, OpenFile(raw, access)
  PROVE  /\ Rooted'
         /\ FilesStay
         /\ \A k \in DOMAIN nodes : k \in DOMAIN nodes' /\ nodes'[k] = nodes[k]
         /\ IsFile(UpperKey(Normalize(raw)))'
         /\ DOMAIN open' = DOMAIN open \cup {lastHandle + 1}
         /\ open'[lastHandle + 1].key = UpperKey(Normalize(raw))
         /\ open'[lastHandle + 1].truncTo = IF "truncate" \in access THEN 0 ELSE NotTruncating
         /\ \A h \in DOMAIN open : h # lastHandle + 1 /\ open'[h] = open[h]
<1>. DEFINE norm == Normalize(raw)
            key  == UpperKey(norm)
            at   == IF "append" \in access THEN Len(Opened(norm, access)[key].data) ELSE 0
            cut  == IF "truncate" \in access THEN 0 ELSE NotTruncating
            entry == [key |-> key, access |-> access, pos |-> at, truncTo |-> cut]
<1>1. norm \in Path /\ key \in Path
  BY NamesTyped
<1>2. open' = Put(open, lastHandle + 1, entry)
  BY DEF OpenFile
<1>3. /\ \/ IsFile(key)
         \/ key \notin DOMAIN nodes /\ IsDir(UpperKey(ParentOf(norm)))
      /\ nodes' = Opened(norm, access)
  BY DEF OpenFile
<1>4. \A h \in DOMAIN open : h # lastHandle + 1
  BY DEF StickInv, TypeOK
<1>. HIDE DEF norm, key, at
<1>5. /\ DOMAIN open' = DOMAIN open \cup {lastHandle + 1}
      /\ open'[lastHandle + 1] = entry
      /\ \A h \in DOMAIN open : open'[h] = open[h]
  BY <1>2, <1>4 DEF Put
<1>6. entry.key = key /\ entry.truncTo = cut
  OBVIOUS
<1>7. CASE IsFile(key)
  <2>1. nodes' = nodes
    BY <1>3, <1>7 DEF IsFile, Opened, key
  <2>. QED BY <1>4, <1>5, <1>6, <1>7, <2>1 DEF StickInv, Rooted, IsDir, IsFile,
           HandlesBacked, FilesStay, norm, key
<1>8. CASE key \notin DOMAIN nodes /\ IsDir(UpperKey(ParentOf(norm)))
  <2>1. MkNode(norm, FALSE) \in Node /\ ~MkNode(norm, FALSE).isDirectory
    BY <1>1, MkNodeTyped
  <2>2. nodes' = Put(nodes, key, MkNode(norm, FALSE))
    BY <1>3, <1>8 DEF Opened, key
  <2>3. IsDir(ParentOf(key))
    BY <1>1, <1>8, UpperOfParent DEF key
  <2>4. Rooted' /\ FilesStay
    BY <1>1, <1>8, <2>1, <2>2, <2>3, AddedNode
  <2>5. /\ DOMAIN nodes' = DOMAIN nodes \cup {key}
        /\ nodes'[key] = MkNode(norm, FALSE)
        /\ \A k \in DOMAIN nodes : nodes'[k] = nodes[k]
    BY <1>8, <2>2 DEF Put
  <2>6. IsFile(key)'
    BY <2>1, <2>5 DEF IsFile, key
  <2>. QED BY <1>4, <1>5, <1>6, <2>4, <2>5, <2>6 DEF norm, key
<1>. QED BY <1>3, <1>7, <1>8

LEMMA MkDirLemma ==
  ASSUME StickInv, NEW raw \in RawPath, MkDir(raw)
  PROVE  /\ Rooted'
         /\ FilesStay
         /\ open' = open
         /\ \A k \in DOMAIN nodes : k \in DOMAIN nodes' /\ nodes'[k] = nodes[k]
<1>. DEFINE norm == Normalize(raw)
            key  == UpperKey(norm)
<1>1. norm \in Path /\ key \in Path
  BY NamesTyped
<1>2. /\ key \notin DOMAIN nodes
      /\ IsDir(UpperKey(ParentOf(norm)))
      /\ nodes' = Put(nodes, key, MkNode(norm, TRUE))
      /\ open' = open
  BY DEF MkDir
<1>. HIDE DEF norm
<1>3. MkNode(norm, TRUE) \in Node
  BY <1>1, MkNodeTyped
<1>4. IsDir(ParentOf(key))
  BY <1>1, <1>2, UpperOfParent
<1>. HIDE DEF key
<1>5. Rooted' /\ FilesStay
  BY <1>1, <1>2, <1>3, <1>4, AddedNode
<1>6. \A k \in DOMAIN nodes : k \in DOMAIN nodes' /\ nodes'[k] = nodes[k]
  BY <1>2 DEF Put
<1>. QED BY <1>2, <1>5, <1>6

LEMMA RmDirLemma ==
  ASSUME StickInv, NEW raw \in RawPath, RmDir(raw) \/ RemoveFile(raw)
  PROVE  /\ Rooted'
         /\ FilesStay
         /\ open' = open
         /\ \A h \in DOMAIN open : open[h].key # UpperKey(Normalize(raw))
         /\ nodes' = Without(nodes, {UpperKey(Normalize(raw))})
<1>. DEFINE key == UpperKey(Normalize(raw))
<1>1. nodes' = Without(nodes, {key}) /\ open' = open
  BY DEF RmDir, RemoveFile
<1>2. /\ key # Root
      /\ \A k \in DOMAIN nodes : ~Below(key, k)
      /\ \A h \in DOMAIN open : open[h].key # key
  <2>1. CASE RmDir(raw)
    BY <2>1 DEF RmDir, IsEmpty, IsDir, StickInv, HandlesBacked, IsFile
  <2>2. CASE RemoveFile(raw)
    BY <2>2, FilesAreLeaves DEF RemoveFile, IsFile, InUse
  <2>. QED BY <2>1, <2>2
<1>. HIDE DEF key
<1>3. Rooted' /\ FilesStay
  BY <1>1, <1>2, RemovedNode
<1>. QED BY <1>1, <1>2, <1>3 DEF key

\* An operation on a handle changes bytes and positions, and removes at most
\* the handle.
LEMMA HandleLemma ==
  ASSUME StickInv, NEW h \in DOMAIN open, HandleStep(h)
  PROVE  /\ DOMAIN nodes' = DOMAIN nodes
         /\ \A k \in DOMAIN nodes : /\ nodes'[k].isDirectory = nodes[k].isDirectory
                                    /\ nodes'[k].displayPath = nodes[k].displayPath
                                    /\ nodes'[k].displayName = nodes[k].displayName
                                    /\ k # open[h].key => nodes'[k] = nodes[k]
         /\ DOMAIN open' \subseteq DOMAIN open
         /\ \A g \in DOMAIN open' : /\ open'[g].key = open[g].key
                                    /\ g # h => open'[g] = open[g]
<1>1. /\ open[h].key \in DOMAIN nodes
      /\ Touched(open[h].key) = nodes
      /\ \A k \in DOMAIN nodes : nodes[k] \in Node
      /\ \A g \in DOMAIN open : open[g] \in OpenEntry
      /\ open = [g \in DOMAIN open |-> open[g]]
  BY DEF StickInv, TypeOK, HandlesBacked, IsFile, Touched
<1>2. ASSUME NEW d, nodes' = [nodes EXCEPT ![open[h].key].data = d]
      PROVE  /\ DOMAIN nodes' = DOMAIN nodes
             /\ \A k \in DOMAIN nodes : /\ nodes'[k].isDirectory = nodes[k].isDirectory
                                        /\ nodes'[k].displayPath = nodes[k].displayPath
                                        /\ nodes'[k].displayName = nodes[k].displayName
                                        /\ k # open[h].key => nodes'[k] = nodes[k]
  BY <1>1, <1>2 DEF Node
<1>3. ASSUME NEW p, open' = [open EXCEPT ![h].pos = p]
      PROVE  /\ DOMAIN open' = DOMAIN open
             /\ \A g \in DOMAIN open : /\ open'[g].key = open[g].key
                                       /\ g # h => open'[g] = open[g]
  BY <1>1, <1>3 DEF OpenEntry
<1>4. CASE CloseFile(h)
  <2>1. /\ DOMAIN open' \subseteq DOMAIN open
        /\ \A g \in DOMAIN open' : open'[g] = open[g]
    BY <1>4 DEF CloseFile, Without
  <2>2. CASE Truncating(h)
    <3>1. nodes' = [nodes EXCEPT ![open[h].key].data =
                      Resize(nodes[open[h].key].data, open[h].truncTo)]
      BY <1>1, <1>4, <2>2 DEF CloseFile
    <3>. QED BY <1>2, <2>1, <3>1
  <2>3. CASE ~Truncating(h)
    BY <1>4, <2>1, <2>3 DEF CloseFile
  <2>. QED BY <2>2, <2>3
<1>5. ASSUME NEW size \in ReadSize, ReadFile(h, size)
      PROVE  nodes' = nodes /\ \E p : open' = [open EXCEPT ![h].pos = p]
  BY <1>1, <1>5 DEF ReadFile
<1>6. ASSUME NEW bytes \in Chunk, WriteFile(h, bytes)
      PROVE  /\ \E d : nodes' = [nodes EXCEPT ![open[h].key].data = d]
             /\ DOMAIN open' = DOMAIN open
             /\ \A g \in DOMAIN open : /\ open'[g].key = open[g].key
                                       /\ g # h => open'[g] = open[g]
  <2>1. PICK p : open' = [open EXCEPT ![h].pos = p, ![h].truncTo = TruncAfterWrite(@, p)]
    BY <1>6 DEF WriteFile
  <2>2. PICK t : open' = [open EXCEPT ![h].pos = p, ![h].truncTo = t]
    BY <2>1
  <2>3. /\ DOMAIN open' = DOMAIN open
        /\ \A g \in DOMAIN open : /\ open'[g].key = open[g].key
                                  /\ g # h => open'[g] = open[g]
    BY <1>1, <2>2 DEF OpenEntry
  <2>4. \E d : nodes' = [nodes EXCEPT ![open[h].key].data = d]
    BY <1>1, <1>6 DEF WriteFile
  <2>. QED BY <2>3, <2>4
<1>7. ASSUME NEW position \in SeekOffset, NEW type \in FileMove, SeekFile(h, position, type)
      PROVE  nodes' = nodes /\ \E p : open' = [open EXCEPT ![h].pos = p]
  BY <1>1, <1>7 DEF SeekFile
<1>8. CASE GetFileInfoByHandle(h)
  BY <1>1, <1>8 DEF GetFileInfoByHandle
<1>. QED BY <1>2, <1>3, <1>4, <1>5, <1>6, <1>7, <1>8 DEF HandleStep

\* The tree and the handles are kept together.
LEMMA StickStep ==
  ASSUME TreeRules, StickInv, [Next]_vars
  PROVE  StickInv'
<1>1. TypeOK'
  BY TypeStep DEF StickInv
<1>2. ASSUME Rooted', FilesStay, open' = open
      PROVE  StickInv'
  BY <1>1, <1>2 DEF StickInv, HandlesBacked, IsFile, FilesStay
<1>3. CASE UNCHANGED vars
  BY <1>3 DEF vars, StickInv, TypeOK, Rooted, IsDir, HandlesBacked, IsFile
<1>4. ASSUME NEW h \in DOMAIN open, HandleStep(h)
      PROVE  StickInv'
  <2>1. /\ DOMAIN nodes' = DOMAIN nodes
        /\ \A k \in DOMAIN nodes : nodes'[k].isDirectory = nodes[k].isDirectory
        /\ \A g \in DOMAIN open' : g \in DOMAIN open /\ open'[g].key = open[g].key
    BY <1>4, HandleLemma
  <2>2. Rooted'
    BY <2>1, SameShape DEF StickInv
  <2>3. HandlesBacked'
    BY <2>1 DEF StickInv, HandlesBacked, IsFile
  <2>. QED BY <1>1, <2>2, <2>3 DEF StickInv
<1>5. ASSUME NEW raw \in RawPath, NEW access \in OpenMode, OpenFile(raw, access)
      PROVE  StickInv'
  <2>1. Rooted' /\ FilesStay /\ IsFile(UpperKey(Normalize(raw)))'
    BY <1>5, OpenFileLemma
  <2>2. /\ DOMAIN open' = DOMAIN open \cup {lastHandle + 1}
        /\ open'[lastHandle + 1].key = UpperKey(Normalize(raw))
        /\ \A h \in DOMAIN open : open'[h] = open[h]
    BY <1>5, OpenFileLemma
  <2>3. HandlesBacked'
    BY <2>1, <2>2 DEF StickInv, HandlesBacked, IsFile, FilesStay
  <2>. QED BY <1>1, <2>1, <2>3 DEF StickInv
<1>6. ASSUME NEW raw \in RawPath, PathStep(raw)
      PROVE  StickInv'
  BY <1>2, <1>5, <1>6, MkDirLemma, RmDirLemma, RenameLemma DEF PathStep
<1>7. CASE PowerCycle
  <2>1. nodes' = nodes /\ open' = <<>>
    BY <1>7 DEF PowerCycle, StickInv, Rooted, IsDir
  <2>. QED BY <1>1, <2>1 DEF StickInv, Rooted, IsDir, HandlesBacked
<1>. QED BY <1>3, <1>4, <1>6, <1>7 DEF Next

\* The stick of a program that closes a file before it renames it, and renames
\* into the tree.
LEMMA StickAlways ==
  ASSUME TreeRules
  PROVE  Spec => []StickInv
<1>1. StickInv /\ [Next]_vars => StickInv'
  BY StickStep
<1>. QED BY StickInit, <1>1, PTL DEF Spec

\* TreeOK: every node stays inside a directory, so that a listing from the root
\* down reaches every file, whatever RenameFile moved.
THEOREM TreeStays ==
  ASSUME TreeRules
  PROVE  Spec => []TreeOK
<1>1. StickInv => TreeOK
  BY RootedIsTree DEF StickInv
<1>. QED BY StickAlways, <1>1, PTL

\* HandlesBacked: no look-up through a handle inserts a node, because neither
\* RemoveFile, RmDir nor RenameFile takes away a file that is open.
THEOREM HandlesStayBacked ==
  ASSUME TreeRules
  PROVE  Spec => []HandlesBacked
<1>1. StickInv => HandlesBacked
  BY DEF StickInv
<1>. QED BY StickAlways, <1>1, PTL

\* NoFileLost: a key that disappears was removed while nobody had it open, or
\* its bytes are found under a new one.
THEOREM FilesAreKept ==
  ASSUME TreeRules
  PROVE  Spec => NoFileLost
<1>. DEFINE Kept ==
       \A k \in DOMAIN nodes \ DOMAIN nodes' :
         \/ /\ nodes' = Without(nodes, {k})
            /\ \A h \in DOMAIN open : open[h].key # k
         \/ \E m \in DOMAIN nodes' \ DOMAIN nodes : nodes'[m].data = nodes[k].data
<1>1. ASSUME StickInv, [Next]_vars
      PROVE  [Kept]_vars
  <2>. SUFFICES ASSUME Next PROVE Kept
    BY <1>1
  <2>1. ASSUME NEW h \in DOMAIN open, HandleStep(h)
        PROVE  Kept
    BY <1>1, <2>1, HandleLemma
  <2>2. ASSUME NEW raw \in RawPath, PathStep(raw)
        PROVE  Kept
    <3>1. CASE \E access \in OpenMode : OpenFile(raw, access)
      BY <1>1, <3>1, OpenFileLemma
    <3>2. CASE MkDir(raw)
      BY <1>1, <3>2, MkDirLemma
    <3>3. CASE RmDir(raw) \/ RemoveFile(raw)
      <4>. DEFINE key == UpperKey(Normalize(raw))
      <4>1. nodes' = Without(nodes, {key}) /\ \A h \in DOMAIN open : open[h].key # key
        BY <1>1, <3>3, RmDirLemma
      <4>. HIDE DEF key
      <4>2. \A k \in DOMAIN nodes \ DOMAIN nodes' : k = key
        BY <4>1 DEF Without
      <4>. QED BY <4>1, <4>2
    <3>4. CASE \E to \in RawPath, bare \in BOOLEAN : RenameFile(raw, to, bare)
      BY <1>1, <3>4, RenameLemma
    <3>. QED BY <2>2, <3>1, <3>2, <3>3, <3>4 DEF PathStep
  <2>3. CASE PowerCycle
    BY <1>1, <2>3 DEF PowerCycle, StickInv, Rooted, IsDir
  <2>. QED BY <2>1, <2>2, <2>3 DEF Next
<1>2. Spec => [][Kept]_vars
  BY StickAlways, <1>1, PTL DEF Spec
<1>. QED BY <1>2 DEF NoFileLost

-----------------------------------------------------------------------------
(* Deferred truncation.                                                    *)

\* No two truncating handles are open on a file.
SoleTruncator ==
  \A g, h \in DOMAIN open :
    open[g].key = open[h].key /\ Truncating(g) /\ Truncating(h) => g = h

CutInv == StickInv /\ SoleTruncator /\ TruncationWithinFile

\* What a write does to its file and its handle.
LEMMA WriteLemma ==
  ASSUME StickInv, NEW h \in DOMAIN open, NEW bytes \in Chunk, WriteFile(h, bytes)
  PROVE  LET k == open[h].key
         IN  /\ nodes[k].data \in Seq(Nat) /\ nodes'[k].data \in Seq(Nat)
             /\ Len(nodes'[k].data) >= Len(nodes[k].data)
             /\ \A i \in 1..Len(nodes[k].data) :
                  nodes'[k].data[i] # nodes[k].data[i] =>
                    open[h].pos < i /\ i <= open'[h].pos
             /\ h \in DOMAIN open'
             /\ open'[h].truncTo = NotTruncating <=> open[h].truncTo = NotTruncating
             /\ open'[h].truncTo # NotTruncating
                  /\ open[h].truncTo <= Len(nodes[k].data)
                  => open'[h].truncTo <= Len(nodes'[k].data)
<1>. DEFINE k    == open[h].key
            data == nodes[k].data
            pos  == IF "append" \in open[h].access THEN Len(data) ELSE open[h].pos
            end  == pos + Len(bytes)
            over == Overwrite(data, pos, bytes)
<1>1. /\ k \in DOMAIN nodes
      /\ Touched(k) = nodes
      /\ nodes[k] \in Node
      /\ open[h] \in OpenEntry
  BY DEF StickInv, TypeOK, HandlesBacked, IsFile, Touched
<1>2. /\ data \in Seq(Nat) /\ bytes \in Seq(Nat)
      /\ open[h].pos \in Nat
      /\ open[h].truncTo \in Nat \cup {NotTruncating}
  BY <1>1, InputsAssumption DEF Node, OpenEntry
<1>3. /\ nodes' = [nodes EXCEPT ![k].data = over]
      /\ open' = [open EXCEPT ![h].pos = end, ![h].truncTo = TruncAfterWrite(@, end)]
  BY <1>1 DEF WriteFile
<1>4. Len(data) \in Nat /\ Len(bytes) \in Nat
  BY <1>2
<1>5. pos \in Nat
  BY <1>2, <1>4
<1>6. /\ over \in Seq(Nat)
      /\ Len(over) >= Len(data)
      /\ Len(over) >= end
  BY <1>2, <1>5, OverwriteLemma
<1>7. ASSUME NEW i \in 1..Len(data), over[i] # data[i]
      PROVE  pos < i /\ i <= end
  <2>. DEFINE n == Len(data)
              m == Len(bytes)
  <2>1. over = [j \in 1..Larger(n, pos + m) |->
                  IF j > pos /\ j <= pos + m THEN bytes[j - pos]
                  ELSE IF j <= n THEN data[j] ELSE 0]
    BY DEF Overwrite
  <2>2. n \in Nat /\ m \in Nat /\ i \in 1..n /\ end = pos + m
    BY <1>4
  <2>. HIDE DEF n, m, end, pos, data, over
  <2>3. i \in 1..Larger(n, pos + m) /\ i <= n
    BY <1>5, <2>2 DEF Larger
  <2>. QED BY <1>5, <1>7, <2>1, <2>2, <2>3
<1>8. nodes'[k].data = over
  <2>. HIDE DEF over
  <2>. QED BY <1>1, <1>3 DEF Node
<1>9. /\ h \in DOMAIN open'
      /\ open'[h].pos = end
      /\ open'[h].truncTo = TruncAfterWrite(open[h].truncTo, end)
  <2>. DEFINE t == TruncAfterWrite(open[h].truncTo, end)
  <2>1. open' = [open EXCEPT ![h].pos = end, ![h].truncTo = t]
    BY <1>3
  <2>. HIDE DEF t, end
  <2>2. h \in DOMAIN open' /\ open'[h].pos = end /\ open'[h].truncTo = t
    BY <1>1, <2>1 DEF OpenEntry
  <2>. QED BY <2>2 DEF t
<1>10. end >= pos /\ end \in Nat
  <2>. DEFINE m == Len(bytes)
  <2>1. m \in Nat /\ end = pos + m
    BY <1>4
  <2>. HIDE DEF m, end, pos
  <2>. QED BY <1>5, <2>1
<1>. DEFINE size == Len(data)
            grown == Len(over)
            t == open[h].truncTo
            t1 == TruncAfterWrite(t, end)
<1>11. size \in Nat /\ grown \in Nat /\ grown >= size /\ grown >= end
  BY <1>2, <1>4, <1>6
<1>12. t \in Nat \cup {NotTruncating}
  BY <1>2
<1>13. /\ t1 = NotTruncating <=> t = NotTruncating
       /\ t1 # NotTruncating /\ t <= size => t1 <= grown
  <2>. HIDE DEF size, grown, t, end
  <2>. QED BY <1>10, <1>11, <1>12 DEF TruncAfterWrite, Larger, NotTruncating
<1>14. ASSUME NEW i \in 1..Len(data), over[i] # data[i]
       PROVE  open[h].pos < i /\ i <= end
  <2>1. pos < i /\ i <= end
    BY <1>7, <1>14
  <2>2. CASE "append" \in open[h].access
    <3>1. pos = size /\ i \in 1..size
      BY <2>2
    <3>. HIDE DEF size, pos
    <3>. QED BY <1>11, <2>1, <3>1
  <2>3. CASE "append" \notin open[h].access
    BY <2>1, <2>3
  <2>. QED BY <2>2, <2>3
<1>. QED BY <1>2, <1>6, <1>8, <1>9, <1>13, <1>14

\* What an operation on a handle does to truncation.
LEMMA CutHandleStep ==
  ASSUME CutInv, NEW h \in DOMAIN open, HandleStep(h)
  PROVE  SoleTruncator' /\ TruncationWithinFile'
<1>. DEFINE k == open[h].key
            \* what matters of the truncation of g's file
            Fits(g) == open[g].truncTo <= Len(nodes[open[g].key].data)
<1>1. /\ StickInv
      /\ \A g \in DOMAIN open : IsFile(open[g].key)
      /\ \A g \in DOMAIN open : Truncating(g) => Fits(g)
  BY DEF CutInv, StickInv, HandlesBacked, TruncationWithinFile
<1>2. /\ \A g \in DOMAIN open' : g \in DOMAIN open /\ open'[g].key = open[g].key
      /\ \A g \in DOMAIN open' : g # h => open'[g] = open[g]
      /\ \A x \in DOMAIN nodes : x # k => nodes'[x] = nodes[x]
  BY <1>1, HandleLemma
<1>3. ASSUME \A g \in DOMAIN open' : Truncating(g)' => Truncating(g) /\ Fits(g)'
      PROVE  SoleTruncator' /\ TruncationWithinFile'
  BY <1>2, <1>3 DEF CutInv, SoleTruncator, TruncationWithinFile
<1>4. ASSUME nodes' = nodes,
             \A g \in DOMAIN open' : open'[g].truncTo = open[g].truncTo
      PROVE  SoleTruncator' /\ TruncationWithinFile'
  BY <1>1, <1>2, <1>3, <1>4 DEF Truncating
<1>5. /\ Touched(k) = nodes
      /\ open[h] \in OpenEntry
  BY <1>1 DEF StickInv, TypeOK, IsFile, Touched
<1>6. ASSUME NEW p, open' = [open EXCEPT ![h].pos = p]
      PROVE  \A g \in DOMAIN open' : open'[g].truncTo = open[g].truncTo
  BY <1>5, <1>6 DEF OpenEntry
<1>7. CASE CloseFile(h)
  <2>1. \A g \in DOMAIN open' : g \in DOMAIN open /\ g # h /\ open'[g] = open[g]
    BY <1>7 DEF CloseFile, Without
  <2>2. CASE Truncating(h)
    <3>1. \A g \in DOMAIN open' : Truncating(g) => open[g].key # k
      BY <2>1, <2>2 DEF CutInv, SoleTruncator
    <3>. QED BY <1>1, <1>2, <1>3, <2>1, <3>1 DEF Truncating, IsFile
  <2>3. CASE ~Truncating(h)
    <3>1. nodes' = nodes
      BY <1>7, <2>3 DEF CloseFile
    <3>. QED BY <1>4, <2>1, <3>1
  <2>. QED BY <2>2, <2>3
<1>8. ASSUME NEW size \in ReadSize, ReadFile(h, size)
      PROVE  nodes' = nodes /\ \E p : open' = [open EXCEPT ![h].pos = p]
  BY <1>5, <1>8 DEF ReadFile
<1>9. ASSUME NEW position \in SeekOffset, NEW type \in FileMove, SeekFile(h, position, type)
      PROVE  nodes' = nodes /\ \E p : open' = [open EXCEPT ![h].pos = p]
  BY <1>5, <1>9 DEF SeekFile
<1>10. CASE GetFileInfoByHandle(h)
  BY <1>4, <1>5, <1>10 DEF GetFileInfoByHandle
<1>11. ASSUME NEW bytes \in Chunk, WriteFile(h, bytes)
       PROVE  SoleTruncator' /\ TruncationWithinFile'
  <2>1. /\ nodes[k].data \in Seq(Nat) /\ nodes'[k].data \in Seq(Nat)
        /\ Len(nodes'[k].data) >= Len(nodes[k].data)
        /\ open'[h].truncTo = NotTruncating <=> open[h].truncTo = NotTruncating
        /\ open'[h].truncTo # NotTruncating /\ Fits(h)
             => open'[h].truncTo <= Len(nodes'[k].data)
    BY <1>1, <1>11, WriteLemma
  <2>2. ASSUME NEW g \in DOMAIN open', Truncating(g)'
        PROVE  Truncating(g) /\ Fits(g)'
    <3>1. CASE g = h
      BY <1>1, <1>2, <2>1, <2>2, <3>1 DEF Truncating
    <3>2. CASE g # h /\ open[g].key # k
      BY <1>1, <1>2, <2>2, <3>2 DEF Truncating, IsFile
    <3>3. CASE g # h /\ open[g].key = k
      <4>1. Truncating(g) /\ open'[g] = open[g] /\ Fits(g)
        BY <1>1, <1>2, <2>2, <3>3 DEF Truncating
      <4>. DEFINE t  == open[g].truncTo
                  n  == Len(nodes[k].data)
                  n1 == Len(nodes'[k].data)
      <4>2. t \in Nat \cup {NotTruncating} /\ n \in Nat /\ n1 \in Nat /\ n1 >= n /\ t <= n
        BY <1>1, <1>2, <2>1, <3>3, <4>1 DEF StickInv, TypeOK, OpenEntry
      <4>. HIDE DEF t, n, n1
      <4>3. t <= n1
        BY <4>2 DEF NotTruncating
      <4>. QED BY <3>3, <4>1, <4>3 DEF t, n1
    <3>. QED BY <3>1, <3>2, <3>3
  <2>. QED BY <1>3, <2>2
<1>. QED BY <1>4, <1>6, <1>7, <1>8, <1>9, <1>10, <1>11 DEF HandleStep

LEMMA CutStep ==
  ASSUME TreeRules, "oneTruncator" \in Rule, CutInv, [Next]_vars
  PROVE  CutInv'
<1>1. StickInv /\ StickInv'
  BY StickStep DEF CutInv
<1>2. \A h \in DOMAIN open : IsFile(open[h].key)
  BY <1>1 DEF StickInv, HandlesBacked
<1>3. ASSUME FilesStay, open' = open
      PROVE  CutInv'
  BY <1>1, <1>2, <1>3 DEF CutInv, SoleTruncator, TruncationWithinFile, Truncating, FilesStay
<1>4. CASE UNCHANGED vars
  BY <1>1, <1>4 DEF vars, CutInv, SoleTruncator, TruncationWithinFile, Truncating, IsFile
<1>5. ASSUME NEW h \in DOMAIN open, HandleStep(h)
      PROVE  CutInv'
  BY <1>1, <1>5, CutHandleStep DEF CutInv
<1>6. ASSUME NEW raw \in RawPath, NEW access \in OpenMode, OpenFile(raw, access)
      PROVE  CutInv'
  <2>. DEFINE key == UpperKey(Normalize(raw))
              new == lastHandle + 1
  <2>1. /\ FilesStay
        /\ IsFile(key)'
        /\ DOMAIN open' = DOMAIN open \cup {new}
        /\ open'[new].key = key
        /\ open'[new].truncTo = IF "truncate" \in access THEN 0 ELSE NotTruncating
        /\ \A h \in DOMAIN open : h # new /\ open'[h] = open[h]
    BY <1>1, <1>6, OpenFileLemma
  <2>2. "truncate" \in access => NoTruncator(key)
    BY <1>6 DEF OpenFile, Careful
  <2>. HIDE DEF key, new
  <2>3. SoleTruncator'
    BY <2>1, <2>2 DEF CutInv, SoleTruncator, NoTruncator, Truncating
  <2>4. TruncationWithinFile'
    <3>1. nodes'[key].data \in Seq(Nat)
      BY <1>1, <2>1 DEF StickInv, TypeOK, IsFile, Node
    <3>2. Len(nodes'[key].data) >= 0
      BY <3>1
    <3>3. ASSUME NEW h \in DOMAIN open', Truncating(h)'
          PROVE  open'[h].truncTo <= Len(nodes'[open'[h].key].data)
      <4>1. CASE h = new
        BY <2>1, <3>2, <3>3, <4>1 DEF Truncating
      <4>2. CASE h \in DOMAIN open
        BY <1>2, <2>1, <3>3, <4>2 DEF Truncating, CutInv, TruncationWithinFile, FilesStay
      <4>. QED BY <2>1, <4>1, <4>2
    <3>. QED BY <3>3 DEF TruncationWithinFile
  <2>. QED BY <1>1, <2>3, <2>4 DEF CutInv
<1>7. ASSUME NEW raw \in RawPath, PathStep(raw)
      PROVE  CutInv'
  BY <1>1, <1>3, <1>6, <1>7, MkDirLemma, RmDirLemma, RenameLemma DEF PathStep
<1>8. CASE PowerCycle
  BY <1>1, <1>8 DEF PowerCycle, CutInv, SoleTruncator, TruncationWithinFile
<1>. QED BY <1>4, <1>5, <1>7, <1>8 DEF Next

\* TruncationWithinFile: with one truncating handle at a time on a file, its
\* CloseFile can only cut, never pad with zeros that nobody wrote.
THEOREM ClosesOnlyCut ==
  ASSUME TreeRules, "oneTruncator" \in Rule
  PROVE  Spec => []TruncationWithinFile
<1>1. Init => CutInv
  BY StickInit DEF Init, CutInv, SoleTruncator, TruncationWithinFile
<1>2. CutInv /\ [Next]_vars => CutInv'
  BY CutStep
<1>3. CutInv => TruncationWithinFile
  BY DEF CutInv
<1>. QED BY <1>1, <1>2, <1>3, PTL DEF Spec

\* ErasesOnlyAtClose: while a file stays where it is, only the close of a handle
\* that truncates it makes it shorter, and its bytes change only where a
\* WriteFile of this step went over them.
THEOREM OpensEraseNothing ==
  ASSUME TreeRules
  PROVE  Spec => ErasesOnlyAtClose
<1>. DEFINE Cut(k) == \E h \in DOMAIN open \ DOMAIN open' : open[h].key = k /\ Truncating(h)
            Over(k) ==
              /\ Len(nodes'[k].data) >= Len(nodes[k].data)
              /\ \A i \in 1..Len(nodes[k].data) :
                   nodes'[k].data[i] # nodes[k].data[i] =>
                     \E h \in DOMAIN open \cap DOMAIN open' :
                       open[h].key = k /\ open[h].pos < i /\ i <= open'[h].pos
            Kept == \A k \in DOMAIN nodes \cap DOMAIN nodes' :
              \/ \E h \in DOMAIN open \ DOMAIN open' : open[h].key = k /\ Truncating(h)
              \/ /\ Len(nodes'[k].data) >= Len(nodes[k].data)
                 /\ \A i \in 1..Len(nodes[k].data) :
                      nodes'[k].data[i] # nodes[k].data[i] =>
                        \E h \in DOMAIN open \cap DOMAIN open' :
                          open[h].key = k /\ open[h].pos < i /\ i <= open'[h].pos
<1>0. (\A k \in DOMAIN nodes \cap DOMAIN nodes' : Cut(k) \/ Over(k)) => Kept
  OBVIOUS
<1>1. ASSUME StickInv, [Next]_vars
      PROVE  [Kept]_vars
  <2>. DEFINE Goal == \A k \in DOMAIN nodes \cap DOMAIN nodes' : Cut(k) \/ Over(k)
  <2>. SUFFICES ASSUME Next PROVE Goal
    BY <1>0, <1>1
  <2>. HIDE DEF Kept
  <2>0. \A k \in DOMAIN nodes : nodes[k].data \in Seq(Nat)
    BY <1>1 DEF StickInv, TypeOK, Node
  <2>1. ASSUME NEW k \in DOMAIN nodes, nodes'[k].data = nodes[k].data
        PROVE  Over(k)
    BY <2>0, <2>1
  <2>2. (\A k \in DOMAIN nodes \cap DOMAIN nodes' : nodes'[k].data = nodes[k].data) => Goal
    BY <2>1
  <2>. HIDE DEF Over
  <2>3. ASSUME NEW h \in DOMAIN open, HandleStep(h)
        PROVE  Goal
    <3>1. /\ open[h].key \in DOMAIN nodes
          /\ Touched(open[h].key) = nodes
          /\ \A k \in DOMAIN nodes : k # open[h].key => nodes'[k] = nodes[k]
      BY <1>1, <2>3, HandleLemma DEF StickInv, HandlesBacked, IsFile, Touched
    <3>2. CASE CloseFile(h)
      <4>1. CASE Truncating(h)
        <5>1. h \notin DOMAIN open'
          BY <3>2 DEF CloseFile, Without
        <5>. QED BY <2>1, <3>1, <4>1, <5>1
      <4>2. CASE ~Truncating(h)
        BY <2>2, <3>2, <4>2 DEF CloseFile
      <4>. QED BY <4>1, <4>2
    <3>3. CASE \E bytes \in Chunk : WriteFile(h, bytes)
      <4>1. PICK bytes \in Chunk : WriteFile(h, bytes)
        BY <3>3
      <4>. DEFINE k == open[h].key
      <4>2. /\ Len(nodes'[k].data) >= Len(nodes[k].data)
            /\ \A i \in 1..Len(nodes[k].data) :
                 nodes'[k].data[i] # nodes[k].data[i] =>
                   open[h].pos < i /\ i <= open'[h].pos
            /\ h \in DOMAIN open'
        BY <1>1, <4>1, WriteLemma
      <4>3. Over(k)
        BY <4>2 DEF Over
      <4>. QED BY <2>1, <3>1, <4>3
    <3>4. CASE nodes' = nodes
      BY <2>2, <3>4
    <3>5. \/ CloseFile(h)
          \/ \E bytes \in Chunk : WriteFile(h, bytes)
          \/ nodes' = nodes
      BY <2>3, <3>1 DEF HandleStep, ReadFile, SeekFile, GetFileInfoByHandle
    <3>. QED BY <3>2, <3>3, <3>4, <3>5
  <2>4. ASSUME NEW raw \in RawPath, PathStep(raw)
        PROVE  Goal
    <3>1. CASE \E access \in OpenMode : OpenFile(raw, access)
      BY <1>1, <2>2, <3>1, OpenFileLemma
    <3>2. CASE MkDir(raw)
      BY <1>1, <2>2, <3>2, MkDirLemma
    <3>3. CASE RmDir(raw) \/ RemoveFile(raw)
      <4>1. nodes' = Without(nodes, {UpperKey(Normalize(raw))})
        BY <1>1, <3>3, RmDirLemma
      <4>. QED BY <2>2, <4>1 DEF Without
    <3>4. CASE \E to \in RawPath, bare \in BOOLEAN : RenameFile(raw, to, bare)
      BY <1>1, <2>2, <3>4, RenameLemma
    <3>. QED BY <2>4, <3>1, <3>2, <3>3, <3>4 DEF PathStep
  <2>5. CASE PowerCycle
    BY <1>1, <2>2, <2>5 DEF PowerCycle, StickInv, Rooted, IsDir
  <2>. QED BY <2>3, <2>4, <2>5 DEF Next
<1>2. Spec => [][Kept]_vars
  BY StickAlways, <1>1, PTL DEF Spec
<1>. QED BY <1>2 DEF ErasesOnlyAtClose

-----------------------------------------------------------------------------
(* Names.                                                                  *)

\* The node n shows the name of the key k.
Named(n, k) ==
  /\ n.displayPath \in Path
  /\ UpperKey(n.displayPath) = k
  /\ n.displayName \in Name
  /\ Upper[n.displayName] = k[Len(k)]

LEMMA UpperTwice ==
  ASSUME NEW p \in Path
  PROVE  UpperKey(UpperKey(p)) = UpperKey(p)
<1>. DEFINE u == UpperKey(p)
            v == UpperKey(u)
<1>1. /\ u \in Path /\ Len(u) = Len(p)
      /\ \A i \in 1..Len(p) : u[i] = Upper[p[i]] /\ p[i] \in Name
  BY UpperLemma DEF Path
<1>2. v \in Path /\ Len(v) = Len(u) /\ \A i \in 1..Len(u) : v[i] = Upper[u[i]]
  BY <1>1, UpperLemma
<1>. HIDE DEF u, v
<1>3. \A i \in 1..Len(v) : v[i] = u[i]
  BY <1>1, <1>2, UpperAssumption
<1>. QED BY <1>1, <1>2, <1>3, SeqEqual DEF Path, u, v

\* The last component of a key is that of its path, in upper case.
LEMMA LastOfKey ==
  ASSUME NEW p \in Path, p # Root
  PROVE  /\ p[Len(p)] \in Name
         /\ UpperKey(p)[Len(UpperKey(p))] = Upper[p[Len(p)]]
<1>1. Len(p) \in 1..Len(p)
  BY EmptySeq DEF Root, Path
<1>. QED BY <1>1, UpperLemma, ElementOfSeq DEF Path

LEMMA MkNodeNamed ==
  ASSUME NEW norm \in Path, NEW dir \in BOOLEAN, UpperKey(norm) # Root
  PROVE  Named(MkNode(norm, dir), UpperKey(norm))
<1>1. norm # Root
  BY UpperLemma, EmptySeq DEF Root, Path
<1>. QED BY <1>1, LastOfKey DEF Named, MkNode, LastName

\* What is under a directory, rebased in its own spelling, keeps its key.
LEMMA UpperOfRebase ==
  ASSUME NEW from \in Path, NEW norm \in Path, NEW k \in Path, Under(from, k),
         UpperKey(k) = k
  PROVE  UpperKey(Rebase(k, from, norm)) = Rebase(k, from, UpperKey(norm))
<1>. DEFINE to == UpperKey(norm)
            r  == Rebase(k, from, norm)
            u  == UpperKey(r)
            s  == Rebase(k, from, to)
            lf == Len(from)
            ln == Len(norm)
            lk == Len(k)
            lu == Len(u)
<1>1. lf \in Nat /\ ln \in Nat /\ lk \in Nat
  BY DEF Path
<1>2. lk >= lf
  BY UnderLemma
<1>3. to \in Path /\ Len(to) = ln /\ \A i \in 1..ln : to[i] = Upper[norm[i]]
  BY UpperLemma
<1>4. /\ r \in Path
      /\ Len(r) = ln + lk - lf
      /\ \A i \in 1..ln : r[i] = norm[i]
      /\ \A i \in ln + 1..ln + lk - lf : r[i] = k[i - ln + lf]
  BY <1>2, RebaseLemma
<1>5. /\ s \in Path
      /\ Len(s) = Len(to) + lk - lf
      /\ \A i \in 1..Len(to) : s[i] = to[i]
      /\ \A i \in Len(to) + 1..Len(to) + lk - lf : s[i] = k[i - Len(to) + lf]
  BY <1>2, <1>3, RebaseLemma
<1>6. u \in Path /\ lu = Len(r) /\ \A i \in 1..Len(r) : u[i] = Upper[r[i]]
  BY <1>4, UpperLemma
<1>7. \A i \in 1..lk : Upper[k[i]] = k[i]
  BY UpperLemma
<1>. HIDE DEF to, r, u, s
<1>8. u \in Seq(Name) /\ s \in Seq(Name)
  BY <1>5, <1>6 DEF Path
<1>9. lu = Len(s) /\ (\A i \in 1..lu : u[i] = s[i]) => u = s
  BY <1>8, SeqEqual
<1>10. lu = ln + lk - lf /\ Len(s) = lu
  BY <1>3, <1>4, <1>5, <1>6
<1>11. /\ \A i \in 1..ln : s[i] = Upper[norm[i]]
       /\ \A i \in ln + 1..ln + lk - lf : s[i] = k[i - ln + lf]
  BY <1>3, <1>5
<1>12. \A i \in 1..ln + lk - lf : u[i] = Upper[r[i]]
  BY <1>4, <1>6
<1>. HIDE DEF lf, ln, lk, lu
<1>13. ASSUME NEW i \in 1..ln + lk - lf
       PROVE  u[i] = s[i]
  <2>1. CASE i \in 1..ln
    BY <1>4, <1>11, <1>12, <2>1
  <2>2. CASE i \in ln + 1..ln + lk - lf
    <3>1. i - ln + lf \in 1..lk
      BY <1>1, <2>2
    <3>. QED BY <1>4, <1>7, <1>11, <1>12, <2>2, <3>1
  <2>. QED BY <1>1, <2>1, <2>2
<1>. QED BY <1>9, <1>10, <1>13 DEF u, s, to, r

\* What lies below a directory keeps its last component in a move.
LEMMA LastOfRebase ==
  ASSUME NEW from \in Path, NEW to \in Path, NEW k \in Path, Below(from, k)
  PROVE  Rebase(k, from, to)[Len(Rebase(k, from, to))] = k[Len(k)]
<1>. DEFINE r  == Rebase(k, from, to)
            lf == Len(from)
            lt == Len(to)
            lk == Len(k)
            lr == Len(r)
<1>1. lf \in Nat /\ lt \in Nat /\ lk \in Nat
  BY DEF Path
<1>2. lk > lf
  BY BelowLemma
<1>3. lk >= lf
  <2>. HIDE DEF lk, lf
  <2>. QED BY <1>1, <1>2
<1>4. /\ lr = lt + lk - lf
      /\ \A i \in lt + 1..lt + lk - lf : r[i] = k[i - lt + lf]
  BY <1>3, RebaseLemma
<1>. HIDE DEF r, lf, lt, lk, lr
<1>5. lr \in lt + 1..lt + lk - lf /\ lr - lt + lf = lk
  BY <1>1, <1>2, <1>4
<1>6. r[lr] = k[lk]
  BY <1>4, <1>5
<1>. QED BY <1>6 DEF r, lr, lk

\* The directories above what is renamed are in the way of a rename to them.
LEMMA AboveIsTaken ==
  ASSUME StickInv, NEW from \in DOMAIN nodes, from # Root,
         NEW to, to = ParentOf(from) \/ to = ParentOf(ParentOf(from))
  PROVE  ~Available(to, from)
<1>. DEFINE p == ParentOf(from)
            q == ParentOf(p)
<1>1. /\ from \in Path /\ p \in Path /\ q \in Path
      /\ Len(p) = Len(from) - 1
      /\ p = Root => q = Root
      /\ p # Root => Len(q) = Len(p) - 1
  BY ParentLemma DEF StickInv, TypeOK
<1>2. IsDir(p)
  BY RootedIsTree DEF StickInv, TreeOK
<1>3. IsDir(q)
  BY <1>1, <1>2, RootedIsTree DEF StickInv, TreeOK, IsDir
<1>4. p # from
  <2>1. Len(from) \in Nat
    BY <1>1 DEF Path
  <2>2. Len(from) # Len(from) - 1
    BY <1>1 DEF Path
  <2>. QED BY <1>1, <2>2
<1>5. q # from
  <2>1. CASE p = Root
    BY <1>1, <2>1
  <2>2. CASE p # Root
    <3>. DEFINE n == Len(from)
                m == Len(q)
    <3>1. n \in Nat /\ m = n - 1 - 1
      BY <1>1, <2>2 DEF Path
    <3>. HIDE DEF n, m
    <3>2. m # n
      BY <3>1
    <3>. QED BY <3>2 DEF m, n
  <2>. QED BY <2>1, <2>2
<1>. QED BY <1>2, <1>3, <1>4, <1>5 DEF Available, IsDir

\* The name a rename gives is the last component of the path it gives.
LEMMA TargetNamed ==
  ASSUME TreeRules, StickInv, NEW raw \in RawPath, NEW rawTo \in RawPath,
         NEW bare \in BOOLEAN, RenameFile(raw, rawTo, bare)
  PROVE  LET target == RenameTarget(raw, rawTo, bare)
             norm   == Normalize(target)
             name   == LastName(IF bare THEN rawTo ELSE target)
         IN  norm \in Path /\ norm # Root /\ name = norm[Len(norm)]
<1>. DEFINE base   == Normalize(raw)
            from   == UpperKey(base)
            target == RenameTarget(raw, rawTo, bare)
            norm   == Normalize(target)
            to     == UpperKey(norm)
            name   == LastName(IF bare THEN rawTo ELSE target)
<1>1. base \in Path /\ from \in Path /\ norm \in Path /\ to \in Path
  BY NamesTyped
<1>2. /\ bare => Len(rawTo) <= 1
      /\ from \in DOMAIN nodes
      /\ Available(to, from)
      /\ to # Root
      /\ from # Root
  BY DEF RenameFile, Careful, TreeRules, IntoTree
<1>3. norm # Root
  BY <1>1, <1>2, UpperLemma, EmptySeq DEF Root, Path
<1>4. target \in Path => norm = target
  BY RenamesLemma
<1>5. target = IF bare THEN ParentOf(base) \o rawTo ELSE Normalize(rawTo)
  BY DEF RenameTarget
\* Not onto the directory it is in, nor the one above.
<1>6. norm # ParentOf(base) /\ norm # ParentOf(ParentOf(base))
  <2>1. /\ UpperKey(ParentOf(base)) = ParentOf(from)
        /\ UpperKey(ParentOf(ParentOf(base))) = ParentOf(ParentOf(from))
    BY <1>1, UpperOfParent, ParentLemma
  <2>. HIDE DEF base, from, norm
  <2>. QED BY <1>2, <2>1, AboveIsTaken
<1>7. rawTo \in Seq(RawName)
  BY PathsAssumption
<1>8. \A part \in {Dot, DotDot} :
        bare /\ rawTo = <<part>> => norm = Enter(ParentOf(base), part)
  BY RenamesLemma
<1>9. ParentOf(base) \in Path
  BY <1>1, ParentLemma
<1>10. Normalize(rawTo) \in Path
  BY NamesTyped
<1>. HIDE DEF base, from, target, norm, to
<1>11. CASE ~bare
  <2>1. norm = target
    BY <1>4, <1>5, <1>10, <1>11
  <2>. QED BY <1>1, <1>3, <1>11, <2>1 DEF LastName, target, norm
<1>12. CASE bare /\ rawTo = <<>>
  <2>1. target = ParentOf(base)
    BY <1>5, <1>9, <1>12, ConcatEmptySeq DEF Path
  <2>. QED BY <1>4, <1>6, <1>9, <2>1
<1>13. CASE bare /\ rawTo # <<>>
  <2>1. Len(rawTo) = 1 /\ rawTo[1] \in RawName
    <3>1. Len(rawTo) = 1
      <4>. DEFINE n == Len(rawTo)
      <4>1. n \in Nat \ {0} /\ n <= 1
        BY <1>2, <1>7, <1>13, EmptySeq
      <4>. HIDE DEF n
      <4>2. n = 1
        BY <4>1
      <4>. QED BY <4>2 DEF n
    <3>2. 1 \in 1..Len(rawTo)
      BY <3>1
    <3>. QED BY <1>7, <3>1, <3>2, ElementOfSeq
  <2>2. rawTo = <<rawTo[1]>>
    BY <1>7, <2>1
  <2>3. CASE rawTo[1] = Dot
    BY <1>6, <1>8, <1>13, <2>2, <2>3 DEF Enter
  <2>4. CASE rawTo[1] = DotDot
    BY <1>6, <1>8, <1>13, <2>2, <2>4, DotsAssumption DEF Enter
  <2>5. CASE rawTo[1] \in Name
    <3>1. rawTo \in Path
      <4>. DEFINE part == rawTo[1]
      <4>1. part \in Name /\ rawTo = <<part>>
        BY <2>2, <2>5
      <4>. HIDE DEF part
      <4>2. <<part>> \in Seq(Name)
        BY <4>1
      <4>. QED BY <4>1, <4>2 DEF Path
    <3>2. /\ target \in Path
          /\ Len(target) = Len(ParentOf(base)) + 1
          /\ target[Len(ParentOf(base)) + 1] = rawTo[1]
      <4>. DEFINE d == ParentOf(base)
                  n == Len(d)
      <4>1. n \in Nat
        BY <1>9 DEF Path
      <4>2. /\ target = d \o rawTo
            /\ target \in Path
            /\ Len(target) = n + Len(rawTo)
            /\ \A i \in 1..n + Len(rawTo) :
                 target[i] = IF i <= n THEN d[i] ELSE rawTo[i - n]
        BY <1>5, <1>9, <1>13, <3>1, ConcatProperties DEF Path
      <4>5. \A i \in 1..n + 1 : target[i] = IF i <= n THEN d[i] ELSE rawTo[i - n]
        BY <2>1, <4>2
      <4>. HIDE DEF n, d
      <4>3. n + 1 \in 1..n + 1 /\ ~(n + 1 <= n) /\ n + 1 - n = 1
        BY <4>1
      <4>4. target[n + 1] = rawTo[1]
        <5>. DEFINE m == n + 1
        <5>1. m \in 1..n + 1 /\ ~(m <= n) /\ m - n = 1
          BY <4>1, <4>3
        <5>. HIDE DEF m
        <5>2. target[m] = rawTo[m - n]
          BY <4>1, <4>5, <5>1
        <5>3. target[m] = rawTo[1]
          BY <5>1, <5>2
        <5>. QED BY <5>3 DEF m
      <4>. QED BY <2>1, <4>2, <4>4 DEF n, d
    <3>3. norm = target
      BY <1>4, <3>2
    <3>4. name = rawTo[1]
      BY <1>13, <2>1 DEF LastName, Root
    <3>. QED BY <1>1, <1>3, <3>2, <3>3, <3>4 DEF norm, target
  <2>. QED BY <2>1, <2>3, <2>4, <2>5 DEF RawName
<1>. QED BY <1>11, <1>12, <1>13

NameInv == StickInv /\ NamesMatchKeys

LEMMA NamesParts == NamesMatchKeys <=> \A k \in DOMAIN nodes \ {Root} : Named(nodes[k], k)
BY DEF NamesMatchKeys, Named

\* A rename gives what it moves the names that belong to its new keys.
LEMMA RenameNames ==
  ASSUME TreeRules, NameInv, NEW raw \in RawPath, NEW rawTo \in RawPath,
         NEW bare \in BOOLEAN, RenameFile(raw, rawTo, bare)
  PROVE  NamesMatchKeys'
<1>. DEFINE from   == UpperKey(Normalize(raw))
            toNorm == RenameTarget(raw, rawTo, bare)
            norm   == Normalize(toNorm)
            to     == UpperKey(norm)
            name   == LastName(IF bare THEN rawTo ELSE toNorm)
            file   == [nodes[from] EXCEPT !.displayName = name, !.displayPath = norm]
<1>1. /\ from \in Path /\ to \in Path
      /\ IsCard(nodes)
      /\ \A k \in DOMAIN nodes \ {Root} : Named(nodes[k], k)
      /\ StickInv
  BY NamesTyped, TypeParts, NamesParts DEF NameInv, StickInv
<1>2. norm \in Path /\ norm # Root /\ name = norm[Len(norm)]
  BY <1>1, TargetNamed
<1>3. name \in Name /\ Upper[name] = to[Len(to)]
  BY <1>2, LastOfKey
<1>4. /\ from \in DOMAIN nodes
      /\ Available(to, from)
      /\ nodes' = IF nodes[from].isDirectory
                    THEN Moved(from, to, norm, name)
                    ELSE Put(Without(nodes, {from}), to, file)
      /\ from # Root
  BY DEF RenameFile, Careful, TreeRules, IntoTree
<1>5. SUFFICES ASSUME NEW k \in DOMAIN nodes', k # Root
               PROVE  Named(nodes'[k], k)
  BY DEF NamesMatchKeys, Named
<1>. HIDE DEF from, toNorm, norm, name, to
<1>6. to = UpperKey(norm)
  BY DEF to
<1>7. CASE nodes[from].isDirectory
  <2>1. /\ IsCard(Moved(from, to, norm, name))
        /\ HasMoved(Moved(from, to, norm, name), from, to, norm, name)
    BY <1>1, <1>2, <1>3, MovedLemma DEF RawName
  <2>2. HasMoved(nodes', from, to, norm, name)
    BY <1>4, <1>7, <2>1
  <2>3. CASE k \in Places(from, to)
    <3>1. PICK m \in Moving(from) : k = Rebase(m, from, to)
      BY <2>3 DEF Places
    <3>2. /\ m \in DOMAIN nodes /\ m \in Path /\ Under(from, m) /\ m # Root
      <4>1. m \in DOMAIN nodes /\ m \in Path /\ Under(from, m)
        BY <1>1 DEF Moving, IsCard
      <4>2. Root \in Path
        BY EmptySeq DEF Root, Path
      <4>3. ~Below(from, Root)
        BY <1>1, <4>2, BelowLemma DEF Root
      <4>. QED BY <1>4, <4>1, <4>3 DEF Under
    <3>3. Named(nodes[m], m)
      BY <1>1, <3>2
    <3>4. UpperKey(m) = m
      BY <3>3, UpperTwice DEF Named
    <3>5. /\ nodes'[k].displayPath = Rebase(m, from, norm)
          /\ nodes'[k].displayName = IF m = from THEN name ELSE nodes[m].displayName
      BY <2>2, <3>1 DEF HasMoved
    <3>6. Rebase(m, from, norm) \in Path
      BY <1>1, <1>2, <3>2, RebaseLemma, UnderLemma
    <3>7. UpperKey(Rebase(m, from, norm)) = k
      BY <1>1, <1>2, <1>6, <3>1, <3>2, <3>4, UpperOfRebase
    <3>8. CASE m = from
      <4>1. Rebase(from, from, norm) = norm
        <5>. DEFINE r == Rebase(from, from, norm)
        <5>0. Len(from) >= Len(from)
          BY <1>1 DEF Path
        <5>1. /\ r \in Path
              /\ Len(r) = Len(norm) + Len(from) - Len(from)
              /\ \A i \in 1..Len(norm) : r[i] = norm[i]
          BY <1>1, <1>2, <5>0, RebaseLemma
        <5>. HIDE DEF r
        <5>2. Len(r) = Len(norm)
          BY <1>1, <1>2, <5>1 DEF Path
        <5>3. r = norm
          BY <1>2, <5>1, <5>2, SeqEqual DEF Path
        <5>. QED BY <5>3 DEF r
      <4>2. k = to
        BY <1>6, <3>7, <3>8, <4>1
      <4>. QED BY <1>3, <3>5, <3>6, <3>7, <3>8, <4>2 DEF Named
    <3>9. CASE m # from
      <4>1. Below(from, m)
        BY <3>2, <3>9 DEF Under
      <4>2. k[Len(k)] = m[Len(m)]
        BY <1>1, <3>1, <3>2, <4>1, LastOfRebase
      <4>. QED BY <3>3, <3>5, <3>6, <3>7, <3>9, <4>2 DEF Named
    <3>. QED BY <3>8, <3>9
  <2>4. CASE k \notin Places(from, to)
    <3>1. k \in DOMAIN nodes /\ k \notin Moving(from)
      BY <2>2, <2>4 DEF HasMoved
    <3>. QED BY <1>1, <1>5, <2>2, <2>4, <3>1 DEF HasMoved
  <2>. QED BY <2>3, <2>4
<1>8. CASE ~nodes[from].isDirectory
  <2>1. nodes[from] \in Node
    BY <1>1, <1>4 DEF IsCard
  <2>2. file.displayPath = norm /\ file.displayName = name
    BY <2>1 DEF Node
  <2>. HIDE DEF file
  <2>3. nodes' = Put(Without(nodes, {from}), to, file)
    BY <1>4, <1>8
  <2>4. CASE k = to
    <3>1. nodes'[k] = file
      BY <2>3, <2>4 DEF Put
    <3>. QED BY <1>2, <1>3, <1>6, <2>2, <2>4, <3>1 DEF Named
  <2>5. CASE k # to
    <3>1. k \in DOMAIN nodes /\ nodes'[k] = nodes[k]
      BY <2>3, <2>5 DEF Put, Without
    <3>. QED BY <1>1, <1>5, <3>1
  <2>. QED BY <2>4, <2>5
<1>. QED BY <1>7, <1>8

LEMMA NamesStep ==
  ASSUME TreeRules, NameInv, [Next]_vars
  PROVE  NameInv'
<1>1. StickInv /\ StickInv'
  BY StickStep DEF NameInv
<1>2. \A k \in DOMAIN nodes \ {Root} : Named(nodes[k], k)
  BY NamesParts DEF NameInv
<1>3. ASSUME \A k \in DOMAIN nodes' \ {Root} : Named(nodes'[k], k)
      PROVE  NameInv'
  BY <1>1, <1>3 DEF NameInv, NamesMatchKeys, Named
<1>4. ASSUME NEW raw \in RawPath, NEW dir \in BOOLEAN,
             UpperKey(Normalize(raw)) \notin DOMAIN nodes,
             nodes' = Put(nodes, UpperKey(Normalize(raw)), MkNode(Normalize(raw), dir))
      PROVE  NameInv'
  <2>. DEFINE key == UpperKey(Normalize(raw))
              node == MkNode(Normalize(raw), dir)
  <2>1. key # Root
    BY <1>1, <1>4 DEF StickInv, Rooted, IsDir
  <2>2. Named(node, key)
    BY <2>1, NamesTyped, MkNodeNamed
  <2>3. nodes' = Put(nodes, key, node)
    BY <1>4
  <2>. HIDE DEF key, node
  <2>4. \A k \in DOMAIN nodes' :
          \/ k = key /\ nodes'[k] = node
          \/ k \in DOMAIN nodes /\ nodes'[k] = nodes[k]
    BY <2>3 DEF Put
  <2>. QED BY <1>2, <1>3, <2>2, <2>4
<1>5. CASE nodes' = nodes
  BY <1>2, <1>3, <1>5
<1>6. ASSUME NEW h \in DOMAIN open, HandleStep(h)
      PROVE  NameInv'
  <2>1. /\ DOMAIN nodes' = DOMAIN nodes
        /\ \A k \in DOMAIN nodes : /\ nodes'[k].displayPath = nodes[k].displayPath
                                   /\ nodes'[k].displayName = nodes[k].displayName
    BY <1>1, <1>6, HandleLemma
  <2>. QED BY <1>2, <1>3, <2>1 DEF Named
<1>7. ASSUME NEW raw \in RawPath, PathStep(raw)
      PROVE  NameInv'
  <2>1. ASSUME NEW access \in OpenMode, OpenFile(raw, access)
        PROVE  NameInv'
    <3>1. nodes' = Opened(Normalize(raw), access)
      BY <2>1 DEF OpenFile
    <3>2. CASE UpperKey(Normalize(raw)) \in DOMAIN nodes
      BY <1>5, <3>1, <3>2 DEF Opened
    <3>3. CASE UpperKey(Normalize(raw)) \notin DOMAIN nodes
      BY <1>4, <3>1, <3>3 DEF Opened
    <3>. QED BY <3>2, <3>3
  <2>2. CASE MkDir(raw)
    BY <1>4, <2>2 DEF MkDir
  <2>3. CASE RmDir(raw) \/ RemoveFile(raw)
    <3>1. nodes' = Without(nodes, {UpperKey(Normalize(raw))})
      BY <1>1, <2>3, RmDirLemma
    <3>. QED BY <1>2, <1>3, <3>1 DEF Without
  <2>4. ASSUME NEW to \in RawPath, NEW bare \in BOOLEAN, RenameFile(raw, to, bare)
        PROVE  NameInv'
    BY <1>1, <2>4, RenameNames DEF NameInv
  <2>. QED BY <1>7, <2>1, <2>2, <2>3, <2>4 DEF PathStep
<1>8. CASE PowerCycle
  BY <1>1, <1>5, <1>8 DEF PowerCycle, StickInv, Rooted, IsDir
<1>9. CASE UNCHANGED vars
  BY <1>5, <1>9 DEF vars
<1>. QED BY <1>6, <1>7, <1>8, <1>9 DEF Next

\* NamesMatchKeys: a node is found under the name it shows, whatever RenameFile
\* made of its path, of its name and of what lay below it.
THEOREM NodesShowTheirNames ==
  ASSUME TreeRules
  PROVE  Spec => []NamesMatchKeys
<1>1. ASSUME Init PROVE NameInv
  <2>1. /\ DOMAIN nodes = StandardDirs \cup {Root}
        /\ \A k \in StandardDirs : nodes[k] = MkNode(k, TRUE)
    BY <1>1 DEF Init, FreshCard
  <2>2. ASSUME NEW k \in StandardDirs
        PROVE  Named(nodes[k], k)
    <3>1. k \in Path /\ UpperKey(k) = k /\ k # Root
      BY StandardAssumption
    <3>2. Named(MkNode(k, TRUE), UpperKey(k))
      BY <3>1, MkNodeNamed
    <3>. QED BY <2>1, <3>1, <3>2
  <2>3. NamesMatchKeys
    BY <2>1, <2>2, NamesParts
  <2>. QED BY <1>1, <2>3, StickInit DEF NameInv
<1>2. NameInv /\ [Next]_vars => NameInv'
  BY NamesStep
<1>3. NameInv => NamesMatchKeys
  BY DEF NameInv
<1>. QED BY <1>1, <1>2, <1>3, PTL DEF Spec
=============================================================================
