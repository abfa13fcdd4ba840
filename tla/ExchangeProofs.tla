--------------------------- MODULE ExchangeProofs ---------------------------
(***************************************************************************)
(* Theorems about seeding and export, for every name, zip and standard     *)
(* tree, and whatever the program does with the stick in between.          *)
(*                                                                         *)
(* A zip is walked entry by entry, so what one entry does to a card is     *)
(* stated once (PutFileLemma, SeedEntryKeeps) and carried over the walk by *)
(* counting its entries (Counting).  Until the program does something the  *)
(* card holds what was given (SeedInv); after that the invariant is that   *)
(* of MemStickProofs, for a program that keeps its rules (RunInv).         *)
(***************************************************************************)
EXTENDS StickExchange, MemStickProofs, FiniteSetTheorems

-----------------------------------------------------------------------------
(* One file put on a card.                                                 *)

Above(k) == {SubSeq(k, 1, n) : n \in 1..Len(k) - 1}

LEMMA AboveLemma ==
  ASSUME NEW k \in Path
  PROVE  \A d \in Above(k) : /\ d \in Path /\ Len(d) \in 1..Len(k) - 1
                             /\ d = SubSeq(k, 1, Len(d)) /\ d # k /\ Below(d, k)
<1>. SUFFICES ASSUME NEW n \in 1..Len(k) - 1
              PROVE  LET d == SubSeq(k, 1, n)
                     IN  /\ d \in Path /\ Len(d) \in 1..Len(k) - 1
                         /\ d = SubSeq(k, 1, Len(d)) /\ d # k /\ Below(d, k)
  BY DEF Above
<1>. DEFINE d == SubSeq(k, 1, n)
<1>1. Len(k) \in Nat /\ n \in 0..Len(k)
  BY DEF Path
<1>2. d \in Path /\ Len(d) = n /\ \A i \in 1..n : d[i] = k[i]
  BY <1>1, PrefixLemma
<1>3. Below(d, k)
  <2>. HIDE DEF d
  <2>. QED BY <1>1, <1>2, BelowLemma
<1>. QED BY <1>1, <1>2, <1>3

\* Whatever is above a path is above it in this sense.
LEMMA BelowIsAbove ==
  ASSUME NEW k \in Path, NEW d \in Path, Below(d, k)
  PROVE  d \in Above(k)
<1>1. Len(d) \in Nat /\ Len(k) \in Nat /\ Len(d) >= 1 /\ Len(k) > Len(d)
  BY BelowLemma DEF Path
<1>2. d = SubSeq(k, 1, Len(d)) /\ Len(d) \in 1..Len(k) - 1
  BY <1>1 DEF Below
<1>. QED BY <1>2 DEF Above

\* The prefix of a key is the key of the prefix.
LEMMA UpperOfPrefix ==
  ASSUME NEW p \in Path, NEW n \in 0..Len(p)
  PROVE  UpperKey(SubSeq(p, 1, n)) = SubSeq(UpperKey(p), 1, n)
<1>. DEFINE a == SubSeq(p, 1, n)
            b == SubSeq(UpperKey(p), 1, n)
<1>1. Len(p) \in Nat /\ n \in Nat /\ \A i \in 1..n : i \in 1..Len(p)
  BY DEF Path
<1>2. UpperKey(p) \in Path /\ Len(UpperKey(p)) = Len(p)
      /\ \A i \in 1..Len(p) : UpperKey(p)[i] = Upper[p[i]]
  BY UpperLemma
<1>3. a \in Path /\ Len(a) = n /\ \A i \in 1..n : a[i] = p[i]
  BY PrefixLemma
<1>4. b \in Path /\ Len(b) = n /\ \A i \in 1..n : b[i] = UpperKey(p)[i]
  BY <1>2, PrefixLemma
<1>5. UpperKey(a) \in Path /\ Len(UpperKey(a)) = n /\ \A i \in 1..n : UpperKey(a)[i] = Upper[a[i]]
  BY <1>3, UpperLemma
<1>. HIDE DEF a, b
<1>6. \A i \in 1..n : UpperKey(a)[i] = b[i]
  BY <1>1, <1>2, <1>3, <1>4, <1>5
<1>. QED BY <1>4, <1>5, <1>6, SeqEqual DEF Path, a, b

LEMMA FileNodeTyped ==
  ASSUME NEW norm \in Path, NEW bytes \in Seq(Nat)
  PROVE  /\ FileNode(norm, bytes) \in Node
         /\ ~FileNode(norm, bytes).isDirectory
         /\ FileNode(norm, bytes).data = bytes
         /\ FileNode(norm, bytes).displayPath = norm
         /\ FileNode(norm, bytes).displayName = MkNode(norm, FALSE).displayName
<1>1. MkNode(norm, FALSE) \in Node /\ ~MkNode(norm, FALSE).isDirectory
      /\ MkNode(norm, FALSE).displayPath = norm
  BY MkNodeTyped DEF MkNode
<1>. QED BY <1>1 DEF FileNode, Node

\* What PutFile leaves: the file, the directories above it that were missing,
\* and everything else as it was.
HasPut(after, card, norm, bytes) ==
  LET key == UpperKey(norm)
  IN  /\ IsCard(after)
      /\ DOMAIN after = DOMAIN card \cup Above(key) \cup {key}
      /\ after[key] = FileNode(norm, bytes)
      /\ \A k \in DOMAIN card \ {key} : after[k] = card[k]
      /\ \A k \in Above(key) \ DOMAIN card :
           k # key /\ after[k] = MkNode(SubSeq(norm, 1, Len(k)), TRUE)

LEMMA PutFileLemma ==
  ASSUME NEW card, IsCard(card), NEW norm \in Path, NEW bytes \in Seq(Nat)
  PROVE  HasPut(PutFile(card, norm, bytes), card, norm, bytes)
<1>. DEFINE key   == UpperKey(norm)
            above == Above(key)
            grown == WithParents(card, norm)
            after == PutFile(card, norm, bytes)
            file  == FileNode(norm, bytes)
<1>1. key \in Path /\ Len(key) = Len(norm)
  BY UpperLemma
<1>2. \A k \in above : k \in Path /\ k # key /\ Len(k) \in 1..Len(key) - 1
  <2>. HIDE DEF key
  <2>. QED BY <1>1, AboveLemma
<1>3. after = Put(grown, key, file)
  BY DEF PutFile
<1>4. \A k \in above : MkNode(SubSeq(norm, 1, Len(k)), TRUE) \in Node
  <2>. SUFFICES ASSUME NEW k \in above
                PROVE  MkNode(SubSeq(norm, 1, Len(k)), TRUE) \in Node
    OBVIOUS
  <2>1. Len(k) \in 0..Len(norm)
    <3>1. Len(norm) \in Nat
      BY DEF Path
    <3>. HIDE DEF key, above
    <3>. QED BY <1>1, <1>2, <3>1
  <2>2. SubSeq(norm, 1, Len(k)) \in Path
    BY <2>1, PrefixLemma
  <2>. QED BY <2>2, MkNodeTyped
<1>5. file \in Node
  BY FileNodeTyped
<1>. HIDE DEF key, above, file
<1>6. /\ IsCard(grown)
      /\ DOMAIN grown = DOMAIN card \cup above
      /\ \A k \in DOMAIN card : grown[k] = card[k]
      /\ \A k \in above \ DOMAIN card : grown[k] = MkNode(SubSeq(norm, 1, Len(k)), TRUE)
  <2>1. grown = [k \in DOMAIN card \cup above |->
                   IF k \in DOMAIN card THEN card[k]
                   ELSE MkNode(SubSeq(norm, 1, Len(k)), TRUE)]
    BY <1>1 DEF WithParents, Above, above, key
  <2>. HIDE DEF grown
  <2>. QED BY <1>2, <1>4, <2>1 DEF IsCard
<1>. HIDE DEF grown, after
<1>7. /\ IsCard(after) /\ DOMAIN after = DOMAIN grown \cup {key}
      /\ after[key] = file
      /\ \A x \in DOMAIN grown \ {key} : after[x] = grown[x]
  <2>1. IsCard(grown) /\ key \in Path /\ file \in Node
    BY <1>1, <1>5, <1>6
  <2>2. /\ IsCard(Put(grown, key, file))
        /\ DOMAIN Put(grown, key, file) = DOMAIN grown \cup {key}
        /\ Put(grown, key, file)[key] = file
        /\ \A k \in DOMAIN grown \ {key} : Put(grown, key, file)[k] = grown[k]
    BY <2>1, PutLemma, Zenon
  <2>. QED BY <1>3, <2>2
<1>. QED BY <1>2, <1>6, <1>7 DEF HasPut, key, above, after, file

-----------------------------------------------------------------------------
(* Seeded cards.                                                           *)

\* What is true of the card from the first seed until the machine starts.
Seeded(card) ==
  /\ IsCard(card)
  /\ IsFiniteSet(DOMAIN card)
  /\ DOMAIN FreshCard \subseteq DOMAIN card
  /\ \A k \in DOMAIN card, d \in Path : Below(d, k) => d \in DOMAIN card
  /\ \A k \in DOMAIN card \ {Root} : Named(card[k], k)
  /\ \A k \in Files(card) : k # Root /\ k[1] = PSP

\* It holds the files given: each at its key as it was given, no other, and
\* the directories are the standard ones and those above the files.
SeedFile == [path : Path, bytes : Seq(Nat)]

Holds(card, files) ==
  /\ files \subseteq SeedFile
  /\ \A f \in files : /\ UpperKey(f.path) \in Files(card)
                      /\ card[UpperKey(f.path)] = FileNode(f.path, f.bytes)
  /\ \A k \in Files(card) : \E f \in files : UpperKey(f.path) = k
  /\ \A k \in DOMAIN card \ Files(card) :
       k \in DOMAIN FreshCard \/ \E f \in files : Below(k, UpperKey(f.path))

\* The folder of a zip's kind: below PSP.
BelowPSP(under) == under \in Path /\ Len(under) >= 1 /\ under[1] = PSP

LEMMA FoldersBelowPSP == BelowPSP(SavesUnder) /\ BelowPSP(DlcUnder)
<1>1. \A under \in {SavesUnder, DlcUnder} :
        under \in Path /\ Len(under) = 2 /\ under[1] = PSP
  BY ExchangeAssumption, StandardAssumption
<1>. QED BY <1>1 DEF BelowPSP

\* The card the constructor makes is a seeded one, without any file.
LEMMA FreshSeeded == Seeded(FreshCard) /\ Holds(FreshCard, {})
<1>1. IsCard(FreshCard) /\ DOMAIN FreshCard = StandardDirs \cup {Root}
      /\ \A k \in DOMAIN FreshCard : FreshCard[k].isDirectory
  BY FreshCardTyped
<1>2. IsFiniteSet(DOMAIN FreshCard)
  BY <1>1, StandardAssumption, FS_AddElement
<1>3. ASSUME NEW k \in DOMAIN FreshCard, NEW d \in Path, Below(d, k)
      PROVE  d \in DOMAIN FreshCard
  <2>1. k \in StandardDirs
    BY <1>1, <1>3, EmptySeq DEF Below, Root, Path
  <2>2. k \in Path
    BY <2>1, StandardAssumption
  <2>3. d \in Above(k)
    BY <1>3, <2>2, BelowIsAbove
  <2>. QED BY <1>1, <2>1, <2>3, StandardAssumption DEF Above
<1>4. ASSUME NEW k \in StandardDirs
      PROVE  Named(FreshCard[k], k)
  <2>1. k \in Path /\ UpperKey(k) = k /\ k # Root
    BY StandardAssumption
  <2>2. Named(MkNode(k, TRUE), UpperKey(k))
    BY <2>1, MkNodeNamed
  <2>. QED BY <2>1, <2>2 DEF FreshCard
<1>. QED BY <1>1, <1>2, <1>3, <1>4 DEF Seeded, Holds, Files

\* A zip begins on a card with the standard tree.
LEMMA StandardSeeded ==
  ASSUME NEW card, NEW files,
         \/ DOMAIN card = {} /\ files = {}
         \/ Seeded(card) /\ Holds(card, files)
  PROVE  Seeded(EnsureStandardTree(card)) /\ Holds(EnsureStandardTree(card), files)
<1>1. CASE DOMAIN card = {} /\ files = {}
  <2>1. EnsureStandardTree(card) = FreshCard
    BY <1>1, FreshCardTyped DEF EnsureStandardTree, IsCard
  <2>. QED BY <1>1, <2>1, FreshSeeded
<1>2. CASE Seeded(card) /\ Holds(card, files)
  <2>1. DOMAIN FreshCard \subseteq DOMAIN card /\ card = [k \in DOMAIN card |-> card[k]]
    BY <1>2 DEF Seeded, IsCard
  <2>2. EnsureStandardTree(card) = card
    BY <2>1 DEF EnsureStandardTree
  <2>. QED BY <1>2, <2>2
<1>. QED BY <1>1, <1>2

\* What is in front stays there, and with it the first component.
FirstIsPSP(norm) == norm \in Path /\ Len(norm) >= 1 /\ UpperKey(norm)[1] = PSP

LEMMA FrontStays ==
  ASSUME NEW p \in Path, NEW r \in Seq(Name \cup {Dot}),
         Len(p) >= 1, Upper[p[1]] = PSP
  PROVE  FirstIsPSP(Normalize(p \o r))
<1>. DEFINE norm == Normalize(p \o r)
<1>1. /\ norm \in Path
      /\ Len(norm) >= Len(p)
      /\ \A i \in 1..Len(p) : norm[i] = p[i]
  BY NormalizeKeepsFront
<1>. HIDE DEF norm
<1>2. Len(p) \in Nat /\ Len(norm) \in Nat
  BY <1>1 DEF Path
<1>3. 1 \in 1..Len(p) /\ 1 \in 1..Len(norm)
  BY <1>1, <1>2
<1>4. UpperKey(norm)[1] = Upper[norm[1]]
  BY <1>1, <1>3, UpperLemma
<1>. QED BY <1>1, <1>2, <1>3, <1>4 DEF norm, FirstIsPSP

\* Where an entry that does not climb goes: below PSP.
LEMMA EntryStays ==
  ASSUME NEW e \in Entry, ~Climbs(e), NEW under, BelowPSP(under)
  PROVE  FirstIsPSP(Target(e, under))
<1>. DEFINE raw  == IF OnStick(e) THEN e.path ELSE under \o e.path
            path == e.path
<1>. SUFFICES FirstIsPSP(Normalize(raw))
  BY DEF Target
<1>1. path \in Seq(RawName) /\ Len(path) \in Nat
  BY DEF Entry
<1>2. path \in Seq(Name \cup {Dot})
  <2>1. \A i \in 1..Len(path) : path[i] \in Name \cup {Dot}
    BY <1>1 DEF Climbs, RawName
  <2>. HIDE DEF path
  <2>2. SubSeq(path, 1, Len(path)) \in Seq(Name \cup {Dot})
    <3>. DEFINE n == Len(path)
    <3>1. n \in Int /\ 1 \in Int /\ \A i \in 1..n : path[i] \in Name \cup {Dot}
      BY <1>1, <2>1
    <3>. HIDE DEF n
    <3>2. SubSeq(path, 1, n) \in Seq(Name \cup {Dot})
      BY <3>1, SubSeqProperties
    <3>. QED BY <3>2 DEF n
  <2>. QED BY <1>1, <2>2, SubSeqFull
<1>3. CASE OnStick(e)
  <2>. DEFINE p == SubSeq(path, 1, 1)
              r == SubSeq(path, 2, Len(path))
  <2>1. Len(path) > 1 /\ path[1] \in Name /\ Upper[path[1]] = PSP /\ raw = path
    BY <1>3 DEF OnStick
  <2>. HIDE DEF path, raw
  <2>2. p \in Path /\ Len(p) = 1 /\ p[1] = path[1]
    <3>1. \A i \in 1..1 : path[i] \in Name
      BY <2>1
    <3>. QED BY <3>1, SubSeqProperties DEF Path
  <2>3. r \in Seq(Name \cup {Dot})
    <3>. DEFINE n == Len(path)
    <3>1. n \in Int /\ 2 \in Int /\ \A i \in 2..n : path[i] \in Name \cup {Dot}
      BY <1>1, <1>2
    <3>. HIDE DEF n
    <3>2. SubSeq(path, 2, n) \in Seq(Name \cup {Dot})
      BY <3>1, SubSeqProperties
    <3>. QED BY <3>2 DEF n
  <2>4. raw = p \o r
    <3>. DEFINE n == Len(path)
    <3>1. n \in Nat /\ n > 1
      BY <1>1, <2>1
    <3>. HIDE DEF n
    <3>2. 1 \in 1..n + 1 /\ 1 \in (1 - 1)..n /\ n \in 1..n /\ 2 = 1 + 1
      BY <3>1
    <3>3. SubSeq(path, 1, 1) \o SubSeq(path, 1 + 1, n) = SubSeq(path, 1, n)
      BY <1>1, <3>2, ConcatAdjacentSubSeq, Zenon DEF n
    <3>4. p \o r = SubSeq(path, 1, Len(path))
      BY <3>2, <3>3 DEF n
    <3>5. SubSeq(path, 1, Len(path)) = path
      BY <1>1, SubSeqFull
    <3>. HIDE DEF p, r
    <3>. QED BY <2>1, <3>4, <3>5
  <2>5. Len(p) >= 1 /\ Upper[p[1]] = PSP
    BY <2>1, <2>2
  <2>. HIDE DEF p, r
  <2>6. FirstIsPSP(Normalize(p \o r))
    BY <2>2, <2>3, <2>5, FrontStays, Zenon
  <2>7. FirstIsPSP(Normalize(raw))
    BY <2>4, <2>6
  <2>. QED BY <2>7 DEF raw, path
<1>4. CASE ~OnStick(e)
  <2>1. raw = under \o path
    BY <1>4
  <2>2. under \in Path /\ Len(under) >= 1 /\ Upper[under[1]] = PSP
    <3>1. Upper[PSP] = PSP
      BY ExchangeAssumption
    <3>. QED BY <3>1 DEF BelowPSP
  <2>. HIDE DEF path, raw
  <2>3. FirstIsPSP(Normalize(under \o path))
    BY <1>2, <2>2, FrontStays, Zenon
  <2>4. FirstIsPSP(Normalize(raw))
    BY <2>1, <2>3
  <2>. QED BY <2>4 DEF raw, path
<1>. QED BY <1>3, <1>4

\* A file keeps the card a seeded one, wherever it goes.
LEMMA PutSeeded ==
  ASSUME NEW card, Seeded(card), NEW norm, FirstIsPSP(norm), NEW bytes \in Seq(Nat)
  PROVE  Seeded(PutFile(card, norm, bytes))
<1>. DEFINE key   == UpperKey(norm)
            after == PutFile(card, norm, bytes)
<1>1. IsCard(card) /\ IsFiniteSet(DOMAIN card) /\ DOMAIN FreshCard \subseteq DOMAIN card
  BY DEF Seeded
<1>2. /\ norm \in Path /\ Len(norm) \in Nat
      /\ key \in Path /\ Len(key) = Len(norm) /\ Len(key) >= 1 /\ key[1] = PSP
  BY UpperLemma DEF Path, FirstIsPSP
<1>3. /\ IsCard(after)
      /\ DOMAIN after = DOMAIN card \cup Above(key) \cup {key}
      /\ after[key] = FileNode(norm, bytes)
      /\ \A k \in DOMAIN card \ {key} : after[k] = card[k]
      /\ \A k \in Above(key) \ DOMAIN card :
           k # key /\ after[k] = MkNode(SubSeq(norm, 1, Len(k)), TRUE)
  <2>1. HasPut(after, card, norm, bytes)
    BY <1>1, <1>2, PutFileLemma
  <2>. HIDE DEF after
  <2>. QED BY <2>1 DEF HasPut
<1>. HIDE DEF after
<1>5. \A k \in Above(key) : /\ k \in Path /\ Len(k) \in 1..Len(key) - 1
                            /\ k = SubSeq(key, 1, Len(k)) /\ k # key /\ Below(k, key)
  <2>. HIDE DEF key
  <2>. QED BY <1>2, AboveLemma
<1>7. \A k \in Above(key) : k \in DOMAIN after /\ (k \notin DOMAIN card => after[k].isDirectory)
  BY <1>3 DEF MkNode
<1>8. IsFiniteSet(DOMAIN after)
  <2>. DEFINE n == Len(key) - 1
              F == [i \in 1..n |-> SubSeq(key, 1, i)]
  <2>1. F \in Surjection(1..n, Above(key))
    BY DEF Surjection, Above
  <2>2. n \in Int
    BY <1>2
  <2>3. IsFiniteSet(1..n)
    <3>. HIDE DEF n
    <3>. QED BY <2>2, FS_Interval
  <2>4. IsFiniteSet(Above(key))
    <3>. HIDE DEF n, F
    <3>. QED BY <2>1, <2>3, FS_Surjection
  <2>5. IsFiniteSet(DOMAIN card \cup Above(key))
    BY <1>1, <2>4, FS_Union
  <2>. QED BY <1>3, <2>5, FS_AddElement
<1>9. DOMAIN FreshCard \subseteq DOMAIN after
  BY <1>1, <1>3
<1>10. ASSUME NEW k \in DOMAIN after, NEW d \in Path, Below(d, k)
       PROVE  d \in DOMAIN after
  <2>1. CASE k \in DOMAIN card
    BY <1>3, <1>10, <2>1 DEF Seeded
  <2>2. ASSUME Below(d, key)
        PROVE  d \in DOMAIN after
    BY <1>2, <1>7, <2>2, BelowIsAbove
  <2>3. CASE k \in Above(key)
    <3>1. k \in Path /\ Below(k, key) /\ Under(d, k) /\ d # Root
      BY <1>5, <1>10, <2>3 DEF Under, Below
    <3>2. Below(d, key)
      <4>. HIDE DEF key
      <4>. QED BY <1>2, <3>1, UnderTransitive
    <3>. QED BY <2>2, <3>2
  <2>. QED BY <1>3, <1>10, <2>1, <2>2, <2>3
<1>11. ASSUME NEW k \in DOMAIN after \ {Root}
       PROVE  Named(after[k], k)
  <2>1. CASE k = key
    <3>1. Named(MkNode(norm, FALSE), key)
      BY <1>2, <1>11, <2>1, MkNodeNamed
    <3>2. /\ FileNode(norm, bytes).displayPath = MkNode(norm, FALSE).displayPath
          /\ FileNode(norm, bytes).displayName = MkNode(norm, FALSE).displayName
      BY <1>2, FileNodeTyped DEF MkNode
    <3>. QED BY <1>3, <2>1, <3>1, <3>2 DEF Named
  <2>2. CASE k \in DOMAIN card /\ k # key
    BY <1>3, <1>11, <2>2 DEF Seeded
  <2>3. CASE k \in Above(key) \ DOMAIN card
    <3>. DEFINE dir == SubSeq(norm, 1, Len(k))
    <3>1. Len(k) \in 0..Len(norm)
      <4>. DEFINE n == Len(k)
                  m == Len(norm)
      <4>1. m \in Nat /\ n \in 1..m - 1
        BY <1>2, <1>5, <2>3
      <4>. HIDE DEF n, m
      <4>2. n \in 0..m
        BY <4>1
      <4>. QED BY <4>2 DEF n, m
    <3>2. dir \in Path /\ UpperKey(dir) = k
      BY <1>2, <1>5, <2>3, <3>1, PrefixLemma, UpperOfPrefix
    <3>3. Named(MkNode(dir, TRUE), UpperKey(dir))
      <4>. HIDE DEF dir
      <4>. QED BY <1>11, <3>2, MkNodeNamed
    <3>. QED BY <1>3, <2>3, <3>2, <3>3
  <2>. QED BY <1>3, <1>11, <2>1, <2>2, <2>3
<1>12. ASSUME NEW k \in Files(after)
       PROVE  k # Root /\ k[1] = PSP
  <2>1. k = key \/ k \in Files(card)
    <3>1. k \in DOMAIN after /\ ~after[k].isDirectory
      BY DEF Files
    <3>. QED BY <1>3, <1>7, <3>1 DEF Files
  <2>2. key # Root
    BY <1>2, EmptySeq DEF Root
  <2>. QED BY <1>2, <2>1, <2>2 DEF Seeded
<1>. HIDE DEF key
<1>. QED BY <1>3, <1>8, <1>9, <1>10, <1>11, <1>12 DEF Seeded, after

\* What a card holds once a file is put on it: the file, and the others but the
\* one that had its key.
LEMMA PutHolds ==
  ASSUME NEW card, IsCard(card), NEW files, Holds(card, files),
         NEW norm \in Path, NEW bytes \in Seq(Nat)
  PROVE  Holds(PutFile(card, norm, bytes), Over({[path |-> norm, bytes |-> bytes]}, files))
<1>. DEFINE key   == UpperKey(norm)
            after == PutFile(card, norm, bytes)
            file  == [path |-> norm, bytes |-> bytes]
            all   == Over({file}, files)
<1>1. HasPut(after, card, norm, bytes)
  BY PutFileLemma
<1>2. ~FileNode(norm, bytes).isDirectory
  BY FileNodeTyped
<1>3. key \in Path /\ \A k \in Above(key) : Below(k, key)
  <2>1. key \in Path
    BY UpperLemma
  <2>. HIDE DEF key
  <2>. QED BY <2>1, AboveLemma
<1>4. file \in SeedFile /\ file.path = norm /\ file.bytes = bytes
  BY DEF SeedFile
<1>. HIDE DEF after, file
<1>5. \A f : f \in all <=> f = file \/ (f \in files /\ UpperKey(f.path) # key)
  BY <1>4 DEF Over, SameKey
<1>. HIDE DEF all
<1>6. /\ DOMAIN after = DOMAIN card \cup Above(key) \cup {key}
      /\ after[key] = FileNode(norm, bytes)
      /\ \A k \in DOMAIN card \ {key} : after[k] = card[k]
      /\ \A k \in Above(key) \ DOMAIN card : k # key /\ after[k].isDirectory
  BY <1>1 DEF HasPut, MkNode
<1>. HIDE DEF key
<1>7. Files(after) = (Files(card) \ {key}) \cup {key}
  BY <1>2, <1>6 DEF Files
<1>8. all \subseteq SeedFile
  BY <1>4, <1>5 DEF Holds
<1>9. ASSUME NEW f \in all
      PROVE  /\ UpperKey(f.path) \in Files(after)
             /\ after[UpperKey(f.path)] = FileNode(f.path, f.bytes)
  <2>1. CASE f = file
    BY <1>4, <1>6, <1>7, <2>1 DEF key
  <2>2. CASE f \in files /\ UpperKey(f.path) # key
    BY <1>6, <1>7, <2>2 DEF Holds, Files
  <2>. QED BY <1>5, <2>1, <2>2
<1>10. ASSUME NEW k \in Files(after)
       PROVE  \E f \in all : UpperKey(f.path) = k
  <2>1. CASE k = key
    BY <1>4, <1>5, <2>1 DEF key
  <2>2. CASE k \in Files(card) /\ k # key
    BY <1>5, <2>2 DEF Holds
  <2>. QED BY <1>7, <2>1, <2>2
<1>11. ASSUME NEW k \in DOMAIN after \ Files(after)
       PROVE  k \in DOMAIN FreshCard \/ \E f \in all : Below(k, UpperKey(f.path))
  <2>1. file \in all /\ UpperKey(file.path) = key
    BY <1>4, <1>5 DEF key
  <2>2. k \in (DOMAIN card \ Files(card)) \cup Above(key)
    BY <1>6, <1>7
  <2>3. CASE k \in Above(key)
    BY <1>3, <2>1, <2>3
  <2>4. CASE k \in DOMAIN card \ Files(card) /\ k \notin DOMAIN FreshCard
    <3>1. PICK f \in files : Below(k, UpperKey(f.path))
      BY <2>4 DEF Holds
    <3>. QED BY <1>5, <2>1, <3>1
  <2>. QED BY <2>2, <2>3, <2>4
<1>12. Holds(after, all)
  BY <1>8, <1>9, <1>10, <1>11 DEF Holds
<1>. QED BY <1>12 DEF after, all, file

-----------------------------------------------------------------------------
(* The walk over a zip.                                                    *)

Cards == UNION {[D -> Node] : D \in SUBSET Path}
Acc   == [card : Cards, ok : BOOLEAN, files : Nat]

LEMMA CardsLemma == \A c : c \in Cards <=> IsCard(c)
<1>1. ASSUME NEW c \in Cards PROVE IsCard(c)
  BY DEF Cards, IsCard
<1>2. ASSUME NEW c, IsCard(c) PROVE c \in Cards
  <2>1. c \in [DOMAIN c -> Node] /\ DOMAIN c \in SUBSET Path
    BY <1>2 DEF IsCard
  <2>. QED BY <2>1 DEF Cards
<1>. QED BY <1>1, <1>2

LEMMA StandardTyped ==
  ASSUME NEW card, IsCard(card)
  PROVE  IsCard(EnsureStandardTree(card))
BY FreshCardTyped DEF IsCard, EnsureStandardTree

LEMMA SeedEntryTyped ==
  ASSUME NEW acc \in Acc, NEW e \in Entry, NEW under \in Path
  PROVE  SeedEntry(acc, e, under) \in Acc
<1>. DEFINE raw  == IF OnStick(e) THEN e.path ELSE under \o e.path
            norm == Normalize(raw)
            card == PutFile(acc.card, norm, e.bytes)
            files == acc.files + 1
<1>1. raw \in Seq(RawName)
  <2>. DEFINE path == e.path
  <2>1. path \in Seq(RawName) /\ under \in Seq(RawName)
    BY PathIsRaw DEF Entry
  <2>2. under \o path \in Seq(RawName)
    <3>. HIDE DEF path
    <3>. QED BY <2>1, ConcatProperties
  <2>. QED BY <2>1, <2>2
<1>2. norm \in Path
  <2>. HIDE DEF raw
  <2>. QED BY <1>1, NormalizeTyped
<1>3. card \in Cards
  <2>. HIDE DEF norm
  <2>1. IsCard(acc.card) /\ e.bytes \in Seq(Nat)
    BY CardsLemma DEF Acc, Entry
  <2>2. HasPut(card, acc.card, norm, e.bytes)
    BY <1>2, <2>1, PutFileLemma
  <2>. QED BY <2>2, CardsLemma DEF HasPut
<1>4. SeedEntry(acc, e, under) =
        IF ~acc.ok \/ e.directory THEN acc
        ELSE IF Climbs(e) \/ e.spoiled THEN [acc EXCEPT !.ok = FALSE]
        ELSE [acc EXCEPT !.card = card, !.files = files]
  BY DEF SeedEntry, Target
<1>5. files \in Nat
  BY DEF Acc
<1>. HIDE DEF card, norm, files
<1>6. [acc EXCEPT !.card = card, !.files = files] \in Acc
  BY <1>3, <1>5 DEF Acc
<1>7. [acc EXCEPT !.ok = FALSE] \in Acc
  BY DEF Acc
<1>. QED BY <1>4, <1>6, <1>7

\* One entry keeps the card a seeded one, and what it holds goes on by the file
\* the entry brings.
EntryFile(e, under) == [path |-> Target(e, under), bytes |-> e.bytes]

LEMMA SeedEntryKeeps ==
  ASSUME NEW acc \in Acc, NEW e \in Entry, NEW under, BelowPSP(under),
         Seeded(acc.card), NEW files, acc.ok => Holds(acc.card, files)
  PROVE  LET after == SeedEntry(acc, e, under)
         IN  /\ Seeded(after.card)
             /\ after.ok => Holds(after.card, IF e.directory THEN files
                                              ELSE Over({EntryFile(e, under)}, files))
<1>. DEFINE norm == Target(e, under)
            card == PutFile(acc.card, norm, e.bytes)
            after == SeedEntry(acc, e, under)
            now == IF e.directory THEN files ELSE Over({EntryFile(e, under)}, files)
<1>. HIDE DEF now
<1>. SUFFICES Seeded(after.card) /\ (after.ok => Holds(after.card, now))
  BY DEF now
<1>1. CASE acc.ok /\ e.directory
  <2>1. after = acc /\ now = files
    BY <1>1 DEF SeedEntry, now
  <2>. HIDE DEF after
  <2>. QED BY <1>1, <2>1
<1>2. CASE ~acc.ok
  <2>1. after = acc
    BY <1>2 DEF SeedEntry
  <2>. HIDE DEF after
  <2>. QED BY <1>2, <2>1
<1>3. CASE acc.ok /\ ~e.directory /\ (Climbs(e) \/ e.spoiled)
  <2>1. after = [acc EXCEPT !.ok = FALSE]
    BY <1>3 DEF SeedEntry
  <2>. HIDE DEF after
  <2>2. after.card = acc.card /\ ~after.ok
    BY <2>1 DEF Acc
  <2>. QED BY <2>2
<1>4. CASE acc.ok /\ ~e.directory /\ ~(Climbs(e) \/ e.spoiled)
  <2>1. after = [acc EXCEPT !.card = card, !.files = acc.files + 1]
    BY <1>4 DEF SeedEntry
  <2>2. after.card = card
    <3>. HIDE DEF card, after
    <3>. QED BY <2>1 DEF Acc
  <2>3. FirstIsPSP(norm)
    BY <1>4, EntryStays
  <2>4. e.bytes \in Seq(Nat) /\ norm \in Path /\ IsCard(acc.card)
    BY <2>3 DEF Entry, FirstIsPSP, Seeded
  <2>5. now = Over({[path |-> norm, bytes |-> e.bytes]}, files)
    BY <1>4 DEF now, EntryFile
  <2>. HIDE DEF norm, after
  <2>6. Seeded(card)
    BY <2>3, <2>4, PutSeeded
  <2>7. Holds(card, now)
    BY <1>4, <2>4, <2>5, PutHolds
  <2>. QED BY <2>2, <2>6, <2>7
<1>. QED BY <1>1, <1>2, <1>3, <1>4

Started(card) ==
  [card |-> EnsureStandardTree(card), ok |-> TRUE, files |-> 0]

\* What SeedZip does, entry by entry.
SeedWalk(acc, card, zip, under) ==
  /\ \A i \in 0..Len(zip) : acc[i] \in Acc
  /\ acc[0] = Started(card)
  /\ \A i \in 1..Len(zip) : acc[i] = SeedEntry(acc[i - 1], zip[i], under)

SeedEnd(last) == [last EXCEPT !.ok = @ /\ last.files > 0]

LEMMA SeedZipWalks ==
  ASSUME NEW card, IsCard(card), NEW zip \in Seq(Entry), NEW under \in Path
  PROVE  \E acc : /\ SeedWalk(acc, card, zip, under)
                  /\ SeedZip(card, zip, under) = SeedEnd(acc[Len(zip)])
<1>. DEFINE n == Len(zip)
            start == Started(card)
            F == [i \in Nat |-> [a \in Acc |->
                    IF i \in 1..n THEN SeedEntry(a, zip[i], under) ELSE a]]
            Step(w) == [i \in 0..n |-> IF i = 0 THEN start
                                       ELSE SeedEntry(w[i - 1], zip[i], under)]
<1>1. n \in Nat /\ \A i \in 1..n : zip[i] \in Entry
  OBVIOUS
<1>2. F \in [Nat -> [Acc -> Acc]]
  BY <1>1, SeedEntryTyped
<1>3. start \in Acc
  <2>1. EnsureStandardTree(card) \in Cards
    BY StandardTyped, CardsLemma
  <2>. QED BY <2>1 DEF Started, Acc
<1>4. \E w : Steps(w, Acc, start, F, n)
  <2>1. n \in Nat
    BY <1>1
  <2>. HIDE DEF F, n, Step, start
  <2>. QED BY <1>2, <1>3, <2>1, Recursion
<1>. HIDE DEF start
<1>5. PICK w : w \in [0..n -> Acc] /\ w[0] = start /\ \A i \in 1..n : w[i] = F[i][w[i - 1]]
  BY <1>4 DEF Steps
<1>6. \A i \in 1..n : w[i] = SeedEntry(w[i - 1], zip[i], under)
  BY <1>1, <1>5
<1>7. w = Step(w)
  BY <1>1, <1>5, <1>6
<1>. DEFINE chosen == CHOOSE walk : walk = Step(walk)
<1>8. SeedZip(card, zip, under) = SeedEnd(chosen[n])
  BY DEF SeedZip, SeedEnd, Started, start
<1>9. chosen = Step(chosen)
  <2>. HIDE DEF Step
  <2>. QED BY <1>7, Zenon
<1>10. \E v : v = Step(v) /\ SeedZip(card, zip, under) = SeedEnd(v[n])
  <2>. HIDE DEF chosen, Step
  <2>. QED BY <1>8, <1>9
<1>11. PICK v : v = Step(v) /\ SeedZip(card, zip, under) = SeedEnd(v[n])
  BY <1>10
<1>. HIDE DEF chosen
<1>12. v[0] = start /\ \A i \in 1..n : v[i] = SeedEntry(v[i - 1], zip[i], under)
  <2>. HIDE DEF n
  <2>. QED BY <1>1, <1>11
<1>. DEFINE Typed == {i \in 0..n : v[i] \in Acc}
<1>13. 0 \in Typed /\ \A i \in 0..n : i \in Typed /\ i < n => i + 1 \in Typed
  <2>. HIDE DEF n, Step, F
  <2>1. 0 \in 0..n /\ \A i \in 0..n : i < n => i + 1 \in 1..n /\ i + 1 \in 0..n /\ (i + 1) - 1 = i
    BY <1>1
  <2>2. ASSUME NEW i \in 0..n, v[i] \in Acc, i < n PROVE v[i + 1] \in Acc
    <3>1. v[i + 1] = SeedEntry(v[i], zip[i + 1], under) /\ zip[i + 1] \in Entry
      BY <1>1, <1>12, <2>1, <2>2
    <3>. QED BY <2>2, <3>1, SeedEntryTyped
  <2>. QED BY <1>3, <1>12, <2>1, <2>2
<1>14. \A i \in 0..n : v[i] \in Acc
  <2>. HIDE DEF n
  <2>1. \A i \in 0..n : i \in Typed
    <3>. HIDE DEF Typed
    <3>. QED BY <1>1, <1>13, Counting
  <2>. QED BY <2>1
<1>. HIDE DEF Step, Typed
<1>15. SeedWalk(v, card, zip, under)
  BY <1>12, <1>14 DEF SeedWalk, start
<1>. QED BY <1>11, <1>15

\* What the first n entries of a zip bring.
GivenOf(zip, n, under) ==
  LET files == {i \in 1..n : ~zip[i].directory}
  IN  {EntryFile(zip[i], under) : i \in {i \in files :
         \A j \in files : j > i => ~SameKey(EntryFile(zip[j], under), EntryFile(zip[i], under))}}

LEMMA GivenOfAll ==
  ASSUME NEW zip \in Seq(Entry), NEW under
  PROVE  GivenBy(zip, under) = GivenOf(zip, Len(zip), under)
<1>. DEFINE F(i) == [path |-> Target(zip[i], under), bytes |-> zip[i].bytes]
            files == {i \in DOMAIN zip : ~zip[i].directory}
<1>1. GivenBy(zip, under) = {F(i) : i \in {i \in files : \A j \in files : j > i => ~SameKey(F(j), F(i))}}
  BY DEF GivenBy
<1>2. files = {i \in 1..Len(zip) : ~zip[i].directory}
  OBVIOUS
<1>. QED BY <1>1, <1>2 DEF GivenOf, EntryFile

LEMMA GivenStep ==
  ASSUME NEW zip, NEW n \in Nat, NEW under
  PROVE  LET e == zip[n + 1]
         IN  GivenOf(zip, n + 1, under) =
               IF e.directory THEN GivenOf(zip, n, under)
               ELSE Over({EntryFile(e, under)}, GivenOf(zip, n, under))
<1>. DEFINE F(i) == EntryFile(zip[i], under)
            files(m) == {i \in 1..m : ~zip[i].directory}
            last(m) == {i \in files(m) : \A j \in files(m) : j > i => ~SameKey(F(j), F(i))}
<1>1. \A m : GivenOf(zip, m, under) = {F(i) : i \in last(m)}
  BY DEF GivenOf
<1>. HIDE DEF F
<1>2. CASE zip[n + 1].directory
  <2>1. files(n + 1) = files(n)
    BY <1>2
  <2>. QED BY <1>1, <1>2, <2>1
<1>3. CASE ~zip[n + 1].directory
  <2>1. files(n + 1) = files(n) \cup {n + 1} /\ \A i \in files(n) : i \in 1..n
    BY <1>3
  <2>2. last(n + 1) = {i \in last(n) : ~SameKey(F(n + 1), F(i))} \cup {n + 1}
    BY <2>1
  <2>3. {F(i) : i \in last(n + 1)} = Over({F(n + 1)}, {F(i) : i \in last(n)})
    <3>. DEFINE f == F(n + 1)
                old == {F(i) : i \in last(n)}
    <3>1. \A x : x \in old <=> \E i \in last(n) : x = F(i)
      OBVIOUS
    <3>2. \A x : x \in {F(i) : i \in last(n + 1)} <=>
                   x = f \/ \E i \in last(n) : x = F(i) /\ ~SameKey(f, F(i))
      <4>. HIDE DEF last
      <4>. QED BY <2>2
    <3>3. \A x : SameKey(f, x) <=> SameKey(x, f)
      BY DEF SameKey
    <3>. HIDE DEF old, f, last
    <3>4. \A x : x \in Over({f}, old) <=> x = f \/ (x \in old /\ ~SameKey(x, f))
      BY DEF Over
    <3>5. \A x : x \in {F(i) : i \in last(n + 1)} <=> x \in Over({f}, old)
      BY <3>1, <3>2, <3>3, <3>4
    <3>6. {F(i) : i \in last(n + 1)} = Over({f}, old)
      BY <3>5
    <3>. QED BY <3>6 DEF old, f
  <2>. QED BY <1>1, <1>3, <2>3 DEF F
<1>. QED BY <1>2, <1>3

LEMMA OverOver ==
  ASSUME NEW S, NEW A, NEW B
  PROVE  Over(Over(S, A), B) = Over(S, Over(A, B))
<1>. DEFINE K(g) == UpperKey(g.path)
<1>1. \A g, h : SameKey(g, h) <=> K(g) = K(h)
  BY DEF SameKey
<1>. HIDE DEF K
<1>2. \A T, U, x : x \in Over(T, U) <=> x \in T \/ (x \in U /\ \A g \in T : K(g) # K(x))
  BY <1>1 DEF Over
<1>3. \A x : x \in Over(Over(S, A), B) <=> x \in Over(S, Over(A, B))
  BY <1>2
<1>. QED BY <1>3

\* A zip leaves a seeded card, whether it is taken or refused half way; if it is
\* taken the card holds what it brings, over what was there.
LEMMA SeedZipSeeded ==
  ASSUME NEW card, IsCard(card), NEW files,
         \/ DOMAIN card = {} /\ files = {}
         \/ Seeded(card) /\ Holds(card, files),
         NEW zip \in Seq(Entry), NEW under, BelowPSP(under)
  PROVE  LET result == SeedZip(card, zip, under)
         IN  /\ Seeded(result.card)
             /\ result.ok => Holds(result.card, Over(GivenBy(zip, under), files))
<1>1. PICK acc : /\ SeedWalk(acc, card, zip, under)
                 /\ SeedZip(card, zip, under) = SeedEnd(acc[Len(zip)])
  BY SeedZipWalks DEF BelowPSP
<1>. DEFINE n == Len(zip)
            so(i) == Over(GivenOf(zip, i, under), files)
            T == {i \in 0..n : /\ Seeded(acc[i].card)
                               /\ acc[i].ok => Holds(acc[i].card, so(i))}
<1>2. n \in Nat /\ \A i \in 1..n : zip[i] \in Entry
  OBVIOUS
<1>3. 0 \in T
  <2>1. 0 \in 0..n /\ acc[0].card = EnsureStandardTree(card)
    BY <1>1, <1>2 DEF SeedWalk, Started
  <2>2. so(0) = files
    BY DEF Over, GivenOf
  <2>3. Seeded(EnsureStandardTree(card)) /\ Holds(EnsureStandardTree(card), files)
    BY StandardSeeded
  <2>. HIDE DEF n, so
  <2>. QED BY <2>1, <2>2, <2>3
<1>4. ASSUME NEW i \in 0..n, i \in T, i < n PROVE i + 1 \in T
  <2>. DEFINE a == acc[i]
              e == zip[i + 1]
              next == IF e.directory THEN so(i) ELSE Over({EntryFile(e, under)}, so(i))
  <2>1. i \in Nat /\ i + 1 \in 1..n /\ i + 1 \in 0..n /\ (i + 1) - 1 = i
    BY <1>2, <1>4
  <2>2. a \in Acc /\ acc[i + 1] = SeedEntry(a, e, under) /\ e \in Entry
    BY <1>1, <1>2, <2>1 DEF SeedWalk
  <2>3. Seeded(a.card) /\ (a.ok => Holds(a.card, so(i)))
    BY <1>4
  <2>4. so(i + 1) = next
    <3>. DEFINE g == GivenOf(zip, i, under)
                f == EntryFile(e, under)
                S == {f}
    <3>1. GivenOf(zip, i + 1, under) = IF e.directory THEN g ELSE Over(S, g)
      BY <2>1, GivenStep
    <3>. HIDE DEF g, f
    <3>. HIDE DEF S
    <3>2. Over(Over(S, g), files) = Over(S, Over(g, files))
      BY OverOver
    <3>. QED BY <3>1, <3>2 DEF g, f, S
  <2>. HIDE DEF a, e, so
  <2>5. Seeded(SeedEntry(a, e, under).card)
        /\ (SeedEntry(a, e, under).ok => Holds(SeedEntry(a, e, under).card, next))
    BY <2>2, <2>3, SeedEntryKeeps
  <2>. HIDE DEF n, next
  <2>. QED BY <2>1, <2>2, <2>4, <2>5
<1>5. Seeded(acc[n].card) /\ (acc[n].ok => Holds(acc[n].card, so(n)))
  <2>1. \A i \in 0..n : i \in T
    <3>. HIDE DEF T, n
    <3>. QED BY <1>2, <1>3, <1>4, Counting
  <2>2. n \in T
    <3>. HIDE DEF T
    <3>. QED BY <1>2, <2>1
  <2>. QED BY <2>2
<1>6. /\ SeedZip(card, zip, under).ok => acc[n].ok
      /\ SeedZip(card, zip, under).card = acc[n].card
  <2>1. acc[n] \in Acc
    BY <1>1, <1>2 DEF SeedWalk
  <2>. HIDE DEF n
  <2>. QED BY <1>1, <2>1 DEF SeedEnd, Acc, n
<1>7. so(n) = Over(GivenBy(zip, under), files)
  BY GivenOfAll
<1>. HIDE DEF n, so
<1>. QED BY <1>5, <1>6, <1>7

-----------------------------------------------------------------------------
(* From the first seed to the running machine.                             *)

\* The card stays finite, so that its files can be counted.
LEMMA FiniteStep ==
  ASSUME TreeRules, StickInv, IsFiniteSet(DOMAIN nodes), [Next]_vars
  PROVE  IsFiniteSet(DOMAIN nodes')
<1>1. ASSUME NEW k \in Path, NEW n, nodes' = Put(nodes, k, n)
      PROVE  IsFiniteSet(DOMAIN nodes')
  <2>1. DOMAIN nodes' = DOMAIN nodes \cup {k}
    BY <1>1 DEF Put
  <2>. QED BY <2>1, FS_AddElement
<1>2. ASSUME NEW K, nodes' = Without(nodes, K)
      PROVE  IsFiniteSet(DOMAIN nodes')
  <2>1. DOMAIN nodes' \in SUBSET DOMAIN nodes
    BY <1>2 DEF Without
  <2>. QED BY <2>1, FS_Subset
<1>3. CASE UNCHANGED vars
  BY <1>3 DEF vars
<1>4. ASSUME NEW h \in DOMAIN open, HandleStep(h)
      PROVE  IsFiniteSet(DOMAIN nodes')
  BY <1>4, HandleLemma
<1>5. CASE PowerCycle
  BY <1>5 DEF PowerCycle, StickInv, Rooted, IsDir
<1>6. ASSUME NEW raw \in RawPath, PathStep(raw)
      PROVE  IsFiniteSet(DOMAIN nodes')
  <2>1. ASSUME NEW access \in OpenMode, OpenFile(raw, access)
        PROVE  IsFiniteSet(DOMAIN nodes')
    <3>. DEFINE norm == Normalize(raw)
    <3>1. nodes' = nodes \/ nodes' = Put(nodes, UpperKey(norm), MkNode(norm, FALSE))
      BY <2>1 DEF OpenFile, Opened
    <3>2. UpperKey(norm) \in Path
      BY NamesTyped
    <3>. QED BY <1>1, <3>1, <3>2
  <2>2. CASE MkDir(raw)
    <3>. DEFINE norm == Normalize(raw)
    <3>1. nodes' = Put(nodes, UpperKey(norm), MkNode(norm, TRUE))
      BY <2>2 DEF MkDir
    <3>2. UpperKey(norm) \in Path
      BY NamesTyped
    <3>. QED BY <1>1, <3>1, <3>2
  <2>3. CASE RmDir(raw) \/ RemoveFile(raw)
    BY <1>2, <2>3, RmDirLemma
  <2>4. ASSUME NEW to \in RawPath, NEW bare \in BOOLEAN, RenameFile(raw, to, bare)
        PROVE  IsFiniteSet(DOMAIN nodes')
    <3>. DEFINE from   == UpperKey(Normalize(raw))
                toNorm == RenameTarget(raw, to, bare)
                norm   == Normalize(toNorm)
                key    == UpperKey(norm)
                name   == LastName(IF bare THEN to ELSE toNorm)
    <3>1. CASE nodes[from].isDirectory
      <4>1. nodes' = Moved(from, key, norm, name)
        BY <2>4, <3>1 DEF RenameFile
      <4>2. DOMAIN nodes' = (DOMAIN nodes \ Moving(from)) \cup Places(from, key)
        BY <4>1 DEF Moved, Moving, Places, Under
      <4>. HIDE DEF from, key
      <4>. DEFINE F == [k \in Moving(from) |-> Rebase(k, from, key)]
      <4>3. F \in Surjection(Moving(from), Places(from, key))
        BY DEF Surjection, Places
      <4>4. IsFiniteSet(Moving(from))
        BY FS_Subset DEF Moving
      <4>5. IsFiniteSet(Places(from, key))
        <5>. HIDE DEF F
        <5>. QED BY <4>3, <4>4, FS_Surjection
      <4>6. IsFiniteSet(DOMAIN nodes \ Moving(from))
        BY FS_Difference
      <4>. QED BY <4>2, <4>5, <4>6, FS_Union
    <3>2. CASE ~nodes[from].isDirectory
      <4>1. nodes' = Put(Without(nodes, {from}), key,
                         [nodes[from] EXCEPT !.displayName = name, !.displayPath = norm])
        BY <2>4, <3>2 DEF RenameFile
      <4>2. DOMAIN nodes' = (DOMAIN nodes \ {from}) \cup {key}
        BY <4>1 DEF Put, Without
      <4>3. IsFiniteSet(DOMAIN nodes \ {from})
        BY FS_RemoveElement
      <4>. QED BY <4>2, <4>3, FS_AddElement
    <3>. QED BY <3>1, <3>2
  <2>. QED BY <1>6, <2>1, <2>2, <2>3, <2>4 DEF PathStep
<1>. QED BY <1>3, <1>4, <1>5, <1>6 DEF Next

\* The seeds of a card agree: the machine starts on it as it would on its own.
LEMMA SeededIsStick ==
  ASSUME SeedsAgree', Seeded(nodes'), Holds(nodes', given'), open' = <<>>, lastHandle' = 0
  PROVE  NameInv'
<1>1. IsCard(nodes') /\ DOMAIN FreshCard \subseteq DOMAIN nodes'
  BY DEF Seeded
<1>2. TypeOK'
  BY <1>1 DEF TypeOK, IsCard
<1>3. ASSUME NEW k \in DOMAIN nodes', NEW d \in Path, Below(d, k)
      PROVE  d \in DOMAIN nodes' /\ nodes'[d].isDirectory
  <2>1. d \in DOMAIN nodes' /\ k \in Path
    BY <1>3 DEF Seeded, IsCard
  <2>2. SUFFICES ASSUME NEW f \in given', UpperKey(f.path) = d PROVE FALSE
    BY <2>1 DEF Holds, Files
  <2>3. d \notin StandardDirs /\ \A g \in given' : ~Below(d, UpperKey(g.path))
    BY <2>2 DEF SeedsAgree
  <2>4. k \in DOMAIN FreshCard \/ \E g \in given' : k = UpperKey(g.path) \/ Below(k, UpperKey(g.path))
    BY DEF Holds, Files
  <2>5. CASE k \in DOMAIN FreshCard
    <3>1. k \in StandardDirs
      BY <1>3, <2>5, FreshCardTyped, EmptySeq DEF Below, Root, Path
    <3>2. d \in Above(k)
      BY <1>3, <2>1, BelowIsAbove
    <3>. QED BY <2>3, <3>1, <3>2, StandardAssumption DEF Above
  <2>6. ASSUME NEW g \in given', k = UpperKey(g.path) \/ Below(k, UpperKey(g.path))
        PROVE  FALSE
    <3>1. UpperKey(g.path) \in Path
      BY UpperLemma DEF Holds, SeedFile
    <3>2. Under(d, k) /\ d # Root
      BY <1>3 DEF Under, Below
    <3>3. Below(d, UpperKey(g.path))
      BY <1>3, <2>1, <2>6, <3>1, <3>2, UnderTransitive
    <3>. QED BY <2>3, <3>3
  <2>. QED BY <2>4, <2>5, <2>6
<1>4. Root \in DOMAIN nodes' /\ nodes'[Root].isDirectory
  <2>1. Root \in DOMAIN nodes'
    BY <1>1, FreshCardTyped
  <2>. QED BY <2>1 DEF Seeded, Files
<1>5. Rooted'
  BY <1>3, <1>4 DEF Rooted, IsDir
<1>6. HandlesBacked'
  BY DEF HandlesBacked
<1>7. NamesMatchKeys'
  BY DEF NamesMatchKeys, Seeded, Named
<1>. QED BY <1>2, <1>5, <1>6, <1>7 DEF NameInv, StickInv

\* Until the program does something, the card holds what was given.
SeedInv ==
  /\ phase \in {"savedata", "dlc", "refused", "running", "used"}
  /\ phase # "used" => open = <<>> /\ lastHandle = 0
  /\ Untouched => \/ DOMAIN nodes = {} /\ given = {}
                  \/ Seeded(nodes) /\ Holds(nodes, given)
  /\ phase = "running" => DOMAIN nodes # {}
  /\ phase \in {"savedata", "dlc", "refused"} =>
       IsCard(nodes) /\ (DOMAIN nodes = {} \/ Seeded(nodes))

\* A machine whose seeds agree keeps the invariant of the stick.
RunInv ==
  phase \in {"running", "used"} /\ SeedsAgree => NameInv /\ IsFiniteSet(DOMAIN nodes)

LEMMA XInit_Inv == XInit => SeedInv /\ RunInv
<1>. SUFFICES ASSUME XInit PROVE SeedInv /\ RunInv
  OBVIOUS
<1>1. DOMAIN nodes = {} /\ nodes = [k \in DOMAIN nodes |-> nodes[k]]
  BY DEF XInit
<1>. QED BY <1>1 DEF XInit, SeedInv, RunInv, IsCard

LEMMA SeedWithKeeps ==
  ASSUME SeedInv, NEW zip \in Seq(Entry), NEW slot \in {"savedata", "dlc"},
         NEW under, BelowPSP(under), SeedWith(zip, slot, under)
  PROVE  SeedInv' /\ phase' \notin {"running", "used"}
<1>. DEFINE result == SeedZip(nodes, zip, under)
            now == Over(GivenBy(zip, under), given)
<1>1. /\ phase \in {"savedata", "dlc"}
      /\ nodes' = result.card /\ open' = open /\ lastHandle' = lastHandle
      /\ phase' = IF result.ok THEN slot ELSE "refused"
      /\ given' = IF result.ok THEN now ELSE given
  BY DEF SeedWith
<1>2. /\ IsCard(nodes) /\ open = <<>> /\ lastHandle = 0
      /\ \/ DOMAIN nodes = {} /\ given = {}
         \/ Seeded(nodes) /\ Holds(nodes, given)
  BY <1>1 DEF SeedInv, Untouched
<1>3. Seeded(result.card) /\ (result.ok => Holds(result.card, now))
  BY <1>2, SeedZipSeeded
<1>. HIDE DEF result, now
<1>4. Seeded(nodes') /\ (phase' # "refused" => Holds(nodes', given'))
  BY <1>1, <1>3
<1>. QED BY <1>1, <1>2, <1>4 DEF SeedInv, Untouched, Seeded

LEMMA PowerOnKeeps ==
  ASSUME SeedInv, PowerOn
  PROVE  SeedInv' /\ RunInv'
<1>1. /\ phase \in {"savedata", "dlc"} /\ phase' = "running"
      /\ open' = <<>> /\ lastHandle' = 0 /\ given' = given
  BY DEF PowerOn, PowerCycle
<1>2. \/ DOMAIN nodes = {} /\ given = {}
      \/ Seeded(nodes) /\ Holds(nodes, given)
  BY <1>1 DEF SeedInv, Untouched
<1>3. Seeded(nodes') /\ Holds(nodes', given')
  <2>1. CASE DOMAIN nodes = {} /\ given = {}
    <3>1. nodes' = [k \in DOMAIN FreshCard |-> FreshCard[k]]
      BY <2>1 DEF PowerOn, PowerCycle
    <3>2. nodes' = FreshCard
      BY <3>1 DEF FreshCard
    <3>. QED BY <1>1, <2>1, <3>2, FreshSeeded
  <2>2. CASE Seeded(nodes) /\ Holds(nodes, given)
    <3>1. Root \in DOMAIN nodes
      BY <2>2, FreshCardTyped DEF Seeded
    <3>2. nodes' = nodes
      BY <3>1 DEF PowerOn, PowerCycle
    <3>. QED BY <1>1, <2>2, <3>2
  <2>. QED BY <1>2, <2>1, <2>2
<1>4. DOMAIN nodes' # {} /\ IsFiniteSet(DOMAIN nodes')
  BY <1>3, FreshCardTyped DEF Seeded
<1>5. SeedsAgree' => NameInv'
  BY <1>1, <1>3, SeededIsStick
<1>. QED BY <1>1, <1>3, <1>4, <1>5 DEF SeedInv, RunInv, Untouched

\* Every step but the program's own.
LEMMA SeedStep ==
  ASSUME SeedInv, XNext
  PROVE  SeedInv' /\ (RunInv' \/ Use)
<1>1. ASSUME NEW zip \in SaveZip, SeedWith(zip, "savedata", SavesUnder)
      PROVE  SeedInv' /\ RunInv'
  <2>1. zip \in Seq(Entry)
    BY ExchangeAssumption
  <2>. QED BY <1>1, <2>1, FoldersBelowPSP, SeedWithKeeps DEF RunInv
<1>2. ASSUME NEW zip \in DlcZip, SeedWith(zip, "dlc", DlcUnder)
      PROVE  SeedInv' /\ RunInv'
  <2>1. zip \in Seq(Entry)
    BY ExchangeAssumption
  <2>. QED BY <1>2, <2>1, FoldersBelowPSP, SeedWithKeeps DEF RunInv
<1>3. ASSUME NEW slot \in {"savedata", "dlc"}, SeedUnnamed(slot)
      PROVE  SeedInv' /\ RunInv'
  <2>1. /\ phase \in {"savedata", "dlc"} /\ phase' \in {"savedata", "dlc"}
        /\ nodes' = nodes /\ open' = open /\ lastHandle' = lastHandle /\ given' = given
    BY <1>3 DEF SeedUnnamed, vars
  <2>. QED BY <2>1 DEF SeedInv, RunInv, Untouched
<1>4. CASE SeedMissing
  <2>1. /\ phase \in {"savedata", "dlc"} /\ phase' = "refused"
        /\ nodes' = nodes /\ open' = open /\ lastHandle' = lastHandle
    BY <1>4 DEF SeedMissing, vars
  <2>. QED BY <2>1 DEF SeedInv, RunInv, Untouched
<1>5. CASE Use
  BY <1>5 DEF Use, SeedInv, Untouched
<1>. QED BY <1>1, <1>2, <1>3, <1>4, <1>5, PowerOnKeeps DEF XNext

LEMMA SameStays ==
  ASSUME UNCHANGED xvars
  PROVE  (SeedInv => SeedInv') /\ (RunInv => RunInv')
<1>1. nodes' = nodes /\ open' = open /\ lastHandle' = lastHandle /\ phase' = phase /\ given' = given
  BY DEF xvars, vars
<1>2. SeedInv => SeedInv'
  BY <1>1 DEF SeedInv, Untouched
<1>3. SeedsAgree' <=> SeedsAgree
  BY <1>1 DEF SeedsAgree
<1>4. NameInv => NameInv'
  BY <1>1 DEF NameInv, StickInv, TypeOK, Rooted, IsDir, HandlesBacked, IsFile, NamesMatchKeys
<1>. QED BY <1>1, <1>2, <1>3, <1>4 DEF RunInv

LEMMA UseKeeps ==
  ASSUME TreeRules, RunInv, Use
  PROVE  RunInv'
<1>1. /\ phase \in {"running", "used"} /\ phase' = "used" /\ Next /\ given' = given
  BY DEF Use
<1>2. SeedsAgree' <=> SeedsAgree
  BY <1>1 DEF SeedsAgree
<1>3. CASE SeedsAgree
  <2>1. NameInv /\ IsFiniteSet(DOMAIN nodes)
    BY <1>1, <1>3 DEF RunInv
  <2>2. NameInv'
    BY <1>1, <2>1, NamesStep
  <2>3. IsFiniteSet(DOMAIN nodes')
    BY <1>1, <2>1, FiniteStep DEF NameInv
  <2>. QED BY <2>2, <2>3 DEF RunInv
<1>. QED BY <1>2, <1>3 DEF RunInv

LEMMA SeedAlways == XSpec => []SeedInv
<1>1. SeedInv /\ [XNext]_xvars => SeedInv'
  BY SeedStep, SameStays
<1>2. XInit => SeedInv
  BY XInit_Inv
<1>. QED BY <1>1, <1>2, PTL DEF XSpec

LEMMA RunAlways ==
  ASSUME TreeRules
  PROVE  XSpec => []RunInv
<1>1. SeedInv /\ RunInv /\ [XNext]_xvars => RunInv'
  BY SeedStep, SameStays, UseKeeps
<1>2. XInit => RunInv
  BY XInit_Inv
<1>. QED BY SeedAlways, <1>1, <1>2, PTL DEF XSpec

\* SeedsArrive: whatever zips the project has and in whatever order, the files
\* of the card are those the zips brought, as the host spelled them and with
\* their bytes, when the machine starts.
THEOREM SeededFilesArrive == XSpec => []SeedsArrive
<1>1. ASSUME SeedInv, Untouched
      PROVE  given = {[path |-> nodes[k].displayPath, bytes |-> nodes[k].data] : k \in Files(nodes)}
  <2>1. CASE DOMAIN nodes = {} /\ given = {}
    BY <2>1 DEF Files
  <2>2. CASE Seeded(nodes) /\ Holds(nodes, given)
    <3>. DEFINE F(k) == [path |-> nodes[k].displayPath, bytes |-> nodes[k].data]
    <3>1. \A f \in given : /\ UpperKey(f.path) \in Files(nodes)
                           /\ F(UpperKey(f.path)) = f
      <4>. SUFFICES ASSUME NEW f \in given
                    PROVE  UpperKey(f.path) \in Files(nodes) /\ F(UpperKey(f.path)) = f
        OBVIOUS
      <4>. DEFINE k == UpperKey(f.path)
      <4>1. k \in Files(nodes) /\ nodes[k] = FileNode(f.path, f.bytes)
            /\ f \in SeedFile
        BY <2>2 DEF Holds
      <4>2. f.path \in Path /\ f.bytes \in Seq(Nat) /\ f = [path |-> f.path, bytes |-> f.bytes]
        BY <4>1 DEF SeedFile
      <4>3. FileNode(f.path, f.bytes).data = f.bytes /\ FileNode(f.path, f.bytes).displayPath = f.path
        BY <4>2, FileNodeTyped
      <4>. HIDE DEF k
      <4>4. F(k) = f
        BY <4>1, <4>2, <4>3
      <4>. QED BY <4>1, <4>4 DEF k
    <3>2. \A k \in Files(nodes) : \E f \in given : UpperKey(f.path) = k
      BY <2>2 DEF Holds
    <3>. HIDE DEF F
    <3>3. given = {F(k) : k \in Files(nodes)}
      BY <3>1, <3>2
    <3>. QED BY <3>3 DEF F
  <2>. QED BY <1>1, <2>1, <2>2 DEF SeedInv
<1>2. SeedInv => SeedsArrive
  BY <1>1 DEF SeedsArrive
<1>. QED BY SeedAlways, <1>2, PTL

\* The listing of a directory named by its own path.
LEMMA ListingLemma ==
  ASSUME NEW p \in Path
  PROVE  GetDirListing(p) =
           {InfoFor(nodes[k]) : k \in
              {k \in DOMAIN nodes : IsDir(UpperKey(p)) /\ Len(k) = Len(p) + 1
                                    /\ SubSeq(k, 1, Len(p)) = UpperKey(p)}}
<1>1. Normalize(p) = p /\ Len(UpperKey(p)) = Len(p)
  BY NormalizeOfPath, UpperLemma
<1>. QED BY <1>1 DEF GetDirListing

\* A file below another is not reached: the other lists nothing.
LEMMA NotReached ==
  ASSUME Holds(nodes, given), NEW f \in given, NEW g \in given,
         Below(UpperKey(g.path), UpperKey(f.path))
  PROVE  ~Reached(f)
<1>. DEFINE path == f.path
            key  == UpperKey(path)
            file == UpperKey(g.path)
            n    == Len(file) + 1
            dir  == SubSeq(path, 1, n - 1)
<1>1. path \in Path /\ g.path \in Path /\ file \in Files(nodes)
  BY DEF Holds, SeedFile
<1>2. key \in Path /\ Len(key) = Len(path) /\ file \in Path
  BY <1>1, UpperLemma
<1>. HIDE DEF path, key, file
<1>3. Len(file) \in Nat /\ Len(key) \in Nat /\ Len(file) >= 1 /\ Len(key) > Len(file)
      /\ file = SubSeq(key, 1, Len(file))
  <2>1. Below(file, key)
    BY DEF file, key, path
  <2>. QED BY <1>2, <2>1, BelowLemma DEF Path, Below
<1>4. n \in 1..Len(path) /\ n - 1 \in 0..Len(path) /\ n - 1 = Len(file)
  BY <1>2, <1>3
<1>5. dir \in Path /\ UpperKey(dir) = file
  <2>1. dir \in Path
    BY <1>1, <1>4, PrefixLemma
  <2>2. UpperKey(dir) = SubSeq(key, 1, n - 1)
    <3>. HIDE DEF n
    <3>. QED BY <1>1, <1>4, UpperOfPrefix DEF key
  <2>. QED BY <1>3, <1>4, <2>1, <2>2
<1>6. ~IsDir(file)
  BY <1>1 DEF IsDir, Files
<1>. HIDE DEF dir, n
<1>7. GetDirListing(dir) = {}
  BY <1>5, <1>6, ListingLemma
<1>. QED BY <1>4, <1>7 DEF Reached, dir, path

\* A file that is below no other is: all that is above it are directories, each
\* of which lists the next.
LEMMA IsReached ==
  ASSUME Seeded(nodes), Holds(nodes, given), NEW f \in given,
         \A g \in given : ~Below(UpperKey(g.path), UpperKey(f.path))
  PROVE  Reached(f)
<1>. DEFINE path == f.path
            key  == UpperKey(path)
<1>1. f \in SeedFile /\ path \in Path /\ f.bytes \in Seq(Nat) /\ Len(path) \in Nat
      /\ \A i \in 1..Len(path) : path[i] \in Name
  BY DEF Holds, SeedFile, Path
<1>2. /\ key \in Path /\ Len(key) = Len(path)
      /\ \A i \in 1..Len(path) : key[i] = Upper[path[i]]
  BY <1>1, UpperLemma
<1>3. key \in DOMAIN nodes /\ nodes[key] = FileNode(path, f.bytes)
  BY DEF Holds, Files
<1>4. \A d \in Path : Below(d, key) => IsDir(d)
  <2>. SUFFICES ASSUME NEW d \in Path, Below(d, key) PROVE IsDir(d)
    OBVIOUS
  <2>1. d \in DOMAIN nodes
    BY <1>3 DEF Seeded
  <2>2. d \notin Files(nodes)
    BY DEF Holds
  <2>. QED BY <2>1, <2>2 DEF Files, IsDir
<1>5. IsDir(Root)
  BY FreshCardTyped DEF Seeded, Files, IsDir
<1>. SUFFICES ASSUME NEW n \in 1..Len(path)
              PROVE  \E info \in GetDirListing(SubSeq(path, 1, n - 1)) :
                       IF n = Len(path)
                         THEN info = [name |-> path[n], isDirectory |-> FALSE, size |-> Len(f.bytes)]
                         ELSE info.name \in Name /\ Upper[info.name] = Upper[path[n]]
  BY DEF Reached
<1>. HIDE DEF path, key
<1>. DEFINE dir  == SubSeq(path, 1, n - 1)
            up   == SubSeq(key, 1, n - 1)
            next == SubSeq(key, 1, n)
<1>6. n \in Nat /\ n >= 1 /\ n <= Len(key) /\ n - 1 \in 0..Len(path) /\ n \in 0..Len(key) /\ n - 1 \in 0..Len(key)
  BY <1>1, <1>2
<1>7. dir \in Path /\ Len(dir) = n - 1 /\ UpperKey(dir) = up
  BY <1>1, <1>6, PrefixLemma, UpperOfPrefix DEF key
<1>8. /\ up \in Path /\ Len(up) = n - 1 /\ (\A i \in 1..n - 1 : up[i] = key[i])
      /\ next \in Path /\ Len(next) = n /\ \A i \in 1..n : next[i] = key[i]
  BY <1>2, <1>6, PrefixLemma
<1>9. n = Len(key) => next = key
  BY <1>2, SubSeqFull DEF Path
<1>. HIDE DEF dir, up, next
<1>10. next # Root /\ next \in DOMAIN nodes
  <2>1. next # Root
    BY <1>6, <1>8, EmptySeq DEF Root
  <2>2. n < Len(key) => Below(next, key)
    BY <1>2, <1>6, <1>8, BelowLemma
  <2>3. n < Len(key) \/ n = Len(key)
    BY <1>6, <1>2, <1>1
  <2>. QED BY <1>3, <1>4, <1>8, <1>9, <2>1, <2>2, <2>3 DEF IsDir
<1>11. IsDir(up)
  <2>1. CASE n = 1
    <3>1. up = Root
      BY <1>8, <2>1, EmptySeq DEF Root, Path
    <3>. QED BY <1>5, <3>1
  <2>2. CASE n > 1
    <3>1. Below(up, key)
      BY <1>1, <1>2, <1>6, <1>8, <2>2, BelowLemma
    <3>. QED BY <1>4, <1>8, <3>1
  <2>. QED BY <1>6, <2>1, <2>2
<1>12. SubSeq(next, 1, Len(dir)) = up
  <2>. DEFINE a == SubSeq(next, 1, n - 1)
  <2>1. a \in Path /\ Len(a) = n - 1 /\ \A i \in 1..n - 1 : a[i] = next[i]
    <3>1. n - 1 \in 0..Len(next)
      BY <1>6, <1>8
    <3>. QED BY <1>8, <3>1, PrefixLemma
  <2>. HIDE DEF a
  <2>2. \A i \in 1..n - 1 : a[i] = up[i]
    BY <1>6, <1>8, <2>1
  <2>3. a = up
    BY <1>8, <2>1, <2>2, SeqEqual DEF Path
  <2>. QED BY <1>7, <2>3 DEF a
<1>13. InfoFor(nodes[next]) \in GetDirListing(dir)
  <2>1. Len(next) = Len(dir) + 1
    BY <1>6, <1>7, <1>8
  <2>. QED BY <1>7, <1>10, <1>11, <1>12, <2>1, ListingLemma
<1>14. CASE n = Len(path)
  <2>1. nodes[next] = FileNode(path, f.bytes) /\ path # Root
    BY <1>2, <1>3, <1>9, <1>14, <1>6, EmptySeq DEF Root
  <2>2. FileNode(path, f.bytes).data = f.bytes /\ ~FileNode(path, f.bytes).isDirectory
        /\ FileNode(path, f.bytes).displayName = path[n]
    BY <1>1, <1>14, <2>1, FileNodeTyped DEF MkNode, LastName
  <2>3. FileNode(path, f.bytes).isDirectory = FALSE
    BY <1>1 DEF FileNode, MkNode
  <2>4. InfoFor(nodes[next]) = [name |-> path[n], isDirectory |-> FALSE, size |-> Len(f.bytes)]
    BY <2>1, <2>2, <2>3 DEF InfoFor
  <2>. QED BY <1>13, <1>14, <2>4 DEF dir
<1>15. CASE n # Len(path)
  <2>1. Named(nodes[next], next)
    BY <1>10 DEF Seeded
  <2>2. nodes[next].displayName \in Name /\ Upper[nodes[next].displayName] = next[Len(next)]
    BY <2>1 DEF Named
  <2>3. next[Len(next)] = Upper[path[n]]
    BY <1>2, <1>6, <1>8
  <2>4. InfoFor(nodes[next]).name = nodes[next].displayName
    BY DEF InfoFor
  <2>. QED BY <1>13, <1>15, <2>2, <2>3, <2>4 DEF dir
<1>. QED BY <1>14, <1>15

\* SeedsReachable: a program that walks the listings reaches every file the zips
\* brought but those that have another of their files above them.
THEOREM SeededFilesAreReached == XSpec => []SeedsReachable
<1>1. ASSUME SeedInv, Untouched, NEW f \in given
      PROVE  Reached(f) <=> \A g \in given : ~Below(UpperKey(g.path), UpperKey(f.path))
  <2>1. Seeded(nodes) /\ Holds(nodes, given)
    BY <1>1 DEF SeedInv
  <2>. QED BY <2>1, NotReached, IsReached
<1>2. SeedInv => SeedsReachable
  BY <1>1 DEF SeedsReachable
<1>. QED BY SeedAlways, <1>2, PTL

\* SeedsStayBelowPSP: whatever the entries of the project's zips are called, and
\* at whichever of them a zip is refused, no file lands outside PSP.
THEOREM SeededFilesStay == XSpec => []SeedsStayBelowPSP
<1>1. SeedInv => SeedsStayBelowPSP
  BY DEF SeedInv, SeedsStayBelowPSP, Seeded, Files
<1>. QED BY SeedAlways, <1>1, PTL

-----------------------------------------------------------------------------
(* The export, put back as a seed.                                         *)

\* The entry made of a file goes where the file is.
LEMMA ExportedEntry ==
  ASSUME NameInv, OnlyBelowPSP, CleanNames, NEW k \in Files(nodes)
  PROVE  LET e == ExportEntry(nodes[k])
         IN  /\ e \in Entry /\ ~e.directory /\ ~e.spoiled /\ ~Climbs(e) /\ OnStick(e)
             /\ e.path \in Path /\ Normalize(e.path) = e.path /\ UpperKey(e.path) = k
             /\ e.path = nodes[k].displayPath /\ e.bytes = nodes[k].data
<1>. DEFINE e    == ExportEntry(nodes[k])
            path == nodes[k].displayPath
<1>1. k \in DOMAIN nodes /\ k \in Path /\ nodes[k] \in Node
  BY DEF Files, NameInv, StickInv, TypeOK
<1>2. Len(k) > 1 /\ k[1] = PSP /\ Len(k) \in Nat
  BY <1>1 DEF OnlyBelowPSP, Path
<1>3. k # Root
  BY <1>2, EmptySeq DEF Root
<1>4. path \in Path /\ UpperKey(path) = k
  BY <1>1, <1>3 DEF NameInv, NamesMatchKeys
<1>5. \A i \in 1..Len(path) : path[i] \notin Unclean
  BY DEF CleanNames
<1>6. nodes[k].data \in Seq(Nat)
  BY <1>1 DEF Node
<1>. HIDE DEF path
<1>7. e = [path |-> path, absolute |-> FALSE, directory |-> FALSE,
           spoiled |-> FALSE, bytes |-> nodes[k].data]
  BY DEF ExportEntry, path
<1>8. path \in Seq(RawName)
  BY <1>4, PathIsRaw
<1>9. e \in Entry
  BY <1>6, <1>7, <1>8 DEF Entry
<1>10. Len(path) = Len(k) /\ Len(path) \in Nat /\ (\A i \in 1..Len(path) : path[i] \in Name)
       /\ \A i \in 1..Len(path) : k[i] = Upper[path[i]]
  BY <1>4, UpperLemma DEF Path
<1>11. 1 \in 1..Len(path)
  BY <1>2, <1>10
<1>12. path[1] \in Name /\ Upper[path[1]] = PSP /\ Len(path) > 1
  BY <1>2, <1>10, <1>11
<1>. HIDE DEF e
<1>13. OnStick(e)
  BY <1>7, <1>12 DEF OnStick
<1>14. ~Climbs(e)
  BY <1>5, <1>7, <1>10, DotsAssumption DEF Climbs
<1>15. Normalize(path) = path
  BY <1>4, NormalizeOfPath
<1>. QED BY <1>4, <1>7, <1>9, <1>13, <1>14, <1>15 DEF e, path

\* What the walk over the export has made of its first i entries: the files of
\* those entries, with their paths and bytes.
Exported(a, order, i) ==
  /\ a.ok /\ a.files = i
  /\ Files(a.card) = {order[j] : j \in 1..i}
  /\ \A j \in 1..i : /\ a.card[order[j]].displayPath = nodes[order[j]].displayPath
                     /\ a.card[order[j]].data = nodes[order[j]].data

LEMMA ExportStep ==
  ASSUME NameInv, OnlyBelowPSP, CleanNames, NEW n \in Nat,
         NEW order \in Bijection(1..n, Files(nodes)), NEW i \in 0..n - 1,
         NEW a \in Acc, Exported(a, order, i)
  PROVE  Exported(SeedEntry(a, ExportEntry(nodes[order[i + 1]]), SavesUnder), order, i + 1)
<1>. DEFINE k == order[i + 1]
            e == ExportEntry(nodes[k])
            card == PutFile(a.card, e.path, e.bytes)
            files == a.files + 1
            after == SeedEntry(a, e, SavesUnder)
<1>1. i + 1 \in 1..n /\ i \in Nat /\ (\A j \in 1..i : j \in 1..n /\ j # i + 1)
      /\ \A j \in 1..i + 1 : j \in 1..i \/ j = i + 1
  OBVIOUS
<1>2. /\ \A j \in 1..n : order[j] \in Files(nodes)
      /\ \A j, m \in 1..n : order[j] = order[m] => j = m
  BY DEF Bijection, Injection, IsInjective
<1>3. k \in Files(nodes) /\ \A j \in 1..i : order[j] # k
  BY <1>1, <1>2
<1>. HIDE DEF k
<1>4. /\ e \in Entry /\ ~e.directory /\ ~e.spoiled /\ ~Climbs(e) /\ OnStick(e)
      /\ e.path \in Path /\ Normalize(e.path) = e.path /\ UpperKey(e.path) = k
      /\ e.path = nodes[k].displayPath /\ e.bytes = nodes[k].data
  BY <1>3, ExportedEntry
<1>. HIDE DEF e
<1>5. after = [a EXCEPT !.card = card, !.files = files]
  BY <1>4 DEF SeedEntry, Target, Exported
<1>6. HasPut(card, a.card, e.path, e.bytes)
  <2>1. IsCard(a.card) /\ e.bytes \in Seq(Nat)
    BY <1>4, CardsLemma DEF Acc, Entry
  <2>. QED BY <1>4, <2>1, PutFileLemma
<1>. HIDE DEF card, files, after
<1>7. after.card = card /\ after.ok = a.ok /\ after.files = files
  BY <1>5 DEF Acc
<1>8. files = i + 1
  BY DEF files, Exported
<1>9. /\ ~FileNode(e.path, e.bytes).isDirectory
      /\ FileNode(e.path, e.bytes).data = e.bytes
      /\ FileNode(e.path, e.bytes).displayPath = e.path
  <2>1. e.bytes \in Seq(Nat)
    BY <1>4 DEF Entry
  <2>. QED BY <1>4, <2>1, FileNodeTyped
<1>10. /\ DOMAIN card = DOMAIN a.card \cup Above(k) \cup {k}
       /\ card[k] = FileNode(e.path, e.bytes)
       /\ \A x \in DOMAIN a.card \ {k} : card[x] = a.card[x]
       /\ \A x \in Above(k) \ DOMAIN a.card : x # k /\ card[x].isDirectory
  BY <1>4, <1>6 DEF HasPut, MkNode
<1>11. Files(card) = Files(a.card) \cup {k}
  BY <1>9, <1>10 DEF Files
<1>12. Files(card) = {order[j] : j \in 1..i + 1}
  BY <1>1, <1>11 DEF Exported, k
<1>13. ASSUME NEW j \in 1..i + 1
       PROVE  /\ card[order[j]].displayPath = nodes[order[j]].displayPath
              /\ card[order[j]].data = nodes[order[j]].data
  <2>1. CASE j = i + 1
    BY <1>4, <1>9, <1>10, <2>1 DEF k
  <2>2. CASE j \in 1..i
    <3>1. order[j] \in DOMAIN a.card \ {k}
      BY <1>3, <2>2 DEF Exported, Files
    <3>2. card[order[j]] = a.card[order[j]]
      BY <1>10, <3>1
    <3>. QED BY <2>2, <3>2 DEF Exported
  <2>. QED BY <1>1, <2>1, <2>2
<1>14. Exported(after, order, i + 1)
  BY <1>7, <1>8, <1>12, <1>13 DEF Exported
<1>. QED BY <1>14 DEF after, e, k

\* RoundTrip: the tree Export Save Data writes, put as a seed on an empty stick,
\* makes the same files with the same names and bytes.
THEOREM ExportRoundTrips ==
  ASSUME TreeRules
  PROVE  XSpec => []RoundTrip
<1>1. ASSUME RunInv PROVE RoundTrip
  <2>. SUFFICES ASSUME phase \in {"running", "used"}, Files(nodes) # {},
                       SeedsAgree, OnlyBelowPSP, CleanNames
                PROVE  RoundTripOf(nodes, ExportZip)
    BY DEF RoundTrip
  <2>1. NameInv /\ IsFiniteSet(Files(nodes))
    <3>1. Files(nodes) \in SUBSET DOMAIN nodes /\ IsFiniteSet(DOMAIN nodes)
      BY <1>1 DEF Files, RunInv
    <3>. QED BY <1>1, <3>1, FS_Subset DEF RunInv
  <2>. DEFINE n == Cardinality(Files(nodes))
              chosen == CHOOSE s \in Bijection(1..n, Files(nodes)) : TRUE
              empty == [k \in {} |-> Ghost]
              of(s) == [i \in 1..n |-> ExportEntry(nodes[s[i]])]
  <2>2. n \in Nat /\ n # 0 /\ \E s : s \in Bijection(1..n, Files(nodes))
    BY <2>1, FS_CardinalityType, FS_EmptySet DEF ExistsBijection
  <2>3. chosen \in Bijection(1..n, Files(nodes)) /\ ExportZip = of(chosen)
    <3>1. ExportZip = of(chosen)
      BY DEF ExportZip
    <3>2. chosen \in Bijection(1..n, Files(nodes))
      <4>. HIDE DEF n
      <4>. QED BY <2>2, Zenon
    <3>. QED BY <3>1, <3>2
  <2>4. \E s : s \in Bijection(1..n, Files(nodes)) /\ ExportZip = of(s)
    <3>. HIDE DEF chosen, of
    <3>. QED BY <2>3
  <2>. HIDE DEF chosen
  <2>5. PICK order : order \in Bijection(1..n, Files(nodes)) /\ ExportZip = of(order)
    BY <2>4
  <2>. DEFINE zip == of(order)
  <2>6. zip \in Seq(Entry) /\ Len(zip) = n
        /\ \A i \in 1..n : zip[i] = ExportEntry(nodes[order[i]])
    <3>1. \A i \in 1..n : ExportEntry(nodes[order[i]]) \in Entry
      <4>1. \A i \in 1..n : order[i] \in Files(nodes)
        BY <2>5 DEF Bijection, Injection
      <4>. HIDE DEF n
      <4>. QED BY <2>1, <4>1, ExportedEntry
    <3>. HIDE DEF n
    <3>. QED BY <2>2, <3>1
  <2>7. IsCard(empty)
    BY DEF IsCard
  <2>. HIDE DEF zip, empty, n
  <2>8. PICK acc : /\ SeedWalk(acc, empty, zip, SavesUnder)
                   /\ SeedZip(empty, zip, SavesUnder) = SeedEnd(acc[Len(zip)])
    <3>1. SavesUnder \in Path
      BY FoldersBelowPSP DEF BelowPSP
    <3>. QED BY <2>6, <2>7, <3>1, SeedZipWalks
  <2>. DEFINE T == {i \in 0..n : Exported(acc[i], order, i)}
  <2>9. 0 \in T
    <3>1. acc[0] = Started(empty) /\ 0 \in 0..n
      BY <2>2, <2>8 DEF SeedWalk
    <3>2. EnsureStandardTree(empty) = FreshCard
      BY FreshCardTyped DEF EnsureStandardTree, empty, IsCard
    <3>3. Files(FreshCard) = {}
      BY FreshCardTyped DEF Files
    <3>4. Exported(acc[0], order, 0)
      BY <3>1, <3>2, <3>3 DEF Exported, Started
    <3>. QED BY <3>1, <3>4
  <2>10. ASSUME NEW i \in 0..n, i \in T, i < n PROVE i + 1 \in T
    <3>1. i \in 0..n - 1 /\ i + 1 \in 1..n /\ i + 1 \in 0..n /\ (i + 1) - 1 = i
      BY <2>2, <2>10
    <3>2. acc[i] \in Acc /\ acc[i + 1] = SeedEntry(acc[i], zip[i + 1], SavesUnder)
      BY <2>6, <2>8, <3>1 DEF SeedWalk
    <3>3. zip[i + 1] = ExportEntry(nodes[order[i + 1]])
      BY <2>6, <3>1
    <3>4. Exported(acc[i], order, i)
      BY <2>10
    <3>5. Exported(acc[i + 1], order, i + 1)
      BY <2>1, <2>2, <2>5, <3>1, <3>2, <3>3, <3>4, ExportStep
    <3>. QED BY <3>1, <3>5
  <2>11. Exported(acc[n], order, n)
    <3>1. \A i \in 0..n : i \in T
      <4>. HIDE DEF T
      <4>. QED BY <2>2, <2>9, <2>10, Counting
    <3>2. n \in 0..n
      BY <2>2
    <3>. QED BY <3>1, <3>2
  <2>12. {order[j] : j \in 1..n} = Files(nodes)
    BY <2>5 DEF Bijection, Injection, Surjection
  <2>. DEFINE again == SeedZip(empty, zip, SavesUnder)
  <2>13. again.card = acc[n].card /\ again.ok = (acc[n].ok /\ acc[n].files > 0)
    <3>1. acc[n] \in Acc /\ again = SeedEnd(acc[n])
      BY <2>2, <2>6, <2>8 DEF SeedWalk
    <3>. HIDE DEF again
    <3>. QED BY <3>1 DEF SeedEnd, Acc
  <2>. HIDE DEF again
  <2>14. again.ok /\ Files(again.card) = Files(nodes)
    <3>1. acc[n].ok /\ acc[n].files = n /\ Files(acc[n].card) = Files(nodes)
      BY <2>11, <2>12 DEF Exported
    <3>2. acc[n].files > 0
      BY <2>2, <3>1
    <3>. QED BY <2>13, <3>1, <3>2
  <2>15. ASSUME NEW k \in Files(nodes)
         PROVE  /\ again.card[k].displayPath = nodes[k].displayPath
                /\ again.card[k].data = nodes[k].data
    <3>1. PICK j \in 1..n : order[j] = k
      BY <2>12
    <3>. QED BY <2>11, <2>13, <3>1 DEF Exported
  <2>. QED BY <2>5, <2>14, <2>15 DEF RoundTripOf, again, zip, empty
<1>. QED BY RunAlways, <1>1, PTL
=============================================================================
