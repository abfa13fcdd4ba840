---------------------------- MODULE StickExchange ----------------------------
(***************************************************************************)
(* Files in and out of the memory stick: Chimera_MemstickSeedZip, which    *)
(* Init (waterbox.cpp) calls for every zip of the project before the       *)
(* machine starts, and the savedata export, which the host walks between   *)
(* frames.  In between the stick is module MemStick's.                     *)
(*                                                                         *)
(* A zip is a sequence of entries.  What the code tells apart in an        *)
(* entry's name: its components, a leading '/', a trailing one, and        *)
(* whether ".." or ':' occurs anywhere in it.                              *)
(***************************************************************************)
EXTENDS MemStick

CONSTANTS PSP,          \* the component "PSP", in upper case
          Unclean,      \* names with ".." or ':' inside them
          SaveZip,      \* the zips of the project's savedata slot
          DlcZip,       \* the zips of its DLC slot
          SavesUnder,   \* <<"PSP", "SAVEDATA">>
          DlcUnder      \* <<"PSP", "GAME">>

\* An entry: its components, a leading '/', a trailing one, and its bytes; a
\* spoiled one does not unpack to the size it states.
Entry == [path : Seq(RawName), absolute : BOOLEAN, directory : BOOLEAN,
          spoiled : BOOLEAN, bytes : Seq(Nat)]

ASSUME ExchangeAssumption ==
  /\ PSP \in Name /\ Upper[PSP] = PSP
  /\ Unclean \subseteq Name
  /\ SaveZip \cup DlcZip \subseteq Seq(Entry)
  /\ \A under \in {SavesUnder, DlcUnder} :
       under \in StandardDirs /\ Len(under) = 2 /\ under[1] = PSP

VARIABLES phase,    \* where Init is, "savedata", "dlc" or "refused"; "running", and
                    \* "used" once the program has done something
          given     \* history: the files the project's zips have brought

xvars == <<vars, phase, given>>

-----------------------------------------------------------------------------
(* Seeding.  A definition named X_how is a mutant of X: a mistake the      *)
(* properties below must notice.                                           *)

Climbs_anywhere(e) == e.absolute
Climbs(e) ==
  \/ e.absolute
  \/ \E i \in 1..Len(e.path) : e.path[i] \in Unclean \cup {DotDot}

\* The entry's name begins with "PSP/", in any case.
OnStick_never(e) == FALSE
OnStick(e) == Len(e.path) > 1 /\ e.path[1] \in Name /\ Upper[e.path[1]] = PSP

EnsureStandardTree(card) ==
  [k \in DOMAIN card \cup DOMAIN FreshCard |->
     IF k \in DOMAIN card THEN card[k] ELSE FreshCard[k]]

FileNode(norm, bytes) == [MkNode(norm, FALSE) EXCEPT !.data = bytes]

\* The directories on the way to a file that are missing.
WithParents(card, norm) ==
  LET above == {SubSeq(UpperKey(norm), 1, n) : n \in 1..Len(norm) - 1}
  IN  [k \in DOMAIN card \cup above |->
         IF k \in DOMAIN card THEN card[k]
         ELSE MkNode(SubSeq(norm, 1, Len(k)), TRUE)]

\* Then the file, over whatever has its key.
PutFile_alone(card, norm, bytes) ==
  Put(card, UpperKey(norm), FileNode(norm, bytes))
PutFile_oldName(card, norm, bytes) ==
  LET key == UpperKey(norm)
  IN  IF key \in DOMAIN card THEN [card EXCEPT ![key].data = bytes]
      ELSE Put(WithParents(card, norm), key, FileNode(norm, bytes))
PutFile(card, norm, bytes) ==
  Put(WithParents(card, norm), UpperKey(norm), FileNode(norm, bytes))

\* Where an entry goes: where it says, or under the folder for its kind.
Target(e, under) == Normalize(IF OnStick(e) THEN e.path ELSE under \o e.path)

\* One entry, unless an earlier one was refused.
SeedEntry(acc, e, under) ==
  IF ~acc.ok \/ e.directory THEN acc
  ELSE IF Climbs(e) \/ e.spoiled THEN [acc EXCEPT !.ok = FALSE]
  ELSE [acc EXCEPT !.card = PutFile(@, Target(e, under), e.bytes), !.files = @ + 1]

\* The whole zip: the card, whether it was taken, and the files that went on.
SeedZip(card, zip, under) ==
  LET acc[i \in 0..Len(zip)] ==
        IF i = 0
          THEN [card |-> EnsureStandardTree(card), ok |-> TRUE, files |-> 0]
          ELSE SeedEntry(acc[i - 1], zip[i], under)
      all == acc[Len(zip)]
  IN  [all EXCEPT !.ok = @ /\ all.files > 0]

-----------------------------------------------------------------------------
(* What the host gave, whatever the code makes of it.  A file is its path, *)
(* spelled as the entry spells it, and its bytes; of two that differ in    *)
(* case only the later one counts.                                         *)

SameKey(f, g) == UpperKey(f.path) = UpperKey(g.path)

Over(new, old) == new \cup {f \in old : \A g \in new : ~SameKey(f, g)}

GivenBy(zip, under) ==
  LET file(i) == [path |-> Target(zip[i], under), bytes |-> zip[i].bytes]
      files   == {i \in DOMAIN zip : ~zip[i].directory}
  IN  {file(i) : i \in {i \in files :
                         \A j \in files : j > i => ~SameKey(file(j), file(i))}}

-----------------------------------------------------------------------------
(* The export: every file under its display path.                          *)

ExportEntry(n) ==
  [path |-> n.displayPath, absolute |-> FALSE, directory |-> FALSE,
   spoiled |-> FALSE, bytes |-> n.data]

Files(card) == {k \in DOMAIN card : ~card[k].isDirectory}

\* The zip made of the export; its order does not matter, no two files having
\* the same key.
ExportZip ==
  LET count == Cardinality(Files(nodes))
      order == CHOOSE s \in Bijection(1..count, Files(nodes)) : TRUE
  IN  [i \in 1..count |-> ExportEntry(nodes[order[i]])]

-----------------------------------------------------------------------------
XInit ==
  /\ nodes = [k \in {} |-> Ghost]
  /\ open = <<>>
  /\ lastHandle = 0
  /\ phase = "savedata"
  /\ given = {}

\* A zip in one of the two slots; the savedata slot's come first.
SeedWith(zip, slot, under) ==
  LET result == SeedZip(nodes, zip, under)
  IN  /\ phase \in {"savedata", slot}
      /\ nodes' = result.card
      /\ phase' = IF result.ok THEN slot ELSE "refused"
      /\ given' = IF result.ok THEN Over(GivenBy(zip, under), given) ELSE given
      /\ UNCHANGED <<open, lastHandle>>

\* A file of the slot whose name the host does not tell is passed over.
SeedUnnamed(slot) ==
  /\ phase \in {"savedata", slot}
  /\ phase' = slot
  /\ UNCHANGED <<vars, given>>

\* A slot names a file that cannot be opened.
SeedMissing ==
  /\ phase \in {"savedata", "dlc"}
  /\ phase' = "refused"
  /\ UNCHANGED <<vars, given>>

\* pspdrv_boot: the filesystem object is made over the seeded card.
PowerOn ==
  /\ phase \in {"savedata", "dlc"}
  /\ phase' = "running"
  /\ PowerCycle
  /\ UNCHANGED given

\* The program's calls.
Use ==
  /\ phase \in {"running", "used"}
  /\ Next
  /\ phase' = "used"
  /\ UNCHANGED given

XNext ==
  \/ \E zip \in SaveZip : SeedWith(zip, "savedata", SavesUnder)
  \/ \E zip \in DlcZip : SeedWith(zip, "dlc", DlcUnder)
  \/ \E slot \in {"savedata", "dlc"} : SeedUnnamed(slot)
  \/ SeedMissing
  \/ PowerOn
  \/ Use

XSpec == XInit /\ [][XNext]_xvars

-----------------------------------------------------------------------------
(* Properties.                                                             *)

\* What was given is what the machine will find: nothing is refused, and no
\* program has touched the card yet.
Untouched == phase \in {"savedata", "dlc", "running"}

\* ram-filesystem.h:29: "A zip's files go onto the stick".  After every zip and
\* when the machine starts, the files of the card are those the zips brought,
\* each under its path as the host spelled it and with its bytes: none is
\* dropped, doubled or cut, and of two spellings the later one stands.
SeedsArrive ==
  Untouched =>
    given = {[path |-> nodes[k].displayPath, bytes |-> nodes[k].data] : k \in Files(nodes)}

\* A program that walks the listings down from the root comes to the file: each
\* shows the next component, in whatever case, and the last the file itself.
Reached(f) ==
  \A n \in 1..Len(f.path) : \E info \in GetDirListing(SubSeq(f.path, 1, n - 1)) :
    IF n = Len(f.path)
      THEN info = [name |-> f.path[n], isDirectory |-> FALSE, size |-> Len(f.bytes)]
      ELSE info.name \in Name /\ Upper[info.name] = Upper[f.path[n]]

\* ram-filesystem.h:38: "a project whose data is silently ignored is worse than
\* one that will not start".  A program reaches every file the zips brought,
\* except exactly those for which another file of the zips stands where one of
\* their directories should be: PutFile refuses neither of the two.
SeedsReachable ==
  Untouched =>
    \A f \in given :
      Reached(f) <=> \A g \in given : ~Below(UpperKey(g.path), UpperKey(f.path))

\* ram-filesystem.h:34: a seeded file goes where its entry says, below PSP, or
\* under the folder for its kind - no entry climbs out of that, whichever of
\* the zips is refused and where.
SeedsStayBelowPSP ==
  phase \notin {"running", "used"} =>
    \A k \in Files(nodes) : k # Root /\ k[1] = PSP

\* The exported tree, put as a seed on another stick, makes the same files with
\* the same names and bytes.
RoundTripOf(card, zip) ==
  LET again == SeedZip([k \in {} |-> Ghost], zip, SavesUnder)
  IN  /\ again.ok
      /\ Files(again.card) = Files(card)
      /\ \A k \in Files(card) : again.card[k].displayPath = card[k].displayPath
                             /\ again.card[k].data = card[k].data

OnlyBelowPSP ==
  \A k \in Files(nodes) : Len(k) > 1 /\ k[1] = PSP

CleanNames ==
  \A k \in Files(nodes) : \A i \in 1..Len(nodes[k].displayPath) :
    nodes[k].displayPath[i] \notin Unclean

\* No file was given in the place of a directory.
SeedsAgree ==
  \A f \in given :
    /\ UpperKey(f.path) \notin StandardDirs
    /\ \A g \in given : ~Below(UpperKey(g.path), UpperKey(f.path))

\* ram-filesystem.h:33: "(the tree Export Save Data writes, so
\* export-then-import round-trips)", of a stick that started with seeds that
\* agree and whose files are below PSP and named without ".." and ':'.
RoundTrip ==
  /\ phase \in {"running", "used"}
  /\ Files(nodes) # {} /\ SeedsAgree /\ OnlyBelowPSP /\ CleanNames
  => RoundTripOf(nodes, ExportZip)
=============================================================================
