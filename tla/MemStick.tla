------------------------------ MODULE MemStick ------------------------------
(***************************************************************************)
(* The RAM memory stick: class RamFileSystem and the card g_nodes of       *)
(* waterbox/ram-filesystem.cpp.                                            *)
(*                                                                         *)
(* One action per operation of the IFileSystem that changes state.  A call *)
(* that fails (its guard is false) changes nothing and is a stuttering     *)
(* step.  GetDirListing, which only answers, is an operator; the other two *)
(* that do (GetFileInfo, OwnsHandle) are left out.  The calls come from    *)
(* the PSP program in any order the kernel lets it make them.              *)
(***************************************************************************)
EXTENDS StickPaths, FiniteSets

CONSTANTS StandardDirs,  \* the directories the constructor makes below "/"
          RawPath,       \* the raw paths the program uses
          OpenMode,      \* the access flags it opens files with
          Chunk,         \* what it writes at a time, a sequence of bytes
          ReadSize,      \* how much it reads at a time
          SeekOffset,    \* the offsets it seeks by
          NoName,        \* the empty string as a display name
          Rule,          \* the rules the program keeps (see Careful below)
          MaxLen,        \* bound: longest file and furthest position
          MaxHandles,    \* bound: handles given out per power cycle
          MaxNodes,      \* bound: nodes on the card
          MaxDepth       \* bound: components of a key

Flag == {"read", "write", "append", "create", "excl", "truncate"}
FileMove == {"begin", "current", "end"}

ASSUME PathsAssumption ==
  /\ RawPath \subseteq Seq(RawName)
  /\ NoName \notin RawName

ASSUME StandardAssumption ==
  /\ StandardDirs \subseteq Path \ {Root}
  /\ IsFiniteSet(StandardDirs)
  /\ \A d \in StandardDirs :
       /\ UpperKey(d) = d
       /\ \A n \in 1..Len(d) - 1 : SubSeq(d, 1, n) \in StandardDirs

ASSUME InputsAssumption ==
  /\ OpenMode \subseteq SUBSET Flag
  /\ Chunk \subseteq Seq(Nat)
  /\ ReadSize \subseteq Nat
  /\ SeekOffset \subseteq Int
  /\ Rule \subseteq {"closeBeforeRename", "renameIntoTree", "oneTruncator"}
  /\ {MaxLen, MaxHandles, MaxNodes, MaxDepth} \subseteq Nat

VARIABLES nodes,      \* g_nodes: key -> node, on the card
          open,       \* open_: handle -> entry, in the filesystem object
          lastHandle  \* the kernel's allocator: handles are never reused

vars == <<nodes, open, lastHandle>>

-----------------------------------------------------------------------------
(* Nodes and entries.                                                      *)

Node == [displayName : RawName \cup {NoName},
         displayPath : Path,
         isDirectory : BOOLEAN,
         data        : Seq(Nat)]

\* A default-constructed Node, what operator[] inserts for a missing key.
Ghost == [displayName |-> NoName, displayPath |-> Root,
          isDirectory |-> FALSE, data |-> <<>>]

NotTruncating == -1

OpenEntry == [key     : Path,
              access  : SUBSET Flag,
              pos     : Nat,
              truncTo : Nat \cup {NotTruncating}]

LastName(p) == IF p = Root THEN NoName ELSE p[Len(p)]

MkNode(norm, dir) == [displayName |-> LastName(norm), displayPath |-> norm,
                      isDirectory |-> dir, data |-> <<>>]

IsDir(k)  == k \in DOMAIN nodes /\ nodes[k].isDirectory
IsFile(k) == k \in DOMAIN nodes /\ ~nodes[k].isDirectory

Put(card, k, n)  == [x \in DOMAIN card \cup {k} |-> IF x = k THEN n ELSE card[x]]
Without(card, K) == [x \in DOMAIN card \ K |-> card[x]]

\* nodes_[k]: the card after a look-up that inserts what it does not find.
Touched(k) == IF k \in DOMAIN nodes THEN nodes ELSE Put(nodes, k, Ghost)

Larger(a, b)  == IF a < b THEN b ELSE a
Smaller(a, b) == IF a < b THEN a ELSE b

\* vector::resize: cut, or extended with zeros.
Resize(d, n) == [i \in 1..n |-> IF i <= Len(d) THEN d[i] ELSE 0]

\* The bytes d after the bytes c are copied over those from pos on.
Overwrite(d, pos, c) ==
  [i \in 1..Larger(Len(d), pos + Len(c)) |->
     IF i > pos /\ i <= pos + Len(c) THEN c[i - pos]
     ELSE IF i <= Len(d) THEN d[i] ELSE 0]

-----------------------------------------------------------------------------
(* The rules a program may keep.  The code enforces none of them; Rule     *)
(* names those the modelled program is known to keep.                      *)

Truncating(h) == open[h].truncTo # NotTruncating

\* A file is closed before it, or a directory above it, is renamed.
ClosedBelow(k) == \A h \in DOMAIN open : open[h].key # k /\ ~Below(k, open[h].key)

\* The root stays, and the new name is inside an existing directory that is
\* not itself moved.
IntoTree(from, to) == from # Root /\ IsDir(ParentOf(to)) /\ ~Below(from, to)

\* One truncating handle at a time on a file.
NoTruncator(k) == \A h \in DOMAIN open : open[h].key = k => ~Truncating(h)

Careful(rule, holds) == rule \in Rule => holds

-----------------------------------------------------------------------------
(* What the operations ask of the card.  A definition named X_how is a      *)
(* mutant of X: a mistake the properties below must notice.                 *)

InUse_never(key) == FALSE
InUse(key) == \E h \in DOMAIN open : open[h].key = key

IsEmpty_ofFiles(dir) ==
  \A k \in DOMAIN nodes : Below(dir, k) => nodes[k].isDirectory
IsEmpty(dir) == \A k \in DOMAIN nodes : ~Below(dir, k)

\* RenameFile overwrites nothing; a change of case is not an overwrite.
Available_always(to, from) == TRUE
Available(to, from) == to \in DOMAIN nodes => to = from

\* Where a seek lands.
Landing_unclamped(base, position) == base + position
Landing(base, position) == Larger(base + position, 0)

\* The truncation point of a handle whose last write ended at `end`.
TruncAfterWrite_grows(truncTo, end) ==
  IF truncTo = NotTruncating THEN truncTo ELSE truncTo + end
TruncAfterWrite(truncTo, end) ==
  IF truncTo = NotTruncating THEN truncTo ELSE Larger(truncTo, end)

\* The card once norm is open: a missing file is made, and nothing is erased.
Opened_erased(norm, access) ==
  LET key == UpperKey(norm)
  IN  IF key \in DOMAIN nodes /\ "truncate" \notin access
        THEN nodes ELSE Put(nodes, key, MkNode(norm, FALSE))
Opened(norm, access) ==
  LET key == UpperKey(norm)
  IN  IF key \in DOMAIN nodes
        THEN nodes ELSE Put(nodes, key, MkNode(norm, FALSE))

-----------------------------------------------------------------------------
\* What the program is told of a node (its times are fixed).
InfoFor(n) == [name |-> n.displayName, isDirectory |-> n.isDirectory, size |-> Len(n.data)]

\* The listing of a directory: what is one level below it, the root's prefix
\* being its "/".  Anything but a directory lists nothing.
GetDirListing(raw) ==
  LET dir == UpperKey(Normalize(raw))
  IN  {InfoFor(nodes[k]) : k \in
         {k \in DOMAIN nodes : IsDir(dir) /\ Len(k) = Len(dir) + 1
                               /\ SubSeq(k, 1, Len(dir)) = dir}}

\* The card as the constructor makes it when it finds no root.
FreshCard ==
  [k \in StandardDirs \cup {Root} |-> MkNode(k, TRUE)]

Init ==
  /\ nodes = FreshCard
  /\ open = <<>>
  /\ lastHandle = 0

OpenFile(raw, access) ==
  LET norm  == Normalize(raw)
      key   == UpperKey(norm)
      after == Opened(norm, access)
      entry == [key     |-> key,
                access  |-> access,
                pos     |-> IF "append" \in access THEN Len(after[key].data) ELSE 0,
                truncTo |-> IF "truncate" \in access THEN 0 ELSE NotTruncating]
  IN  /\ lastHandle < MaxHandles
      /\ \/ IsFile(key) /\ ~({"create", "excl"} \subseteq access)
         \/ /\ key \notin DOMAIN nodes
            /\ "create" \in access
            /\ IsDir(UpperKey(ParentOf(norm)))
            /\ Cardinality(DOMAIN nodes) < MaxNodes
      /\ Careful("oneTruncator", "truncate" \in access => NoTruncator(key))
      /\ nodes' = after
      /\ lastHandle' = lastHandle + 1
      /\ open' = Put(open, lastHandle + 1, entry)

CloseFile(h) ==
  LET e == open[h]
  IN  /\ nodes' = IF Truncating(h) /\ e.key \in DOMAIN nodes
                    THEN [nodes EXCEPT ![e.key].data = Resize(@, e.truncTo)]
                    ELSE nodes
      /\ open' = Without(open, {h})
      /\ UNCHANGED lastHandle

ReadFile(h, size) ==
  LET e      == open[h]
      card   == Touched(e.key)
      all    == Len(card[e.key].data)
      length == IF Truncating(h) THEN Smaller(e.truncTo, all) ELSE all
      take   == Smaller(size, Larger(length - e.pos, 0))
  IN  /\ nodes' = card
      /\ open' = [open EXCEPT ![h].pos = @ + take]
      /\ UNCHANGED lastHandle

WriteFile(h, bytes) ==
  LET e    == open[h]
      card == Touched(e.key)
      data == card[e.key].data
      pos  == IF "append" \in e.access THEN Len(data) ELSE e.pos
      end  == pos + Len(bytes)
  IN  /\ e.access \cap {"write", "append"} # {}
      /\ end <= MaxLen
      /\ nodes' = [card EXCEPT ![e.key].data = Overwrite(data, pos, bytes)]
      /\ open' = [open EXCEPT
                    ![h].pos = end,
                    ![h].truncTo = TruncAfterWrite(@, end)]
      /\ UNCHANGED lastHandle

SeekFile(h, position, type) ==
  LET e    == open[h]
      card == Touched(e.key)
      base == CASE type = "begin"   -> 0
                [] type = "current" -> e.pos
                [] type = "end"     -> IF Truncating(h)
                                         THEN e.truncTo ELSE Len(card[e.key].data)
      np   == Landing(base, position)
  IN  /\ np <= MaxLen
      /\ nodes' = card
      /\ open' = [open EXCEPT ![h].pos = np]
      /\ UNCHANGED lastHandle

GetFileInfoByHandle(h) ==
  /\ nodes' = Touched(open[h].key)
  /\ UNCHANGED <<open, lastHandle>>

MkDir(raw) ==
  LET norm == Normalize(raw)
      key  == UpperKey(norm)
  IN  /\ key \notin DOMAIN nodes
      /\ IsDir(UpperKey(ParentOf(norm)))
      /\ Cardinality(DOMAIN nodes) < MaxNodes
      /\ nodes' = Put(nodes, key, MkNode(norm, TRUE))
      /\ UNCHANGED <<open, lastHandle>>

RmDir(raw) ==
  LET key == UpperKey(Normalize(raw))
  IN  /\ IsDir(key)
      /\ key # Root
      /\ IsEmpty(key)
      /\ nodes' = Without(nodes, {key})
      /\ UNCHANGED <<open, lastHandle>>

\* "to" may be just the new name, relative to the directory of "from".
RenameTarget(from, to, bare) ==
  IF bare THEN ParentOf(Normalize(from)) \o to ELSE Normalize(to)

\* The card after the directory at `from` has moved, with everything below it.
\* A child keeps its display name, and its display path ends in its key.
Moved_oldPaths(from, to, norm, name) ==
  LET moving == {k \in DOMAIN nodes : k = from \/ Below(from, k)}
      at     == {Rebase(k, from, to) : k \in moving}
  IN  [k \in (DOMAIN nodes \ moving) \cup at |->
         IF k \in at THEN nodes[Rebase(k, to, from)] ELSE nodes[k]]
Moved(from, to, norm, name) ==
  LET moving == {k \in DOMAIN nodes : k = from \/ Below(from, k)}
      at     == {Rebase(k, from, to) : k \in moving}
  IN  [k \in (DOMAIN nodes \ moving) \cup at |->
         IF k \notin at THEN nodes[k]
         ELSE LET old == Rebase(k, to, from)
              IN  [nodes[old] EXCEPT
                     !.displayPath = Rebase(old, from, norm),
                     !.displayName = IF old = from THEN name ELSE @]]

RenameFile(rawFrom, rawTo, bare) ==
  LET from   == UpperKey(Normalize(rawFrom))
      toNorm == RenameTarget(rawFrom, rawTo, bare)
      norm   == Normalize(toNorm)
      to     == UpperKey(norm)
      name   == LastName(IF bare THEN rawTo ELSE toNorm)
  IN  /\ bare => Len(rawTo) <= 1
      /\ from \in DOMAIN nodes
      /\ Available(to, from)
      /\ to # Root        \* bound: nothing takes the place of a missing root
      /\ \A k \in DOMAIN nodes :
           k = from \/ Below(from, k) => Len(Rebase(k, from, to)) <= MaxDepth
      /\ Careful("closeBeforeRename", ClosedBelow(from))
      /\ Careful("renameIntoTree", IntoTree(from, to))
      /\ nodes' = IF nodes[from].isDirectory
                    THEN Moved(from, to, norm, name)
                    ELSE Put(Without(nodes, {from}), to,
                             [nodes[from] EXCEPT !.displayName = name,
                                                 !.displayPath = norm])
      /\ UNCHANGED <<open, lastHandle>>

RemoveFile(raw) ==
  LET key == UpperKey(Normalize(raw))
  IN  /\ IsFile(key)
      /\ ~InUse(key)
      /\ nodes' = Without(nodes, {key})
      /\ UNCHANGED <<open, lastHandle>>

\* PSP_Shutdown destroys the object with its open files, and the next boot
\* makes another over the same card.
PowerCycle ==
  /\ nodes' = IF Root \in DOMAIN nodes
                THEN nodes
                ELSE [k \in DOMAIN nodes \cup DOMAIN FreshCard |->
                        IF k \in DOMAIN FreshCard THEN FreshCard[k] ELSE nodes[k]]
  /\ open' = <<>>
  /\ lastHandle' = 0

HandleStep(h) ==
  \/ CloseFile(h)
  \/ \E size \in ReadSize : ReadFile(h, size)
  \/ \E bytes \in Chunk : WriteFile(h, bytes)
  \/ \E position \in SeekOffset, type \in FileMove : SeekFile(h, position, type)
  \/ GetFileInfoByHandle(h)

PathStep(raw) ==
  \/ \E access \in OpenMode : OpenFile(raw, access)
  \/ MkDir(raw)
  \/ RmDir(raw)
  \/ RemoveFile(raw)
  \/ \E to \in RawPath, bare \in BOOLEAN : RenameFile(raw, to, bare)

Next ==
  \/ \E h \in DOMAIN open : HandleStep(h)
  \/ \E raw \in RawPath : PathStep(raw)
  \/ PowerCycle

Spec == Init /\ [][Next]_vars

-----------------------------------------------------------------------------
(* Properties.                                                             *)

\* The card maps keys to nodes, the open files are entries under the handles
\* given out so far.
TypeOK ==
  /\ DOMAIN nodes \subseteq Path
  /\ nodes = [k \in DOMAIN nodes |-> nodes[k]]
  /\ \A k \in DOMAIN nodes : nodes[k] \in Node
  /\ lastHandle \in Nat
  /\ DOMAIN open \subseteq 1..lastHandle
  /\ open = [h \in DOMAIN open |-> open[h]]
  /\ \A h \in DOMAIN open : open[h] \in OpenEntry

\* The card is a tree: whatever was made, removed and renamed, every node but
\* the root is inside a directory that exists.  A listing of the directories
\* from the root down (GetDirListing) therefore reaches every file.  Rests on
\* RenameFile's target being inside the tree.
TreeOK ==
  /\ IsDir(Root)
  /\ \A k \in DOMAIN nodes \ {Root} : IsDir(ParentOf(k))

\* The file of every open handle is on the card, so that no look-up through a
\* handle (the operator[] of ReadFile, WriteFile, SeekFile) inserts a node.
\* RemoveFile's "in use" refusal is what keeps it, RenameFile what can break it.
HandlesBacked == \A h \in DOMAIN open : IsFile(open[h].key)

\* A node is found under the name it shows: the upper-cased display path is
\* its key, and the display name is the last component of it.
NamesMatchKeys ==
  \A k \in DOMAIN nodes \ {Root} :
    /\ nodes[k].displayPath \in Path
    /\ UpperKey(nodes[k].displayPath) = k
    /\ nodes[k].displayName \in Name
    /\ Upper[nodes[k].displayName] = k[Len(k)]

\* A truncating handle never promises more than the file holds, so that its
\* close can only cut the file and never pads it with zeros nobody wrote.
TruncationWithinFile ==
  \A h \in DOMAIN open :
    Truncating(h) /\ IsFile(open[h].key) =>
      open[h].truncTo <= Len(nodes[open[h].key].data)

\* chimera#212: opening a file truncating erases nothing.  While a file stays
\* where it is, only the close of a handle that truncates it makes it shorter,
\* and the bytes it holds change only where a write of this step went over them.
ErasesOnlyAtClose ==
  [][\A k \in DOMAIN nodes \cap DOMAIN nodes' :
       \/ \E h \in DOMAIN open \ DOMAIN open' : open[h].key = k /\ Truncating(h)
       \/ /\ Len(nodes'[k].data) >= Len(nodes[k].data)
          /\ \A i \in 1..Len(nodes[k].data) :
               nodes'[k].data[i] # nodes[k].data[i] =>
                 \E h \in DOMAIN open \cap DOMAIN open' :
                   open[h].key = k /\ open[h].pos < i /\ i <= open'[h].pos]_vars

\* No file is lost but by RemoveFile: a key that disappears was removed alone
\* while nobody had it open, or its bytes are found under a key that is new.
NoFileLost ==
  [][\A k \in DOMAIN nodes \ DOMAIN nodes' :
       \/ /\ nodes' = Without(nodes, {k})
          /\ \A h \in DOMAIN open : open[h].key # k
       \/ \E m \in DOMAIN nodes' \ DOMAIN nodes : nodes'[m].data = nodes[k].data]_vars

-----------------------------------------------------------------------------
(* What the repository says of the stick and a careless program refutes.   *)

\* run-native.cpp:81 and run-wbx.c:177, of the tree the export walks: "export
\* names are relative and clean by construction".  A name is the display path
\* without its leading '/', so that of a file is never empty.
ExportNamesClean ==
  \A k \in DOMAIN nodes : ~nodes[k].isDirectory => nodes[k].displayPath # Root
=============================================================================
