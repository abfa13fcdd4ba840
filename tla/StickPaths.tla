----------------------------- MODULE StickPaths -----------------------------
(***************************************************************************)
(* Paths of the memory stick (waterbox/ram-filesystem.cpp).                *)
(*                                                                         *)
(* A program names a file with a string; what the code tells apart in it   *)
(* is the sequence of its components, so a raw path is a sequence of       *)
(* names, "." and "..".  The separators ('/' and '\'), doubled or          *)
(* trailing, separate and nothing else.  A normalized path is the sequence *)
(* of the names that are left; the root "/" is the empty sequence.  The    *)
(* key of a node is its normalized path in upper case.                     *)
(***************************************************************************)
EXTENDS Integers, Sequences, Functions

CONSTANTS Name,      \* spellings of a path component other than "." and ".."
          Upper,     \* Upper[n]: the spelling std::toupper makes of n
          Dot,       \* "."
          DotDot     \* ".."

ASSUME UpperAssumption ==
  /\ Upper \in [Name -> Name]
  /\ \A n \in Name : Upper[Upper[n]] = Upper[n]

ASSUME DotsAssumption == Dot \notin Name /\ DotDot \notin Name /\ Dot # DotDot

RawName == Name \cup {Dot, DotDot}
Path    == Seq(Name)
Root    == <<>>

\* The components of p without the last one; the root is its own parent.
ParentOf(p) == SubSeq(p, 1, Len(p) - 1)

UpperKey(p) == [i \in 1..Len(p) |-> Upper[p[i]]]

\* What one component of a raw path does to the path built so far.
Enter(p, part) ==
  CASE part = Dot    -> p
    [] part = DotDot -> ParentOf(p)
    [] OTHER         -> Append(p, part)

\* Normalize walks the components from the first to the last.
Normalize(raw) ==
  LET walk[i \in 0..Len(raw)] ==
        IF i = 0 THEN Root ELSE Enter(walk[i - 1], raw[i])
  IN  walk[Len(raw)]

\* k lies strictly below dir: the string of k begins with that of dir and a
\* '/'.  No string begins with the "//" that this makes of the root.
Below(dir, k) ==
  /\ dir # Root
  /\ Len(k) > Len(dir)
  /\ SubSeq(k, 1, Len(dir)) = dir

\* The key of k once the directory `from` above it (or k itself) is at `to`.
Rebase(k, from, to) == to \o SubSeq(k, Len(from) + 1, Len(k))
=============================================================================
