------------------------------- MODULE Assets -------------------------------
(***************************************************************************)
(* The files PPSSPP itself reads, out of tables in memory: the readers of  *)
(* memory-assets.cpp, and the order pspdrv_boot registers them in.         *)
(*                                                                         *)
(* A path is the sequence of its names, what a file holds a sequence of    *)
(* bytes, and a table a function of the paths in it: no two of its rows    *)
(* have the same path.  PPSSPP's VFS asks its readers in the order they    *)
(* were registered, and the first that knows the path answers; that is not *)
(* in the repository.                                                      *)
(***************************************************************************)
EXTENDS Integers, SequencesExt

CONSTANTS Embedded,   \* g_chimAssets
          FontFiles,  \* pspdrv_font_files
          ReadSize    \* what PPSSPP asks for at once

Byte == 0..255

ASSUME AssetsAssumption ==
  /\ \A path \in DOMAIN Embedded :
       path \in Seq(STRING) /\ path # <<>> /\ Embedded[path] \in Seq(Byte)
  /\ ReadSize \subseteq Nat

VARIABLE open    \* the file that is being read, its place, and what was read

-----------------------------------------------------------------------------
(* A reader is its table.  A definition named X_how is a mutant of X.       *)

\* findAsset.
Has(table, path) == path \in DOMAIN table

\* ReadFile and GetFileInfo.
ReadFile(table, path) == table[path]
SizeOf(table, path) == Len(table[path])

\* The rows below a folder.
Below_direct(table, path) ==
  {a \in DOMAIN table : IsStrictPrefix(path, a) /\ Len(a) = Len(path) + 1}
Below(table, path) == {a \in DOMAIN table : IsStrictPrefix(path, a)}

\* GetFileListing: each folder once, each file with its size.  It answers for
\* a folder if there is anything below it.
HasFolder(table, path) == Below(table, path) # {}
GetFileListing(table, path) ==
  LET Next(a) == a[Len(path) + 1]
      files   == {a \in Below(table, path) : Len(a) = Len(path) + 1}
  IN  [dirs  |-> {Next(a) : a \in Below(table, path) \ files},
       files |-> {[name |-> Next(a), size |-> SizeOf(table, a)] : a \in files}]

\* Chimera_AddFontOverride, which is called once for a font.
FontPath(file) == <<"flash0", "font", file>>
FontOverrides(fonts, given) ==
  [path \in {FontPath(f) : f \in given} |-> fonts[path[3]]]

\* pspdrv_boot: Chimera_CreateFontOverlayReader if there is an override, and
\* Chimera_CreateMemoryAssetReader.
Registered(overrides) ==
  IF DOMAIN overrides # {} THEN <<overrides, Embedded>> ELSE <<Embedded>>

\* PPSSPP's VFS.
Answering(vfs, path) == vfs[SelectInSeq(vfs, LAMBDA table : Has(table, path))]
Exists(vfs, path) == \E i \in DOMAIN vfs : Has(vfs[i], path)
Listing(vfs, path) ==
  GetFileListing(vfs[SelectInSeq(vfs, LAMBDA table : HasFolder(table, path))], path)

-----------------------------------------------------------------------------
(* A file that is read piece by piece.                                     *)

Closed == [name |-> <<>>, bytes |-> <<>>, pos |-> 0, got |-> <<>>]

OpenFileForRead(vfs, path) ==
  /\ open = Closed
  /\ Exists(vfs, path)
  /\ open' = [name |-> path, bytes |-> ReadFile(Answering(vfs, path), path),
              pos |-> 0, got |-> <<>>]

Take(total, length, pos) == IF length < total - pos THEN length ELSE total - pos

Read(length) ==
  /\ open # Closed
  /\ LET take == Take(Len(open.bytes), length, open.pos)
     IN  open' = [open EXCEPT !.pos = @ + take,
                              !.got = @ \o SubSeq(open.bytes, open.pos + 1, open.pos + take)]

Rewind ==
  /\ open # Closed
  /\ open' = [open EXCEPT !.pos = 0, !.got = <<>>]

CloseFile == open # Closed /\ open' = Closed
=============================================================================
