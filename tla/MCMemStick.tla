----------------------------- MODULE MCMemStick -----------------------------
(* Instances of MemStick for TLC. *)
EXTENDS MemStick

MCName  == {"PSP", "A", "a", "B"}
MCUpper == [n \in MCName |-> IF n = "a" THEN "A" ELSE n]

MCStandardDirs == {<<"PSP">>}

\* Names: a directory or a file "A" with two spellings, below the root and
\* below PSP, and what can be inside it; "PSP/../A" is "/A".
NamesRawPath ==
  {<<"PSP">>, <<"A">>, <<"PSP", "a">>, <<"PSP", "B">>, <<"PSP", "A", "B">>,
   <<"PSP", Dot, "B", DotDot, "A">>}
NamesOpenMode == {{"read"}, {"write", "create"}}

\* Contents: one file (and one to rename it to), every kind of access.
ContentsRawPath == {<<"A">>, <<"B">>}
ContentsOpenMode ==
  {{"read"}, {"write", "create"}, {"write", "append", "create"},
   {"write", "create", "truncate"}, {"read", "truncate"},
   {"write", "create", "excl"}}

OneByte   == {<<1>>}
TwoChunks == {<<1>>, <<2, 2>>}
MCSeekOffset == {-1, 0, 2}
=============================================================================
