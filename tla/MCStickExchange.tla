-------------------------- MODULE MCStickExchange --------------------------
(* Instances of StickExchange for TLC. *)
EXTENDS StickExchange

MCName  == {"PSP", "psp", "SAVEDATA", "savedata", "GAME", "A", "a", "V1..2"}
MCUpper == [n \in MCName |-> CASE n = "psp" -> "PSP" [] n = "a" -> "A"
                             [] n = "savedata" -> "SAVEDATA" [] OTHER -> n]
MCStandardDirs == {<<"PSP">>, <<"PSP", "SAVEDATA">>, <<"PSP", "GAME">>}
MCSavesUnder == <<"PSP", "SAVEDATA">>
MCDlcUnder   == <<"PSP", "GAME">>

MCRawPath ==
  {<<"PSP", "SAVEDATA">>, <<"PSP", "SAVEDATA", "a">>, <<"PSP", "a">>,
   <<"PSP", "SAVEDATA", "A", "a">>, <<"PSP", "V1..2">>}
MCOpenMode == {{"write", "create"}}
MCChunk    == {<<1>>}

File(path, bytes) == [path |-> path, absolute |-> FALSE, directory |-> FALSE,
                       spoiled |-> FALSE, bytes |-> bytes]

\* A folder taken off a stick; a whole exported tree, in other capitals; an
\* entry that climbs; a directory only; a zip that breaks off half way.
MCSaveZip ==
  {<<File(<<"a", "A">>, <<1>>)>>,
   <<[File(<<"psp">>, <<>>) EXCEPT !.directory = TRUE],
     File(<<"psp", "SAVEDATA", "A">>, <<>>)>>,
   <<File(<<"psp", "a">>, <<2>>), File(<<"PSP", Dot, "A">>, <<1>>)>>,
   <<File(<<"A">>, <<1>>), File(<<DotDot, "A">>, <<1>>)>>,
   <<[File(<<"psp">>, <<>>) EXCEPT !.directory = TRUE]>>,
   <<File(<<"a">>, <<1>>), [File(<<"psp", "a">>, <<2>>) EXCEPT !.spoiled = TRUE]>>,
   <<File(<<"PSP", DotDot, "A">>, <<1>>)>>,
   <<[File(<<"A">>, <<1>>) EXCEPT !.absolute = TRUE]>>}

\* A file in the place of a standard directory; one below where a save may be;
\* a tree that has a save in it, with a file for the game's folder.
MCDlcZip ==
  {<<File(<<"psp", "savedata">>, <<1>>)>>,
   <<File(<<"PSP", "savedata", "A", "a">>, <<>>)>>,
   <<File(<<"PSP", "savedata", "a">>, <<2>>), File(<<"a">>, <<>>)>>}
=============================================================================
