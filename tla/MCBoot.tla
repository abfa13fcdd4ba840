------------------------------- MODULE MCBoot -------------------------------
(* Instances of Boot for TLC. *)
EXTENDS Boot, TLC

MCAtoi == "0" :> 0 @@ "1" :> 1 @@ "333" :> 333 @@ "334" :> 334 @@ "-1" :> -1
  @@ "-720" :> -720 @@ "-721" :> -721 @@ "840" :> 840 @@ "841" :> 841 @@ "100" :> 100
  @@ "99" :> 99 @@ "660" :> 660 @@ "999" :> 999 @@ "1000" :> 1000 @@ "9" :> 9
  @@ "11" :> 11 @@ "12" :> 12
MCScanned ==
  "2017-05-27 12:44:28" :> <<2017, 5, 27, 12, 44, 28>>
  @@ "2000-02-29 23:59:59" :> <<2000, 2, 29, 23, 59, 59>>
  @@ "2001-02-29 00:00:00" :> <<2001, 2, 29, 0, 0, 0>>
  @@ "1969-12-31 23:59:59" :> <<1969, 12, 31, 23, 59, 59>>
  @@ "2017-13-01 00:00:00" :> <<2017, 13, 1, 0, 0, 0>>
  @@ "2017-05-27 24:00:00" :> <<2017, 5, 27, 24, 0, 0>>
MCMac == {"12:34:56:78:9A:BC", "00:00:00:00:00:00"}
MCText == DOMAIN MCAtoi \cup DOMAIN MCScanned \cup MCMac
  \cup UNION {DOMAIN Options[k] : k \in DOMAIN Options}
  \cup {Today, "", "Chimera", "junk", "12:34", "true", "false", "sony"}

Font(file) == <<"flash0", "font", file>>
MCEmbedded ==
  <<"vfpu", "sin.dat">> :> <<1, 2>> @@ <<"compat.ini">> :> <<3>>
  @@ Font("ltn0.pgf") :> <<1, 1, 2>> @@ Font("jpn0.pgf") :> <<2>>
  @@ <<"flash0", "kd">> :> <<>>
MCFontFiles == {"ltn0.pgf", "ltn1.pgf", "jpn0.pgf"}

-----------------------------------------------------------------------------
(* Projects: one with nothing in it, and variations of it.                 *)

Plain ==
  [choices |-> <<>>, package |-> TRUE, fonts |-> <<>>,
   disc |-> [slot |-> <<"d.iso">>, romName |-> <<>>, mounted |-> {<<"d.iso">>}],
   saves |-> <<>>, dlc |-> <<>>, cheats |-> <<>>]

Texts(k) ==
  CASE k \in DOMAIN Options -> DOMAIN Options[k] \cup {"junk"}
    [] k \in DOMAIN Ranges  -> DOMAIN MCAtoi \cup {"junk"}
    [] k \in {"nickname", "macAddress"} -> MCMac \cup {"", "junk", "12:34"}
    [] k = "rtcBase" -> DOMAIN MCScanned \cup {Today, "junk"}
    [] OTHER -> {"true", "false", "1", "0", "junk"}

\* Every setting with every text; some twice; one the core does not know.
Single == UNION {{<<<<k, t>>>> : t \in Texts(k)} : k \in Key}
Several ==
  {<<<<"cpuCore", c>>, <<"language", a>>, <<"timeFormat", "12h">>, <<"language", b>>>> :
     c \in {"jit", "ir-interpreter"}, a \in {"french", "junk"}, b \in {"german", "junk"}}
  \cup {<<<<"fontSource", "sony">>>>,
        <<<<"renderer", "vulkan-hw">>, <<"dateFormat", "dd-mm-yyyy">>>>,
        <<<<"rtcBase", Today>>, <<"cpuCore", "interpreter">>>>}

Opens(valid, files) == [named |-> TRUE, opens |-> TRUE, valid |-> valid, files |-> files]
Lost == [named |-> TRUE, opens |-> FALSE, valid |-> FALSE, files |-> <<>>]
Cheat(text) == [named |-> TRUE, opens |-> TRUE, text |-> text]
Unnamed(file) == [file EXCEPT !.named = FALSE]

SaveLists == {<<>>, <<Opens(TRUE, "s" :> 1)>>,
              <<Opens(TRUE, "s" :> 1 @@ "t" :> 1), Opens(TRUE, "s" :> 2)>>,
              <<Opens(TRUE, "s" :> 1), Opens(FALSE, "t" :> 1)>>, <<Lost>>,
              <<Opens(TRUE, "s" :> 1), Unnamed(Opens(TRUE, "s" :> 2 @@ "t" :> 2))>>}
DlcLists == {<<>>, <<Opens(TRUE, "g" :> 3)>>, <<Opens(TRUE, "s" :> 3)>>,
             <<Opens(FALSE, <<>>)>>, <<Unnamed(Opens(FALSE, <<>>)), Opens(TRUE, "t" :> 4)>>}
CheatLists == {<<>>, <<Cheat("c1")>>, <<Cheat("c1"), Cheat("c2")>>, <<Cheat("")>>,
               <<[Cheat("") EXCEPT !.opens = FALSE]>>,
               <<Unnamed(Cheat("c1")), Cheat("c2")>>}
FontChoices == {<<>>, "ltn0.pgf" :> <<3, 2, 1>>, "ltn0.pgf" :> <<>>,
                "ltn1.pgf" :> <<4>> @@ "ltn0.pgf" :> <<>>,
                "jpn0.pgf" :> <<4, 4>> @@ "ltn0.pgf" :> <<3>>}
Discs ==
  [slot : {<<>>, <<"d.iso">>}, romName : {<<>>, <<"g.iso">>, <<"/", "g.iso">>},
   mounted : {{}, {<<"d.iso">>}, {<<"g.iso">>}, {<<"/", "g.iso">>}, {<<"rom">>}}]

MCProject ==
  {[Plain EXCEPT !.choices = c, !.package = k] : c \in Single \cup Several \cup {<<>>}, k \in BOOLEAN}
  \cup {[Plain EXCEPT !.saves = s, !.dlc = d, !.cheats = c] :
          s \in SaveLists, d \in DlcLists, c \in {<<>>, <<Cheat("c1")>>}}
  \cup {[Plain EXCEPT !.cheats = c, !.fonts = f] : c \in CheatLists, f \in FontChoices}
  \cup {[Plain EXCEPT !.disc = d] : d \in Discs}

\* The epoch, a last of February and a first of March, and a day of 2100.
MCBootDay == {58, 11016, 47541}
=============================================================================
