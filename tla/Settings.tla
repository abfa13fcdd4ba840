------------------------------ MODULE Settings ------------------------------
(***************************************************************************)
(* The settings of the machine: pspdrv_apply_setting of psp-driver.cpp,    *)
(* the configuration it fills (PspDrvConfig of psp-driver.h), and what the *)
(* package offers (waterbox.config).                                       *)
(*                                                                         *)
(* A configuration is a function of the setting's key.  A text is a string *)
(* that is only ever compared; what atoi and sscanf make of the texts that *)
(* are numbers and dates is given by the constants.                        *)
(***************************************************************************)
EXTENDS Calendar, Sequences, Functions

CONSTANTS Text,     \* the texts of settings
          Atoi,     \* those that are numbers, and the numbers
          Scanned,  \* those that are dates, and their six numbers
          Today,    \* the text of the calendar's day, a second before midnight
          WellFormedMac  \* those of 17 characters, pairs of hex digits with :

ASSUME TextAssumption ==
  /\ Today \notin DOMAIN Scanned
  /\ \A t \in DOMAIN Atoi : Atoi[t] \in Int
  /\ \A t \in DOMAIN Scanned : Scanned[t] \in Int \X Int \X Int \X Int \X Int \X Int

DefaultDate == "2017-05-27 12:44:28"

\* What atoi and sscanf make of the package's texts.
ASSUME PackageAssumption ==
  /\ "Chimera" \in Text
  /\ "12:34:56:78:9A:BC" \in WellFormedMac
  /\ {"0", "660", "9"} \subseteq DOMAIN Atoi
  /\ Atoi["0"] = 0 /\ Atoi["660"] = 660 /\ Atoi["9"] = 9
  /\ DefaultDate \in DOMAIN Scanned
  /\ Scanned[DefaultDate] = <<2017, 5, 27, 12, 44, 28>>

-----------------------------------------------------------------------------
(* The tables of pspdrv_apply_setting.                                     *)

Numbered(texts) ==
  [t \in Range(texts) |-> (CHOOSE i \in DOMAIN texts : texts[i] = t) - 1]

\* A choice between texts, and the number each of them stands for.
Options ==
  [renderer   |-> Numbered(<<"software", "vulkan-hw">>),
   cpuCore    |-> Numbered(<<"interpreter", "jit", "ir-interpreter">>),
   pspModel   |-> Numbered(<<"psp-1000", "psp-2000">>),
   language   |-> Numbered(<<"japanese", "english", "french", "spanish",
                             "german", "italian", "dutch", "portuguese",
                             "russian", "korean", "chinese-traditional",
                             "chinese-simplified">>),
   buttonPreference |-> Numbered(<<"circle", "cross">>),
   ioTiming   |-> [t \in {"fast", "simulated", "umd-slow"} |->
                     IF t = "fast" THEN 0 ELSE IF t = "simulated" THEN 2 ELSE 3],
   dateFormat |-> Numbered(<<"yyyy-mm-dd", "mm-dd-yyyy", "dd-mm-yyyy">>),
   timeFormat |-> Numbered(<<"24h", "12h">>)]

Ranges == [cpuClock |-> 0..333, timeZone |-> -720..840,
           firmwareVersion |-> 100..999, parentalLevel |-> 0..11]

\* The texts that make a switch what it is not otherwise.
SwitchedOn  == [daylightSavings |-> {"true", "1"}]
SwitchedOff == [funcReplacements |-> {"false", "0"}, encryptSave |-> {"false", "0"}]

Key == DOMAIN Options \cup DOMAIN Ranges \cup DOMAIN SwitchedOn
         \cup DOMAIN SwitchedOff \cup {"nickname", "macAddress", "rtcBase"}

\* atoi: what is not a number is 0.
Number(text) == IF text \in DOMAIN Atoi THEN Atoi[text] ELSE 0

\* pspdrv_parse_datetime of a text.
DateOf(text) ==
  IF text = Today THEN ParseDatetime(year, month, day, 23, 59, 59)
  ELSE IF text \in DOMAIN Scanned
    THEN LET s == Scanned[text]
         IN  ParseDatetime(s[1], s[2], s[3], s[4], s[5], s[6])
    ELSE NotADate

-----------------------------------------------------------------------------
(* pspdrv_apply_setting.  A definition named X_how is a mutant of X.        *)

Accepts_anyNumber(key, text) ==
  IF key \in DOMAIN Options THEN text \in DOMAIN Options[key] ELSE TRUE
Accepts(key, text) ==
  CASE key \in DOMAIN Options -> text \in DOMAIN Options[key]
    [] key \in DOMAIN Ranges  -> Number(text) \in Ranges[key]
    [] key = "nickname"       -> text # ""
    [] key = "macAddress"     -> text \in WellFormedMac
    [] key = "rtcBase"        -> DateOf(text) # NotADate
    [] OTHER -> key \in DOMAIN SwitchedOn \cup DOMAIN SwitchedOff

Meaning(key, text) ==
  CASE key \in DOMAIN Options     -> Options[key][text]
    [] key \in DOMAIN Ranges      -> Number(text)
    [] key \in DOMAIN SwitchedOn  -> text \in SwitchedOn[key]
    [] key \in DOMAIN SwitchedOff -> text \notin SwitchedOff[key]
    [] key = "rtcBase"            -> DateOf(text)
    [] OTHER -> text

\* The configuration after pspdrv_apply_setting; it is as it was if that
\* returned false.
Applied(cfg, key, text) ==
  IF Accepts(key, text) THEN [cfg EXCEPT ![key] = Meaning(key, text)] ELSE cfg

\* PspDrvConfig's initial values.
Defaults ==
  [cpuCore |-> 1, renderer |-> 0, pspModel |-> 1, language |-> 1,
   nickname |-> "Chimera", buttonPreference |-> 1,
   rtcBase |-> [days |-> 17313, second |-> 45868], \* 1495889068
   cpuClock |-> 0, ioTiming |-> 0, timeZone |-> 0, daylightSavings |-> FALSE,
   firmwareVersion |-> 660, macAddress |-> "12:34:56:78:9A:BC",
   dateFormat |-> 0, timeFormat |-> 0, parentalLevel |-> 9,
   funcReplacements |-> TRUE, encryptSave |-> TRUE]

-----------------------------------------------------------------------------
(* waterbox.config.                                                        *)

\* f, and g where f is not defined.
Over(f, g) ==
  [x \in DOMAIN f \cup DOMAIN g |-> IF x \in DOMAIN f THEN f[x] ELSE g[x]]

\* The texts the package puts under the user's choices.
PackageDefaults ==
  [cpuCore |-> "jit", renderer |-> "software", pspModel |-> "psp-2000",
   language |-> "english", nickname |-> "Chimera", buttonPreference |-> "cross",
   rtcBase |-> DefaultDate, cpuClock |-> "0", ioTiming |-> "fast",
   timeZone |-> "0", daylightSavings |-> "false", firmwareVersion |-> "660",
   macAddress |-> "12:34:56:78:9A:BC", dateFormat |-> "yyyy-mm-dd",
   timeFormat |-> "24h", parentalLevel |-> "9", funcReplacements |-> "true",
   encryptSave |-> "true"]

\* What a machine's configuration can be.
Values(key) ==
  CASE key \in DOMAIN Options -> Range(Options[key])
    [] key \in DOMAIN Ranges  -> Ranges[key]
    [] key = "nickname"       -> Text \ {""}
    [] key = "macAddress"     -> WellFormedMac
    [] key = "rtcBase"        -> [days : Nat, second : SecondOfDay]
    [] OTHER -> BOOLEAN
=============================================================================
