----------------------------- MODULE BootProofs -----------------------------
(***************************************************************************)
(* Theorems about Init and about the native reference, for every project,  *)
(* every table of PPSSPP's files and every calendar up to the last year    *)
(* the code takes.                                                         *)
(*                                                                         *)
(* Everything is one inductive invariant, BootInv: what a program has at   *)
(* each place it can be at is a function of the project and of how far it  *)
(* has come.  What the properties say of a running machine is that of its  *)
(* last place.                                                             *)
(***************************************************************************)
EXTENDS Boot, SequenceTheorems, WellFoundedInduction, TLAPS

-----------------------------------------------------------------------------
(* The last of a few.                                                      *)

\* A set of numbers up to n that is not empty has a greatest, and Max is it.
LEMMA MaxOf ==
  ASSUME NEW n \in Nat, NEW S \in SUBSET (1..n), S # {}
  PROVE  Max(S) \in S /\ \A i \in S : i <= Max(S)
<1>. DEFINE T == {n - i : i \in S}
            Less == OpToRel(<, Nat)
<1>1. T \in SUBSET Nat /\ T # {}
  <2>. HIDE DEF Less
  <2>1. \A i \in S : n - i \in Nat
    OBVIOUS
  <2>. QED BY <2>1
<1>2. IsWellFoundedOn(Less, Nat)
  BY NatLessThanWellFounded
<1>3. PICK m \in T : \A l \in T : ~(<<l, m>> \in Less)
  <2>. HIDE DEF Less, T
  <2>. QED BY <1>1, <1>2, WFMin
<1>4. \A l \in T : <<l, m>> \in Less <=> l < m
  BY DEF OpToRel
<1>5. PICK g \in S : m = n - g
  OBVIOUS
<1>6. \A i \in S : g >= i
  <2>. HIDE DEF Less
  <2>. SUFFICES ASSUME NEW i \in S PROVE g >= i
    OBVIOUS
  <2>1. n - i \in T
    OBVIOUS
  <2>2. ~(n - i < n - g)
    <3>. HIDE DEF T
    <3>1. ~(<<n - i, m>> \in Less)
      BY <1>3, <2>1
    <3>2. <<n - i, m>> \in Less <=> n - i < m
      BY <1>4, <2>1
    <3>. QED BY <1>5, <3>1, <3>2
  <2>3. i \in 1..n /\ g \in 1..n
    BY Zenon
  <2>. HIDE DEF T
  <2>. QED BY <2>2, <2>3
<1>7. \E x \in S : \A y \in S : x >= y
  BY <1>6
<1>8. Max(S) \in S /\ \A y \in S : Max(S) >= y
  BY <1>7, Zenon DEF Max
<1>. QED BY <1>8

-----------------------------------------------------------------------------
(* The clock at power-on.                                                  *)

\* A day later is one day more.
LEMMA NextDay ==
  ASSUME NEW y \in Nat, NEW mo \in 1..12, NEW d \in Nat
  PROVE  DaysFromCivil(y, mo, d + 1) = DaysFromCivil(y, mo, d) + 1
BY DEF DaysFromCivil

\* The first of January is the day after the last of December.
LEMMA NextYear ==
  ASSUME NEW y \in Nat
  PROVE  DaysFromCivil(y + 1, 1, 1) = DaysFromCivil(y, 12, 31) + 1
BY DEF DaysFromCivil

\* The first of March is the day after the last of February: the year of the
\* code begins in March, so that February ends the year before, and at the turn
\* of four centuries the era before.
LEMMA LeapDay ==
  ASSUME NEW y \in Nat \ {0}
  PROVE  DaysFromCivil(y, 3, 1) = DaysFromCivil(y, 2, DaysIn(y, 2)) + 1
<1> DEFINE e   == y \div 400
           r   == y - e * 400
           Doe(n) == n * 365 + n \div 4 - n \div 100
<1>1. e \in Nat /\ r \in 0..399 /\ y = e * 400 + r
  OBVIOUS
<1>2. DaysFromCivil(y, 3, 1) = e * 146097 + Doe(r) - 719468
  BY DEF DaysFromCivil
<1>3. DaysIn(y, 2) = IF r % 4 = 0 /\ (r % 100 # 0 \/ r = 0) THEN 29 ELSE 28
  <2>1. y % 4 = r % 4 /\ y % 100 = r % 100 /\ (y % 400 = 0 <=> r = 0)
    BY <1>1
  <2> QED
    BY <2>1, <1>1 DEF DaysIn, IsLeap
<1>4. CASE r = 0
  <2>1. (y - 1) \div 400 = e - 1 /\ y - 1 - (e - 1) * 400 = 399
    BY <1>1, <1>4
  <2>2. DaysFromCivil(y, 2, 29) = (e - 1) * 146097 + Doe(399) + 365 - 719468
    BY <2>1 DEF DaysFromCivil
  <2> QED
    BY <1>1, <1>2, <1>3, <1>4, <2>2
<1>5. CASE r # 0
  <2>1. (y - 1) \div 400 = e /\ y - 1 - e * 400 = r - 1
    BY <1>1, <1>5
  <2>2. \A d \in Nat : DaysFromCivil(y, 2, d) = e * 146097 + Doe(r - 1) + 336 + d - 719468
    BY <2>1 DEF DaysFromCivil
  <2>3. Doe(r) = Doe(r - 1) + (IF r % 4 = 0 /\ r % 100 # 0 THEN 366 ELSE 365)
    BY <1>1, <1>5
  <2>4. DaysFromCivil(y, 2, DaysIn(y, 2)) =
          e * 146097 + Doe(r - 1) + 336 + DaysIn(y, 2) - 719468
    <3>1. DaysIn(y, 2) \in Nat
      BY <1>3
    <3> QED
      BY <2>2, <3>1
  <2>5. DaysIn(y, 2) = IF r % 4 = 0 /\ r % 100 # 0 THEN 29 ELSE 28
    BY <1>3, <1>5
  <2>6. Doe(r - 1) \in Int /\ e \in Int
    BY <1>1
  <2> HIDE DEF Doe, e, r
  <2> QED
    BY <1>2, <2>3, <2>4, <2>5, <2>6
<1> QED
  BY <1>4, <1>5

\* The first of a month is the day after the last of the one before.
LEMMA NextMonth ==
  ASSUME NEW y \in Nat \ {0}, NEW mo \in 1..11
  PROVE  DaysFromCivil(y, mo + 1, 1) = DaysFromCivil(y, mo, DaysIn(y, mo)) + 1
<1>1. CASE mo = 2
  BY <1>1, LeapDay
<1>2. CASE mo # 2
  BY <1>2 DEF DaysFromCivil, DaysIn
<1> QED
  BY <1>1, <1>2

-----------------------------------------------------------------------------
(* The calendar.                                                           *)

\* A date of the calendar, as many days after the first as were counted.
DateInv ==
  /\ year \in 1970..LastYear
  /\ month \in 1..12
  /\ day \in 1..DaysIn(year, month)
  /\ passed = DaysFromCivil(year, month, day)

LEMMA MonthsHaveDays ==
  ASSUME NEW y \in Nat, NEW mo \in 1..12
  PROVE  DaysIn(y, mo) \in 28..31
BY DEF DaysIn

LEMMA FirstDay == Init => DateInv
<1>1. DaysFromCivil(1970, 1, 1) = 0
  BY DEF DaysFromCivil
<1>2. DaysIn(1970, 1) = 31
  BY DEF DaysIn
<1> QED
  BY <1>1, <1>2, CalendarAssumption DEF Init, DateInv

LEMMA DateStep == DateInv /\ [Midnight]_vars => DateInv'
<1> SUFFICES ASSUME DateInv, [Midnight]_vars
             PROVE  DateInv'
  OBVIOUS
<1> USE CalendarAssumption
<1>1. /\ year \in Nat \ {0} /\ month \in 1..12 /\ day \in Nat
      /\ DaysIn(year, month) \in 28..31
  BY MonthsHaveDays DEF DateInv
<1>2. CASE day < DaysIn(year, month) /\ day' = day + 1 /\ UNCHANGED <<year, month>>
           /\ passed' = passed + 1
  BY <1>1, <1>2, NextDay DEF DateInv
<1>3. CASE /\ day = DaysIn(year, month) /\ month < 12 /\ month' = month + 1
           /\ day' = 1 /\ UNCHANGED year /\ passed' = passed + 1
  <2>1. month \in 1..11 /\ month' \in 1..12
    BY <1>1, <1>3
  <2>2. DaysIn(year', month') \in 28..31
    BY <1>1, <1>3, <2>1, MonthsHaveDays
  <2> QED
    BY <1>1, <1>3, <2>1, <2>2, NextMonth DEF DateInv
<1>4. CASE /\ day = 31 /\ month = 12 /\ year < LastYear /\ year' = year + 1
           /\ month' = 1 /\ day' = 1 /\ passed' = passed + 1
  <2>1. DaysIn(year', month') \in 28..31
    BY <1>1, <1>4, MonthsHaveDays
  <2> QED
    BY <1>1, <1>4, <2>1, NextYear DEF DateInv
<1>5. CASE UNCHANGED vars
  BY <1>5 DEF DateInv, vars
<1> QED
  BY <1>2, <1>3, <1>4, <1>5 DEF Midnight

-----------------------------------------------------------------------------
(* What the settings mean.                                                 *)

\* The six kinds of keys have no key in common.
LEMMA Kinds ==
  /\ DOMAIN Options = {"renderer", "cpuCore", "pspModel", "language", "buttonPreference",
                       "ioTiming", "dateFormat", "timeFormat"}
  /\ DOMAIN Ranges = {"cpuClock", "timeZone", "firmwareVersion", "parentalLevel"}
  /\ DOMAIN SwitchedOn = {"daylightSavings"}
  /\ DOMAIN SwitchedOff = {"funcReplacements", "encryptSave"}
<1>1. DOMAIN Options = {"renderer", "cpuCore", "pspModel", "language", "buttonPreference",
                       "ioTiming", "dateFormat", "timeFormat"}
  BY DEF Options
<1>2. DOMAIN Ranges = {"cpuClock", "timeZone", "firmwareVersion", "parentalLevel"}
  BY DEF Ranges
<1>3. DOMAIN SwitchedOn = {"daylightSavings"}
  BY DEF SwitchedOn
<1>4. DOMAIN SwitchedOff = {"funcReplacements", "encryptSave"}
  BY DEF SwitchedOff
<1>. QED BY <1>1, <1>2, <1>3, <1>4

\* The count of days is not negative from the March before 1970 on.
LEMMA EraDays ==
  ASSUME NEW yy \in Nat, yy >= 1969, NEW doy \in Nat, yy = 1969 => doy >= 306,
         NEW e, NEW r, e = yy \div 400, r = yy - e * 400
  PROVE  e * 146097 + (r * 365 + r \div 4 - r \div 100 + doy) - 719468 \in Nat
<1>1. e \in Nat /\ r \in 0..399 /\ yy = e * 400 + r
  OBVIOUS
<1>2. r \div 4 - r \div 100 \in Nat
  BY <1>1
<1>3. CASE e >= 5
  BY <1>1, <1>2, <1>3
<1>4. CASE e = 4
  <2>1. r >= 369
    BY <1>1, <1>4
  <2>2. r \div 4 - r \div 100 >= 89
    BY <1>1, <2>1
  <2>3. r = 369 => doy >= 306
    BY <1>1, <1>4
  <2>. QED BY <1>1, <1>4, <2>1, <2>2, <2>3
<1>. QED BY <1>1, <1>3, <1>4

\* A date that is accepted is not before 1970, and is a second of a day.
LEMMA DateTyped ==
  ASSUME NEW y \in Int, NEW mo \in Int, NEW d \in Int,
         NEW h \in Int, NEW mi \in Int, NEW se \in Int,
         ParseDatetime(y, mo, d, h, mi, se) # NotADate
  PROVE  ParseDatetime(y, mo, d, h, mi, se) \in [days : Nat, second : SecondOfDay]
<1>1. /\ mo \in 1..12 /\ d \in 1..31 /\ y \in 1970..9999
      /\ h \in 0..23 /\ mi \in 0..59 /\ se \in 0..59
  BY DEF ParseDatetime
<1>2. DaysFromCivil(y, mo, d) \in Nat
  <2>1. PICK yy : yy = IF mo <= 2 THEN y - 1 ELSE y
    OBVIOUS
  <2>2. PICK doy : doy = (153 * (mo + (IF mo > 2 THEN -3 ELSE 9)) + 2) \div 5 + d - 1
    OBVIOUS
  <2>3. PICK e, r : e = yy \div 400 /\ r = yy - e * 400
    OBVIOUS
  <2>4. DaysFromCivil(y, mo, d) =
          e * 146097 + (r * 365 + r \div 4 - r \div 100 + doy) - 719468
    BY <2>1, <2>2, <2>3 DEF DaysFromCivil
  <2>5. yy \in Nat /\ yy >= 1969 /\ doy \in Nat /\ (yy = 1969 => doy >= 306)
    BY <1>1, <2>1, <2>2
  <2>. QED BY <2>3, <2>4, <2>5, EraDays
<1>3. h * 3600 + mi * 60 + se \in SecondOfDay
  <2>1. h >= 0 /\ h <= 23 /\ mi >= 0 /\ mi <= 59 /\ se >= 0 /\ se <= 59
    BY <1>1
  <2>2. /\ h * 3600 + mi * 60 + se \in Int
        /\ h * 3600 + mi * 60 + se >= 0
        /\ h * 3600 + mi * 60 + se < 86400
    BY <2>1
  <2>. QED BY <2>2 DEF SecondOfDay
<1>4. ParseDatetime(y, mo, d, h, mi, se) =
        [days |-> DaysFromCivil(y, mo, d), second |-> h * 3600 + mi * 60 + se]
  BY <1>1, SMTT(60) DEF ParseDatetime
<1>. QED BY <1>2, <1>3, <1>4

\* No day of the calendar is refused.
LEMMA EachDay ==
  ASSUME DateInv
  PROVE  DaysAreCounted
<1>1. year \in 1970..9999 /\ month \in 1..12 /\ DaysIn(year, month) \in 28..31
  BY CalendarAssumption, MonthsHaveDays, SMTT(30) DEF DateInv
<1>2. day \in 1..31
  BY <1>1 DEF DateInv
<1>. QED BY <1>1, <1>2 DEF DateInv, DaysAreCounted, ParseDatetime

\* What a text means as a date, if it means one.
LEMMA DateOfTyped ==
  ASSUME DateInv, NEW text, DateOf(text) # NotADate
  PROVE  DateOf(text) \in [days : Nat, second : SecondOfDay]
<1>1. CASE text = Today
  <2>1. year \in Int /\ month \in Int /\ day \in Int
    BY CalendarAssumption, MonthsHaveDays DEF DateInv
  <2>2. DateOf(text) = ParseDatetime(year, month, day, 23, 59, 59)
    BY <1>1 DEF DateOf
  <2>. QED BY <2>1, <2>2, DateTyped
<1>2. CASE text # Today /\ text \in DOMAIN Scanned
  <2>1. PICK s : s = Scanned[text]
    OBVIOUS
  <2>2. /\ s[1] \in Int /\ s[2] \in Int /\ s[3] \in Int
        /\ s[4] \in Int /\ s[5] \in Int /\ s[6] \in Int
    <3>1. s \in Int \X Int \X Int \X Int \X Int \X Int
      BY <1>2, <2>1, TextAssumption
    <3>. QED BY <3>1
  <2>3. DateOf(text) = ParseDatetime(s[1], s[2], s[3], s[4], s[5], s[6])
    BY <1>2, <2>1 DEF DateOf
  <2>4. ParseDatetime(s[1], s[2], s[3], s[4], s[5], s[6]) # NotADate
    BY <2>3
  <2>5. ParseDatetime(s[1], s[2], s[3], s[4], s[5], s[6]) \in [days : Nat, second : SecondOfDay]
    BY <2>2, <2>4, DateTyped, Zenon
  <2>. QED BY <2>3, <2>5
<1>3. CASE text # Today /\ text \notin DOMAIN Scanned
  BY <1>3 DEF DateOf
<1>. QED BY <1>1, <1>2, <1>3

\* Accepts and Meaning, kind by kind.
LEMMA OfKind ==
  ASSUME NEW k, NEW t
  PROVE  /\ k \in DOMAIN Options =>
              (Accepts(k, t) <=> t \in DOMAIN Options[k]) /\ Meaning(k, t) = Options[k][t]
         /\ k \in DOMAIN Ranges =>
              (Accepts(k, t) <=> Number(t) \in Ranges[k]) /\ Meaning(k, t) = Number(t)
         /\ k = "nickname" => (Accepts(k, t) <=> t # "") /\ Meaning(k, t) = t
         /\ k = "macAddress" => (Accepts(k, t) <=> t \in WellFormedMac) /\ Meaning(k, t) = t
         /\ k = "rtcBase" =>
              (Accepts(k, t) <=> DateOf(t) # NotADate) /\ Meaning(k, t) = DateOf(t)
         /\ k \in DOMAIN SwitchedOn =>
              Accepts(k, t) /\ Meaning(k, t) = (t \in SwitchedOn[k])
         /\ k \in DOMAIN SwitchedOff =>
              Accepts(k, t) /\ Meaning(k, t) = (t \notin SwitchedOff[k])
<1>. USE Kinds
<1>1. CASE k \in DOMAIN Options
  BY <1>1 DEF Accepts, Meaning
<1>2. CASE k \in DOMAIN Ranges
  BY <1>2 DEF Accepts, Meaning
<1>3. CASE k = "nickname"
  BY <1>3 DEF Accepts, Meaning
<1>4. CASE k = "macAddress"
  BY <1>4 DEF Accepts, Meaning
<1>5. CASE k = "rtcBase"
  BY <1>5 DEF Accepts, Meaning
<1>6. CASE k \in DOMAIN SwitchedOn
  BY <1>6 DEF Accepts, Meaning
<1>7. CASE k \in DOMAIN SwitchedOff
  BY <1>7 DEF Accepts, Meaning
<1>. QED BY <1>1, <1>2, <1>3, <1>4, <1>5, <1>6, <1>7

\* What the core takes is a setting it has, and makes of it one of its values.
LEMMA AcceptedTyped ==
  ASSUME DateInv, NEW k, NEW t, Accepts(k, t), k = "nickname" => t \in Text
  PROVE  k \in Key /\ Meaning(k, t) \in Values(k)
<1>. USE Kinds
<1>1. CASE k \in DOMAIN Options
  <2>1. k \in Key /\ Meaning(k, t) = Options[k][t] /\ t \in DOMAIN Options[k]
        /\ Values(k) = Range(Options[k])
    BY <1>1 DEF Key, Accepts, Meaning, Values
  <2>. QED BY <2>1 DEF Range
<1>2. CASE k \in DOMAIN Ranges
  BY <1>2 DEF Key, Accepts, Meaning, Values
<1>3. CASE k = "nickname"
  BY <1>3 DEF Key, Accepts, Meaning, Values
<1>4. CASE k = "macAddress"
  BY <1>4 DEF Key, Accepts, Meaning, Values
<1>5. CASE k = "rtcBase"
  <2>1. k \in Key /\ Meaning(k, t) = DateOf(t) /\ DateOf(t) # NotADate
        /\ Values(k) = [days : Nat, second : SecondOfDay]
    BY <1>5 DEF Key, Accepts, Meaning, Values
  <2>. QED BY <2>1, DateOfTyped
<1>6. CASE k \in DOMAIN SwitchedOn
  BY <1>6 DEF Key, Accepts, Meaning, Values
<1>7. CASE k \in DOMAIN SwitchedOff
  BY <1>7 DEF Key, Accepts, Meaning, Values
<1>8. \/ k \in DOMAIN Options \/ k \in DOMAIN Ranges \/ k = "nickname" \/ k = "macAddress"
      \/ k = "rtcBase" \/ k \in DOMAIN SwitchedOn \/ k \in DOMAIN SwitchedOff
  BY DEF Accepts
<1>. QED BY <1>1, <1>2, <1>3, <1>4, <1>5, <1>6, <1>7, <1>8

\* matchOption: the place of a text.
LEMMA NumberedAt ==
  ASSUME NEW texts, NEW i \in DOMAIN texts, \A j \in DOMAIN texts : texts[j] = texts[i] => j = i
  PROVE  texts[i] \in DOMAIN Numbered(texts) /\ Numbered(texts)[texts[i]] = i - 1
<1>. DEFINE at == CHOOSE j \in DOMAIN texts : texts[j] = texts[i]
<1>1. at = i
  BY Zenon
<1>2. texts[i] \in Range(texts)
  BY DEF Range
<1>3. /\ DOMAIN Numbered(texts) = Range(texts)
      /\ Numbered(texts)[texts[i]] = at - 1
  BY <1>2, Zenon DEF Numbered
<1>. HIDE DEF at
<1>. QED BY <1>1, <1>2, <1>3

\* The text the package puts under each setting is what the header starts from.
Agreed(k) ==
  Accepts(k, PackageDefaults[k]) /\ Meaning(k, PackageDefaults[k]) = Defaults[k]

\* Of a choice between texts, the default has the number of its place.
LEMMA OptionAgreed ==
  ASSUME NEW k \in DOMAIN Options, NEW texts, NEW i \in DOMAIN texts,
         \A j \in DOMAIN texts : texts[j] = texts[i] => j = i,
         Options[k] = Numbered(texts), PackageDefaults[k] = texts[i], Defaults[k] = i - 1
  PROVE  Agreed(k)
<1>1. texts[i] \in DOMAIN Numbered(texts) /\ Numbered(texts)[texts[i]] = i - 1
  BY NumberedAt
<1>2. Accepts(k, texts[i])
  BY <1>1, Kinds DEF Accepts
<1>3. Meaning(k, texts[i]) = i - 1
  BY <1>1, Kinds DEF Meaning
<1>. QED BY <1>2, <1>3 DEF Agreed

LEMMA OptionsAgreed == \A k \in DOMAIN Options : Agreed(k)
<1>1. Agreed("renderer")
  <2>1. PICK texts : texts = <<"software", "vulkan-hw">>
    OBVIOUS
  <2>2. 1 \in DOMAIN texts /\ \A j \in DOMAIN texts : texts[j] = texts[1] => j = 1
    BY <2>1
  <2>3. "renderer" \in DOMAIN Options /\ Options["renderer"] = Numbered(texts)
    BY <2>1 DEF Options
  <2>4. PackageDefaults["renderer"] = texts[1] /\ Defaults["renderer"] = 1 - 1
    BY <2>1 DEF PackageDefaults, Defaults
  <2>. QED BY <2>2, <2>3, <2>4, OptionAgreed
<1>2. Agreed("cpuCore")
  <2>1. PICK texts : texts = <<"interpreter", "jit", "ir-interpreter">>
    OBVIOUS
  <2>2. 2 \in DOMAIN texts /\ \A j \in DOMAIN texts : texts[j] = texts[2] => j = 2
    BY <2>1
  <2>3. "cpuCore" \in DOMAIN Options /\ Options["cpuCore"] = Numbered(texts)
    BY <2>1 DEF Options
  <2>4. PackageDefaults["cpuCore"] = texts[2] /\ Defaults["cpuCore"] = 2 - 1
    BY <2>1 DEF PackageDefaults, Defaults
  <2>. QED BY <2>2, <2>3, <2>4, OptionAgreed
<1>3. Agreed("pspModel")
  <2>1. PICK texts : texts = <<"psp-1000", "psp-2000">>
    OBVIOUS
  <2>2. 2 \in DOMAIN texts /\ \A j \in DOMAIN texts : texts[j] = texts[2] => j = 2
    BY <2>1
  <2>3. "pspModel" \in DOMAIN Options /\ Options["pspModel"] = Numbered(texts)
    BY <2>1 DEF Options
  <2>4. PackageDefaults["pspModel"] = texts[2] /\ Defaults["pspModel"] = 2 - 1
    BY <2>1 DEF PackageDefaults, Defaults
  <2>. QED BY <2>2, <2>3, <2>4, OptionAgreed
<1>4. Agreed("language")
  <2>1. PICK texts : texts = <<"japanese", "english", "french", "spanish",
                         "german", "italian", "dutch", "portuguese",
                         "russian", "korean", "chinese-traditional", "chinese-simplified">>
    OBVIOUS
  <2>2. 2 \in DOMAIN texts /\ \A j \in DOMAIN texts : texts[j] = texts[2] => j = 2
    BY <2>1
  <2>3. "language" \in DOMAIN Options /\ Options["language"] = Numbered(texts)
    BY <2>1 DEF Options
  <2>4. PackageDefaults["language"] = texts[2] /\ Defaults["language"] = 2 - 1
    BY <2>1 DEF PackageDefaults, Defaults
  <2>. QED BY <2>2, <2>3, <2>4, OptionAgreed
<1>5. Agreed("buttonPreference")
  <2>1. PICK texts : texts = <<"circle", "cross">>
    OBVIOUS
  <2>2. 2 \in DOMAIN texts /\ \A j \in DOMAIN texts : texts[j] = texts[2] => j = 2
    BY <2>1
  <2>3. "buttonPreference" \in DOMAIN Options /\ Options["buttonPreference"] = Numbered(texts)
    BY <2>1 DEF Options
  <2>4. PackageDefaults["buttonPreference"] = texts[2] /\ Defaults["buttonPreference"] = 2 - 1
    BY <2>1 DEF PackageDefaults, Defaults
  <2>. QED BY <2>2, <2>3, <2>4, OptionAgreed
<1>6. Agreed("dateFormat")
  <2>1. PICK texts : texts = <<"yyyy-mm-dd", "mm-dd-yyyy", "dd-mm-yyyy">>
    OBVIOUS
  <2>2. 1 \in DOMAIN texts /\ \A j \in DOMAIN texts : texts[j] = texts[1] => j = 1
    BY <2>1
  <2>3. "dateFormat" \in DOMAIN Options /\ Options["dateFormat"] = Numbered(texts)
    BY <2>1 DEF Options
  <2>4. PackageDefaults["dateFormat"] = texts[1] /\ Defaults["dateFormat"] = 1 - 1
    BY <2>1 DEF PackageDefaults, Defaults
  <2>. QED BY <2>2, <2>3, <2>4, OptionAgreed
<1>7. Agreed("timeFormat")
  <2>1. PICK texts : texts = <<"24h", "12h">>
    OBVIOUS
  <2>2. 1 \in DOMAIN texts /\ \A j \in DOMAIN texts : texts[j] = texts[1] => j = 1
    BY <2>1
  <2>3. "timeFormat" \in DOMAIN Options /\ Options["timeFormat"] = Numbered(texts)
    BY <2>1 DEF Options
  <2>4. PackageDefaults["timeFormat"] = texts[1] /\ Defaults["timeFormat"] = 1 - 1
    BY <2>1 DEF PackageDefaults, Defaults
  <2>. QED BY <2>2, <2>3, <2>4, OptionAgreed
<1>8. Agreed("ioTiming")
  <2>1. "ioTiming" \in DOMAIN Options /\ "fast" \in DOMAIN Options["ioTiming"]
        /\ Options["ioTiming"]["fast"] = 0
    BY DEF Options
  <2>2. PackageDefaults["ioTiming"] = "fast" /\ Defaults["ioTiming"] = 0
    BY DEF PackageDefaults, Defaults
  <2>3. Accepts("ioTiming", "fast")
    BY <2>1, Kinds DEF Accepts
  <2>4. Meaning("ioTiming", "fast") = 0
    BY <2>1, Kinds DEF Meaning
  <2>. QED BY <2>2, <2>3, <2>4 DEF Agreed
<1>. QED
  BY <1>1, <1>2, <1>3, <1>4, <1>5, <1>6, <1>7, <1>8, Kinds

\* Of a number, the default is in its range.
LEMMA RangesAgreed == \A k \in DOMAIN Ranges : Agreed(k)
<1>1. /\ Ranges["cpuClock"] = 0..333 /\ Ranges["timeZone"] = -720..840
      /\ Ranges["firmwareVersion"] = 100..999 /\ Ranges["parentalLevel"] = 0..11
  BY DEF Ranges
<1>2. /\ PackageDefaults["cpuClock"] = "0" /\ PackageDefaults["timeZone"] = "0"
      /\ PackageDefaults["firmwareVersion"] = "660" /\ PackageDefaults["parentalLevel"] = "9"
      /\ Defaults["cpuClock"] = 0 /\ Defaults["timeZone"] = 0
      /\ Defaults["firmwareVersion"] = 660 /\ Defaults["parentalLevel"] = 9
  BY DEF PackageDefaults, Defaults
<1>3. Number("0") = 0
  BY PackageAssumption DEF Number
<1>4. Number("660") = 660
  BY PackageAssumption DEF Number
<1>5. Number("9") = 9
  BY PackageAssumption DEF Number
<1>6. \A k \in DOMAIN Ranges :
        /\ Number(PackageDefaults[k]) \in Ranges[k]
        /\ Number(PackageDefaults[k]) = Defaults[k]
  BY <1>1, <1>2, <1>3, <1>4, <1>5, Kinds
<1>. QED BY <1>6, OfKind DEF Agreed

\* 1495889068 seconds.
LEMMA DateAgreed == Agreed("rtcBase")
<1>1. PackageDefaults["rtcBase"] = DefaultDate
  BY DEF PackageDefaults
<1>7. Defaults["rtcBase"] = [days |-> 17313, second |-> 45868]
  BY SMT DEF Defaults
<1>2. DateOf(DefaultDate) = ParseDatetime(2017, 5, 27, 12, 44, 28)
  BY PackageAssumption, TextAssumption DEF DateOf
<1>3. DaysFromCivil(2017, 5, 27) = 17313
  BY DEF DaysFromCivil
<1>4. ParseDatetime(2017, 5, 27, 12, 44, 28) = [days |-> 17313, second |-> 45868]
  BY <1>3 DEF ParseDatetime
<1>5. Accepts("rtcBase", DefaultDate)
  <2>1. DateOf(DefaultDate).second = 45868 /\ NotADate.second = -1
    BY <1>2, <1>4 DEF NotADate
  <2>2. DateOf(DefaultDate) # NotADate
    BY <2>1
  <2>. QED BY <2>2, Kinds DEF Accepts
<1>6. Meaning("rtcBase", DefaultDate) = DateOf(DefaultDate)
  BY Kinds DEF Meaning
<1>. QED BY <1>7, <1>1, <1>2, <1>4, <1>5, <1>6 DEF Agreed

\* A membership that does not hold is FALSE.
LEMMA NotIn ==
  ASSUME NEW x, NEW S, NEW b, b = (x \in S), x \notin S
  PROVE  b = FALSE
<1>1. b \in BOOLEAN
  OBVIOUS
<1>2. ~b
  BY Zenon
<1>. QED BY <1>1, <1>2

LEMMA DefaultsAgreed == \A k \in Key : Agreed(k)
<1>1. Agreed("nickname")
  <2>1. PackageDefaults["nickname"] = "Chimera" /\ Defaults["nickname"] = "Chimera"
    BY DEF PackageDefaults, Defaults
  <2>. QED BY <2>1, OfKind DEF Agreed
<1>2. Agreed("macAddress")
  <2>1. /\ PackageDefaults["macAddress"] = "12:34:56:78:9A:BC"
        /\ Defaults["macAddress"] = "12:34:56:78:9A:BC"
    BY DEF PackageDefaults, Defaults
  <2>2. Accepts("macAddress", "12:34:56:78:9A:BC")
    BY Kinds, PackageAssumption DEF Accepts
  <2>3. Meaning("macAddress", "12:34:56:78:9A:BC") = "12:34:56:78:9A:BC"
    BY Kinds DEF Meaning
  <2>. QED BY <2>1, <2>2, <2>3 DEF Agreed
<1>3. Agreed("daylightSavings")
  <2>1. /\ PackageDefaults["daylightSavings"] = "false" /\ Defaults["daylightSavings"] = FALSE
        /\ SwitchedOn["daylightSavings"] = {"true", "1"}
    BY DEF PackageDefaults, Defaults, SwitchedOn
  <2>2. "false" \notin SwitchedOn["daylightSavings"]
    BY <2>1
  <2>3. Accepts("daylightSavings", "false")
    BY Kinds DEF Accepts
  <2>4. Meaning("daylightSavings", "false") = ("false" \in SwitchedOn["daylightSavings"])
    <3>1. "daylightSavings" \in DOMAIN SwitchedOn
      BY Kinds
    <3>. QED BY <3>1, OfKind, Zenon
  <2>5. Meaning("daylightSavings", "false") = FALSE
    BY <2>2, <2>4, NotIn, Zenon
  <2>. QED BY <2>1, <2>3, <2>5 DEF Agreed
<1>4. ASSUME NEW k \in {"funcReplacements", "encryptSave"} PROVE Agreed(k)
  <2>1. /\ PackageDefaults[k] = "true" /\ Defaults[k] = TRUE
        /\ SwitchedOff[k] = {"false", "0"}
    BY DEF PackageDefaults, Defaults, SwitchedOff
  <2>2. "true" \notin SwitchedOff[k] /\ k \in DOMAIN SwitchedOff
    BY <2>1, Kinds
  <2>. QED BY <2>1, <2>2, OfKind, Zenon DEF Agreed
<1>. QED
  BY <1>1, <1>2, <1>3, <1>4, OptionsAgreed, RangesAgreed, DateAgreed, Kinds DEF Key

-----------------------------------------------------------------------------
(* The invariant.                                                          *)

Fields == {"at", "done", "cfg", "rows", "zips", "stick", "cheats", "path", "error", "machine"}
AnyValue == UNION {Values(k) : k \in Key}

\* A program's record, and how far it is in the loops.
Shaped(s) ==
  /\ DOMAIN s = Fields
  /\ s.at \in Stage
  /\ s.done \in Nat
  /\ s.at \notin {"settings", "seeds", "refused"} => s.done = 0

CfgTyped(s) ==
  /\ s.cfg \in [Key -> AnyValue]
  /\ \A k \in Key : s.cfg[k] \in Values(k)

\* Of the keys Init has asked for, those that the core takes.
GuestSeen(s) ==
  IF s.at = "off" THEN 0 ELSE IF s.at = "settings" THEN s.done ELSE Len(SettingKeys)
Takes(p, k) == k \in DOMAIN Mounted(p) /\ Accepts(k, Mounted(p)[k])
GuestChose(p, s) ==
  s.at # "refused" =>
    /\ s.at = "settings" => s.done < Len(SettingKeys)
    /\ \A k \in Key :
         s.cfg[k] = IF (\E i \in 1..GuestSeen(s) : SettingKeys[i] = k) /\ Takes(p, k)
                      THEN Meaning(k, Mounted(p)[k])
                      ELSE Idle("guest").cfg[k]

\* Of the --set arguments the reference has been through, each was taken, and the
\* last for a key counts.
NativeSeen(p, s) ==
  IF s.at = "off" THEN 0 ELSE IF s.at = "settings" THEN s.done ELSE Len(p.choices)
NativeChose(p, s) ==
  LET n    == NativeSeen(p, s)
      k(i) == p.choices[i][1]
      t(i) == p.choices[i][2]
  IN  s.at # "refused" =>
        /\ n \in 0..Len(p.choices)
        /\ \A i \in 1..n : Accepts(k(i), t(i))
        /\ \A key \in Key : (\A i \in 1..n : k(i) # key) => s.cfg[key] = Defaults[key]
        /\ \A i \in 1..n : (\A j \in i + 1..n : k(j) # k(i)) => s.cfg[k(i)] = Meaning(k(i), t(i))

Chose(p, h, s) == IF h = "guest" THEN GuestChose(p, s) ELSE NativeChose(p, s)

\* The fonts are read together with the choice of the archives.
WithFonts(h) ==
  IF h = "guest" THEN {"seeds", "cheats", "boot", "running"}
                 ELSE {"settings", "seeds", "boot", "running"}
RowsRead(p, h, s) ==
  /\ s.rows \in {<<>>, FontRows(p)}
  /\ s.at \in WithFonts(h) => s.rows = FontRows(p)

\* The first n archives one over the other.
Laid(stick, zips, n) ==
  /\ IsAFcn(stick)
  /\ DOMAIN stick = UNION {DOMAIN zips[i].files : i \in 1..n}
  /\ \A i \in 1..n : \A f \in DOMAIN zips[i].files :
       (\A j \in i + 1..n : f \notin DOMAIN zips[j].files) => stick[f] = zips[i].files[f]
\* What each archive brings a program.
Taken(h, zips) ==
  [i \in 1..Len(zips) |-> [files |-> IF Skipped(h, zips[i]) THEN <<>> ELSE zips[i].files]]
Archives(p, h) == IF h = "guest" THEN {Seeds(p)} ELSE NativeSeeds(p)
ZipsSeen(s) ==
  IF s.at \in {"cheats", "boot", "running"} THEN Len(s.zips)
  ELSE IF s.at = "seeds" THEN s.done ELSE 0
Stocked(p, h, s) ==
  s.at # "refused" =>
    /\ s.at \in WithFonts(h) => s.zips \in Archives(p, h)
    /\ s.at \notin WithFonts(h) => s.zips = <<>>
    /\ ZipsSeen(s) <= Len(s.zips)
    /\ \A i \in 1..ZipsSeen(s) :
         Skipped(h, s.zips[i]) \/ (s.zips[i].opens /\ s.zips[i].valid)
    /\ Laid(s.stick, Taken(h, s.zips), ZipsSeen(s))

CheatsRead(p, h, s) ==
  s.at # "refused" =>
    s.cheats = IF h = "guest" /\ s.at \in {"boot", "running"}
                    /\ p.cheats # <<>> /\ p.cheats[1].named
                 THEN p.cheats[1].text ELSE ""

DiscSought(p, h, s) == h = "guest" /\ s.at # "off" => s.path = DiscPath(p.disc)

Told(s) == s.at = "refused" => s.error # ""

\* What runs is what was set up, and has the renderer that was asked for.
Started(h, s) ==
  s.at = "running" =>
    /\ s.machine = Configured(h, s)
    /\ s.cfg["renderer"] = 1 => h = "guest" /\ bridge = "installed"

SideOK(p, h, s) ==
  /\ Shaped(s) /\ CfgTyped(s) /\ Chose(p, h, s) /\ RowsRead(p, h, s) /\ Stocked(p, h, s)
  /\ CheatsRead(p, h, s) /\ DiscSought(p, h, s) /\ Told(s) /\ Started(h, s)

\* Nothing has begun before there is a project.
Began ==
  IF project = NoProject THEN bridge = "none" /\ \A h \in Host : side[h] = Idle(h)
                         ELSE IsProject(project)

\* What was read of the file that is open.
Reading ==
  open # Closed =>
    /\ Reached("guest", "running")
    /\ DOMAIN open = {"name", "bytes", "pos", "got"}
    /\ open.bytes = Expected(open.name) /\ open.bytes \in Seq(Byte)
    /\ open.pos \in 0..Len(open.bytes)
    /\ open.got = SubSeq(open.bytes, 1, open.pos)

BootInv ==
  /\ DateInv /\ Began /\ Reading
  /\ bridge \in {"none", "installed", "refused"}
  /\ DOMAIN side = Host
  /\ \A h \in Host : SideOK(project, h, side[h])

\* On the same day a text means the same.
LEMMA SameDay ==
  ASSUME UNCHANGED <<year, month, day>>, NEW k, NEW t
  PROVE  (Accepts(k, t) <=> Accepts(k, t)') /\ Meaning(k, t)' = Meaning(k, t)
<1>1. DateOf(t)' = DateOf(t)
  BY DEF DateOf
<1>. QED BY <1>1 DEF Accepts, Meaning

\* What holds of a program's record goes on holding.
LEMMA Kept ==
  ASSUME NEW p, NEW h \in Host, NEW s, SideOK(p, h, s), Len(p.choices) \in Nat,
         s.at = "off" \/ UNCHANGED <<year, month, day>>,
         s.at = "running" /\ h = "guest" => UNCHANGED bridge
  PROVE  SideOK(p, h, s)'
<1>1. CASE s.at = "off"
  <2>1. GuestSeen(s) = 0 /\ NativeSeen(p, s) = 0
    BY <1>1 DEF GuestSeen, NativeSeen
  <2>2. GuestChose(p, s) => GuestChose(p, s)'
    BY <1>1, <2>1 DEF GuestChose
  <2>3. NativeChose(p, s) => NativeChose(p, s)'
    BY <1>1, <2>1 DEF NativeChose
  <2>. QED BY <2>2, <2>3 DEF SideOK, Chose, Started
<1>2. CASE UNCHANGED <<year, month, day>>
  <2>1. \A k, t : (Accepts(k, t) <=> Accepts(k, t)') /\ Meaning(k, t)' = Meaning(k, t)
    BY <1>2, SameDay
  <2>2. \A k : Takes(p, k) <=> Takes(p, k)'
    BY <2>1 DEF Takes
  <2>3. GuestChose(p, s) => GuestChose(p, s)'
    BY <2>1, <2>2 DEF GuestChose
  <2>4. NativeChose(p, s) => NativeChose(p, s)'
    BY <2>1 DEF NativeChose
  <2>5. Chose(p, h, s) => Chose(p, h, s)'
    BY <2>3, <2>4 DEF Chose
  <2>6. Started(h, s) => Started(h, s)'
    BY DEF Started
  <2>. QED BY <2>5, <2>6 DEF SideOK
<1>. QED BY <1>1, <1>2

-----------------------------------------------------------------------------
(* The settings.                                                           *)

LEMMA DefaultsTyped ==
  ASSUME DateInv
  PROVE  DOMAIN Defaults = Key /\ Defaults \in [Key -> AnyValue]
         /\ \A k \in Key : Defaults[k] \in Values(k)
<1>1. DOMAIN Defaults = Key
  BY Kinds DEF Defaults, Key
<1>2. \A k \in Key : Defaults[k] \in Values(k)
  <2>. SUFFICES ASSUME NEW k \in Key PROVE Defaults[k] \in Values(k)
    OBVIOUS
  <2>1. Accepts(k, PackageDefaults[k]) /\ Meaning(k, PackageDefaults[k]) = Defaults[k]
    BY DefaultsAgreed DEF Agreed
  <2>2. PackageDefaults["nickname"] = "Chimera"
    BY DEF PackageDefaults
  <2>. QED BY <2>1, <2>2, AcceptedTyped, PackageAssumption
<1>3. Defaults = [k \in Key |-> Defaults[k]]
  BY <1>1 DEF Defaults
<1>. HIDE DEF Defaults
<1>. QED BY <1>1, <1>2, <1>3 DEF AnyValue

\* Init's own core is one of the cores.
LEMMA IdleTyped ==
  ASSUME DateInv, NEW h \in Host
  PROVE  CfgTyped(Idle(h))
<1>1. 2 \in Values("cpuCore")
  <2>1. PICK texts : texts = <<"interpreter", "jit", "ir-interpreter">>
    OBVIOUS
  <2>2. 3 \in DOMAIN texts /\ \A j \in DOMAIN texts : texts[j] = texts[3] => j = 3
    BY <2>1
  <2>3. Options["cpuCore"] = Numbered(texts)
    BY <2>1 DEF Options
  <2>4. texts[3] \in DOMAIN Numbered(texts) /\ Numbered(texts)[texts[3]] = 3 - 1
    BY <2>2, NumberedAt, Zenon
  <2>5. Values("cpuCore") = Range(Options["cpuCore"])
    BY Kinds DEF Values
  <2>. QED BY <2>3, <2>4, <2>5 DEF Range
<1>2. "cpuCore" \in Key
  BY Kinds DEF Key
<1>3. Idle(h).cfg = IF h = "guest" THEN [Defaults EXCEPT !["cpuCore"] = 2] ELSE Defaults
  BY DEF Idle
<1>. QED BY <1>1, <1>2, <1>3, DefaultsTyped DEF CfgTyped, AnyValue

\* pspdrv_apply_setting keeps a configuration's types.
LEMMA AppliedTyped ==
  ASSUME DateInv, NEW cfg \in [Key -> AnyValue], \A k \in Key : cfg[k] \in Values(k),
         NEW key, NEW t, key = "nickname" => t \in Text
  PROVE  /\ Applied(cfg, key, t) \in [Key -> AnyValue]
         /\ \A k \in Key : Applied(cfg, key, t)[k] \in Values(k)
         /\ \A k \in Key :
              Applied(cfg, key, t)[k] =
                IF k = key /\ Accepts(key, t) THEN Meaning(key, t) ELSE cfg[k]
<1>1. CASE Accepts(key, t)
  <2>1. key \in Key /\ Meaning(key, t) \in Values(key)
    BY <1>1, AcceptedTyped
  <2>2. Applied(cfg, key, t) = [cfg EXCEPT ![key] = Meaning(key, t)]
    BY <1>1 DEF Applied
  <2>. QED BY <1>1, <2>1, <2>2 DEF AnyValue
<1>2. CASE ~Accepts(key, t)
  BY <1>2 DEF Applied
<1>. QED BY <1>1, <1>2

\* The last choice for a key.
LEMMA LastChoice ==
  ASSUME NEW p, IsProject(p), NEW k \in DOMAIN LastChosen(p)
  PROVE  \E i \in 1..Len(p.choices) :
           /\ p.choices[i][1] = k /\ LastChosen(p)[k] = p.choices[i][2]
           /\ p.choices[i][2] \in Text
           /\ \A j \in i + 1..Len(p.choices) : p.choices[j][1] # k
<1>. DEFINE S == About(p.choices, k)
<1>1. p.choices \in Seq(STRING \X Text) /\ Len(p.choices) \in Nat
      /\ DOMAIN p.choices = 1..Len(p.choices)
  BY DEF IsProject
<1>2. S \in SUBSET (1..Len(p.choices)) /\ S # {}
  BY <1>1 DEF About, LastChosen
<1>3. Max(S) \in S /\ \A i \in S : i <= Max(S)
  <2>. HIDE DEF S
  <2>. QED BY <1>1, <1>2, MaxOf
<1>4. LastChosen(p)[k] = p.choices[Max(S)][2]
  BY DEF LastChosen
<1>. DEFINE i == Max(S)
<1>5. i \in 1..Len(p.choices) /\ p.choices[i][1] = k
  <2>. HIDE DEF i
  <2>. QED BY <1>1, <1>2, <1>3 DEF About, i
<1>6. p.choices[i] \in STRING \X Text
  BY <1>1, <1>5
<1>7. \A j \in i + 1..Len(p.choices) : p.choices[j][1] # k
  <2>. SUFFICES ASSUME NEW j \in i + 1..Len(p.choices), p.choices[j][1] = k PROVE FALSE
    OBVIOUS
  <2>1. j \in 1..Len(p.choices) /\ ~(j <= i)
    BY <1>1, <1>5
  <2>2. j \in S
    BY <1>1, <2>1 DEF About
  <2>. QED BY <1>3, <2>1, <2>2
<1>. HIDE DEF i
<1>. QED BY <1>4, <1>5, <1>6, <1>7 DEF i

\* A name that is mounted is a text.
LEMMA MountedName ==
  ASSUME NEW p, IsProject(p), NEW k \in DOMAIN Mounted(p), k = "nickname"
  PROVE  Mounted(p)[k] \in Text
<1>1. k \in DOMAIN LastChosen(p) => LastChosen(p)[k] \in Text
  BY LastChoice
<1>2. PackageDefaults["nickname"] \in Text
  BY PackageAssumption DEF PackageDefaults
<1>. QED BY <1>1, <1>2 DEF Mounted, Over

-----------------------------------------------------------------------------
(* The steps.                                                              *)

LEMMA NothingIsAProject == IsProject(NoProject)
<1>1. /\ NoProject.choices = <<>> /\ NoProject.saves = <<>> /\ NoProject.dlc = <<>>
      /\ NoProject.fonts = <<>>
  BY DEF NoProject
<1>2. \A S : <<>> \in Seq(S)
  OBVIOUS
<1>3. DOMAIN <<>> = {} /\ Range(<<>>) = {}
  BY DEF Range
<1>. QED BY <1>1, <1>2, <1>3 DEF IsProject

LEMMA AProject ==
  ASSUME Began
  PROVE  IsProject(project)
BY NothingIsAProject DEF Began

\* Its settings and its archives are sequences.
LEMMA Sequenced ==
  ASSUME NEW p, IsProject(p)
  PROVE  /\ p.choices \in Seq(STRING \X Text) /\ Len(p.choices) \in Nat
         /\ DOMAIN p.choices = 1..Len(p.choices)
         /\ p.saves \in Seq(Range(p.saves)) /\ Len(p.saves) \in Nat
         /\ DOMAIN p.saves = 1..Len(p.saves)
         /\ p.dlc \in Seq(Range(p.dlc)) /\ Len(p.dlc) \in Nat
         /\ DOMAIN p.dlc = 1..Len(p.dlc)
<1>1. p.choices \in Seq(STRING \X Text) /\ p.saves \in Seq(Range(p.saves))
      /\ p.dlc \in Seq(Range(p.dlc))
  BY DEF IsProject
<1>. QED BY <1>1

\* Before the first archive it does not matter which there are.
LEMMA LaidNone ==
  ASSUME NEW stick, NEW these, NEW those, Laid(stick, these, 0)
  PROVE  Laid(stick, those, 0)
BY DEF Laid

\* What has not begun is as it should be, whatever the project.
LEMMA IdleOK ==
  ASSUME DateInv, NEW p, IsProject(p), NEW h \in Host
  PROVE  SideOK(p, h, Idle(h))
<1>1. PICK s : s = Idle(h)
  OBVIOUS
<1>2. /\ DOMAIN s = Fields /\ s.at = "off" /\ s.done = 0 /\ s.rows = <<>> /\ s.zips = <<>>
      /\ s.stick = <<>> /\ s.cheats = "" /\ s.path = <<>> /\ s.error = ""
  BY <1>1 DEF Idle, Fields
<1>21. DOMAIN s = Fields
  BY <1>2
<1>22. s.at = "off" /\ s.done = 0
  BY <1>2
<1>23. s.zips = <<>> /\ s.stick = <<>>
  BY <1>2
<1>24. Len(s.zips) = 0
  BY <1>23
<1>3. /\ h = "guest" => s.cfg = Idle("guest").cfg
      /\ h # "guest" => s.cfg = Defaults
  BY <1>1 DEF Idle
<1>4. CfgTyped(s)
  BY <1>1, IdleTyped
<1>5. Len(p.choices) \in Nat
  BY Sequenced
<1>6. Shaped(s)
  BY <1>21, <1>22 DEF Shaped, Stage
<1>7. GuestSeen(s) = 0 /\ NativeSeen(p, s) = 0 /\ ZipsSeen(s) = 0
  <2>1. s.at \notin {"settings", "seeds", "cheats", "boot", "running"}
    BY <1>2
  <2>. QED BY <1>2, <2>1 DEF GuestSeen, NativeSeen, ZipsSeen
<1>8. Chose(p, h, s)
  <2>1. h = "guest" => GuestChose(p, s)
    BY <1>22, <1>3, <1>4, <1>7 DEF GuestChose, CfgTyped
  <2>2. h # "guest" => NativeChose(p, s)
    BY <1>22, <1>3, <1>5, <1>7 DEF NativeChose
  <2>. QED BY <2>1, <2>2 DEF Chose
<1>9. RowsRead(p, h, s)
  BY <1>2 DEF RowsRead, WithFonts
<1>10. Stocked(p, h, s)
  <2>1. IsAFcn(<<>>)
    BY DEF IsAFcn
  <2>2. DOMAIN <<>> = {} /\ UNION {DOMAIN (<<>>[i]).files : i \in 1..0} = {}
    OBVIOUS
  <2>3. Laid(<<>>, <<>>, 0)
    BY <2>1, <2>2 DEF Laid
  <2>4. Laid(<<>>, Taken(h, s.zips), 0)
    BY <2>3, LaidNone
  <2>5. s.at \notin WithFonts(h)
    BY <1>2 DEF WithFonts
  <2>6. ZipsSeen(s) <= Len(s.zips) /\ (\A i \in 1..ZipsSeen(s) : FALSE)
    BY <1>24, <1>7
  <2>. QED BY <1>22, <1>23, <1>7, <2>4, <2>5, <2>6 DEF Stocked
<1>11. CheatsRead(p, h, s) /\ DiscSought(p, h, s) /\ Told(s) /\ Started(h, s)
  BY <1>2 DEF CheatsRead, DiscSought, Told, Started
<1>. QED BY <1>1, <1>4, <1>6, <1>8, <1>9, <1>10, <1>11 DEF SideOK

\* A program's step leaves everything else.
LEMMA Went ==
  ASSUME BootInv, project # NoProject, NEW h \in Host, NEW s, Goes(h, s), SideOK(project, h, s),
         h = "guest" => ~Reached("guest", "running")
  PROVE  BootInv'
<1>1. /\ UNCHANGED <<year, month, day, passed, open, project, bridge>>
      /\ side' = [side EXCEPT ![h] = s]
  BY DEF Goes
<1>2. DOMAIN side = Host
  BY DEF BootInv
<1>3. DOMAIN side' = Host /\ side'[h] = s /\ \A g \in Host \ {h} : side'[g] = side[g]
  BY <1>1, <1>2
<1>4. DateInv'
  BY <1>1 DEF BootInv, DateInv
<1>5. Began'
  BY <1>1 DEF BootInv, Began
<1>6. Reading'
  <2>1. CASE open = Closed
    BY <1>1, <2>1 DEF Reading
  <2>2. CASE open # Closed
    <3>1. Reached("guest", "running") /\ h # "guest"
      BY <2>2 DEF BootInv, Reading
    <3>2. side'["guest"] = side["guest"]
      BY <1>3, <3>1 DEF Host
    <3>3. Expected(open.name)' = Expected(open.name)
      BY <1>1 DEF Expected, Provided
    <3>. QED BY <1>1, <2>2, <3>2, <3>3 DEF BootInv, Reading, Reached
  <2>. QED BY <2>1, <2>2
<1>7. ASSUME NEW g \in Host PROVE SideOK(project, g, side[g])'
  <2>0. PICK p : p = project
    OBVIOUS
  <2>a. project' = p /\ Len(p.choices) \in Nat
    BY <1>1, <2>0, AProject, Sequenced DEF BootInv
  <2>1. CASE g = h
    BY <1>1, <1>3, <2>0, <2>a, <2>1, Kept
  <2>2. CASE g # h
    <3>1. PICK r : r = side[g]
      OBVIOUS
    <3>2. SideOK(p, g, r) /\ side'[g] = r
      BY <1>3, <2>0, <2>2, <3>1 DEF BootInv
    <3>. QED BY <1>1, <2>a, <3>2, Kept
  <2>. QED BY <2>1, <2>2
<1>. QED BY <1>1, <1>3, <1>4, <1>5, <1>6, <1>7 DEF BootInv

\* A refusal says why.
LEMMA RefusesOK ==
  ASSUME BootInv, project # NoProject, NEW h \in Host, NEW error, error # "",
         Refuses(h, error), ~Reached(h, "off"), ~Reached(h, "running")
  PROVE  BootInv'
<1>1. PICK r : r = side[h]
  OBVIOUS
<1>2. PICK s : s = [r EXCEPT !.at = "refused", !.error = error]
  OBVIOUS
<1>3. SideOK(project, h, r) /\ r.at # "off" /\ r.at # "running" /\ Goes(h, s)
  BY <1>1, <1>2 DEF BootInv, Reached, Refuses
<1>4. DOMAIN r = Fields
  BY <1>3 DEF SideOK, Shaped
<1>5. /\ DOMAIN s = Fields /\ s.at = "refused" /\ s.error = error /\ s.done = r.done
      /\ s.cfg = r.cfg /\ s.rows = r.rows /\ s.path = r.path
  BY <1>2, <1>4 DEF Fields
<1>6. Shaped(s) /\ CfgTyped(s)
  BY <1>3, <1>5 DEF SideOK, Shaped, CfgTyped, Stage
<1>7. Chose(project, h, s)
  BY <1>5 DEF Chose, GuestChose, NativeChose
<1>8. RowsRead(project, h, s)
  BY <1>3, <1>5 DEF SideOK, RowsRead, WithFonts
<1>9. Stocked(project, h, s) /\ CheatsRead(project, h, s) /\ Told(s) /\ Started(h, s)
  BY <1>5 DEF Stocked, CheatsRead, Told, Started
<1>10. DiscSought(project, h, s)
  BY <1>3, <1>5 DEF SideOK, DiscSought
<1>11. SideOK(project, h, s)
  BY <1>6, <1>7, <1>8, <1>9, <1>10 DEF SideOK
<1>. QED BY <1>3, <1>11, Went DEF Reached


\* A program that has begun has a project.
LEMMA Underway ==
  ASSUME BootInv, NEW h \in Host, ~Reached(h, "off")
  PROVE  project # NoProject
<1>1. Idle(h).at = "off"
  BY DEF Idle
<1>. QED BY <1>1 DEF BootInv, Began, Reached

\* Going from one place to the next that reads nothing, everything else is kept.
LEMMA FindDiscOK ==
  ASSUME BootInv, FindDisc
  PROVE  BootInv'
<1>1. PICK p : p = project
  OBVIOUS
<1>2. PICK r : r = side["guest"]
  OBVIOUS
<1>3. PICK s : s = [r EXCEPT !.path = DiscPath(p.disc), !.at = "settings"]
  OBVIOUS
<1>4. SideOK(p, "guest", r) /\ r.at = "off" /\ Goes("guest", s) /\ project # NoProject
  BY <1>1, <1>2, <1>3 DEF BootInv, FindDisc, Reached, Host
<1>5. DOMAIN r = Fields /\ r.done = 0
  BY <1>4 DEF SideOK, Shaped
<1>6. DOMAIN s = Fields
  BY <1>3, <1>5 DEF Fields
<1>7. s.at = "settings" /\ s.done = 0
  BY <1>3, <1>5 DEF Fields
<1>8. /\ s.cfg = r.cfg /\ s.rows = r.rows /\ s.zips = r.zips /\ s.stick = r.stick
      /\ s.cheats = r.cheats
  BY <1>3, <1>5 DEF Fields
<1>9. s.path = DiscPath(p.disc)
  BY <1>3, <1>5 DEF Fields
<1>10. Shaped(s) /\ CfgTyped(s)
  BY <1>4, <1>6, <1>7, <1>8 DEF SideOK, Shaped, CfgTyped, Stage
<1>11. Chose(p, "guest", s)
  <2>1. Len(SettingKeys) = 18
    BY DEF SettingKeys
  <2>2. GuestSeen(r) = 0 /\ GuestSeen(s) = 0
    BY <1>4, <1>7 DEF GuestSeen
  <2>3. GuestChose(p, r)
    BY <1>4 DEF SideOK, Chose
  <2>4. GuestChose(p, s)
    BY <1>4, <1>7, <1>8, <2>1, <2>2, <2>3 DEF GuestChose
  <2>. QED BY <2>4 DEF Chose
<1>12. RowsRead(p, "guest", s)
  BY <1>4, <1>7, <1>8 DEF SideOK, RowsRead, WithFonts
<1>13. Stocked(p, "guest", s)
  BY <1>4, <1>7, <1>8 DEF SideOK, Stocked, WithFonts, ZipsSeen
<1>14. CheatsRead(p, "guest", s) /\ DiscSought(p, "guest", s)
  BY <1>4, <1>7, <1>8, <1>9 DEF SideOK, CheatsRead, DiscSought
<1>15. Told(s) /\ Started("guest", s)
  BY <1>7 DEF Told, Started
<1>16. SideOK(p, "guest", s)
  BY <1>10, <1>11, <1>12, <1>13, <1>14, <1>15 DEF SideOK
<1>. QED BY <1>1, <1>2, <1>4, <1>16, Went DEF Reached, Host

\* One key more.
LEMMA ReadSettingOK ==
  ASSUME BootInv, ReadSetting
  PROVE  BootInv'
<1>1. PICK p : p = project
  OBVIOUS
<1>2. PICK r : r = side["guest"]
  OBVIOUS
<1>3. PICK n : n = r.done
  OBVIOUS
<1>4. PICK k : k = SettingKeys[n + 1]
  OBVIOUS
<1>5. PICK c : c = IF k \in DOMAIN Mounted(p) THEN Applied(r.cfg, k, Mounted(p)[k]) ELSE r.cfg
  OBVIOUS
<1>6. Len(SettingKeys) = 18
  BY DEF SettingKeys
<1>7. PICK s : s = [r EXCEPT !.cfg = c, !.done = IF n + 1 = 18 THEN 0 ELSE n + 1,
                             !.at = IF n + 1 = 18 THEN "fonts" ELSE r.at]
  OBVIOUS
<1>8. Reached("guest", "settings") /\ Goes("guest", s)
  BY <1>1, <1>2, <1>3, <1>4, <1>5, <1>6, <1>7 DEF ReadSetting
<1>9. SideOK(p, "guest", r) /\ r.at = "settings" /\ project # NoProject /\ IsProject(p)
  BY <1>1, <1>2, <1>8, AProject, Underway DEF BootInv, Reached, Host
<1>11. DOMAIN r = Fields /\ r.done \in Nat /\ CfgTyped(r) /\ GuestChose(p, r)
  BY <1>9 DEF SideOK, Shaped, Chose
<1>12. n \in Nat /\ n < 18
  BY <1>3, <1>6, <1>9, <1>11 DEF GuestChose
<1>13. DOMAIN s = Fields
  BY <1>7, <1>11 DEF Fields
<1>14. /\ s.at = IF n + 1 = 18 THEN "fonts" ELSE "settings"
       /\ s.done = IF n + 1 = 18 THEN 0 ELSE n + 1
       /\ s.cfg = c
  BY <1>7, <1>9, <1>11 DEF Fields
<1>15. /\ s.rows = r.rows /\ s.zips = r.zips /\ s.stick = r.stick
       /\ s.cheats = r.cheats /\ s.path = r.path
  BY <1>7, <1>11 DEF Fields
<1>16. Shaped(s)
  BY <1>12, <1>13, <1>14 DEF Shaped, Stage
<1>17. /\ c \in [Key -> AnyValue] /\ \A x \in Key : c[x] \in Values(x)
       /\ \A x \in Key :
            c[x] = IF x = k /\ Takes(p, k) THEN Meaning(k, Mounted(p)[k]) ELSE r.cfg[x]
  <2>1. CASE k \in DOMAIN Mounted(p)
    <3>1. k = "nickname" => Mounted(p)[k] \in Text
      BY <1>9, <2>1, MountedName
    <3>2. r.cfg \in [Key -> AnyValue] /\ \A x \in Key : r.cfg[x] \in Values(x)
      BY <1>11 DEF CfgTyped
    <3>3. DateInv
      BY DEF BootInv
    <3>4. PICK t : t = Mounted(p)[k]
      OBVIOUS
    <3>5. c = Applied(r.cfg, k, t)
      BY <1>5, <2>1, <3>4
    <3>. QED BY <2>1, <3>1, <3>2, <3>3, <3>4, <3>5, AppliedTyped DEF Takes
  <2>2. CASE k \notin DOMAIN Mounted(p)
    BY <1>5, <1>11, <2>2 DEF CfgTyped, Takes
  <2>. QED BY <2>1, <2>2
<1>18. CfgTyped(s)
  BY <1>14, <1>17 DEF CfgTyped
<1>19. Chose(p, "guest", s)
  <2>1. GuestSeen(r) = n /\ GuestSeen(s) = n + 1
    BY <1>3, <1>6, <1>9, <1>12, <1>14 DEF GuestSeen
  <2>2. \A x \in Key : (\E i \in 1..n + 1 : SettingKeys[i] = x)
                         <=> x = k \/ \E i \in 1..n : SettingKeys[i] = x
    BY <1>4, <1>12
  <2>3. s.at = "settings" => s.done < Len(SettingKeys)
    BY <1>6, <1>12, <1>14
  <2>4. ASSUME NEW x \in Key
        PROVE  s.cfg[x] = IF (\E i \in 1..GuestSeen(s) : SettingKeys[i] = x) /\ Takes(p, x)
                            THEN Meaning(x, Mounted(p)[x]) ELSE Idle("guest").cfg[x]
    <3>1. r.cfg[x] = IF (\E i \in 1..n : SettingKeys[i] = x) /\ Takes(p, x)
                       THEN Meaning(x, Mounted(p)[x]) ELSE Idle("guest").cfg[x]
      BY <1>9, <1>11, <2>1 DEF GuestChose
    <3>. QED BY <1>14, <1>17, <2>1, <2>2, <3>1
  <2>5. GuestChose(p, s)
    BY <2>3, <2>4 DEF GuestChose
  <2>. QED BY <2>5 DEF Chose
<1>20. RowsRead(p, "guest", s)
  BY <1>9, <1>14, <1>15 DEF SideOK, RowsRead, WithFonts
<1>21. Stocked(p, "guest", s)
  BY <1>9, <1>14, <1>15 DEF SideOK, Stocked, WithFonts, ZipsSeen
<1>22. CheatsRead(p, "guest", s) /\ DiscSought(p, "guest", s)
  BY <1>9, <1>14, <1>15 DEF SideOK, CheatsRead, DiscSought
<1>23. Told(s) /\ Started("guest", s)
  BY <1>14 DEF Told, Started
<1>24. SideOK(p, "guest", s)
  BY <1>16, <1>18, <1>19, <1>20, <1>21, <1>22, <1>23 DEF SideOK
<1>. QED BY <1>1, <1>2, <1>8, <1>9, <1>24, Went DEF Reached, Host

\* The archives of a project, in any order of the two kinds, are a sequence.
LEMMA ArchivesAre ==
  ASSUME NEW p, IsProject(p), NEW h \in Host, NEW zips \in Archives(p, h)
  PROVE  /\ zips \in Seq(Range(p.saves) \cup Range(p.dlc))
         /\ Len(zips) = Len(p.saves) + Len(p.dlc) /\ Len(zips) \in Nat
         /\ DOMAIN zips = 1..Len(zips)
<1>1. zips \in {p.saves \o p.dlc, p.dlc \o p.saves}
  BY DEF Archives, Seeds, NativeSeeds
<1>2. PICK A, B : A = p.saves /\ B = p.dlc
  OBVIOUS
<1>3. PICK S : S = Range(p.saves) \cup Range(p.dlc)
  OBVIOUS
<1>4. A \in Seq(S) /\ B \in Seq(S) /\ Len(A) \in Nat /\ Len(B) \in Nat
  <2>1. /\ A \in Seq(Range(p.saves)) /\ B \in Seq(Range(p.dlc))
        /\ Len(A) \in Nat /\ Len(B) \in Nat
    BY <1>2, Sequenced
  <2>2. Range(p.saves) \subseteq S /\ Range(p.dlc) \subseteq S
    BY <1>3
  <2>. QED BY <2>1, <2>2
<1>5. zips \in {A \o B, B \o A}
  BY <1>1, <1>2
<1>6. zips \in Seq(S) /\ Len(zips) = Len(A) + Len(B)
  <2>1. /\ A \o B \in Seq(S) /\ Len(A \o B) = Len(A) + Len(B)
        /\ B \o A \in Seq(S) /\ Len(B \o A) = Len(A) + Len(B)
    BY <1>4
  <2>. QED BY <1>5, <2>1, Zenon
<1>7. DOMAIN zips = 1..Len(zips)
  BY <1>6
<1>8. Len(zips) \in Nat
  BY <1>4, <1>6
<1>. QED BY <1>2, <1>3, <1>6, <1>7, <1>8

LEMMA TakenFields ==
  ASSUME NEW h, NEW zips, Len(zips) \in Nat
  PROVE  LET taken == Taken(h, zips)
         IN  /\ Len(taken) = Len(zips) /\ DOMAIN taken = 1..Len(zips)
             /\ \A i \in 1..Len(zips) :
                  taken[i].files = IF Skipped(h, zips[i]) THEN <<>> ELSE zips[i].files
BY DEF Taken

\* Archives with the same files are laid the same.
LEMMA LaidSame ==
  ASSUME NEW stick, NEW these, NEW those, NEW n \in Nat, Laid(stick, these, n),
         \A i \in 1..n : these[i].files = those[i].files
  PROVE  Laid(stick, those, n)
<1>1. \A i \in 1..n : \A j \in i + 1..n : j \in 1..n
  OBVIOUS
<1>2. UNION {DOMAIN these[i].files : i \in 1..n} = UNION {DOMAIN those[i].files : i \in 1..n}
  BY Zenon
<1>. QED BY <1>1, <1>2 DEF Laid

\* An archive with nothing in it.
LEMMA LaidNothing ==
  ASSUME NEW stick, NEW zips, NEW n \in Nat, Laid(stick, zips, n),
         zips[n + 1].files = <<>>
  PROVE  Laid(stick, zips, n + 1)
<1>1. /\ \A i \in 1..n + 1 : i \in 1..n \/ i = n + 1
      /\ \A i \in 1..n : i \in 1..n + 1 /\ \A j \in i + 1..n : j \in i + 1..n + 1
  OBVIOUS
<1>2. DOMAIN zips[n + 1].files = {}
  OBVIOUS
<1>3. UNION {DOMAIN zips[i].files : i \in 1..n} = UNION {DOMAIN zips[i].files : i \in 1..n + 1}
  BY <1>1, <1>2
<1>. QED BY <1>1, <1>2, <1>3 DEF Laid

\* One archive more.
LEMMA LaidOver ==
  ASSUME NEW stick, NEW zips, NEW n \in Nat, Laid(stick, zips, n)
  PROVE  Laid(Over(zips[n + 1].files, stick), zips, n + 1)
<1>1. PICK g : g = zips[n + 1].files
  OBVIOUS
<1>2. PICK new : new = Over(g, stick)
  OBVIOUS
<1>3. /\ DOMAIN new = DOMAIN g \cup DOMAIN stick
      /\ \A x \in DOMAIN new : new[x] = IF x \in DOMAIN g THEN g[x] ELSE stick[x]
  BY <1>2 DEF Over
<1>4. IsAFcn(new)
  BY <1>2 DEF Over, IsAFcn
<1>5. DOMAIN new = UNION {DOMAIN zips[i].files : i \in 1..n + 1}
  <2>1. DOMAIN stick = UNION {DOMAIN zips[i].files : i \in 1..n}
    BY DEF Laid
  <2>2. \A i \in 1..n + 1 : i \in 1..n \/ i = n + 1
    OBVIOUS
  <2>3. n + 1 \in 1..n + 1 /\ \A i \in 1..n : i \in 1..n + 1
    OBVIOUS
  <2>. QED BY <1>1, <1>3, <2>1, <2>2, <2>3
<1>6. ASSUME NEW i \in 1..n + 1, NEW f \in DOMAIN zips[i].files,
             \A j \in i + 1..n + 1 : f \notin DOMAIN zips[j].files
      PROVE  new[f] = zips[i].files[f]
  <2>1. f \in DOMAIN new
    BY <1>5
  <2>2. CASE i = n + 1
    BY <1>1, <1>3, <2>1, <2>2
  <2>3. CASE i # n + 1
    <3>1. i \in 1..n /\ n + 1 \in i + 1..n + 1 /\ \A j \in i + 1..n : j \in i + 1..n + 1
      BY <2>3
    <3>2. f \notin DOMAIN g
      BY <1>1, <1>6, <3>1
    <3>3. stick[f] = zips[i].files[f]
      BY <1>6, <3>1 DEF Laid
    <3>. QED BY <1>3, <2>1, <3>2, <3>3
  <2>. QED BY <2>2, <2>3
<1>7. Laid(new, zips, n + 1)
  BY <1>4, <1>5, <1>6 DEF Laid
<1>. QED BY <1>1, <1>2, <1>7

\* The fonts.
LEMMA ReadFontsOK ==
  ASSUME BootInv, project # NoProject, NEW h \in Host, NEW zips \in Archives(project, h),
         Reached(h, IF h = "guest" THEN "fonts" ELSE "off"),
         ReadFonts(h, zips, IF h = "guest" THEN "seeds" ELSE "settings")
  PROVE  BootInv'
<1>1. PICK p : p = project
  OBVIOUS
<1>2. PICK r : r = side[h]
  OBVIOUS
<1>3. PICK next : next = IF h = "guest" THEN "seeds" ELSE "settings"
  OBVIOUS
<1>4. PICK s : s = [r EXCEPT !.rows = FontRows(p), !.zips = zips, !.at = next]
  OBVIOUS
<1>5. /\ SideOK(p, h, r) /\ r.at = (IF h = "guest" THEN "fonts" ELSE "off")
      /\ Goes(h, s) /\ IsProject(p)
  BY <1>1, <1>2, <1>3, <1>4, AProject DEF BootInv, ReadFonts, Reached
<1>6. DOMAIN r = Fields /\ r.done = 0
  BY <1>5 DEF SideOK, Shaped
<1>7. DOMAIN s = Fields
  BY <1>4, <1>6 DEF Fields
<1>8. s.at = next /\ s.done = 0
  BY <1>4, <1>6 DEF Fields
<1>9. s.cfg = r.cfg /\ s.stick = r.stick /\ s.cheats = r.cheats /\ s.path = r.path
  BY <1>4, <1>6 DEF Fields
<1>10. s.rows = FontRows(p) /\ s.zips = zips
  BY <1>4, <1>6 DEF Fields
<1>11. Shaped(s) /\ CfgTyped(s)
  BY <1>3, <1>5, <1>7, <1>8, <1>9 DEF SideOK, Shaped, CfgTyped, Stage
<1>12. Chose(p, h, s)
  <2>1. CASE h = "guest"
    <3>1. GuestSeen(r) = GuestSeen(s) /\ GuestChose(p, r)
      BY <1>3, <1>5, <1>8, <2>1 DEF SideOK, Chose, GuestSeen
    <3>2. GuestChose(p, s)
      BY <1>3, <1>5, <1>8, <1>9, <2>1, <3>1 DEF GuestChose
    <3>. QED BY <2>1, <3>2 DEF Chose
  <2>2. CASE h # "guest"
    <3>1. NativeSeen(p, r) = 0 /\ NativeSeen(p, s) = 0 /\ NativeChose(p, r)
      BY <1>3, <1>5, <1>8, <2>2 DEF SideOK, Chose, NativeSeen
    <3>2. NativeChose(p, s)
      BY <1>3, <1>5, <1>8, <1>9, <2>2, <3>1 DEF NativeChose
    <3>. QED BY <2>2, <3>2 DEF Chose
  <2>. QED BY <2>1, <2>2
<1>13. RowsRead(p, h, s)
  BY <1>10 DEF RowsRead
<1>14. Stocked(p, h, s)
  <2>1. ZipsSeen(r) = 0 /\ ZipsSeen(s) = 0
    BY <1>3, <1>5, <1>6, <1>8 DEF ZipsSeen
  <2>2. Laid(r.stick, Taken(h, r.zips), 0)
    <3>1. r.at # "refused"
      BY <1>5
    <3>. QED BY <1>5, <2>1, <3>1 DEF SideOK, Stocked
  <2>3. Laid(s.stick, Taken(h, s.zips), 0)
    BY <1>9, <2>2, LaidNone
  <2>4. 0 <= Len(s.zips) /\ s.zips \in Archives(p, h)
    BY <1>1, <1>5, <1>10, ArchivesAre
  <2>5. s.at \in WithFonts(h)
    BY <1>3, <1>8 DEF WithFonts
  <2>6. \A i \in 1..ZipsSeen(s) : FALSE
    BY <2>1
  <2>. QED BY <2>1, <2>3, <2>4, <2>5, <2>6 DEF Stocked
<1>15. CheatsRead(p, h, s) /\ DiscSought(p, h, s)
  BY <1>3, <1>5, <1>8, <1>9 DEF SideOK, CheatsRead, DiscSought
<1>16. Told(s) /\ Started(h, s)
  BY <1>3, <1>8 DEF Told, Started
<1>17. SideOK(p, h, s)
  BY <1>11, <1>12, <1>13, <1>14, <1>15, <1>16 DEF SideOK
<1>18. h = "guest" => ~Reached("guest", "running")
  BY <1>2, <1>5 DEF Reached
<1>. QED BY <1>1, <1>5, <1>17, <1>18, Went

\* One archive more on the card, or a refusal.
LEMMA SeedZipOK ==
  ASSUME BootInv, NEW h \in Host, SeedZip(h)
  PROVE  BootInv'
<1>1. PICK p : p = project
  OBVIOUS
<1>2. PICK r : r = side[h]
  OBVIOUS
<1>3. PICK n : n = r.done
  OBVIOUS
<1>4. PICK z : z = r.zips[n + 1]
  OBVIOUS
<1>0. PICK new : new = IF Skipped(h, z) THEN r.stick ELSE Over(z.files, r.stick)
  OBVIOUS
<1>5. PICK s : s = [r EXCEPT !.stick = new, !.done = n + 1]
  OBVIOUS
<1>6. /\ SideOK(p, h, r) /\ r.at = "seeds" /\ n < Len(r.zips) /\ IsProject(p)
      /\ ~Reached(h, "off") /\ ~Reached(h, "running") /\ project # NoProject
  BY <1>1, <1>2, <1>3, AProject, Underway DEF BootInv, SeedZip, Reached
<1>7. CASE ~Skipped(h, z) /\ ~(z.opens /\ z.valid)
  <2>1. \E e \in {"refused", "missing"} : Refuses(h, e)
    BY <1>2, <1>3, <1>4, <1>7 DEF SeedZip
  <2>. QED BY <1>6, <2>1, RefusesOK
<1>8. CASE Skipped(h, z) \/ (z.opens /\ z.valid)
  <2>2. DOMAIN r = Fields /\ n \in Nat
    BY <1>3, <1>6 DEF SideOK, Shaped
  <2>1. Goes(h, s)
    <3>1. CASE Skipped(h, z)
      <4>1. s = [r EXCEPT !.done = n + 1]
        BY <1>0, <1>5, <2>2, <3>1 DEF Fields
      <4>. QED BY <1>2, <1>3, <1>4, <3>1, <4>1 DEF SeedZip
    <3>2. CASE ~Skipped(h, z)
      BY <1>0, <1>2, <1>3, <1>4, <1>5, <1>8, <3>2 DEF SeedZip
    <3>. QED BY <3>1, <3>2
  <2>3. DOMAIN s = Fields
    BY <1>5, <2>2 DEF Fields
  <2>4. s.at = "seeds" /\ s.done = n + 1
    BY <1>5, <1>6, <2>2 DEF Fields
  <2>5. s.stick = new
    BY <1>5, <2>2 DEF Fields
  <2>6. /\ s.cfg = r.cfg /\ s.cheats = r.cheats /\ s.path = r.path /\ s.rows = r.rows
        /\ s.zips = r.zips
    BY <1>5, <2>2 DEF Fields
  <2>7. Shaped(s) /\ CfgTyped(s)
    BY <1>6, <2>2, <2>3, <2>4, <2>6 DEF SideOK, Shaped, CfgTyped, Stage
  <2>8. Chose(p, h, s)
    <3>1. GuestSeen(s) = GuestSeen(r) /\ NativeSeen(p, s) = NativeSeen(p, r)
      BY <1>6, <2>4 DEF GuestSeen, NativeSeen
    <3>. QED BY <1>6, <2>4, <2>6, <3>1 DEF SideOK, Chose, GuestChose, NativeChose
  <2>9. RowsRead(p, h, s)
    BY <1>6, <2>4, <2>6 DEF SideOK, RowsRead
  <2>10. Stocked(p, h, s)
    <3>1. ZipsSeen(r) = n /\ ZipsSeen(s) = n + 1
      BY <1>3, <1>6, <2>4 DEF ZipsSeen
    <3>2. "seeds" \in WithFonts(h)
      BY DEF WithFonts
    <3>3. /\ Laid(r.stick, Taken(h, r.zips), n) /\ r.zips \in Archives(p, h)
          /\ \A i \in 1..n : Skipped(h, r.zips[i]) \/ (r.zips[i].opens /\ r.zips[i].valid)
      BY <1>6, <3>1, <3>2 DEF SideOK, Stocked
    <3>4. Len(r.zips) \in Nat
      BY <1>6, <3>3, ArchivesAre
    <3>5. Laid(s.stick, Taken(h, s.zips), n + 1)
      <4>1. PICK taken, stick : taken = Taken(h, r.zips) /\ stick = r.stick
        OBVIOUS
      <4>2. n + 1 \in 1..Len(r.zips)
        BY <1>6, <2>2, <3>4
      <4>3. taken[n + 1].files = IF Skipped(h, z) THEN <<>> ELSE z.files
        BY <1>4, <3>4, <4>1, <4>2, TakenFields
      <4>4. Laid(stick, taken, n)
        BY <3>3, <4>1
      <4>5. CASE Skipped(h, z)
        <5>1. Laid(stick, taken, n + 1)
          BY <2>2, <4>3, <4>4, <4>5, LaidNothing
        <5>. QED BY <1>0, <2>5, <2>6, <4>1, <4>5, <5>1
      <4>6. CASE ~Skipped(h, z)
        <5>1. Laid(Over(taken[n + 1].files, stick), taken, n + 1)
          BY <2>2, <4>4, LaidOver
        <5>. QED BY <1>0, <2>5, <2>6, <4>1, <4>3, <4>6, <5>1
      <4>. QED BY <4>5, <4>6
    <3>6. \A i \in 1..n + 1 :
            Skipped(h, s.zips[i]) \/ (s.zips[i].opens /\ s.zips[i].valid)
      BY <1>4, <1>8, <2>2, <2>6, <3>3
    <3>7. n + 1 <= Len(s.zips)
      BY <1>6, <2>2, <2>6, <3>4
    <3>. QED BY <2>4, <2>6, <3>1, <3>2, <3>3, <3>5, <3>6, <3>7 DEF Stocked
  <2>11. CheatsRead(p, h, s) /\ DiscSought(p, h, s)
    BY <1>6, <2>4, <2>6 DEF SideOK, CheatsRead, DiscSought
  <2>12. Told(s) /\ Started(h, s)
    BY <2>4 DEF Told, Started
  <2>13. SideOK(p, h, s)
    BY <2>7, <2>8, <2>9, <2>10, <2>11, <2>12 DEF SideOK
  <2>. QED BY <1>1, <1>6, <2>1, <2>13, Went
<1>. QED BY <1>7, <1>8

\* The last of them.
LEMMA SeededOK ==
  ASSUME BootInv, NEW h \in Host, Seeded(h)
  PROVE  BootInv'
<1>1. PICK p : p = project
  OBVIOUS
<1>2. PICK r : r = side[h]
  OBVIOUS
<1>3. PICK next : next = IF h = "guest" THEN "cheats" ELSE "boot"
  OBVIOUS
<1>4. PICK s : s = [r EXCEPT !.done = 0, !.at = next]
  OBVIOUS
<1>5. /\ SideOK(p, h, r) /\ r.at = "seeds" /\ r.done = Len(r.zips) /\ Goes(h, s)
      /\ ~Reached(h, "off") /\ ~Reached(h, "running") /\ project # NoProject
  BY <1>1, <1>2, <1>3, <1>4, Underway DEF BootInv, Seeded, Reached
<1>6. DOMAIN r = Fields
  BY <1>5 DEF SideOK, Shaped
<1>7. DOMAIN s = Fields
  BY <1>4, <1>6 DEF Fields
<1>8. s.at = next /\ s.done = 0
  BY <1>4, <1>6 DEF Fields
<1>9. s.cfg = r.cfg /\ s.cheats = r.cheats /\ s.path = r.path /\ s.rows = r.rows
  BY <1>4, <1>6 DEF Fields
<1>10. s.zips = r.zips /\ s.stick = r.stick
  BY <1>4, <1>6 DEF Fields
<1>11. Shaped(s) /\ CfgTyped(s)
  BY <1>3, <1>5, <1>7, <1>8, <1>9 DEF SideOK, Shaped, CfgTyped, Stage
<1>12. Chose(p, h, s)
  <2>1. GuestSeen(s) = GuestSeen(r) /\ NativeSeen(p, s) = NativeSeen(p, r)
    BY <1>3, <1>5, <1>8 DEF GuestSeen, NativeSeen
  <2>. QED BY <1>3, <1>5, <1>8, <1>9, <2>1 DEF SideOK, Chose, GuestChose, NativeChose
<1>13. RowsRead(p, h, s)
  BY <1>3, <1>5, <1>8, <1>9 DEF SideOK, RowsRead, WithFonts
<1>14. Stocked(p, h, s)
  <2>1. ZipsSeen(s) = ZipsSeen(r)
    BY <1>3, <1>5, <1>8, <1>10 DEF ZipsSeen
  <2>2. s.at \in WithFonts(h) /\ r.at \in WithFonts(h)
    BY <1>3, <1>5, <1>8 DEF WithFonts
  <2>. QED BY <1>3, <1>5, <1>8, <1>10, <2>1, <2>2 DEF SideOK, Stocked
<1>15. CheatsRead(p, h, s) /\ DiscSought(p, h, s)
  BY <1>3, <1>5, <1>8, <1>9 DEF SideOK, CheatsRead, DiscSought
<1>16. Told(s) /\ Started(h, s)
  BY <1>3, <1>8 DEF Told, Started
<1>17. SideOK(p, h, s)
  BY <1>11, <1>12, <1>13, <1>14, <1>15, <1>16 DEF SideOK
<1>. QED BY <1>1, <1>5, <1>17, Went

\* The cheats.
LEMMA ReadCheatsOK ==
  ASSUME BootInv, ReadCheats
  PROVE  BootInv'
<1>1. PICK p : p = project
  OBVIOUS
<1>2. PICK r : r = side["guest"]
  OBVIOUS
<1>3. PICK c : c = IF p.cheats = <<>> \/ ~p.cheats[1].named THEN r.cheats
                   ELSE p.cheats[1].text
  OBVIOUS
<1>4. PICK s : s = [r EXCEPT !.cheats = c, !.at = "boot"]
  OBVIOUS
<1>5. /\ SideOK(p, "guest", r) /\ r.at = "cheats" /\ "guest" \in Host
      /\ ~Reached("guest", "off") /\ ~Reached("guest", "running") /\ project # NoProject
  BY <1>1, <1>2, Underway DEF BootInv, ReadCheats, Reached, Host
<1>6. DOMAIN r = Fields /\ r.done = 0
  BY <1>5 DEF SideOK, Shaped
<1>7. CASE Refuses("guest", "error.cheats_missing")
  BY <1>5, <1>7, RefusesOK
<1>8. CASE ~Refuses("guest", "error.cheats_missing")
  <2>1. Goes("guest", s)
    <3>1. CASE p.cheats = <<>> \/ ~p.cheats[1].named
      <4>1. c = r.cheats
        BY <1>3, <3>1
      <4>2. s = [r EXCEPT !.at = "boot"]
        BY <1>4, <1>6, <4>1 DEF Fields
      <4>. QED BY <1>1, <1>2, <3>1, <4>2 DEF ReadCheats
    <3>2. CASE p.cheats # <<>> /\ p.cheats[1].named
      BY <1>1, <1>2, <1>3, <1>4, <1>8, <3>2 DEF ReadCheats
    <3>. QED BY <3>1, <3>2
  <2>2. DOMAIN s = Fields
    BY <1>4, <1>6 DEF Fields
  <2>3. s.at = "boot" /\ s.done = 0
    BY <1>4, <1>6 DEF Fields
  <2>4. s.cheats = c
    BY <1>4, <1>6 DEF Fields
  <2>5. /\ s.cfg = r.cfg /\ s.path = r.path /\ s.rows = r.rows /\ s.zips = r.zips
        /\ s.stick = r.stick
    BY <1>4, <1>6 DEF Fields
  <2>6. Shaped(s) /\ CfgTyped(s)
    BY <1>5, <2>2, <2>3, <2>5 DEF SideOK, Shaped, CfgTyped, Stage
  <2>7. Chose(p, "guest", s)
    <3>1. GuestSeen(s) = GuestSeen(r)
      BY <1>5, <2>3 DEF GuestSeen
    <3>. QED BY <1>5, <2>3, <2>5, <3>1 DEF SideOK, Chose, GuestChose
  <2>8. RowsRead(p, "guest", s)
    BY <1>5, <2>3, <2>5 DEF SideOK, RowsRead, WithFonts
  <2>9. Stocked(p, "guest", s)
    <3>1. ZipsSeen(s) = ZipsSeen(r)
      BY <1>5, <2>3, <2>5 DEF ZipsSeen
    <3>2. s.at \in WithFonts("guest") /\ r.at \in WithFonts("guest")
      BY <1>5, <2>3 DEF WithFonts
    <3>. QED BY <1>5, <2>3, <2>5, <3>1, <3>2 DEF SideOK, Stocked
  <2>10. CheatsRead(p, "guest", s)
    <3>1. r.cheats = ""
      BY <1>5 DEF SideOK, CheatsRead
    <3>. QED BY <1>3, <2>3, <2>4, <3>1 DEF CheatsRead
  <2>11. DiscSought(p, "guest", s)
    BY <1>5, <2>5 DEF SideOK, DiscSought
  <2>12. Told(s) /\ Started("guest", s)
    BY <2>3 DEF Told, Started
  <2>13. SideOK(p, "guest", s)
    BY <2>6, <2>7, <2>8, <2>9, <2>10, <2>11, <2>12 DEF SideOK
  <2>. QED BY <1>1, <1>5, <2>1, <2>13, Went
<1>. QED BY <1>7, <1>8

\* One --set more.
LEMMA ApplySetOK ==
  ASSUME BootInv, ApplySet
  PROVE  BootInv'
<1>1. PICK p : p = project
  OBVIOUS
<1>2. PICK r : r = side["native"]
  OBVIOUS
<1>3. PICK n : n = r.done
  OBVIOUS
<1>4. PICK k, t : k = p.choices[n + 1][1] /\ t = p.choices[n + 1][2]
  OBVIOUS
<1>5. PICK s : s = [r EXCEPT !.cfg = Applied(r.cfg, k, t), !.done = n + 1]
  OBVIOUS
<1>6. /\ SideOK(p, "native", r) /\ r.at = "settings" /\ "native" \in Host
      /\ ~Reached("native", "off") /\ ~Reached("native", "running")
      /\ project # NoProject /\ IsProject(p) /\ n < Len(p.choices) /\ DateInv
  BY <1>1, <1>2, <1>3, AProject, Underway DEF BootInv, ApplySet, Reached, Host
<1>7. CASE ~Accepts(k, t)
  <2>1. Refuses("native", "bad --set")
    BY <1>1, <1>2, <1>3, <1>4, <1>7 DEF ApplySet
  <2>2. "bad --set" # ""
    OBVIOUS
  <2>. QED BY <1>6, <2>1, <2>2, RefusesOK
<1>8. CASE Accepts(k, t)
  <2>1. Goes("native", s)
    BY <1>1, <1>2, <1>3, <1>4, <1>5, <1>8 DEF ApplySet
  <2>2. DOMAIN r = Fields /\ n \in Nat /\ CfgTyped(r) /\ NativeChose(p, r)
    BY <1>3, <1>6 DEF SideOK, Shaped, Chose
  <2>3. DOMAIN s = Fields
    BY <1>5, <2>2 DEF Fields
  <2>4. s.at = "settings" /\ s.done = n + 1
    BY <1>5, <1>6, <2>2 DEF Fields
  <2>5. s.cfg = Applied(r.cfg, k, t)
    BY <1>5, <2>2 DEF Fields
  <2>6. /\ s.cheats = r.cheats /\ s.path = r.path /\ s.rows = r.rows
        /\ s.zips = r.zips /\ s.stick = r.stick
    BY <1>5, <2>2 DEF Fields
  <2>7. Len(p.choices) \in Nat /\ p.choices \in Seq(STRING \X Text)
    BY <1>6, Sequenced
  <2>8. t \in Text
    <3>1. p.choices[n + 1] \in STRING \X Text
      BY <1>6, <2>2, <2>7
    <3>. QED BY <1>4, <3>1
  <2>9. k \in Key
    BY <1>6, <1>8, <2>8, AcceptedTyped
  <2>10. /\ s.cfg \in [Key -> AnyValue]
         /\ \A x \in Key : s.cfg[x] \in Values(x)
         /\ \A x \in Key : s.cfg[x] = IF x = k THEN Meaning(k, t) ELSE r.cfg[x]
    <3>1. r.cfg \in [Key -> AnyValue] /\ \A x \in Key : r.cfg[x] \in Values(x)
      BY <2>2 DEF CfgTyped
    <3>2. PICK c : c = r.cfg
      OBVIOUS
    <3>. QED BY <1>6, <1>8, <2>5, <2>8, <3>1, <3>2, AppliedTyped
  <2>11. Shaped(s) /\ CfgTyped(s)
    BY <2>2, <2>3, <2>4, <2>10 DEF Shaped, CfgTyped, Stage
  <2>12. NativeChose(p, s)
    <3>1. NativeSeen(p, r) = n /\ NativeSeen(p, s) = n + 1
      BY <1>3, <1>6, <2>4 DEF NativeSeen
    <3>2. /\ n \in 0..Len(p.choices)
          /\ \A i \in 1..n : Accepts(p.choices[i][1], p.choices[i][2])
          /\ \A key \in Key :
               (\A i \in 1..n : p.choices[i][1] # key) => r.cfg[key] = Defaults[key]
          /\ \A i \in 1..n :
               (\A j \in i + 1..n : p.choices[j][1] # p.choices[i][1])
               => r.cfg[p.choices[i][1]] = Meaning(p.choices[i][1], p.choices[i][2])
      BY <1>6, <2>2, <3>1 DEF NativeChose
    <3>3. n + 1 \in 0..Len(p.choices)
      BY <1>6, <2>2, <2>7
    <3>4. \A i \in 1..n + 1 : i \in 1..n \/ i = n + 1
      BY <2>2
    <3>5. \A i \in 1..n + 1 : Accepts(p.choices[i][1], p.choices[i][2])
      BY <1>4, <1>8, <3>2, <3>4
    <3>6. ASSUME NEW key \in Key, \A i \in 1..n + 1 : p.choices[i][1] # key
          PROVE  s.cfg[key] = Defaults[key]
      <4>1. k # key /\ \A i \in 1..n : p.choices[i][1] # key
        BY <1>4, <2>2, <3>6
      <4>. QED BY <2>10, <3>2, <4>1
    <3>7. ASSUME NEW i \in 1..n + 1,
                 \A j \in i + 1..n + 1 : p.choices[j][1] # p.choices[i][1]
          PROVE  s.cfg[p.choices[i][1]] = Meaning(p.choices[i][1], p.choices[i][2])
      <4>1. CASE i = n + 1
        BY <1>4, <2>9, <2>10, <4>1
      <4>2. CASE i # n + 1
        <5>1. i \in 1..n /\ n + 1 \in i + 1..n + 1
          BY <2>2, <4>2
        <5>2. p.choices[i][1] # k
          BY <1>4, <3>7, <5>1
        <5>3. \A j \in i + 1..n : p.choices[j][1] # p.choices[i][1]
          BY <2>2, <3>7, <5>1
        <5>4. p.choices[i][1] \in Key
          <6>1. p.choices[i] \in STRING \X Text
            BY <1>6, <2>2, <2>7, <5>1
          <6>2. PICK ki, ti : ki = p.choices[i][1] /\ ti = p.choices[i][2]
            OBVIOUS
          <6>3. Accepts(ki, ti) /\ ti \in Text
            BY <3>2, <5>1, <6>1, <6>2
          <6>. QED BY <1>6, <6>2, <6>3, AcceptedTyped
        <5>. QED BY <2>10, <3>2, <5>1, <5>2, <5>3, <5>4
      <4>. QED BY <4>1, <4>2
    <3>. QED BY <3>1, <3>3, <3>5, <3>6, <3>7 DEF NativeChose
  <2>13. Chose(p, "native", s)
    BY <2>12 DEF Chose
  <2>14. RowsRead(p, "native", s)
    BY <1>6, <2>4, <2>6 DEF SideOK, RowsRead
  <2>15. Stocked(p, "native", s)
    <3>1. ZipsSeen(s) = 0 /\ ZipsSeen(r) = 0
      BY <1>6, <2>4 DEF ZipsSeen
    <3>. QED BY <1>6, <2>4, <2>6, <3>1 DEF SideOK, Stocked
  <2>16. CheatsRead(p, "native", s) /\ DiscSought(p, "native", s)
    BY <1>6, <2>4, <2>6 DEF SideOK, CheatsRead, DiscSought
  <2>17. Told(s) /\ Started("native", s)
    BY <2>4 DEF Told, Started
  <2>18. SideOK(p, "native", s)
    BY <2>11, <2>13, <2>14, <2>15, <2>16, <2>17 DEF SideOK
  <2>. QED BY <1>1, <1>6, <2>1, <2>18, Went
<1>. QED BY <1>7, <1>8

\* All of them.
LEMMA SetsAppliedOK ==
  ASSUME BootInv, SetsApplied
  PROVE  BootInv'
<1>1. PICK p : p = project
  OBVIOUS
<1>2. PICK r : r = side["native"]
  OBVIOUS
<1>3. PICK s : s = [r EXCEPT !.done = 0, !.at = "seeds"]
  OBVIOUS
<1>4. /\ SideOK(p, "native", r) /\ r.at = "settings" /\ r.done = Len(p.choices)
      /\ Goes("native", s) /\ "native" \in Host /\ ~Reached("native", "off")
      /\ project # NoProject
  BY <1>1, <1>2, <1>3, Underway DEF BootInv, SetsApplied, Reached, Host
<1>5. DOMAIN r = Fields
  BY <1>4 DEF SideOK, Shaped
<1>6. DOMAIN s = Fields
  BY <1>3, <1>5 DEF Fields
<1>7. s.at = "seeds" /\ s.done = 0
  BY <1>3, <1>5 DEF Fields
<1>8. s.cfg = r.cfg /\ s.cheats = r.cheats /\ s.path = r.path /\ s.rows = r.rows
  BY <1>3, <1>5 DEF Fields
<1>9. s.zips = r.zips /\ s.stick = r.stick
  BY <1>3, <1>5 DEF Fields
<1>10. Shaped(s) /\ CfgTyped(s)
  BY <1>4, <1>6, <1>7, <1>8 DEF SideOK, Shaped, CfgTyped, Stage
<1>11. Chose(p, "native", s)
  <2>1. NativeSeen(p, s) = NativeSeen(p, r)
    BY <1>4, <1>7 DEF NativeSeen
  <2>. QED BY <1>4, <1>7, <1>8, <2>1 DEF SideOK, Chose, NativeChose
<1>12. RowsRead(p, "native", s)
  BY <1>4, <1>7, <1>8 DEF SideOK, RowsRead, WithFonts
<1>13. Stocked(p, "native", s)
  <2>1. ZipsSeen(s) = 0 /\ ZipsSeen(r) = 0
    BY <1>4, <1>7 DEF ZipsSeen
  <2>2. s.at \in WithFonts("native") /\ r.at \in WithFonts("native")
    BY <1>4, <1>7 DEF WithFonts
  <2>. QED BY <1>4, <1>7, <1>9, <2>1, <2>2 DEF SideOK, Stocked
<1>14. CheatsRead(p, "native", s) /\ DiscSought(p, "native", s)
  BY <1>4, <1>7, <1>8 DEF SideOK, CheatsRead, DiscSought
<1>15. Told(s) /\ Started("native", s)
  BY <1>7 DEF Told, Started
<1>16. SideOK(p, "native", s)
  BY <1>10, <1>11, <1>12, <1>13, <1>14, <1>15 DEF SideOK
<1>. QED BY <1>1, <1>4, <1>16, Went

\* pspdrv_boot.
LEMMA BootMachineOK ==
  ASSUME BootInv, NEW h \in Host, BootMachine(h)
  PROVE  BootInv'
<1>1. PICK p : p = project
  OBVIOUS
<1>2. PICK r : r = side[h]
  OBVIOUS
<1>3. PICK s : s = [r EXCEPT !.machine = Configured(h, r), !.at = "running"]
  OBVIOUS
<1>4. /\ SideOK(p, h, r) /\ r.at = "boot"
      /\ ~Reached(h, "off") /\ ~Reached(h, "running") /\ project # NoProject
  BY <1>1, <1>2, Underway DEF BootInv, BootMachine, Reached
<1>5. CASE \E error \in IF Unserved(h) # {} THEN Unserved(h) ELSE MayFail(h) : Refuses(h, error)
  <2>1. "" \notin Unserved(h) /\ "" \notin MayFail(h)
    BY DEF Unserved, MayFail
  <2>. QED BY <1>4, <1>5, <2>1, RefusesOK
<1>6. CASE ~\E error \in IF Unserved(h) # {} THEN Unserved(h) ELSE MayFail(h) : Refuses(h, error)
  <2>1. Unserved(h) = {} /\ Goes(h, s)
    BY <1>2, <1>3, <1>6 DEF BootMachine
  <2>2. DOMAIN r = Fields /\ r.done = 0
    BY <1>4 DEF SideOK, Shaped
  <2>3. DOMAIN s = Fields
    BY <1>3, <2>2 DEF Fields
  <2>4. s.at = "running" /\ s.done = 0
    BY <1>3, <2>2 DEF Fields
  <2>5. /\ s.cfg = r.cfg /\ s.cheats = r.cheats /\ s.path = r.path /\ s.rows = r.rows
        /\ s.zips = r.zips /\ s.stick = r.stick
    BY <1>3, <2>2 DEF Fields
  <2>6. s.machine = Configured(h, r)
    BY <1>3, <2>2 DEF Fields
  <2>7. Shaped(s) /\ CfgTyped(s)
    BY <1>4, <2>3, <2>4, <2>5 DEF SideOK, Shaped, CfgTyped, Stage
  <2>8. Chose(p, h, s)
    <3>1. GuestSeen(s) = GuestSeen(r) /\ NativeSeen(p, s) = NativeSeen(p, r)
      BY <1>4, <2>4 DEF GuestSeen, NativeSeen
    <3>. QED BY <1>4, <2>4, <2>5, <3>1 DEF SideOK, Chose, GuestChose, NativeChose
  <2>9. RowsRead(p, h, s)
    BY <1>4, <2>4, <2>5 DEF SideOK, RowsRead, WithFonts
  <2>10. Stocked(p, h, s)
    <3>1. ZipsSeen(s) = ZipsSeen(r)
      BY <1>4, <2>4, <2>5 DEF ZipsSeen
    <3>2. s.at \in WithFonts(h) /\ r.at \in WithFonts(h)
      BY <1>4, <2>4 DEF WithFonts
    <3>. QED BY <1>4, <2>4, <2>5, <3>1, <3>2 DEF SideOK, Stocked
  <2>11. CheatsRead(p, h, s) /\ DiscSought(p, h, s) /\ Told(s)
    BY <1>4, <2>4, <2>5 DEF SideOK, CheatsRead, DiscSought, Told
  <2>12. Started(h, s)
    <3>1. s.machine = Configured(h, s)
      BY <2>5, <2>6 DEF Configured
    <3>2. r.cfg["renderer"] = 1 => h = "guest" /\ bridge = "installed"
      BY <1>2, <2>1 DEF Unserved, Host
    <3>. QED BY <2>5, <3>1, <3>2 DEF Started
  <2>13. SideOK(p, h, s)
    BY <2>7, <2>8, <2>9, <2>10, <2>11, <2>12 DEF SideOK
  <2>. QED BY <1>1, <1>4, <2>1, <2>13, Went
<1>. QED BY <1>5, <1>6

-----------------------------------------------------------------------------
(* The files PPSSPP reads.                                                 *)

\* The least of a few.
LEMMA MinOf ==
  ASSUME NEW S \in SUBSET Int, NEW m \in S, \A y \in S : m <= y
  PROVE  Min(S) = m
<1>1. \E x \in S : \A y \in S : x <= y
  OBVIOUS
<1>2. Min(S) \in S /\ \A y \in S : Min(S) <= y
  BY <1>1, Zenon DEF Min
<1>3. PICK l : l = Min(S)
  OBVIOUS
<1>4. l \in S /\ l <= m
  BY <1>2, <1>3, Zenon
<1>5. l \in Int /\ m \in Int /\ m <= l
  BY <1>4
<1>. QED BY <1>3, <1>4, <1>5

\* The first reader that knows a path answers.
LEMMA FirstOfAll ==
  ASSUME NEW vfs, NEW path, NEW i \in 1..Len(vfs), Len(vfs) \in Nat, path \in DOMAIN vfs[i],
         \A j \in 1..Len(vfs) : path \in DOMAIN vfs[j] => i <= j
  PROVE  Answering(vfs, path) = vfs[i]
<1>. DEFINE S == {j \in 1..Len(vfs) : Has(vfs[j], path)}
<1>1. S \in SUBSET Int /\ i \in S /\ \A y \in S : i <= y
  BY DEF Has
<1>2. Min(S) = i
  <2>. HIDE DEF S
  <2>. QED BY <1>1, MinOf
<1>3. Answering(vfs, path) = vfs[IF S # {} THEN Min(S) ELSE 0]
  BY Zenon DEF Answering, SelectInSeq
<1>. HIDE DEF S
<1>. QED BY <1>1, <1>2, <1>3

LEMMA OverlayAnswers ==
  ASSUME NEW vfs, NEW a, NEW b, vfs = <<a, b>>, NEW path \in DOMAIN a
  PROVE  Answering(vfs, path) = a
<1>1. Len(vfs) = 2 /\ vfs[1] = a /\ vfs[2] = b
  OBVIOUS
<1>. QED BY <1>1, FirstOfAll

LEMMA FirstAnswers ==
  ASSUME NEW a, NEW b, NEW path
  PROVE  /\ path \in DOMAIN a => Answering(<<a, b>>, path) = a
         /\ path \notin DOMAIN a /\ path \in DOMAIN b => Answering(<<a, b>>, path) = b
         /\ path \in DOMAIN b => Answering(<<b>>, path) = b
<1>3. PICK vfs : vfs = <<a, b>>
  OBVIOUS
<1>4. Len(vfs) = 2 /\ vfs[1] = a /\ vfs[2] = b
  BY <1>3
<1>5. path \in DOMAIN a => Answering(vfs, path) = a
  BY FirstOfAll, <1>4
<1>6. path \notin DOMAIN a /\ path \in DOMAIN b => Answering(vfs, path) = b
  BY FirstOfAll, <1>4
<1>7. PICK one : one = <<b>>
  OBVIOUS
<1>8. Len(one) = 1 /\ one[1] = b
  BY <1>7
<1>9. path \in DOMAIN b => Answering(one, path) = b
  BY FirstOfAll, <1>8
<1>. QED BY <1>3, <1>5, <1>6, <1>7, <1>9

\* The fonts that count are those with something in them, under their paths.
LEMMA FontsOverride ==
  ASSUME NEW p, IsProject(p), NEW rows, rows = FontRows(p)
  PROVE  /\ DOMAIN rows = {FontPath(f) : f \in {g \in DOMAIN p.fonts : p.fonts[g] # <<>>}}
         /\ \A f \in DOMAIN p.fonts : p.fonts[f] # <<>> => rows[FontPath(f)] = p.fonts[f]
         /\ \A f : FontPath(f)[3] = f
         /\ \A f \in DOMAIN p.fonts : p.fonts[f] \in Seq(Byte)
<1>1. DOMAIN p.fonts \subseteq FontFiles /\ \A f \in DOMAIN p.fonts : p.fonts[f] \in Seq(Byte)
  BY DEF IsProject
<1>2. \A f : FontPath(f)[3] = f
  BY DEF FontPath
<1>3. PICK given : given = {f \in FontFiles \cap DOMAIN p.fonts : p.fonts[f] # <<>>}
  OBVIOUS
<1>4. given = {g \in DOMAIN p.fonts : p.fonts[g] # <<>>}
  BY <1>1, <1>3
<1>5. rows = [path \in {FontPath(f) : f \in given} |-> p.fonts[path[3]]]
  BY <1>3 DEF FontRows, FontOverrides
<1>6. DOMAIN rows = {FontPath(f) : f \in given}
  BY <1>5
<1>7. \A f \in given : rows[FontPath(f)] = p.fonts[f]
  BY <1>2, <1>5
<1>. QED BY <1>1, <1>2, <1>4, <1>6, <1>7

\* What PPSSPP reads under a path it finds.
LEMMA ReadsExpected ==
  ASSUME IsProject(project), NEW vfs, vfs = Registered(FontRows(project)),
         NEW path, NEW i \in DOMAIN vfs, path \in DOMAIN vfs[i]
  PROVE  /\ ReadFile(Answering(vfs, path), path) = Expected(path)
         /\ Expected(path) \in Seq(Byte)
         /\ path \in {FontPath(f) : f \in Provided} \cup DOMAIN Embedded
<1>1. PICK p : p = project
  OBVIOUS
<1>2. PICK rows : rows = FontRows(p)
  OBVIOUS
<1>3. /\ DOMAIN rows = {FontPath(f) : f \in Provided}
      /\ \A f \in Provided : rows[FontPath(f)] = p.fonts[f] /\ FontPath(f)[3] = f
      /\ \A f \in Provided : p.fonts[f] \in Seq(Byte)
  <2>1. Provided = {g \in DOMAIN p.fonts : p.fonts[g] # <<>>}
    BY <1>1 DEF Provided
  <2>. QED BY <1>1, <1>2, <2>1, FontsOverride, ZenonT(60)
<1>4. vfs = IF DOMAIN rows # {} THEN <<rows, Embedded>> ELSE <<Embedded>>
  BY <1>1, <1>2 DEF Registered
<1>5. CASE path \in DOMAIN rows
  <2>1. PICK f \in Provided : path = FontPath(f)
    BY <1>3, <1>5
  <2>2. Expected(path) = p.fonts[path[3]]
    BY <1>1, <2>1 DEF Expected
  <2>3. Expected(path) = p.fonts[f] /\ rows[path] = p.fonts[f]
    BY <1>3, <2>1, <2>2
  <2>4. Answering(vfs, path) = rows
    BY <1>4, <1>5, FirstAnswers
  <2>. QED BY <1>3, <1>5, <2>3, <2>4 DEF ReadFile
<1>6. CASE path \notin DOMAIN rows
  <2>1. Expected(path) = ReadFile(Embedded, path)
    BY <1>3, <1>6 DEF Expected
  <2>2. path \in DOMAIN Embedded
    BY <1>4, <1>6
  <2>3. Answering(vfs, path) = Embedded
    BY <1>4, <1>6, <2>2, FirstAnswers
  <2>. QED BY <2>1, <2>2, <2>3, AssetsAssumption DEF ReadFile
<1>. QED BY <1>5, <1>6

\* A file that is read.
LEMMA ReadAssetOK ==
  ASSUME BootInv, ReadAsset
  PROVE  BootInv'
<1>1. /\ UNCHANGED <<year, month, day, passed, project, side, bridge>>
      /\ Reached("guest", "running")
  BY DEF ReadAsset
<1>2. (\A path : Expected(path)' = Expected(path)) /\ Reached("guest", "running")'
  BY <1>1 DEF Expected, Provided, Reached
<1>3. PICK r : r = side["guest"]
  OBVIOUS
<1>4. SideOK(project, "guest", r) /\ IsProject(project) /\ r.at = "running"
  BY <1>1, <1>3, AProject DEF BootInv, Reached, Host
<1>5. r.machine.vfs = Registered(FontRows(project))
  <2>1. r.machine = Configured("guest", r)
    BY <1>4 DEF SideOK, Started
  <2>2. Configured("guest", r).vfs = Registered(r.rows)
    BY DEF Configured
  <2>3. r.rows = FontRows(project)
    BY <1>4 DEF SideOK, RowsRead, WithFonts
  <2>. QED BY <2>1, <2>2, <2>3
<1>6. ASSUME NEW i \in DOMAIN r.machine.vfs, NEW path \in DOMAIN r.machine.vfs[i],
             OpenFileForRead(r.machine.vfs, path)
      PROVE  Reading'
  <2>1. PICK vfs : vfs = r.machine.vfs
    OBVIOUS
  <2>2. PICK bytes : bytes = ReadFile(Answering(vfs, path), path)
    OBVIOUS
  <2>3. bytes = Expected(path) /\ bytes \in Seq(Byte)
    BY <1>4, <1>5, <1>6, <2>1, <2>2, ReadsExpected
  <2>4. open' = [name |-> path, bytes |-> bytes, pos |-> 0, got |-> <<>>]
    BY <1>6, <2>1, <2>2 DEF OpenFileForRead
  <2>5. /\ DOMAIN open' = {"name", "bytes", "pos", "got"}
        /\ open'.name = path /\ open'.bytes = bytes /\ open'.pos = 0 /\ open'.got = <<>>
    BY <2>4
  <2>6. Len(bytes) \in Nat /\ SubSeq(bytes, 1, 0) = <<>>
    BY <2>3, SubSeqEmpty
  <2>7. open'.pos \in 0..Len(open'.bytes) /\ open'.got = SubSeq(open'.bytes, 1, open'.pos)
    BY <2>5, <2>6
  <2>8. Expected(open.name)' = bytes
    BY <1>2, <2>3, <2>5
  <2>. QED BY <1>2, <2>3, <2>5, <2>7, <2>8 DEF Reading
<1>7. ASSUME open # Closed
      PROVE  /\ DOMAIN open = {"name", "bytes", "pos", "got"}
             /\ open.bytes = Expected(open.name) /\ open.bytes \in Seq(Byte)
             /\ open.pos \in 0..Len(open.bytes)
             /\ open.got = SubSeq(open.bytes, 1, open.pos)
             /\ Len(open.bytes) \in Nat
  BY <1>7 DEF BootInv, Reading
<1>8. ASSUME NEW length \in ReadSize, Read(length)
      PROVE  Reading'
  <2>1. open # Closed
    BY <1>8 DEF Read
  <2>2. PICK bytes, pos : bytes = open.bytes /\ pos = open.pos
    OBVIOUS
  <2>3. PICK take : take = Take(Len(bytes), length, pos)
    OBVIOUS
  <2>4. open' = [open EXCEPT !.pos = pos + take,
                             !.got = open.got \o SubSeq(bytes, pos + 1, pos + take)]
    BY <1>8, <2>2, <2>3 DEF Read
  <2>5. /\ DOMAIN open' = {"name", "bytes", "pos", "got"}
        /\ open'.name = open.name /\ open'.bytes = bytes /\ open'.pos = pos + take
        /\ open'.got = open.got \o SubSeq(bytes, pos + 1, pos + take)
    BY <1>7, <2>1, <2>2, <2>4
  <2>6. /\ bytes \in Seq(Byte) /\ bytes = Expected(open.name) /\ Len(bytes) \in Nat
        /\ pos \in 0..Len(bytes) /\ open.got = SubSeq(bytes, 1, pos)
    BY <1>7, <2>1, <2>2
  <2>7. take \in Nat /\ pos + take \in pos..Len(bytes)
    BY <2>3, <2>6, AssetsAssumption DEF Take
  <2>8. SubSeq(bytes, 1, pos) \o SubSeq(bytes, pos + 1, pos + take) = SubSeq(bytes, 1, pos + take)
    <3>1. 1 \in 1..Len(bytes) + 1 /\ pos \in 1 - 1..Len(bytes)
      BY <2>6
    <3>. QED BY <2>6, <2>7, <3>1, ConcatAdjacentSubSeq
  <2>9. Expected(open.name)' = bytes
    BY <1>2, <2>5, <2>6
  <2>10. pos + take \in 0..Len(bytes)
    BY <2>6, <2>7
  <2>. QED BY <1>2, <2>5, <2>6, <2>8, <2>9, <2>10 DEF Reading
<1>9. ASSUME Rewind PROVE Reading'
  <2>1. open # Closed /\ open' = [open EXCEPT !.pos = 0, !.got = <<>>]
    BY <1>9 DEF Rewind
  <2>2. /\ DOMAIN open' = {"name", "bytes", "pos", "got"}
        /\ open'.name = open.name /\ open'.bytes = open.bytes /\ open'.pos = 0
        /\ open'.got = <<>>
    BY <1>7, <2>1
  <2>3. SubSeq(open.bytes, 1, 0) = <<>> /\ 0 \in 0..Len(open.bytes)
    BY <1>7, <2>1, SubSeqEmpty
  <2>4. Expected(open.name)' = open'.bytes
    BY <1>2, <1>7, <2>1, <2>2
  <2>. QED BY <1>2, <1>7, <2>1, <2>2, <2>3, <2>4 DEF Reading
<1>10. ASSUME CloseFile PROVE Reading'
  BY <1>10 DEF CloseFile, Reading, Closed
<1>11. Reading'
  BY <1>3, <1>6, <1>8, <1>9, <1>10 DEF ReadAsset
<1>12. ASSUME NEW h \in Host PROVE SideOK(project, h, side[h])'
  <2>1. PICK p, s : p = project /\ s = side[h]
    OBVIOUS
  <2>2. SideOK(p, h, s) /\ Len(p.choices) \in Nat
    BY <1>4, <2>1, Sequenced DEF BootInv
  <2>. QED BY <1>1, <2>1, <2>2, Kept
<1>. QED BY <1>1, <1>11, <1>12 DEF BootInv, DateInv, Began

-----------------------------------------------------------------------------
(* Before Init.                                                            *)

\* What has not begun is not changed by what else happens.
LEMMA Waiting ==
  ASSUME BootInv, project = NoProject
  PROVE  /\ open = Closed /\ bridge = "none"
         /\ \A h \in Host : side[h] = Idle(h) /\ Idle(h).at = "off"
<1>1. bridge = "none" /\ \A h \in Host : side[h] = Idle(h)
  BY DEF BootInv, Began
<1>2. \A h \in Host : Idle(h).at = "off"
  BY DEF Idle
<1>3. open = Closed
  BY <1>1, <1>2 DEF BootInv, Reading, Reached, Host
<1>. QED BY <1>1, <1>2, <1>3

LEMMA OpenOK ==
  ASSUME BootInv, NEW p \in Project, Open(p)
  PROVE  BootInv'
<1>1. /\ project = NoProject /\ project' = p
      /\ UNCHANGED <<year, month, day, passed, open, side, bridge>>
  BY DEF Open
<1>2. /\ open = Closed /\ bridge = "none"
      /\ \A h \in Host : side[h] = Idle(h) /\ Idle(h).at = "off"
  BY <1>1, Waiting
<1>3. IsProject(p) /\ Len(p.choices) \in Nat /\ DateInv
  BY ProjectAssumption, Sequenced DEF BootInv
<1>4. ASSUME NEW h \in Host PROVE SideOK(project, h, side[h])'
  <2>1. SideOK(p, h, Idle(h))
    BY <1>3, IdleOK
  <2>2. PICK s : s = Idle(h)
    OBVIOUS
  <2>3. SideOK(p, h, s)'
    BY <1>1, <1>2, <1>3, <2>1, <2>2, Kept
  <2>. QED BY <1>1, <1>2, <2>2, <2>3
<1>5. Began'
  BY <1>1, <1>2, <1>3 DEF Began
<1>6. Reading'
  BY <1>1, <1>2 DEF Reading
<1>. QED BY <1>1, <1>4, <1>5, <1>6 DEF BootInv, DateInv

LEMMA MidnightOK ==
  ASSUME BootInv, project = NoProject, Midnight, UNCHANGED <<open, project, side, bridge>>
  PROVE  BootInv'
<1>1. /\ open = Closed /\ bridge = "none"
      /\ \A h \in Host : side[h] = Idle(h) /\ Idle(h).at = "off"
  BY Waiting
<1>2. DateInv'
  BY DateStep DEF BootInv
<1>3. ASSUME NEW h \in Host PROVE SideOK(project, h, side[h])'
  <2>1. PICK p, s : p = project /\ s = side[h]
    OBVIOUS
  <2>2. SideOK(p, h, s) /\ Len(p.choices) \in Nat /\ s.at = "off"
    BY <1>1, <2>1, AProject, Sequenced DEF BootInv
  <2>. QED BY <2>1, <2>2, Kept
<1>. QED BY <1>1, <1>2, <1>3 DEF BootInv, Began, Reading

LEMMA SetVulkanBridgeOK ==
  ASSUME BootInv, SetVulkanBridge
  PROVE  BootInv'
<1>1. /\ UNCHANGED <<year, month, day, passed, open, project, side>>
      /\ project # NoProject /\ Reached("guest", "off")
      /\ bridge' \in {"none", "installed", "refused"}
  BY DEF SetVulkanBridge
<1>2. ASSUME NEW h \in Host PROVE SideOK(project, h, side[h])'
  <2>1. PICK p, s : p = project /\ s = side[h]
    OBVIOUS
  <2>2. SideOK(p, h, s) /\ Len(p.choices) \in Nat
    BY <2>1, AProject, Sequenced DEF BootInv
  <2>3. ~(s.at = "running" /\ h = "guest")
    BY <1>1, <2>1 DEF Reached
  <2>. QED BY <1>1, <2>1, <2>2, <2>3, Kept
<1>3. open = Closed
  BY <1>1 DEF BootInv, Reading, Reached
<1>. QED BY <1>1, <1>2, <1>3 DEF BootInv, DateInv, Began, Reading

-----------------------------------------------------------------------------
(* All of them.                                                            *)

LEMMA BootBegins == BootInit => BootInv
<1>. SUFFICES ASSUME BootInit PROVE BootInv
  OBVIOUS
<1>1. DateInv
  BY FirstDay DEF BootInit
<1>2. project = NoProject /\ bridge = "none" /\ open = Closed
      /\ side = [h \in Host |-> Idle(h)]
  BY DEF BootInit
<1>3. \A h \in Host : SideOK(project, h, side[h])
  BY <1>1, <1>2, IdleOK, NothingIsAProject
<1>. QED BY <1>1, <1>2, <1>3 DEF BootInv, Began, Reading

LEMMA BootStays == BootInv /\ [BootNext]_bootVars => BootInv'
<1>. SUFFICES ASSUME BootInv, [BootNext]_bootVars PROVE BootInv'
  OBVIOUS
<1>1. CASE project = NoProject /\ Midnight /\ UNCHANGED <<open, project, side, bridge>>
  BY <1>1, MidnightOK
<1>2. CASE \E p \in Project : Open(p)
  BY <1>2, OpenOK
<1>3. CASE SetVulkanBridge
  BY <1>3, SetVulkanBridgeOK
<1>4. CASE FindDisc
  BY <1>4, FindDiscOK
<1>5. CASE ReadSetting
  BY <1>5, ReadSettingOK
<1>6. CASE GuestFonts
  <2>1. ~Reached("guest", "off") /\ Seeds(project) \in Archives(project, "guest")
    BY <1>6 DEF GuestFonts, Reached, Archives
  <2>2. project # NoProject
    BY <2>1, Underway DEF Host
  <2>3. /\ Reached("guest", IF "guest" = "guest" THEN "fonts" ELSE "off")
        /\ ReadFonts("guest", Seeds(project), IF "guest" = "guest" THEN "seeds" ELSE "settings")
    BY <1>6 DEF GuestFonts
  <2>. QED BY <2>1, <2>2, <2>3, ReadFontsOK DEF Host
<1>7. CASE ReadCheats
  BY <1>7, ReadCheatsOK
<1>8. CASE NativeFonts
  <2>1. ~Reached("guest", "off")
    BY <1>8 DEF NativeFonts, Reached
  <2>2. project # NoProject
    BY <2>1, Underway DEF Host
  <2>3. PICK zips \in NativeSeeds(project) : ReadFonts("native", zips, "settings")
    BY <1>8 DEF NativeFonts
  <2>4. /\ Reached("native", IF "native" = "guest" THEN "fonts" ELSE "off")
        /\ ReadFonts("native", zips, IF "native" = "guest" THEN "seeds" ELSE "settings")
        /\ zips \in Archives(project, "native")
    BY <1>8, <2>3 DEF NativeFonts, Archives
  <2>. QED BY <2>2, <2>4, ReadFontsOK DEF Host
<1>9. CASE ApplySet
  BY <1>9, ApplySetOK
<1>10. CASE SetsApplied
  BY <1>10, SetsAppliedOK
<1>11. CASE \E h \in Host : SeedZip(h) \/ Seeded(h) \/ BootMachine(h)
  BY <1>11, SeedZipOK, SeededOK, BootMachineOK
<1>12. CASE ReadAsset
  BY <1>12, ReadAssetOK
<1>13. CASE UNCHANGED bootVars
  <2>1. UNCHANGED <<year, month, day, passed, open, project, side, bridge>>
    BY <1>13 DEF bootVars
  <2>2. ASSUME NEW h \in Host PROVE SideOK(project, h, side[h])'
    <3>1. PICK p, s : p = project /\ s = side[h]
      OBVIOUS
    <3>2. SideOK(p, h, s) /\ Len(p.choices) \in Nat
      BY <3>1, AProject, Sequenced DEF BootInv
    <3>. QED BY <2>1, <3>1, <3>2, Kept
  <2>3. Reading'
    BY <2>1 DEF BootInv, Reading, Reached, Expected, Provided
  <2>. QED BY <2>1, <2>2, <2>3 DEF BootInv, DateInv, Began
<1>. QED
  BY <1>1, <1>2, <1>3, <1>4, <1>5, <1>6, <1>7, <1>8, <1>9, <1>10, <1>11, <1>12, <1>13
  DEF BootNext

\* What a program has is what the project, and how far it has come, make of it.
THEOREM BootAlways == BootSpec => []BootInv
BY BootBegins, BootStays, PTL DEF BootSpec

-----------------------------------------------------------------------------
(* The properties.                                                         *)

\* pspdrv_parse_datetime: every day of the calendar is as many days after the
\* first as were counted, leap years and centuries included, and none is refused.
THEOREM EachDayCounted == BootSpec => []DaysAreCounted
<1>1. BootInv => DaysAreCounted
  BY EachDay DEF BootInv
<1>. QED BY <1>1, BootAlways, PTL

\* What a program has is of its kind: a configuration has every key with a value
\* the core knows, and the rows of the font overlay are fonts of the project.
THEOREM BootTyped == BootSpec => []TypeOK
<1>1. ASSUME BootInv PROVE TypeOK
  <2>1. DOMAIN side = Host /\ bridge \in {"none", "installed", "refused"}
    BY <1>1 DEF BootInv
  <2>2. open.pos <= Len(open.bytes)
    <3>1. CASE open = Closed
      <4>1. open.pos = 0 /\ Len(open.bytes) = 0
        BY <3>1 DEF Closed
      <4>. QED BY <4>1
    <3>2. CASE open # Closed
      <4>1. open.pos \in 0..Len(open.bytes) /\ Len(open.bytes) \in Nat
        BY <1>1, <3>2 DEF BootInv, Reading
      <4>. QED BY <4>1
    <3>. QED BY <3>1, <3>2
  <2>3. ASSUME NEW h \in Host
        PROVE  /\ side[h].at \in Stage
               /\ DOMAIN side[h].cfg = Key
               /\ \A k \in Key : side[h].cfg[k] \in Values(k)
               /\ \A path \in DOMAIN side[h].rows : \E f \in DOMAIN project.fonts :
                    path = FontPath(f) /\ side[h].rows[path] = project.fonts[f]
    <3>1. PICK p, s : p = project /\ s = side[h]
      OBVIOUS
    <3>2. SideOK(p, h, s) /\ IsProject(p)
      BY <1>1, <3>1, AProject DEF BootInv
    <3>3. s.at \in Stage /\ DOMAIN s.cfg = Key /\ \A k \in Key : s.cfg[k] \in Values(k)
      BY <3>2 DEF SideOK, Shaped, CfgTyped
    <3>4. PICK rows : rows = FontRows(p)
      OBVIOUS
    <3>5. s.rows = <<>> \/ s.rows = rows
      BY <3>2, <3>4 DEF SideOK, RowsRead
    <3>6. \A path \in DOMAIN rows : \E f \in DOMAIN p.fonts :
            path = FontPath(f) /\ rows[path] = p.fonts[f]
      <4>1. /\ DOMAIN rows = {FontPath(f) : f \in {g \in DOMAIN p.fonts : p.fonts[g] # <<>>}}
            /\ \A f \in DOMAIN p.fonts : p.fonts[f] # <<>> => rows[FontPath(f)] = p.fonts[f]
        BY <3>2, <3>4, FontsOverride
      <4>. QED BY <4>1
    <3>7. \A path \in DOMAIN s.rows : \E f \in DOMAIN p.fonts :
            path = FontPath(f) /\ s.rows[path] = p.fonts[f]
      BY <3>5, <3>6
    <3>. QED BY <3>1, <3>3, <3>7
  <2>. QED BY <2>1, <2>2, <2>3 DEF TypeOK
<1>. QED BY <1>1, BootAlways, PTL

\* Init asks for every setting there is.
LEMMA EveryKeyAsked ==
  ASSUME NEW k \in Key
  PROVE  \E i \in 1..Len(SettingKeys) : SettingKeys[i] = k
<1>1. /\ SettingKeys[1] = "cpuCore" /\ SettingKeys[2] = "pspModel"
      /\ SettingKeys[3] = "language" /\ SettingKeys[4] = "nickname"
      /\ SettingKeys[5] = "buttonPreference" /\ SettingKeys[6] = "rtcBase"
      /\ SettingKeys[7] = "cpuClock" /\ SettingKeys[8] = "ioTiming"
      /\ SettingKeys[9] = "timeZone"
  BY DEF SettingKeys
<1>2. /\ SettingKeys[10] = "daylightSavings" /\ SettingKeys[11] = "firmwareVersion"
      /\ SettingKeys[12] = "macAddress" /\ SettingKeys[13] = "dateFormat"
      /\ SettingKeys[14] = "timeFormat" /\ SettingKeys[15] = "parentalLevel"
      /\ SettingKeys[16] = "funcReplacements" /\ SettingKeys[17] = "encryptSave"
      /\ SettingKeys[18] = "renderer"
  BY DEF SettingKeys
<1>3. Len(SettingKeys) = 18
  BY DEF SettingKeys
<1>4. \E i \in 1..18 : SettingKeys[i] = k
  BY <1>1, <1>2, Kinds DEF Key
<1>. QED BY <1>3, <1>4

\* What a program that has read its settings has for each of them.
LEMMA GuestHas ==
  ASSUME BootInv, Running("guest"), NEW k \in Key
  PROVE  side["guest"].cfg[k] =
           IF k \in DOMAIN Mounted(project) /\ Accepts(k, Mounted(project)[k])
             THEN Meaning(k, Mounted(project)[k]) ELSE Idle("guest").cfg[k]
<1>1. PICK p, s : p = project /\ s = side["guest"]
  OBVIOUS
<1>2. s.at = "running" /\ GuestChose(p, s)
  BY <1>1 DEF BootInv, Running, Reached, SideOK, Chose, Host
<1>3. GuestSeen(s) = Len(SettingKeys)
  BY <1>2 DEF GuestSeen
<1>. QED BY <1>1, <1>2, <1>3, EveryKeyAsked DEF GuestChose, Takes

LEMMA NativeHas ==
  ASSUME BootInv, Running("native"), NEW k \in Key
  PROVE  IF k \in DOMAIN LastChosen(project)
           THEN /\ Accepts(k, LastChosen(project)[k])
                /\ side["native"].cfg[k] = Meaning(k, LastChosen(project)[k])
           ELSE side["native"].cfg[k] = Defaults[k]
<1>1. PICK p, s : p = project /\ s = side["native"]
  OBVIOUS
<1>2. s.at = "running" /\ NativeChose(p, s) /\ IsProject(p)
  BY <1>1, AProject DEF BootInv, Running, Reached, SideOK, Chose, Host
<1>3. NativeSeen(p, s) = Len(p.choices)
  BY <1>2 DEF NativeSeen
<1>4. CASE k \in DOMAIN LastChosen(p)
  <2>1. PICK i \in 1..Len(p.choices) :
          /\ p.choices[i][1] = k /\ LastChosen(p)[k] = p.choices[i][2]
          /\ \A j \in i + 1..Len(p.choices) : p.choices[j][1] # k
    BY <1>2, <1>4, LastChoice
  <2>. QED BY <1>1, <1>2, <1>3, <1>4, <2>1 DEF NativeChose
<1>5. CASE k \notin DOMAIN LastChosen(p)
  <2>1. \A i \in 1..Len(p.choices) : p.choices[i][1] # k
    BY <1>2, <1>5, Sequenced DEF LastChosen
  <2>. QED BY <1>1, <1>2, <1>3, <1>5, <2>1 DEF NativeChose
<1>. QED BY <1>1, <1>4, <1>5

\* waterbox.cpp:112: in a running machine each setting is what was given last for
\* it, if pspdrv_apply_setting takes that, and else what the program starts from;
\* today's date is the number of days that have passed.
THEOREM SettingsAsChosen == BootSpec => []AsChosen
<1>1. ASSUME BootInv, NEW h \in Host, Running(h), NEW k \in Key
      PROVE  Machine(h).settings[k] =
               IF k \notin DOMAIN Given(h) \/ ~Accepts(k, Given(h)[k]) THEN Idle(h).cfg[k]
               ELSE IF k = "rtcBase" /\ Given(h)[k] = Today
                      THEN [days |-> passed, second |-> 86399]
               ELSE Meaning(k, Given(h)[k])
  <2>1. Machine(h).settings[k] = side[h].cfg[k]
    <3>1. PICK s : s = side[h]
      OBVIOUS
    <3>2. s.machine = Configured(h, s)
      BY <1>1, <3>1 DEF BootInv, SideOK, Started, Running, Reached
    <3>3. Configured(h, s).settings = s.cfg
      BY DEF Configured
    <3>. QED BY <3>1, <3>2, <3>3 DEF Machine
  <2>2. side[h].cfg[k] =
          IF k \notin DOMAIN Given(h) \/ ~Accepts(k, Given(h)[k]) THEN Idle(h).cfg[k]
          ELSE Meaning(k, Given(h)[k])
    <3>1. CASE h = "guest"
      BY <1>1, <3>1, GuestHas DEF Given
    <3>2. CASE h = "native"
      <4>1. Idle("native").cfg = Defaults
        BY DEF Idle
      <4>. QED BY <1>1, <3>2, <4>1, NativeHas DEF Given
    <3>. QED BY <3>1, <3>2 DEF Host
  <2>3. Meaning("rtcBase", Today) = [days |-> passed, second |-> 86399]
    <3>1. Meaning("rtcBase", Today) = DateOf(Today)
      BY Kinds DEF Meaning
    <3>2. DateOf(Today) = ParseDatetime(year, month, day, 23, 59, 59)
      BY DEF DateOf
    <3>3. DaysAreCounted
      BY <1>1, EachDay DEF BootInv
    <3>. QED BY <3>1, <3>2, <3>3 DEF DaysAreCounted
  <2>. QED BY <2>1, <2>2, <2>3
<1>2. BootInv => AsChosen
  BY <1>1 DEF AsChosen
<1>. QED BY <1>2, BootAlways, PTL

\* waterbox.cpp:83: however the host named the disc and wherever it mounted it,
\* Init goes for a path that opens.
THEOREM DiscAlwaysFound == BootSpec => []DiscFound
<1>1. ASSUME BootInv PROVE DiscFound
  <2>1. PICK d : d = project.disc
    OBVIOUS
  <2>2. ~Reached("guest", "off") => side["guest"].path = DiscPath(d)
    BY <1>1, <2>1 DEF BootInv, SideOK, DiscSought, Reached, Host
  <2>. QED BY <2>1, <2>2 DEF DiscFound, DiscPath
<1>. QED BY <1>1, BootAlways, PTL

\* psp-driver.cpp:501: the font a user provides is the font PPSSPP finds and reads,
\* in however many pieces, and every other file is the bundled one.
THEOREM OverridesAlwaysWin == BootSpec => []OverrideWins
<1>1. ASSUME BootInv PROVE OverrideWins
  <2>1. ASSUME Running("guest"),
               NEW path \in {FontPath(f) : f \in Provided} \cup DOMAIN Embedded
        PROVE  ReadFile(Answering(Machine("guest").vfs, path), path) = Expected(path)
    <3>1. PICK p, s : p = project /\ s = side["guest"]
      OBVIOUS
    <3>2. SideOK(p, "guest", s) /\ s.at = "running" /\ IsProject(p)
      BY <1>1, <2>1, <3>1, AProject DEF BootInv, Running, Reached, Host
    <3>3. PICK vfs, rows : vfs = Machine("guest").vfs /\ rows = FontRows(p)
      OBVIOUS
    <3>4. vfs = Registered(rows)
      <4>1. s.machine = Configured("guest", s)
        BY <3>2 DEF SideOK, Started
      <4>2. Configured("guest", s).vfs = Registered(s.rows)
        BY DEF Configured
      <4>3. s.rows = FontRows(p)
        BY <3>2 DEF SideOK, RowsRead, WithFonts
      <4>. QED BY <3>1, <3>3, <4>1, <4>2, <4>3 DEF Machine
    <3>5. DOMAIN rows = {FontPath(f) : f \in Provided}
      <4>1. Provided = {g \in DOMAIN p.fonts : p.fonts[g] # <<>>}
        BY <3>1 DEF Provided
      <4>. QED BY <3>2, <3>3, <4>1, FontsOverride
    <3>6. \E i \in DOMAIN vfs : path \in DOMAIN vfs[i]
      <4>1. CASE DOMAIN rows # {}
        <5>1. vfs = <<rows, Embedded>>
          BY <3>4, <4>1 DEF Registered
        <5>2. DOMAIN vfs = 1..2 /\ vfs[1] = rows /\ vfs[2] = Embedded
          BY <5>1
        <5>. QED BY <2>1, <3>5, <5>2
      <4>2. CASE DOMAIN rows = {}
        <5>1. vfs = <<Embedded>>
          BY <3>4, <4>2 DEF Registered
        <5>2. DOMAIN vfs = 1..1 /\ vfs[1] = Embedded
          BY <5>1
        <5>. QED BY <2>1, <3>5, <4>2, <5>2
      <4>. QED BY <4>1, <4>2
    <3>. QED BY <3>1, <3>2, <3>3, <3>4, <3>6, ReadsExpected
  <2>2. open # Closed => open.got = SubSeq(Expected(open.name), 1, open.pos)
    BY <1>1 DEF BootInv, Reading
  <2>. QED BY <2>1, <2>2 DEF OverrideWins
<1>. QED BY <1>1, BootAlways, PTL

\* The last of the archives that has a file.
LastWith(zips, i, f) ==
  /\ i \in 1..Len(zips) /\ f \in DOMAIN zips[i].files
  /\ \A j \in i + 1..Len(zips) : f \notin DOMAIN zips[j].files

Having(zips, f) == {i \in DOMAIN zips : f \in DOMAIN zips[i].files}

\* Archives that do not have it.
Lacking(zips, f) == \A i \in 1..Len(zips) : f \notin DOMAIN zips[i].files

LEMMA SomeLast ==
  ASSUME NEW zips, DOMAIN zips = 1..Len(zips), Len(zips) \in Nat,
         NEW f, \E i \in 1..Len(zips) : f \in DOMAIN zips[i].files
  PROVE  LastWith(zips, Max(Having(zips, f)), f)
<1>. DEFINE S == Having(zips, f)
<1>1. S \in SUBSET (1..Len(zips)) /\ S # {}
  BY DEF Having
<1>2. Max(S) \in S /\ \A i \in S : i <= Max(S)
  <2>. HIDE DEF S
  <2>. QED BY <1>1, MaxOf
<1>3. PICK m : m = Max(S)
  OBVIOUS
<1>4. m \in 1..Len(zips) /\ f \in DOMAIN zips[m].files
  BY <1>2, <1>3 DEF Having
<1>5. \A j \in m + 1..Len(zips) : f \notin DOMAIN zips[j].files
  <2>. SUFFICES ASSUME NEW j \in m + 1..Len(zips), f \in DOMAIN zips[j].files PROVE FALSE
    OBVIOUS
  <2>1. j \in 1..Len(zips) /\ ~(j <= m)
    BY <1>4
  <2>2. j \in S
    BY <2>1 DEF Having
  <2>. QED BY <1>2, <1>3, <2>1, <2>2
<1>. HIDE DEF S
<1>6. LastWith(zips, m, f)
  BY <1>4, <1>5 DEF LastWith
<1>. QED BY <1>3, <1>6 DEF S

\* If none is passed over, the card has them all.
LEMMA AllTaken ==
  ASSUME NEW stick, NEW zips, NEW h, Len(zips) \in Nat,
         Laid(stick, Taken(h, zips), Len(zips)),
         \A i \in 1..Len(zips) : ~Skipped(h, zips[i])
  PROVE  Laid(stick, zips, Len(zips))
<1>1. \A i \in 1..Len(zips) : Taken(h, zips)[i].files = zips[i].files
  BY TakenFields
<1>. QED BY <1>1, LaidSame

\* What was laid last shows.
LEMMA LastShows ==
  ASSUME NEW stick, NEW zips, Laid(stick, zips, Len(zips)), NEW i, NEW f,
         LastWith(zips, i, f)
  PROVE  f \in DOMAIN stick /\ stick[f] = zips[i].files[f]
BY DEF Laid, LastWith

LEMMA Joined ==
  ASSUME NEW S, NEW A \in Seq(S), NEW B \in Seq(S), NEW C, C = A \o B
  PROVE  /\ Len(C) = Len(A) + Len(B) /\ Len(A) \in Nat /\ Len(B) \in Nat
         /\ \A n \in 1..Len(A) : C[n] = A[n]
         /\ \A n \in 1..Len(B) : C[Len(A) + n] = B[n]
         /\ \A n \in Len(A) + 1..Len(C) : n - Len(A) \in 1..Len(B) /\ C[n] = B[n - Len(A)]
<1>1. /\ Len(C) = Len(A) + Len(B) /\ Len(A) \in Nat /\ Len(B) \in Nat
      /\ \A n \in 1..Len(A) : C[n] = A[n]
      /\ \A n \in 1..Len(B) : C[Len(A) + n] = B[n]
  OBVIOUS
<1>2. \A n \in Len(A) + 1..Len(C) : n - Len(A) \in 1..Len(B) /\ C[n] = B[n - Len(A)]
  <2>. SUFFICES ASSUME NEW n \in Len(A) + 1..Len(C)
                PROVE  n - Len(A) \in 1..Len(B) /\ C[n] = B[n - Len(A)]
    OBVIOUS
  <2>1. PICK m : m = n - Len(A)
    OBVIOUS
  <2>2. m \in 1..Len(B) /\ n = Len(A) + m
    BY <1>1, <2>1
  <2>. QED BY <1>1, <2>1, <2>2
<1>. QED BY <1>1, <1>2

\* Of two sequences laid one after the other, what is last in the second shows.
LEMMA LastOfSecond ==
  ASSUME NEW S, NEW A \in Seq(S), NEW B \in Seq(S), NEW i, NEW f, NEW stick,
         Laid(stick, A \o B, Len(A \o B)), LastWith(B, i, f)
  PROVE  f \in DOMAIN stick /\ stick[f] = B[i].files[f]
<1>1. PICK C : C = A \o B
  OBVIOUS
<1>2. /\ Len(C) = Len(A) + Len(B) /\ Len(A) \in Nat /\ Len(B) \in Nat
      /\ \A n \in 1..Len(A) : C[n] = A[n]
      /\ \A n \in 1..Len(B) : C[Len(A) + n] = B[n]
      /\ \A n \in Len(A) + 1..Len(C) : n - Len(A) \in 1..Len(B) /\ C[n] = B[n - Len(A)]
  BY <1>1, Joined
<1>3. i \in 1..Len(B) /\ f \in DOMAIN B[i].files
  BY DEF LastWith
<1>4. Len(A) + i \in 1..Len(C) /\ C[Len(A) + i] = B[i]
  BY <1>2, <1>3
<1>5. ASSUME NEW j \in Len(A) + i + 1..Len(C) PROVE f \notin DOMAIN C[j].files
  <2>1. j - Len(A) \in i + 1..Len(B) /\ j \in Len(A) + 1..Len(C)
    BY <1>2, <1>3
  <2>2. C[j] = B[j - Len(A)]
    BY <1>2, <2>1
  <2>. QED BY <2>1, <2>2 DEF LastWith
<1>6. LastWith(C, Len(A) + i, f)
  BY <1>3, <1>4, <1>5 DEF LastWith
<1>7. Laid(stick, C, Len(C))
  BY <1>1
<1>8. PICK m : m = Len(A) + i
  OBVIOUS
<1>9. f \in DOMAIN stick /\ stick[f] = C[m].files[f]
  BY <1>6, <1>7, <1>8, LastShows
<1>. QED BY <1>4, <1>8, <1>9

\* And what is last in the first does if the second does not have it.
LEMMA LastOfFirst ==
  ASSUME NEW S, NEW A \in Seq(S), NEW B \in Seq(S), NEW i, NEW f, NEW stick,
         Laid(stick, A \o B, Len(A \o B)), LastWith(A, i, f), Lacking(B, f)
  PROVE  f \in DOMAIN stick /\ stick[f] = A[i].files[f]
<1>1. PICK C : C = A \o B
  OBVIOUS
<1>2. /\ Len(C) = Len(A) + Len(B) /\ Len(A) \in Nat /\ Len(B) \in Nat
      /\ \A n \in 1..Len(A) : C[n] = A[n]
      /\ \A n \in Len(A) + 1..Len(C) : n - Len(A) \in 1..Len(B) /\ C[n] = B[n - Len(A)]
  BY <1>1, Joined
<1>3. i \in 1..Len(A) /\ f \in DOMAIN A[i].files
  BY DEF LastWith
<1>4. i \in 1..Len(C) /\ C[i] = A[i]
  BY <1>2, <1>3
<1>5. ASSUME NEW j \in i + 1..Len(C) PROVE f \notin DOMAIN C[j].files
  <2>1. CASE j <= Len(A)
    <3>1. j \in i + 1..Len(A) /\ j \in 1..Len(A)
      BY <1>3, <2>1
    <3>. QED BY <1>2, <3>1 DEF LastWith
  <2>2. CASE ~(j <= Len(A))
    <3>1. j \in Len(A) + 1..Len(C)
      BY <1>2, <1>3, <2>2
    <3>. QED BY <1>2, <3>1 DEF Lacking
  <2>. QED BY <2>1, <2>2
<1>6. LastWith(C, i, f)
  BY <1>3, <1>4, <1>5 DEF LastWith
<1>7. Laid(stick, C, Len(C))
  BY <1>1
<1>8. f \in DOMAIN stick /\ stick[f] = C[i].files[f]
  BY <1>6, <1>7, LastShows
<1>. QED BY <1>4, <1>8

\* What is laid in an order is one card.
LEMMA SameOrder ==
  ASSUME NEW C, DOMAIN C = 1..Len(C), Len(C) \in Nat, NEW one, NEW other,
         Laid(one, C, Len(C)), Laid(other, C, Len(C))
  PROVE  one = other
<1>1. DOMAIN one = DOMAIN other
  BY DEF Laid
<1>2. ASSUME NEW f \in DOMAIN one PROVE one[f] = other[f]
  <2>1. PICK m : m = Max(Having(C, f))
    OBVIOUS
  <2>2. \E i \in 1..Len(C) : f \in DOMAIN C[i].files
    BY DEF Laid
  <2>3. LastWith(C, m, f)
    BY <2>1, <2>2, SomeLast
  <2>. QED BY <2>3, LastShows
<1>3. one = [f \in DOMAIN one |-> one[f]] /\ other = [f \in DOMAIN other |-> other[f]]
  BY DEF Laid, IsAFcn
<1>. QED BY <1>1, <1>2, <1>3

\* Two orders of the archives make the same card if no file tells them apart.
LEMMA OrderDoesNotCount ==
  ASSUME NEW S, NEW A \in Seq(S), NEW B \in Seq(S),
         \A i \in 1..Len(A), j \in 1..Len(B) :
           \A f \in DOMAIN A[i].files \cap DOMAIN B[j].files : A[i].files[f] = B[j].files[f],
         NEW one, NEW other,
         Laid(one, A \o B, Len(A \o B)), Laid(other, B \o A, Len(B \o A))
  PROVE  one = other
<1>0. \A X \in Seq(S) : Len(X) \in Nat /\ DOMAIN X = 1..Len(X)
  OBVIOUS
<1>a. ASSUME NEW X \in Seq(S), NEW f, \E i \in 1..Len(X) : f \in DOMAIN X[i].files
      PROVE  \E i : LastWith(X, i, f)
  <2>1. Len(X) \in Nat /\ DOMAIN X = 1..Len(X)
    BY <1>0
  <2>2. LastWith(X, Max(Having(X, f)), f)
    BY <1>a, <2>1, SomeLast
  <2>. QED BY <2>2, Zenon
<1>b. ASSUME NEW f, NEW b, LastWith(B, b, f)
      PROVE  f \in DOMAIN one /\ one[f] = B[b].files[f]
  BY <1>b, LastOfSecond
<1>c. ASSUME NEW f, NEW a, LastWith(A, a, f)
      PROVE  f \in DOMAIN other /\ other[f] = A[a].files[f]
  BY <1>c, LastOfSecond
<1>d. ASSUME NEW f, NEW a, LastWith(A, a, f), Lacking(B, f)
      PROVE  f \in DOMAIN one /\ one[f] = A[a].files[f]
  BY <1>d, LastOfFirst
<1>e. ASSUME NEW f, NEW b, LastWith(B, b, f), Lacking(A, f)
      PROVE  f \in DOMAIN other /\ other[f] = B[b].files[f]
  BY <1>e, LastOfFirst
<1>1. ASSUME NEW f, \/ \E i \in 1..Len(A) : f \in DOMAIN A[i].files
                    \/ \E i \in 1..Len(B) : f \in DOMAIN B[i].files
      PROVE  f \in DOMAIN one /\ f \in DOMAIN other /\ one[f] = other[f]
  <2>1. CASE ~\E i \in 1..Len(B) : f \in DOMAIN B[i].files
    <3>1. PICK a : LastWith(A, a, f)
      BY <1>1, <1>a, <2>1
    <3>. QED BY <1>c, <1>d, <2>1, <3>1 DEF Lacking
  <2>2. CASE ~\E i \in 1..Len(A) : f \in DOMAIN A[i].files
    <3>1. PICK b : LastWith(B, b, f)
      BY <1>1, <1>a, <2>2
    <3>. QED BY <1>b, <1>e, <2>2, <3>1 DEF Lacking
  <2>3. CASE /\ \E i \in 1..Len(A) : f \in DOMAIN A[i].files
             /\ \E i \in 1..Len(B) : f \in DOMAIN B[i].files
    <3>1. PICK a : LastWith(A, a, f)
      BY <1>a, <2>3
    <3>2. PICK b : LastWith(B, b, f)
      BY <1>a, <2>3
    <3>3. A[a].files[f] = B[b].files[f]
      <4>1. /\ a \in 1..Len(A) /\ f \in DOMAIN A[a].files
            /\ b \in 1..Len(B) /\ f \in DOMAIN B[b].files
        BY <3>1, <3>2, Zenon DEF LastWith
      <4>. QED BY <4>1
    <3>. QED BY <1>b, <1>c, <3>1, <3>2, <3>3
  <2>. QED BY <2>1, <2>2, <2>3
<1>2. ASSUME NEW f, f \in DOMAIN one \/ f \in DOMAIN other
      PROVE  \/ \E i \in 1..Len(A) : f \in DOMAIN A[i].files
             \/ \E i \in 1..Len(B) : f \in DOMAIN B[i].files
  <2>1. ASSUME NEW X \in Seq(S), NEW Y \in Seq(S), NEW i \in 1..Len(X \o Y),
               f \in DOMAIN (X \o Y)[i].files
        PROVE  \/ \E j \in 1..Len(X) : f \in DOMAIN X[j].files
               \/ \E j \in 1..Len(Y) : f \in DOMAIN Y[j].files
    <3>1. Len(X) \in Nat /\ Len(Y) \in Nat /\ Len(X \o Y) = Len(X) + Len(Y)
      OBVIOUS
    <3>2. CASE i <= Len(X)
      <4>1. i \in 1..Len(X)
        BY <3>1, <3>2
      <4>2. (X \o Y)[i] = X[i]
        BY <4>1
      <4>. QED BY <2>1, <4>1, <4>2
    <3>3. CASE ~(i <= Len(X))
      <4>1. PICK m : m = i - Len(X)
        OBVIOUS
      <4>2. m \in 1..Len(Y) /\ i = Len(X) + m
        BY <3>1, <3>3, <4>1
      <4>3. (X \o Y)[i] = Y[m]
        BY <4>2
      <4>. QED BY <2>1, <4>2, <4>3
    <3>. QED BY <3>2, <3>3
  <2>2. CASE f \in DOMAIN one
    <3>1. \E i \in 1..Len(A \o B) : f \in DOMAIN (A \o B)[i].files
      BY <2>2 DEF Laid
    <3>. QED BY <2>1, <3>1
  <2>3. CASE f \in DOMAIN other
    <3>1. \E i \in 1..Len(B \o A) : f \in DOMAIN (B \o A)[i].files
      BY <2>3 DEF Laid
    <3>. QED BY <2>1, <3>1
  <2>. QED BY <1>2, <2>2, <2>3
<1>3. DOMAIN one = DOMAIN other /\ \A f \in DOMAIN one : one[f] = other[f]
  BY <1>1, <1>2
<1>4. one = [f \in DOMAIN one |-> one[f]] /\ other = [f \in DOMAIN other |-> other[f]]
  BY DEF Laid, IsAFcn
<1>. QED BY <1>3, <1>4

\* psp-driver.h:75: when both programs run a project, they run the same machine.
THEOREM TwinsAlwaysAgree == BootSpec => []TwinsAgree
<1>1. ASSUME BootInv, Running("guest"), Running("native"), project.cheats = <<>>,
             "cpuCore" \in DOMAIN Mounted(project), AllNamed, ~Conflict
      PROVE  SameMachine(Machine("guest"), Machine("native"))
  <2>1. PICK p, g, n : p = project /\ g = side["guest"] /\ n = side["native"]
    OBVIOUS
  <2>2. /\ SideOK(p, "guest", g) /\ g.at = "running"
        /\ SideOK(p, "native", n) /\ n.at = "running" /\ IsProject(p) /\ DateInv
    BY <1>1, <2>1, AProject DEF BootInv, Running, Reached, Host
  <2>3. g.machine = Configured("guest", g) /\ n.machine = Configured("native", n)
    BY <2>2 DEF SideOK, Started
  <2>4. g.cfg = n.cfg
    <3>1. ASSUME NEW k \in Key PROVE g.cfg[k] = n.cfg[k]
      <4>1. g.cfg[k] =
              IF k \in DOMAIN Mounted(p) /\ Accepts(k, Mounted(p)[k])
                THEN Meaning(k, Mounted(p)[k]) ELSE Idle("guest").cfg[k]
        BY <1>1, <2>1, GuestHas
      <4>2. IF k \in DOMAIN LastChosen(p)
              THEN /\ Accepts(k, LastChosen(p)[k])
                   /\ n.cfg[k] = Meaning(k, LastChosen(p)[k])
              ELSE n.cfg[k] = Defaults[k]
        BY <1>1, <2>1, NativeHas
      <4>3. CASE k \in DOMAIN LastChosen(p)
        <5>1. k \in DOMAIN Mounted(p) /\ Mounted(p)[k] = LastChosen(p)[k]
          BY <4>3 DEF Mounted, Over
        <5>. QED BY <4>1, <4>2, <4>3, <5>1
      <4>4. CASE k \notin DOMAIN LastChosen(p) /\ k \in DOMAIN Mounted(p)
        <5>1. Mounted(p)[k] = PackageDefaults[k]
          BY <4>4 DEF Mounted, Over
        <5>2. Accepts(k, PackageDefaults[k]) /\ Meaning(k, PackageDefaults[k]) = Defaults[k]
          BY DefaultsAgreed DEF Agreed
        <5>. QED BY <4>1, <4>2, <4>4, <5>1, <5>2
      <4>5. CASE k \notin DOMAIN LastChosen(p) /\ k \notin DOMAIN Mounted(p)
        <5>1. k # "cpuCore"
          BY <1>1, <2>1, <4>5
        <5>2. Idle("guest").cfg = [Defaults EXCEPT !["cpuCore"] = 2]
          BY DEF Idle
        <5>3. DOMAIN Defaults = Key
          BY <2>2, DefaultsTyped
        <5>4. Idle("guest").cfg[k] = Defaults[k]
          BY <5>1, <5>2, <5>3
        <5>. QED BY <4>1, <4>2, <4>5, <5>4
      <4>. QED BY <4>3, <4>4, <4>5
    <3>2. g.cfg \in [Key -> AnyValue] /\ n.cfg \in [Key -> AnyValue]
      BY <2>2 DEF SideOK, CfgTyped
    <3>. QED BY <3>1, <3>2
  <2>5. g.rows = n.rows
    BY <2>2 DEF SideOK, RowsRead, WithFonts
  <2>6. g.cheats = "" /\ n.cheats = ""
    BY <1>1, <2>1, <2>2 DEF SideOK, CheatsRead
  <2>7. g.stick = n.stick
    <3>1. PICK A, B : A = p.saves /\ B = p.dlc
      OBVIOUS
    <3>2. PICK S : S = Range(A) \cup Range(B)
      OBVIOUS
    <3>3. /\ A \in Seq(S) /\ B \in Seq(S)
          /\ DOMAIN A = 1..Len(A) /\ DOMAIN B = 1..Len(B)
      <4>1. /\ A \in Seq(Range(A)) /\ B \in Seq(Range(B))
            /\ DOMAIN A = 1..Len(A) /\ DOMAIN B = 1..Len(B)
        BY <2>2, <3>1, Sequenced
      <4>2. Range(A) \subseteq S /\ Range(B) \subseteq S
        BY <3>2
      <4>. QED BY <4>1, <4>2
    <3>4. \A i \in 1..Len(A), j \in 1..Len(B) :
            \A f \in DOMAIN A[i].files \cap DOMAIN B[j].files : A[i].files[f] = B[j].files[f]
      BY <1>1, <2>1, <3>1, <3>3 DEF Conflict
    <3>5. Laid(g.stick, g.zips, Len(g.zips)) /\ g.zips = A \o B
      <4>1. Laid(g.stick, Taken("guest", g.zips), Len(g.zips)) /\ g.zips = A \o B
        BY <2>2, <3>1 DEF SideOK, Stocked, ZipsSeen, WithFonts, Archives, Seeds
      <4>2. g.zips \in Seq(S) /\ Len(g.zips) \in Nat /\ \A i \in 1..Len(g.zips) : g.zips[i] \in S
        BY <3>3, <4>1
      <4>3. \A i \in 1..Len(g.zips) : ~Skipped("guest", g.zips[i])
        BY <1>1, <2>1, <3>1, <3>2, <4>2 DEF AllNamed, Skipped
      <4>. QED BY <4>1, <4>2, <4>3, AllTaken
    <3>6. Laid(n.stick, n.zips, Len(n.zips)) /\ n.zips \in {A \o B, B \o A}
      <4>1. Laid(n.stick, Taken("native", n.zips), Len(n.zips)) /\ n.zips \in {A \o B, B \o A}
        BY <2>2, <3>1 DEF SideOK, Stocked, ZipsSeen, WithFonts, Archives, NativeSeeds
      <4>2. Len(n.zips) \in Nat
        BY <3>3, <4>1
      <4>3. \A i \in 1..Len(n.zips) : ~Skipped("native", n.zips[i])
        BY DEF Skipped
      <4>. QED BY <4>1, <4>2, <4>3, AllTaken
    <3>7. PICK one, other : one = g.stick /\ other = n.stick
      OBVIOUS
    <3>8. Laid(one, A \o B, Len(A \o B))
      BY <3>5, <3>7
    <3>9. CASE n.zips = B \o A
      <4>1. Laid(other, B \o A, Len(B \o A))
        BY <3>6, <3>7, <3>9
      <4>2. one = other
        BY <3>3, <3>4, <3>8, <4>1, OrderDoesNotCount
      <4>. QED BY <3>7, <4>2
    <3>10. CASE n.zips = A \o B
      <4>1. PICK C : C = A \o B
        OBVIOUS
      <4>2. C \in Seq(S) /\ Len(C) \in Nat /\ DOMAIN C = 1..Len(C)
        BY <3>3, <4>1
      <4>3. Laid(one, C, Len(C)) /\ Laid(other, C, Len(C))
        BY <3>6, <3>7, <3>8, <3>10, <4>1
      <4>4. one = other
        BY <4>2, <4>3, SameOrder
      <4>. QED BY <3>7, <4>4
    <3>. QED BY <3>6, <3>9, <3>10
  <2>8. Configured("guest", g) = Configured("guest", n)
    BY <2>4, <2>5, <2>6, <2>7 DEF Configured
  <2>9. \A h \in Host :
          DOMAIN Configured(h, n) = {"settings", "vulkan", "cheats", "cheatsOn", "vfs",
                                     "stick", "memstickDir"}
    BY DEF Configured
  <2>10. LET a == Configured("guest", n)
             b == Configured("native", n)
         IN  /\ a.settings = b.settings /\ a.vulkan = b.vulkan /\ a.cheats = b.cheats
             /\ a.cheatsOn = b.cheatsOn /\ a.vfs = b.vfs /\ a.stick = b.stick
    BY DEF Configured
  <2>11. PICK a, b : a = Configured("guest", n) /\ b = Configured("native", n)
    OBVIOUS
  <2>12. SameMachine(a, b)
    <3>1. /\ DOMAIN a = {"settings", "vulkan", "cheats", "cheatsOn", "vfs",
                         "stick", "memstickDir"}
          /\ DOMAIN b = DOMAIN a
      BY <2>9, <2>11 DEF Host
    <3>2. /\ a.settings = b.settings /\ a.vulkan = b.vulkan /\ a.cheats = b.cheats
          /\ a.cheatsOn = b.cheatsOn /\ a.vfs = b.vfs /\ a.stick = b.stick
      BY <2>10, <2>11
    <3>. QED BY <3>1, <3>2 DEF SameMachine
  <2>. QED BY <2>1, <2>3, <2>8, <2>11, <2>12 DEF Machine
<1>2. BootInv => TwinsAgree
  BY <1>1 DEF TwinsAgree
<1>. QED BY <1>2, BootAlways, PTL

\* ram-filesystem.h:38: what runs has every file of every archive Init has a name
\* for, and nothing else; the cheats; and the renderer it was asked for.
THEOREM OnlyUnnamedEverIgnored == BootSpec => []OnlyUnnamedIgnored
<1>1. ASSUME BootInv, Running("guest") PROVE OnlyUnnamedIgnored
  <2>1. PICK p, s : p = project /\ s = side["guest"]
    OBVIOUS
  <2>2. SideOK(p, "guest", s) /\ IsProject(p) /\ s.at = "running"
    BY <1>1, <2>1, AProject DEF BootInv, Host, Running, Reached
  <2>3. PICK zips, stick, taken, named :
          /\ zips = p.saves \o p.dlc /\ stick = s.stick
          /\ taken = Taken("guest", zips) /\ named = {i \in DOMAIN zips : zips[i].named}
    OBVIOUS
  <2>4. s.machine = Configured("guest", s) /\ (s.cfg["renderer"] = 1 => bridge = "installed")
    BY <2>2 DEF SideOK, Started
  <2>5. /\ s.machine.stick = stick /\ s.machine.cheats = s.cheats
        /\ s.machine.vulkan => s.cfg["renderer"] = 1
    <3>1. Configured("guest", s).stick = s.stick /\ Configured("guest", s).cheats = s.cheats
      BY DEF Configured
    <3>2. Configured("guest", s).vulkan => s.cfg["renderer"] = 1
      BY Zenon DEF Configured
    <3>. QED BY <2>3, <2>4, <3>1, <3>2
  <2>6. s.zips = zips
    BY <2>2, <2>3 DEF SideOK, Stocked, WithFonts, Archives, Seeds
  <2>7. DOMAIN zips = 1..Len(zips) /\ Len(zips) \in Nat
    <3>1. zips \in Archives(p, "guest")
      BY <2>3 DEF Archives, Seeds
    <3>. QED BY <2>2, <3>1, ArchivesAre DEF Host
  <2>8. /\ \A i \in 1..Len(zips) : Skipped("guest", zips[i]) \/ (zips[i].opens /\ zips[i].valid)
        /\ Laid(stick, taken, Len(zips))
    BY <2>2, <2>3, <2>6 DEF SideOK, Stocked, ZipsSeen
  <2>9. \A i \in named : zips[i].opens /\ zips[i].valid
    BY <2>3, <2>7, <2>8 DEF Skipped
  <2>10. /\ Len(taken) = Len(zips) /\ DOMAIN taken = 1..Len(zips)
         /\ \A i \in 1..Len(zips) :
              /\ i \in named => taken[i].files = zips[i].files
              /\ i \notin named => DOMAIN taken[i].files = {}
    <3>1. /\ Len(taken) = Len(zips) /\ DOMAIN taken = 1..Len(zips)
          /\ \A i \in 1..Len(zips) :
               taken[i].files = IF Skipped("guest", zips[i]) THEN <<>> ELSE zips[i].files
      <4>1. LET t == Taken("guest", zips)
            IN  /\ Len(t) = Len(zips) /\ DOMAIN t = 1..Len(zips)
                /\ \A i \in 1..Len(zips) :
                     t[i].files = IF Skipped("guest", zips[i]) THEN <<>> ELSE zips[i].files
        BY <2>7, TakenFields
      <4>2. taken = Taken("guest", zips)
        BY <2>3
      <4>. QED BY <4>1, <4>2
    <3>2. \A i \in 1..Len(zips) : i \in named <=> ~Skipped("guest", zips[i])
      BY <2>3, <2>7, Zenon DEF Skipped
    <3>3. DOMAIN <<>> = {}
      OBVIOUS
    <3>. QED BY <3>1, <3>2, <3>3
  <2>11. DOMAIN stick = UNION {DOMAIN zips[i].files : i \in named}
    <3>1. DOMAIN stick = UNION {DOMAIN taken[i].files : i \in 1..Len(zips)}
      BY <2>8 DEF Laid
    <3>2. named \subseteq 1..Len(zips)
      BY <2>3, <2>7
    <3>. QED BY <2>10, <3>1, <3>2
  <2>12. ASSUME NEW f \in DOMAIN stick PROVE stick[f] = LastHolding(zips, f).files[f]
    <3>1. Having(taken, f) = Holding(zips, f)
      BY <2>3, <2>7, <2>10 DEF Having, Holding
    <3>2. PICK m : m = Max(Having(taken, f))
      OBVIOUS
    <3>3. \E i \in 1..Len(taken) : f \in DOMAIN taken[i].files
      BY <2>8, <2>10 DEF Laid
    <3>4. LastWith(taken, m, f)
      BY <2>7, <2>10, <3>2, <3>3, SomeLast
    <3>5. stick[f] = taken[m].files[f]
      BY <2>8, <2>10, <3>4, LastShows
    <3>6. m \in named /\ m \in 1..Len(zips)
      BY <2>10, <3>4 DEF LastWith
    <3>7. taken[m].files = zips[m].files
      BY <2>10, <3>6
    <3>8. LastHolding(zips, f) = zips[m]
      BY <3>1, <3>2 DEF LastHolding
    <3>. QED BY <3>5, <3>7, <3>8, Zenon
  <2>13. s.cheats = IF p.cheats # <<>> /\ p.cheats[1].named THEN p.cheats[1].text ELSE ""
    BY <2>2 DEF SideOK, CheatsRead
  <2>14. /\ Machine("guest").stick = stick
         /\ Machine("guest").cheats =
              IF project.cheats # <<>> /\ project.cheats[1].named
                THEN project.cheats[1].text ELSE ""
    BY <2>1, <2>5, <2>13, Zenon DEF Machine
  <2>15. Machine("guest").vulkan => bridge = "installed"
    BY <2>1, <2>4, <2>5, Zenon DEF Machine
  <2>16. zips = project.saves \o project.dlc /\ named = {i \in DOMAIN zips : zips[i].named}
    BY <2>1, <2>3
  <2>. QED BY <2>9, <2>11, <2>12, <2>14, <2>15, <2>16, Zenon DEF OnlyUnnamedIgnored
<1>2. BootInv => OnlyUnnamedIgnored
  BY <1>1 DEF OnlyUnnamedIgnored
<1>. QED BY <1>2, BootAlways, PTL

-----------------------------------------------------------------------------
(* Listings.                                                               *)

\* The first reader that has something in a folder lists it.
LEMMA FirstLists ==
  ASSUME NEW vfs, NEW path, NEW i \in 1..Len(vfs), Len(vfs) \in Nat, HasFolder(vfs[i], path),
         \A j \in 1..Len(vfs) : HasFolder(vfs[j], path) => i <= j
  PROVE  Listing(vfs, path) = GetFileListing(vfs[i], path)
<1>. DEFINE S == {j \in 1..Len(vfs) : HasFolder(vfs[j], path)}
<1>1. S \in SUBSET Int /\ i \in S /\ \A y \in S : i <= y
  OBVIOUS
<1>2. Min(S) = i
  <2>. HIDE DEF S
  <2>. QED BY <1>1, MinOf
<1>3. Listing(vfs, path) = GetFileListing(vfs[IF S # {} THEN Min(S) ELSE 0], path)
  BY Zenon DEF Listing, SelectInSeq
<1>. HIDE DEF S
<1>. QED BY <1>1, <1>2, <1>3

LEMMA OnlyLists ==
  ASSUME NEW vfs, NEW b, NEW path, vfs = <<b>>, HasFolder(b, path)
  PROVE  Listing(vfs, path) = GetFileListing(b, path)
<1>1. Len(vfs) = 1 /\ vfs[1] = b
  OBVIOUS
<1>. QED BY <1>1, FirstLists

LEMMA OverlayLists ==
  ASSUME NEW vfs, NEW a, NEW b, NEW path, vfs = <<a, b>>, HasFolder(a, path)
  PROVE  Listing(vfs, path) = GetFileListing(a, path)
<1>1. Len(vfs) = 2 /\ vfs[1] = a /\ vfs[2] = b
  OBVIOUS
<1>. QED BY <1>1, FirstLists

LEMMA BundledLists ==
  ASSUME NEW vfs, NEW a, NEW b, NEW path, vfs = <<a, b>>,
         ~HasFolder(a, path), HasFolder(b, path)
  PROVE  Listing(vfs, path) = GetFileListing(b, path)
<1>1. Len(vfs) = 2 /\ vfs[1] = a /\ vfs[2] = b
  OBVIOUS
<1>2. 2 \in 1..Len(vfs) /\ HasFolder(vfs[2], path) /\ ~HasFolder(vfs[1], path)
  BY <1>1
<1>3. \A j \in 1..Len(vfs) : HasFolder(vfs[j], path) => 2 <= j
  <2>1. ASSUME NEW j \in 1..Len(vfs), HasFolder(vfs[j], path) PROVE 2 <= j
    <3>1. j = 1 \/ j = 2
      BY <1>1
    <3>2. j # 1
      BY <1>2, <2>1, Zenon
    <3>. QED BY <3>1, <3>2
  <2>. QED BY <2>1
<1>4. Listing(vfs, path) = GetFileListing(vfs[2], path)
  BY <1>1, <1>2, <1>3, FirstLists
<1>. QED BY <1>1, <1>4

\* Three names make a path.
LEMMA ThreeNames ==
  ASSUME NEW S, NEW a \in S, NEW b \in S, NEW c \in S
  PROVE  <<a, b, c>> \in Seq(S)
OBVIOUS

\* A path one longer than a folder it is below is a name in that folder.
LEMMA NameInFolder ==
  ASSUME NEW S, NEW a \in Seq(S), NEW folder \in Seq(S),
         IsStrictPrefix(folder, a), Len(a) = Len(folder) + 1
  PROVE  folder \o <<a[Len(folder) + 1]>> = a
<1>1. SubSeq(folder, 1, Len(folder)) = SubSeq(a, 1, Len(folder))
  BY DEF IsStrictPrefix, IsPrefix
<1>2. folder = SubSeq(a, 1, Len(folder))
  BY <1>1, SubSeqFull
<1>3. SubSeq(a, 1, Len(a)) = a
  BY SubSeqFull
<1>4. PICK n : n = Len(a)
  OBVIOUS
<1>5. n \in 1..Len(a) /\ 1 \in 1..Len(a) /\ n \in 1..Len(a) /\ n - 1 = Len(folder)
  BY <1>4
<1>6. SubSeq(a, 1, n) = SubSeq(a, 1, n - 1) \o <<a[n]>>
  BY <1>5, SubSeqRecursiveSecond
<1>. QED BY <1>2, <1>3, <1>4, <1>5, <1>6

\* A path is below each of the folders on its way.
LEMMA FolderAbove ==
  ASSUME NEW S, NEW a \in Seq(S), NEW n \in 0..Len(a) - 1
  PROVE  /\ SubSeq(a, 1, n) \in Seq(S) /\ Len(SubSeq(a, 1, n)) = n
         /\ IsStrictPrefix(SubSeq(a, 1, n), a)
<1>1. PICK f : f = SubSeq(a, 1, n)
  OBVIOUS
<1>2. f \in Seq(S) /\ Len(f) = n
  <2>1. \A i \in 1..n : a[i] \in S
    OBVIOUS
  <2>. QED BY <1>1, <2>1, SubSeqProperties
<1>3. SubSeq(f, 1, Len(f)) = f
  BY <1>2, SubSeqFull
<1>4. Len(f) <= Len(a) /\ f # a
  BY <1>2
<1>5. IsStrictPrefix(f, a)
  BY <1>1, <1>2, <1>3, <1>4 DEF IsStrictPrefix, IsPrefix
<1>. QED BY <1>1, <1>2, <1>5

\* What a reader lists is a file of its table, at its size.
LEMMA Listed ==
  ASSUME NEW S, NEW t, DOMAIN t \subseteq Seq(S), NEW folder \in Seq(S),
         NEW f \in GetFileListing(t, folder).files
  PROVE  \E a \in DOMAIN t : /\ a = folder \o <<f.name>> /\ f.size = Len(t[a])
                             /\ IsStrictPrefix(folder, a)
<1>1. GetFileListing(t, folder).files =
        {[name |-> a[Len(folder) + 1], size |-> SizeOf(t, a)] :
           a \in {b \in Below(t, folder) : Len(b) = Len(folder) + 1}}
  BY DEF GetFileListing
<1>2. PICK a \in Below(t, folder) :
        /\ Len(a) = Len(folder) + 1
        /\ f = [name |-> a[Len(folder) + 1], size |-> SizeOf(t, a)]
  BY <1>1
<1>3. a \in DOMAIN t /\ IsStrictPrefix(folder, a) /\ a \in Seq(S)
  BY DEF Below
<1>4. folder \o <<a[Len(folder) + 1]>> = a
  BY <1>2, <1>3, NameInFolder
<1>5. f.name = a[Len(folder) + 1] /\ f.size = Len(t[a])
  BY <1>2 DEF SizeOf
<1>. QED BY <1>3, <1>4, <1>5

\* A file of a table is listed where it is, and its folders where they are.
LEMMA Lists ==
  ASSUME NEW S, NEW t, NEW path \in DOMAIN t, path \in Seq(S), NEW n \in DOMAIN path,
         NEW folder, folder = SubSeq(path, 1, n - 1)
  PROVE  /\ HasFolder(t, folder)
         /\ n = Len(path) =>
              [name |-> path[n], size |-> Len(t[path])] \in GetFileListing(t, folder).files
         /\ n # Len(path) => path[n] \in GetFileListing(t, folder).dirs
<1>1. n \in 1..Len(path) /\ n - 1 \in 0..Len(path) - 1
  OBVIOUS
<1>2. Len(folder) = n - 1 /\ IsStrictPrefix(folder, path)
  BY <1>1, FolderAbove
<1>3. path \in Below(t, folder)
  BY <1>2 DEF Below
<1>4. HasFolder(t, folder)
  BY <1>3 DEF HasFolder
<1>5. Len(folder) + 1 = n
  BY <1>1, <1>2
<1>6. ASSUME n = Len(path)
      PROVE  [name |-> path[n], size |-> Len(t[path])] \in GetFileListing(t, folder).files
  BY <1>3, <1>5, <1>6 DEF GetFileListing, SizeOf
<1>7. ASSUME n # Len(path) PROVE path[n] \in GetFileListing(t, folder).dirs
  BY <1>3, <1>5, <1>7 DEF GetFileListing
<1>. QED BY <1>4, <1>6, <1>7

\* What PPSSPP finds in a folder it can read at the size it was told, and when no
\* font is replaced it finds everything that can be read.
THEOREM AllAlwaysListed == BootSpec => []AllListed
<1>1. ASSUME BootInv, Running("guest")
      PROVE  LET vfs == Machine("guest").vfs
             IN  /\ \A folder \in Folders(vfs) : \A f \in Listing(vfs, folder).files :
                      LET path == folder \o <<f.name>>
                      IN  Exists(vfs, path) /\ SizeOf(Answering(vfs, path), path) = f.size
                 /\ Provided = {} =>
                      \A path \in DOMAIN Embedded : \A n \in DOMAIN path :
                        LET found == Listing(vfs, SubSeq(path, 1, n - 1))
                        IN  IF n = Len(path)
                              THEN [name |-> path[n], size |-> Len(Embedded[path])] \in found.files
                              ELSE path[n] \in found.dirs
  <2>1. PICK p, s : p = project /\ s = side["guest"]
    OBVIOUS
  <2>2. SideOK(p, "guest", s) /\ s.at = "running" /\ IsProject(p)
    BY <1>1, <2>1, AProject DEF BootInv, Running, Reached, Host
  <2>3. PICK vfs, rows : vfs = Machine("guest").vfs /\ rows = FontRows(p)
    OBVIOUS
  <2>4. vfs = Registered(rows)
    <3>1. s.machine = Configured("guest", s)
      BY <2>2 DEF SideOK, Started
    <3>2. Configured("guest", s).vfs = Registered(s.rows)
      BY DEF Configured
    <3>3. s.rows = FontRows(p)
      BY <2>2 DEF SideOK, RowsRead, WithFonts
    <3>. QED BY <2>1, <2>3, <3>1, <3>2, <3>3 DEF Machine
  <2>5. DOMAIN rows = {FontPath(f) : f \in Provided} /\ Provided \subseteq DOMAIN p.fonts
    <3>1. Provided = {g \in DOMAIN p.fonts : p.fonts[g] # <<>>}
      BY <2>1 DEF Provided
    <3>. QED BY <2>2, <2>3, <3>1, FontsOverride
  <2>6. PICK S : S = {"flash0", "font"} \cup STRING \cup DOMAIN p.fonts
    OBVIOUS
  <2>7. DOMAIN rows \subseteq Seq(S) /\ DOMAIN Embedded \subseteq Seq(S)
    <3>1. \A f \in DOMAIN p.fonts : FontPath(f) \in Seq(S)
      <4>3. "flash0" \in S /\ "font" \in S
        BY <2>6, Zenon
      <4>4. \A f \in DOMAIN p.fonts : f \in S
        BY <2>6, Zenon
      <4>. QED BY <4>3, <4>4, ThreeNames DEF FontPath
    <3>2. \A path \in DOMAIN Embedded : path \in Seq(S)
      <4>1. STRING \subseteq S
        BY <2>6
      <4>2. ASSUME NEW path \in Seq(STRING) PROVE path \in Seq(S)
        BY <4>1, SeqMonotonic, Zenon
      <4>3. \A path \in DOMAIN Embedded : path \in Seq(STRING)
        BY AssetsAssumption
      <4>. QED BY <4>2, <4>3
    <3>. QED BY <2>5, <3>1, <3>2
  <2>8. \/ DOMAIN rows # {} /\ vfs = <<rows, Embedded>>
        \/ DOMAIN rows = {} /\ vfs = <<Embedded>>
    BY <2>4 DEF Registered
  <2>9. ASSUME NEW folder \in Folders(vfs), NEW f \in Listing(vfs, folder).files
        PROVE  /\ Exists(vfs, folder \o <<f.name>>)
               /\ SizeOf(Answering(vfs, folder \o <<f.name>>), folder \o <<f.name>>) = f.size
    <3>1. \A i \in DOMAIN vfs : vfs[i] \in {rows, Embedded}
      BY <2>8
    <3>2. PICK i \in DOMAIN vfs : \E path \in DOMAIN vfs[i] : \E n \in 0..Len(path) - 1 :
                                    folder = SubSeq(path, 1, n)
      BY DEF Folders
    <3>3. PICK t : t = vfs[i]
      OBVIOUS
    <3>4. PICK path \in DOMAIN t : \E n \in 0..Len(path) - 1 : folder = SubSeq(path, 1, n)
      BY <3>2, <3>3
    <3>5. path \in Seq(S)
      BY <2>7, <3>1, <3>3
    <3>6. folder \in Seq(S) /\ IsStrictPrefix(folder, path)
      BY <3>4, <3>5, FolderAbove
    <3>7. HasFolder(t, folder)
      BY <3>6 DEF HasFolder, Below
    <3>8. ASSUME NEW u, DOMAIN u \subseteq Seq(S), Listing(vfs, folder) = GetFileListing(u, folder),
                 \A a \in DOMAIN u : IsStrictPrefix(folder, a) =>
                   Answering(vfs, a) = u /\ \E j \in DOMAIN vfs : vfs[j] = u
          PROVE  /\ Exists(vfs, folder \o <<f.name>>)
                 /\ SizeOf(Answering(vfs, folder \o <<f.name>>), folder \o <<f.name>>) = f.size
      <4>1. f \in GetFileListing(u, folder).files
        BY <3>8
      <4>2. PICK a \in DOMAIN u : /\ a = folder \o <<f.name>> /\ f.size = Len(u[a])
                                  /\ IsStrictPrefix(folder, a)
        BY <3>6, <3>8, <4>1, Listed
      <4>3. Answering(vfs, a) = u /\ Exists(vfs, a)
        BY <3>8, <4>2 DEF Exists, Has
      <4>4. SizeOf(u, a) = f.size
        BY <4>2 DEF SizeOf
      <4>5. Exists(vfs, a) /\ SizeOf(Answering(vfs, a), a) = f.size
        BY <4>3, <4>4, Zenon
      <4>. QED BY <4>2, <4>5, Zenon
    <3>9. CASE vfs = <<Embedded>>
      <4>0. HasFolder(Embedded, folder)
        BY <3>3, <3>7, <3>9
      <4>1. Listing(vfs, folder) = GetFileListing(Embedded, folder)
        BY <3>9, <4>0, OnlyLists
      <4>2. \A a \in DOMAIN Embedded : Answering(vfs, a) = Embedded
        BY <3>9, FirstAnswers
      <4>3. \E j \in DOMAIN vfs : vfs[j] = Embedded
        BY <3>9
      <4>. QED BY <2>7, <3>8, <4>1, <4>2, <4>3
    <3>10. CASE vfs = <<rows, Embedded>> /\ HasFolder(rows, folder)
      <4>0. HasFolder(rows, folder) /\ vfs = <<rows, Embedded>>
        BY <3>10
      <4>1. Listing(vfs, folder) = GetFileListing(rows, folder)
        BY <3>10, OverlayLists
      <4>2. \A a \in DOMAIN rows : Answering(vfs, a) = rows
        BY <4>0, OverlayAnswers
      <4>3. \E j \in DOMAIN vfs : vfs[j] = rows
        BY <3>10
      <4>. QED BY <2>7, <3>8, <4>1, <4>2, <4>3
    <3>11. CASE vfs = <<rows, Embedded>> /\ ~HasFolder(rows, folder)
      <4>1. HasFolder(Embedded, folder)
        <5>1. t = rows \/ t = Embedded
          BY <3>1, <3>3
        <5>2. ~HasFolder(rows, folder)
          BY <3>11
        <5>. QED BY <3>7, <5>1, <5>2, Zenon
      <4>2. Listing(vfs, folder) = GetFileListing(Embedded, folder)
        BY <3>11, <4>1, BundledLists
      <4>3. ASSUME NEW a \in DOMAIN Embedded, IsStrictPrefix(folder, a)
            PROVE  Answering(vfs, a) = Embedded
        <5>1. a \notin DOMAIN rows
          BY <3>11, <4>3 DEF HasFolder, Below
        <5>. QED BY <3>11, <5>1, FirstAnswers
      <4>4. \E j \in DOMAIN vfs : vfs[j] = Embedded
        BY <3>11
      <4>. QED BY <2>7, <3>8, <4>2, <4>3, <4>4
    <3>. QED BY <2>8, <3>9, <3>10, <3>11
  <2>10. ASSUME Provided = {}, NEW path \in DOMAIN Embedded, NEW n \in DOMAIN path
         PROVE  LET found == Listing(vfs, SubSeq(path, 1, n - 1))
                IN  IF n = Len(path)
                      THEN [name |-> path[n], size |-> Len(Embedded[path])] \in found.files
                      ELSE path[n] \in found.dirs
    <3>1. vfs = <<Embedded>>
      BY <2>5, <2>8, <2>10
    <3>2. PICK folder : folder = SubSeq(path, 1, n - 1)
      OBVIOUS
    <3>3. path \in Seq(S)
      BY <2>7
    <3>4. /\ HasFolder(Embedded, folder)
          /\ n = Len(path) =>
               [name |-> path[n], size |-> Len(Embedded[path])] \in GetFileListing(Embedded, folder).files
          /\ n # Len(path) => path[n] \in GetFileListing(Embedded, folder).dirs
      BY <3>2, <3>3, Lists
    <3>5. Listing(vfs, folder) = GetFileListing(Embedded, folder)
      BY <3>1, <3>4, OnlyLists
    <3>. QED BY <3>2, <3>4, <3>5
  <2>. QED BY <2>3, <2>9, <2>10
<1>2. BootInv => AllListed
  BY <1>1 DEF AllListed
<1>. QED BY <1>2, BootAlways, PTL

=============================================================================
