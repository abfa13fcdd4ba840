-------------------------------- MODULE Boot --------------------------------
(***************************************************************************)
(* From a project to a running machine, twice: Init of waterbox.cpp, in    *)
(* the sandbox, and main of run-native.cpp, the native reference.  Both    *)
(* hand pspdrv_boot of psp-driver.cpp a configuration, fonts and a memory  *)
(* stick, and the equivalence gate rests on both handing over the same.    *)
(*                                                                         *)
(* The sandbox is given the project through mounted files and slots, the   *)
(* reference through its command line; it starts when Init has returned,   *)
(* as run-gate.sh has it.  How a zip comes onto the stick is the business  *)
(* of module StickExchange, so that here an archive is what it holds.      *)
(***************************************************************************)
EXTENDS Settings, Assets

CONSTANTS Project,   \* the projects
          BootDay    \* bound: days of the calendar on which one is started

\* A project:
\*   choices  settings chosen, a sequence of a key and a text
\*   package  whether the frontend lays them over the package's defaults
\*   fonts    the system fonts provided, by file name
\*   disc     the names in its slot and in rom.name, a slash being a name of
\*            its own and <<>> none, and the names under which it is mounted
\*   saves, dlc, cheats   the files in those slots: whether wbx_slot_name has a
\*            name for them, whether they open, whether the seeding takes them,
\*            and what they hold, by path
IsAFcn(f) == f = [x \in DOMAIN f |-> f[x]]
IsProject(p) ==
  /\ p.choices \in Seq(STRING \X Text)
  /\ DOMAIN p.fonts \subseteq FontFiles
  /\ \A f \in DOMAIN p.fonts : p.fonts[f] \in Seq(Byte)
  /\ p.saves \in Seq(Range(p.saves)) /\ p.dlc \in Seq(Range(p.dlc))
  /\ \A z \in Range(p.saves) \cup Range(p.dlc) : IsAFcn(z.files)

ASSUME ProjectAssumption == \A p \in Project : IsProject(p)

VARIABLES project,   \* the project that was started
          side,      \* the two programs
          bridge     \* SetVulkanBridge: what became of it

bootVars == <<year, month, day, passed, open, project, side, bridge>>

Host == {"guest", "native"}

NoProject == [choices |-> <<>>, package |-> FALSE, fonts |-> <<>>,
              disc |-> [slot |-> <<>>, romName |-> <<>>, mounted |-> {}],
              saves |-> <<>>, dlc |-> <<>>, cheats |-> <<>>]

Stage == {"off", "settings", "fonts", "seeds", "cheats", "boot", "running", "refused"}

\* A program before it takes anything in:
\*   done   how many of the settings, or of the archives, it has been through
\*   zips   the archives it seeds the card with, in their order
\*   rows   the font overlay
\*   path   the disc's
\* Init has a core of its own to fall back to.
Idle(h) ==
  [at |-> "off", done |-> 0,
   cfg |-> IF h = "guest" THEN [Defaults EXCEPT !["cpuCore"] = 2] ELSE Defaults,
   rows |-> <<>>, zips |-> <<>>, stick |-> <<>>, cheats |-> "", path |-> <<>>,
   error |-> "", machine |-> <<>>]

BootInit ==
  /\ Init
  /\ open = Closed
  /\ project = NoProject
  /\ side = [h \in Host |-> Idle(h)]
  /\ bridge = "none"

-----------------------------------------------------------------------------
(* What a program takes from the project.  A definition named X_how is a    *)
(* mutant of X.                                                            *)

\* Init's kKeys.
SettingKeys_noEncryptSave ==
  <<"cpuCore", "pspModel", "language", "nickname", "buttonPreference",
    "rtcBase", "cpuClock", "ioTiming", "timeZone", "daylightSavings",
    "firmwareVersion", "macAddress", "dateFormat", "timeFormat",
    "parentalLevel", "funcReplacements", "renderer">>
SettingKeys ==
  <<"cpuCore", "pspModel", "language", "nickname", "buttonPreference",
    "rtcBase", "cpuClock", "ioTiming", "timeZone", "daylightSavings",
    "firmwareVersion", "macAddress", "dateFormat", "timeFormat",
    "parentalLevel", "funcReplacements", "encryptSave", "renderer">>

\* What is in the mounted "settings": of a key named twice, the last.
About(choices, k) == {i \in DOMAIN choices : choices[i][1] = k}
LastChosen(p) ==
  [k \in {p.choices[i][1] : i \in DOMAIN p.choices} |->
     p.choices[Max(About(p.choices, k))][2]]
Mounted(p) == IF p.package THEN Over(LastChosen(p), PackageDefaults) ELSE LastChosen(p)

\* Each font of the registry that is there, an empty file left out.
FontRows_emptyToo(p) == FontOverrides(p.fonts, FontFiles \cap DOMAIN p.fonts)
FontRows(p) ==
  FontOverrides(p.fonts, {f \in FontFiles \cap DOMAIN p.fonts : p.fonts[f] # <<>>})

\* The disc's path: a slot's, or rom.name under a slash or as it is, whichever
\* opens, or "rom".
Slashed(name) == IF Head(name) = "/" THEN name ELSE <<"/">> \o name
DiscPath_bareOnly(d) ==
  IF d.slot # <<>> THEN d.slot
  ELSE IF d.romName # <<>> /\ d.romName \in d.mounted THEN d.romName
  ELSE <<"rom">>
DiscPath(d) ==
  IF d.slot # <<>> THEN d.slot
  ELSE IF d.romName # <<>> /\ Slashed(d.romName) \in d.mounted THEN Slashed(d.romName)
  ELSE IF d.romName # <<>> /\ d.romName \in d.mounted THEN d.romName
  ELSE <<"rom">>

\* The archives Init seeds the card with, and those of the reference's
\* --seed-savedata and --seed-dlc, in whatever order they are given.
Seeds(p) == p.saves \o p.dlc
NativeSeeds(p) == {p.saves \o p.dlc, p.dlc \o p.saves}

\* The directory each program gives PPSSPP for files of its own; what a game sees
\* of a memory stick is the RAM one in both.
MemstickDir(h) == IF h = "guest" THEN "" ELSE "bin/memstick"

\* What pspdrv_boot sets the machine up with: each setting, the cheats, which
\* are on if there are any, the directory and the readers of PPSSPP's own files.
Configured_formatsSwapped(h, s) ==
  [settings |-> [s.cfg EXCEPT !["dateFormat"] = s.cfg["timeFormat"],
                              !["timeFormat"] = s.cfg["dateFormat"]],
   vulkan |-> s.cfg["renderer"] = 1, cheats |-> s.cheats,
   cheatsOn |-> s.cheats # "", vfs |-> Registered(s.rows), stick |-> s.stick,
   memstickDir |-> MemstickDir(h)]
Configured(h, s) ==
  [settings |-> s.cfg, vulkan |-> s.cfg["renderer"] = 1, cheats |-> s.cheats,
   cheatsOn |-> s.cheats # "", vfs |-> Registered(s.rows), stick |-> s.stick,
   memstickDir |-> MemstickDir(h)]

-----------------------------------------------------------------------------
(* The steps.                                                              *)

Reached(h, stage) == side[h].at = stage

Goes(h, s) ==
  /\ side' = [side EXCEPT ![h] = s]
  /\ UNCHANGED <<year, month, day, passed, open, project, bridge>>

Refuses(h, error) == Goes(h, [side[h] EXCEPT !.at = "refused", !.error = error])

\* A project is opened; on other days than the first it is one with the day in it.
Open(p) ==
  /\ project = NoProject
  /\ passed = 0 \/ (passed \in BootDay /\ \E i \in DOMAIN p.choices : p.choices[i][2] = Today)
  /\ project' = p
  /\ UNCHANGED <<year, month, day, passed, open, side, bridge>>

\* SetVulkanBridge, before Init; the bridge may be refused.
SetVulkanBridge ==
  /\ project # NoProject
  /\ Reached("guest", "off") /\ bridge = "none"
  /\ bridge' \in {"installed", "refused"}
  /\ UNCHANGED <<year, month, day, passed, open, project, side>>

FindDisc ==
  /\ project # NoProject
  /\ Reached("guest", "off")
  /\ Goes("guest", [side["guest"] EXCEPT !.path = DiscPath(project.disc), !.at = "settings"])

\* Init asks for each key in turn and does not look at what is refused.
ReadSetting ==
  LET n    == side["guest"].done
      k    == SettingKeys[n + 1]
      last == n + 1 = Len(SettingKeys)
  IN  /\ Reached("guest", "settings")
      /\ Goes("guest",
              [side["guest"] EXCEPT
                 !.cfg  = IF k \in DOMAIN Mounted(project)
                            THEN Applied(@, k, Mounted(project)[k]) ELSE @,
                 !.done = IF last THEN 0 ELSE n + 1,
                 !.at   = IF last THEN "fonts" ELSE @])

\* A font counts for the whole program, Chimera_AddFontOverride.
ReadFonts(h, zips, next) ==
  Goes(h, [side[h] EXCEPT !.rows = FontRows(project), !.zips = zips, !.at = next])

GuestFonts == Reached("guest", "fonts") /\ ReadFonts("guest", Seeds(project), "seeds")

\* An archive is unpacked over those before it.  One without a name Init passes
\* over in silence; what does not open is an empty archive to the reference, which
\* is refused.
Skipped_lostToo(h, z) == h = "guest" /\ ~(z.named /\ z.opens)
Skipped(h, z) == h = "guest" /\ ~z.named
SeedZip(h) ==
  LET n == side[h].done
      z == side[h].zips[n + 1]
  IN  /\ Reached(h, "seeds")
      /\ n < Len(side[h].zips)
      /\ \/ /\ Skipped(h, z)
            /\ Goes(h, [side[h] EXCEPT !.done = n + 1])
         \/ /\ ~Skipped(h, z)
            /\ IF z.opens /\ z.valid
                 THEN Goes(h, [side[h] EXCEPT !.stick = Over(z.files, @), !.done = n + 1])
                 ELSE Refuses(h, IF z.opens THEN "refused" ELSE "missing")

Seeded(h) ==
  /\ Reached(h, "seeds")
  /\ side[h].done = Len(side[h].zips)
  /\ Goes(h, [side[h] EXCEPT !.done = 0, !.at = IF h = "guest" THEN "cheats" ELSE "boot"])

\* The first of them, or none if that one has no name.
ReadCheats ==
  /\ Reached("guest", "cheats")
  /\ IF project.cheats = <<>> \/ ~project.cheats[1].named
       THEN Goes("guest", [side["guest"] EXCEPT !.at = "boot"])
       ELSE IF project.cheats[1].opens
              THEN Goes("guest", [side["guest"] EXCEPT !.cheats = project.cheats[1].text,
                                                       !.at = "boot"])
              ELSE Refuses("guest", "error.cheats_missing")

\* The reference starts when Init has returned.
NativeFonts ==
  /\ side["guest"].at \in {"running", "refused"}
  /\ Reached("native", "off")
  /\ \E zips \in NativeSeeds(project) : ReadFonts("native", zips, "settings")

\* Its --set arguments in their order.
ApplySet ==
  LET n      == side["native"].done
      choice == project.choices[n + 1]
  IN  /\ Reached("native", "settings")
      /\ n < Len(project.choices)
      /\ IF Accepts(choice[1], choice[2])
           THEN Goes("native", [side["native"] EXCEPT
                                  !.cfg = Applied(@, choice[1], choice[2]), !.done = n + 1])
           ELSE Refuses("native", "bad --set")

SetsApplied ==
  /\ Reached("native", "settings")
  /\ side["native"].done = Len(project.choices)
  /\ Goes("native", [side["native"] EXCEPT !.done = 0, !.at = "seeds"])

\* pspdrv_boot.  What the card, PPSSPP and the disc make of it is open, but
\* that a card is needed for the card's renderer and a disc for a machine.
Unserved(h) ==
  IF side[h].cfg["renderer"] # 1   THEN {}
  ELSE IF h = "native"             THEN {"error.no_vulkan_build"}
  ELSE IF bridge # "installed"     THEN {"error.no_vulkan_bridge"}
  ELSE {}
MayFail(h) ==
  {"error.not_started", "error.not_booted"} \cup
  (IF side[h].cfg["renderer"] = 1 THEN {"error.vulkan_not_started"} ELSE {})

BootMachine(h) ==
  /\ Reached(h, "boot")
  /\ \/ \E error \in IF Unserved(h) # {} THEN Unserved(h) ELSE MayFail(h) : Refuses(h, error)
     \/ /\ Unserved(h) = {}
        /\ h = "guest" => side[h].path \in project.disc.mounted
        /\ Goes(h, [side[h] EXCEPT !.machine = Configured(h, side[h]), !.at = "running"])

\* PPSSPP reads its files.
ReadAsset ==
  /\ Reached("guest", "running")
  /\ \/ \E i \in DOMAIN side["guest"].machine.vfs :
          \E path \in DOMAIN side["guest"].machine.vfs[i] :
            OpenFileForRead(side["guest"].machine.vfs, path)
     \/ \E length \in ReadSize : Read(length)
     \/ Rewind
     \/ CloseFile
  /\ UNCHANGED <<year, month, day, passed, project, side, bridge>>

BootNext ==
  \/ project = NoProject /\ Midnight /\ UNCHANGED <<open, project, side, bridge>>
  \/ \E p \in Project : Open(p)
  \/ SetVulkanBridge
  \/ FindDisc \/ ReadSetting \/ GuestFonts \/ ReadCheats
  \/ NativeFonts \/ ApplySet \/ SetsApplied
  \/ \E h \in Host : SeedZip(h) \/ Seeded(h) \/ BootMachine(h)
  \/ ReadAsset

BootSpec == BootInit /\ [][BootNext]_bootVars

-----------------------------------------------------------------------------
(* Properties.                                                             *)

Running(h) == Reached(h, "running")
Machine(h) == side[h].machine

TypeOK ==
  /\ DOMAIN side = Host
  /\ \A h \in Host :
       /\ side[h].at \in Stage
       /\ DOMAIN side[h].cfg = Key
       /\ \A k \in Key : side[h].cfg[k] \in Values(k)
       /\ \A path \in DOMAIN side[h].rows : \E f \in DOMAIN project.fonts :
            path = FontPath(f) /\ side[h].rows[path] = project.fonts[f]
  /\ bridge \in {"none", "installed", "refused"}
  /\ open.pos <= Len(open.bytes)

\* waterbox.cpp:112, "everything that shapes the machine, read once from the
\* mounted "settings" channel (the package defaults overlaid with the user's
\* choices)": in a running machine each setting is what was given last for it, if
\* pspdrv_apply_setting takes that, and else what the program starts from;
\* today's date is the number of days that have passed.
Given(h) == IF h = "guest" THEN Mounted(project) ELSE LastChosen(project)
AsChosen ==
  \A h \in Host : Running(h) =>
    \A k \in Key :
      Machine(h).settings[k] =
        IF k \notin DOMAIN Given(h) \/ ~Accepts(k, Given(h)[k]) THEN Idle(h).cfg[k]
        ELSE IF k = "rtcBase" /\ Given(h)[k] = Today THEN [days |-> passed, second |-> 86399]
        ELSE Meaning(k, Given(h)[k])

\* psp-driver.h:75, "one implementation for the guest adapter and the native
\* reference, so the two sides can never drift": when both run a project, they
\* run the same machine, the package's defaults and the header's being the same.
\* The exceptions: the directory for PPSSPP's own files; cheats, which the reference
\* does not take; the core, when no one chooses it and Init falls back to its own;
\* archives Init has no name for; and seeds that put different things at the same
\* path, whose order on the command line counts.
SameMachine(m, n) ==
  /\ DOMAIN m = DOMAIN n
  /\ \A part \in DOMAIN m \ {"memstickDir"} : m[part] = n[part]
AllNamed == \A z \in Range(project.saves) \cup Range(project.dlc) : z.named
Conflict ==
  \E i \in DOMAIN project.saves, j \in DOMAIN project.dlc :
    \E f \in DOMAIN project.saves[i].files \cap DOMAIN project.dlc[j].files :
      project.saves[i].files[f] # project.dlc[j].files[f]

TwinsAgree ==
  /\ Running("guest") /\ Running("native")
  /\ project.cheats = <<>>
  /\ "cpuCore" \in DOMAIN Mounted(project)
  /\ AllNamed /\ ~Conflict
  => SameMachine(Machine("guest"), Machine("native"))

\* ram-filesystem.h:38, "a project whose data is silently ignored is worse than
\* one that will not start": of what a project brings, Init ignores without a word
\* nothing but the archives and the cheats whose name wbx_slot_name does not give it.
\* In a machine that runs, every other archive has opened and been taken, the card
\* holds their files one over the other and none besides, the cheats are those of
\* the first file, and the renderer is the one asked for - "nothing to fall back on
\* that the project agreed to" (psp-driver.cpp:584).
Holding(zips, f) == {i \in DOMAIN zips : zips[i].named /\ f \in DOMAIN zips[i].files}
LastHolding(zips, f) == zips[Max(Holding(zips, f))]
OnlyUnnamedIgnored ==
  Running("guest") =>
    LET zips  == project.saves \o project.dlc
        named == {i \in DOMAIN zips : zips[i].named}
        stick == Machine("guest").stick
    IN  /\ \A i \in named : zips[i].opens /\ zips[i].valid
        /\ DOMAIN stick = UNION {DOMAIN zips[i].files : i \in named}
        /\ \A f \in DOMAIN stick : stick[f] = LastHolding(zips, f).files[f]
        /\ Machine("guest").cheats =
             IF project.cheats # <<>> /\ project.cheats[1].named
               THEN project.cheats[1].text ELSE ""
        /\ Machine("guest").vulkan => bridge = "installed"

\* waterbox.cpp:83, "Boot whichever of the two actually opens": however the host
\* named the disc and wherever it mounted it, Init boots it.
DiscFound ==
  LET d     == project.disc
      named == IF d.slot # <<>> THEN {d.slot}
               ELSE {<<"rom">>} \cup IF d.romName = <<>> THEN {}
                                     ELSE {d.romName, Slashed(d.romName)}
  IN  ~Reached("guest", "off") /\ named \cap d.mounted # {}
        => side["guest"].path \in d.mounted

\* psp-driver.cpp:501, "these shadow the bundled flash0/font replacements file by
\* file": the font a user provides is the font PPSSPP finds and reads, however
\* many pieces it reads it in, and every other file is the bundled one.
Provided == {f \in DOMAIN project.fonts : project.fonts[f] # <<>>}
Expected(path) ==
  IF \E f \in Provided : FontPath(f) = path
    THEN project.fonts[path[3]]
    ELSE ReadFile(Embedded, path)
OverrideWins ==
  /\ Running("guest") =>
       \A path \in {FontPath(f) : f \in Provided} \cup DOMAIN Embedded :
         ReadFile(Answering(Machine("guest").vfs, path), path) = Expected(path)
  /\ open # Closed => open.got = SubSeq(Expected(open.name), 1, open.pos)

\* What PPSSPP finds in a folder it can read at the size it was told, and when no
\* font is replaced it finds everything that can be read.
Folders(vfs) == UNION {{SubSeq(path, 1, n) : n \in 0..Len(path) - 1} :
                       path \in UNION {DOMAIN vfs[i] : i \in DOMAIN vfs}}
AllListed ==
  Running("guest") =>
    LET vfs == Machine("guest").vfs
    IN  /\ \A folder \in Folders(vfs) : \A f \in Listing(vfs, folder).files :
             LET path == folder \o <<f.name>>
             IN  Exists(vfs, path) /\ SizeOf(Answering(vfs, path), path) = f.size
        /\ Provided = {} =>
             \A path \in DOMAIN Embedded : \A n \in DOMAIN path :
               LET found == Listing(vfs, SubSeq(path, 1, n - 1))
               IN  IF n = Len(path)
                     THEN [name |-> path[n], size |-> Len(Embedded[path])] \in found.files
                     ELSE path[n] \in found.dirs
=============================================================================
