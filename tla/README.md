# A verification development of the PPSSPP waterbox core

The repository wraps PPSSPP, a PSP emulator, as a *core* for the Chimera
frontend: the emulator runs in a sandbox whose whole memory can be saved and
loaded between frames (a *savestate*), and must be deterministic to the byte.
PPSSPP itself is a submodule and is not in the repository; what is, and what is
modelled here, is everything the wrapper does of its own: the RAM memory stick,
the files that go in and out of it, the way from a project to a running machine,
the frame loop, the controller, the clock, the patches that make PPSSPP's Vulkan
renderer survive a savestate, and the gate that compares the sandboxed core with
a native build of it.

The TLA+ modules translate the code under `src/waterbox` and `src/patches`;
TLC checks them on small instances, and TLAPS proves the theorems in the
`*Proofs` modules for every value of the constants. `PROJECT.json` maps each
definition to the lines it stands for, lists the runs, one mutant per property
(a plausible mistake in the code which the property must notice), the findings,
the hazards and the theorems. Mutants live beside what they change: a
definition named `X_how` is a mistake in `X`.

    tlc -workers 2 -config MemStick_tree.cfg MCMemStick
    tlapm VulkanStateProofs.tla

Contents: [1 The system](#1-the-system) ·
[2 Modules and code](#2-modules-and-code) · [3 Runs](#3-runs) ·
[4 Findings](#4-findings) · [5 Proofs](#5-proofs) ·
[6 Not modelled](#6-not-modelled) · [7 Plan](#7-plan)


## 1 The system

### Components, their state and their operations

| component | code | state | operations |
|---|---|---|---|
| RAM memory stick | `ram-filesystem.cpp` class `RamFileSystem` | `g_nodes` (the card, key = upper-cased path, survives the filesystem object), `open_` (handle → key, position, access, pending truncation) | open, close, read, write, seek, info, mkdir, rmdir, rename, remove, listing; destruction at shutdown |
| seeding and export | `ram-filesystem.cpp` `Chimera_Memstick*`, `waterbox.cpp` `Init` | the same card; the export snapshot `g_export` | seed a zip below a folder (refusing names that climb), count and read the export |
| Vulkan across savestates | `psp-driver.cpp` `CheckVulkanDevice`, `RebuildVulkan`, `pspdrv_state_loaded/saving`; `vk-shim.cpp`; patch 0003 | `g_vulkanDevice`, `g_stateLoaded`, `g_shadowCurrent`, `g_shadowUsable`, the shadow block, the framebuffer list | device comparison at the head of a frame, rebuild, copy before a state, restore after a load |
| push pools | patch 0003, `VulkanMemory.cpp`, `VulkanFrameData.cpp` | `blocks_` with `used`, `chimeraFlushed`, `frameIndex`; `curBlockIndex_` | allocate, begin frame, flush at submit, destroy and remake |
| frame driver | `psp-driver.cpp` `pspdrv_run_frame`, `chimera_vblank_start`, audio hooks; `waterbox.cpp` `FrameAdvance`, `SetRenderingEnabled`; patch 0002 | two flags `g_render` (one in each file), `coreState`, `g_vblankSeen`, `g_videoBuf`, `g_video`, `g_audioAccum`, `g_audioFrame` | run a frame, end it at its vblank, switch pictures off (turbo) |
| controller | `psp-driver.cpp` `pspdrv_input_from_packed`, head of `pspdrv_run_frame`; `waterbox.cpp` `SetAxis` | `g_prevButtons`, `g_axis`, `g_axisMode` | unpack a frame's word, tell PPSSPP what changed |
| settings and clock | `psp-driver.cpp` `pspdrv_apply_setting`, `pspdrv_parse_datetime`; `psp-driver.h` `PspDrvConfig`; `waterbox.config` | the configuration, `rtcBase` in it | apply one name and text, or refuse it; turn a date into seconds |
| Init and boot | `waterbox.cpp` `Init`, `SetVulkanBridge`; `psp-driver.cpp` `pspdrv_boot`; `run-native.cpp` `main` up to its first frame | what has been taken in so far, the error, "booted" | find the disc, settings, fonts, seeds, cheats, boot; each may refuse |
| assets and fonts | `memory-assets.cpp` | the embedded table, the overlay of fonts, an open file and its place in it | add, look up, list, open, read, seek |
| harnesses | `run-native.cpp`, `run-wbx.c`, `run-gate.sh` | the movie, the frame, digests | play the frontend: frames, states around frames, turbo, a rewind, `SetAxis`, export |
| stubs, build, languages | `stubs/`, `guest-stubs/`, `meson.build`, ... | none | |

### How they interact

The frontend calls the core from one thread and only between frames: `Init`
once (seeds the stick, boots PPSSPP over it), then `SetRenderingEnabled`,
`SetAxis`, `FrameAdvance`, and around any frame a save (`StateSaving`, then the
memory is copied) or a load (the memory is replaced, then `StateLoaded`). A load
also replaces the Vulkan device. Inside `FrameAdvance` PPSSPP runs the game,
and calls back into the wrapper: filesystem calls of the game's kernel, sound
pushed, the vblank hook, the bridge of Vulkan commands.

### What is hard here

There are no threads to interleave. What makes this code hard is *order over
time*:

- **Memory goes back, the outside does not.** A load replaces the whole memory,
  flags included, while the device on the host is a new one and the frontend's
  own wishes (turbo, pictures) have not moved. Every flag is either carried by
  states or not, and each choice matters in some order of calls.
- **State looked up again later.** A handle keeps the key it was opened under;
  a rename moves the file; the look-up through the handle inserts.
- **Deferred effects.** Truncation at open takes place at close. The flush of
  pushed vertices takes place at submit.
- **Many ways for a frame to end**: vblank, flip, both in one slice, a stop, an
  error, the guard of 64 turns.
- **Two of everything.** The guest adapter and the native reference each read a
  project and each drive the frames; the gate's comparison is worth something only
  if both hand PPSSPP the same machine and the same inputs, out of tables that are
  written down two and three times.
- **Readers that shadow each other.** A provided font is found before the bundled
  one; a listing, however, is answered by one reader alone.
- **Boundaries**: a byte that does not fit a signed byte, leap years and
  centuries, sound that exceeds its room, a push pool out of blocks.

`PROJECT.json` has the list of hazards, each at its line with the properties
that would catch it, or with the reason none does.

### What makes each component correct

- *Stick*: it stays a tree in which every file can be reached; open handles stay
  backed by a file; names agree with keys; nothing but a removal loses a file; a
  truncating open erases nothing before its close.
- *Exchange*: if the machine starts, the stick holds exactly what was given, in
  reach and where it should be; what is exported can be imported again.
- *Vulkan*: no command names a dead device; a load gives back the picture that
  was saved, or blank, never one of another time.
- *Push pool*: the card reads what was written last; a block taken over is free.
- *Frame*: one vblank, one host frame, its own sound; turbo is invisible but for
  pictures; it returns.
- *Controller*: what is held is what was asked; the stick is where it is held;
  both input paths agree.
- *Clock*: each civil date is one day after the one before.
- *Boot*: a machine that runs is the one that was chosen, nothing the project
  holds is dropped in silence (but what has no name, see [3](#3-runs)), the disc is
  found however it is named, and the two programs run the same machine.
- *Assets*: what is read is the provided file if there is one, whole and in order;
  what is listed can be read, at the size it was listed with.
- *Gate*: the game hears the movie; states, turbo and a rewind change neither what
  it hears nor, while pictures are wanted, what it shows.


## 2 Modules and code

| module | models | abstracts |
|---|---|---|
| `StickPaths` | `normalize`, `upperKey`, `parentOf`, the prefix test of `RmDir` and `RenameFile`, the rebase of a rename | a path is a sequence of components; letters are told apart only by `Upper` |
| `MemStick` (EXTENDS `StickPaths`) | every operation of `RamFileSystem`, one action each, over the card, the open files and the handle allocator; `GetDirListing` as an operator | bytes are small numbers; file times and attributes are left out |
| `StickExchange` (EXTENDS `MemStick`) | `Chimera_MemstickSeedZip` entry by entry, the refusals of `Init` and the archives it passes over, boot over the seeded card, the stick in use, the export | libzip; the wording of errors |
| `SavedPicture` | the abstract promise: frames change what they touch, a state carries the picture, a load gives it back or blank | |
| `VulkanState` | the device, the card, the core's memory, states; a frame is one step (the host calls only between frames) | one image per framebuffer; the layout of the shadow block |
| `PushPool` | the blocks of a pool, allocation, frame turns, flush and submit, device loss | contents: only whether the card has a unit as written. `Allocate` is PPSSPP's and external; what the patch shows of it is modelled |
| `FrameLoop` | `FrameAdvance` and the loop of `pspdrv_run_frame`, turn by turn, over a game that does as it likes | pictures are model values, sound is counted |
| `PadInput` | unpacking, `SetAxis`, press and release | the right stick (same code as the left) |
| `Calendar` | `pspdrv_parse_datetime` beside a calendar that counts days | the scanning of the text |
| `Settings` (EXTENDS `Calendar`) | `pspdrv_apply_setting`: its tables, ranges and refusals; the defaults of the header and of the package | what `atoi`, `sscanf` and the look at a MAC address make of a text is a constant |
| `Assets` | the readers of `memory-assets.cpp`, the font overlay, the order of registration, a file read piece by piece | PPSSPP's VFS is external: the first reader that knows the path answers |
| `Boot` (EXTENDS `Settings`, `Assets`) | `Init` step by step with its early returns, the native `main` up to its first frame, `SetVulkanBridge`, `pspdrv_boot` | an archive is what it holds (how it gets onto the stick is `StickExchange`); what PPSSPP makes of a disc is open |
| `Gate` | the frame loops of `run-wbx.c` and `run-native.cpp` with movies, turbo, states and rewind, over `P == INSTANCE PadInput` and `V == INSTANCE VulkanState` | the game: it hears, and draws on one canvas when something is held; a picture is all that was heard when it was drawn |
| `MemStickProofs`, `ExchangeProofs`, `VulkanStateProofs`, `PushPoolProofs`, `FrameLoopProofs`, `PadInputProofs`, `BootProofs`, `GateProofs` | theorems, see [5](#5-proofs) | |
| `MC*` | instances for TLC | |

Correspondences worth knowing when reading:

- A call that fails in the code is a stuttering step in `MemStick`; its early
  returns are the action's guard. A look-up with `nodes_[key]` is `Touched`: it
  inserts `Ghost`, the default node, when the key is gone. That is the code's
  behaviour in `ReadFile`, `WriteFile`, `SeekFile` and `GetFileInfoByHandle`.
- `FrameLoop` steps two cores through the same frames, `core` which the frontend
  may put in turbo and `drawn` which always draws, so that *turbo is invisible*
  and *the same picture* are invariants of one state. This is the comparison
  `run-gate.sh` makes with digests on a few runs.
- In `VulkanState`, `crossed` is the set of devices named by the commands of the
  last step, `taken` the picture each state was taken of; both are history.
- `Boot` runs the two programs one after the other, as `run-gate.sh` does, and
  keeps for each the configuration it has built so far; the loops over settings
  and archives are stepped, an element at a time. `Init` drops a setting the
  driver refuses and the reference ends with `bad --set`: both are in the model, as
  is that `Init` starts from a core of its own (`ir-interpreter`, number 2) where the
  header starts from `jit`.
- In `Gate` the native reference (`ref`) is run to its end first (`RunNative`, a
  frame a step); it takes no states. The machine in the sandbox is the
  composition. The step of a frame is the conjunction of `P!FrameAdvance`,
  `V!Frame` and what the frame leaves outside both; a save and a load likewise, so
  that one state carries the memory of all three and nothing of the host.
- In `PadInput` a state carries the input it was taken after (history), so that
  what is said of the memory can be said after any load. `axes` is chosen once:
  "a driver uses one path or the other, never both" (`waterbox.cpp:40`).

### Rules of the modelled program and host

The stick does whatever the game asks, and some of what a game may ask breaks
it. `Rule` in `MemStick` names what the modelled program keeps; **the code
enforces none of it**:

| rule | without it |
|---|---|
| `closeBeforeRename` | a file renamed while open: the next call through the handle inserts an unnamed, empty file at the old key, which the export lists (run `stick_ghost`); what is then written goes there |
| `renameIntoTree` | a rename into a directory that is not there, of a directory below itself, or of the root leaves nodes below nothing, out of reach of a listing, although `ram-filesystem.cpp:4` says "directories must be created one level at a time" |
| `oneTruncator` | two truncating handles on one file each cut it to their own length; the second close pads with zeros what the first cut |

`VulkanState` has the host's habits as constants. `SaveTold` and `LoadTold` are
the sets of choices the host has: `{TRUE}` calls `StateSaving` / `StateLoaded`
every time, `{TRUE, FALSE}` may forget. `EarlySave` says whether states are
taken before the first frame has run. A host that forgets to tell of a load *and*
saves before the first frame cannot be noticed by the device comparison; this
combination is left out (assumption `HostTells` of the proofs).


## 3 Runs

All passing runs also check for deadlock, but the four noted below.

| run | question | instance |
|---|---|---|
| `stick_tree` | do all orders of opens, closes, renames, removals, directory calls and power cycles leave a tree with backed handles, agreeing names and no lost file? | 6 raw paths over `PSP`, `A`/`a`, `B`, with `.` and `..`; 2 handles; 5 nodes; depth 3; rules `closeBeforeRename`, `renameIntoTree` |
| `stick_contents` | is truncation deferred and never beyond the file, whatever is read, written, sought and renamed through two handles? | 2 names, 6 access modes, chunks of 1 and 2 bytes, reads of 1 and 3, seeks by -1, 0, 2 from all three bases; files up to 3 bytes |
| `exchange` | is what the zips bring on the stick, as it was given, within reach and where it belongs, and does the export come back? | 8 zips for the savedata slot (a folder, a whole tree in other capitals, two that climb, one absolute, one of a directory only, one that breaks off, ...) and 3 for the DLC slot, among them a file in the place of a standard directory and one below a file of the saves, in every order `Init` can meet and any number, with unnamed and missing files between; then the stick in use with 5 paths and 7 nodes, by the rules `closeBeforeRename`, `renameIntoTree` |
| `vulkan_told` | a host that tells everything: only the live device, a copy marked current is of the picture, and `SavedPicture` implemented | 2 framebuffers of which one always finds room in the block, 2 pictures, 1 slot, 4 devices, states before the first frame included |
| `frame` | all of *Frame* above, liveness included | 1 picture beside the first, display on and off, 1 slot, guard 2, room for 1 of 2 samples, up to 2 flips and 2 vblanks in a frame, stops by an error |
| `pad` | buttons, sides, bytes, agreement | 2 buttons, the edge bytes of the sticks, 1 slot, both paths |
| `push_pool` | do commands read what was written, is a block taken over free? | block of 2 units, allocations of 1 and 3 (more than a block), 2 frames in flight, up to 4 blocks |
| `boot` | is the machine what was chosen, on both sides, whatever a project has and whatever is wrong with it? | every setting with every text, wrong ones included, over the package's defaults and without them; some settings twice; 6 lists of save zips and 5 of DLC, with a missing, a refused and an unnamed one and two that disagree, with and without cheats; 6 lists of cheats by 5 choices of fonts; every disc slot, name and mount; the clock on every day from 1970 to 2101, and projects started on 3 of them |
| `gate` | does the sandboxed core hear and show what the reference does? | all 80 combinations of re-record, turbo, rewind, `SetAxis`, no Vulkan, and Vulkan with a host that tells of saves and of loads or not; the pattern and 11 movies: every letter, alone or beside a neighbour, the stick to all sides, corners and beyond, lines that are none, shorter and longer than the run; 5 frames |
| `stick_ghost`, `frame_off`, `pad_up` | see [4](#4-findings) | violations |

**Why the bounds are enough.** The stick's operations treat a path by its
components: two spellings of a name, a name inside and outside a directory, two
levels to move a subtree by, and `..` cover the branches of `normalize` and
`RenameFile`; two handles are what interferes; one more node than the longest
scenario needs makes every removal and rename meet an occupied and a free key.
Contents of 3 bytes leave a gap to write into, and something before and after
it. For Vulkan three loads suffice (state of a state of a state), which 4 devices
give. A guard of 2 has both outcomes at each turn, go on and run out; 64 adds
only repetitions of the first. Two flips reach the guard, and of two vblanks
the second comes in the same slice as the first. Of the two stops the error is the one
that stays in `coreState` when its frame is over, and in states; a power-down ends the
loop in the same way and is undone with the frame, and the proofs are for both. Two
samples with room for one overflow. Four
pool blocks have an original and a common one to be taken over in each frame.
2000 and 2100 are the leap and the plain century. The texts of `boot` have each
number at, and one beyond, the ends of a range; one setting is independent of the
others but for the order in which one key is given twice, which `Several` has. Five
frames have a first half of two frames and a second of three, which is what turbo
and rewind divide the run into; with a movie shorter and one longer than it, the
run ends in, at and beyond the movie's end. For the
liveness property `FrameReturns` that is all there is; every other property of a
passing run is also proved for all values, see [5](#5-proofs).

**Deadlock** is not checked where the system really stops: `vulkan_told` (the
devices run out, a bound, or the renderer could not start and the machine halts),
`exchange` (an `Init` that refused a zip is the end), `boot` (a project that was
refused), `gate` (the end of the run).

**Fairness** is used in one place, by `frame` for `FrameReturns`:
`WF(VblankStart)`, because emulated time advances whatever the game does and
PPSSPP's timing event fires at every vblank; `WF(RunLoopReturns)`, because
`PSP_RunLoopWhileState` looks at `coreState` at the end of each slice. Nothing
is asked of the frontend, nor of the game: it may flip, sound or stop for ever
or never.

**What `FrameIsOneVblank` says of the loop.** It is stated of the vblanks and flips
the PSP had in a frame, which the histories `vblanks` and `flips` count apart from
`g_vblankSeen` and the loop's counter: a frame ends with a vblank of its own, unless
the game stopped or flipped as often as the guard allows, and once a vblank has come
no turn is added. `chimera_vblank_start` has no guard of its own and may be called
again before the run loop stops; the second call then finds the flag up already.

**What `SamePicture` takes for granted.** A frontend that loads a state taken in
turbo and does not call `SetRenderingEnabled` again gets a frame without a
readback and so an older picture: the driver's `g_render` (`psp-driver.cpp:67`)
comes back with the memory, while the outer one does not. `waterbox.cpp:46`
says such a state "must not put the machine back into it", which is true if the
frontend says again what it wants. The history `told` is this condition; the
display being on is the other (finding `frame_off`).

**What `SamePictures` takes for granted.** Across a load, the renderer's picture
comes back only if the host told the core of the save and of the load (`Survives`).
Without this condition the property is violated: `run-wbx.c` can be told to leave
`StateSaving` out, and the picture is then blank until the game draws. That commands
still reach only the live device when loads are not told of is the theorem
`CommandsReachTheLiveDevice`, whose `LoadTold` is any set of choices.

**What `TwinsAgree` takes for granted.** The two programs run the same machine if
the core is named, by the user or by the package: without it `Init` keeps
`ir-interpreter`, the reference `jit`. Cheats are given only to the guest; zips
that have different files at one path depend on the order of arguments; an archive
without a name in its slot is passed over by `Init`, and has no counterpart on a
command line. One part of the machine always differs and is left out of the comparison:
the directory PPSSPP has for files of its own (`memstickDirectory`,
`psp-driver.cpp:575`), which the guest leaves unset; the stick a game sees is the
RAM one on both sides. A machine
that exists on one side only, since `Init` ignores a setting the reference refuses,
is outside of it; `AsChosen` says what that machine is.

**What `Init` ignores.** `ram-filesystem.h:38` says that "a project whose data is
silently ignored is worse than one that will not start". Two places do ignore some:

- An archive whose name `wbx_slot_name` does not give is skipped without an error
  (`waterbox.cpp:160`), and so are the cheats if their first file has none
  (`waterbox.cpp:188`). `OnlyUnnamedIgnored` says that this is *all* that is ignored:
  whatever else is missing or refused stops `Init`.
- `PutFile` looks at nothing but the key (`ram-filesystem.cpp:515`): where one archive
  has a file and another a directory of the same name, both go on the stick, and what
  is below the file cannot be reached through listings. `SeedsReachable` says exactly
  which files those are, and that there are no others; `SeedsArrive` that they are on
  the card nevertheless, under their own names and with their bytes. `given`, the
  history both speak of, is computed from the archives alone and knows nothing of nodes.

**What `AllListed` takes for granted.** PPSSPP asks its readers in turn and the
first that has a folder answers for it, so that with one font provided the overlay
alone answers for `flash0/font`, `flash0` and the top folder. Reading is file by
file, as `psp-driver.cpp:501` says; a listing is not. What is listed can be read at
the size listed always, and is complete when no font is provided.

**The stick's corners.** `MovieIsHeard` excludes the stick all the way up through
the packed word (finding `pad_up`), and `TwinsHear` the runs with `SetAxis` in which it is given
that byte, because there the two paths differ. `padForFrame` comes to it first in
frame 308, beyond the 120 frames that `run-gate.sh` plays unless asked for more.

**The disc's name.** `DiscFound` follows `waterbox.cpp:83`, "Boot whichever of the
two actually opens". The slot is taken without opening it, so that a project whose
slot names a disc that is mounted under `rom.name` only is refused by the boot. The
model opens a mounted file as often as it likes, as the comment there has it ("any
number of times"); the one at `waterbox.cpp:131` says "One open per mounted file".

**The round trip.** `ram-filesystem.h:32-33` says that export-then-import
round-trips. The export names every file on the stick; the import puts an entry
that is not below `PSP/` under the slot's folder and refuses names with `..` or
`:` inside. `RoundTrip` is the sentence for files below `PSP` with clean names,
which are those of a game's saves; a file made at the root comes back elsewhere. It
is said of sticks whose seeds agree (`SeedsAgree`): none of them has a file in the
place of another's directory.

**Spelling.** `RenameFile` makes the display path of what is below a renamed
directory from the upper-case key (`ram-filesystem.cpp:318`), so that a file made
as `a` is exported as `A` afterwards, although `ram-filesystem.h:24` says
"original case". `NamesMatchKeys` compares up to case
and does not show this. Of the seeds, which no one has renamed yet, `SeedsArrive`
compares the spelling exactly.


## 4 Findings

| run | what the code does | what the repository says |
|---|---|---|
| `stick_ghost` | `ReadFile` and its siblings look a handle's node up with `nodes_[e.key]` (`ram-filesystem.cpp:202`). After the file has been renamed, this inserts an empty node without a name, and a write goes into it. | "export names are relative and clean by construction" (`run-native.cpp:81`) |
| `frame_off` | With the display off there is nothing to read back and `g_videoBuf` keeps its picture (`psp-driver.cpp:705`); after turbo that is a picture from before it, where a core that drew has the last one. | "the same pictures once drawing resumes" (`waterbox.cpp:267`) |
| `pad_up` | `(int8_t)(128 - ly)` for `ly = 0` is 128, which wraps to -128: a stick all the way up is all the way down (`psp-driver.cpp:865`). `SetAxis` clamps to 127 instead. | "left stick Y, biased u8 (0=up, ...)" (`waterbox.cpp:11`) |

The passing properties exclude exactly these cases: `closeBeforeRename`,
`display # Off`, `asked.y # 0`. The last excludes also the byte pair 0, 0, which
the packed word takes for a stick that is not mapped and `SetAxis` for a corner.


## 5 Proofs

Each theorem is `Spec => []P`, for every value of the constants that satisfies
the named assumptions of its module, and rests on one inductive invariant.

**`MemStickProofs`** (assumptions `UpperAssumption`, `DotsAssumption`,
`PathsAssumption`, `StandardAssumption`, `InputsAssumption`, and the rules where
named: `TreeRules` is `closeBeforeRename` and `renameIntoTree`). The path
arithmetic (`Normalize`, `Below`, `ParentOf`, `UpperKey`, `Rebase`) is proved as
lemmas on sequences. `Normalize` walks a path component by component, and is a
recursive function: see *Recursion* below.

- `CardTyped`: `TypeOK`, without any rule.
- `TreeStays`, `HandlesStayBacked`, under `TreeRules`: `TreeOK` and `HandlesBacked`,
  from `StickInv`. It has `Rooted`, that *everything* above a node is a directory,
  where `TreeOK` says it of the parent only: what is moved by a rename, or left
  when a directory goes, is then seen without an induction over the depth. Both
  halves are needed at once: a call through a handle inserts nothing because the
  handle is backed, and a removal keeps the tree because the directory is empty.
- `FilesAreKept`, under `TreeRules`: `NoFileLost`, from the same invariant.
- `NodesShowTheirNames`, under `TreeRules`: `NamesMatchKeys`, from `NameInv`; the
  work is in the names a rename gives to what is below a directory (`RenameNames`).
- `OpensEraseNothing` under `TreeRules`: `ErasesOnlyAtClose`. `ClosesOnlyCut`, with
  `oneTruncator` besides: `TruncationWithinFile`, from `CutInv`, which says that at
  most one handle of a file truncates (`SoleTruncator`).

**`FrameLoopProofs`** (assumption `FrameAssumption`), from `FrameInv`, a simulation
between the core that is put in turbo and the one that always draws: in every
memory, live or saved, the two are the same but for pictures (`CoresPaired`,
`StatesPaired`), the two `g_render` flags agree with what the frontend was told
(`FlagsAgree`), and the picture and the sound of a frame are of that frame.

- `FrameTyped`, `HostFrames`, `OwnSound`, `TurboUnseen`, `PicturesAgree`,
  `OneVblank`, for every guard, room for sound, and set of pictures. All of `frame`
  but its liveness.
- `OneVblank` rests on a second invariant, `Counted` (theorem `FramesCounted`), which
  ties the loop's notes to what there was: `g_vblankSeen` is up exactly when the frame
  has had a vblank - false if the flag of the frame before were kept - and the flips
  are at least the turns behind, so that the guard cannot run out sooner.

**`ExchangeProofs`** (the assumptions of `MemStickProofs` and
`ExchangeAssumption`), from two invariants. `SeedInv`, which needs no rule: while Init
is seeding, the card is empty and nothing was given, or it is `Seeded` (its standard
tree, names that agree with the keys, finitely many nodes) and `Holds` exactly the files
of `given`. It is carried from entry to entry of a zip by what a single `PutFile` adds.
`RunInv`: a machine whose seeds agree has the invariant `NameInv` of `MemStickProofs`.

- `SeededFilesArrive`: `SeedsArrive`, without any rule. The history and the card come
  to the same set of files by different ways, the one by comparing keys, the other
  entry by entry through `Put`.
- `SeededFilesAreReached`: `SeedsReachable`, both ways round and without any rule: a
  node on the way is a directory unless another given file has its key, and a listing
  shows each of them as the next name.
- `SeededFilesStay`: `SeedsStayBelowPSP`. What does not climb is put under a folder
  of two components below `PSP`, and `Normalize` keeps those.
- `ExportRoundTrips`, under `TreeRules`: `RoundTrip`. The export is a set of files in some order; the
  proof is that seeding it puts each in its place, whatever comes before and after.

**`BootProofs`** (assumptions `TextAssumption`, `PackageAssumption`,
`AssetsAssumption`, `ProjectAssumption`, `CalendarAssumption`), from `BootInv`, which
says for each place a program can be at what it has by then: after `done` keys the
configuration is what those keys make of the project (`Chose`), after `done` archives
the stick has their files, the last one's where several have one (`Stocked`), and so on
for fonts, cheats, disc and errors. `Reading` says that what was read of an open file
is its beginning. The properties are `BootInv` at the last place.

- `BootTyped`, `SettingsAsChosen`, `DiscAlwaysFound`, `OverridesAlwaysWin`,
  `TwinsAlwaysAgree`, `OnlyUnnamedEverIgnored`, `AllAlwaysListed`: the properties of `boot`,
  for every project, table of files and sequence of choices. `TwinsAlwaysAgree`
  needs that what keys make of a configuration does not depend on the order of
  the keys, and that archives which do not conflict may be unpacked in any order.
- `EachDayCounted`: `DaysAreCounted`, up to any year of four digits, from `DateInv`:
  `passed` is what the code's formula makes of the day. One lemma for each way a day
  ends, in a month, with a month, with a year (`NextDay`, `NextMonth`, `NextYear`,
  `LeapDay`).

**`GateProofs`** (assumptions `FramesAssumption`, `InputsAssumption`), from
`GateInv`. The two hosts are never compared step by step, as they do not run in step: each
is shown to be where the movie puts it. After `n` frames a machine has heard
`To(m, a, n)`, and on its screen is all it had heard when something was last held
(`IsShown`, of which there is one, `OnePicture`). The renderer's memory is in one of
three conditions with respect to `n`: the picture is on the live device (`Settled`), or
is in the block of a memory just loaded (`Loaded`), or both, in a state (`Taken`);
`VulkanFrame`, `VulkanSave` and `VulkanLoad` say how the operations of `VulkanState` lead
from one to the next. The state that is going to be loaded satisfies, for the frame
it was taken after, what the machine satisfies for its own (`StateOK`), which is why a
rewind needs no case of its own in what is hashed (`DigestsOK`).

- `GateAlways`: `GateInv`. `GateHearsTheMovie`, `GateTwinsHear`, `GateSamePictures`:
  the properties of `gate`, for movies of any length, any options and any
  number of frames of at least two.

**`VulkanStateProofs`** (assumptions `PicAssumption`, `HostAssumption`,
`SlotAssumption`, and `HostTells` where named)

- `TypeCorrect`: `TypeOK`, which is inductive.
- `CommandsReachTheLiveDevice`: `NoCommandToDeadDevice`. A command names what the
  memory holds, so what matters is that a memory never reaches the drawing part
  of a frame with objects of another device: in any memory, live or saved, all
  objects are on one device (`OnOneDevice`) and either that is the noted one, or
  it will be noticed (`WillNotice`) by the comparison at the head of the frame.
  `DevicesOK` says it of the memory and of all states.
- `ShadowCurrent`: `ShadowIsThePicture`.
- `SavestatesKeepThePicture`: `ImplementsSavedPicture`, a step simulation. The
  picture of the abstract module is *what the next frame will find*, not what the
  card holds, because between a load and the next frame the card is blank and
  the picture is in the block. The invariant relates each state to the picture
  it was taken of (`StatesOK`), by the cases in which a state can be: booted and
  nothing drawn (`NothingDrawn`), loaded and not yet rebuilt (`BeforeRebuild`),
  or copied (`Kind`).

**`PushPoolProofs`** (assumption `PoolAssumption`), from `PoolInv`: of each
block, what counts as flushed is on the card (`Sound`); after a submit nothing
is left to flush (`AllFlushed`); the blocks the pool began with keep their frame
(`OriginalsStay`), so that a frame always has a block to begin in; the block
being filled is the current frame's (`CurrentIsOurs`), so that writing into it
spoils no other frame's.

- `PoolTyped`, `BlocksStayWithin`, `CardReadsWhatWasWritten`, `TakenBlocksAreFree`.

**`PadInputProofs`** (assumption `PadAssumption`), from `PadInv`: every memory,
saved ones included, follows from the input it was left by (`Follows`). The
arithmetic is proved for all 256 × 256 positions, by way of lemmas about the
cast, the clamp and the packed bytes.

- `PadTyped`, `ButtonsAreAsked`, `BothPathsAgree`, `StickSide`.

**Recursion.** The provers take no operator as a parameter of a theorem, and with
it no induction. What the proofs need of it is stated with sets and functions
instead: a set of numbers has a least element (`LeastNumber`, from the library's
`WFMin`), hence a set that holds 0 and with each number the next holds all
(`Counting`), hence a function of `0..n` may be defined by its value at 0 and a step
(`Recursion`). Each recursive function of the model (`Normalize`, `SeedZip`, `Lines`) is
shown to be the one its definition says by `Recursion`, and what it computes is then
shown by `Counting`. What `CHOOSE` chooses (`Max`, a recursive function) is left to Zenon, and
the alternatives of a `CASE` exclude each other wherever a proof looks into it.

**Only model-checked**: the liveness property `FrameReturns`, which is beyond the
prover, and the three properties that the findings break. The assumptions
about constants are evaluated by TLC in each run.


## 6 Not modelled

- *PPSSPP*, a submodule that is not in the repository: the emulator, its kernel,
  its renderer but for the patched parts, the order of its VFS readers. Where
  the wrapper depends on it, it is nondeterministic (the game of `FrameLoop`, the
  drawing of `VulkanState`). The sorting and dropping of old push blocks in its
  pool is left out.
- *In the harnesses*: the export of save data to files, screenshots, the test of
  the stick and the automatic mode of `run-native.cpp`. They write down what the
  core gives them and keep nothing the core sees.
- *In the boot*: the reserving of the shadow block, and the fields of PPSSPP's
  configuration that are the same for every project.
- *`toString`* of a reader, a text for a log.
- *Patches 0001, 0004, 0005* guard code that is not here; *stubs* answer and keep
  nothing; *build files* and *languages* are texts.
- *A bridge that cannot name its device*, *a card out of memory*: `VulkanState`
  leaves them out. *A renderer that fails to start* ends the modelled machine.
- *The export snapshot going stale*: the header says nothing runs in between.


## 7 Plan

Done in this order, the behaviour that would do most harm first: the stick; the
exchange; Vulkan across savestates with its abstract promise; the frame; the
controller; the push pool; the clock; the settings, assets and boot on both sides;
the gate, which composes controller and renderer under one save and load. Proved
in this order: the renderer, the pool, the controller, the calendar, the frame, the
stick, the exchange, the boot, the gate.

Next:

1. **An abstract card** (a map from names to contents, with atomic operations) and
   `MemStick` as an implementation of it, in the way `SavedPicture` is for Vulkan;
   the mapping is `nodes` without its directories, under `TreeRules`.
2. **The frame inside the gate**: `FrameLoop` in the place of `Gate`'s frame, so that
   vblanks and the readback of a display that is off meet a load.

The runs are kept few, one question each; an extension joins an existing run
where the instance allows.
