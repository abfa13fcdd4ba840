----------------------------- MODULE VulkanState -----------------------------
(***************************************************************************)
(* The Vulkan renderer across savestates: psp-driver.cpp (RebuildVulkan,   *)
(* CheckVulkanDevice, pspdrv_state_loaded, pspdrv_state_saving), the       *)
(* bridge switch of vk-shim.cpp, and ChimeraSaveFramebufs,                 *)
(* ChimeraRestoreFramebufs and DeviceLost of                               *)
(* patches/0003-chimera-the-vulkan-renderer-is-chimeras.patch.             *)
(*                                                                         *)
(* A state is the whole of the core's memory and nothing of the card.  The *)
(* host destroys its Vulkan device at every load and makes another, so     *)
(* what the loaded memory holds of the card are handles of a dead device.  *)
(* The host calls the core only between frames, so a frame is one step.    *)
(*                                                                         *)
(* A frontend whose bridge answers 0 ("cannot tell" the device) is left    *)
(* out, and so is a card that runs out of memory; a device is never given  *)
(* the name of an earlier one.                                             *)
(***************************************************************************)
EXTENDS Integers, FiniteSets

CONSTANTS FB,         \* the framebuffers the game may have (VirtualFramebuffers)
          Pic,        \* what a framebuffer may hold
          Blank,      \* what a framebuffer just cleared holds
          Slot,       \* the places the host keeps states in
          Empty,      \* a slot without a state
          Fits,       \* framebuffers the shadow block has room for in any case
          SaveTold,   \* whether the host calls StateSaving before a state
          LoadTold,   \* whether the host calls StateLoaded after a load
          EarlySave,  \* whether states are taken before the first frame
          MaxDevice   \* bound: devices the host makes

ASSUME PicAssumption  == Blank \in Pic
ASSUME SlotAssumption == Empty \notin UNION {[F -> Pic] : F \in SUBSET FB}
ASSUME FitsAssumption == Fits \subseteq FB
ASSUME HostAssumption ==
  /\ SaveTold \subseteq BOOLEAN
  /\ LoadTold \subseteq BOOLEAN
  /\ EarlySave \in BOOLEAN
  /\ MaxDevice \in Nat \ {0}

VARIABLES live,      \* the device the host has now
          card,      \* what the images on that device hold
          guest,     \* the core's memory
          slots,     \* the states: copies of that memory
          halted,    \* the renderer could not start again
          touched,   \* framebuffers the last frame drew into, made or dropped
          crossed,   \* devices named by the commands of the last step
          taken      \* history: the picture each state was taken of

vars == <<live, card, guest, slots, halted, touched, crossed, taken>>

Device   == 1..MaxDevice
NoDevice == 0   \* g_vulkanDevice before the first frame, and a null fbo

PartialFcn(T) == UNION {[F -> T] : F \in SUBSET FB}
Pictures == PartialFcn(Pic)

Memory == [context : Device,          \* the device g_vulkan's objects are on
           device  : Device \cup {NoDevice},      \* g_vulkanDevice
           image   : PartialFcn(Device),
                                      \* vfbs_, and the device each fbo is on
           loaded  : BOOLEAN,         \* g_stateLoaded
           block   : Pictures,        \* the records of g_shadowBlock
           current : BOOLEAN,         \* g_shadowCurrent
           usable  : BOOLEAN]         \* g_shadowUsable

Framebufs(g) == DOMAIN g.image

\* A booted core: a context on the host's device, nothing drawn, no frame run.
Booted(dev) ==
  [context |-> dev, device |-> NoDevice, image |-> [f \in {} |-> NoDevice],
   loaded |-> FALSE, block |-> [f \in {} |-> Blank],
   current |-> FALSE, usable |-> FALSE]

Init ==
  /\ live = 1
  /\ card = [f \in FB |-> Blank]
  /\ guest = Booted(1)
  /\ slots = [s \in Slot |-> Empty]
  /\ halted = FALSE
  /\ touched = {}
  /\ crossed = {}
  /\ taken = [s \in Slot |-> Empty]

-----------------------------------------------------------------------------
(* The head of a frame.  A definition named X_how is a mutant of X: a       *)
(* mistake the properties below must notice.                               *)

\* The objects are another device's; or a load told of itself before any
\* frame had noted which device they are on.
MustRebuild(g) ==
  live # g.device /\ (g.device # NoDevice \/ g.loaded)

\* What the DeviceLost of RebuildVulkan says to the bridge while the old
\* objects are let go of: every image is released, but the bridge is quiet.
LettingGo_aloud(g) == {g.context} \cup {g.image[f] : f \in Framebufs(g)}
LettingGo(g) == {}

\* ChimeraKeepFramebufs and ChimeraRestoreFramebufs: the framebuffers stay
\* only for a load, each with a new image.
Rebuilt_noImages(g) ==
  [g EXCEPT !.context = live,
            !.image = [f \in IF g.loaded THEN Framebufs(g) ELSE {} |-> NoDevice]]
Rebuilt(g) ==
  [g EXCEPT !.context = live,
            !.image = [f \in IF g.loaded THEN Framebufs(g) ELSE {} |-> live]]

\* What the new image of f holds: the copy the load brought, if it can be
\* used and has a record of f, and else what the clear left.
Restored(g, f) ==
  IF g.usable /\ f \in DOMAIN g.block THEN g.block[f] ELSE Blank

\* The flags as CheckVulkanDevice leaves them.
Noted_current(g) == [g EXCEPT !.loaded = FALSE, !.device = live, !.usable = FALSE]
Noted(g) ==
  [g EXCEPT !.loaded = FALSE, !.device = live, !.usable = FALSE, !.current = FALSE]

Checked(g) == Noted(IF MustRebuild(g) THEN Rebuilt(g) ELSE g)

CheckedCard(g) ==
  IF MustRebuild(g)
    THEN [f \in FB |-> IF f \in Framebufs(Rebuilt(g)) THEN Restored(g, f) ELSE Blank]
    ELSE card

\* pspdrv_run_frame: CheckVulkanDevice, then what the game does with the GPU.
\* It draws pics into existing framebuffers and new ones, and drops some.
Frame(drawn, dropped, pics) ==
  LET g == Checked(guest)
      F == (Framebufs(g) \ dropped) \cup drawn
  IN  /\ ~halted
      /\ drawn \cap dropped = {}
      /\ dropped \subseteq Framebufs(g)
      /\ guest' = [g EXCEPT !.image =
                     [f \in F |-> IF f \in Framebufs(g) THEN g.image[f] ELSE g.context]]
      /\ card' = [f \in FB |-> CASE f \in drawn   -> pics[f]
                                 [] f \in dropped -> Blank
                                 [] OTHER         -> CheckedCard(guest)[f]]
      /\ touched' = drawn \cup dropped \cup (Framebufs(guest) \ Framebufs(g))
      /\ crossed' = (IF MustRebuild(guest) THEN LettingGo(guest) ELSE {})
                      \cup {g.context}
                      \cup {g.image[f] : f \in drawn \cap Framebufs(g)}
      /\ UNCHANGED <<live, slots, halted, taken>>

\* StartVulkan fails in RebuildVulkan: the frame goes on without a device to
\* draw on, and PPSSPP's BeginHostFrame does not survive that.
FrameHalts ==
  /\ ~halted
  /\ MustRebuild(guest)
  /\ halted' = TRUE
  /\ crossed' = LettingGo(guest)
  /\ touched' = {}
  /\ UNCHANGED <<live, card, guest, slots, taken>>

-----------------------------------------------------------------------------
(* Savestates.                                                             *)

\* What the machine will have of its framebuffers once the next frame starts.
Picture ==
  LET g == guest
  IN  [f \in Framebufs(Checked(g)) |-> CheckedCard(g)[f]]

\* pspdrv_state_saving copies only when the objects are this device's.
MayCopy_always == TRUE
MayCopy == live = guest.device

\* ChimeraSaveFramebufs, for the framebuffers that found room.
Copied(g, stored) ==
  [g EXCEPT !.block = [f \in stored |-> card[f]], !.current = TRUE]

Stored(g) ==
  {S \in SUBSET Framebufs(g) : Fits \cap Framebufs(g) \subseteq S}

SaveState(s, told) ==
  /\ ~halted
  /\ EarlySave \/ guest.device # NoDevice
  /\ IF told /\ MayCopy
       THEN /\ \E stored \in Stored(guest) : guest' = Copied(guest, stored)
            /\ crossed' = {guest.image[f] : f \in Framebufs(guest)}
       ELSE /\ UNCHANGED guest
            /\ crossed' = {}
  /\ slots' = [slots EXCEPT ![s] = guest']
  /\ taken' = [taken EXCEPT ![s] = Picture]
  /\ UNCHANGED <<live, card, halted, touched>>

\* pspdrv_state_loaded, of the memory the load brought.
Told(g) == [g EXCEPT !.loaded = TRUE, !.usable = g.current]

\* The host's side of a load: another device, on which there is nothing.
NewDevice ==
  /\ live < MaxDevice
  /\ live' = live + 1
  /\ card' = [f \in FB |-> Blank]
  /\ halted' = FALSE
  /\ touched' = {}
  /\ crossed' = {}

LoadState(s, told) ==
  /\ slots[s] # Empty
  /\ NewDevice
  /\ guest' = IF told THEN Told(slots[s]) ELSE slots[s]
  /\ UNCHANGED <<slots, taken>>

\* The frontend starts the core again; the states it took are still there.
Reboot ==
  /\ NewDevice
  /\ guest' = Booted(live')
  /\ UNCHANGED <<slots, taken>>

Next ==
  \/ \E drawn, dropped \in SUBSET FB : \E pics \in [drawn -> Pic] :
       Frame(drawn, dropped, pics)
  \/ FrameHalts
  \/ \E s \in Slot :
       \/ \E told \in SaveTold : SaveState(s, told)
       \/ \E told \in LoadTold : LoadState(s, told)
  \/ Reboot

Spec == Init /\ [][Next]_vars

-----------------------------------------------------------------------------
(* Properties.                                                             *)

TypeOK ==
  /\ live \in Device
  /\ card \in [FB -> Pic]
  /\ guest \in Memory
  /\ DOMAIN slots = Slot
  /\ \A s \in Slot : slots[s] # Empty => slots[s] \in Memory
  /\ halted \in BOOLEAN
  /\ touched \subseteq FB

\* psp-driver.cpp:225, "a handle from before the load is refused there": no
\* command that crosses the bridge names a device other than the live one,
\* neither in a frame, nor while the old objects are let go of, nor in the copy
\* made before a state.
NoCommandToDeadDevice == crossed \subseteq {live}

\* psp-driver.cpp:241, "the block holds this device's framebuffers": g_shadowCurrent
\* is set only while it holds them as they are - the copy is never older than the picture.
ShadowIsThePicture ==
  guest.current /\ guest.device = live =>
    \A f \in DOMAIN guest.block :
      f \in Framebufs(guest) /\ guest.block[f] = card[f]

\* The renderer's savestates give the picture back (module SavedPicture).
Kept == IF SaveTold = {TRUE} THEN Fits ELSE {}

Abstract == INSTANCE SavedPicture WITH picture <- Picture, saved <- taken
ImplementsSavedPicture == Abstract!Spec
==============================================================================
