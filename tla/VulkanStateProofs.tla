-------------------------- MODULE VulkanStateProofs --------------------------
(***************************************************************************)
(* Proofs about VulkanState, for any number of framebuffers, pictures,     *)
(* slots and devices.                                                      *)
(***************************************************************************)
EXTENDS VulkanState, TLAPS

USE HostAssumption, PicAssumption DEF Device, NoDevice

-----------------------------------------------------------------------------
(* Partial functions on the framebuffers.                                  *)

\* A partial function on the framebuffers has its domain among them.
LEMMA PartialFcnElim ==
  ASSUME NEW T, NEW p \in PartialFcn(T)
  PROVE  DOMAIN p \subseteq FB /\ p \in [DOMAIN p -> T]
BY DEF PartialFcn

\* A function from some framebuffers is a partial function on them.
LEMMA PartialFcnIntro ==
  ASSUME NEW T, NEW F \in SUBSET FB, NEW p \in [F -> T]
  PROVE  p \in PartialFcn(T)
BY DEF PartialFcn

-----------------------------------------------------------------------------
(* The pieces of a step keep the type of the core's memory.                *)

\* The memory of a core just booted (pspdrv_boot) is a memory.
LEMMA BootedType ==
  ASSUME NEW dev \in Device
  PROVE  Booted(dev) \in Memory
<1>1. {} \in SUBSET FB
  OBVIOUS
<1>2. [f \in {} |-> NoDevice] \in [{} -> Device] /\ [f \in {} |-> Blank] \in [{} -> Pic]
  OBVIOUS
<1>3. [f \in {} |-> NoDevice] \in PartialFcn(Device)
  BY <1>1, <1>2 DEF PartialFcn
<1>4. [f \in {} |-> Blank] \in Pictures
  BY <1>1, <1>2 DEF PartialFcn, Pictures
<1> QED BY <1>3, <1>4 DEF Booted, Memory

\* CheckVulkanDevice leaves a memory behind.
LEMMA CheckedType ==
  ASSUME live \in Device, NEW g \in Memory
  PROVE  Checked(g) \in Memory
<1>1. PICK F \in SUBSET FB : F = IF g.loaded THEN Framebufs(g) ELSE {}
  BY PartialFcnElim DEF Memory, Framebufs
<1>2. [f \in F |-> live] \in PartialFcn(Device)
  BY PartialFcnIntro
<1>3. Rebuilt(g) \in Memory
  BY <1>1, <1>2 DEF Rebuilt, Memory
<1> QED BY <1>3 DEF Checked, Noted, Memory

\* After CheckVulkanDevice every image holds a picture.
LEMMA CheckedCardType ==
  ASSUME card \in [FB -> Pic], NEW g \in Memory
  PROVE  CheckedCard(g) \in [FB -> Pic]
<1>1. \A f \in FB : Restored(g, f) \in Pic
  BY PartialFcnElim DEF Restored, Memory, Pictures
<1> QED BY <1>1 DEF CheckedCard

\* The device the host makes at a load or a boot is a device, and blank.
LEMMA NewDeviceType ==
  ASSUME live \in Device, NewDevice
  PROVE  /\ live' \in Device
         /\ card' \in [FB -> Pic]
         /\ halted' \in BOOLEAN
         /\ touched' \subseteq FB
<1>1. live' \in Device
  BY DEF NewDevice
<1>2. card' \in [FB -> Pic]
  BY DEF NewDevice
<1> QED BY <1>1, <1>2 DEF NewDevice

\* ChimeraSaveFramebufs leaves a memory behind.
LEMMA CopiedType ==
  ASSUME card \in [FB -> Pic], NEW g \in Memory, NEW stored \in Stored(g)
  PROVE  Copied(g, stored) \in Memory
<1>1. stored \in SUBSET FB
  BY PartialFcnElim DEF Stored, Memory, Framebufs
<1>2. [f \in stored |-> card[f]] \in Pictures
  BY <1>1, PartialFcnIntro DEF Pictures
<1> QED BY <1>2 DEF Copied, Memory

-----------------------------------------------------------------------------

\* VulkanState keeps to its types: in particular the block never holds a
\* picture of a framebuffer the game cannot have.
THEOREM TypeCorrect == Spec => []TypeOK
<1>1. Init => TypeOK
  <2> SUFFICES ASSUME Init PROVE TypeOK
    OBVIOUS
  <2>1. 1 \in Device
    OBVIOUS
  <2>2. guest \in Memory
    BY <2>1, BootedType DEF Init
  <2> QED BY <2>1, <2>2 DEF Init, TypeOK
<1>2. TypeOK /\ [Next]_vars => TypeOK'
  <2> SUFFICES ASSUME TypeOK, [Next]_vars PROVE TypeOK'
    OBVIOUS
  <2> USE DEF TypeOK
  <2>1. CASE UNCHANGED vars
    BY <2>1 DEF vars
  <2>2. ASSUME NEW drawn \in SUBSET FB, NEW dropped \in SUBSET FB,
               NEW pics \in [drawn -> Pic], Frame(drawn, dropped, pics)
        PROVE  TypeOK'
    <3> DEFINE g == Checked(guest)
               F == (Framebufs(g) \ dropped) \cup drawn
    <3>1. g \in Memory
      BY CheckedType
    <3>2. Framebufs(g) \subseteq FB /\ g.image \in [Framebufs(g) -> Device]
      BY <3>1, PartialFcnElim DEF Framebufs, Memory
    <3>3. [f \in F |-> IF f \in Framebufs(g) THEN g.image[f] ELSE g.context]
            \in PartialFcn(Device)
      BY <3>1, <3>2, PartialFcnIntro DEF Memory
    <3>4. guest' \in Memory
      BY <2>2, <3>1, <3>3 DEF Frame, Memory
    <3>5. card' \in [FB -> Pic]
      BY <2>2, CheckedCardType DEF Frame
    <3>6. touched' \subseteq FB
      BY <2>2, <3>2, PartialFcnElim DEF Frame, Framebufs, Memory
    <3> QED BY <2>2, <3>4, <3>5, <3>6 DEF Frame
  <2>3. CASE FrameHalts
    BY <2>3 DEF FrameHalts
  <2>4. ASSUME NEW s \in Slot, NEW told \in SaveTold, SaveState(s, told)
        PROVE  TypeOK'
    <3>1. guest' \in Memory
      BY <2>4, CopiedType DEF SaveState
    <3>2. \A t \in Slot : slots'[t] = IF t = s THEN guest' ELSE slots[t]
      BY <2>4 DEF SaveState
    <3>3. DOMAIN slots' = Slot
      BY <2>4 DEF SaveState
    <3>4. \A t \in Slot : slots'[t] # Empty => slots'[t] \in Memory
      BY <3>1, <3>2
    <3>5. /\ live' \in Device
          /\ card' \in [FB -> Pic]
          /\ halted' \in BOOLEAN
          /\ touched' \subseteq FB
      BY <2>4 DEF SaveState
    <3> QED BY <3>1, <3>3, <3>4, <3>5
  <2>5. ASSUME NEW s \in Slot, NEW told \in LoadTold, LoadState(s, told)
        PROVE  TypeOK'
    <3>1. guest' \in Memory
      BY <2>5 DEF LoadState, Told, Memory
    <3> QED BY <2>5, <3>1, NewDeviceType DEF LoadState
  <2>6. CASE Reboot
    <3>1. live' \in Device
      BY <2>6, NewDeviceType DEF Reboot
    <3>2. guest' \in Memory
      BY <2>6, <3>1, BootedType DEF Reboot
    <3> QED BY <2>6, <3>2, NewDeviceType DEF Reboot
  <2> QED BY <2>1, <2>2, <2>3, <2>4, <2>5, <2>6 DEF Next
<1> QED BY <1>1, <1>2, PTL DEF Spec
-----------------------------------------------------------------------------
(* The inductive invariant.  Every object of a core's memory is on one     *)
(* device, the one its context is on; the device it noted is that one or   *)
(* none, and while it has noted none it has no framebuffer yet; the device *)
(* is not newer than the host's.  The running core is on the host's device *)
(* or will notice, at the head of its next frame, that it is not.          *)

OnOneDevice(g) ==
  /\ g.context \in 1..live
  /\ \A f \in Framebufs(g) : g.image[f] = g.context
  /\ g.device \in {NoDevice, g.context}

WillNotice == guest.context = live \/ MustRebuild(guest)

DevicesOK ==
  /\ OnOneDevice(guest)
  /\ WillNotice
  /\ \A s \in Slot : slots[s] # Empty =>
       /\ OnOneDevice(slots[s])
       /\ EarlySave \/ slots[s].device # NoDevice

\* What a host must do for the core to notice: tell it of every load, or take
\* no state of a core that has not yet noted its device.
HostTells == LoadTold \subseteq {TRUE} \/ ~EarlySave

\* After CheckVulkanDevice every object the core has is on the host's device,
\* whichever device the objects were on before.
LEMMA CheckedOnLive ==
  ASSUME TypeOK, OnOneDevice(guest), WillNotice
  PROVE  LET g == Checked(guest)
         IN  /\ g.context = live
             /\ g.device = live
             /\ ~g.current
             /\ \A f \in Framebufs(g) : g.image[f] = live
             /\ MustRebuild(guest) \/ g.image = guest.image
<1> DEFINE r == Rebuilt(guest)
<1>1. guest \in Memory
  BY DEF TypeOK
<1>2. CASE MustRebuild(guest)
  <2>1. r.context = live /\ \A f \in Framebufs(r) : r.image[f] = live
    BY <1>1 DEF Rebuilt, Memory, Framebufs
  <2> QED BY <1>1, <1>2, <2>1 DEF Checked, Noted, Rebuilt, Memory, Framebufs
<1>3. CASE ~MustRebuild(guest)
  BY <1>1, <1>3 DEF Checked, Noted, Memory, Framebufs, OnOneDevice, WillNotice
<1> QED BY <1>2, <1>3

\* Every step keeps the devices straight and names the live device only.
LEMMA DevicesInductive ==
  ASSUME HostTells, TypeOK, DevicesOK, Next
  PROVE  DevicesOK' /\ NoCommandToDeadDevice'
<1> USE DEF TypeOK
<1>1. ASSUME NEW drawn \in SUBSET FB, NEW dropped \in SUBSET FB,
             NEW pics \in [drawn -> Pic], Frame(drawn, dropped, pics)
      PROVE  DevicesOK' /\ NoCommandToDeadDevice'
  <2> DEFINE g == Checked(guest)
  <2>1. g \in Memory
    BY CheckedType
  <2>2. /\ g.context = live
        /\ g.device = live
        /\ \A f \in Framebufs(g) : g.image[f] = live
    BY CheckedOnLive DEF DevicesOK
  <2>3. /\ guest'.context = live
        /\ guest'.device = live
        /\ \A f \in Framebufs(guest') : guest'.image[f] = live
    BY <1>1, <2>1, <2>2 DEF Frame, Memory, Framebufs
  <2>4. UNCHANGED <<live, slots>>
    BY <1>1 DEF Frame
  <2>5. OnOneDevice(guest)' /\ WillNotice'
    BY <2>3, <2>4 DEF OnOneDevice, WillNotice, TypeOK
  <2>6. DevicesOK'
    BY <2>4, <2>5 DEF DevicesOK, OnOneDevice
  <2>7. crossed' \subseteq {live}
    BY <1>1, <2>2 DEF Frame, LettingGo
  <2> QED BY <2>4, <2>6, <2>7 DEF NoCommandToDeadDevice
<1>2. CASE FrameHalts
  BY <1>2 DEF FrameHalts, LettingGo, DevicesOK, OnOneDevice, WillNotice,
              MustRebuild, NoCommandToDeadDevice
<1>3. ASSUME NEW s \in Slot, NEW told \in SaveTold, SaveState(s, told)
      PROVE  DevicesOK' /\ NoCommandToDeadDevice'
  <2>1. /\ guest'.context = guest.context
        /\ guest'.device = guest.device
        /\ guest'.image = guest.image
        /\ guest'.loaded = guest.loaded
    BY <1>3 DEF SaveState, Copied, Memory
  <2>2. UNCHANGED live
    BY <1>3 DEF SaveState
  <2>3. OnOneDevice(guest)' /\ WillNotice'
    <3>1. OnOneDevice(guest)'
      BY <2>1, <2>2 DEF DevicesOK, OnOneDevice, Framebufs
    <3>2. WillNotice'
      BY <2>1, <2>2 DEF DevicesOK, WillNotice, MustRebuild
    <3> QED BY <3>1, <3>2
  <2>4. \A t \in Slot : slots'[t] = IF t = s THEN guest' ELSE slots[t]
    BY <1>3 DEF SaveState
  <2>5. EarlySave \/ guest'.device # NoDevice
    BY <1>3, <2>1 DEF SaveState
  <2>6. DevicesOK'
    BY <2>2, <2>3, <2>4, <2>5 DEF DevicesOK, OnOneDevice
  <2>7. crossed' \subseteq {live}
    BY <1>3 DEF SaveState, MayCopy, DevicesOK, OnOneDevice
  <2> QED BY <2>2, <2>6, <2>7 DEF NoCommandToDeadDevice
<1>4. ASSUME NEW s \in Slot, NEW told \in LoadTold, LoadState(s, told)
      PROVE  DevicesOK' /\ NoCommandToDeadDevice'
  <2> DEFINE g == slots[s]
  <2>1. g \in Memory /\ OnOneDevice(g) /\ (EarlySave \/ g.device # NoDevice)
    BY <1>4 DEF LoadState, DevicesOK
  <2>2. live' = live + 1 /\ crossed' = {} /\ UNCHANGED slots
    BY <1>4 DEF LoadState, NewDevice
  <2>3. /\ guest'.context = g.context
        /\ guest'.device = g.device
        /\ guest'.image = g.image
        /\ told => guest'.loaded
    BY <1>4, <2>1 DEF LoadState, Told, Memory
  <2>4. OnOneDevice(guest)'
    BY <2>1, <2>2, <2>3 DEF OnOneDevice, Framebufs
  <2>5. guest'.device # NoDevice \/ guest'.loaded
    BY <2>1, <2>3 DEF HostTells
  <2>6. WillNotice'
    BY <2>1, <2>2, <2>3, <2>5 DEF WillNotice, MustRebuild, OnOneDevice
  <2>7. DevicesOK'
    BY <2>2, <2>4, <2>6 DEF DevicesOK, OnOneDevice
  <2> QED BY <2>2, <2>7 DEF NoCommandToDeadDevice
<1>5. CASE Reboot
  <2>1. live' = live + 1 /\ crossed' = {} /\ UNCHANGED slots /\ guest' = Booted(live')
    BY <1>5 DEF Reboot, NewDevice
  <2>2. OnOneDevice(guest)' /\ WillNotice'
    BY <2>1 DEF Booted, OnOneDevice, WillNotice, Framebufs
  <2>3. DevicesOK'
    BY <2>1, <2>2 DEF DevicesOK, OnOneDevice
  <2> QED BY <2>1, <2>3 DEF NoCommandToDeadDevice
<1> QED BY <1>1, <1>2, <1>3, <1>4, <1>5 DEF Next

\* The devices stay straight in every behaviour of a host that tells.
LEMMA DevicesAlways ==
  ASSUME HostTells PROVE Spec => []DevicesOK
<1>1. Init => DevicesOK
  BY DEF Init, DevicesOK, OnOneDevice, WillNotice, Booted, Framebufs
<1>2. TypeOK /\ DevicesOK /\ [Next]_vars => DevicesOK'
  <2>1. CASE UNCHANGED vars
    BY <2>1 DEF vars, DevicesOK, OnOneDevice, WillNotice, MustRebuild
  <2> QED BY <2>1, DevicesInductive
<1> QED BY <1>1, <1>2, TypeCorrect, PTL DEF Spec

\* However often states are taken and loaded and the core started again, with
\* any number of framebuffers, no command names a device that is gone - if the
\* host tells the core of every load, or takes no state before the first frame.
THEOREM CommandsReachTheLiveDevice ==
  ASSUME HostTells PROVE Spec => []NoCommandToDeadDevice
<1>1. Init => NoCommandToDeadDevice
  BY DEF Init, NoCommandToDeadDevice
<1>2. TypeOK /\ DevicesOK /\ NoCommandToDeadDevice /\ [Next]_vars
        => NoCommandToDeadDevice'
  <2>1. CASE UNCHANGED vars
    BY <2>1 DEF vars, NoCommandToDeadDevice
  <2> QED BY <2>1, DevicesInductive
<1> QED BY <1>1, <1>2, TypeCorrect, DevicesAlways, PTL DEF Spec

-----------------------------------------------------------------------------
(* The copy and the picture.  The invariant of the block needs only that   *)
(* no memory has noted a device newer than the host's.                     *)

\* The copy a state carries as current is of the framebuffers as they are.
THEOREM ShadowCurrent ==
  ASSUME HostTells PROVE Spec => []ShadowIsThePicture
<1>1. Init => ShadowIsThePicture
  BY DEF Init, Booted, ShadowIsThePicture
<1>2. TypeOK /\ DevicesOK /\ ShadowIsThePicture /\ [Next]_vars
        => ShadowIsThePicture'
  <2> SUFFICES ASSUME TypeOK, DevicesOK, ShadowIsThePicture, [Next]_vars
               PROVE  ShadowIsThePicture'
    OBVIOUS
  <2>1. CASE UNCHANGED vars
    BY <2>1 DEF vars, ShadowIsThePicture
  <2>3. ASSUME NEW drawn \in SUBSET FB, NEW dropped \in SUBSET FB,
               NEW pics \in [drawn -> Pic], Frame(drawn, dropped, pics)
        PROVE  ShadowIsThePicture'
    <3>1. Checked(guest) \in Memory /\ ~Checked(guest).current
      BY CheckedType, CheckedOnLive DEF TypeOK, DevicesOK
    <3>2. ~guest'.current
      BY <2>3, <3>1 DEF Frame, Memory
    <3> QED BY <3>2 DEF ShadowIsThePicture
  <2>4. ASSUME FrameHalts PROVE ShadowIsThePicture'
    BY <2>4 DEF FrameHalts, ShadowIsThePicture
  <2>5. ASSUME NEW s \in Slot, NEW told \in SaveTold, SaveState(s, told)
        PROVE  ShadowIsThePicture'
    <3>1. CASE told /\ MayCopy
      <4>1. PICK stored \in Stored(guest) : guest' = Copied(guest, stored)
        BY <2>5, <3>1 DEF SaveState
      <4>2. /\ guest'.block = [f \in stored |-> card[f]]
            /\ guest'.image = guest.image
        BY <4>1 DEF Copied, TypeOK, Memory
      <4>3. stored \subseteq Framebufs(guest)
        BY DEF Stored
      <4>4. UNCHANGED card
        BY <2>5 DEF SaveState
      <4> QED BY <4>2, <4>3, <4>4 DEF ShadowIsThePicture, Framebufs
    <3>2. CASE ~(told /\ MayCopy)
      BY <2>5, <3>2 DEF SaveState, ShadowIsThePicture
    <3> QED BY <3>1, <3>2
  <2>6. ASSUME NEW s \in Slot, NEW told \in LoadTold, LoadState(s, told)
        PROVE  ShadowIsThePicture'
    <3>1. slots[s] \in Memory /\ OnOneDevice(slots[s])
      BY <2>6 DEF LoadState, TypeOK, DevicesOK
    <3>2. guest'.device = slots[s].device /\ live' = live + 1
      BY <2>6, <3>1 DEF LoadState, NewDevice, Told, Memory
    <3>3. guest'.device # live'
      BY <3>1, <3>2 DEF OnOneDevice, TypeOK
    <3> QED BY <3>3 DEF ShadowIsThePicture
  <2>7. ASSUME Reboot PROVE ShadowIsThePicture'
    BY <2>7 DEF Reboot, Booted, ShadowIsThePicture
  <2> QED BY <2>1, <2>3, <2>4, <2>5, <2>6, <2>7 DEF Next
<1> QED BY <1>1, <1>2, TypeCorrect, DevicesAlways, PTL DEF Spec
-----------------------------------------------------------------------------
(* The renderer's savestates implement SavedPicture, if the host tells the *)
(* core of every load (it may or may not tell it of every save).           *)

\* What a load of the memory g will put back into f.
Back(g, f) == IF g.current /\ f \in DOMAIN g.block THEN g.block[f] ELSE Blank

\* A memory that will be rebuilt was loaded, and uses the copy the load brought
\* if and only if that was current; one that has noted no device has no
\* framebuffer.
BeforeRebuild ==
  MustRebuild(guest) => guest.loaded /\ guest.usable = guest.current

NothingDrawn(g) == g.device = NoDevice => Framebufs(g) = {}

\* A state gives back what was taken, or blank where nothing was promised.
Kind(s) ==
  /\ taken[s] \in Pictures
  /\ DOMAIN taken[s] = Framebufs(slots[s])
  /\ NothingDrawn(slots[s])
  /\ \A f \in Framebufs(slots[s]) :
       \/ Back(slots[s], f) = taken[s][f]
       \/ Back(slots[s], f) = Blank /\ f \notin Kept

StatesOK ==
  /\ DOMAIN taken = Slot
  /\ taken = [s \in Slot |-> taken[s]]
  /\ BeforeRebuild
  /\ NothingDrawn(guest)
  /\ \A s \in Slot : slots[s] # Empty => Kind(s)

\* The picture is of the framebuffers CheckVulkanDevice keeps.
LEMMA PictureType ==
  ASSUME TypeOK
  PROVE  Picture \in Pictures /\ DOMAIN Picture = Framebufs(Checked(guest))
<1>1. Framebufs(Checked(guest)) \in SUBSET FB
  BY CheckedType, PartialFcnElim DEF TypeOK, Memory, Framebufs
<1>2. CheckedCard(guest) \in [FB -> Pic]
  BY CheckedCardType DEF TypeOK
<1>3. Picture \in [Framebufs(Checked(guest)) -> Pic]
  BY <1>1, <1>2 DEF Picture
<1> QED BY <1>1, <1>3, PartialFcnIntro DEF Pictures

\* The picture of a memory on the host's device is what the card holds.
LEMMA PictureLive ==
  ASSUME TypeOK, ~MustRebuild(guest)
  PROVE  Picture = [f \in Framebufs(guest) |-> card[f]]
<1>1. Framebufs(Checked(guest)) = Framebufs(guest)
  BY DEF TypeOK, Checked, Noted, Memory, Framebufs
<1> QED BY <1>1 DEF Picture, CheckedCard

\* The picture of a memory that will be rebuilt is what its copy gives back.
LEMMA PictureBack ==
  ASSUME TypeOK, BeforeRebuild, MustRebuild(guest)
  PROVE  Picture = [f \in Framebufs(guest) |-> Back(guest, f)]
<1>1. guest \in Memory /\ guest.loaded /\ guest.usable = guest.current
  BY DEF TypeOK, BeforeRebuild
<1>2. Framebufs(Rebuilt(guest)) = Framebufs(guest)
  BY <1>1 DEF Rebuilt, Memory, Framebufs
<1>3. Framebufs(Checked(guest)) = Framebufs(guest)
  BY <1>1, <1>2 DEF Checked, Noted, Rebuilt, Memory, Framebufs
<1>4. \A f \in Framebufs(guest) : f \in FB
  BY <1>1, PartialFcnElim DEF Memory, Framebufs
<1>5. \A f \in Framebufs(guest) : CheckedCard(guest)[f] = Back(guest, f)
  BY <1>1, <1>2, <1>4 DEF CheckedCard, Restored, Back
<1> QED BY <1>3, <1>5 DEF Picture

\* A frame (pspdrv_run_frame) is a Frame of SavedPicture.
LEMMA FrameIsFrame ==
  ASSUME TypeOK, DevicesOK, StatesOK, TypeOK',
         NEW drawn \in SUBSET FB, NEW dropped \in SUBSET FB,
         NEW pics \in [drawn -> Pic], Frame(drawn, dropped, pics)
  PROVE  StatesOK' /\ Abstract!Frame
<1> DEFINE g == Checked(guest)
<1>1. g \in Memory /\ Framebufs(g) \subseteq FB
  BY CheckedType, PartialFcnElim DEF TypeOK, Memory, Framebufs
<1>2. g.device = live
  BY CheckedOnLive DEF DevicesOK
<1>3. /\ guest'.device = live
      /\ Framebufs(guest') = (Framebufs(g) \ dropped) \cup drawn
  BY <1>1, <1>2 DEF Frame, Memory, Framebufs
<1>4. UNCHANGED <<live, slots, taken>>
  BY DEF Frame
<1>5. ~MustRebuild(guest)'
  BY <1>3, <1>4 DEF MustRebuild
<1>6. Picture' = [f \in Framebufs(guest') |-> card'[f]]
  <2>1. (TypeOK /\ ~MustRebuild(guest) =>
           Picture = [f \in Framebufs(guest) |-> card[f]])'
    BY PictureLive, PTL
  <2> QED BY <1>5, <2>1 DEF Framebufs
<1>7. StatesOK'
  <2>1. BeforeRebuild'
    BY <1>5 DEF BeforeRebuild
  <2>2. NothingDrawn(guest)'
    BY <1>3, <1>4 DEF NothingDrawn, TypeOK
  <2>3. \A s \in Slot : slots[s] # Empty => Kind(s)'
    BY <1>4 DEF StatesOK, Kind
  <2> QED BY <1>4, <2>1, <2>2, <2>3 DEF StatesOK
<1>8. touched' \in SUBSET FB
  BY DEF TypeOK
<1>9. Picture' \in Pictures
  <2>1. (TypeOK => Picture \in Pictures /\ DOMAIN Picture = Framebufs(Checked(guest)))'
    BY PictureType, PTL
  <2> QED BY <2>1 DEF Pictures
<1>10. /\ DOMAIN Picture' = (Framebufs(g) \ dropped) \cup drawn
       /\ DOMAIN Picture = Framebufs(g)
  BY <1>3, <1>6 DEF Picture
<1>11. DOMAIN Picture' \ touched' = DOMAIN Picture \ touched'
  BY <1>10 DEF Frame
<1>12. \A f \in DOMAIN Picture \ touched' : Picture'[f] = Picture[f]
  <2> SUFFICES ASSUME NEW f \in DOMAIN Picture \ touched'
               PROVE  Picture'[f] = Picture[f]
    OBVIOUS
  <2>1. f \in Framebufs(g) /\ f \notin drawn /\ f \notin dropped /\ f \in FB
    BY <1>1, <1>10 DEF Frame
  <2>2. Picture'[f] = card'[f]
    BY <1>3, <1>6, <2>1
  <2>3. card'[f] = CheckedCard(guest)[f]
    BY <2>1 DEF Frame
  <2> QED BY <2>1, <2>2, <2>3 DEF Picture
<1>13. Picture' \in Abstract!Pictures
  BY <1>9 DEF Pictures, PartialFcn, Abstract!Pictures
<1> QED BY <1>4, <1>7, <1>8, <1>11, <1>12, <1>13 DEF Abstract!Frame

\* Taking a state (pspdrv_state_saving) is a Save of SavedPicture.
LEMMA SaveIsSave ==
  ASSUME TypeOK, DevicesOK, StatesOK, ShadowIsThePicture, TypeOK',
         NEW s \in Slot, NEW told \in SaveTold, SaveState(s, told)
  PROVE  StatesOK' /\ Abstract!Save(s)
<1>1. UNCHANGED <<live, card, touched>>
  BY DEF SaveState
<1>2. taken' = [taken EXCEPT ![s] = Picture]
  BY DEF SaveState
<1>3. guest \in Memory /\ guest' \in Memory
  BY DEF TypeOK
<1>4. /\ guest'.device = guest.device /\ guest'.loaded = guest.loaded
      /\ guest'.usable = guest.usable /\ guest'.image = guest.image
      /\ MustRebuild(guest) => guest' = guest
  BY <1>3 DEF SaveState, Copied, Memory, MayCopy, MustRebuild
<1>5. MustRebuild(guest)' <=> MustRebuild(guest)
  BY <1>1, <1>4 DEF MustRebuild
<1>6. Picture' = Picture
  <2>1. CASE MustRebuild(guest)
    <3>1. (TypeOK /\ BeforeRebuild /\ MustRebuild(guest) =>
             Picture = [f \in Framebufs(guest) |-> Back(guest, f)])'
      BY PictureBack, PTL
    <3>2. BeforeRebuild'
      BY <1>4, <1>5 DEF StatesOK, BeforeRebuild
    <3>3. Picture' = [f \in Framebufs(guest') |-> Back(guest', f)]
      BY <1>5, <2>1, <3>1, <3>2 DEF Framebufs, Back
    <3>4. Picture = [f \in Framebufs(guest) |-> Back(guest, f)]
      BY <2>1, PictureBack DEF StatesOK
    <3> QED BY <1>4, <2>1, <3>3, <3>4
  <2>2. CASE ~MustRebuild(guest)
    <3>1. (TypeOK /\ ~MustRebuild(guest) =>
             Picture = [f \in Framebufs(guest) |-> card[f]])'
      BY PictureLive, PTL
    <3>2. Framebufs(guest') = Framebufs(guest)
      BY <1>4 DEF Framebufs
    <3>3. Picture' = [f \in Framebufs(guest') |-> card'[f]]
      BY <1>5, <2>2, <3>1 DEF Framebufs
    <3> QED BY <1>1, <2>2, <3>2, <3>3, PictureLive
  <2> QED BY <2>1, <2>2
<1>7. NothingDrawn(guest')
  BY <1>4 DEF StatesOK, NothingDrawn, Framebufs
<1>8. /\ Picture \in Pictures
      /\ DOMAIN Picture = Framebufs(guest')
      /\ \A f \in Framebufs(guest') :
           \/ Back(guest', f) = Picture[f]
           \/ Back(guest', f) = Blank /\ f \notin Kept
  <2>1. Framebufs(guest') = Framebufs(guest)
    BY <1>4 DEF Framebufs
  <2>2. CASE MustRebuild(guest)
    BY <1>4, <2>1, <2>2, PictureType, PictureBack DEF StatesOK
  <2>3. CASE ~MustRebuild(guest)
    <3>1. Picture \in Pictures /\ Picture = [f \in Framebufs(guest) |-> card[f]]
      BY <2>3, PictureType, PictureLive
    <3>2. CASE told /\ MayCopy
      <4>1. PICK stored \in Stored(guest) : guest' = Copied(guest, stored)
        BY <3>2 DEF SaveState
      <4>2. guest'.current /\ guest'.block = [f \in stored |-> card[f]]
        BY <1>3, <4>1 DEF Copied, Memory
      <4>3. \A f \in Framebufs(guest) : f \in stored \/ f \notin Kept
        BY DEF Stored, Kept
      <4> QED BY <2>1, <3>1, <4>2, <4>3 DEF Back
    <3>3. CASE ~told
      <4>1. guest' = guest /\ Kept = {}
        BY <3>3 DEF SaveState, Kept
      <4>2. ASSUME guest.current, NEW f \in DOMAIN guest.block,
                   NEW h \in Framebufs(guest)
            PROVE  guest.block[f] = card[f]
        <5>1. guest.device = live
          BY <2>3, <4>2 DEF MustRebuild, StatesOK, NothingDrawn
        <5> QED BY <4>2, <5>1 DEF ShadowIsThePicture
      <4> QED BY <2>1, <3>1, <4>1, <4>2 DEF Back
    <3>4. CASE told /\ ~MayCopy
      <4>1. Framebufs(guest) = {}
        BY <2>3, <3>4 DEF MayCopy, MustRebuild, StatesOK, NothingDrawn
      <4> QED BY <2>1, <3>1, <4>1
    <3> QED BY <3>2, <3>3, <3>4 DEF HostAssumption
  <2> QED BY <2>2, <2>3
<1>9. \A t \in Slot : slots'[t] = IF t = s THEN guest' ELSE slots[t]
  BY DEF SaveState, TypeOK
<1>10. \A t \in Slot : taken'[t] = IF t = s THEN Picture ELSE taken[t]
  BY <1>2 DEF StatesOK
<1>11. \A t \in Slot : slots'[t] # Empty => Kind(t)'
  BY <1>7, <1>8, <1>9, <1>10 DEF StatesOK, Kind
<1>12. BeforeRebuild'
  BY <1>4, <1>5 DEF StatesOK, BeforeRebuild
<1>13. DOMAIN taken' = Slot /\ taken' = [t \in Slot |-> taken'[t]]
  BY <1>2 DEF StatesOK
<1>14. StatesOK'
  BY <1>7, <1>11, <1>12, <1>13 DEF StatesOK, NothingDrawn
<1> QED BY <1>1, <1>2, <1>6, <1>14 DEF Abstract!Save

\* Loading a state the host tells of (pspdrv_state_loaded) is a Load of
\* SavedPicture.
LEMMA LoadIsLoad ==
  ASSUME LoadTold \subseteq {TRUE}, TypeOK, DevicesOK, StatesOK, TypeOK',
         NEW s \in Slot, NEW told \in LoadTold, LoadState(s, told)
  PROVE  StatesOK' /\ Abstract!Load(s)
<1>1. slots[s] # Empty /\ slots[s] \in Memory /\ OnOneDevice(slots[s]) /\ Kind(s)
  BY DEF LoadState, TypeOK, DevicesOK, StatesOK
<1>2. guest' = Told(slots[s])
  BY DEF LoadState
<1>3. /\ guest'.loaded /\ guest'.usable = slots[s].current
      /\ guest'.current = slots[s].current /\ guest'.block = slots[s].block
      /\ guest'.device = slots[s].device /\ guest'.image = slots[s].image
  BY <1>1, <1>2 DEF Told, Memory
<1>4. live' = live + 1 /\ touched' = {} /\ UNCHANGED <<slots, taken>>
  BY DEF LoadState, NewDevice
<1>5. MustRebuild(guest)'
  BY <1>1, <1>3, <1>4 DEF OnOneDevice, MustRebuild, TypeOK
<1>6. BeforeRebuild'
  BY <1>3 DEF BeforeRebuild
<1>7. Framebufs(guest') = Framebufs(slots[s])
  BY <1>3 DEF Framebufs
<1>8. NothingDrawn(guest')
  BY <1>1, <1>3, <1>7 DEF NothingDrawn, Kind
<1>9. StatesOK'
  BY <1>4, <1>6, <1>8 DEF StatesOK, Kind, NothingDrawn
<1>10. Picture' = [f \in Framebufs(slots[s]) |-> Back(slots[s], f)]
  <2>1. (TypeOK /\ BeforeRebuild /\ MustRebuild(guest) =>
           Picture = [f \in Framebufs(guest) |-> Back(guest, f)])'
    BY PictureBack, PTL
  <2>2. Picture' = [f \in Framebufs(guest') |-> Back(guest', f)]
    BY <1>5, <1>6, <2>1 DEF Framebufs, Back
  <2>3. \A f \in Framebufs(guest') : Back(guest', f) = Back(slots[s], f)
    BY <1>3 DEF Back
  <2> QED BY <1>7, <2>2, <2>3
<1>11. DEFINE lost == {f \in DOMAIN taken[s] : Picture'[f] # taken[s][f]}
<1>12. lost \in SUBSET (DOMAIN taken[s] \ Kept)
  BY <1>1, <1>10 DEF Kind
<1>13. Picture' = [f \in DOMAIN taken[s] |-> IF f \in lost THEN Blank ELSE taken[s][f]]
  BY <1>1, <1>10 DEF Kind
<1>14. taken[s] # Empty
  BY <1>1, SlotAssumption DEF Kind, Pictures, PartialFcn
<1> QED BY <1>4, <1>9, <1>12, <1>13, <1>14 DEF Abstract!Load

\* A boot (pspdrv_boot) is a Reboot of SavedPicture.
LEMMA RebootIsReboot ==
  ASSUME TypeOK, StatesOK, TypeOK', Reboot
  PROVE  StatesOK' /\ Abstract!Reboot
<1>1. guest' = Booted(live') /\ touched' = {} /\ UNCHANGED <<slots, taken>>
  BY DEF Reboot, NewDevice
<1>2. ~MustRebuild(guest)' /\ Framebufs(guest') = {}
  BY <1>1 DEF Booted, MustRebuild, Framebufs
<1>3. StatesOK'
  BY <1>1, <1>2 DEF StatesOK, BeforeRebuild, NothingDrawn, Kind
<1>4. Picture' \in [{} -> Pic]
  <2>1. (TypeOK /\ ~MustRebuild(guest) =>
           Picture = [f \in Framebufs(guest) |-> card[f]])'
    BY PictureLive, PTL
  <2>2. Picture' = [f \in Framebufs(guest') |-> card'[f]]
    BY <1>2, <2>1 DEF Framebufs
  <2> QED BY <1>2, <2>2
<1> QED BY <1>1, <1>3, <1>4 DEF Abstract!Reboot

\* A stuttering step, and one in which the renderer cannot start again.
LEMMA HaltIsFrame ==
  ASSUME TypeOK, StatesOK, FrameHalts \/ UNCHANGED vars
  PROVE  StatesOK' /\ [Abstract!Next]_(Abstract!vars)
<1>1. UNCHANGED <<live, card, guest, slots, taken>>
  BY DEF FrameHalts, vars
<1>2. StatesOK'
  BY <1>1 DEF StatesOK, BeforeRebuild, MustRebuild, NothingDrawn, Kind
<1>3. UNCHANGED Picture
  BY <1>1 DEF Picture, Checked, Rebuilt, Noted, CheckedCard, MustRebuild, Restored
<1>4. Picture \in Pictures
  BY PictureType
<1>5. CASE FrameHalts
  <2>1. touched' = {}
    BY <1>5 DEF FrameHalts
  <2>2. Abstract!Frame
    BY <1>1, <1>3, <1>4, <2>1 DEF Abstract!Frame, Abstract!Pictures, Pictures, PartialFcn
  <2> QED BY <1>2, <2>2 DEF Abstract!Next
<1>6. CASE UNCHANGED vars
  BY <1>2, <1>3, <1>6 DEF vars, Abstract!vars
<1> QED BY <1>5, <1>6

\* Told of every load, the renderer does with its pictures what SavedPicture
\* says: a state loaded shows every framebuffer as it was when the state was
\* taken, or blank if nothing was promised of it - never another time's.
THEOREM SavestatesKeepThePicture ==
  ASSUME LoadTold \subseteq {TRUE} PROVE Spec => ImplementsSavedPicture
<1>1. HostTells
  BY DEF HostTells
<1>2. Init => DevicesOK /\ StatesOK /\ ShadowIsThePicture
  <2> SUFFICES ASSUME Init PROVE DevicesOK /\ StatesOK /\ ShadowIsThePicture
    OBVIOUS
  <2>1. DevicesOK /\ ShadowIsThePicture
    BY DEF Init, DevicesOK, OnOneDevice, WillNotice, Booted, Framebufs,
           ShadowIsThePicture
  <2>2. ~MustRebuild(guest) /\ NothingDrawn(guest)
    BY DEF Init, Booted, MustRebuild, NothingDrawn, Framebufs
  <2> QED BY <2>1, <2>2 DEF Init, StatesOK, BeforeRebuild
<1>3. Init /\ TypeOK => Abstract!Init
  <2> SUFFICES ASSUME Init, TypeOK PROVE Abstract!Init
    OBVIOUS
  <2>1. ~MustRebuild(guest) /\ Framebufs(guest) = {}
    BY DEF Init, Booted, MustRebuild, Framebufs
  <2>2. Picture \in [{} -> Pic]
    BY <2>1, PictureLive
  <2> QED BY <2>2 DEF Init, Abstract!Init
<1>4. TypeOK /\ TypeOK' /\ DevicesOK /\ StatesOK /\ ShadowIsThePicture /\ [Next]_vars
        => StatesOK' /\ [Abstract!Next]_(Abstract!vars)
  <2> SUFFICES ASSUME TypeOK, TypeOK', DevicesOK, StatesOK, ShadowIsThePicture,
                      [Next]_vars
               PROVE  StatesOK' /\ [Abstract!Next]_(Abstract!vars)
    OBVIOUS
  <2>1. ASSUME NEW drawn \in SUBSET FB, NEW dropped \in SUBSET FB,
               NEW pics \in [drawn -> Pic], Frame(drawn, dropped, pics)
        PROVE  StatesOK' /\ Abstract!Next
    BY <2>1, FrameIsFrame DEF Abstract!Next
  <2>2. ASSUME NEW s \in Slot, NEW told \in SaveTold, SaveState(s, told)
        PROVE  StatesOK' /\ Abstract!Next
    BY <2>2, SaveIsSave DEF Abstract!Next
  <2>3. ASSUME NEW s \in Slot, NEW told \in LoadTold, LoadState(s, told)
        PROVE  StatesOK' /\ Abstract!Next
    BY <2>3, LoadIsLoad DEF Abstract!Next
  <2>4. ASSUME Reboot PROVE StatesOK' /\ Abstract!Next
    BY <2>4, RebootIsReboot DEF Abstract!Next
  <2>5. CASE FrameHalts \/ UNCHANGED vars
    BY <2>5, HaltIsFrame
  <2> QED BY <2>1, <2>2, <2>3, <2>4, <2>5 DEF Next
<1>5. Spec => []DevicesOK
  BY <1>1, DevicesAlways
<1>6. Spec => []ShadowIsThePicture
  BY <1>1, ShadowCurrent
<1> QED BY <1>2, <1>3, <1>4, <1>5, <1>6, TypeCorrect, PTL
        DEF Spec, ImplementsSavedPicture, Abstract!Spec
==============================================================================
