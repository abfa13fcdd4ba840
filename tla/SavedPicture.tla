---------------------------- MODULE SavedPicture ----------------------------
(***************************************************************************)
(* What a savestate promises of the picture.  A PSP game keeps what it has *)
(* drawn in framebuffers; a frame changes those it draws into, makes or    *)
(* drops, and no other.  A state carries all of them, and loading it gives *)
(* each one back as it was, or, for a framebuffer outside Kept, blank -    *)
(* and never with a picture of another time.                               *)
(***************************************************************************)
CONSTANTS FB,     \* the framebuffers the game may have
          Pic,    \* what a framebuffer may hold
          Blank,  \* what a new one holds
          Slot,   \* the places the host keeps states in
          Empty,  \* a slot without a state
          Kept    \* the framebuffers a state always carries

VARIABLES picture,  \* the framebuffers that exist and what each holds
          touched,  \* those the last frame drew into, made or dropped
          saved     \* the picture each state was taken of

vars == <<picture, touched, saved>>

Pictures == UNION {[F -> Pic] : F \in SUBSET FB}

Init ==
  /\ picture \in [{} -> Pic]
  /\ touched = {}
  /\ saved = [s \in Slot |-> Empty]

Frame ==
  /\ touched' \in SUBSET FB
  /\ picture' \in Pictures
  /\ DOMAIN picture' \ touched' = DOMAIN picture \ touched'
  /\ \A f \in DOMAIN picture \ touched' : picture'[f] = picture[f]
  /\ UNCHANGED saved

Save(s) ==
  /\ saved' = [saved EXCEPT ![s] = picture]
  /\ UNCHANGED <<picture, touched>>

Load(s) ==
  /\ saved[s] # Empty
  /\ \E lost \in SUBSET (DOMAIN saved[s] \ Kept) :
       picture' = [f \in DOMAIN saved[s] |->
                     IF f \in lost THEN Blank ELSE saved[s][f]]
  /\ touched' = {}
  /\ UNCHANGED saved

\* The machine is switched on again; the states are files and stay.
Reboot ==
  /\ picture' \in [{} -> Pic]
  /\ touched' = {}
  /\ UNCHANGED saved

Next == Frame \/ (\E s \in Slot : Save(s) \/ Load(s)) \/ Reboot

Spec == Init /\ [][Next]_vars
=============================================================================
