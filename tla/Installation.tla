---------------------------- MODULE Installation ----------------------------
(***************************************************************************)
(* What updating in place promises, whoever asks, however many scripts run *)
(* and wherever they die: the checkout only ever moves forward, to a       *)
(* version that was published, and what runs is only ever replaced by a    *)
(* build of what was checked out when that build began.  Builds that       *)
(* overlap may end in any order.  PlatformUpdate is shown to implement it. *)
(***************************************************************************)
EXTENDS Naturals

VARIABLES
  published,  \* the newest version of the release branch
  installed,  \* the version checked out on the host
  building,   \* the versions that images are being built from
  running     \* the version the containers were built from

vars == <<published, installed, building, running>>

Init == published = 0 /\ installed = 0 /\ building = {} /\ running = 0

Publish == /\ published' = published + 1
           /\ UNCHANGED <<installed, building, running>>

(* git merge --ff-only: never back, and never past what was published. *)
Install == /\ installed' \in (installed + 1)..published
           /\ UNCHANGED <<published, building, running>>

StartBuild == /\ building' = building \cup {installed}
              /\ UNCHANGED <<published, installed, running>>

(* A build ends, and goes live or not; another of its version may go on. *)
EndBuild(v) == /\ running' \in {running, v}
               /\ building' \in {building, building \ {v}}
               /\ UNCHANGED <<published, installed>>

Next == Publish \/ Install \/ StartBuild \/ \E v \in building : EndBuild(v)

Spec == Init /\ [][Next]_vars
=============================================================================
