-------------------------- MODULE PacketLifecycle --------------------------
(***************************************************************************)
(* What the packet pool, sixtop and the MAC together promise about one     *)
(* buffer (openstack/cross-layers/openqueue.h and opendefs.h name the      *)
(* owners a buffer passes through).                                        *)
(*                                                                         *)
(* A component takes a free buffer, fills it and hands it to the MAC with  *)
(* an allowance of transmissions.  Each transmission ends: with another    *)
(* one if the allowance is not used up, and otherwise with one report to   *)
(* the upper layers, which then give the buffer back.  The radio takes     *)
(* buffers too; what it received is reported in the same way.  A packet    *)
(* may be withdrawn while it waits, never while it is being sent.          *)
(***************************************************************************)
EXTENDS Naturals

CONSTANT Allowance        \* transmissions a packet can be given, at least 1

VARIABLES
  stage,   \* where the buffer is
  left     \* transmissions the packet has left

lifeVars == <<stage, left>>

Stages == {"free", "held", "waiting", "sending", "radio", "reported"}

Init == stage = "free" /\ left = 0

Take     == stage = "free" /\ stage' \in {"held", "radio", "reported"}
              /\ left' = 0
HandOver == stage = "held" /\ stage' = "waiting" /\ left' \in 1..Allowance
Start    == stage = "waiting" /\ stage' = "sending" /\ left' = left
Retry    == stage = "sending" /\ stage' = "waiting"
              /\ left > 1 /\ left' = left - 1
Report   == stage = "sending" /\ stage' = "reported"
              /\ left > 0 /\ left' \in {left, left - 1}
Receive  == stage = "radio" /\ stage' \in {"free", "reported"} /\ left' = 0
PickUp   == stage = "reported" /\ stage' = "held" /\ left' = left
Release  == stage \in {"held", "waiting"} /\ stage' = "free" /\ left' = 0

EndOfSlot == Retry \/ Report \/ Receive

Next == Take \/ HandOver \/ Start \/ EndOfSlot \/ PickUp \/ Release

Spec == Init /\ [][Next]_lifeVars

(* The MAC does not keep a buffer.                                         *)
MacIsFair == WF_lifeVars(EndOfSlot)

FairSpec == Spec /\ MacIsFair
=============================================================================
