------------------------------ MODULE LockUsers ------------------------------
(***************************************************************************)
(* LockScreen as it is checked and proved about: an instance whose names   *)
(* can stand beside those of PhoneSession (BluetoothProofs is about both). *)
(* What LockScreen calls lock and faults is here slots and failures.       *)
(***************************************************************************)
CONSTANTS MaxUid, MaxGid, MaxOps, MaxPulls, MaxFailures  \* as in LockScreen

VARIABLES slots, cloud, due, shown, loads, ops, ready, want, spoiled, nops, pulls, failures

Screen == INSTANCE LockScreen
              WITH lock <- slots, faults <- failures, MaxFaults <- MaxFailures

ASSUME ScreenAssumption == Screen!Parameters

ScreenSpec == Screen!Spec

\* Between operations the lock and the cloud agree on every slot, but for what the hub has
\* still to carry, what was given again before it had, and what failed or was left.
Agree == Screen!Agree

\* The validity last set for a credential is the one the lock enforces.
LastSetHolds == Screen!LastSetHolds

\* What the cloud keeps as the validity of a credential is for its own slot.
OwnSlot == Screen!OwnSlot

=============================================================================
