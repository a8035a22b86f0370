----------------------------- MODULE DesktopTool -----------------------------
(***************************************************************************)
(* FastUnlock as it is checked and proved about: an instance whose names   *)
(* can stand beside those of PhoneSession and LockUsers (BluetoothProofs   *)
(* is about all three).  What FastUnlock calls lock, offers, last and      *)
(* faults is here door, published, outcome and mishaps.                    *)
(***************************************************************************)
CONSTANTS Runs, NoRun, MAX, MaxDoorKeys, MaxPublished, MaxStarts, MaxMishaps,
          Faults  \* as in FastUnlock

VARIABLES file, door, run, published, outcome, warm, overlapped, starts, mishaps

Fast == INSTANCE FastUnlock
            WITH lock <- door, offers <- published, last <- outcome, faults <- mishaps,
                 MaxKeys <- MaxDoorKeys, MaxOffers <- MaxPublished, MaxFaults <- MaxMishaps

ASSUME ToolAssumption == Fast!Parameters

ToolSpec == Fast!Spec

\* Types: the file holds MAX sessions at most, or what cannot be read.
ToolTypeOK == Fast!TypeOK

\* A process that meets no fault, or only one that the fallback to the cloud is there for,
\* ends well, and the lock has opened if that was asked.
FallbackSucceeds == Fast!FallbackSucceeds

\* After a process that ended well the next one does not ask the cloud, unless two ran at
\* the same time, the lock has changed its key or a fault hits it.
NextIsOffline == Fast!NextIsOffline

=============================================================================
