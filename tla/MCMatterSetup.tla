--------------------------- MODULE MCMatterSetup ---------------------------
(* Small instances of MatterSetup for TLC: who is bound to what, and which  *)
(* names and labels there are.                                              *)
EXTENDS MatterSetup

\* One home; every lock is bound to the first hub, another hub has none.
CONSTANTS l1, l2, h1, h2, home
OneHome == [x \in Locks \cup Hubs |-> home]
OneHub  == [l \in Locks |-> h1]
\* A hub for each lock: instead of OneHub, with both locks (README, Divergences).
TwoHubs == [l \in Locks |-> IF l = l1 THEN h1 ELSE h2]

OwnName == [l \in Locks |-> l]
\* Of the fixed automations, the one that opens the lock.
OnlyOpens == [l \in Locks |-> {0}]

OwnLabel == [c \in Creds |-> c]
\* A credential removed and enrolled again for the same person: instead of OwnLabel
\* (README, Divergences).
SameLabel == [c \in Creds |-> 1]

\* An automation of the scheme that numbered the events one after the other.
Sequential == {[lock |-> l1, event |-> 5, level |-> 1]}

AllFaults == {"list", "creds", "lock", "delete", "create", "save", "abort"}
=============================================================================
