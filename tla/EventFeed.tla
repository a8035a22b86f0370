----------------------------- MODULE EventFeed -----------------------------
(***************************************************************************)
(* What the coordinator promises those who listen to its events            *)
(* (custom_components/aquara_local/coordinator.py): it first notes how far *)
(* each lock's log goes, and from then on reports what is new, in order,   *)
(* once and without a gap.  Of more than a page of new entries the last    *)
(* ones are reported.  A lock that it could not note is excused: what is   *)
(* old may be reported as new there.                                       *)
(***************************************************************************)
EXTENDS Naturals, Sequences

CONSTANTS
    Locks,
    Page  \* entries reported at a time

VARIABLES
    log,      \* number of entries in a lock's log
    start,    \* what it was when the feed was started
    noted,    \* the last entry noted or reported
    excused,  \* locks whose log could not be noted
    open,     \* the feed reports
    told      \* what it has reported since it was started

vars == <<log, start, noted, excused, open, told>>

Fresh ==
    /\ noted = [l \in Locks |-> 0] /\ told = [l \in Locks |-> <<>>]
    /\ excused = {} /\ open = FALSE

Init == log \in [Locks -> Nat] /\ start = log /\ Fresh

\* A lock logs an entry.
Log(l) ==
    /\ log' = [log EXCEPT ![l] = @ + 1]
    /\ UNCHANGED <<start, noted, excused, open, told>>

\* The feed opens when it has noted all that was there at its start.
MayOpen == open' => \A l \in Locks \ excused' : start[l] <= noted'[l]

\* A lock is noted, or cannot be.
Note(l) ==
    /\ ~open /\ open' \in BOOLEAN /\ MayOpen
    /\ \/ UNCHANGED excused
          /\ \E n \in (noted[l] + 1)..log[l] : noted' = [noted EXCEPT ![l] = n]
       \/ excused' = excused \cup {l} /\ UNCHANGED noted
       \/ UNCHANGED <<excused, noted>>
    /\ UNCHANGED <<log, start, told>>

Open ==
    /\ ~open /\ open' /\ MayOpen
    /\ UNCHANGED <<log, start, noted, excused, told>>

\* The entries after m up to n, at most a page of them.
New(m, n) ==
    LET k == IF n - m < Page THEN n - m ELSE Page
    IN  [i \in 1..k |-> n - k + i]

Tell(l) ==
    /\ open
    /\ \E n \in (noted[l] + 1)..log[l] :
          /\ told' = [told EXCEPT ![l] = @ \o New(noted[l], n)]
          /\ noted' = [noted EXCEPT ![l] = n]
    /\ UNCHANGED <<log, start, excused, open>>

Restart == start' = log /\ Fresh' /\ UNCHANGED log

Next == (\E l \in Locks : Log(l) \/ Note(l) \/ Tell(l)) \/ Open \/ Restart

Spec == Init /\ [][Next]_vars

=============================================================================
