---------------------------- MODULE LockMonitor ----------------------------
(***************************************************************************)
(* The live page of the add-on: addon/app/lib/monitor.server.ts, the route *)
(* that streams it (sse.events.ts), the page that shows it (_index.tsx),   *)
(* its commands (api.lock.tsx) and the view of a lock (aqara.server.ts),   *)
(* for one account with one lock.  A monitor belongs to a token; it is     *)
(* made for the first page, polls while it has subscribers and is thrown   *)
(* away with the last.  Its refreshes are started by two intervals and by  *)
(* commands and do not wait for each other.                                *)
(***************************************************************************)
EXTENDS Integers, FiniteSets

CONSTANTS
    Clients,      \* pages that may be open
    Slots,        \* bound: refreshes that run at once
    MaxConnects,  \* bound: pages opened
    MaxMoves,     \* bound: openings, lockings and other events of the lock
    MaxFaults     \* bound: calls that fail and events the hub misses

ASSUME ParametersAssumption ==
    /\ IsFiniteSet(Clients) /\ Slots # {}
    /\ MaxConnects \in Nat /\ MaxMoves \in Nat /\ MaxFaults \in Nat

VARIABLES
    bolt,      \* the lock
    cloud,     \* lock_state in the cloud
    level,     \* what the level of the virtual light stands for
    due,       \* an event the hub has still to write to the light
    conn,      \* each page: "off", "pending" in subscribe, "on", or "gone" while pending
    shown,     \* the lock on each page
    monitor,   \* the monitor in the map, with its fields
    intervals, \* pairs of intervals that run
    refresh,   \* the refreshes in progress
    connects, moves, faults \* bounds

world == <<bolt, cloud, level, due>>
bounds == <<connects, moves, faults>>
vars == <<world, conn, shown, monitor, intervals, refresh, bounds>>

Bolt == {"locked", "unlocked"}
\* A lock whose state could not be read is shown as "?", no lock as None.
View == Bolt \cup {"?"}
None == "none"

\* timerState is set while handle is true; known says that locks is not empty.
Monitor == [exists : BOOLEAN, subs : 0..Cardinality(Clients),
            starting : {"no", "discover", "refresh"}, handle : BOOLEAN,
            known : BOOLEAN, snapshot : View \cup {None}]
NoMonitor == [exists |-> FALSE, subs |-> 0, starting |-> "no", handle |-> FALSE,
              known |-> FALSE, snapshot |-> None]

\* seen: what the cloud has shown since it was asked; first: the one of ensureStarted.
Refresh == [at : {"free", "discover", "view"}, seen : SUBSET Bolt, first : BOOLEAN]
Free == [at |-> "free", seen |-> {}, first |-> FALSE]

TypeOK ==
    /\ bolt \in Bolt /\ cloud \in Bolt
    /\ level \in Bolt \cup {"event", "unknown"} /\ due \in Bolt \cup {"event", None}
    /\ conn \in [Clients -> {"off", "pending", "on", "gone"}]
    /\ shown \in [Clients -> View \cup {None}]
    /\ monitor \in Monitor
    /\ intervals \in Nat
    /\ refresh \in [Slots -> Refresh]
    /\ connects \in 0..MaxConnects /\ moves \in 0..MaxMoves /\ faults \in 0..MaxFaults

Init ==
    /\ bolt = "locked" /\ cloud = "locked" /\ level \in {"unknown", "locked"} /\ due = None
    /\ conn = [c \in Clients |-> "off"] /\ shown = [c \in Clients |-> None]
    /\ monitor = NoMonitor /\ intervals = 0
    /\ refresh = [s \in Slots |-> Free]
    /\ connects = 0 /\ moves = 0 /\ faults = 0

Fault == faults < MaxFaults /\ faults' = faults + 1
Pages(states) == {c \in Clients : conn[c] \in states}

-----------------------------------------------------------------------------
(* Refreshing.                                                             *)

\* A refresh asks for the locks as long as none is known, then for their views.
StartRefresh(first) ==
    \E s \in Slots :
        /\ refresh[s] = Free
        /\ refresh' = [refresh EXCEPT ![s] =
              [at |-> IF monitor'.known THEN "view" ELSE "discover", seen |-> {cloud},
               first |-> first]]

discover(s) ==
    /\ refresh[s].at = "discover"
    /\ \/ monitor' = [monitor EXCEPT !.known = TRUE] /\ UNCHANGED faults
       \/ Fault /\ UNCHANGED monitor
    /\ refresh' = [refresh EXCEPT ![s].at = "view", ![s].seen = {cloud}]
    /\ UNCHANGED <<world, conn, shown, intervals, connects, moves>>

\* The level of the light, as it is when the cloud has answered, counts before the
\* cloud, unless it stands for an event.
lockView(answer) == IF level \in Bolt THEN level ELSE answer

\* An answer is what the cloud has shown at some moment since it was asked; a state
\* that cannot be read is "?"; without a known lock the list is empty.
Answered(s, view) ==
    /\ refresh[s].at = "view"
    /\ \/ ~monitor.known /\ view = None /\ UNCHANGED faults
       \/ monitor.known /\ UNCHANGED faults /\ \E a \in refresh[s].seen : view = lockView(a)
       \/ monitor.known /\ Fault /\ view = lockView("?")


\* Every page that is subscribed is told.
RefreshDone(s) ==
    \E view \in View \cup {None} :
        /\ ~refresh[s].first /\ Answered(s, view)
        /\ monitor' = [monitor EXCEPT !.snapshot = view]
        /\ shown' = [c \in Clients |-> IF conn[c] = "on" THEN view ELSE shown[c]]
        /\ refresh' = [refresh EXCEPT ![s] = Free]
        /\ UNCHANGED <<world, conn, intervals, connects, moves>>

\* One of the two intervals.
Tick ==
    /\ intervals > 0
    /\ UNCHANGED monitor /\ StartRefresh(FALSE)
    /\ UNCHANGED <<world, conn, shown, intervals, bounds>>

-----------------------------------------------------------------------------
(* Subscribing.                                                            *)

\* The intervals that the handle names are cleared and the map forgets the monitor;
\* what it is still refreshing is told to nobody.
stop == /\ intervals' = IF monitor.handle THEN intervals - 1 ELSE intervals
        /\ monitor' = NoMonitor
        /\ refresh' = [s \in Slots |-> Free]

\* The page has been loaded with a view of its own, or with none if that failed.
Connect(c) ==
    /\ conn[c] = "off" /\ connects < MaxConnects /\ connects' = connects + 1
    /\ monitor' = [monitor EXCEPT !.exists = TRUE, !.subs = @ + 1,
                     !.starting = IF monitor.handle \/ @ # "no" THEN @ ELSE "discover"]
    /\ conn' = [conn EXCEPT ![c] = IF monitor.handle THEN "on" ELSE "pending"]
    /\ \E loaded \in {lockView(cloud), None} :
          shown' = [shown EXCEPT ![c] = IF monitor.handle /\ monitor.snapshot # None
                                        THEN monitor.snapshot ELSE loaded]
    /\ UNCHANGED <<world, intervals, refresh, moves, faults>>

\* Defective variant: the start fails with the first call.
Discovered_strict ==
    /\ monitor.starting = "discover"
    /\ \/ /\ monitor' = [monitor EXCEPT !.starting = "refresh", !.known = TRUE]
          /\ UNCHANGED faults /\ StartRefresh(TRUE)
       \/ /\ monitor' = [monitor EXCEPT !.starting = "refresh"] /\ Fault /\ UNCHANGED refresh
    /\ UNCHANGED <<world, conn, shown, intervals, connects, moves>>

\* ensureStarted finds the locks and refreshes once; neither has to succeed.
Discovered ==
    /\ monitor.starting = "discover"
    /\ \/ monitor' = [monitor EXCEPT !.starting = "refresh", !.known = TRUE] /\ UNCHANGED faults
       \/ monitor' = [monitor EXCEPT !.starting = "refresh"] /\ Fault
    /\ StartRefresh(TRUE)
    /\ UNCHANGED <<world, conn, shown, intervals, connects, moves>>

\* Defective variant: the stream forgets to take back a subscription that comes late.
TakenBack_never == 0

\* The subscriptions of pages that went while it was pending.
TakenBack == Cardinality(Pages({"gone"}))

\* Then the intervals run; the pages that waited are subscribed and shown the
\* snapshot, and those that have gone meanwhile are taken back at once.
ensureStarted(s) ==
    \E view \in View \cup {None} :
        /\ refresh[s].first /\ Answered(s, view)
        /\ conn' = [c \in Clients |-> CASE conn[c] = "pending" -> "on"
                                        [] conn[c] = "gone" -> "off"
                                        [] OTHER -> conn[c]]
        /\ shown' = [c \in Clients |-> IF conn[c] = "pending" /\ view # None
                                       THEN view ELSE shown[c]]
        /\ IF monitor.subs = TakenBack
           THEN /\ monitor' = NoMonitor /\ refresh' = [q \in Slots |-> Free]
                /\ UNCHANGED intervals
           ELSE /\ monitor' = [monitor EXCEPT !.subs = @ - TakenBack,
                                 !.snapshot = view, !.handle = TRUE, !.starting = "no"]
                /\ refresh' = [refresh EXCEPT ![s] = Free]
                /\ intervals' = intervals + 1
        /\ UNCHANGED <<world, connects, moves>>

\* The browser closes the stream. While subscribe is pending there is nothing to take
\* back yet.
Disconnect(c) ==
    /\ shown' = [shown EXCEPT ![c] = None]
    /\ \/ /\ conn[c] = "pending" /\ conn' = [conn EXCEPT ![c] = "gone"]
          /\ UNCHANGED <<monitor, intervals, refresh>>
       \/ /\ conn[c] = "on" /\ conn' = [conn EXCEPT ![c] = "off"]
          /\ IF monitor.subs = 1 THEN stop
             ELSE /\ monitor' = [monitor EXCEPT !.subs = @ - 1]
                  /\ UNCHANGED <<intervals, refresh>>
    /\ UNCHANGED <<world, bounds>>

-----------------------------------------------------------------------------
(* The lock, its light and its commands.                                   *)

Moves(op) == /\ moves < MaxMoves /\ moves' = moves + 1
             /\ bolt' = op /\ due' = op

\* Somebody at the door.
Use == /\ \E op \in Bolt : Moves(op)
       /\ UNCHANGED <<cloud, level, conn, shown, monitor, intervals, refresh, connects, faults>>

\* The bell rings, the door is left open.
Event == /\ moves < MaxMoves /\ moves' = moves + 1 /\ due = None /\ due' = "event"
         /\ UNCHANGED <<bolt, cloud, level, conn, shown, monitor, intervals, refresh, connects,
                        faults>>

\* POST /api/lock: by the light or by the cloud the lock has moved; then the monitor
\* of the token, which may be a new one, is refreshed. If every way fails, nothing is.
Command(op) ==
    /\ Moves(op)
    /\ monitor' = [monitor EXCEPT !.exists = TRUE]
    /\ StartRefresh(FALSE)
    /\ UNCHANGED <<cloud, level, conn, shown, intervals, connects, faults>>

\* The hub writes the level, or misses the event.
HubWrites == /\ due # None /\ due' = None
             /\ \/ level' = due /\ UNCHANGED faults
                \/ Fault /\ UNCHANGED level
             /\ UNCHANGED <<bolt, cloud, conn, shown, monitor, intervals, refresh, connects, moves>>

CloudCatchesUp ==
    /\ cloud # bolt /\ cloud' = bolt
    /\ refresh' = [s \in Slots |-> IF refresh[s].at = "view"
                                   THEN [refresh[s] EXCEPT !.seen = @ \cup {bolt}] ELSE refresh[s]]
    /\ UNCHANGED <<bolt, level, due, conn, shown, monitor, intervals, bounds>>

Next == \/ \E s \in Slots : discover(s) \/ RefreshDone(s) \/ ensureStarted(s)
        \/ \E c \in Clients : Connect(c) \/ Disconnect(c)
        \/ \E op \in Bolt : Command(op)
        \/ Tick \/ Discovered \/ Use \/ Event \/ HubWrites \/ CloudCatchesUp

Spec == Init /\ [][Next]_vars

\* Calls are answered or fail, intervals tick, the hub and the cloud catch up.
FairSpec == /\ Spec
            /\ \A s \in Slots : WF_vars(discover(s)) /\ WF_vars(RefreshDone(s) \/ ensureStarted(s))
            /\ WF_vars(Discovered) /\ WF_vars(Tick) /\ WF_vars(HubWrites) /\ WF_vars(CloudCatchesUp)

-----------------------------------------------------------------------------
(* Properties.                                                             *)

\* The subscriptions that a monitor counts are the pages that are open or still
\* subscribing, and its intervals run once while there are any and not at all without,
\* however pages come and go while it starts.
PollsForPages ==
    /\ monitor.subs = Cardinality(Pages({"pending", "on", "gone"}))
    /\ intervals = IF monitor.handle THEN 1 ELSE 0
    /\ monitor.handle => monitor.subs > 0
    /\ Pages({"on"}) # {} => monitor.handle

\* A page that is left open gets to show the lock, although finding it may fail at
\* first.
Served == \A c \in Clients : conn[c] = "pending" ~> (shown[c] # None \/ conn[c] = "off")


=============================================================================
