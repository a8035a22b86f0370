------------------------- MODULE LockMonitorProofs -------------------------
(***************************************************************************)
(* Proofs about LockMonitor, for any pages, refreshes at once and faults:  *)
(* a monitor counts its pages right and polls once while there are any.    *)
(***************************************************************************)
EXTENDS LockMonitor, FiniteSetTheorems, TLAPS

-----------------------------------------------------------------------------
(* The inductive invariant.                                                *)

Open == Pages({"pending", "on", "gone"})

\* While a monitor starts nothing is subscribed yet, and pages that wait are waiting for
\* a start.
Starting ==
    /\ monitor.handle => monitor.starting = "no"
    /\ Pages({"pending", "gone"}) # {} => monitor.starting # "no"

\* The refresh that ends the start is one, and is there only while the monitor starts.
OneFirst ==
    /\ \A s \in Slots : refresh[s].first => monitor.starting = "refresh"
    /\ \A s, q \in Slots : refresh[s].first /\ refresh[q].first => s = q

IInv == TypeOK /\ PollsForPages /\ Starting /\ OneFirst

\* Pages are finitely many.
LEMMA PagesFinite ==
  ASSUME NEW states
  PROVE  /\ IsFiniteSet(Pages(states)) /\ Cardinality(Pages(states)) \in Nat
         /\ Cardinality(Pages(states)) \in 0..Cardinality(Clients)
  <1>1. Pages(states) \in SUBSET Clients  BY DEF Pages
  <1>2. IsFiniteSet(Clients)  BY ParametersAssumption
  <1>3. IsFiniteSet(Pages(states)) /\ Cardinality(Pages(states)) <= Cardinality(Clients)
    BY <1>1, <1>2, FS_Subset
  <1>4. Cardinality(Pages(states)) \in Nat /\ Cardinality(Clients) \in Nat
    BY <1>2, <1>3, FS_CardinalityType
  <1> QED  BY <1>3, <1>4

LEMMA InitInv == Init => IInv
  <1> SUFFICES ASSUME Init PROVE IInv
    OBVIOUS
  <1>1. Open = {} /\ Pages({"on"}) = {} /\ Pages({"pending", "gone"}) = {}
    BY DEF Init, Open, Pages
  <1>2. Cardinality(Open) = 0  BY <1>1, FS_EmptySet
  <1>3. TypeOK
    <2>1. Cardinality(Clients) \in Nat  BY ParametersAssumption, FS_CardinalityType
    <2>2. NoMonitor \in Monitor  BY <2>1 DEF NoMonitor, Monitor, None
    <2>3. Free \in Refresh  BY DEF Free, Refresh
    <2> QED  BY <2>2, <2>3, ParametersAssumption DEF Init, TypeOK, Bolt
  <1>4. PollsForPages  BY <1>1, <1>2 DEF Init, PollsForPages, NoMonitor, Open
  <1>5. Starting /\ OneFirst  BY <1>1 DEF Init, Starting, OneFirst, NoMonitor, Free
  <1> QED  BY <1>3, <1>4, <1>5 DEF IInv

\* A step that leaves the pages' states, the monitor's counters and the first refresh
\* alone.
LEMMA Alone ==
  ASSUME IInv, TypeOK', UNCHANGED <<conn, intervals>>,
         monitor'.subs = monitor.subs, monitor'.handle = monitor.handle,
         monitor'.starting = monitor.starting,
         \A s \in Slots : refresh'[s].first => refresh[s].first
  PROVE  IInv'
  <1>1. \A states : Pages(states)' = Pages(states)  BY DEF Pages
  <1>2. PollsForPages'  BY <1>1 DEF IInv, PollsForPages
  <1>3. Starting' /\ OneFirst'  BY <1>1 DEF IInv, Starting, OneFirst
  <1> QED  BY <1>2, <1>3 DEF IInv

-----------------------------------------------------------------------------
(* Refreshing.                                                             *)

LEMMA FaultOK ==
  ASSUME TypeOK, UNCHANGED faults \/ Fault
  PROVE  faults' \in 0..MaxFaults
  BY ParametersAssumption DEF TypeOK, Fault

LEMMA StartRefreshOK ==
  ASSUME TypeOK, NEW first \in BOOLEAN, StartRefresh(first)
  PROVE  /\ refresh' \in [Slots -> Refresh]
         /\ ~first => \A s \in Slots : refresh'[s].first => refresh[s].first
         /\ \E s \in Slots : \A q \in Slots : refresh'[q].first => q = s \/ refresh[q].first
  <1>1. PICK s \in Slots :
           refresh' = [refresh EXCEPT ![s] =
              [at |-> IF monitor'.known THEN "view" ELSE "discover", seen |-> {cloud},
               first |-> first]]
    BY DEF StartRefresh
  <1>2. [at |-> IF monitor'.known THEN "view" ELSE "discover", seen |-> {cloud},
         first |-> first] \in Refresh
    BY DEF TypeOK, Refresh
  <1>3. refresh \in [Slots -> Refresh]  BY DEF TypeOK
  <1> QED  BY <1>1, <1>2, <1>3 DEF Refresh

LEMMA ViewOK ==
  ASSUME TypeOK, NEW s \in Slots, NEW view \in View \cup {None}, Answered(s, view)
  PROVE  (UNCHANGED faults \/ Fault) /\ refresh[s] \in Refresh
  BY DEF Answered, TypeOK

LEMMA discoverStep ==
  ASSUME IInv, NEW s \in Slots, discover(s)
  PROVE  IInv'
  <1> USE DEF IInv
  <1>1. /\ monitor' \in Monitor /\ monitor'.subs = monitor.subs
        /\ monitor'.handle = monitor.handle /\ monitor'.starting = monitor.starting
    BY DEF discover, TypeOK, Monitor
  <1>2. /\ refresh' \in [Slots -> Refresh]
        /\ \A q \in Slots : refresh'[q].first => refresh[q].first
    BY DEF discover, TypeOK, Refresh
  <1>3. faults' \in 0..MaxFaults  BY FaultOK DEF discover
  <1>4. TypeOK'  BY <1>1, <1>2, <1>3 DEF discover, TypeOK, world
  <1> QED  BY <1>1, <1>2, <1>4, Alone DEF discover

LEMMA RefreshDoneStep ==
  ASSUME IInv, NEW s \in Slots, RefreshDone(s)
  PROVE  IInv'
  <1> USE DEF IInv
  <1>1. PICK view \in View \cup {None} : RefreshDone(s)!(view)  BY DEF RefreshDone
  <1>2. /\ monitor' \in Monitor /\ monitor'.subs = monitor.subs
        /\ monitor'.handle = monitor.handle /\ monitor'.starting = monitor.starting
    BY <1>1 DEF TypeOK, Monitor
  <1>3. /\ refresh' \in [Slots -> Refresh]
        /\ \A q \in Slots : refresh'[q].first => refresh[q].first
    BY <1>1 DEF TypeOK, Refresh, Free
  <1>4. faults' \in 0..MaxFaults  BY <1>1, ViewOK, FaultOK
  <1>5. shown' \in [Clients -> View \cup {None}]  BY <1>1 DEF TypeOK
  <1>6. TypeOK'  BY <1>1, <1>2, <1>3, <1>4, <1>5 DEF TypeOK, world
  <1> QED  BY <1>1, <1>2, <1>3, <1>6, Alone

LEMMA TickStep ==
  ASSUME IInv, Tick
  PROVE  IInv'
  <1> USE DEF IInv
  <1>1. /\ refresh' \in [Slots -> Refresh]
        /\ \A s \in Slots : refresh'[s].first => refresh[s].first
    BY StartRefreshOK DEF Tick
  <1>2. TypeOK'  BY <1>1 DEF Tick, TypeOK, world, bounds
  <1> QED  BY <1>1, <1>2, Alone DEF Tick

-----------------------------------------------------------------------------
(* Subscribing.                                                            *)

\* One page more: it is subscribed at once only by a monitor that has started.
LEMMA ConnectStep ==
  ASSUME IInv, NEW c \in Clients, Connect(c)
  PROVE  IInv'
  <1> USE DEF IInv
  <1>1. /\ conn' = [conn EXCEPT ![c] = IF monitor.handle THEN "on" ELSE "pending"]
        /\ conn[c] = "off" /\ conn \in [Clients -> {"off", "pending", "on", "gone"}]
        /\ monitor \in Monitor
    BY DEF Connect, TypeOK
  <1>2. Open' = Open \cup {c} /\ c \notin Open
    BY <1>1 DEF Open, Pages
  <1>3. Cardinality(Open') = Cardinality(Open) + 1
    BY <1>2, PagesFinite, FS_AddElement DEF Open
  <1>4. Cardinality(Open') \in 0..Cardinality(Clients)
    <2>1. Open' \in SUBSET Clients  BY DEF Open, Pages
    <2>2. IsFiniteSet(Clients)  BY ParametersAssumption
    <2>3. IsFiniteSet(Open') /\ Cardinality(Open') <= Cardinality(Clients)
      BY <2>1, <2>2, FS_Subset
    <2> QED  BY <2>2, <2>3, FS_CardinalityType
  <1>5. /\ monitor'.subs = monitor.subs + 1 /\ monitor'.handle = monitor.handle
        /\ monitor'.starting = IF monitor.handle \/ monitor.starting # "no"
                               THEN monitor.starting ELSE "discover"
        /\ monitor' = [monitor EXCEPT !.exists = TRUE, !.subs = @ + 1,
                         !.starting = IF monitor.handle \/ @ # "no" THEN @ ELSE "discover"]
    BY <1>1 DEF Connect, Monitor
  <1>6. monitor.subs = Cardinality(Open) /\ Cardinality(Open) \in Nat
    BY PagesFinite DEF PollsForPages, Open
  <1>7. monitor' \in Monitor
    <2>1. monitor.subs + 1 \in 0..Cardinality(Clients)  BY <1>3, <1>4, <1>6
    <2> QED  BY <1>1, <1>5, <2>1 DEF Monitor
  <1>8. /\ shown' \in [Clients -> View \cup {None}]
        /\ UNCHANGED <<world, intervals, refresh, moves, faults>> /\ connects' \in 0..MaxConnects
    <2>1. lockView(cloud) \in View  BY DEF lockView, TypeOK, View
    <2> QED  BY <1>1, <2>1, ParametersAssumption DEF Connect, TypeOK, Monitor
  <1>9. TypeOK'  BY <1>1, <1>7, <1>8 DEF TypeOK, world
  <1>10. PollsForPages'
    BY <1>1, <1>3, <1>5, <1>6, <1>8 DEF PollsForPages, Pages, Open
  <1>11. Starting'
    BY <1>1, <1>5 DEF Starting, Pages
  <1>12. OneFirst'
    BY <1>5, <1>8 DEF OneFirst, Starting
  <1> QED  BY <1>9, <1>10, <1>11, <1>12

LEMMA DiscoveredStep ==
  ASSUME IInv, Discovered
  PROVE  IInv'
  <1> USE DEF IInv
  <1>1. /\ monitor' \in Monitor /\ monitor'.subs = monitor.subs
        /\ monitor'.handle = monitor.handle
        /\ monitor.starting = "discover" /\ monitor'.starting = "refresh"
    BY DEF Discovered, TypeOK, Monitor
  <1>2. /\ refresh' \in [Slots -> Refresh]
        /\ \E s \in Slots : \A q \in Slots : refresh'[q].first => q = s \/ refresh[q].first
    BY StartRefreshOK DEF Discovered
  <1>3. faults' \in 0..MaxFaults  BY FaultOK DEF Discovered
  <1>4. UNCHANGED <<world, conn, shown, intervals, connects, moves>>  BY DEF Discovered
  <1>5. TypeOK'  BY <1>1, <1>2, <1>3, <1>4 DEF TypeOK, world
  <1>6. PollsForPages'  BY <1>1, <1>4 DEF PollsForPages, Pages
  <1>7. Starting'  BY <1>1, <1>4 DEF Starting, Pages
  <1>8. OneFirst'  BY <1>1, <1>2 DEF OneFirst
  <1> QED  BY <1>5, <1>6, <1>7, <1>8

\* When the start ends, the pages that are still there become subscribers and those that
\* went are taken back.
LEMMA ensureStartedStep ==
  ASSUME IInv, NEW s \in Slots, ensureStarted(s)
  PROVE  IInv'
  <1> USE DEF IInv
  <1>1. PICK view \in View \cup {None} : ensureStarted(s)!(view)  BY DEF ensureStarted
  <1>2. /\ monitor.starting = "refresh" /\ ~monitor.handle /\ intervals = 0
        /\ Pages({"on"}) = {} /\ monitor \in Monitor
    BY <1>1 DEF OneFirst, Starting, PollsForPages, TypeOK, Monitor
  <1>3. /\ conn' = [c \in Clients |-> CASE conn[c] = "pending" -> "on"
                                        [] conn[c] = "gone" -> "off"
                                        [] OTHER -> conn[c]]
        /\ conn \in [Clients -> {"off", "pending", "on", "gone"}]
        /\ \A c \in Clients : conn[c] # "on"
    BY <1>1, <1>2 DEF TypeOK, Pages
  <1>4. Open' = Open \ Pages({"gone"}) /\ Open \cap Pages({"gone"}) = Pages({"gone"})
        /\ Pages({"on"})' = Open' /\ Pages({"pending", "gone"})' = {}
    BY <1>3 DEF Open, Pages
  <1>5. Cardinality(Open') = monitor.subs - TakenBack
    <2>1. Cardinality(Open \ Pages({"gone"}))
             = Cardinality(Open) - Cardinality(Open \cap Pages({"gone"}))
      BY PagesFinite, FS_Difference DEF Open
    <2> QED  BY <1>4, <2>1 DEF PollsForPages, Open, TakenBack
  <1>6. TakenBack \in Nat /\ monitor.subs \in Nat /\ IsFiniteSet(Open')
        /\ Cardinality(Open') \in 0..Cardinality(Clients)
    <2>1. TakenBack \in Nat  BY PagesFinite DEF TakenBack
    <2>2. monitor.subs \in Nat  BY PagesFinite DEF PollsForPages
    <2>3. Open' \in SUBSET Clients /\ IsFiniteSet(Clients)
      BY ParametersAssumption DEF Open, Pages
    <2>4. IsFiniteSet(Open') /\ Cardinality(Open') <= Cardinality(Clients)
      BY <2>3, FS_Subset
    <2> QED  BY <2>1, <2>2, <2>3, <2>4, FS_CardinalityType
  <1>7. /\ faults' \in 0..MaxFaults /\ UNCHANGED <<world, connects, moves>>
        /\ shown' \in [Clients -> View \cup {None}]
        /\ conn' \in [Clients -> {"off", "pending", "on", "gone"}]
    BY <1>1, <1>3, ViewOK, FaultOK DEF TypeOK
  <1>8. CASE monitor.subs = TakenBack
    <2>1. /\ monitor' = NoMonitor /\ refresh' = [q \in Slots |-> Free] /\ intervals' = 0
      BY <1>1, <1>2, <1>8
    <2>2. Cardinality(Open') = 0 /\ Open' = {}
      <3>1. Cardinality(Open') = 0  BY <1>5, <1>6, <1>8
      <3> QED  BY <1>6, <3>1, FS_EmptySet
    <2>3. TypeOK'
      <3>1. Cardinality(Clients) \in Nat  BY ParametersAssumption, FS_CardinalityType
      <3>2. NoMonitor \in Monitor /\ Free \in Refresh
        BY <3>1 DEF NoMonitor, Monitor, None, Free, Refresh
      <3> QED  BY <1>7, <2>1, <3>2 DEF TypeOK, world
    <2>4. PollsForPages'  BY <1>4, <2>1, <2>2 DEF PollsForPages, NoMonitor, Open
    <2>5. Starting' /\ OneFirst'  BY <1>4, <2>1 DEF Starting, OneFirst, NoMonitor, Free
    <2> QED  BY <2>3, <2>4, <2>5
  <1>9. CASE monitor.subs # TakenBack
    <2>1. /\ monitor' = [monitor EXCEPT !.subs = @ - TakenBack,
                                 !.snapshot = view, !.handle = TRUE, !.starting = "no"]
          /\ refresh' = [refresh EXCEPT ![s] = Free] /\ intervals' = 1
      BY <1>1, <1>2, <1>9
    <2>2. /\ monitor'.subs = Cardinality(Open') /\ monitor'.subs > 0
          /\ monitor'.handle /\ monitor'.starting = "no"
      <3>1. monitor'.subs = monitor.subs - TakenBack /\ monitor'.handle /\ monitor'.starting = "no"
        BY <1>2, <2>1 DEF Monitor
      <3> QED  BY <1>5, <1>6, <1>9, <3>1
    <2>3. TypeOK'
      <3>1. monitor' \in Monitor
        <4>1. monitor.subs - TakenBack \in 0..Cardinality(Clients)  BY <1>5, <1>6
        <4> QED  BY <1>2, <2>1, <4>1 DEF Monitor
      <3>2. Free \in Refresh  BY DEF Free, Refresh
      <3> QED  BY <1>7, <2>1, <3>1, <3>2 DEF TypeOK, world
    <2>4. PollsForPages'  BY <1>4, <2>1, <2>2 DEF PollsForPages, Open
    <2>5. \A q \in Slots : ~refresh'[q].first
      BY <1>1, <2>1 DEF OneFirst, Free, TypeOK
    <2>6. Starting' /\ OneFirst'  BY <1>4, <2>2, <2>5 DEF Starting, OneFirst
    <2> QED  BY <2>3, <2>4, <2>6
  <1> QED  BY <1>8, <1>9

\* The last page to go stops the intervals, which are those of the handle.
LEMMA DisconnectStep ==
  ASSUME IInv, NEW c \in Clients, Disconnect(c)
  PROVE  IInv'
  <1> USE DEF IInv
  <1>1. /\ shown' \in [Clients -> View \cup {None}] /\ UNCHANGED <<world, bounds>>
        /\ conn \in [Clients -> {"off", "pending", "on", "gone"}] /\ monitor \in Monitor
    BY DEF Disconnect, TypeOK
  <1>2. CASE conn[c] = "pending" /\ conn' = [conn EXCEPT ![c] = "gone"]
             /\ UNCHANGED <<monitor, intervals, refresh>>
    <2>1. Open' = Open /\ Pages({"on"})' = Pages({"on"})
          /\ Pages({"pending", "gone"})' = Pages({"pending", "gone"})
      BY <1>1, <1>2 DEF Open, Pages
    <2>2. TypeOK'  BY <1>1, <1>2 DEF TypeOK, world, bounds
    <2>3. PollsForPages' /\ Starting' /\ OneFirst'
      BY <1>2, <2>1 DEF PollsForPages, Starting, OneFirst, Open
    <2> QED  BY <2>2, <2>3
  <1>3. CASE conn[c] = "on" /\ conn' = [conn EXCEPT ![c] = "off"]
             /\ (IF monitor.subs = 1 THEN stop
                 ELSE /\ monitor' = [monitor EXCEPT !.subs = @ - 1]
                      /\ UNCHANGED <<intervals, refresh>>)
    <2>1. /\ Open' = Open \ {c} /\ c \in Open /\ c \in Pages({"on"})
          /\ Pages({"pending", "gone"})' = Pages({"pending", "gone"})
          /\ Pages({"on"})' \subseteq Pages({"on"})
          /\ Pages({"on"})' \subseteq Open' /\ Pages({"pending", "gone"})' \subseteq Open'
      BY <1>1, <1>3 DEF Open, Pages
    <2>2. Cardinality(Open') = Cardinality(Open) - 1 /\ IsFiniteSet(Open')
      BY <2>1, PagesFinite, FS_RemoveElement DEF Open
    <2>3. /\ monitor.handle /\ intervals = 1 /\ monitor.subs \in Nat /\ monitor.subs > 0
          /\ monitor.subs = Cardinality(Open) /\ monitor.starting = "no"
      BY <2>1, PagesFinite DEF PollsForPages, Starting, Open
    <2>4. conn' \in [Clients -> {"off", "pending", "on", "gone"}]  BY <1>1, <1>3
    <2>5. CASE monitor.subs = 1
      <3>1. monitor' = NoMonitor /\ refresh' = [q \in Slots |-> Free] /\ intervals' = 0
        BY <1>3, <2>3, <2>5 DEF stop
      <3>2. Cardinality(Open') = 0 /\ Open' = {}
        <4>1. Cardinality(Open') = 0  BY <2>2, <2>3, <2>5
        <4> QED  BY <2>2, <4>1, FS_EmptySet
      <3>3. TypeOK'
        <4>1. Cardinality(Clients) \in Nat  BY ParametersAssumption, FS_CardinalityType
        <4>2. NoMonitor \in Monitor /\ Free \in Refresh
          BY <4>1 DEF NoMonitor, Monitor, None, Free, Refresh
        <4> QED  BY <1>1, <2>4, <3>1, <4>2 DEF TypeOK, world, bounds
      <3>4. PollsForPages'  BY <2>1, <3>1, <3>2 DEF PollsForPages, NoMonitor, Open
      <3>5. Starting' /\ OneFirst'
        BY <2>1, <3>1, <3>2 DEF Starting, OneFirst, NoMonitor, Free
      <3> QED  BY <3>3, <3>4, <3>5
    <2>6. CASE monitor.subs # 1
      <3>1. monitor' = [monitor EXCEPT !.subs = @ - 1] /\ UNCHANGED <<intervals, refresh>>
        BY <1>3, <2>6
      <3>2. /\ monitor'.subs = monitor.subs - 1 /\ monitor'.handle = monitor.handle
            /\ monitor'.starting = monitor.starting
        BY <1>1, <3>1 DEF Monitor
      <3>3. TypeOK'
        <4>1. Cardinality(Clients) \in Nat  BY ParametersAssumption, FS_CardinalityType
        <4>2. monitor.subs \in 0..Cardinality(Clients)  BY <1>1 DEF Monitor
        <4>3. monitor.subs - 1 \in 0..Cardinality(Clients)  BY <2>3, <4>1, <4>2
        <4>4. monitor' \in Monitor  BY <1>1, <3>1, <4>3 DEF Monitor
        <4> QED  BY <1>1, <2>4, <3>1, <4>4 DEF TypeOK, world, bounds
      <3>4. PollsForPages'
        <4>1. monitor'.subs = Cardinality(Open') /\ monitor'.subs > 0
          BY <2>2, <2>3, <2>6, <3>2
        <4> QED  BY <2>3, <3>1, <3>2, <4>1 DEF PollsForPages, Open
      <3>5. Starting' /\ OneFirst'  BY <2>1, <3>1, <3>2 DEF Starting, OneFirst
      <3> QED  BY <3>3, <3>4, <3>5
    <2> QED  BY <2>5, <2>6
  <1> QED  BY <1>2, <1>3 DEF Disconnect

-----------------------------------------------------------------------------
(* The lock, its light and its commands.                                   *)

LEMMA CommandStep ==
  ASSUME IInv, NEW op \in Bolt, Command(op)
  PROVE  IInv'
  <1> USE DEF IInv
  <1>1. /\ monitor' \in Monitor /\ monitor'.subs = monitor.subs
        /\ monitor'.handle = monitor.handle /\ monitor'.starting = monitor.starting
    BY DEF Command, TypeOK, Monitor
  <1>2. /\ refresh' \in [Slots -> Refresh]
        /\ \A s \in Slots : refresh'[s].first => refresh[s].first
    BY StartRefreshOK DEF Command
  <1>3. moves' \in 0..MaxMoves  BY ParametersAssumption DEF Command, Moves, TypeOK
  <1>4. TypeOK'  BY <1>1, <1>2, <1>3 DEF Command, Moves, TypeOK
  <1> QED  BY <1>1, <1>2, <1>4, Alone DEF Command

LEMMA WorldStep ==
  ASSUME IInv, Use \/ Event \/ HubWrites \/ CloudCatchesUp
  PROVE  IInv'
  <1> USE DEF IInv
  <1>1. CASE Use
    <2>1. moves' \in 0..MaxMoves  BY <1>1, ParametersAssumption DEF Use, Moves, TypeOK
    <2>2. TypeOK'  BY <1>1, <2>1 DEF Use, Moves, TypeOK
    <2> QED  BY <1>1, <2>2, Alone DEF Use
  <1>2. CASE Event
    <2>1. moves' \in 0..MaxMoves  BY <1>2, ParametersAssumption DEF Event, TypeOK
    <2>2. TypeOK'  BY <1>2, <2>1 DEF Event, TypeOK
    <2> QED  BY <1>2, <2>2, Alone DEF Event
  <1>3. CASE HubWrites
    <2>1. faults' \in 0..MaxFaults  BY <1>3, FaultOK DEF HubWrites
    <2>2. TypeOK'  BY <1>3, <2>1 DEF HubWrites, TypeOK, None
    <2> QED  BY <1>3, <2>2, Alone DEF HubWrites
  <1>4. CASE CloudCatchesUp
    <2>1. /\ refresh' \in [Slots -> Refresh]
          /\ \A s \in Slots : refresh'[s].first => refresh[s].first
      BY <1>4 DEF CloudCatchesUp, TypeOK, Refresh
    <2>2. TypeOK'  BY <1>4, <2>1 DEF CloudCatchesUp, TypeOK, bounds
    <2> QED  BY <1>4, <2>1, <2>2, Alone DEF CloudCatchesUp
  <1> QED  BY <1>1, <1>2, <1>3, <1>4

LEMMA StutterStep == IInv /\ UNCHANGED vars => IInv'
  BY DEF IInv, TypeOK, PollsForPages, Starting, OneFirst, Pages, vars, world, bounds

LEMMA NextInv == IInv /\ [Next]_vars => IInv'
  BY discoverStep, RefreshDoneStep, ensureStartedStep, ConnectStep, DisconnectStep,
     CommandStep, TickStep, DiscoveredStep, WorldStep, StutterStep
  DEF Next

\* The state of the monitor, its refreshes and its pages is of its type.
THEOREM Types == Spec => []TypeOK
  <1>1. IInv => TypeOK  BY DEF IInv
  <1> QED  BY <1>1, InitInv, NextInv, PTL DEF Spec

\* However many pages come and go while a monitor starts, it counts them right, and polls
\* once while there are any and not at all without.
THEOREM CountsPages == Spec => []PollsForPages
  <1>1. IInv => PollsForPages  BY DEF IInv
  <1> QED  BY <1>1, InitInv, NextInv, PTL DEF Spec

=============================================================================
