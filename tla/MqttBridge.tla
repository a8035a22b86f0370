---------------------------- MODULE MqttBridge ----------------------------
(***************************************************************************)
(* The add-on's MQTT bridge to Home Assistant                              *)
(* (addon/app/lib/mqtt.server.ts): one process that publishes what it      *)
(* hears from the virtual light and from the cloud, and carries out the    *)
(* commands it receives.  Its handlers run to their next await without     *)
(* interruption, so an action is a handler up to an await, a timer         *)
(* callback, or the part of a handler that follows an await.               *)
(*                                                                         *)
(* Around it are the parts it depends on, modelled from how it uses them:  *)
(* the broker and the mqtt.js client, the lock, the hub that writes the    *)
(* light's level, and the cloud, whose view of the lock lags.              *)
(***************************************************************************)
EXTENDS LightLevels, Sequences, FiniteSets

CONSTANTS
    Locks,         \* the locks the bridge was started with
    Openings,      \* the sets of levels an opening makes the hub write; {} if missed
    DeviceEvents,  \* levels of the other events a lock may report
    Credentials,   \* levels of the credentials matterSetup registers
    Rechecks,      \* timers one unlock arms (5 in the code)
    Polls,         \* activations of the 60 s interval callback that may overlap
    Slots,         \* recheck reads of the cloud that may be in flight at once
    Commands,      \* the commands Home Assistant may send
    MaxCommands,   \* bound: commands Home Assistant sends
    MaxMoves,      \* bound: openings and events of the locks
    MaxFaults,     \* bound: faults of the network, the cloud and the process
    Faults         \* the kinds of fault that may happen

ASSUME ParametersAssumption ==
    /\ Openings \subseteq SUBSET (DOMAIN EVENT_LEVELS \cup CredentialLevels)
    /\ DeviceEvents \subseteq DOMAIN EVENT_LEVELS
    /\ Credentials \subseteq CredentialLevels
    /\ Rechecks \in Nat
    /\ Commands \subseteq {"UNLOCK", "LOCK", "ON", "OFF"}
    /\ {MaxCommands, MaxMoves, MaxFaults} \subseteq Nat
    /\ Faults \subseteq {"drop", "half", "offline", "fail", "crash"}

VARIABLES
    \* the broker
    retained,     \* retained payload of each lock's state topic
    event,        \* last payload of each lock's event topic
    away,         \* retained payload of each lock's away topic
    \* the mqtt.js client
    link,         \* "dead" (no process), "down", "up", or "half": lost but not noticed
    awayQueue,    \* away payload queued while there is no connection
    \* the bridge
    lastState,    \* lastState: the state last published, "none" before the first
    selfAction,   \* isSelfAction: within 12 s of a command of Home Assistant
    delayed,      \* labels whose 500 ms timer is running, oldest first
    rechecks,     \* number of recheck timers running for each lock
    reads,        \* reads of lock_state by the recheck timers
    poll,         \* activations of the interval callback
    calls,        \* calls the command handlers await
    online,       \* getCloud() returns a client
    dyn,          \* levels in DYNAMIC_INDEX
    \* the lock, the hub and the cloud
    phys,         \* what the bolt is
    cloudView,    \* what the cloud says the bolt is
    awayReal,     \* the away mode
    hub,          \* levels the hub's automations are about to write
    level,        \* the light's current level
    \* bounds
    commands, moves, faults,
    lossy         \* a half-open connection has happened

broker == <<retained, event, away>>
client == <<link, awayQueue>>
bridge == <<lastState, selfAction, delayed, rechecks, reads, poll, calls, online, dyn>>
world  == <<phys, cloudView, awayReal, hub, level>>
bounds == <<commands, moves, faults, lossy>>
vars   == <<broker, client, bridge, world, bounds>>

States == {"LOCKED", "UNLOCKED"}
Modes  == {"ON", "OFF"}
Paths  == {"local", "cloud", "lock", "ON", "OFF"}    \* ON, OFF: setAwayMode

Call == [id : 1..MaxCommands, lock : Locks, path : Paths,
         res : {"sent", "ok", "failed"}]

\* A question to the cloud carries what the cloud may answer: the values it has
\* held since it was asked.  "fail": no answer, "none": one of no use.
Idle == [at |-> "idle"]
Read == [at : {"state"}, lock : Locks, seen : SUBSET States]
Poll == [at : {"state"}, lock : Locks, todo : SUBSET Locks, seen : SUBSET States]
          \cup [at : {"away"}, lock : Locks, todo : SUBSET Locks, seen : SUBSET Modes]

TypeOK ==
    /\ retained   \in [Locks -> States \cup {"none"}]
    /\ event      \in [Locks -> AllLabels]
    /\ away       \in [Locks -> Modes \cup {"none"}]
    /\ link       \in {"dead", "down", "up", "half"}
    /\ awayQueue  \in [Locks -> Modes \cup {"none"}]
    /\ lastState  \in [Locks -> States \cup {"none"}]
    /\ selfAction \in [Locks -> BOOLEAN]
    /\ delayed    \in [Locks -> Seq(AllLabels)]
    /\ rechecks   \in [Locks -> Nat]
    /\ reads      \in [Slots -> Read \cup {Idle}]
    /\ poll       \in [Polls -> Poll \cup {Idle}]
    /\ calls      \subseteq Call
    /\ online     \in BOOLEAN
    /\ dyn        \subseteq CredentialLevels
    /\ phys       \in [Locks -> States]
    /\ cloudView  \in [Locks -> States]
    /\ awayReal   \in [Locks -> Modes]
    /\ hub        \subseteq Locks \X (DOMAIN EVENT_LEVELS \cup CredentialLevels)
    /\ level      \in [Locks -> {1} \cup DOMAIN EVENT_LEVELS \cup CredentialLevels]
    /\ commands \in 0..MaxCommands
    /\ moves \in 0..MaxMoves
    /\ faults \in 0..MaxFaults
    /\ lossy \in BOOLEAN

\* A started add-on: nothing published yet, the light's level as created.
Init ==
    /\ retained  = [l \in Locks |-> "none"]
    /\ event     = [l \in Locks |-> NoLabel]
    /\ away      = [l \in Locks |-> "none"]
    /\ link = "down"
    /\ awayQueue = [l \in Locks |-> "none"]
    /\ lastState = [l \in Locks |-> "none"]
    /\ selfAction = [l \in Locks |-> FALSE]
    /\ delayed  = [l \in Locks |-> <<>>]
    /\ rechecks = [l \in Locks |-> 0]
    /\ reads = [s \in Slots |-> Idle]
    /\ poll  = [p \in Polls |-> Idle]
    /\ calls = {}
    /\ online \in BOOLEAN
    /\ dyn \in {{}, Credentials}
    /\ phys = [l \in Locks |-> "LOCKED"]
    /\ cloudView = phys
    /\ awayReal = [l \in Locks |-> "OFF"]
    /\ hub = {}
    /\ level = [l \in Locks |-> 1]
    /\ commands = 0 /\ moves = 0 /\ faults = 0
    /\ lossy = FALSE

-----------------------------------------------------------------------------
(* Publishing.  The bridge publishes states and events only while          *)
(* client.connected; what it publishes on a half-open connection is lost.  *)

Connected == link \in {"up", "half"}

PublishState(l, v) ==
    retained' = IF link = "up" THEN [retained EXCEPT ![l] = v] ELSE retained

PublishEvent(l, label) ==
    event' = IF link = "up" THEN [event EXCEPT ![l] = label] ELSE event

\* mqtt.js queues what is published without a connection; the last one wins.
PublishAway(l, mode) ==
    /\ away' = IF link = "up" THEN [away EXCEPT ![l] = mode] ELSE away
    /\ awayQueue' = IF Connected THEN awayQueue ELSE [awayQueue EXCEPT ![l] = mode]

\* Defective variant of applyLockState: publishes without looking at lastState.
applyLockState_always(l, cs) ==
    IF Connected /\ cs \in States
    THEN /\ lastState' = [lastState EXCEPT ![l] = cs]
         /\ PublishState(l, cs)
         /\ IF cs = "LOCKED" /\ ~selfAction[l]
            THEN PublishEvent(l, LockedLabel)
            ELSE UNCHANGED event
    ELSE UNCHANGED <<lastState, retained, event>>

\* Set the state unless it is the one last published; announce a new LOCKED.
applyLockState(l, cs) ==
    IF Connected /\ cs \in States /\ lastState[l] # cs
    THEN /\ lastState' = [lastState EXCEPT ![l] = cs]
         /\ PublishState(l, cs)
         /\ IF cs = "LOCKED" /\ ~selfAction[l]
            THEN PublishEvent(l, LockedLabel)
            ELSE UNCHANGED event
    ELSE UNCHANGED <<lastState, retained, event>>

scheduleAutoLockRecheck(l) == rechecks' = [rechecks EXCEPT ![l] = @ + Rechecks]

\* The questions in flight that ask for `at` of lock l may now be answered v.
Noting(f, at, l, v) ==
    [i \in DOMAIN f |-> IF f[i].at = at /\ f[i].lock = l
                        THEN [f[i] EXCEPT !.seen = @ \cup {v}] ELSE f[i]]

Fault(kind) ==
    /\ kind \in Faults
    /\ faults < MaxFaults
    /\ faults' = faults + 1

-----------------------------------------------------------------------------
(* The connection.                                                         *)

\* on("connect"): the entities are announced and the queue is sent.
Connect ==
    /\ link = "down"
    /\ link' = "up"
    /\ away' = [l \in Locks |-> IF awayQueue[l] = "none" THEN away[l] ELSE awayQueue[l]]
    /\ awayQueue' = [l \in Locks |-> "none"]
    /\ UNCHANGED <<retained, event, bridge, world, bounds>>

Disconnect ==
    /\ \/ link = "up" /\ Fault("drop")
       \/ link = "half" /\ UNCHANGED faults
    /\ link' = "down"
    /\ UNCHANGED <<broker, awayQueue, bridge, world, commands, moves, lossy>>

\* The peer is gone but the client has not noticed yet.
HalfOpen ==
    /\ link = "up" /\ Fault("half")
    /\ link' = "half"
    /\ lossy' = TRUE
    /\ UNCHANGED <<broker, awayQueue, bridge, world, commands, moves>>

-----------------------------------------------------------------------------
(* Commands of Home Assistant: on("message").  They arrive over the broker *)
(* and are lost while there is no connection.                              *)

Receives(cmd) ==
    /\ link = "up"
    /\ cmd \in Commands
    /\ commands < MaxCommands /\ commands' = commands + 1

StartCalls(l, paths) ==
    calls' = calls \cup
        {[id |-> commands + 1, lock |-> l, path |-> p, res |-> "sent"] : p \in paths}

\* The part of the UNLOCK and LOCK branches that runs before the await.
ShowCommanded(l, state, label) ==
    /\ selfAction' = [selfAction EXCEPT ![l] = TRUE]
    /\ lastState' = [lastState EXCEPT ![l] = state]
    /\ PublishState(l, state)
    /\ PublishEvent(l, label)
    /\ UNCHANGED <<away, client, delayed, rechecks, reads, poll,
                   online, dyn, world, moves, faults, lossy>>

\* unlockBothPaths: the light's pulse, and the cloud when there is one.
Unlock(l) ==
    /\ Receives("UNLOCK")
    /\ StartCalls(l, IF online THEN {"local", "cloud"} ELSE {"local"})
    /\ ShowCommanded(l, "UNLOCKED", FromHomeAssistant)

\* There is no local way to lock: offline, nothing is sent.
Lock(l) ==
    /\ Receives("LOCK")
    /\ StartCalls(l, IF online THEN {"lock"} ELSE {})
    /\ ShowCommanded(l, "LOCKED", LockedByHA)

SetAway(l, mode) ==
    /\ Receives(mode)
    /\ StartCalls(l, IF online THEN {mode} ELSE {})
    /\ UNCHANGED <<broker, client, lastState, selfAction, delayed, rechecks, reads, poll,
                   online, dyn, world, moves, faults, lossy>>

AwayBecomes(l, mode) ==
    /\ awayReal' = [awayReal EXCEPT ![l] = mode]
    /\ poll' = Noting(poll, "away", l, mode)

\* What the other end does with a call. The pulse only sets the light: one that the hub
\* misses is a CallFails without effect, since the handler of UNLOCK goes on alike.
Effect(c) ==
    /\ phys' = CASE c.path \in {"local", "cloud"} -> [phys EXCEPT ![c.lock] = "UNLOCKED"]
                 [] c.path = "lock" -> [phys EXCEPT ![c.lock] = "LOCKED"]
                 [] OTHER -> phys
    /\ IF c.path \in Modes THEN AwayBecomes(c.lock, c.path) ELSE UNCHANGED <<awayReal, poll>>

Settles(c, res) ==
    /\ c \in calls /\ c.res = "sent"
    /\ calls' = (calls \ {c}) \cup {[c EXCEPT !.res = res]}
    /\ UNCHANGED <<broker, client, lastState, selfAction, delayed, rechecks, reads,
                   online, dyn, cloudView, hub, level, commands, moves, lossy>>

CallSucceeds(c) == Settles(c, "ok") /\ Effect(c) /\ UNCHANGED faults

\* A call that fails may have had its effect: only the answer is lost.
CallFails(c) ==
    /\ Settles(c, "failed") /\ Fault("fail")
    /\ Effect(c) \/ UNCHANGED <<phys, awayReal, poll>>

\* The handler goes on: an UNLOCK once both its paths have settled.
CallReturns(c) ==
    /\ c \in calls /\ c.res # "sent"
    /\ calls' = calls \ {c}
    /\ IF c.path \in {"local", "cloud"} /\ \A d \in calls \ {c} : d.id # c.id
       THEN scheduleAutoLockRecheck(c.lock)
       ELSE UNCHANGED rechecks
    /\ IF c.path \in Modes /\ c.res = "ok"
       THEN PublishAway(c.lock, c.path)
       ELSE UNCHANGED <<away, awayQueue>>
    /\ UNCHANGED <<retained, event, link, lastState, selfAction, delayed,
                   reads, poll, online, dyn, world, bounds>>

\* 12 s after the last command; the 500 ms timers armed before it have fired.
SelfActionEnds(l) ==
    /\ selfAction[l] /\ delayed[l] = <<>>
    /\ selfAction' = [selfAction EXCEPT ![l] = FALSE]
    /\ UNCHANGED <<broker, client, lastState, delayed, rechecks, reads, poll, calls, online,
                   dyn, world, bounds>>

-----------------------------------------------------------------------------
(* The virtual light: onBridgeLevelChange.                                 *)

PublishLevelState(l, new) ==
    LET state == lockStateFromLevel(new, dyn)
        v == IF state = "locked" THEN "LOCKED" ELSE "UNLOCKED"
    IN  /\ IF state \in {"locked", "unlocked"}
           THEN lastState' = [lastState EXCEPT ![l] = v] /\ PublishState(l, v)
           ELSE UNCHANGED <<lastState, retained>>
        /\ IF state = "unlocked" THEN scheduleAutoLockRecheck(l) ELSE UNCHANGED rechecks

\* An opening from outside is announced at once, who it was 500 ms later.
PublishLevelEvent(l, new) ==
    LET label == decodeLevel(new, dyn)
    IN  IF label = NoLabel \/ selfAction[l] THEN UNCHANGED <<event, delayed>>
        ELSE IF opensFromOutside(new, dyn)
        THEN /\ PublishEvent(l, OUTSIDE_GENERIC)
             /\ delayed' = [delayed EXCEPT ![l] = Append(@, label)]
        ELSE PublishEvent(l, label) /\ UNCHANGED delayed

\* Defective variant: does not look at the connection first.
onBridgeLevelChange_unconnected(l, new) ==
    /\ PublishLevelState(l, new)
    /\ PublishLevelEvent(l, new)
    /\ IF awayModeFromLevel(new) = "none"
       THEN UNCHANGED <<away, awayQueue>>
       ELSE PublishAway(l, awayModeFromLevel(new))

onBridgeLevelChange(l, new) ==
    IF ~Connected
    THEN UNCHANGED <<lastState, retained, rechecks, event, delayed, away, awayQueue>>
    ELSE /\ PublishLevelState(l, new)
         /\ PublishLevelEvent(l, new)
         /\ IF awayModeFromLevel(new) = "none"
            THEN UNCHANGED <<away, awayQueue>>
            ELSE PublishAway(l, awayModeFromLevel(new))

\* The hub writes a level; the light reports it only when it is a new one.
HubWrites(l, new) ==
    /\ link # "dead"
    /\ <<l, new>> \in hub
    /\ hub' = hub \ {<<l, new>>}
    /\ level' = [level EXCEPT ![l] = new]
    /\ IF level[l] = new
       THEN UNCHANGED <<lastState, retained, rechecks, event, delayed, away, awayQueue>>
       ELSE onBridgeLevelChange(l, new)
    /\ UNCHANGED <<link, selfAction, reads, poll, calls, online, dyn,
                   phys, cloudView, awayReal, bounds>>

\* Defective variants of PublishWho: the timer does not look at the window of
\* the own commands again; it looks at it the wrong way round.
PublishWho_unguarded(l) ==
    /\ delayed[l] # <<>>
    /\ delayed' = [delayed EXCEPT ![l] = Tail(@)]
    /\ IF Connected THEN PublishEvent(l, Head(delayed[l])) ELSE UNCHANGED event
    /\ UNCHANGED <<retained, away, client, lastState, selfAction, rechecks, reads,
                   poll, calls, online, dyn, world, bounds>>

PublishWho_inverted(l) ==
    /\ delayed[l] # <<>>
    /\ delayed' = [delayed EXCEPT ![l] = Tail(@)]
    /\ IF Connected /\ selfAction[l]
       THEN PublishEvent(l, Head(delayed[l]))
       ELSE UNCHANGED event
    /\ UNCHANGED <<retained, away, client, lastState, selfAction, rechecks, reads,
                   poll, calls, online, dyn, world, bounds>>

\* The 500 ms timer of the oldest label.
PublishWho(l) ==
    /\ delayed[l] # <<>>
    /\ delayed' = [delayed EXCEPT ![l] = Tail(@)]
    /\ IF Connected /\ ~selfAction[l]
       THEN PublishEvent(l, Head(delayed[l]))
       ELSE UNCHANGED event
    /\ UNCHANGED <<retained, away, client, lastState, selfAction, rechecks,
                   reads, poll, calls, online, dyn, world, bounds>>

-----------------------------------------------------------------------------
(* The cloud: pushCloudLockState, called by the recheck timers.            *)

FireRecheck(l) ==
    /\ rechecks[l] > 0
    /\ rechecks' = [rechecks EXCEPT ![l] = @ - 1]
    /\ IF online /\ Connected
       THEN \E s \in Slots :
              /\ reads[s] = Idle
              /\ reads' = [reads EXCEPT ![s] =
                              [at |-> "state", lock |-> l, seen |-> {cloudView[l]}]]
       ELSE UNCHANGED reads
    /\ UNCHANGED <<broker, client, lastState, selfAction, delayed, poll, calls, online, dyn,
                   world, bounds>>

\* The answer to question q.
Answer(q, ans) ==
    \/ ans \in q.seen /\ UNCHANGED faults
    \/ ans \in {"fail", "none"} /\ Fault("fail")

Answers == States \cup Modes \cup {"fail", "none"}

pushCloudLockState(s) ==
    /\ reads[s] # Idle
    /\ \E ans \in Answers : Answer(reads[s], ans) /\ applyLockState(reads[s].lock, ans)
    /\ reads' = [reads EXCEPT ![s] = Idle]
    /\ UNCHANGED <<away, client, selfAction, delayed, rechecks, poll,
                   calls, online, dyn, world, commands, moves, lossy>>

(* The interval callback: for each lock its state, then its away mode.     *)

NextLock(p, todo) ==
    IF todo = {} THEN poll' = [poll EXCEPT ![p] = Idle]
    ELSE \E l \in todo : poll' = [poll EXCEPT ![p] =
            [at |-> "state", lock |-> l, todo |-> todo \ {l}, seen |-> {cloudView[l]}]]

PollTick(p) ==
    /\ poll[p] = Idle
    /\ online /\ Connected
    /\ NextLock(p, Locks)
    /\ UNCHANGED <<broker, client, lastState, selfAction, delayed, rechecks, reads, calls,
                   online, dyn, world, bounds>>

\* Defective variants: the poll leaves the state alone; it publishes the away
\* mode only when it is on.
PollState_batteryOnly(p) ==
    /\ poll[p].at = "state"
    /\ \E ans \in Answers :
         /\ Answer(poll[p], ans)
         /\ IF ans = "fail"
            THEN NextLock(p, poll[p].todo)
            ELSE poll' = [poll EXCEPT ![p].at = "away", ![p].seen = {awayReal[poll[p].lock]}]
    /\ UNCHANGED <<broker, client, lastState, selfAction, delayed, rechecks, reads, calls,
                   online, dyn, world, commands, moves, lossy>>

PollAway_truthy(p) ==
    /\ poll[p].at = "away"
    /\ \E ans \in Answers :
         /\ Answer(poll[p], ans)
         /\ IF ans = "ON"
            THEN PublishAway(poll[p].lock, ans)
            ELSE UNCHANGED <<away, awayQueue>>
    /\ NextLock(p, poll[p].todo)
    /\ UNCHANGED <<retained, event, link, lastState, selfAction, delayed,
                   rechecks, reads, calls, online, dyn, world, commands, moves, lossy>>

PollState(p) ==
    /\ poll[p].at = "state"
    /\ \E ans \in Answers :
         /\ Answer(poll[p], ans)
         /\ applyLockState(poll[p].lock, ans)
         /\ IF ans = "fail"
            THEN NextLock(p, poll[p].todo)
            ELSE poll' = [poll EXCEPT ![p].at = "away", ![p].seen = {awayReal[poll[p].lock]}]
    /\ UNCHANGED <<away, client, selfAction, delayed, rechecks, reads,
                   calls, online, dyn, world, commands, moves, lossy>>

PollAway(p) ==
    /\ poll[p].at = "away"
    /\ \E ans \in Answers :
         /\ Answer(poll[p], ans)
         /\ IF ans \in Modes
            THEN PublishAway(poll[p].lock, ans)
            ELSE UNCHANGED <<away, awayQueue>>
    /\ NextLock(p, poll[p].todo)
    /\ UNCHANGED <<retained, event, link, lastState, selfAction, delayed,
                   rechecks, reads, calls, online, dyn, world, commands, moves, lossy>>

-----------------------------------------------------------------------------
(* The rest of the add-on: cloudLoop signs in and out and registers the    *)
(* levels of the credentials; the process may crash and is started again   *)
(* from its cache.                                                         *)

GoOnline ==
    /\ ~online /\ link # "dead"
    /\ online' = TRUE
    /\ UNCHANGED <<broker, client, lastState, selfAction, delayed, rechecks, reads, poll,
                   calls, dyn, world, bounds>>

GoOffline ==
    /\ online /\ Fault("offline")
    /\ online' = FALSE
    /\ UNCHANGED <<broker, client, lastState, selfAction, delayed, rechecks, reads, poll,
                   calls, dyn, world, commands, moves, lossy>>

RegisterLevels ==
    /\ online /\ dyn # Credentials
    /\ dyn' = Credentials
    /\ UNCHANGED <<broker, client, lastState, selfAction, delayed, rechecks, reads, poll,
                   calls, online, world, bounds>>

\* The maps, timers and awaits die with the process; the broker keeps what it has.
Crash ==
    /\ link # "dead" /\ Fault("crash")
    /\ link' = "dead"
    /\ awayQueue' = [l \in Locks |-> "none"]
    /\ lastState' = [l \in Locks |-> "none"]
    /\ selfAction' = [l \in Locks |-> FALSE]
    /\ delayed' = [l \in Locks |-> <<>>]
    /\ rechecks' = [l \in Locks |-> 0]
    /\ reads' = [s \in Slots |-> Idle]
    /\ poll' = [p \in Polls |-> Idle]
    /\ calls' = {}
    /\ online' = FALSE
    /\ UNCHANGED <<broker, dyn, world, commands, moves, lossy>>

\* startLocalFromCache: the bridge starts without the cloud.
Restart ==
    /\ link = "dead"
    /\ link' = "down"
    /\ \/ UNCHANGED level
       \/ level' = [l \in Locks |-> 1]
    /\ UNCHANGED <<broker, awayQueue, bridge, phys, cloudView, awayReal, hub, bounds>>

-----------------------------------------------------------------------------
(* The lock, the hub and the cloud.                                        *)

Move == moves < MaxMoves /\ moves' = moves + 1

\* Somebody opens the lock; the hub's automations run, or the hub misses it.
Open(l) ==
    /\ Move
    /\ phys' = [phys EXCEPT ![l] = "UNLOCKED"]
    /\ \E lvls \in Openings : hub' = hub \cup ({l} \X lvls)
    /\ UNCHANGED <<broker, client, bridge, cloudView, awayReal, level, commands, faults, lossy>>

\* The D100 locks again, often silently.
AutoLock(l) ==
    /\ phys[l] = "UNLOCKED"
    /\ phys' = [phys EXCEPT ![l] = "LOCKED"]
    /\ hub' \in {hub, hub \cup {<<l, LockedLabel>>}}
    /\ UNCHANGED <<broker, client, bridge, cloudView, awayReal, level, bounds>>

Report(l, lvl) ==
    /\ Move
    /\ hub' = hub \cup {<<l, lvl>>}
    /\ IF awayModeFromLevel(lvl) = "none"
       THEN UNCHANGED <<awayReal, poll>>
       ELSE AwayBecomes(l, awayModeFromLevel(lvl))
    /\ UNCHANGED <<broker, client, lastState, selfAction, delayed, rechecks, reads, calls,
                   online, dyn, phys, cloudView, level, commands, faults, lossy>>

CloudCatchesUp(l) ==
    /\ cloudView[l] # phys[l]
    /\ cloudView' = [cloudView EXCEPT ![l] = phys[l]]
    /\ reads' = Noting(reads, "state", l, phys[l])
    /\ poll' = Noting(poll, "state", l, phys[l])
    /\ UNCHANGED <<broker, client, lastState, selfAction, delayed, rechecks, calls, online,
                   dyn, phys, awayReal, hub, level, bounds>>

-----------------------------------------------------------------------------
Command   == \E l \in Locks : Unlock(l) \/ Lock(l) \/ (\E m \in Modes : SetAway(l, m))
Calling   == \E c \in calls : CallSucceeds(c) \/ CallFails(c) \/ CallReturns(c)
Light     == \/ \E w \in hub : HubWrites(w[1], w[2])
             \/ \E l \in Locks : PublishWho(l) \/ SelfActionEnds(l)
Cloud     == \/ \E l \in Locks : FireRecheck(l)
             \/ \E s \in Slots : pushCloudLockState(s)
             \/ \E p \in Polls : PollTick(p) \/ PollState(p) \/ PollAway(p)
Network   == Connect \/ Disconnect \/ HalfOpen
Process   == GoOnline \/ GoOffline \/ RegisterLevels \/ Crash \/ Restart
World     == \E l \in Locks : \/ Open(l) \/ AutoLock(l) \/ CloudCatchesUp(l)
                              \/ \E e \in DeviceEvents : Report(l, e)

Next == Command \/ Calling \/ Light \/ Cloud \/ Network \/ Process \/ World

Spec == Init /\ [][Next]_vars

(***************************************************************************)
(* Fairness.  Due is what must happen sooner or later: the event loop runs *)
(* timers and continuations, a call is answered or times out, mqtt.js      *)
(* reconnects every 5 s, cloudLoop signs in again every 30 s, the process  *)
(* is started again, and the cloud's view catches up.  The interval of the *)
(* poll never ends, so it has a condition of its own.  Nothing is assumed  *)
(* of people, of the hub or of the faults, whose number is bounded.        *)
(***************************************************************************)
Due == \/ Calling \/ Connect \/ (link = "half" /\ Disconnect) \/ GoOnline \/ Restart
       \/ \E l \in Locks : PublishWho(l) \/ SelfActionEnds(l) \/ FireRecheck(l)
                           \/ CloudCatchesUp(l)
       \/ \E s \in Slots : pushCloudLockState(s)

Fairness ==
    /\ WF_vars(Due)
    /\ \A p \in Polls : WF_vars(PollTick(p) \/ PollState(p) \/ PollAway(p))

FairSpec == Spec /\ Fairness

-----------------------------------------------------------------------------
(* Safety.                                                                 *)

\* While the bridge's own command is fresh, the event topic keeps the label
\* of Home Assistant: neither the light, nor a timer armed before the command,
\* nor a cloud answer replaces it (mqtt.server.ts:37-40, "do not let the
\* bridge's level overwrite the label").
LabelKept == \A l \in Locks : selfAction[l] => event[l] \in HALabels

\* lastState, which decides whether a state is published at all, is what the
\* broker retains, across disconnections, reconnections and restarts, as long
\* as no publish was lost on a half-open connection.
CacheIsRetained ==
    ~lossy => \A l \in Locks : lastState[l] # "none" => retained[l] = lastState[l]

\* applyLockState announces "Đã khóa" only when Home Assistant was not already
\* shown LOCKED, unless the bridge has published nothing since it was started
\* (mqtt.server.ts:112-119, "when it becomes LOCKED").  Level 5 is not meant
\* here: the light reports it as the event it is.
LockedAnnouncedOnce ==
    [][\A l \in Locks :
          event'[l] = LockedLabel /\ event[l] # LockedLabel /\ UNCHANGED level
            => lossy \/ lastState[l] = "none" \/ retained[l] = "UNLOCKED"]_vars

(* Liveness.                                                               *)

\* However commands fail, answers are late or lost, and the process restarts:
\* once people leave the lock alone, Home Assistant shows what the bolt is
\* (unless a publish was lost on a half-open connection).
StateConverges ==
    []~lossy => <>[](\A l \in Locks : retained[l] = phys[l])

\* The away switch ends up showing the away mode even after lost publishes,
\* crossed commands and offline queues.
AwayConverges == <>[](\A l \in Locks : away[l] = awayReal[l])

\* All that Home Assistant shows ends up right: the bolt as above, and the away
\* switch whatever else is commanded, lost or answered out of order meanwhile.
ShownConverges == StateConverges /\ AwayConverges

\* After "opened from outside" the bridge says who it was, or a later event, unless
\* the connection or the process is lost before. What else fails makes no difference
\* while the timer is armed, and it is armed unless something has failed.
WhoFollows ==
    \A l \in Locks :
        (event[l] = OUTSIDE_GENERIC /\ (delayed[l] # <<>> \/ faults = 0)) ~>
            (event[l] # OUTSIDE_GENERIC \/ link # "up")
=============================================================================
