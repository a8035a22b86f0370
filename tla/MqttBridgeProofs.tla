-------------------------- MODULE MqttBridgeProofs --------------------------
(***************************************************************************)
(* Theorems about MqttBridge, for any locks, bounds and kinds of fault.    *)
(***************************************************************************)
EXTENDS MqttBridge, TLAPS

LevelValues == DOMAIN EVENT_LEVELS \cup CredentialLevels

-----------------------------------------------------------------------------
(* The level code.                                                         *)

\* What the decoder returns for a level the hub may write is a label the event
\* sensor's type knows, and the away mode of a level is a mode or "none".
LEMMA DecodedLabels ==
    ASSUME NEW lvl \in LevelValues, NEW d \in SUBSET CredentialLevels
    PROVE  /\ decodeLevel(lvl, d) \in AllLabels
           /\ awayModeFromLevel(lvl) \in Modes \cup {"none"}
    BY DEF LevelValues, decodeLevel, levelState, awayModeFromLevel, AllLabels, Modes

\* The labels the bridge publishes on its own account.
LEMMA OwnLabels ==
    {OUTSIDE_GENERIC, FromHomeAssistant, LockedByHA, LockedLabel, NoLabel} \subseteq AllLabels
    BY DEF AllLabels, HALabels, LockedLabel, EVENT_LEVELS

-----------------------------------------------------------------------------
(* Publishing and reading keep the types.                                  *)

\* A published state is a state.
LEMMA PublishStateType ==
    ASSUME TypeOK, NEW l \in Locks, NEW v \in States, PublishState(l, v)
    PROVE  retained' \in [Locks -> States \cup {"none"}]
    BY DEF TypeOK, PublishState

\* A published event is a label.
LEMMA PublishEventType ==
    ASSUME TypeOK, NEW l \in Locks, NEW label \in AllLabels, PublishEvent(l, label)
    PROVE  event' \in [Locks -> AllLabels]
    BY DEF TypeOK, PublishEvent

\* A published away mode is a mode, sent or queued.
LEMMA PublishAwayType ==
    ASSUME TypeOK, NEW l \in Locks, NEW mode \in Modes, PublishAway(l, mode)
    PROVE  /\ away' \in [Locks -> Modes \cup {"none"}]
           /\ awayQueue' \in [Locks -> Modes \cup {"none"}]
    BY DEF TypeOK, PublishAway

\* Applying a state of the cloud keeps the types of what it publishes
\* (mqtt.server.ts:113-119).
LEMMA ApplyLockStateType ==
    ASSUME TypeOK, NEW l \in Locks, NEW cs, applyLockState(l, cs)
    PROVE  /\ lastState' \in [Locks -> States \cup {"none"}]
           /\ retained' \in [Locks -> States \cup {"none"}]
           /\ event' \in [Locks -> AllLabels]
<1>1. CASE Connected /\ cs \in States /\ lastState[l] # cs
    <2>1. lastState' \in [Locks -> States \cup {"none"}]
        BY <1>1 DEF TypeOK, applyLockState
    <2>2. retained' \in [Locks -> States \cup {"none"}]
        BY <1>1, PublishStateType DEF applyLockState
    <2>3. event' \in [Locks -> AllLabels]
        BY <1>1, PublishEventType, OwnLabels DEF applyLockState, TypeOK
    <2>4. QED BY <2>1, <2>2, <2>3
<1>2. CASE ~(Connected /\ cs \in States /\ lastState[l] # cs)
    BY <1>2 DEF TypeOK, applyLockState
<1>3. QED BY <1>1, <1>2

\* A question in flight keeps its shape when one more answer is noted.
LEMMA NotingReads ==
    ASSUME TypeOK, NEW l \in Locks, NEW v \in States
    PROVE  Noting(reads, "state", l, v) \in [Slots -> Read \cup {Idle}]
<1> SUFFICES ASSUME NEW i \in Slots
             PROVE  Noting(reads, "state", l, v)[i] \in Read \cup {Idle}
    BY DEF TypeOK, Noting
<1>1. reads[i] \in Read \cup {Idle}
    BY DEF TypeOK
<1>2. QED BY <1>1 DEF TypeOK, Noting, Read, Idle, States

\* Polls that note what the lock did meanwhile stay polls.
LEMMA NotingPoll ==
    ASSUME TypeOK, NEW l \in Locks, NEW at \in {"state", "away"},
           NEW v \in IF at = "state" THEN States ELSE Modes
    PROVE  Noting(poll, at, l, v) \in [Polls -> Poll \cup {Idle}]
<1> SUFFICES ASSUME NEW p \in Polls
             PROVE  Noting(poll, at, l, v)[p] \in Poll \cup {Idle}
    BY DEF TypeOK, Noting
<1>1. poll[p] \in Poll \cup {Idle}
    BY DEF TypeOK
<1>2. QED BY <1>1 DEF TypeOK, Noting, Poll, Idle, States, Modes

\* A poll that goes on to the next lock stays a poll.
LEMMA NextLockType ==
    ASSUME TypeOK, NEW p \in Polls, NEW todo \in SUBSET Locks, NextLock(p, todo)
    PROVE  poll' \in [Polls -> Poll \cup {Idle}]
<1>1. CASE todo = {}
    BY <1>1 DEF TypeOK, NextLock
<1>2. CASE todo # {}
    <2>1. PICK l \in todo : poll' = [poll EXCEPT ![p] =
              [at |-> "state", lock |-> l, todo |-> todo \ {l}, seen |-> {cloudView[l]}]]
        BY <1>2 DEF NextLock
    <2>2. {cloudView[l]} \in SUBSET States
        BY <2>1 DEF TypeOK
    <2>3. [at |-> "state", lock |-> l, todo |-> todo \ {l}, seen |-> {cloudView[l]}] \in Poll
        BY <2>1, <2>2 DEF Poll
    <2>4. QED BY <2>1, <2>3 DEF TypeOK
<1>3. QED BY <1>1, <1>2

-----------------------------------------------------------------------------
(* Type correctness: one lemma per action, by the parts it may disturb.    *)

\* A received command starts calls and counts within the bound.
LEMMA CommandType ==
    ASSUME TypeOK, NEW l \in Locks, NEW paths \in SUBSET Paths, NEW cmd,
           Receives(cmd), StartCalls(l, paths), ParametersAssumption
    PROVE  calls' \subseteq Call /\ commands' \in 0..MaxCommands
<1>1. MaxCommands \in Nat /\ commands' = commands + 1 /\ commands' \in 1..MaxCommands
    BY DEF TypeOK, Receives, ParametersAssumption
<1>2. ASSUME NEW p \in paths
      PROVE  [id |-> commands + 1, lock |-> l, path |-> p, res |-> "sent"] \in Call
    BY <1>1, <1>2 DEF Call
<1>3. QED BY <1>1, <1>2 DEF TypeOK, StartCalls

\* The optimistic publish of a command keeps the types (mqtt.server.ts:182-196).
LEMMA ShowCommandedType ==
    ASSUME TypeOK, NEW l \in Locks, NEW state \in States, NEW label \in AllLabels,
           calls' \subseteq Call, commands' \in 0..MaxCommands,
           ShowCommanded(l, state, label)
    PROVE  TypeOK'
<1>1. retained' \in [Locks -> States \cup {"none"}]
    BY PublishStateType DEF ShowCommanded
<1>2. event' \in [Locks -> AllLabels]
    BY PublishEventType DEF ShowCommanded
<1>3. /\ selfAction' \in [Locks -> BOOLEAN]
      /\ lastState' \in [Locks -> States \cup {"none"}]
    BY DEF ShowCommanded, TypeOK
<1>4. QED BY <1>1, <1>2, <1>3 DEF ShowCommanded, TypeOK, client, world

\* A fault counts within the bound.
LEMMA FaultType ==
    ASSUME TypeOK, NEW kind, Fault(kind), ParametersAssumption
    PROVE  faults' \in 0..MaxFaults
    BY DEF TypeOK, Fault, ParametersAssumption

\* Arming the recheck timer keeps their number a number.
LEMMA RechecksType ==
    ASSUME TypeOK, NEW l \in Locks, scheduleAutoLockRecheck(l), ParametersAssumption
    PROVE  rechecks' \in [Locks -> Nat]
    BY DEF TypeOK, scheduleAutoLockRecheck, ParametersAssumption

\* What a call does to the lock keeps the types of the lock and of those who
\* watch it.
LEMMA EffectType ==
    ASSUME TypeOK, NEW c \in Call, Effect(c)
    PROVE  /\ phys' \in [Locks -> States]
           /\ awayReal' \in [Locks -> Modes]
           /\ poll' \in [Polls -> Poll \cup {Idle}]
<1>1. c.lock \in Locks
    BY DEF Call
<1>2. phys' \in [Locks -> States]
    BY <1>1 DEF Effect, TypeOK, States
<1>3. CASE c.path \in Modes
    <2>1. awayReal' = [awayReal EXCEPT ![c.lock] = c.path]
        BY <1>3 DEF Effect, AwayBecomes
    <2>2. poll' = Noting(poll, "away", c.lock, c.path)
        BY <1>3 DEF Effect, AwayBecomes
    <2>3. poll' \in [Polls -> Poll \cup {Idle}]
        BY <1>1, <1>3, <2>2, NotingPoll
    <2>4. QED BY <1>1, <1>2, <1>3, <2>1, <2>3 DEF TypeOK
<1>4. CASE c.path \notin Modes
    BY <1>2, <1>4 DEF Effect, TypeOK
<1>5. QED BY <1>3, <1>4

\* A call that is answered stays a call.
LEMMA SettlesType ==
    ASSUME TypeOK, NEW c, NEW res \in {"ok", "failed"}, Settles(c, res)
    PROVE  c \in Call /\ calls' \subseteq Call
<1>1. c \in Call
    BY DEF TypeOK, Settles
<1>2. [c EXCEPT !.res = res] \in Call
    BY <1>1 DEF Call
<1>3. QED BY <1>1, <1>2 DEF TypeOK, Settles

\* A change of the light's level keeps the types of what it publishes
\* (mqtt.server.ts:211-238).
LEMMA LevelChangeType ==
    ASSUME TypeOK, NEW l \in Locks, NEW new \in LevelValues,
           onBridgeLevelChange(l, new), ParametersAssumption
    PROVE  /\ lastState' \in [Locks -> States \cup {"none"}]
           /\ retained' \in [Locks -> States \cup {"none"}]
           /\ rechecks' \in [Locks -> Nat]
           /\ event' \in [Locks -> AllLabels]
           /\ delayed' \in [Locks -> Seq(AllLabels)]
           /\ away' \in [Locks -> Modes \cup {"none"}]
           /\ awayQueue' \in [Locks -> Modes \cup {"none"}]
<1>1. CASE ~Connected
    BY <1>1 DEF TypeOK, onBridgeLevelChange
<1>2. CASE Connected
    <2> DEFINE state == lockStateFromLevel(new, dyn)
               v == IF state = "locked" THEN "LOCKED" ELSE "UNLOCKED"
               label == decodeLevel(new, dyn)
    <2>1. v \in States
        BY DEF States
    <2>2. PublishLevelState(l, new) /\ PublishLevelEvent(l, new)
        BY <1>2 DEF onBridgeLevelChange
    <2>3. /\ lastState' \in [Locks -> States \cup {"none"}]
          /\ retained' \in [Locks -> States \cup {"none"}]
        <3>1. CASE state \in {"locked", "unlocked"}
            <4>1. lastState' = [lastState EXCEPT ![l] = v] /\ PublishState(l, v)
                BY <2>2, <3>1 DEF PublishLevelState
            <4>2. QED BY <2>1, <4>1, PublishStateType DEF TypeOK
        <3>2. CASE state \notin {"locked", "unlocked"}
            BY <2>2, <3>2 DEF PublishLevelState, TypeOK
        <3>3. QED BY <3>1, <3>2
    <2>4. rechecks' \in [Locks -> Nat]
        BY <2>2, RechecksType DEF PublishLevelState, TypeOK
    <2>5. label \in AllLabels /\ awayModeFromLevel(new) \in Modes \cup {"none"}
        BY DecodedLabels DEF TypeOK
    <2>6. event' \in [Locks -> AllLabels] /\ delayed' \in [Locks -> Seq(AllLabels)]
        <3>1. CASE label = NoLabel \/ selfAction[l]
            BY <2>2, <3>1 DEF PublishLevelEvent, TypeOK
        <3>2. CASE ~(label = NoLabel \/ selfAction[l]) /\ opensFromOutside(new, dyn)
            <4>1. PublishEvent(l, OUTSIDE_GENERIC) /\ OUTSIDE_GENERIC \in AllLabels
                BY <2>2, <3>2, OwnLabels DEF PublishLevelEvent
            <4>2. delayed' = [delayed EXCEPT ![l] = Append(delayed[l], label)]
                BY <2>2, <3>2 DEF PublishLevelEvent
            <4>3. Append(delayed[l], label) \in Seq(AllLabels)
                BY <2>5 DEF TypeOK
            <4>4. QED BY <4>1, <4>2, <4>3, PublishEventType DEF TypeOK
        <3>3. CASE ~(label = NoLabel \/ selfAction[l]) /\ ~opensFromOutside(new, dyn)
            BY <2>2, <2>5, <3>3, PublishEventType DEF PublishLevelEvent, TypeOK
        <3>4. QED BY <3>1, <3>2, <3>3
    <2>7. /\ away' \in [Locks -> Modes \cup {"none"}]
          /\ awayQueue' \in [Locks -> Modes \cup {"none"}]
        BY <1>2, <2>5, PublishAwayType DEF onBridgeLevelChange, TypeOK
    <2>8. QED BY <2>3, <2>4, <2>6, <2>7
<1>3. QED BY <1>1, <1>2

\* UNLOCK keeps the types.
LEMMA UnlockType ==
    ASSUME TypeOK, NEW l \in Locks, Unlock(l), ParametersAssumption
    PROVE  TypeOK'
<1>1. {"local", "cloud"} \subseteq Paths /\ {"local"} \subseteq Paths
    BY DEF Paths
<1>2. calls' \subseteq Call /\ commands' \in 0..MaxCommands
    BY <1>1, CommandType DEF Unlock
<1>3. QED BY <1>2, OwnLabels, ShowCommandedType DEF Unlock, States

\* LOCK keeps the types.
LEMMA LockType ==
    ASSUME TypeOK, NEW l \in Locks, Lock(l), ParametersAssumption
    PROVE  TypeOK'
<1>1. {"lock"} \subseteq Paths
    BY DEF Paths
<1>2. calls' \subseteq Call /\ commands' \in 0..MaxCommands
    BY <1>1, CommandType DEF Lock
<1>3. QED BY <1>2, OwnLabels, ShowCommandedType DEF Lock, States

\* An away command keeps the types.
LEMMA SetAwayType ==
    ASSUME TypeOK, NEW l \in Locks, NEW mode \in Modes, SetAway(l, mode), ParametersAssumption
    PROVE  TypeOK'
<1>1. {mode} \subseteq Paths
    BY DEF Paths, Modes
<1>2. calls' \subseteq Call /\ commands' \in 0..MaxCommands
    BY <1>1, CommandType DEF SetAway
<1>3. QED BY <1>2 DEF SetAway, TypeOK, broker, client, world

\* A call that succeeds keeps the types.
LEMMA CallSucceedsType ==
    ASSUME TypeOK, NEW c, CallSucceeds(c)
    PROVE  TypeOK'
<1>1. c \in Call /\ calls' \subseteq Call
    BY SettlesType DEF CallSucceeds
<1>2. /\ phys' \in [Locks -> States] /\ awayReal' \in [Locks -> Modes]
      /\ poll' \in [Polls -> Poll \cup {Idle}]
    BY <1>1, EffectType DEF CallSucceeds
<1>3. QED BY <1>1, <1>2 DEF CallSucceeds, Settles, TypeOK, broker, client

\* A call that fails keeps the types.
LEMMA CallFailsType ==
    ASSUME TypeOK, NEW c, CallFails(c), ParametersAssumption
    PROVE  TypeOK'
<1>1. c \in Call /\ calls' \subseteq Call
    BY SettlesType DEF CallFails
<1>2. /\ phys' \in [Locks -> States] /\ awayReal' \in [Locks -> Modes]
      /\ poll' \in [Polls -> Poll \cup {Idle}]
    BY <1>1, EffectType DEF CallFails, TypeOK
<1>3. faults' \in 0..MaxFaults
    BY FaultType DEF CallFails
<1>4. QED BY <1>1, <1>2, <1>3 DEF CallFails, Settles, TypeOK, broker, client

\* What the handler does after its call keeps the types.
LEMMA CallReturnsType ==
    ASSUME TypeOK, NEW c, CallReturns(c), ParametersAssumption
    PROVE  TypeOK'
<1>1. c \in Call /\ c.lock \in Locks
    BY DEF CallReturns, TypeOK, Call
<1>2. rechecks' \in [Locks -> Nat]
    BY <1>1, RechecksType DEF CallReturns, TypeOK
<1>3. away' \in [Locks -> Modes \cup {"none"}] /\ awayQueue' \in [Locks -> Modes \cup {"none"}]
    BY <1>1, PublishAwayType DEF CallReturns, TypeOK
<1>4. QED BY <1>1, <1>2, <1>3 DEF CallReturns, TypeOK, world, bounds

\* A level written by the hub keeps the types.
LEMMA HubWritesType ==
    ASSUME TypeOK, NEW l, NEW new, HubWrites(l, new), ParametersAssumption
    PROVE  TypeOK'
<1>1. l \in Locks /\ new \in LevelValues
    BY DEF HubWrites, TypeOK, LevelValues
<1>2. hub' \subseteq hub /\ level' = [level EXCEPT ![l] = new]
    BY DEF HubWrites
<1>3. /\ lastState' \in [Locks -> States \cup {"none"}]
      /\ retained' \in [Locks -> States \cup {"none"}]
      /\ rechecks' \in [Locks -> Nat]
      /\ event' \in [Locks -> AllLabels]
      /\ delayed' \in [Locks -> Seq(AllLabels)]
      /\ away' \in [Locks -> Modes \cup {"none"}]
      /\ awayQueue' \in [Locks -> Modes \cup {"none"}]
    BY <1>1, LevelChangeType DEF HubWrites, TypeOK
<1>4. QED BY <1>1, <1>2, <1>3 DEF HubWrites, TypeOK, LevelValues, bounds

\* The delayed label keeps the types.
LEMMA PublishWhoType ==
    ASSUME TypeOK, NEW l \in Locks, PublishWho(l)
    PROVE  TypeOK'
<1>1. delayed[l] \in Seq(AllLabels) /\ delayed[l] # <<>>
    BY DEF TypeOK, PublishWho
<1>2. Head(delayed[l]) \in AllLabels /\ Tail(delayed[l]) \in Seq(AllLabels)
    BY <1>1
<1>3. event' \in [Locks -> AllLabels]
    BY <1>2, PublishEventType DEF PublishWho, TypeOK
<1>4. delayed' \in [Locks -> Seq(AllLabels)]
    BY <1>2 DEF PublishWho, TypeOK
<1>5. QED BY <1>3, <1>4 DEF PublishWho, TypeOK, client, world, bounds

\* A recheck timer that fires keeps the types.
LEMMA FireRecheckType ==
    ASSUME TypeOK, NEW l \in Locks, FireRecheck(l)
    PROVE  TypeOK'
<1>1. rechecks' \in [Locks -> Nat]
    BY DEF FireRecheck, TypeOK
<1>2. [at |-> "state", lock |-> l, seen |-> {cloudView[l]}] \in Read
    BY DEF TypeOK, Read
<1>3. reads' \in [Slots -> Read \cup {Idle}]
    BY <1>2 DEF FireRecheck, TypeOK
<1>4. QED BY <1>1, <1>3 DEF FireRecheck, TypeOK, broker, client, world, bounds

\* An answer, useless or not, counts its fault within the bound.
LEMMA AnswerType ==
    ASSUME TypeOK, NEW q, NEW ans, Answer(q, ans), ParametersAssumption
    PROVE  faults' \in 0..MaxFaults
    BY FaultType DEF Answer, TypeOK

\* The state a recheck has read keeps the types.
LEMMA PushCloudType ==
    ASSUME TypeOK, NEW s \in Slots, pushCloudLockState(s), ParametersAssumption
    PROVE  TypeOK'
<1>1. PICK ans \in Answers : Answer(reads[s], ans) /\ applyLockState(reads[s].lock, ans)
    BY DEF pushCloudLockState
<1>2. reads[s].lock \in Locks
    BY DEF pushCloudLockState, TypeOK, Read
<1>3. /\ lastState' \in [Locks -> States \cup {"none"}]
      /\ retained' \in [Locks -> States \cup {"none"}]
      /\ event' \in [Locks -> AllLabels]
    BY <1>1, <1>2, ApplyLockStateType
<1>4. faults' \in 0..MaxFaults
    BY <1>1, AnswerType
<1>5. reads' \in [Slots -> Read \cup {Idle}]
    BY DEF pushCloudLockState, TypeOK
<1>6. QED BY <1>3, <1>4, <1>5 DEF pushCloudLockState, TypeOK, client, world

\* The interval keeps the types.
LEMMA PollTickType ==
    ASSUME TypeOK, NEW p \in Polls, PollTick(p)
    PROVE  TypeOK'
<1>1. poll' \in [Polls -> Poll \cup {Idle}]
    BY NextLockType DEF PollTick
<1>2. QED BY <1>1 DEF PollTick, TypeOK, broker, client, world, bounds

\* What an activation of the interval holds while it waits.
LEMMA WaitingPoll ==
    ASSUME TypeOK, NEW p \in Polls, poll[p].at \in {"state", "away"}
    PROVE  poll[p] \in Poll /\ poll[p].lock \in Locks /\ poll[p].todo \subseteq Locks
<1>1. poll[p] # Idle
    BY DEF Idle
<1>2. poll[p] \in Poll
    BY <1>1 DEF TypeOK
<1>3. QED BY <1>2 DEF Poll

\* The state a poll has read keeps the types.
LEMMA PollStateType ==
    ASSUME TypeOK, NEW p \in Polls, PollState(p), ParametersAssumption
    PROVE  TypeOK'
<1>1. PICK ans \in Answers :
         /\ Answer(poll[p], ans)
         /\ applyLockState(poll[p].lock, ans)
         /\ IF ans = "fail"
            THEN NextLock(p, poll[p].todo)
            ELSE poll' = [poll EXCEPT ![p].at = "away", ![p].seen = {awayReal[poll[p].lock]}]
    BY DEF PollState
<1>2. poll[p] \in Poll /\ poll[p].lock \in Locks /\ poll[p].todo \subseteq Locks
    BY WaitingPoll DEF PollState
<1>3. /\ lastState' \in [Locks -> States \cup {"none"}]
      /\ retained' \in [Locks -> States \cup {"none"}]
      /\ event' \in [Locks -> AllLabels]
    BY <1>1, <1>2, ApplyLockStateType
<1>4. faults' \in 0..MaxFaults
    BY <1>1, AnswerType
<1>5. poll' \in [Polls -> Poll \cup {Idle}]
    <2>1. CASE ans = "fail"
        BY <1>1, <1>2, <2>1, NextLockType
    <2>2. CASE ans # "fail"
        <3>1. {awayReal[poll[p].lock]} \in SUBSET Modes
            BY <1>2 DEF TypeOK
        <3>2. [poll[p] EXCEPT !.at = "away", !.seen = {awayReal[poll[p].lock]}] \in Poll
            BY <1>2, <3>1 DEF Poll, PollState
        <3>3. poll' = [poll EXCEPT ![p] =
                          [poll[p] EXCEPT !.at = "away", !.seen = {awayReal[poll[p].lock]}]]
            BY <1>1, <2>2
        <3>4. QED BY <3>2, <3>3 DEF TypeOK
    <2>3. QED BY <2>1, <2>2
<1>6. QED BY <1>3, <1>4, <1>5 DEF PollState, TypeOK, client, world

\* The away mode a poll has read keeps the types.
LEMMA PollAwayType ==
    ASSUME TypeOK, NEW p \in Polls, PollAway(p), ParametersAssumption
    PROVE  TypeOK'
<1>1. PICK ans \in Answers :
         /\ Answer(poll[p], ans)
         /\ IF ans \in Modes
            THEN PublishAway(poll[p].lock, ans)
            ELSE UNCHANGED <<away, awayQueue>>
    BY DEF PollAway
<1>2. poll[p] \in Poll /\ poll[p].lock \in Locks /\ poll[p].todo \subseteq Locks
    BY WaitingPoll DEF PollAway
<1>3. away' \in [Locks -> Modes \cup {"none"}] /\ awayQueue' \in [Locks -> Modes \cup {"none"}]
    BY <1>1, <1>2, PublishAwayType DEF TypeOK
<1>4. faults' \in 0..MaxFaults
    BY <1>1, AnswerType
<1>5. poll' \in [Polls -> Poll \cup {Idle}]
    BY <1>2, NextLockType DEF PollAway
<1>6. QED BY <1>3, <1>4, <1>5 DEF PollAway, TypeOK, world

\* A connection keeps the types.
LEMMA ConnectType ==
    ASSUME TypeOK, Connect
    PROVE  TypeOK'
<1>1. away' \in [Locks -> Modes \cup {"none"}] /\ awayQueue' \in [Locks -> Modes \cup {"none"}]
    BY DEF Connect, TypeOK
<1>2. QED BY <1>1 DEF Connect, TypeOK, bridge, world, bounds

\* The loss of the connection, noticed or not, keeps the types.
LEMMA NetworkType ==
    ASSUME TypeOK, Disconnect \/ HalfOpen, ParametersAssumption
    PROVE  TypeOK'
<1>1. faults' \in 0..MaxFaults
    BY FaultType DEF Disconnect, HalfOpen, TypeOK
<1>2. QED BY <1>1 DEF Disconnect, HalfOpen, TypeOK, broker, bridge, world

\* The end of the window of an own command keeps the types.
LEMMA SelfActionEndsType ==
    ASSUME TypeOK, NEW l \in Locks, SelfActionEnds(l)
    PROVE  TypeOK'
    BY DEF SelfActionEnds, TypeOK, broker, client, world, bounds

\* Sign-in, sign-out, crash and restart keep the types.
LEMMA ProcessType ==
    ASSUME TypeOK, Process, ParametersAssumption
    PROVE  TypeOK'
<1>1. CASE GoOnline \/ RegisterLevels
    BY <1>1 DEF GoOnline, RegisterLevels, ParametersAssumption, TypeOK,
                broker, client, world, bounds
<1>2. CASE GoOffline
    <2>1. faults' \in 0..MaxFaults
        BY <1>2, FaultType DEF GoOffline
    <2>2. QED BY <1>2, <2>1 DEF GoOffline, TypeOK, broker, client, world
<1>3. CASE Crash
    <2>1. faults' \in 0..MaxFaults
        BY <1>3, FaultType DEF Crash
    <2>2. delayed' \in [Locks -> Seq(AllLabels)]
        BY <1>3 DEF Crash
    <2>3. reads' \in [Slots -> Read \cup {Idle}] /\ poll' \in [Polls -> Poll \cup {Idle}]
        BY <1>3 DEF Crash
    <2>4. QED BY <1>3, <2>1, <2>2, <2>3 DEF Crash, TypeOK, broker, world
<1>4. CASE Restart
    BY <1>4 DEF Restart, TypeOK, broker, bridge, bounds
<1>5. QED BY <1>1, <1>2, <1>3, <1>4 DEF Process

\* Somebody opening the lock keeps the types.
LEMMA OpenType ==
    ASSUME TypeOK, NEW l \in Locks, Open(l), ParametersAssumption
    PROVE  TypeOK'
<1>1. PICK lvls \in Openings : hub' = hub \cup ({l} \X lvls)
    BY DEF Open
<1>2. hub' \subseteq Locks \X (DOMAIN EVENT_LEVELS \cup CredentialLevels)
    BY <1>1 DEF ParametersAssumption, TypeOK
<1>3. moves' \in 0..MaxMoves
    BY DEF Open, Move, TypeOK, ParametersAssumption
<1>4. phys' \in [Locks -> States]
    BY DEF Open, TypeOK, States
<1>5. QED BY <1>2, <1>3, <1>4 DEF Open, TypeOK, broker, client, bridge

\* The lock locking itself keeps the types.
LEMMA AutoLockType ==
    ASSUME TypeOK, NEW l \in Locks, AutoLock(l)
    PROVE  TypeOK'
<1>1. <<l, LockedLabel>> \in Locks \X (DOMAIN EVENT_LEVELS \cup CredentialLevels)
    BY DEF LockedLabel, EVENT_LEVELS
<1>2. hub' \subseteq Locks \X (DOMAIN EVENT_LEVELS \cup CredentialLevels)
    BY <1>1 DEF AutoLock, TypeOK
<1>3. phys' \in [Locks -> States]
    BY DEF AutoLock, TypeOK, States
<1>4. QED BY <1>2, <1>3 DEF AutoLock, TypeOK, broker, client, bridge, bounds

\* Another event of the lock keeps the types.
LEMMA ReportType ==
    ASSUME TypeOK, NEW l \in Locks, NEW lvl \in DeviceEvents, Report(l, lvl),
           ParametersAssumption
    PROVE  TypeOK'
<1>1. lvl \in LevelValues
    BY DEF ParametersAssumption, LevelValues
<1>2. hub' \subseteq Locks \X (DOMAIN EVENT_LEVELS \cup CredentialLevels)
    BY <1>1 DEF Report, TypeOK, LevelValues
<1>3. moves' \in 0..MaxMoves
    BY DEF Report, Move, TypeOK, ParametersAssumption
<1>4. awayReal' \in [Locks -> Modes] /\ poll' \in [Polls -> Poll \cup {Idle}]
    <2>1. CASE awayModeFromLevel(lvl) = "none"
        BY <2>1 DEF Report, TypeOK
    <2>2. CASE awayModeFromLevel(lvl) # "none"
        <3>1. awayModeFromLevel(lvl) \in Modes
            BY <2>2 DEF awayModeFromLevel, Modes
        <3>2. AwayBecomes(l, awayModeFromLevel(lvl))
            BY <2>2 DEF Report
        <3>3. QED BY <3>1, <3>2, NotingPoll DEF AwayBecomes, TypeOK
    <2>3. QED BY <2>1, <2>2
<1>5. QED BY <1>2, <1>3, <1>4 DEF Report, TypeOK, broker, client

\* The cloud catching up keeps the types.
LEMMA CloudCatchesUpType ==
    ASSUME TypeOK, NEW l \in Locks, CloudCatchesUp(l)
    PROVE  TypeOK'
<1>1. phys[l] \in States
    BY DEF TypeOK
<1>2. reads' \in [Slots -> Read \cup {Idle}] /\ poll' \in [Polls -> Poll \cup {Idle}]
    BY <1>1, NotingReads, NotingPoll DEF CloudCatchesUp
<1>3. QED BY <1>1, <1>2 DEF CloudCatchesUp, TypeOK, broker, client, bounds

-----------------------------------------------------------------------------
\* The first state is typed.
LEMMA InitType ==
    ASSUME Init, ParametersAssumption
    PROVE  TypeOK
<1>1. delayed \in [Locks -> Seq(AllLabels)]
    BY DEF Init
<1>2. event \in [Locks -> AllLabels]
    BY OwnLabels DEF Init
<1>3. phys \in [Locks -> States] /\ cloudView \in [Locks -> States]
    BY DEF Init, States
<1>4. awayReal \in [Locks -> Modes]
    BY DEF Init, Modes
<1>5. /\ hub \subseteq Locks \X (DOMAIN EVENT_LEVELS \cup CredentialLevels)
      /\ level \in [Locks -> {1} \cup DOMAIN EVENT_LEVELS \cup CredentialLevels]
      /\ dyn \subseteq CredentialLevels
    BY DEF Init, ParametersAssumption
<1>6. commands \in 0..MaxCommands /\ moves \in 0..MaxMoves /\ faults \in 0..MaxFaults
    BY DEF Init, ParametersAssumption
<1>7. /\ reads \in [Slots -> Read \cup {Idle}] /\ poll \in [Polls -> Poll \cup {Idle}]
      /\ rechecks \in [Locks -> Nat] /\ calls \subseteq Call
    BY DEF Init
<1>8. QED BY <1>1, <1>2, <1>3, <1>4, <1>5, <1>6, <1>7 DEF Init, TypeOK

\* Every step keeps the types.
LEMMA StepType ==
    ASSUME TypeOK, [Next]_vars, ParametersAssumption
    PROVE  TypeOK'
<1>1. CASE Command
    BY <1>1, UnlockType, LockType, SetAwayType DEF Command
<1>2. CASE Calling
    BY <1>2, CallSucceedsType, CallFailsType, CallReturnsType DEF Calling
<1>3. CASE Light
    BY <1>3, HubWritesType, PublishWhoType, SelfActionEndsType DEF Light
<1>4. CASE Cloud
    BY <1>4, FireRecheckType, PushCloudType, PollTickType, PollStateType, PollAwayType
       DEF Cloud
<1>5. CASE Network
    BY <1>5, ConnectType, NetworkType DEF Network
<1>6. CASE Process
    BY <1>6, ProcessType
<1>7. CASE World
    BY <1>7, OpenType, AutoLockType, ReportType, CloudCatchesUpType DEF World
<1>8. CASE UNCHANGED vars
    BY <1>8 DEF TypeOK, vars, broker, client, bridge, world, bounds
<1>9. QED BY <1>1, <1>2, <1>3, <1>4, <1>5, <1>6, <1>7, <1>8 DEF Next

\* Every variable keeps its type, whatever locks, levels and faults there are.
THEOREM TypeCorrect == Spec => []TypeOK
<1>1. Init => TypeOK
    BY InitType, ParametersAssumption
<1>2. TypeOK /\ [Next]_vars => TypeOK'
    BY StepType, ParametersAssumption
<1>3. QED BY <1>1, <1>2, PTL DEF Spec

-----------------------------------------------------------------------------
(* Safety.  The inductive invariant adds to the two invariants the runs    *)
(* check where a publish can be lost, and what a 500 ms timer can announce *)
(* (never a locking, so that only applyLockState and level 5 do).          *)

HalfIsLossy == link = "half" => lossy

DelayedIsOpening == \A l \in Locks : delayed[l] \in Seq(AllLabels \ {LockedLabel})

IInv == TypeOK /\ LabelKept /\ CacheIsRetained /\ HalfIsLossy /\ DelayedIsOpening

\* The first state satisfies the invariant.
LEMMA InitInv ==
    ASSUME Init, ParametersAssumption
    PROVE  IInv
<1>1. TypeOK
    BY InitType, ParametersAssumption
<1>2. LabelKept /\ CacheIsRetained /\ HalfIsLossy
    BY DEF Init, LabelKept, CacheIsRetained, HalfIsLossy
<1>3. DelayedIsOpening
    BY DEF Init, DelayedIsOpening
<1>4. QED BY <1>1, <1>2, <1>3 DEF IInv

\* A step that leaves what the invariant reads as it is keeps it.
LEMMA QuietStep ==
    ASSUME IInv, TypeOK', UNCHANGED <<event, selfAction, lastState, retained, delayed, lossy>>,
           link' # "half" \/ link' = link
    PROVE  IInv'
    BY DEF IInv, LabelKept, CacheIsRetained, HalfIsLossy, DelayedIsOpening

\* A command of Home Assistant is published before it is remembered.
LEMMA CommandInv ==
    ASSUME IInv, TypeOK', NEW l \in Locks, NEW state \in States, NEW label \in HALabels,
           link = "up", ShowCommanded(l, state, label)
    PROVE  IInv'
<1> USE DEF ShowCommanded, IInv
<1>1. event' = [event EXCEPT ![l] = label] /\ retained' = [retained EXCEPT ![l] = state]
    BY DEF PublishEvent, PublishState
<1>2. LabelKept'
    BY <1>1 DEF LabelKept, TypeOK
<1>3. CacheIsRetained'
    BY <1>1 DEF CacheIsRetained, TypeOK
<1>4. HalfIsLossy' /\ DelayedIsOpening'
    BY DEF HalfIsLossy, DelayedIsOpening, client
<1>5. QED BY <1>2, <1>3, <1>4

\* What is published on a connection that is up is remembered as published.
LEMMA CachedPublish ==
    ASSUME IInv, NEW l \in Locks, NEW v \in States, Connected,
           lastState' = [lastState EXCEPT ![l] = v], PublishState(l, v), UNCHANGED lossy
    PROVE  CacheIsRetained'
<1>1. CASE link = "up"
    BY <1>1 DEF PublishState, CacheIsRetained, IInv, TypeOK
<1>2. CASE link = "half"
    BY <1>2 DEF HalfIsLossy, CacheIsRetained, IInv
<1>3. QED BY <1>1, <1>2 DEF Connected

\* An event is published only outside the window of the own commands.
LEMMA GuardedEvent ==
    ASSUME IInv, NEW l \in Locks, NEW label, ~selfAction[l], PublishEvent(l, label),
           UNCHANGED selfAction
    PROVE  LabelKept'
    BY DEF PublishEvent, LabelKept, IInv, TypeOK

\* Applying a state of the cloud keeps the invariant: the label is guarded by
\* the window, the cache follows the publish.
LEMMA ApplyInv ==
    ASSUME IInv, TypeOK', NEW l \in Locks, NEW cs, applyLockState(l, cs),
           UNCHANGED <<selfAction, delayed, link, lossy>>
    PROVE  IInv'
<1>1. HalfIsLossy' /\ DelayedIsOpening'
    BY DEF HalfIsLossy, DelayedIsOpening, IInv
<1>2. CASE Connected /\ cs \in States /\ lastState[l] # cs
    <2>1. CacheIsRetained'
        BY <1>2, CachedPublish DEF applyLockState
    <2>2. CASE cs = "LOCKED" /\ ~selfAction[l]
        BY <1>1, <1>2, <2>1, <2>2, GuardedEvent DEF applyLockState, IInv
    <2>3. CASE ~(cs = "LOCKED" /\ ~selfAction[l])
        <3>1. UNCHANGED event
            BY <1>2, <2>3 DEF applyLockState
        <3>2. QED BY <1>1, <2>1, <3>1 DEF LabelKept, IInv
    <2>4. QED BY <2>2, <2>3
<1>3. CASE ~(Connected /\ cs \in States /\ lastState[l] # cs)
    BY <1>3, QuietStep DEF applyLockState
<1>4. QED BY <1>2, <1>3

\* Only the label of an opening from outside waits for a timer.
LEMMA OutsideLabels ==
    ASSUME NEW lvl \in LevelValues, NEW d \in SUBSET CredentialLevels, opensFromOutside(lvl, d)
    PROVE  decodeLevel(lvl, d) \in AllLabels \ {LockedLabel}
    BY DecodedLabels DEF opensFromOutside, decodeLevel, levelState, EVENT_LEVELS, LockedLabel,
       LevelValues, AllLabels, NoLabel, CredentialLevels

\* A level of the light keeps the invariant.
LEMMA LevelChangeInv ==
    ASSUME IInv, TypeOK', NEW l \in Locks, NEW new \in LevelValues,
           onBridgeLevelChange(l, new), UNCHANGED <<selfAction, link, lossy>>
    PROVE  IInv'
<1>1. CASE ~Connected
    BY <1>1, QuietStep DEF onBridgeLevelChange
<1>2. CASE Connected
    <2> DEFINE state == lockStateFromLevel(new, dyn)
               v == IF state = "locked" THEN "LOCKED" ELSE "UNLOCKED"
               label == decodeLevel(new, dyn)
    <2>1. PublishLevelState(l, new) /\ PublishLevelEvent(l, new)
        BY <1>2 DEF onBridgeLevelChange
    <2>2. CacheIsRetained'
        <3>1. CASE state \in {"locked", "unlocked"}
            <4>1. lastState' = [lastState EXCEPT ![l] = v] /\ PublishState(l, v) /\ v \in States
                BY <2>1, <3>1 DEF PublishLevelState, States
            <4>2. QED BY <1>2, <4>1, CachedPublish
        <3>2. CASE state \notin {"locked", "unlocked"}
            BY <2>1, <3>2 DEF PublishLevelState, CacheIsRetained, IInv
        <3>3. QED BY <3>1, <3>2
    <2>3. LabelKept' /\ DelayedIsOpening'
        <3>1. CASE label = NoLabel \/ selfAction[l]
            BY <2>1, <3>1 DEF PublishLevelEvent, LabelKept, DelayedIsOpening, IInv
        <3>2. CASE ~(label = NoLabel \/ selfAction[l]) /\ opensFromOutside(new, dyn)
            <4>1. PublishEvent(l, OUTSIDE_GENERIC)
                BY <2>1, <3>2 DEF PublishLevelEvent
            <4>2. delayed' = [delayed EXCEPT ![l] = Append(delayed[l], label)]
                BY <2>1, <3>2 DEF PublishLevelEvent
            <4>3. label \in AllLabels \ {LockedLabel}
                BY <3>2, OutsideLabels DEF IInv, TypeOK
            <4>4. delayed[l] \in Seq(AllLabels \ {LockedLabel})
                BY DEF IInv, DelayedIsOpening
            <4>5. Append(delayed[l], label) \in Seq(AllLabels \ {LockedLabel})
                BY <4>3, <4>4
            <4>6. DelayedIsOpening'
                BY <4>2, <4>5 DEF IInv, DelayedIsOpening, TypeOK
            <4>7. LabelKept'
                BY <3>2, <4>1, GuardedEvent
            <4>8. QED BY <4>6, <4>7
        <3>3. CASE ~(label = NoLabel \/ selfAction[l]) /\ ~opensFromOutside(new, dyn)
            BY <2>1, <3>3, GuardedEvent DEF PublishLevelEvent, DelayedIsOpening, IInv
        <3>4. QED BY <3>1, <3>2, <3>3
    <2>4. QED BY <2>2, <2>3 DEF HalfIsLossy, IInv
<1>3. QED BY <1>1, <1>2

\* The delayed label keeps the invariant: the timer looks at the window again.
LEMMA PublishWhoInv ==
    ASSUME IInv, TypeOK', NEW l \in Locks, PublishWho(l)
    PROVE  IInv'
<1>1. delayed[l] \in Seq(AllLabels \ {LockedLabel}) /\ delayed[l] # <<>>
    BY DEF PublishWho, IInv, DelayedIsOpening
<1>2. Tail(delayed[l]) \in Seq(AllLabels \ {LockedLabel})
    BY <1>1
<1>3. DelayedIsOpening'
    BY <1>2 DEF PublishWho, DelayedIsOpening, IInv, TypeOK
<1>4. LabelKept'
    <2>1. CASE Connected /\ ~selfAction[l]
        BY <2>1, GuardedEvent DEF PublishWho
    <2>2. CASE ~(Connected /\ ~selfAction[l])
        BY <2>2 DEF PublishWho, LabelKept, IInv
    <2>3. QED BY <2>1, <2>2
<1>5. CacheIsRetained' /\ HalfIsLossy'
    BY DEF PublishWho, CacheIsRetained, HalfIsLossy, IInv, client, bounds
<1>6. QED BY <1>3, <1>4, <1>5 DEF IInv

\* A crash keeps the invariant: the window and the cache are gone.
LEMMA CrashInv ==
    ASSUME IInv, TypeOK', Crash
    PROVE  IInv'
<1>1. DelayedIsOpening'
    BY DEF Crash, DelayedIsOpening
<1>2. LabelKept' /\ CacheIsRetained' /\ HalfIsLossy'
    BY DEF Crash, LabelKept, CacheIsRetained, HalfIsLossy
<1>3. QED BY <1>1, <1>2 DEF IInv

\* Every step keeps the invariant.
LEMMA StepInv ==
    ASSUME IInv, [Next]_vars, ParametersAssumption
    PROVE  IInv'
<1>1. TypeOK'
    BY StepType DEF IInv
<1>2. CASE Command
    <2>1. ASSUME NEW l \in Locks, Unlock(l)
          PROVE  IInv'
        BY <1>1, <2>1, CommandInv DEF Unlock, Receives, States, HALabels
    <2>2. ASSUME NEW l \in Locks, Lock(l)
          PROVE  IInv'
        BY <1>1, <2>2, CommandInv DEF Lock, Receives, States, HALabels
    <2>3. ASSUME NEW l \in Locks, NEW m \in Modes, SetAway(l, m)
          PROVE  IInv'
        BY <1>1, <2>3, QuietStep DEF SetAway, broker, client
    <2>4. QED BY <1>2, <2>1, <2>2, <2>3 DEF Command
<1>3. CASE Calling
    BY <1>1, <1>3, QuietStep
       DEF Calling, CallSucceeds, CallFails, CallReturns, Settles, broker, client, bounds
<1>4. CASE Light
    <2>1. ASSUME NEW l, NEW new, HubWrites(l, new)
          PROVE  IInv'
        <3>1. l \in Locks /\ new \in LevelValues
            BY <2>1 DEF HubWrites, IInv, TypeOK, LevelValues
        <3>2. CASE level[l] = new
            BY <1>1, <2>1, <3>2, QuietStep DEF HubWrites, bounds
        <3>3. CASE level[l] # new
            BY <1>1, <2>1, <3>1, <3>3, LevelChangeInv DEF HubWrites, bounds
        <3>4. QED BY <3>2, <3>3
    <2>2. ASSUME NEW l \in Locks, SelfActionEnds(l)
          PROVE  IInv'
        BY <1>1, <2>2
           DEF SelfActionEnds, IInv, TypeOK, LabelKept, CacheIsRetained, HalfIsLossy,
               DelayedIsOpening, broker, client, bounds
    <2>3. QED BY <1>1, <1>4, <2>1, <2>2, PublishWhoInv DEF Light
<1>5. CASE Cloud
    <2>1. ASSUME NEW l \in Locks, FireRecheck(l)
          PROVE  IInv'
        BY <1>1, <2>1, QuietStep DEF FireRecheck, broker, client, bounds
    <2>2. ASSUME NEW s \in Slots, pushCloudLockState(s)
          PROVE  IInv'
        <3>1. reads[s].lock \in Locks
            BY <2>2 DEF pushCloudLockState, IInv, TypeOK, Read
        <3>2. QED BY <1>1, <2>2, <3>1, ApplyInv DEF pushCloudLockState, client
    <2>3. ASSUME NEW p \in Polls, PollTick(p) \/ PollAway(p)
          PROVE  IInv'
        BY <1>1, <2>3, QuietStep DEF PollTick, PollAway, broker, client, bounds
    <2>4. ASSUME NEW p \in Polls, PollState(p)
          PROVE  IInv'
        <3>1. poll[p].lock \in Locks
            BY <2>4, WaitingPoll DEF PollState, IInv
        <3>2. QED BY <1>1, <2>4, <3>1, ApplyInv DEF PollState, client
    <2>5. QED BY <1>5, <2>1, <2>2, <2>3, <2>4 DEF Cloud
<1>6. CASE Network
    <2>1. CASE Connect \/ Disconnect
        BY <1>1, <2>1, QuietStep DEF Connect, Disconnect, broker, bridge, bounds
    <2>2. CASE HalfOpen
        BY <1>1, <2>2 DEF HalfOpen, IInv, LabelKept, CacheIsRetained, HalfIsLossy,
                          DelayedIsOpening, broker, bridge
    <2>3. QED BY <1>6, <2>1, <2>2 DEF Network
<1>7. CASE Process
    <2>1. CASE GoOnline \/ GoOffline \/ RegisterLevels \/ Restart
        BY <1>1, <2>1, QuietStep
           DEF GoOnline, GoOffline, RegisterLevels, Restart, broker, client, bridge, bounds
    <2>2. QED BY <1>1, <1>7, <2>1, CrashInv DEF Process
<1>8. CASE World
    BY <1>1, <1>8, QuietStep
       DEF World, Open, AutoLock, Report, CloudCatchesUp, broker, client, bridge, bounds
<1>9. CASE UNCHANGED vars
    BY <1>1, <1>9, QuietStep DEF vars, broker, client, bridge, bounds
<1>10. QED BY <1>2, <1>3, <1>4, <1>5, <1>6, <1>7, <1>8, <1>9 DEF Next

\* The strengthened invariant holds in every state: labels, cache, half-open
\* connections and armed timers agree.
THEOREM Invariance == Spec => []IInv
<1>1. Init => IInv
    BY InitInv, ParametersAssumption
<1>2. IInv /\ [Next]_vars => IInv'
    BY StepInv, ParametersAssumption
<1>3. QED BY <1>1, <1>2, PTL DEF Spec

\* For 12 s after a command of Home Assistant its label stays on the event
\* topic, whatever the light, the timers and the cloud do meanwhile.
THEOREM LabelStaysFresh == Spec => []LabelKept
<1>1. IInv => LabelKept
    BY DEF IInv
<1>2. QED BY <1>1, Invariance, PTL

\* The state the bridge remembers as published is the one the broker retains,
\* as long as no publish was lost on a half-open connection.
THEOREM CacheAgrees == Spec => []CacheIsRetained
<1>1. IInv => CacheIsRetained
    BY DEF IInv
<1>2. QED BY <1>1, Invariance, PTL

-----------------------------------------------------------------------------
(* When "Đã khóa" is announced.                                            *)

\* One step of the property below, as an action.
AnnouncesOnce ==
    \A l \in Locks :
        event'[l] = LockedLabel /\ event[l] # LockedLabel /\ UNCHANGED level
            => lossy \/ lastState[l] = "none" \/ retained[l] = "UNLOCKED"

\* The label of a locking is none of Home Assistant's and not the generic one.
LEMMA OwnLabelsDiffer ==
    LockedLabel \notin HALabels \cup {OUTSIDE_GENERIC}
    BY DEF LockedLabel, HALabels, FromHomeAssistant, LockedByHA, OUTSIDE_GENERIC

\* Applying a state of the cloud announces a locking only when it was not shown.
LEMMA ApplyAnnounces ==
    ASSUME IInv, NEW k \in Locks, NEW cs, applyLockState(k, cs)
    PROVE  AnnouncesOnce
<1> SUFFICES ASSUME NEW l \in Locks, event'[l] = LockedLabel, event[l] # LockedLabel
             PROVE  lossy \/ lastState[l] = "none" \/ retained[l] = "UNLOCKED"
    BY DEF AnnouncesOnce
<1>1. event' # event
    OBVIOUS
<1>2. /\ cs = "LOCKED" /\ lastState[k] # cs
      /\ PublishEvent(k, LockedLabel)
    BY <1>1 DEF applyLockState
<1>3. l = k
    BY <1>2 DEF PublishEvent, IInv, TypeOK
<1>4. lastState[l] \in {"none", "UNLOCKED"}
    BY <1>2, <1>3 DEF IInv, TypeOK, States
<1>5. QED BY <1>4 DEF IInv, CacheIsRetained

\* Every step announces a locking only when it was not shown.
LEMMA StepAnnounces ==
    ASSUME IInv, [Next]_vars
    PROVE  AnnouncesOnce
<1>1. CASE UNCHANGED event
    BY <1>1 DEF AnnouncesOnce
<1>2. ASSUME NEW k \in Locks, Unlock(k) \/ Lock(k)
      PROVE  AnnouncesOnce
    BY <1>2, OwnLabelsDiffer
       DEF Unlock, Lock, ShowCommanded, PublishEvent, AnnouncesOnce, HALabels, IInv, TypeOK
<1>3. ASSUME NEW k, NEW new, HubWrites(k, new)
      PROVE  AnnouncesOnce
    <2>1. CASE level[k] = new
        BY <1>1, <1>3, <2>1 DEF HubWrites
    <2>2. CASE level[k] # new
        <3>1. level' # level
            BY <1>3, <2>2 DEF HubWrites, IInv, TypeOK
        <3>2. QED BY <3>1 DEF AnnouncesOnce
    <2>3. QED BY <2>1, <2>2
<1>4. ASSUME NEW k \in Locks, PublishWho(k)
      PROVE  AnnouncesOnce
    <2>1. Head(delayed[k]) # LockedLabel
        <3>1. delayed[k] \in Seq(AllLabels \ {LockedLabel}) /\ delayed[k] # <<>>
            BY <1>4 DEF PublishWho, IInv, DelayedIsOpening
        <3>2. QED BY <3>1
    <2>2. QED BY <1>4, <2>1 DEF PublishWho, PublishEvent, AnnouncesOnce, IInv, TypeOK
<1>5. ASSUME NEW s \in Slots, pushCloudLockState(s)
      PROVE  AnnouncesOnce
    <2>1. reads[s].lock \in Locks
        BY <1>5 DEF pushCloudLockState, IInv, TypeOK, Read
    <2>2. QED BY <1>5, <2>1, ApplyAnnounces DEF pushCloudLockState
<1>6. ASSUME NEW p \in Polls, PollState(p)
      PROVE  AnnouncesOnce
    <2>1. poll[p].lock \in Locks
        BY <1>6, WaitingPoll DEF PollState, IInv
    <2>2. QED BY <1>6, <2>1, ApplyAnnounces DEF PollState
<1>7. CASE Command
    BY <1>1, <1>2, <1>7 DEF Command, SetAway, broker
<1>8. CASE Calling
    BY <1>1, <1>8 DEF Calling, CallSucceeds, CallFails, CallReturns, Settles, broker
<1>9. CASE Light
    BY <1>1, <1>3, <1>4, <1>9 DEF Light, SelfActionEnds, broker
<1>10. CASE Cloud
    BY <1>1, <1>5, <1>6, <1>10 DEF Cloud, FireRecheck, PollTick, PollAway, broker
<1>11. CASE Network
    BY <1>1, <1>11 DEF Network, Connect, Disconnect, HalfOpen, broker
<1>12. CASE Process
    BY <1>1, <1>12 DEF Process, GoOnline, GoOffline, RegisterLevels, Crash, Restart, broker
<1>13. CASE World
    BY <1>1, <1>13 DEF World, Open, AutoLock, Report, CloudCatchesUp, broker
<1>14. CASE UNCHANGED vars
    BY <1>1, <1>14 DEF vars, broker
<1>15. QED BY <1>7, <1>8, <1>9, <1>10, <1>11, <1>12, <1>13, <1>14 DEF Next

\* applyLockState announces a locking only when Home Assistant was shown
\* UNLOCKED, or nothing yet since the start.
THEOREM AnnouncedOnce == Spec => LockedAnnouncedOnce
<1>1. IInv /\ [Next]_vars => [AnnouncesOnce]_vars
    BY StepAnnounces
<1>2. Spec => [][AnnouncesOnce]_vars
    BY <1>1, Invariance, PTL DEF Spec
<1>3. QED BY <1>2 DEF LockedAnnouncedOnce, AnnouncesOnce

=============================================================================
