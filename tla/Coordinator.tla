---------------------------- MODULE Coordinator ----------------------------
(***************************************************************************)
(* The Home Assistant integration's coordinator                            *)
(* (custom_components/aquara_local/coordinator.py): the status poll, the   *)
(* event poll that turns the lock's log into Home Assistant events, and    *)
(* the commands.  All of it runs in one asyncio loop: an action is what a  *)
(* coroutine does between two awaits.  Several activations of each may     *)
(* wait for the cloud at once, and may be answered in any order.           *)
(*                                                                         *)
(* The log of a lock is the number of its entries: entry n is the n-th,    *)
(* and stands for its timestamp.                                           *)
(***************************************************************************)
EXTENDS Integers, Sequences, FiniteSets

CONSTANTS
    Locks,        \* the locks of the account
    Refreshes,    \* status polls that may wait for the cloud at once
    Polls,        \* event polls that may wait for the cloud at once
    PageSize,     \* entries the cloud returns: size=8 in the event poll
    CloudCodes,   \* codes of lock_state the cloud uses
    Outcomes,     \* what the bolt may be after something happened at the lock
    MaxLog,       \* bound: entries of a lock's log
    MaxCommands,  \* bound: commands of Home Assistant
    MaxFaults,    \* bound: faults
    Faults        \* the kinds of fault that may happen

_UNLOCKED_STATES == {"0", "6"}
_LOCKED_STATES   == {"1", "4"}
Bolt  == {"locked", "open"}
Codes == _UNLOCKED_STATES \cup _LOCKED_STATES \cup {"2", "none"}

ASSUME ParametersAssumption ==
    /\ PageSize \in Nat \ {0}
    /\ CloudCodes \subseteq Codes
    /\ CloudCodes \cap _UNLOCKED_STATES # {} /\ CloudCodes \cap _LOCKED_STATES # {}
    /\ Outcomes \subseteq Bolt
    /\ {MaxLog, MaxCommands, MaxFaults} \subseteq Nat
    /\ Faults \subseteq {"fail", "auth", "empty", "jam", "restart"}

VARIABLES
    \* the lock and the cloud
    phys,       \* whether the lock is "locked" or "open"
    cloudView,  \* lock_state in the cloud
    log,        \* number of entries in the lock's log
    \* the coordinator
    phase,      \* async_setup_entry: "setup", "seeding", "running"
    data,       \* self.data: what the entities show
    seen,       \* _seen_event_ts: newest entry already handled
    refresh,    \* activations of _async_update_data
    poll,       \* activations of _async_poll_events
    cmds,       \* commands being carried out
    unlocking, locking,    \* _unlocking and _locking of the lock entities
    \* history
    fired,      \* entries fired on the bus since the integration was started
    baseline,   \* length of the log when it was started
    unseeded,   \* locks whose log could not be read for the baseline
    \* bounds
    commands, faults

cloudVars == <<phys, cloudView, log>>
entity    == <<unlocking, locking>>
history   == <<fired, baseline, unseeded>>
vars == <<cloudVars, phase, data, seen, refresh, poll, cmds, entity, history, commands, faults>>

\* LockState: the code, whether it is available, the last event's timestamp
\* (0: None) and the entry decoded as last_event (0: None).
LockState == [code : Codes, available : BOOLEAN, ts : Nat, who : Nat]
Fresh(code) == [code |-> code, available |-> TRUE, ts |-> 0, who |-> 0]
Unavailable == [code |-> "none", available |-> FALSE, ts |-> 0, who |-> 0]

\* A question to the cloud: about the state, with the codes it has held since
\* (seen); about the log, with its length when asked (low).
Idle == [at |-> "idle"]
Refresh == [at : {"state"}, lock : Locks, todo : SUBSET Locks, seen : SUBSET Codes,
            built : [Locks -> LockState]]
             \cup [at : {"history"}, lock : Locks, todo : SUBSET Locks, low : Nat,
                   built : [Locks -> LockState]]
Poll == [at : {"history"}, lock : Locks, todo : SUBSET Locks, low : Nat, seed_only : BOOLEAN]
Cmd == [id : 1..MaxCommands, lock : Locks, verb : {"unlock", "lock"},
        at : {"sent", "accepted", "refreshing"}]

TypeOK ==
    /\ phys      \in [Locks -> Bolt]
    /\ cloudView \in [Locks -> Codes]
    /\ log       \in [Locks -> Nat]
    /\ phase     \in {"setup", "seeding", "running"}
    /\ data      \in [Locks -> LockState]
    /\ seen      \in [Locks -> Nat]
    /\ refresh   \in [Refreshes -> Refresh \cup {Idle}]
    /\ poll      \in [Polls -> Poll \cup {Idle}]
    /\ cmds      \subseteq Cmd
    /\ unlocking \in [Locks -> BOOLEAN]
    /\ locking   \in [Locks -> BOOLEAN]
    /\ fired     \in [Locks -> Seq(Nat)]
    /\ baseline  \in [Locks -> Nat]
    /\ unseeded  \subseteq Locks
    /\ commands  \in 0..MaxCommands
    /\ faults    \in 0..MaxFaults

Init ==
    /\ phys = [l \in Locks |-> "locked"]
    /\ cloudView \in [Locks -> CloudCodes \cap _LOCKED_STATES]
    /\ log \in [Locks -> 0..MaxLog]
    /\ phase = "setup"
    /\ data = [l \in Locks |-> Unavailable]
    /\ seen = [l \in Locks |-> 0]
    /\ refresh = [r \in Refreshes |-> Idle]
    /\ poll = [p \in Polls |-> Idle]
    /\ cmds = {}
    /\ unlocking = [l \in Locks |-> FALSE]
    /\ locking = [l \in Locks |-> FALSE]
    /\ fired = [l \in Locks |-> <<>>]
    /\ baseline = log
    /\ unseeded = {}
    /\ commands = 0
    /\ faults = 0

Fault(kind) ==
    /\ kind \in Faults
    /\ faults < MaxFaults
    /\ faults' = faults + 1

-----------------------------------------------------------------------------
(* The status poll: _async_update_data builds a new dictionary, lock by    *)
(* lock, and installs it at the end.                                       *)

\* Go on with the next lock, or install what was built.
Ask(r, todo, built) ==
    IF todo = {}
    THEN /\ data' = built
         /\ refresh' = [refresh EXCEPT ![r] = Idle]
         /\ phase' = IF phase = "setup" THEN "seeding" ELSE phase
    ELSE /\ \E l \in todo :
              refresh' = [refresh EXCEPT ![r] =
                  [at |-> "state", lock |-> l, todo |-> todo \ {l}, seen |-> {cloudView[l]},
                   built |-> built]]
         /\ UNCHANGED <<data, phase>>

\* The interval, a request after a command, or the first refresh of the setup.
StartRefresh(r) ==
    /\ refresh[r] = Idle
    /\ phase = "setup" => \A s \in Refreshes : refresh[s] = Idle
    /\ Ask(r, Locks, [l \in Locks |-> Unavailable])
    /\ UNCHANGED <<cloudVars, seen, poll, cmds, entity, history, commands, faults>>

\* lock_resources failed: the lock is unavailable; when even the new login was
\* refused, UpdateFailed ends the poll and what was built is dropped.
RefreshState(r) ==
    /\ refresh[r].at = "state"
    /\ LET q == refresh[r]
       IN  \/ \E code \in q.seen :
                /\ refresh' = [refresh EXCEPT ![r] =
                       [at |-> "history", lock |-> q.lock, todo |-> q.todo, low |-> log[q.lock],
                        built |-> [q.built EXCEPT ![q.lock] = Fresh(code)]]]
                /\ UNCHANGED <<data, phase, faults>>
           \/ Fault("fail") /\ Ask(r, q.todo, [q.built EXCEPT ![q.lock] = Unavailable])
           \/ /\ Fault("auth")
              /\ refresh' = [refresh EXCEPT ![r] = Idle]
              /\ UNCHANGED <<data, phase>>
    /\ UNCHANGED <<cloudVars, seen, poll, cmds, entity, history, commands>>

\* Defective variant of _poll_extras: takes the entry at the other end of the page.
_poll_extras_oldest(r) ==
    /\ refresh[r].at = "history"
    /\ LET q == refresh[r]
       IN  \/ \E n \in q.low..log[q.lock] :
                /\ Ask(r, q.todo, [q.built EXCEPT ![q.lock].ts = n - PageSize + 1])
                /\ UNCHANGED faults
           \/ (\E kind \in {"fail", "empty"} : Fault(kind)) /\ Ask(r, q.todo, q.built)
    /\ UNCHANGED <<cloudVars, seen, poll, cmds, entity, history, commands>>

\* The newest entry's timestamp; without one, or on an error, it stays None.
_poll_extras(r) ==
    /\ refresh[r].at = "history"
    /\ LET q == refresh[r]
       IN  \/ \E n \in q.low..log[q.lock] :
                /\ Ask(r, q.todo, [q.built EXCEPT ![q.lock].ts = n])
                /\ UNCHANGED faults
           \/ (\E kind \in {"fail", "empty"} : Fault(kind)) /\ Ask(r, q.todo, q.built)
    /\ UNCHANGED <<cloudVars, seen, poll, cmds, entity, history, commands>>

-----------------------------------------------------------------------------
(* The event poll: _async_poll_events.                                     *)

\* Go on with the next lock; after the last one the seeding is over.
AskHistory(p, todo, seed_only) ==
    IF todo = {}
    THEN /\ poll' = [poll EXCEPT ![p] = Idle]
         /\ phase' = IF seed_only THEN "running" ELSE phase
    ELSE /\ \E l \in todo :
              poll' = [poll EXCEPT ![p] =
                  [at |-> "history", lock |-> l, todo |-> todo \ {l}, low |-> log[l],
                   seed_only |-> seed_only]]
         /\ UNCHANGED phase

\* async_start_events seeds first; the 12 s interval starts after it.
StartPoll(p) ==
    /\ poll[p] = Idle
    /\ phase = "running" \/ (phase = "seeding" /\ \A q \in Polls : poll[q] = Idle)
    /\ AskHistory(p, Locks, phase = "seeding")
    /\ UNCHANGED <<cloudVars, data, seen, refresh, cmds, entity, history, commands, faults>>

\* The oldest entry on the page that ends with entry n.
Oldest(n) == IF n > PageSize THEN n - PageSize + 1 ELSE 1

From(first, n) == [i \in 1..(n - first + 1) |-> first + i - 1]

\* Entries first..n are fresh: `told` of them is fired, the last one shown.
Take(l, first, n, told) ==
    IF first > n THEN UNCHANGED <<seen, fired, data>>
    ELSE /\ seen' = [seen EXCEPT ![l] = n]
         /\ fired' = [fired EXCEPT ![l] = @ \o told]
         /\ data' = [data EXCEPT ![l].who = n, ![l].ts = n]

\* Defective variants of Handle: takes the newest entry handled for fresh; fires
\* while it only records the baseline; fires only the newest.
Handle_notOlder(l, n, seed_only) ==
    LET first == IF seen[l] >= Oldest(n) THEN seen[l] ELSE Oldest(n)
    IN  Take(l, first, n, IF seed_only THEN <<>> ELSE From(first, n))

Handle_firesSeed(l, n, seed_only) ==
    LET first == IF seen[l] >= Oldest(n) THEN seen[l] + 1 ELSE Oldest(n)
    IN  Take(l, first, n, From(first, n))

Handle_newestOnly(l, n, seed_only) ==
    LET first == IF seen[l] >= Oldest(n) THEN seen[l] + 1 ELSE Oldest(n)
    IN  Take(l, first, n, IF seed_only THEN <<>> ELSE <<n>>)

\* The entries of the page newer than the newest one handled, oldest first.
Handle(l, n, seed_only) ==
    LET first == IF seen[l] >= Oldest(n) THEN seen[l] + 1 ELSE Oldest(n)
    IN  Take(l, first, n, IF seed_only THEN <<>> ELSE From(first, n))

\* An error, or a page without entries, leaves the lock for the next time.
PollAnswered(p) ==
    /\ poll[p] # Idle
    /\ LET q == poll[p]
       IN  /\ \/ /\ \E n \in q.low..log[q.lock] : Handle(q.lock, n, q.seed_only)
                 /\ UNCHANGED <<unseeded, faults>>
              \/ /\ \E kind \in {"fail", "auth", "empty"} : Fault(kind)
                 /\ unseeded' = IF q.seed_only THEN unseeded \cup {q.lock} ELSE unseeded
                 /\ UNCHANGED <<seen, fired, data>>
           /\ AskHistory(p, q.todo, q.seed_only)
    /\ UNCHANGED <<cloudVars, refresh, cmds, entity, baseline, commands>>

-----------------------------------------------------------------------------
(* The commands: the lock entity and _command.  Bluetooth is switched off  *)
(* (BLE_CONTROL_ENABLED), so the cloud is the only method.                 *)

Flag(l, verb, value) ==
    /\ unlocking' = IF verb = "unlock" THEN [unlocking EXCEPT ![l] = value] ELSE unlocking
    /\ locking'   = IF verb = "lock" THEN [locking EXCEPT ![l] = value] ELSE locking

\* async_unlock and async_lock
Command(l, verb) ==
    /\ phase # "setup"
    /\ commands < MaxCommands
    /\ commands' = commands + 1
    /\ cmds' = cmds \cup {[id |-> commands + 1, lock |-> l, verb |-> verb, at |-> "sent"]}
    /\ Flag(l, verb, TRUE)
    /\ UNCHANGED <<cloudVars, phase, data, seen, refresh, poll, history, faults>>

\* What the lock does when it is told to; it may log it.
Acts(l, verb) ==
    /\ phys' = [phys EXCEPT ![l] = IF verb = "unlock" THEN "open" ELSE "locked"]
    /\ \/ UNCHANGED log
       \/ log[l] < MaxLog /\ log' = [log EXCEPT ![l] = @ + 1]

CloudAccepts(c) ==
    /\ c \in cmds /\ c.at = "sent"
    /\ cmds' = (cmds \ {c}) \cup {[c EXCEPT !.at = "accepted"]}
    /\ Acts(c.lock, c.verb)
    /\ UNCHANGED <<cloudView, phase, data, seen, refresh, poll, entity, history, commands,
                   faults>>

\* Show the state the command leads to, then request a refresh.
CommandAccepted(c) ==
    /\ c \in cmds /\ c.at = "accepted"
    /\ data' = [data EXCEPT ![c.lock].code = IF c.verb = "unlock" THEN "6" ELSE "4"]
    /\ cmds' = (cmds \ {c}) \cup {[c EXCEPT !.at = "refreshing"]}
    /\ UNCHANGED <<cloudVars, phase, seen, refresh, poll, entity, history, commands, faults>>

\* Defective variant: the entity's flag is reset only when all went well.
CommandEnds_onSuccess(c) ==
    /\ c \in cmds
    /\ \/ c.at = "refreshing" /\ Flag(c.lock, c.verb, FALSE) /\ UNCHANGED <<faults, phys, log>>
       \/ c.at = "sent" /\ Fault("fail") /\ UNCHANGED <<phys, log, entity>>
    /\ cmds' = cmds \ {c}
    /\ UNCHANGED <<cloudView, phase, data, seen, refresh, poll, history, commands>>

\* The refresh was made or put off by the debouncer; or the cloud call failed,
\* with or without effect, and HomeAssistantError is raised.
CommandEnds(c) ==
    /\ c \in cmds
    /\ \/ c.at = "refreshing" /\ UNCHANGED <<faults, phys, log>>
       \/ /\ c.at = "sent"
          /\ Fault("fail") \/ Fault("auth")
          /\ Acts(c.lock, c.verb) \/ UNCHANGED <<phys, log>>
    /\ cmds' = cmds \ {c}
    /\ Flag(c.lock, c.verb, FALSE)
    /\ UNCHANGED <<cloudView, phase, data, seen, refresh, poll, history, commands>>

-----------------------------------------------------------------------------
(* Around the coordinator.                                                 *)

\* Home Assistant is restarted, or the entry set up again.
Restart ==
    /\ Fault("restart")
    /\ phase' = "setup"
    /\ data' = [l \in Locks |-> Unavailable]
    /\ seen' = [l \in Locks |-> 0]
    /\ refresh' = [r \in Refreshes |-> Idle]
    /\ poll' = [p \in Polls |-> Idle]
    /\ cmds' = {}
    /\ unlocking' = [l \in Locks |-> FALSE]
    /\ locking' = [l \in Locks |-> FALSE]
    /\ fired' = [l \in Locks |-> <<>>]
    /\ baseline' = log
    /\ unseeded' = {}
    /\ UNCHANGED <<cloudVars, commands>>

\* Somebody opens or closes the lock, and it logs the entry.
Happens(l) ==
    /\ log[l] < MaxLog
    /\ log' = [log EXCEPT ![l] = @ + 1]
    /\ \E b \in Outcomes : phys' = [phys EXCEPT ![l] = b]
    /\ UNCHANGED <<cloudView, phase, data, seen, refresh, poll, cmds, entity, history,
                   commands, faults>>

CodesOf(bolt) == IF bolt = "open" THEN _UNLOCKED_STATES ELSE _LOCKED_STATES

CloudShows(l, code) ==
    /\ cloudView' = [cloudView EXCEPT ![l] = code]
    /\ refresh' = [r \in Refreshes |->
                     IF refresh[r].at = "state" /\ refresh[r].lock = l
                     THEN [refresh[r] EXCEPT !.seen = @ \cup {code}]
                     ELSE refresh[r]]
    /\ UNCHANGED <<phys, log, phase, data, seen, poll, cmds, entity, history, commands>>

CloudCatchesUp(l) ==
    /\ cloudView[l] \notin CodesOf(phys[l])
    /\ \E code \in CloudCodes \cap CodesOf(phys[l]) : CloudShows(l, code)
    /\ UNCHANGED faults

\* For a while the cloud shows the error code.
Jam(l) == cloudView[l] # "2" /\ Fault("jam") /\ CloudShows(l, "2")

Next ==
    \/ \E r \in Refreshes : StartRefresh(r) \/ RefreshState(r) \/ _poll_extras(r)
    \/ \E p \in Polls : StartPoll(p) \/ PollAnswered(p)
    \/ \E l \in Locks : \/ \E verb \in {"unlock", "lock"} : Command(l, verb)
                        \/ Happens(l) \/ CloudCatchesUp(l) \/ Jam(l)
    \/ \E c \in cmds : CloudAccepts(c) \/ CommandAccepted(c) \/ CommandEnds(c)
    \/ Restart

Spec == Init /\ [][Next]_vars

\* The intervals go on for ever, calls are answered or time out, the loop runs
\* what can run, and the cloud's view catches up.
Fairness ==
    /\ \A r \in Refreshes : WF_vars(StartRefresh(r) \/ RefreshState(r) \/ _poll_extras(r))
    /\ \A p \in Polls : WF_vars(StartPoll(p) \/ PollAnswered(p))
    /\ WF_vars(\E c \in cmds : CloudAccepts(c) \/ CommandAccepted(c) \/ CommandEnds(c))
    /\ \A l \in Locks : WF_vars(CloudCatchesUp(l))

FairSpec == Spec /\ Fairness

-----------------------------------------------------------------------------
(* Safety.                                                                 *)

\* Whatever polls overlap and in whatever order they are answered, an entry
\* fires at most once and never after a later one (coordinator.py:217-228).
FiredOnceInOrder ==
    \A l \in Locks : \A i, j \in DOMAIN fired[l] : i < j => fired[l][i] < fired[l][j]

\* What was in the log when the integration was started does not fire, unless
\* the log could not be read for the baseline.
NoHistory ==
    \A l \in Locks \ unseeded : \A i \in DOMAIN fired[l] : fired[l][i] > baseline[l]

\* To those who listen the coordinator is an EventFeed: what is new since the start is
\* fired in order, once, and without a gap but for what has left the page; the poll that
\* records the baseline ends when every lock has one or is excused (coordinator.py:195).
Feed == INSTANCE EventFeed
            WITH Page <- PageSize, start <- baseline, noted <- seen, excused <- unseeded,
                 open <- (phase = "running"), told <- fired
IsFeed == Feed!Spec

(* Liveness.                                                               *)

\* An entry newer than what was handled fires, unless so many followed that it
\* left the page, or the integration was restarted.
NewEntryFires ==
    \A l \in Locks : \A n \in 1..MaxLog :
        (phase = "running" /\ seen[l] < n /\ n <= log[l])
            ~> ((\E i \in DOMAIN fired[l] : fired[l][i] = n) \/ n <= log[l] - PageSize \/ phase # "running")

\* In the end the last-event sensor shows the last entry of the log, and the
\* lock entity what the lock is, whatever answers crossed or were lost.
Shown(l) ==
    IF unlocking[l] \/ locking[l] THEN "none"
    ELSE IF data[l].code \in _UNLOCKED_STATES THEN "open"
    ELSE IF data[l].code \in _LOCKED_STATES THEN "locked" ELSE "none"

SensorConverges == <>[](\A l \in Locks : data[l].ts = log[l])

LockConverges == <>[](\A l \in Locks : Shown(l) = phys[l])
=============================================================================
