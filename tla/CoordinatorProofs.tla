------------------------- MODULE CoordinatorProofs -------------------------
(***************************************************************************)
(* Theorems about Coordinator, for any locks, polls, page size and faults. *)
(***************************************************************************)
EXTENDS Coordinator, SequenceTheorems, TLAPS

-----------------------------------------------------------------------------
(* The entries a poll takes.                                               *)

\* The entries from a place of the log on are a sequence of numbers.
LEMMA FromIsSeq ==
    ASSUME NEW first \in Nat, NEW n \in Nat, first <= n
    PROVE  /\ From(first, n) \in Seq(Nat)
           /\ Len(From(first, n)) = n - first + 1
           /\ \A i \in 1..(n - first + 1) : From(first, n)[i] = first + i - 1
    BY DEF From

\* The page of a log of n entries starts with an entry, and ends with the n-th.
LEMMA OldestBounds ==
    ASSUME NEW n \in Nat, ParametersAssumption
    PROVE  Oldest(n) \in Nat /\ Oldest(n) >= 1 /\ (n >= 1 => Oldest(n) <= n)
    BY DEF Oldest, ParametersAssumption

\* Entries newer than all that was fired keep the order when they are appended.
LEMMA AppendedInOrder ==
    ASSUME NEW s \in Seq(Nat), NEW m \in Nat, NEW first \in Nat, NEW n \in Nat,
           \A i, j \in DOMAIN s : i < j => s[i] < s[j],
           \A i \in DOMAIN s : s[i] <= m,
           m < first, first <= n
    PROVE  LET t == s \o From(first, n)
           IN  /\ t \in Seq(Nat)
               /\ \A i, j \in DOMAIN t : i < j => t[i] < t[j]
               /\ \A i \in DOMAIN t : t[i] <= n
               /\ \A i \in DOMAIN t : (i \in DOMAIN s /\ t[i] = s[i]) \/ t[i] >= first
<1> DEFINE f == From(first, n)
           t == s \o f
           a == Len(s)
           b == n - first + 1
<1>1. f \in Seq(Nat) /\ Len(f) = b /\ \A i \in 1..b : f[i] = first + i - 1
    BY FromIsSeq
<1>2. a \in Nat /\ DOMAIN s = 1..a /\ \A i \in 1..a : s[i] \in Nat
    BY LenProperties
<1> HIDE DEF f
<1>3. /\ t \in Seq(Nat) /\ Len(t) = a + b
      /\ \A i \in 1..(a + b) : t[i] = IF i <= a THEN s[i] ELSE f[i - a]
    <2>1. /\ s \o f \in Seq(Nat) /\ Len(s \o f) = Len(s) + Len(f)
          /\ \A i \in 1..(Len(s) + Len(f)) :
                (s \o f)[i] = IF i <= Len(s) THEN s[i] ELSE f[i - Len(s)]
        BY <1>1, ConcatProperties, Zenon
    <2>2. Len(f) = b
        BY <1>1
    <2>3. QED BY <2>1, <2>2, Zenon
<1>4. DOMAIN t = 1..(a + b)
    BY <1>3, LenProperties
<1>5. b \in Nat /\ b >= 1
    OBVIOUS
<1> HIDE DEF t, a, b
<1>6. ASSUME NEW i \in 1..(a + b)
      PROVE  /\ i <= a => i \in 1..a /\ t[i] = s[i] /\ t[i] \in Nat
             /\ i > a => i - a \in 1..b /\ t[i] = first + (i - a) - 1
    BY <1>1, <1>2, <1>3, <1>5
<1>7. ASSUME NEW i \in 1..(a + b), NEW j \in 1..(a + b), i < j
      PROVE  t[i] < t[j]
    <2>1. CASE j <= a
        BY <1>2, <1>6, <1>7, <2>1
    <2>2. CASE i > a
        BY <1>2, <1>5, <1>6, <1>7, <2>2
    <2>3. CASE i <= a /\ j > a
        <3>1. t[i] \in Nat /\ t[i] <= m
            BY <1>2, <1>6, <2>3
        <3>2. j - a \in 1..b /\ t[j] = first + (j - a) - 1
            BY <1>6, <2>3
        <3>3. t[j] \in Nat /\ t[j] >= first
            BY <1>2, <1>5, <3>2
        <3>4. QED BY <3>1, <3>3
    <2>4. QED BY <1>2, <1>5, <2>1, <2>2, <2>3
<1>8. ASSUME NEW i \in 1..(a + b)
      PROVE  t[i] <= n /\ ((i \in DOMAIN s /\ t[i] = s[i]) \/ t[i] >= first)
    <2>1. CASE i <= a
        BY <1>2, <1>6, <2>1
    <2>2. CASE i > a
        BY <1>2, <1>5, <1>6, <2>2 DEF b
    <2>3. QED BY <1>2, <2>1, <2>2
<1>9. QED BY <1>3, <1>4, <1>7, <1>8 DEF f, t

-----------------------------------------------------------------------------
(* Type correctness.                                                       *)

\* A new state and the unavailable one are states of a lock.
LEMMA StatesTyped ==
    /\ Unavailable \in LockState
    /\ \A code \in Codes : Fresh(code) \in LockState
    BY DEF Unavailable, Fresh, LockState, Codes

\* A fault counts within the bound.
LEMMA FaultType ==
    ASSUME TypeOK, NEW kind, Fault(kind), ParametersAssumption
    PROVE  faults' \in 0..MaxFaults
    BY DEF TypeOK, Fault, ParametersAssumption

\* What a status poll waits for, by the question it asked.
LEMMA WaitingRefresh ==
    ASSUME TypeOK, NEW r \in Refreshes, refresh[r].at \in {"state", "history"}
    PROVE  /\ refresh[r] \in Refresh
           /\ refresh[r].lock \in Locks /\ refresh[r].todo \subseteq Locks
           /\ refresh[r].built \in [Locks -> LockState]
           /\ refresh[r].at = "state" => refresh[r].seen \subseteq Codes
           /\ refresh[r].at = "history" => refresh[r].low \in Nat
<1>1. refresh[r] # Idle
    BY DEF Idle
<1>2. refresh[r] \in Refresh
    BY <1>1 DEF TypeOK
<1>3. QED BY <1>2 DEF Refresh

\* A poll that waits knows its lock and the locks that follow.
LEMMA WaitingPoll ==
    ASSUME TypeOK, NEW p \in Polls, poll[p] # Idle
    PROVE  /\ poll[p] \in Poll
           /\ poll[p].lock \in Locks /\ poll[p].todo \subseteq Locks
           /\ poll[p].low \in Nat /\ poll[p].seed_only \in BOOLEAN
<1>1. poll[p] \in Poll
    BY DEF TypeOK
<1>2. QED BY <1>1 DEF Poll

\* A status poll that asks for the next lock, or ends, keeps its type
\* (coordinator.py:131-159).
LEMMA AskType ==
    ASSUME TypeOK, NEW r \in Refreshes, NEW todo \in SUBSET Locks,
           NEW built \in [Locks -> LockState], Ask(r, todo, built)
    PROVE  /\ data' \in [Locks -> LockState]
           /\ refresh' \in [Refreshes -> Refresh \cup {Idle}]
           /\ phase' \in {"setup", "seeding", "running"}
<1>1. CASE todo = {}
    BY <1>1 DEF Ask, TypeOK
<1>2. CASE todo # {}
    <2>1. PICK l \in todo : refresh' = [refresh EXCEPT ![r] =
              [at |-> "state", lock |-> l, todo |-> todo \ {l}, seen |-> {cloudView[l]},
               built |-> built]]
        BY <1>2 DEF Ask
    <2>2. {cloudView[l]} \in SUBSET Codes
        BY <2>1 DEF TypeOK
    <2>3. [at |-> "state", lock |-> l, todo |-> todo \ {l}, seen |-> {cloudView[l]},
           built |-> built] \in Refresh
        BY <2>1, <2>2 DEF Refresh
    <2>4. QED BY <1>2, <2>1, <2>3 DEF Ask, TypeOK
<1>3. QED BY <1>1, <1>2

\* Starting a status poll keeps the types.
LEMMA StartRefreshType ==
    ASSUME TypeOK, NEW r \in Refreshes, StartRefresh(r)
    PROVE  TypeOK'
<1>1. [l \in Locks |-> Unavailable] \in [Locks -> LockState]
    BY StatesTyped
<1>2. /\ data' \in [Locks -> LockState]
      /\ refresh' \in [Refreshes -> Refresh \cup {Idle}]
      /\ phase' \in {"setup", "seeding", "running"}
    BY <1>1, AskType DEF StartRefresh
<1>3. QED BY <1>2 DEF StartRefresh, TypeOK, cloudVars, entity, history

\* The state a status poll has read keeps the types.
LEMMA RefreshStateType ==
    ASSUME TypeOK, NEW r \in Refreshes, RefreshState(r), ParametersAssumption
    PROVE  TypeOK'
<1> DEFINE q == refresh[r]
<1>1. /\ q.lock \in Locks /\ q.todo \subseteq Locks /\ q.seen \subseteq Codes
      /\ q.built \in [Locks -> LockState]
    BY WaitingRefresh DEF RefreshState
<1>2. /\ data' \in [Locks -> LockState]
      /\ refresh' \in [Refreshes -> Refresh \cup {Idle}]
      /\ phase' \in {"setup", "seeding", "running"}
      /\ faults' \in 0..MaxFaults
    <2>1. ASSUME NEW code \in q.seen,
                 refresh' = [refresh EXCEPT ![r] =
                     [at |-> "history", lock |-> q.lock, todo |-> q.todo, low |-> log[q.lock],
                      built |-> [q.built EXCEPT ![q.lock] = Fresh(code)]]],
                 UNCHANGED <<data, phase, faults>>
          PROVE  <1>2!1 /\ <1>2!2 /\ <1>2!3 /\ <1>2!4
        <3>1. Fresh(code) \in LockState
            BY <1>1, StatesTyped
        <3>2. [q.built EXCEPT ![q.lock] = Fresh(code)] \in [Locks -> LockState]
            BY <1>1, <3>1
        <3>3. log[q.lock] \in Nat
            BY <1>1 DEF TypeOK
        <3>4. [at |-> "history", lock |-> q.lock, todo |-> q.todo, low |-> log[q.lock],
               built |-> [q.built EXCEPT ![q.lock] = Fresh(code)]] \in Refresh
            BY <1>1, <3>2, <3>3 DEF Refresh
        <3>5. QED BY <2>1, <3>4 DEF TypeOK
    <2>2. ASSUME Fault("fail"), Ask(r, q.todo, [q.built EXCEPT ![q.lock] = Unavailable])
          PROVE  <1>2!1 /\ <1>2!2 /\ <1>2!3 /\ <1>2!4
        <3>1. [q.built EXCEPT ![q.lock] = Unavailable] \in [Locks -> LockState]
            BY <1>1, StatesTyped
        <3>2. QED BY <1>1, <2>2, <3>1, AskType, FaultType
    <2>3. ASSUME Fault("auth"), refresh' = [refresh EXCEPT ![r] = Idle], UNCHANGED <<data, phase>>
          PROVE  <1>2!1 /\ <1>2!2 /\ <1>2!3 /\ <1>2!4
        BY <2>3, FaultType DEF TypeOK
    <2>4. QED BY <2>1, <2>2, <2>3 DEF RefreshState
<1>3. QED BY <1>2 DEF RefreshState, TypeOK, cloudVars, entity, history

\* The newest entry a status poll has read keeps the types.
LEMMA PollExtrasType ==
    ASSUME TypeOK, NEW r \in Refreshes, _poll_extras(r), ParametersAssumption
    PROVE  TypeOK'
<1> DEFINE q == refresh[r]
<1>1. /\ q.lock \in Locks /\ q.todo \subseteq Locks /\ q.low \in Nat
      /\ q.built \in [Locks -> LockState]
    BY WaitingRefresh DEF _poll_extras
<1>2. ASSUME NEW n \in q.low..log[q.lock]
      PROVE  [q.built EXCEPT ![q.lock].ts = n] \in [Locks -> LockState]
    <2>1. n \in Nat
        BY <1>1 DEF TypeOK
    <2>2. [q.built[q.lock] EXCEPT !.ts = n] \in LockState
        BY <1>1, <2>1 DEF LockState
    <2>3. QED BY <1>1, <2>2
<1>3. /\ data' \in [Locks -> LockState]
      /\ refresh' \in [Refreshes -> Refresh \cup {Idle}]
      /\ phase' \in {"setup", "seeding", "running"}
      /\ faults' \in 0..MaxFaults
    BY <1>1, <1>2, AskType, FaultType DEF _poll_extras, TypeOK
<1>4. QED BY <1>3 DEF _poll_extras, TypeOK, cloudVars, entity, history

\* An event poll that asks for the next lock, or ends, keeps its type.
LEMMA AskHistoryType ==
    ASSUME TypeOK, NEW p \in Polls, NEW todo \in SUBSET Locks, NEW seed_only \in BOOLEAN,
           AskHistory(p, todo, seed_only)
    PROVE  /\ poll' \in [Polls -> Poll \cup {Idle}]
           /\ phase' \in {"setup", "seeding", "running"}
<1>1. CASE todo = {}
    BY <1>1 DEF AskHistory, TypeOK
<1>2. CASE todo # {}
    <2>1. PICK l \in todo : poll' = [poll EXCEPT ![p] =
              [at |-> "history", lock |-> l, todo |-> todo \ {l}, low |-> log[l],
               seed_only |-> seed_only]]
        BY <1>2 DEF AskHistory
    <2>2. [at |-> "history", lock |-> l, todo |-> todo \ {l}, low |-> log[l],
           seed_only |-> seed_only] \in Poll
        BY <2>1 DEF Poll, TypeOK
    <2>3. QED BY <1>2, <2>1, <2>2 DEF AskHistory, TypeOK
<1>3. QED BY <1>1, <1>2

\* Handling a page of the log keeps the types of what fires and is shown
\* (coordinator.py:215-251).
LEMMA HandleType ==
    ASSUME TypeOK, NEW l \in Locks, NEW n \in Nat, NEW seed_only \in BOOLEAN,
           Handle(l, n, seed_only), ParametersAssumption
    PROVE  /\ seen' \in [Locks -> Nat]
           /\ fired' \in [Locks -> Seq(Nat)]
           /\ data' \in [Locks -> LockState]
<1> DEFINE first == IF seen[l] >= Oldest(n) THEN seen[l] + 1 ELSE Oldest(n)
           told == IF seed_only THEN <<>> ELSE From(first, n)
<1>1. first \in Nat
    <2>1. seen[l] \in Nat /\ Oldest(n) \in Nat
        BY OldestBounds DEF TypeOK
    <2>2. QED BY <2>1
<1>2. Take(l, first, n, told)
    BY DEF Handle
<1>3. CASE first > n
    BY <1>2, <1>3 DEF Take, TypeOK
<1>4. CASE first <= n
    <2>1. told \in Seq(Nat)
        <3>1. <<>> \in Seq(Nat)
            OBVIOUS
        <3>2. From(first, n) \in Seq(Nat)
            BY <1>1, <1>4, FromIsSeq
        <3>3. QED BY <3>1, <3>2
    <2> HIDE DEF told, first
    <2>2. /\ seen' = [seen EXCEPT ![l] = n]
          /\ fired' = [fired EXCEPT ![l] = fired[l] \o told]
          /\ data' = [data EXCEPT ![l].who = n, ![l].ts = n]
        BY <1>1, <1>2, <1>4 DEF Take
    <2>3. fired[l] \o told \in Seq(Nat)
        BY <2>1, ConcatProperties DEF TypeOK
    <2>4. [data[l] EXCEPT !.who = n, !.ts = n] \in LockState
        <3>1. data[l] \in LockState
            BY DEF TypeOK
        <3>2. QED BY <3>1 DEF LockState
    <2>5. data' = [data EXCEPT ![l] = [data[l] EXCEPT !.who = n, !.ts = n]]
        BY <2>2
    <2>6. QED BY <2>2, <2>3, <2>4, <2>5 DEF TypeOK
<1>5. QED BY <1>1, <1>3, <1>4

\* Starting an event poll keeps the types.
LEMMA StartPollType ==
    ASSUME TypeOK, NEW p \in Polls, StartPoll(p)
    PROVE  TypeOK'
<1>1. /\ poll' \in [Polls -> Poll \cup {Idle}]
      /\ phase' \in {"setup", "seeding", "running"}
    BY AskHistoryType DEF StartPoll
<1>2. QED BY <1>1 DEF StartPoll, TypeOK, cloudVars, entity, history

\* The answer to an event poll keeps the types.
LEMMA PollAnsweredType ==
    ASSUME TypeOK, NEW p \in Polls, PollAnswered(p), ParametersAssumption
    PROVE  TypeOK'
<1> DEFINE q == poll[p]
<1>1. q.lock \in Locks /\ q.todo \subseteq Locks /\ q.low \in Nat /\ q.seed_only \in BOOLEAN
    BY WaitingPoll DEF PollAnswered
<1>2. poll' \in [Polls -> Poll \cup {Idle}] /\ phase' \in {"setup", "seeding", "running"}
    BY <1>1, AskHistoryType DEF PollAnswered
<1>3. /\ seen' \in [Locks -> Nat] /\ fired' \in [Locks -> Seq(Nat)]
      /\ data' \in [Locks -> LockState] /\ unseeded' \subseteq Locks /\ faults' \in 0..MaxFaults
    <2>1. ASSUME NEW n \in q.low..log[q.lock], Handle(q.lock, n, q.seed_only),
                 UNCHANGED <<unseeded, faults>>
          PROVE  <1>3
        <3>1. n \in Nat
            BY <1>1 DEF TypeOK
        <3>2. QED BY <1>1, <2>1, <3>1, HandleType DEF TypeOK
    <2>2. ASSUME NEW kind, Fault(kind),
                 unseeded' = IF q.seed_only THEN unseeded \cup {q.lock} ELSE unseeded,
                 UNCHANGED <<seen, fired, data>>
          PROVE  <1>3
        BY <1>1, <2>2, FaultType DEF TypeOK
    <2>3. QED BY <2>1, <2>2 DEF PollAnswered
<1>4. QED BY <1>2, <1>3 DEF PollAnswered, TypeOK, cloudVars, entity, history

\* The flag of a command is a flag.
LEMMA FlagType ==
    ASSUME TypeOK, NEW l \in Locks, NEW verb, NEW value \in BOOLEAN, Flag(l, verb, value)
    PROVE  unlocking' \in [Locks -> BOOLEAN] /\ locking' \in [Locks -> BOOLEAN]
    BY DEF Flag, TypeOK

\* What a command does to the lock keeps the types.
LEMMA ActsType ==
    ASSUME TypeOK, NEW l \in Locks, NEW verb, Acts(l, verb)
    PROVE  phys' \in [Locks -> Bolt] /\ log' \in [Locks -> Nat]
<1>1. phys' \in [Locks -> Bolt]
    BY DEF Acts, TypeOK, Bolt
<1>2. log[l] + 1 \in Nat
    BY DEF TypeOK
<1>3. log' \in [Locks -> Nat]
    BY <1>2 DEF Acts, TypeOK
<1>4. QED BY <1>1, <1>3

\* A command keeps the types.
LEMMA CommandType ==
    ASSUME TypeOK, NEW l \in Locks, NEW verb \in {"unlock", "lock"}, Command(l, verb),
           ParametersAssumption
    PROVE  TypeOK'
<1>1. commands' = commands + 1 /\ commands + 1 \in 1..MaxCommands /\ commands' \in 0..MaxCommands
    BY DEF Command, TypeOK, ParametersAssumption
<1>2. [id |-> commands + 1, lock |-> l, verb |-> verb, at |-> "sent"] \in Cmd
    BY <1>1 DEF Cmd
<1>3. cmds' \subseteq Cmd
    BY <1>2 DEF Command, TypeOK
<1>4. unlocking' \in [Locks -> BOOLEAN] /\ locking' \in [Locks -> BOOLEAN]
    BY FlagType DEF Command
<1>5. QED BY <1>1, <1>3, <1>4 DEF Command, TypeOK, cloudVars, history

\* The cloud carrying a command out keeps the types.
LEMMA CloudAcceptsType ==
    ASSUME TypeOK, NEW c \in cmds, CloudAccepts(c)
    PROVE  TypeOK'
<1>1. c \in Cmd /\ c.lock \in Locks
    BY DEF TypeOK, Cmd
<1>2. phys' \in [Locks -> Bolt] /\ log' \in [Locks -> Nat]
    BY <1>1, ActsType DEF CloudAccepts
<1>3. [c EXCEPT !.at = "accepted"] \in Cmd
    BY <1>1 DEF Cmd
<1>4. QED BY <1>2, <1>3 DEF CloudAccepts, TypeOK, entity, history

\* The answer to a command keeps the types.
LEMMA CommandAcceptedType ==
    ASSUME TypeOK, NEW c \in cmds, CommandAccepted(c)
    PROVE  TypeOK'
<1>1. c \in Cmd /\ c.lock \in Locks
    BY DEF TypeOK, Cmd
<1>2. [c EXCEPT !.at = "refreshing"] \in Cmd
    BY <1>1 DEF Cmd
<1>3. [data[c.lock] EXCEPT !.code = IF c.verb = "unlock" THEN "6" ELSE "4"] \in LockState
    <2>1. data[c.lock] \in LockState
        BY <1>1 DEF TypeOK
    <2>2. (IF c.verb = "unlock" THEN "6" ELSE "4") \in Codes
        BY DEF Codes, _UNLOCKED_STATES, _LOCKED_STATES
    <2>3. QED BY <2>1, <2>2 DEF LockState
<1>4. data' \in [Locks -> LockState]
    BY <1>1, <1>3 DEF CommandAccepted, TypeOK
<1>5. QED BY <1>2, <1>4 DEF CommandAccepted, TypeOK, cloudVars, entity, history

\* The end of a command keeps the types.
LEMMA CommandEndsType ==
    ASSUME TypeOK, NEW c \in cmds, CommandEnds(c), ParametersAssumption
    PROVE  TypeOK'
<1>1. c.lock \in Locks
    BY DEF TypeOK, Cmd
<1>2. phys' \in [Locks -> Bolt] /\ log' \in [Locks -> Nat]
    BY <1>1, ActsType DEF CommandEnds, TypeOK
<1>3. unlocking' \in [Locks -> BOOLEAN] /\ locking' \in [Locks -> BOOLEAN]
    BY <1>1, FlagType DEF CommandEnds
<1>4. faults' \in 0..MaxFaults
    BY FaultType DEF CommandEnds, TypeOK
<1>5. QED BY <1>2, <1>3, <1>4 DEF CommandEnds, TypeOK, history

\* A restart of the integration keeps the types.
LEMMA RestartType ==
    ASSUME TypeOK, Restart, ParametersAssumption
    PROVE  TypeOK'
<1>1. data' \in [Locks -> LockState]
    BY StatesTyped DEF Restart
<1>2. faults' \in 0..MaxFaults
    BY FaultType DEF Restart
<1>3. /\ refresh' \in [Refreshes -> Refresh \cup {Idle}] /\ poll' \in [Polls -> Poll \cup {Idle}]
      /\ fired' \in [Locks -> Seq(Nat)] /\ seen' \in [Locks -> Nat] /\ baseline' \in [Locks -> Nat]
    BY DEF Restart, TypeOK
<1>4. QED BY <1>1, <1>2, <1>3 DEF Restart, TypeOK, cloudVars

\* Somebody using the lock keeps the types.
LEMMA HappensType ==
    ASSUME TypeOK, NEW l \in Locks, Happens(l), ParametersAssumption
    PROVE  TypeOK'
    BY DEF Happens, TypeOK, ParametersAssumption, entity, history

\* What the cloud shows is noted by those who have asked, with its type.
LEMMA CloudShowsType ==
    ASSUME TypeOK, NEW l \in Locks, NEW code \in Codes, CloudShows(l, code),
           faults' \in 0..MaxFaults
    PROVE  TypeOK'
<1>1. ASSUME NEW r \in Refreshes
      PROVE  refresh'[r] \in Refresh \cup {Idle}
    <2>1. CASE refresh[r].at = "state" /\ refresh[r].lock = l
        <3>1. refresh[r] \in Refresh
            BY <2>1, WaitingRefresh
        <3>2. [refresh[r] EXCEPT !.seen = @ \cup {code}] \in Refresh
            BY <2>1, <3>1 DEF Refresh
        <3>3. QED BY <2>1, <3>2 DEF CloudShows
    <2>2. CASE ~(refresh[r].at = "state" /\ refresh[r].lock = l)
        BY <2>2 DEF CloudShows, TypeOK
    <2>3. QED BY <2>1, <2>2
<1>2. refresh' \in [Refreshes -> Refresh \cup {Idle}]
    BY <1>1 DEF CloudShows
<1>3. QED BY <1>2 DEF CloudShows, TypeOK, entity, history

\* The cloud catching up, or showing an error, keeps the types.
LEMMA CloudMovesType ==
    ASSUME TypeOK, NEW l \in Locks, CloudCatchesUp(l) \/ Jam(l), ParametersAssumption
    PROVE  TypeOK'
<1>1. CASE CloudCatchesUp(l)
    <2>1. PICK code \in CloudCodes \cap CodesOf(phys[l]) : CloudShows(l, code)
        BY <1>1 DEF CloudCatchesUp
    <2>2. code \in Codes /\ faults' \in 0..MaxFaults
        BY <1>1, <2>1 DEF ParametersAssumption, CloudCatchesUp, TypeOK
    <2>3. QED BY <2>1, <2>2, CloudShowsType
<1>2. CASE Jam(l)
    BY <1>2, CloudShowsType, FaultType DEF Jam, Codes
<1>3. QED BY <1>1, <1>2

\* The first state is typed.
LEMMA InitType ==
    ASSUME Init, ParametersAssumption
    PROVE  TypeOK
<1>1. /\ data \in [Locks -> LockState]
      /\ phys \in [Locks -> Bolt] /\ log \in [Locks -> Nat] /\ baseline \in [Locks -> Nat]
    BY StatesTyped DEF Init, Bolt, ParametersAssumption
<1>2. cloudView \in [Locks -> Codes]
    BY DEF Init, ParametersAssumption
<1>3. /\ refresh \in [Refreshes -> Refresh \cup {Idle}] /\ poll \in [Polls -> Poll \cup {Idle}]
      /\ fired \in [Locks -> Seq(Nat)]
    BY DEF Init
<1>4. commands \in 0..MaxCommands /\ faults \in 0..MaxFaults
    BY DEF Init, ParametersAssumption
<1>5. QED BY <1>1, <1>2, <1>3, <1>4 DEF Init, TypeOK

\* Every step keeps the types.
LEMMA StepType ==
    ASSUME TypeOK, [Next]_vars, ParametersAssumption
    PROVE  TypeOK'
<1>1. ASSUME NEW r \in Refreshes, StartRefresh(r) \/ RefreshState(r) \/ _poll_extras(r)
      PROVE  TypeOK'
    BY <1>1, StartRefreshType, RefreshStateType, PollExtrasType
<1>2. ASSUME NEW p \in Polls, StartPoll(p) \/ PollAnswered(p)
      PROVE  TypeOK'
    BY <1>2, StartPollType, PollAnsweredType
<1>3. ASSUME NEW l \in Locks,
             (\E verb \in {"unlock", "lock"} : Command(l, verb))
                \/ Happens(l) \/ CloudCatchesUp(l) \/ Jam(l)
      PROVE  TypeOK'
    BY <1>3, CommandType, HappensType, CloudMovesType
<1>4. ASSUME NEW c \in cmds, CloudAccepts(c) \/ CommandAccepted(c) \/ CommandEnds(c)
      PROVE  TypeOK'
    BY <1>4, CloudAcceptsType, CommandAcceptedType, CommandEndsType
<1>5. CASE UNCHANGED vars
    BY <1>5 DEF TypeOK, vars, cloudVars, entity, history
<1>6. QED BY <1>1, <1>2, <1>3, <1>4, <1>5, RestartType DEF Next

\* Every variable keeps its type, whatever locks, polls and faults there are.
THEOREM TypeCorrect == Spec => []TypeOK
<1>1. Init => TypeOK
    BY InitType, ParametersAssumption
<1>2. TypeOK /\ [Next]_vars => TypeOK'
    BY StepType, ParametersAssumption
<1>3. QED BY <1>1, <1>2, PTL DEF Spec

-----------------------------------------------------------------------------
(* What fires.  FiredOnceInOrder and NoHistory are not inductive: they     *)
(* need to know that what was fired is covered by `seen`, that a log is    *)
(* never shorter than its baseline or than when a poll asked for it, and   *)
(* how far the seeding has come.                                           *)

\* What was fired counts as handled.
FiredWasSeen == \A l \in Locks : \A i \in DOMAIN fired[l] : fired[l][i] <= seen[l]

\* The log only grows: since the baseline, and while a poll waits.
LogsGrow ==
    /\ \A l \in Locks : baseline[l] <= log[l]
    /\ \A p \in Polls : poll[p] # Idle =>
          baseline[poll[p].lock] <= poll[p].low /\ poll[p].low <= log[poll[p].lock]

\* Nothing fires before the baseline is recorded.
NothingFiredYet == phase # "running" => \A l \in Locks : fired[l] = <<>>

\* The seeding poll is alone, and no poll seeds after it.
PollsFitPhase ==
    \A p \in Polls : poll[p] # Idle =>
        \/ phase = "running" /\ ~poll[p].seed_only
        \/ phase = "seeding" /\ poll[p].seed_only /\ \A q \in Polls \ {p} : poll[q] = Idle

\* The baseline is covered by `seen`, once the seeding poll has passed the lock.
Baselined ==
    \A l \in Locks \ unseeded :
        \/ seen[l] >= baseline[l]
        \/ phase = "setup"
        \/ phase = "seeding" /\ \A p \in Polls :
              poll[p] # Idle => l \in poll[p].todo \cup {poll[p].lock}

IInv == /\ TypeOK /\ FiredOnceInOrder /\ NoHistory
        /\ FiredWasSeen /\ LogsGrow /\ NothingFiredYet /\ PollsFitPhase /\ Baselined

\* Steps that leave the polls alone keep the invariant: the log may have grown,
\* and the first refresh may have ended the setup.
LEMMA OtherSteps ==
    ASSUME IInv, TypeOK', UNCHANGED <<seen, poll, history>>,
           \A l \in Locks : log'[l] >= log[l],
           phase' = phase \/ (phase = "setup" /\ phase' = "seeding")
    PROVE  IInv'
<1> USE DEF IInv, history
<1>1. FiredOnceInOrder' /\ NoHistory' /\ FiredWasSeen' /\ NothingFiredYet'
    BY DEF FiredOnceInOrder, NoHistory, FiredWasSeen, NothingFiredYet
<1>2. LogsGrow'
    <2>1. ASSUME NEW l \in Locks PROVE baseline'[l] <= log'[l]
        <3>1. baseline[l] \in Nat /\ log[l] \in Nat /\ log'[l] \in Nat
            BY DEF TypeOK
        <3>2. QED BY <3>1 DEF LogsGrow
    <2>2. ASSUME NEW p \in Polls, poll[p] # Idle
          PROVE  baseline[poll[p].lock] <= poll[p].low /\ poll[p].low <= log'[poll[p].lock]
        <3>1. poll[p].lock \in Locks /\ poll[p].low \in Nat
            BY <2>2, WaitingPoll
        <3>2. log[poll[p].lock] \in Nat /\ log'[poll[p].lock] \in Nat
            BY <3>1 DEF TypeOK
        <3>3. QED BY <2>2, <3>1, <3>2 DEF LogsGrow
    <2>3. QED BY <2>1, <2>2 DEF LogsGrow
<1>3. PollsFitPhase'
    BY DEF PollsFitPhase
<1>4. Baselined'
    <2>1. CASE phase' = phase
        BY <2>1 DEF Baselined
    <2>2. CASE phase = "setup" /\ phase' = "seeding"
        BY <2>2 DEF Baselined, PollsFitPhase
    <2>3. QED BY <2>1, <2>2
<1>5. QED BY <1>1, <1>2, <1>3, <1>4

\* Handling an answer: the fresh entries are newer than what was fired and, once
\* the baseline is recorded, than the baseline; the lock is then covered.
LEMMA HandleFires ==
    ASSUME IInv, ParametersAssumption, NEW l \in Locks, NEW n \in Nat, NEW seed_only \in BOOLEAN,
           baseline[l] <= n,
           seed_only => fired[l] = <<>>,
           ~seed_only => l \in unseeded \/ seen[l] >= baseline[l],
           Handle(l, n, seed_only)
    PROVE  /\ \A k \in Locks \ {l} : seen'[k] = seen[k] /\ fired'[k] = fired[k]
           /\ \A i, j \in DOMAIN fired'[l] : i < j => fired'[l][i] < fired'[l][j]
           /\ \A i \in DOMAIN fired'[l] : fired'[l][i] <= seen'[l]
           /\ l \in unseeded \/ \A i \in DOMAIN fired'[l] : fired'[l][i] > baseline[l]
           /\ seen'[l] >= baseline[l]
           /\ seed_only => fired'[l] = <<>>
<1> DEFINE first == IF seen[l] >= Oldest(n) THEN seen[l] + 1 ELSE Oldest(n)
           told == IF seed_only THEN <<>> ELSE From(first, n)
<1>1. /\ seen[l] \in Nat /\ baseline[l] \in Nat /\ fired[l] \in Seq(Nat)
      /\ \A i, j \in DOMAIN fired[l] : i < j => fired[l][i] < fired[l][j]
      /\ \A i \in DOMAIN fired[l] : fired[l][i] <= seen[l]
      /\ l \in unseeded \/ \A i \in DOMAIN fired[l] : fired[l][i] > baseline[l]
      /\ seen \in [Locks -> Nat] /\ fired \in [Locks -> Seq(Nat)]
    BY DEF IInv, TypeOK, FiredOnceInOrder, FiredWasSeen, NoHistory
<1>2. first \in Nat /\ first > seen[l] /\ (first > n => seen[l] >= n)
    <2>1. Oldest(n) \in Nat /\ Oldest(n) >= 1 /\ (n >= 1 => Oldest(n) <= n)
        BY OldestBounds
    <2>2. QED BY <1>1, <2>1
<1>3. Take(l, first, n, told)
    BY DEF Handle
<1> HIDE DEF first, told
<1>4. CASE first > n
    <2>1. seen' = seen /\ fired' = fired
        BY <1>3, <1>4 DEF Take
    <2>2. seen[l] >= baseline[l]
        BY <1>1, <1>2, <1>4
    <2>3. QED BY <1>1, <2>1, <2>2
<1>5. CASE first <= n
    <2>1. seen' = [seen EXCEPT ![l] = n] /\ fired' = [fired EXCEPT ![l] = fired[l] \o told]
        BY <1>2, <1>3, <1>5 DEF Take
    <2>2. /\ \A k \in Locks \ {l} : seen'[k] = seen[k] /\ fired'[k] = fired[k]
          /\ seen'[l] = n /\ fired'[l] = fired[l] \o told
        BY <1>1, <2>1
    <2>3. CASE seed_only
        <3>1. fired'[l] = <<>>
            <4>1. <<>> \o <<>> = <<>>
                OBVIOUS
            <4>2. QED BY <2>2, <2>3, <4>1 DEF told
        <3>2. DOMAIN fired'[l] = {}
            BY <3>1
        <3>3. QED BY <2>2, <3>1, <3>2
    <2>4. CASE ~seed_only
        <3> DEFINE t == fired[l] \o From(first, n)
        <3>1. fired'[l] = t
            BY <2>2, <2>4 DEF told
        <3>2. /\ \A i, j \in DOMAIN t : i < j => t[i] < t[j]
              /\ \A i \in DOMAIN t : t[i] <= n
              /\ \A i \in DOMAIN t : (i \in DOMAIN fired[l] /\ t[i] = fired[l][i]) \/ t[i] >= first
              /\ t \in Seq(Nat)
            BY <1>1, <1>2, <1>5, AppendedInOrder
        <3>3. ASSUME l \notin unseeded, NEW i \in DOMAIN t
              PROVE  t[i] > baseline[l]
            <4>1. t[i] \in Nat
                BY <3>2, ElementOfSeq, LenProperties
            <4>2. CASE i \in DOMAIN fired[l] /\ t[i] = fired[l][i]
                BY <1>1, <3>3, <4>2
            <4>3. CASE t[i] >= first
                <5>1. seen[l] >= baseline[l]
                    BY <2>4, <3>3
                <5>2. QED BY <1>1, <1>2, <4>1, <4>3, <5>1
            <4>4. QED BY <3>2, <4>2, <4>3
        <3> HIDE DEF t
        <3>4. QED BY <2>2, <2>4, <3>1, <3>2, <3>3
    <2>5. QED BY <2>3, <2>4
<1>6. QED BY <1>1, <1>2, <1>4, <1>5

\* A poll that starts, or goes on with the next lock, asks for what is there.
LEMMA AskHistoryKeeps ==
    ASSUME IInv, NEW p \in Polls, NEW todo \in SUBSET Locks, NEW seed_only \in BOOLEAN,
           AskHistory(p, todo, seed_only), UNCHANGED <<log, baseline>>,
           \/ phase = "running" /\ ~seed_only
           \/ phase = "seeding" /\ seed_only /\ \A q \in Polls \ {p} : poll[q] = Idle
    PROVE  /\ LogsGrow' /\ PollsFitPhase'
           /\ \A q \in Polls \ {p} : poll'[q] = poll[q]
           /\ \/ phase' = "running" /\ poll'[p] = Idle /\ todo = {}
              \/ /\ phase' = phase /\ poll'[p].lock \in todo /\ poll'[p] # Idle
                 /\ poll'[p].todo = todo \ {poll'[p].lock}
<1>0. poll \in [Polls -> Poll \cup {Idle}]
    BY DEF IInv, TypeOK
<1>1. CASE todo = {}
    <2>1. poll' = [poll EXCEPT ![p] = Idle]
        BY <1>1 DEF AskHistory
    <2>2. poll'[p] = Idle /\ \A q \in Polls \ {p} : poll'[q] = poll[q]
        BY <1>0, <2>1
    <2>3. phase' = "running" /\ (seed_only \/ phase' = phase)
        BY <1>1 DEF AskHistory
    <2>4. LogsGrow'
        BY <2>2 DEF LogsGrow, IInv
    <2>5. PollsFitPhase'
        BY <2>2, <2>3 DEF PollsFitPhase, IInv
    <2>6. QED BY <1>1, <2>2, <2>3, <2>4, <2>5
<1>2. CASE todo # {}
    <2>1. PICK l \in todo : poll' = [poll EXCEPT ![p] =
              [at |-> "history", lock |-> l, todo |-> todo \ {l}, low |-> log[l],
               seed_only |-> seed_only]]
        BY <1>2 DEF AskHistory
    <2>2. /\ \A q \in Polls \ {p} : poll'[q] = poll[q]
          /\ poll'[p] = [at |-> "history", lock |-> l, todo |-> todo \ {l}, low |-> log[l],
                         seed_only |-> seed_only]
        BY <1>0, <2>1
    <2>3. poll'[p].lock = l /\ poll'[p].todo = todo \ {l} /\ poll'[p].low = log[l]
          /\ poll'[p].seed_only = seed_only /\ poll'[p] # Idle
        BY <2>2 DEF Idle
    <2>4. phase' = phase
        BY <1>2 DEF AskHistory
    <2>5. LogsGrow'
        <3>1. \A k \in Locks : baseline'[k] <= log'[k]
            BY DEF LogsGrow, IInv
        <3>2. log[l] \in Nat /\ baseline[l] \in Nat
            BY <2>1 DEF IInv, TypeOK
        <3>3. ASSUME NEW q \in Polls, poll'[q] # Idle
              PROVE  baseline'[poll'[q].lock] <= poll'[q].low /\ poll'[q].low <= log'[poll'[q].lock]
            <4>1. CASE q = p
                BY <2>1, <2>3, <3>1, <3>2, <4>1
            <4>2. CASE q # p
                BY <2>2, <3>3, <4>2 DEF LogsGrow, IInv
            <4>3. QED BY <4>1, <4>2
        <3>4. QED BY <3>1, <3>3 DEF LogsGrow
    <2>6. PollsFitPhase'
        BY <2>2, <2>3, <2>4 DEF PollsFitPhase, IInv
    <2>7. QED BY <2>1, <2>2, <2>3, <2>4, <2>5, <2>6
<1>3. QED BY <1>1, <1>2

\* Starting an event poll keeps the invariant: only the first one seeds.
LEMMA StartPollKeeps ==
    ASSUME IInv, TypeOK', NEW p \in Polls, StartPoll(p)
    PROVE  IInv'
<1> DEFINE seed_only == phase = "seeding"
<1>1. /\ UNCHANGED <<log, baseline, seen, fired, unseeded>>
      /\ AskHistory(p, Locks, seed_only) /\ poll[p] = Idle
      /\ phase = "running" \/ (phase = "seeding" /\ \A q \in Polls : poll[q] = Idle)
    BY DEF StartPoll, cloudVars, history
<1>2. /\ LogsGrow' /\ PollsFitPhase'
      /\ \A q \in Polls \ {p} : poll'[q] = poll[q]
      /\ \/ phase' = "running" /\ poll'[p] = Idle /\ Locks = {}
         \/ /\ phase' = phase /\ poll'[p].lock \in Locks /\ poll'[p] # Idle
            /\ poll'[p].todo = Locks \ {poll'[p].lock}
    BY <1>1, AskHistoryKeeps
<1>3. FiredOnceInOrder' /\ NoHistory' /\ FiredWasSeen'
    BY <1>1 DEF IInv, FiredOnceInOrder, NoHistory, FiredWasSeen
<1>4. NothingFiredYet'
    BY <1>1, <1>2 DEF IInv, NothingFiredYet
<1>5. Baselined'
    BY <1>1, <1>2 DEF IInv, Baselined
<1>6. QED BY <1>2, <1>3, <1>4, <1>5 DEF IInv

\* An answer to an event poll keeps the invariant: what fires is newer than
\* what was handled.
LEMMA PollAnsweredKeeps ==
    ASSUME IInv, TypeOK', NEW p \in Polls, PollAnswered(p), ParametersAssumption
    PROVE  IInv'
<1> DEFINE q == poll[p]
<1>1. /\ q # Idle /\ q.lock \in Locks /\ q.todo \in SUBSET Locks /\ q.low \in Nat
      /\ q.seed_only \in BOOLEAN
    BY WaitingPoll DEF PollAnswered, IInv
<1>2. AskHistory(p, q.todo, q.seed_only) /\ UNCHANGED <<log, baseline>>
    BY DEF PollAnswered, cloudVars
<1>3. \/ phase = "running" /\ ~q.seed_only
      \/ phase = "seeding" /\ q.seed_only /\ \A r \in Polls \ {p} : poll[r] = Idle
    BY <1>1 DEF IInv, PollsFitPhase
<1>4. /\ LogsGrow' /\ PollsFitPhase'
      /\ \A r \in Polls \ {p} : poll'[r] = poll[r]
      /\ \/ phase' = "running" /\ poll'[p] = Idle /\ q.todo = {}
         \/ /\ phase' = phase /\ poll'[p].lock \in q.todo /\ poll'[p] # Idle
            /\ poll'[p].todo = q.todo \ {poll'[p].lock}
    BY <1>1, <1>2, <1>3, AskHistoryKeeps
<1>5. /\ \A k \in Locks \ {q.lock} : seen'[k] = seen[k] /\ fired'[k] = fired[k]
      /\ \A i, j \in DOMAIN fired'[q.lock] : i < j => fired'[q.lock][i] < fired'[q.lock][j]
      /\ \A i \in DOMAIN fired'[q.lock] : fired'[q.lock][i] <= seen'[q.lock]
      /\ q.lock \in unseeded' \/ \A i \in DOMAIN fired'[q.lock] : fired'[q.lock][i] > baseline[q.lock]
      /\ q.lock \in unseeded' \/ seen'[q.lock] >= baseline[q.lock]
      /\ q.seed_only => fired'[q.lock] = <<>>
      /\ unseeded \subseteq unseeded'
    <2> DEFINE l == q.lock
    <2>1. q.seed_only => fired[l] = <<>>
        BY <1>1, <1>3 DEF IInv, NothingFiredYet
    <2>2. ~q.seed_only => l \in unseeded \/ seen[l] >= baseline[l]
        BY <1>1, <1>3 DEF IInv, Baselined
    <2>3. ASSUME NEW n \in q.low..log[l], Handle(l, n, q.seed_only), UNCHANGED unseeded
          PROVE  <1>5
        <3>1. n \in Nat /\ baseline[l] <= n
            <4>1. baseline[l] \in Nat /\ log[l] \in Nat /\ baseline[l] <= q.low
                BY <1>1 DEF IInv, TypeOK, LogsGrow
            <4>2. QED BY <1>1, <4>1
        <3>2. QED BY <1>1, <2>1, <2>2, <2>3, <3>1, HandleFires
    <2>4. ASSUME unseeded' = IF q.seed_only THEN unseeded \cup {l} ELSE unseeded,
                 UNCHANGED <<seen, fired>>
          PROVE  <1>5
        BY <1>1, <2>1, <2>2, <2>4 DEF IInv, FiredOnceInOrder, FiredWasSeen, NoHistory
    <2>5. QED BY <2>3, <2>4 DEF PollAnswered
<1>6. FiredOnceInOrder'
    BY <1>1, <1>5 DEF IInv, FiredOnceInOrder
<1>7. NoHistory'
    BY <1>1, <1>2, <1>5 DEF IInv, NoHistory
<1>8. FiredWasSeen'
    BY <1>1, <1>5 DEF IInv, FiredWasSeen
<1>9. NothingFiredYet'
    BY <1>1, <1>3, <1>4, <1>5 DEF IInv, NothingFiredYet
<1>10. Baselined'
    <2>1. ASSUME NEW k \in Locks \ unseeded', seen'[k] < baseline'[k]
          PROVE  /\ phase' = "seeding"
                 /\ \A r \in Polls : poll'[r] # Idle => k \in poll'[r].todo \cup {poll'[r].lock}
        <3>1. k # q.lock
            BY <1>1, <1>2, <1>5, <2>1 DEF TypeOK
        <3>2. seen[k] < baseline[k] /\ k \notin unseeded
            BY <1>2, <1>5, <2>1, <3>1
        <3>3. ~(seen[k] >= baseline[k])
            BY <3>2 DEF IInv, TypeOK
        <3>4. phase = "seeding" /\ k \in q.todo
            BY <1>1, <1>3, <3>1, <3>2, <3>3 DEF IInv, Baselined
        <3>5. QED BY <1>3, <1>4, <3>4
    <2>2. ASSUME NEW k \in Locks \ unseeded', ~(seen'[k] >= baseline'[k])
          PROVE  seen'[k] < baseline'[k]
        BY <2>2 DEF TypeOK
    <2>3. QED BY <2>1, <2>2 DEF Baselined
<1>11. QED BY <1>4, <1>6, <1>7, <1>8, <1>9, <1>10 DEF IInv

\* A restart keeps the invariant: nothing is fired yet and a new baseline is
\* taken.
LEMMA RestartKeeps ==
    ASSUME IInv, TypeOK', Restart
    PROVE  IInv'
<1>1. /\ fired' = [l \in Locks |-> <<>>] /\ poll' = [p \in Polls |-> Idle] /\ phase' = "setup"
      /\ baseline' = log /\ log' = log
    BY DEF Restart, cloudVars
<1>2. \A l \in Locks : fired'[l] = <<>> /\ DOMAIN fired'[l] = {}
    BY <1>1
<1>3. FiredOnceInOrder' /\ NoHistory' /\ FiredWasSeen' /\ NothingFiredYet'
    BY <1>2 DEF FiredOnceInOrder, NoHistory, FiredWasSeen, NothingFiredYet
<1>4. LogsGrow'
    <2>1. \A l \in Locks : log[l] \in Nat
        BY DEF IInv, TypeOK
    <2>2. QED BY <1>1, <2>1 DEF LogsGrow
<1>5. PollsFitPhase' /\ Baselined'
    BY <1>1 DEF PollsFitPhase, Baselined
<1>6. QED BY <1>3, <1>4, <1>5 DEF IInv

\* The first state satisfies the invariant.
LEMMA InitKeeps ==
    ASSUME Init, ParametersAssumption
    PROVE  IInv
<1>1. TypeOK
    BY InitType
<1>2. \A l \in Locks : fired[l] = <<>> /\ DOMAIN fired[l] = {}
    BY DEF Init
<1>3. FiredOnceInOrder /\ NoHistory /\ FiredWasSeen /\ NothingFiredYet
    BY <1>2 DEF FiredOnceInOrder, NoHistory, FiredWasSeen, NothingFiredYet
<1>4. LogsGrow
    <2>1. \A l \in Locks : log[l] \in Nat
        BY <1>1 DEF TypeOK
    <2>2. QED BY <2>1 DEF Init, LogsGrow
<1>5. PollsFitPhase /\ Baselined
    BY DEF Init, PollsFitPhase, Baselined
<1>6. QED BY <1>1, <1>3, <1>4, <1>5 DEF IInv

\* The steps of the other parts, in the form OtherSteps wants them.
LEMMA LogGrows ==
    ASSUME TypeOK, NEW l \in Locks, UNCHANGED log \/ log' = [log EXCEPT ![l] = @ + 1]
    PROVE  \A k \in Locks : log'[k] >= log[k]
<1>1. log \in [Locks -> Nat]
    BY DEF TypeOK
<1>2. QED BY <1>1

\* Every step keeps the invariant.
LEMMA StepKeeps ==
    ASSUME IInv, [Next]_vars, ParametersAssumption
    PROVE  IInv'
<1>1. TypeOK /\ TypeOK'
    BY StepType DEF IInv
<1>2. \A l \in Locks : log[l] >= log[l]
    BY <1>1 DEF TypeOK
<1>3. ASSUME NEW r \in Refreshes, StartRefresh(r) \/ RefreshState(r) \/ _poll_extras(r)
      PROVE  IInv'
    <2>1. UNCHANGED <<log, seen, poll, history>>
        BY <1>3 DEF StartRefresh, RefreshState, _poll_extras, cloudVars
    <2>2. phase' = phase \/ (phase = "setup" /\ phase' = "seeding")
        BY <1>3 DEF StartRefresh, RefreshState, _poll_extras, Ask
    <2>3. QED BY <1>1, <1>2, <2>1, <2>2, OtherSteps
<1>4. ASSUME NEW p \in Polls, StartPoll(p) \/ PollAnswered(p)
      PROVE  IInv'
    BY <1>1, <1>4, StartPollKeeps, PollAnsweredKeeps
<1>5. ASSUME NEW l \in Locks,
             (\E verb \in {"unlock", "lock"} : Command(l, verb))
                \/ Happens(l) \/ CloudCatchesUp(l) \/ Jam(l)
      PROVE  IInv'
    <2>1. UNCHANGED <<phase, seen, poll, history>>
        BY <1>5 DEF Command, Happens, CloudCatchesUp, Jam, CloudShows
    <2>2. UNCHANGED log \/ log' = [log EXCEPT ![l] = @ + 1]
        BY <1>5 DEF Command, Happens, CloudCatchesUp, Jam, CloudShows, cloudVars
    <2>3. QED BY <1>1, <2>1, <2>2, LogGrows, OtherSteps
<1>6. ASSUME NEW c \in cmds, CloudAccepts(c) \/ CommandAccepted(c) \/ CommandEnds(c)
      PROVE  IInv'
    <2>1. UNCHANGED <<phase, seen, poll, history>>
        BY <1>6 DEF CloudAccepts, CommandAccepted, CommandEnds
    <2>2. UNCHANGED log \/ log' = [log EXCEPT ![c.lock] = @ + 1]
        BY <1>6 DEF CloudAccepts, CommandAccepted, CommandEnds, Acts, cloudVars
    <2>3. c.lock \in Locks
        BY <1>1 DEF TypeOK, Cmd
    <2>4. QED BY <1>1, <2>1, <2>2, <2>3, LogGrows, OtherSteps
<1>7. CASE UNCHANGED vars
    BY <1>1, <1>2, <1>7, OtherSteps DEF vars, cloudVars, history
<1>8. QED BY <1>1, <1>3, <1>4, <1>5, <1>6, <1>7, RestartKeeps DEF Next

\* The strengthened invariant holds in every reachable state.
THEOREM Invariance == Spec => []IInv
<1>1. Init => IInv
    BY InitKeeps, ParametersAssumption
<1>2. IInv /\ [Next]_vars => IInv'
    BY StepKeeps, ParametersAssumption
<1>3. QED BY <1>1, <1>2, PTL DEF Spec

\* No entry of a lock's log fires twice or after a later one, however many polls
\* overlap and whatever answer each of them gets, and when.
THEOREM FiresOnceInOrder == Spec => []FiredOnceInOrder
<1>1. IInv => FiredOnceInOrder
    BY DEF IInv
<1>2. QED BY <1>1, Invariance, PTL

\* What was logged before the integration was started does not fire, for any
\* lock whose log could be read while the baseline was recorded.
THEOREM HistoryStaysSilent == Spec => []NoHistory
<1>1. IInv => NoHistory
    BY DEF IInv
<1>2. QED BY <1>1, Invariance, PTL

-----------------------------------------------------------------------------
(* The coordinator is an EventFeed.                                        *)

\* A step that leaves the polls alone logs an entry or changes nothing of the feed.
LEMMA OtherStepsOfFeed ==
    ASSUME UNCHANGED <<seen, history>>, NEW l \in Locks,
           UNCHANGED log \/ log' = [log EXCEPT ![l] = @ + 1],
           phase' = phase \/ (phase = "setup" /\ phase' = "seeding")
    PROVE  [Feed!Next]_Feed!vars
<1>1. (phase = "running") = (phase' = "running")
    OBVIOUS
<1>2. UNCHANGED <<baseline, seen, unseeded, fired>>
    BY DEF history
<1>3. CASE UNCHANGED log
    BY <1>1, <1>2, <1>3 DEF Feed!vars
<1>4. CASE log' = [log EXCEPT ![l] = @ + 1]
    BY <1>1, <1>2, <1>4 DEF Feed!Next, Feed!Log
<1>5. QED BY <1>3, <1>4

\* The fresh entries of a page are what is new, but for what has left the page.
LEMMA FreshIsNew ==
    ASSUME ParametersAssumption, NEW m \in Nat, NEW n \in Nat, NEW first,
           first = IF m >= Oldest(n) THEN m + 1 ELSE Oldest(n), first <= n
    PROVE  From(first, n) = Feed!New(m, n)
<1> DEFINE k == IF n - m < PageSize THEN n - m ELSE PageSize
<1>1. first \in Nat /\ first > m
    BY OldestBounds
<1>2. k \in Nat /\ n - first + 1 = k
    BY <1>1 DEF Oldest, ParametersAssumption
<1>3. \A i \in 1..k : first + i - 1 = n - k + i
    BY <1>1, <1>2
<1> HIDE DEF k
<1>4. From(first, n) = [i \in 1..k |-> n - k + i]
    BY <1>2, <1>3 DEF From
<1>5. Feed!New(m, n) = [i \in 1..k |-> n - k + i]
    BY DEF Feed!New, k
<1>6. QED BY <1>4, <1>5

\* What is made of an answer that ends with entry n: nothing, or it is noted, or told.
Fed(l, n, seed_only) ==
    \/ UNCHANGED <<seen, fired>>
    \/ /\ n \in (seen[l] + 1)..log[l] /\ seen' = [seen EXCEPT ![l] = n]
       /\ seed_only => fired' = fired
       /\ ~seed_only => fired' = [fired EXCEPT ![l] = @ \o Feed!New(seen[l], n)]

LEMMA TakeOfFeed ==
    ASSUME IInv, ParametersAssumption, NEW l \in Locks, NEW n \in Nat, n <= log[l],
           NEW seed_only \in BOOLEAN, seed_only => fired[l] = <<>>,
           Handle(l, n, seed_only)
    PROVE  Fed(l, n, seed_only)
<1> DEFINE first == IF seen[l] >= Oldest(n) THEN seen[l] + 1 ELSE Oldest(n)
           told == IF seed_only THEN <<>> ELSE From(first, n)
<1>1. seen[l] \in Nat /\ log[l] \in Nat /\ fired \in [Locks -> Seq(Nat)]
    BY DEF IInv, TypeOK
<1>2. first \in Nat /\ first > seen[l]
    <2>1. Oldest(n) \in Nat
        BY OldestBounds
    <2>2. QED BY <1>1, <2>1
<1>3. Take(l, first, n, told)
    BY DEF Handle
<1>4. first <= n => From(first, n) = Feed!New(seen[l], n)
    BY <1>1, FreshIsNew
<1> HIDE DEF first
<1>5. CASE first > n
    BY <1>3, <1>5 DEF Take, Fed
<1>6. CASE ~(first > n)
    <2>1. seen' = [seen EXCEPT ![l] = n] /\ fired' = [fired EXCEPT ![l] = fired[l] \o told]
        BY <1>3, <1>6 DEF Take
    <2>2. n \in (seen[l] + 1)..log[l] /\ first <= n
        BY <1>1, <1>2, <1>6
    <2>3. seed_only => fired' = fired
        <3>1. SUFFICES ASSUME seed_only PROVE fired' = fired
            OBVIOUS
        <3>2. fired[l] \o told = fired[l]
            <4>1. <<>> \o <<>> = <<>>
                OBVIOUS
            <4>2. QED BY <3>1, <4>1 DEF told
        <3>3. QED BY <1>1, <2>1, <3>2
    <2>4. ~seed_only => fired' = [fired EXCEPT ![l] = @ \o Feed!New(seen[l], n)]
        BY <1>4, <2>1, <2>2 DEF told
    <2>5. QED BY <2>1, <2>2, <2>3, <2>4 DEF Fed
<1>7. QED BY <1>5, <1>6

\* The feed opens only when the baseline is recorded.
LEMMA OpensInTime ==
    ASSUME IInv', UNCHANGED baseline
    PROVE  Feed!MayOpen
<1>1. ASSUME phase' = "running", NEW l \in Locks \ unseeded' PROVE baseline[l] <= seen'[l]
    <2>1. seen'[l] >= baseline'[l] /\ seen'[l] \in Nat /\ baseline'[l] \in Nat
        BY <1>1 DEF IInv, Baselined, TypeOK
    <2>2. QED BY <2>1
<1>2. QED BY <1>1 DEF Feed!MayOpen

LEMMA StartPollOfFeed ==
    ASSUME IInv, IInv', NEW p \in Polls, StartPoll(p)
    PROVE  [Feed!Next]_Feed!vars
<1>1. UNCHANGED <<log, baseline, seen, unseeded, fired>>
    BY DEF StartPoll, cloudVars, history
<1>2. \/ (phase = "running") = (phase' = "running")
      \/ phase # "running" /\ phase' = "running"
    BY DEF StartPoll, AskHistory
<1>3. CASE (phase = "running") = (phase' = "running")
    BY <1>1, <1>3 DEF Feed!vars
<1>4. CASE phase # "running" /\ phase' = "running"
    BY <1>1, <1>4, OpensInTime DEF Feed!Next, Feed!Open
<1>5. QED BY <1>2, <1>3, <1>4

LEMMA PollAnsweredOfFeed ==
    ASSUME IInv, IInv', ParametersAssumption, NEW p \in Polls, PollAnswered(p)
    PROVE  [Feed!Next]_Feed!vars
<1> DEFINE q == poll[p]
           l == q.lock
<1>1. q # Idle /\ l \in Locks /\ q.low \in Nat /\ q.seed_only \in BOOLEAN
    BY WaitingPoll DEF PollAnswered, IInv
<1>2. AskHistory(p, q.todo, q.seed_only) /\ UNCHANGED <<log, baseline>>
    BY DEF PollAnswered, cloudVars
<1>3. /\ \/ phase = "running" /\ ~q.seed_only
         \/ phase = "seeding" /\ q.seed_only
      /\ q.seed_only => fired[l] = <<>>
    BY <1>1 DEF IInv, PollsFitPhase, NothingFiredYet
<1>4. \/ /\ UNCHANGED unseeded
         /\ \/ UNCHANGED <<seen, fired>>
            \/ /\ \E n \in (seen[l] + 1)..log[l] :
                     /\ seen' = [seen EXCEPT ![l] = n]
                     /\ ~q.seed_only => fired' = [fired EXCEPT ![l] = @ \o Feed!New(seen[l], n)]
               /\ q.seed_only => fired' = fired
      \/ /\ UNCHANGED <<seen, fired>>
         /\ unseeded' = IF q.seed_only THEN unseeded \cup {l} ELSE unseeded
    <2>1. ASSUME NEW n \in q.low..log[l], Handle(l, n, q.seed_only), UNCHANGED unseeded
          PROVE  <1>4
        <3>1. n \in Nat /\ n <= log[l]
            BY <1>1 DEF IInv, TypeOK
        <3>2. Fed(l, n, q.seed_only)
            BY <1>1, <1>3, <2>1, <3>1, TakeOfFeed
        <3>3. QED BY <2>1, <3>2 DEF Fed
    <2>2. ASSUME UNCHANGED <<seen, fired>>,
                 unseeded' = IF q.seed_only THEN unseeded \cup {l} ELSE unseeded
          PROVE  <1>4
        BY <2>2
    <2>3. QED BY <2>1, <2>2 DEF PollAnswered
<1>5. CASE phase = "running" /\ ~q.seed_only
    <2>1. phase' = "running"
        BY <1>2, <1>5 DEF AskHistory
    <2>2. CASE UNCHANGED <<seen, fired, unseeded>>
        BY <1>2, <1>5, <2>1, <2>2 DEF Feed!vars
    <2>3. ASSUME UNCHANGED unseeded, NEW n \in (seen[l] + 1)..log[l],
                 seen' = [seen EXCEPT ![l] = n],
                 fired' = [fired EXCEPT ![l] = @ \o Feed!New(seen[l], n)]
          PROVE  Feed!Tell(l)
        BY <1>2, <1>5, <2>1, <2>3 DEF Feed!Tell
    <2>4. QED BY <1>1, <1>4, <1>5, <2>2, <2>3 DEF Feed!Next
<1>6. CASE phase = "seeding" /\ q.seed_only
    <2>1. Feed!MayOpen /\ phase # "running" /\ (phase' = "running") \in BOOLEAN
        BY <1>2, <1>6, OpensInTime
    <2>2. \/ /\ UNCHANGED unseeded
             /\ \E n \in (seen[l] + 1)..log[l] : seen' = [seen EXCEPT ![l] = n]
          \/ unseeded' = unseeded \cup {l} /\ UNCHANGED seen
          \/ UNCHANGED <<unseeded, seen>>
        BY <1>4, <1>6
    <2>3. UNCHANGED fired
        BY <1>4, <1>6
    <2>4. Feed!Note(l)
        BY <1>2, <2>1, <2>2, <2>3 DEF Feed!Note
    <2>5. QED BY <1>1, <2>4 DEF Feed!Next
<1>7. QED BY <1>3, <1>5, <1>6

\* Every step of the coordinator is one of the feed, or changes nothing of it.
LEMMA StepOfFeed ==
    ASSUME IInv, IInv', [Next]_vars, ParametersAssumption
    PROVE  [Feed!Next]_Feed!vars
<1>1. ASSUME NEW r \in Refreshes, StartRefresh(r) \/ RefreshState(r) \/ _poll_extras(r)
      PROVE  UNCHANGED Feed!vars
    <2>1. UNCHANGED <<log, seen, history>>
        BY <1>1 DEF StartRefresh, RefreshState, _poll_extras, cloudVars
    <2>2. phase' = phase \/ (phase = "setup" /\ phase' = "seeding")
        BY <1>1 DEF StartRefresh, RefreshState, _poll_extras, Ask
    <2>3. (phase = "running") = (phase' = "running")
        BY <2>2
    <2>4. QED BY <2>1, <2>3 DEF Feed!vars, history
<1>2. ASSUME NEW p \in Polls, StartPoll(p) \/ PollAnswered(p)
      PROVE  [Feed!Next]_Feed!vars
    BY <1>2, StartPollOfFeed, PollAnsweredOfFeed
<1>3. ASSUME NEW l \in Locks,
             (\E verb \in {"unlock", "lock"} : Command(l, verb))
                \/ Happens(l) \/ CloudCatchesUp(l) \/ Jam(l)
      PROVE  [Feed!Next]_Feed!vars
    <2>1. UNCHANGED <<phase, seen, history>>
        BY <1>3 DEF Command, Happens, CloudCatchesUp, Jam, CloudShows
    <2>2. UNCHANGED log \/ log' = [log EXCEPT ![l] = @ + 1]
        BY <1>3 DEF Command, Happens, CloudCatchesUp, Jam, CloudShows, cloudVars
    <2>3. QED BY <2>1, <2>2, OtherStepsOfFeed
<1>4. ASSUME NEW c \in cmds, CloudAccepts(c) \/ CommandAccepted(c) \/ CommandEnds(c)
      PROVE  [Feed!Next]_Feed!vars
    <2>1. UNCHANGED <<phase, seen, history>>
        BY <1>4 DEF CloudAccepts, CommandAccepted, CommandEnds
    <2>2. UNCHANGED log \/ log' = [log EXCEPT ![c.lock] = @ + 1]
        BY <1>4 DEF CloudAccepts, CommandAccepted, CommandEnds, Acts, cloudVars
    <2>3. c.lock \in Locks
        BY DEF IInv, TypeOK, Cmd
    <2>4. QED BY <2>1, <2>2, <2>3, OtherStepsOfFeed
<1>5. CASE Restart
    <2>1. /\ baseline' = log /\ UNCHANGED log /\ seen' = [l \in Locks |-> 0]
          /\ fired' = [l \in Locks |-> <<>>] /\ unseeded' = {} /\ phase' = "setup"
        BY <1>5 DEF Restart, cloudVars
    <2>2. (phase' = "running") = FALSE
        BY <2>1
    <2>3. Feed!Restart
        BY <2>1, <2>2 DEF Feed!Restart, Feed!Fresh
    <2>4. QED BY <2>3 DEF Feed!Next
<1>6. CASE UNCHANGED vars
    BY <1>6 DEF vars, cloudVars, history, Feed!vars
<1>7. QED BY <1>1, <1>2, <1>3, <1>4, <1>5, <1>6 DEF Next

\* The coordinator implements EventFeed: what is new fires in order, once, and without a
\* gap but for what has left the page (coordinator.py:200-228), with any number of
\* overlapping polls.
THEOREM KeepsFeed == Spec => IsFeed
<1>1. Init => Feed!Init
    <2>1. SUFFICES ASSUME Init PROVE Feed!Init
        OBVIOUS
    <2>2. log \in [Locks -> Nat]
        BY <2>1 DEF Init
    <2>3. (phase = "running") = FALSE
        BY <2>1 DEF Init
    <2>4. QED BY <2>1, <2>2, <2>3 DEF Init, Feed!Init, Feed!Fresh
<1>2. IInv /\ IInv' /\ [Next]_vars => [Feed!Next]_Feed!vars
    BY StepOfFeed, ParametersAssumption
<1>3. QED BY <1>1, <1>2, Invariance, PTL DEF Spec, IsFeed, Feed!Spec

=============================================================================
