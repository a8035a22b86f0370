----------------------------- MODULE FastUnlock -----------------------------
(***************************************************************************)
(* The desktop tool that opens a lock over Bluetooth                       *)
(* (tools/ble_unlock_fast.ts) and the client library it is made of         *)
(* (client/): sessionStore, AquaraMobileClient, MacBleClient, AquaraLock.  *)
(* Each start of the tool is a process of its own.  It replays the session *)
(* that the file kept last; if that fails, it asks the cloud for a new one *)
(* and saves it.  Then it opens the lock, reads its status, or leaves it   *)
(* at having warmed the file up.  Two processes may run at the same time:  *)
(* they share the file and the lock, which takes one link at a time.  An   *)
(* action is what a process does between two awaits, or between two        *)
(* accesses to the file.                                                   *)
(*                                                                         *)
(* The lock is the one that PhoneSession describes; here it is the only    *)
(* one in range (MacBleClient looks for its name) and the file is about no *)
(* other.  The clock goes forward, so the newest session is the first.     *)
(***************************************************************************)
EXTENDS Naturals, Sequences

CONSTANTS
    Runs,       \* processes at the same time
    NoRun,      \* nobody is connected
    MAX,        \* sessions that the file keeps: 50
    MaxKeys,    \* bound: keys that the lock ever has
    MaxOffers,  \* bound: keys that the cloud offers for handshakes
    MaxStarts,  \* bound: starts of the tool
    MaxFaults,  \* bound: faults
    Faults      \* the kinds of fault that may happen

Parameters ==
    /\ NoRun \notin Runs
    /\ MAX \in Nat \ {0} /\ MaxKeys \in Nat \ {0}
    /\ MaxOffers \in Nat /\ MaxStarts \in Nat /\ MaxFaults \in Nat
    /\ Faults \subseteq {"scan", "discover", "exchange", "cloud", "disk", "command", "drop",
                         "kill"}

VARIABLES
    file,        \* the sessions in the file, the newest first, or Torn
    lock,        \* its key, its link, its handshake channel, its session
    run,         \* the processes
    offers,      \* keys that the cloud has offered
    last,        \* how the process that ended last did
    warm,        \* it ended well, and the lock still has the key of its session
    overlapped,  \* two processes have run at the same time
    starts, faults  \* bounds

vars == <<file, lock, run, offers, last, warm, overlapped, starts, faults>>

Sessions == [offer : 1..MaxOffers, dev : 1..MaxKeys]
NoSession == [offer |-> 0, dev |-> 0]

\* A file that JSON.parse rejects: empty, cut off, or two writes mixed.
Torn == <<NoSession>>

\* channel: the offer that 0610 brought on this link, or 0.
Lock == [dev : 1..MaxKeys, link : Runs \cup {NoRun}, channel : 0..MaxOffers,
         open : Sessions \cup {NoSession}]

Modes == {"warm", "unlock", "status"}
Stages == {"login", "publickey", "connect", "hello", "verify", "prove", "save", "open", "write",
           "ready"}

\* of is what the handshake is about, and the session once it has its key; known says
\* that MacBleClient has recorded its peripheral; list is what persist writes, crossed
\* that another process has the file open, too. A process was hit by no fault, by one
\* of the replay that its fallback makes up for, or by another.
Hits == {"no", "replay", "other"}
Active == [at : Stages, mode : Modes, path : {"cached", "cloud"},
           of : [offer : 0..MaxOffers, dev : 0..MaxKeys], known : BOOLEAN,
           list : Seq(Sessions), crossed : BOOLEAN, hit : Hits, warm : BOOLEAN]
Idle == [at |-> "idle"]

Ended == [mode : Modes, path : {"cached", "cloud"}, end : {"ok", "error"}, ran : 0..1,
          hit : Hits, warm : BOOLEAN]

TypeOK ==
    /\ file \in Seq(Sessions) \cup {Torn} /\ Len(file) <= MAX
    /\ lock \in Lock
    /\ run \in [Runs -> Active \cup {Idle}]
    /\ offers \in 0..MaxOffers
    /\ last \in Ended
    /\ {warm, overlapped} \subseteq BOOLEAN
    /\ starts \in 0..MaxStarts /\ faults \in 0..MaxFaults

Init ==
    /\ file = <<>> /\ offers = 0
    /\ lock = [dev |-> 1, link |-> NoRun, channel |-> 0, open |-> NoSession]
    /\ run = [r \in Runs |-> Idle]
    /\ last = [mode |-> "warm", path |-> "cloud", end |-> "ok", ran |-> 0, hit |-> "no",
               warm |-> FALSE]
    /\ warm = FALSE /\ overlapped = FALSE
    /\ starts = 0 /\ faults = 0

Fault(kind) == kind \in Faults /\ faults < MaxFaults /\ faults' = faults + 1

history == <<last, warm, overlapped, starts>>

At(r, stage) == run[r].at = stage
Goes(r, stage) == run' = [run EXCEPT ![r].at = stage]

-----------------------------------------------------------------------------
(* The file.                                                               *)

\* A file that is not there or cannot be read has no sessions.
load == IF file = Torn THEN <<>> ELSE file

findLatestByDid == IF load = <<>> THEN NoSession ELSE load[1]

Cut(list) == SubSeq(list, 1, IF Len(list) > MAX THEN MAX ELSE Len(list))

\* The sessions in the file that are for other keys of the lock: for the key of e it has
\* one at most, since each session that is saved takes the place of that for its key.
Others(e) ==
    LET same == {i \in 1..Len(load) : load[i].dev = e.dev}
        i == CHOOSE i \in same : TRUE
    IN  IF same = {} THEN load ELSE SubSeq(load, 1, i - 1) \o SubSeq(load, i + 1, Len(load))

\* Defective variants: the length is not limited; the new session is put last.
Saved_uncut(e) == <<e>> \o Others(e)
Saved_pushed(e) == Cut(Others(e) \o <<e>>)

\* One session for each key of the lock, the new one first, the oldest cut off.
Saved(e) == Cut(<<e>> \o Others(e))

-----------------------------------------------------------------------------
(* The lock, as far as the tool counts on it.                              *)

\* 0610 starts an exchange, 0710 opens the session it proves.
Hears(offer) == [lock EXCEPT !.channel = offer]
Proves(s) == IF lock.channel = s.offer /\ lock.dev = s.dev THEN [lock EXCEPT !.open = s] ELSE lock

\* Without a link there is no exchange; the session may outlive it.
Freed(r) ==
    IF lock.link # r THEN {lock}
    ELSE {[lock EXCEPT !.link = NoRun, !.channel = 0, !.open = s] : s \in {lock.open, NoSession}}

Linked(r) == lock.link = r

-----------------------------------------------------------------------------
(* How a process ends, and how it falls back to the cloud.                  *)

Worse(r, hit) == IF run[r].hit = "other" THEN "other" ELSE hit

\* The exit code is 0 or 1. Whatever the process held of the lock is released.
End(r, end, ran, hit) ==
    /\ run' = [run EXCEPT ![r] = Idle]
    /\ lock' \in Freed(r)
    /\ last' = [mode |-> run[r].mode, path |-> run[r].path, end |-> end, ran |-> ran,
                hit |-> hit, warm |-> run[r].warm]
    /\ warm' = (end = "ok" /\ run[r].of.dev = lock.dev)
    /\ UNCHANGED <<file, offers, overlapped, starts>>

\* MacBleClient can end only a link whose peripheral it has recorded.
ToCloud(r, hit) ==
    /\ run' = [run EXCEPT ![r].at = "login", ![r].path = "cloud", ![r].known = FALSE,
                          ![r].of = NoSession, ![r].hit = hit]
    /\ UNCHANGED <<file, offers, history>>

\* Defective variant: what is left of the replay stays connected.
Fallback_linked(r, hit) == ToCloud(r, hit) /\ UNCHANGED lock
Fallback(r, hit) ==
    /\ ToCloud(r, hit)
    /\ IF run[r].known THEN lock' \in Freed(r) ELSE UNCHANGED lock

\* What is thrown during the replay leads to the cloud; afterwards nothing catches it.
Throw(r, hit) ==
    IF run[r].path = "cached" THEN Fallback(r, hit) ELSE End(r, "error", 0, hit)

-----------------------------------------------------------------------------
(* A process: main, step by step.                                          *)

\* The session that the file kept last, or else the cloud.
Start(r, mode) ==
    /\ run[r] = Idle
    /\ starts < MaxStarts /\ starts' = starts + 1
    /\ run' = [run EXCEPT ![r] =
          [at |-> IF findLatestByDid = NoSession THEN "login" ELSE "connect", mode |-> mode,
           path |-> IF findLatestByDid = NoSession THEN "cloud" ELSE "cached",
           of |-> findLatestByDid, known |-> FALSE, list |-> <<>>, crossed |-> FALSE,
           hit |-> "no", warm |-> warm]]
    /\ overlapped' = (overlapped \/ \E s \in Runs : run[s] # Idle)
    /\ UNCHANGED <<file, lock, offers, last, warm, faults>>

\* A call to the cloud; none is made again. A login without AQARA_EMAIL or
\* AQARA_PASSWORD ends the process like one that fails.
CloudFails(r) ==
    /\ At(r, "login") \/ At(r, "publickey") \/ At(r, "verify")
    /\ Fault("cloud") /\ End(r, "error", 0, "other")

login(r) ==
    /\ At(r, "login") /\ Goes(r, "publickey")
    /\ UNCHANGED <<file, lock, offers, history, faults>>

publickey(r) ==
    /\ At(r, "publickey") /\ offers < MaxOffers
    /\ offers' = offers + 1
    /\ run' = [run EXCEPT ![r].at = "connect", ![r].of = [offer |-> offers', dev |-> 0]]
    /\ UNCHANGED <<file, lock, history, faults>>

\* The lock advertises while nobody is connected. The peripheral is recorded once its
\* characteristics are discovered.
connect(r) ==
    /\ At(r, "connect") /\ lock.link = NoRun
    /\ lock' = [lock EXCEPT !.link = r]
    /\ run' = [run EXCEPT ![r].at = "hello", ![r].known = TRUE]
    /\ UNCHANGED <<file, offers, history, faults>>

\* The lock is not found: by bad luck, or because somebody is connected all the time.
ScanTimeout(r) ==
    /\ At(r, "connect")
    /\ \/ Fault("scan") /\ Throw(r, IF run[r].path = "cached" THEN Worse(r, "replay") ELSE "other")
       \/ /\ lock.link # NoRun /\ UNCHANGED faults
          /\ Throw(r, IF Linked(r) THEN run[r].hit ELSE "other")

\* It is connected, but what it offers is not discovered. The process keeps the link.
DiscoverFails(r) ==
    /\ At(r, "connect") /\ lock.link = NoRun /\ Fault("discover")
    /\ IF run[r].path = "cached"
       THEN ToCloud(r, "other") /\ lock' = [lock EXCEPT !.link = r]
       ELSE End(r, "error", 0, "other")

\* 0610. In the replay the key that the lock shows must be the one of the session.
helloReplay(r) ==
    /\ At(r, "hello") /\ run[r].path = "cached" /\ Linked(r)
    /\ IF lock.dev = run[r].of.dev
       THEN lock' = Hears(run[r].of.offer) /\ Goes(r, "prove") /\ UNCHANGED <<file, offers, history>>
       ELSE Fallback(r, run[r].hit)
    /\ UNCHANGED faults

hello(r) ==
    /\ At(r, "hello") /\ run[r].path = "cloud" /\ Linked(r)
    /\ lock' = Hears(run[r].of.offer)
    /\ run' = [run EXCEPT ![r].at = "verify", ![r].of.dev = lock.dev]
    /\ UNCHANGED <<file, offers, history, faults>>

\* No answer within 9 s.
HelloTimeout(r) ==
    /\ At(r, "hello") /\ Linked(r) /\ Fault("exchange")
    /\ Throw(r, IF run[r].path = "cached" THEN Worse(r, "replay") ELSE "other")

verify(r) ==
    /\ At(r, "verify") /\ Goes(r, "prove")
    /\ UNCHANGED <<file, lock, offers, history, faults>>

\* 0710. Whether it is answered is not looked at.
AfterProof(r) == IF run[r].path = "cached" THEN "ready" ELSE "save"

prove(r) ==
    /\ At(r, "prove") /\ Goes(r, AfterProof(r))
    /\ lock' = IF Linked(r) THEN Proves(run[r].of) ELSE lock
    /\ UNCHANGED <<file, offers, history, faults>>

ProofLost(r) ==
    /\ At(r, "prove") /\ Linked(r) /\ Fault("exchange")
    /\ lock' \in {lock, Proves(run[r].of)}
    /\ run' = [run EXCEPT ![r].at = AfterProof(r), ![r].hit = "other"]
    /\ UNCHANGED <<file, offers, history>>

\* Without a link, writing throws in an executor that is async: nothing may catch it
\* and the process ends, or the exchange times out.
Unlinked(r) ==
    /\ ~Linked(r) /\ UNCHANGED faults
    /\ \/ At(r, "hello") /\ (Throw(r, "other") \/ End(r, "error", 0, "other"))
       \/ At(r, "prove") /\ End(r, "error", 0, "other")

\* saveSession reads the file again, then persist opens it, which empties it, and writes.
saveSession(r) ==
    /\ At(r, "save")
    /\ run' = [run EXCEPT ![r].at = "open", ![r].list = Saved(run[r].of)]
    /\ UNCHANGED <<file, lock, offers, history, faults>>

Writing == {s \in Runs : At(s, "write")}

persistOpens(r) ==
    /\ At(r, "open")
    /\ file' = Torn
    /\ run' = [s \in Runs |->
          IF s = r THEN [run[s] EXCEPT !.at = "write", !.crossed = (Writing # {})]
          ELSE IF s \in Writing THEN [run[s] EXCEPT !.crossed = TRUE] ELSE run[s]]
    /\ UNCHANGED <<lock, offers, history, faults>>

persistWrites(r) ==
    /\ At(r, "write")
    /\ file' \in {run[r].list} \cup (IF run[r].crossed THEN {Torn} ELSE {})
    /\ run' = [run EXCEPT ![r].at = "ready", ![r].list = <<>>, ![r].crossed = FALSE]
    /\ UNCHANGED <<lock, offers, history, faults>>

\* It throws: before the file is open, or while it is written.
PersistFails(r) ==
    /\ At(r, "open") \/ At(r, "write")
    /\ Fault("disk") /\ End(r, "error", 0, "other")

\* MODE=warm: nothing more.
Warmed(r) ==
    /\ At(r, "ready") /\ run[r].mode = "warm"
    /\ End(r, "ok", 0, run[r].hit) /\ UNCHANGED faults

\* The lock obeys what is enciphered for its open session. openLock is not answered;
\* a write that fails may have arrived. An OP that is none of the three throws before
\* the write, as one that fails and has not arrived.
Obeys(r) == Linked(r) /\ lock.open = run[r].of

openLock(r) ==
    /\ At(r, "ready") /\ run[r].mode = "unlock"
    /\ LET ran == IF Obeys(r) THEN 1 ELSE 0
       IN  \/ Linked(r) /\ UNCHANGED faults /\ End(r, "ok", ran, run[r].hit)
           \/ Linked(r) /\ Fault("command") /\ \E n \in {0, ran} : End(r, "error", n, "other")
           \/ ~Linked(r) /\ UNCHANGED faults /\ End(r, "error", 0, run[r].hit)

\* The status is what the lock answers, within 5 s.
getDoorLockStatus(r) ==
    /\ At(r, "ready") /\ run[r].mode = "status"
    /\ \/ Obeys(r) /\ UNCHANGED faults /\ End(r, "ok", 0, run[r].hit)
       \/ Obeys(r) /\ Fault("command") /\ End(r, "error", 0, "other")
       \/ ~Obeys(r) /\ UNCHANGED faults /\ End(r, "error", 0, run[r].hit)

Kill(r) == run[r] # Idle /\ Fault("kill") /\ End(r, "error", 0, "other")

-----------------------------------------------------------------------------
(* The lock by itself.                                                     *)

Drop(r) ==
    /\ Linked(r) /\ Fault("drop")
    /\ lock' \in Freed(r)
    /\ run' = [run EXCEPT ![r].hit = "other"]
    /\ UNCHANGED <<file, offers, history>>

\* It changes its key while nobody is connected.
Rotate ==
    /\ lock.link = NoRun /\ lock.dev < MaxKeys
    /\ lock' = [lock EXCEPT !.dev = @ + 1, !.open = NoSession]
    /\ warm' = FALSE
    /\ run' = [r \in Runs |-> IF run[r] = Idle THEN Idle ELSE [run[r] EXCEPT !.warm = FALSE]]
    /\ UNCHANGED <<file, offers, last, overlapped, starts, faults>>

Replay(r) == connect(r) \/ helloReplay(r) \/ prove(r)
Handshake(r) == login(r) \/ publickey(r) \/ hello(r) \/ verify(r)
Save(r) == saveSession(r) \/ persistOpens(r) \/ persistWrites(r)
Action(r) == Warmed(r) \/ openLock(r) \/ getDoorLockStatus(r)
Fails(r) ==
    \/ CloudFails(r) \/ ScanTimeout(r) \/ DiscoverFails(r) \/ HelloTimeout(r) \/ ProofLost(r)
    \/ Unlinked(r) \/ PersistFails(r) \/ Kill(r) \/ Drop(r)

Next ==
    \/ \E r \in Runs : \/ \E mode \in Modes : Start(r, mode)
                       \/ Replay(r) \/ Handshake(r) \/ Save(r) \/ Action(r) \/ Fails(r)
    \/ Rotate

Spec == Init /\ [][Next]_vars

-----------------------------------------------------------------------------
(* Properties.                                                             *)

\* A process that meets no fault, or only one in the replay that the fallback to the
\* cloud is there for (ble_unlock_fast.ts:70), ends well: the lock has opened if that
\* was asked, whatever has become of the file and of the lock's key before and while
\* another process does the same.
FallbackSucceeds ==
    last.hit # "other" =>
        /\ last.end = "ok"
        /\ last.ran = IF last.mode = "unlock" THEN 1 ELSE 0

\* "Session sẵn sàng, lần mở sau sẽ chạy fast path" (ble_unlock_fast.ts:109): after a
\* process that ended well, the next one does not ask the cloud unless the lock has
\* changed its key or a fault hits it. With two processes at a time this may fail.
NextIsOffline ==
    ~overlapped /\ last.warm /\ last.hit = "no" => last.path = "cached"
=============================================================================
