---------------------------- MODULE PhoneSession ----------------------------
(***************************************************************************)
(* The Bluetooth sessions of the phone app with one lock:                  *)
(* app/src/ble/LockController.ts over BlePlxClient.ts and sessionCache.ts, *)
(* started and stopped by app/src/screens/LockDetailScreen.tsx, with the   *)
(* lock and the cloud around it.  A session is known by the key that the   *)
(* cloud offered for it and the key that the lock answered; the cache      *)
(* keeps sessions, the newest first, to replay them without the cloud.     *)
(***************************************************************************)
EXTENDS Integers, Sequences

CONSTANTS
    MAX_SESSIONS,  \* sessions that the cache keeps
    MaxKeys,       \* bound: keys that the lock changes to
    MaxOffers,     \* bound: handshakes that the cloud takes part in
    MaxCalls,      \* bound: calls of the screen
    MaxFaults      \* bound: lost links, exchanges, reports and cloud calls

ASSUME ParametersAssumption ==
    /\ MAX_SESSIONS \in Nat \ {0} /\ MaxKeys \in Nat \ {0}
    /\ MaxOffers \in Nat /\ MaxCalls \in Nat /\ MaxFaults \in Nat

VARIABLES
    lock,        \* its key, its handshake channel, its session, the passwords it holds
    link,        \* phone and lock are connected
    offers,      \* keys that the cloud has offered
    registered,  \* passwords that the cloud knows of
    mem,         \* the cached sessions
    late,        \* sessions that closed screens have still to save
    app,         \* the controller of the open screen and the call it is in
    last,        \* how the last call ended
    calls, faults \* bounds

vars == <<lock, link, offers, registered, mem, late, app, last, calls, faults>>

Sessions == [offer : 1..MaxOffers, dev : 1..MaxKeys]
NoSession == [offer |-> 0, dev |-> 0]

\* channel: the offer that 0610 brought on this link, or 0.
Lock == [dev : 1..MaxKeys, channel : 0..MaxOffers, open : Sessions \cup {NoSession},
         slots : Nat]

Calls == {"connect", "unlock", "setValidity", "createPassword", "deleteUserGroup"}
Stages == {"closed", "failed", "idle", "connect", "probe", "replay", "clean", "publickey",
           "0610", "verify", "0710", "fallback", "reconnect", "write", "resend",
           "rewrite", "validity"}

\* active, cached and unverified are activeKey, lastUsedCache, lastUsedUnverifiedCache;
\* of and offer are what the handshake is about; ran counts how often the lock has done
\* what the call asks, sure that its session was cached or alive, since the faults so far.
App == [at : Stages, call : Calls, fresh : BOOLEAN, active : Sessions \cup {NoSession},
        cached : BOOLEAN, unverified : BOOLEAN, of : Sessions \cup {NoSession},
        offer : 0..MaxOffers, ran : Nat, sure : BOOLEAN, since : 0..MaxFaults]
Closed == [at |-> "closed", call |-> "connect", fresh |-> FALSE, active |-> NoSession,
           cached |-> FALSE, unverified |-> FALSE, of |-> NoSession, offer |-> 0,
           ran |-> 0, sure |-> TRUE, since |-> 0]

Ends == {"ok", "noack", "error"}

TypeOK ==
    /\ lock \in Lock /\ link \in BOOLEAN
    /\ offers \in 0..MaxOffers /\ registered \in Nat
    /\ mem \in Seq(Sessions) /\ Len(mem) <= MAX_SESSIONS
    /\ late \subseteq Sessions
    /\ app \in App
    /\ last \in [call : Calls, end : Ends, ran : Nat, sure : BOOLEAN, clean : BOOLEAN]
    /\ calls \in 0..MaxCalls /\ faults \in 0..MaxFaults

Init ==
    /\ lock = [dev |-> 1, channel |-> 0, open |-> NoSession, slots |-> 0]
    /\ link = FALSE /\ offers = 0 /\ registered = 0
    /\ mem = <<>> /\ late = {} /\ app = Closed
    /\ last = [call |-> "connect", end |-> "ok", ran |-> 0, sure |-> TRUE, clean |-> TRUE]
    /\ calls = 0 /\ faults = 0

Fault == faults < MaxFaults /\ faults' = faults + 1

-----------------------------------------------------------------------------
(* The session cache.                                                      *)

findLatestByDid == IF mem = <<>> THEN NoSession ELSE mem[1]

\* No key has two sessions (OnePerKey): what filter drops is what findIndex finds.
Matches(dev) == {i \in 1..Len(mem) : mem[i].dev = dev}
findIndex(dev) == CHOOSE i \in Matches(dev) : \A j \in Matches(dev) : i <= j
findByDevicePublicKey(dev) == IF Matches(dev) = {} THEN NoSession ELSE mem[findIndex(dev)]
Without(dev) ==
    IF Matches(dev) = {} THEN mem
    ELSE SubSeq(mem, 1, findIndex(dev) - 1) \o SubSeq(mem, findIndex(dev) + 1, Len(mem))

\* One session is kept for each key of the lock, at the head; the oldest are dropped.
saveSession(e) ==
    LET next == <<e>> \o Without(e.dev)
    IN  mem' = SubSeq(next, 1, IF Len(next) > MAX_SESSIONS THEN MAX_SESSIONS ELSE Len(next))

touchSession(e) ==
    mem' = IF Matches(e.dev) = {} THEN mem
           ELSE <<mem[findIndex(e.dev)]>> \o Without(e.dev)

clearSessionsForDid == mem' = <<>>

-----------------------------------------------------------------------------
(* The lock, as far as the controller counts on it.                        *)

\* 0610 starts an exchange on a link that has had none, and is dropped otherwise.
Hears(l, offer) == IF l.channel = 0 THEN [l EXCEPT !.channel = offer] ELSE l

\* 0710 opens the session it proves.
Proves(l, s) ==
    IF l.channel = s.offer /\ l.dev = s.dev THEN [l EXCEPT !.open = s] ELSE l

\* A command counts if it is enciphered for the open session.
Obeys(s) == link /\ lock.open = s /\ s # NoSession

\* Without a link there is no exchange; the session may outlive it.
Unlinked(l) == {[l EXCEPT !.channel = 0], [l EXCEPT !.channel = 0, !.open = NoSession]}

Drop == /\ link /\ link' = FALSE /\ Fault
        /\ lock' \in Unlinked(lock)
        /\ UNCHANGED <<offers, registered, mem, late, app, last, calls>>

\* The lock changes its key while nobody is connected.
Rotate == /\ ~link /\ lock.dev < MaxKeys
          /\ lock' = [lock EXCEPT !.dev = @ + 1, !.open = NoSession]
          /\ UNCHANGED <<link, offers, registered, mem, late, app, last, calls, faults>>

-----------------------------------------------------------------------------
(* How a call ends and how the next stage is reached.                      *)

At(stage) == app' = [app EXCEPT !.at = stage]

\* The first handshake decides whether the screen is ready; a failed call leaves it so.
Return(end, ran) ==
    /\ app' = [app EXCEPT !.at = IF app.call = "connect" THEN "failed" ELSE "idle", !.ran = ran]
    /\ last' = [call |-> app.call, end |-> end, ran |-> ran, sure |-> app.sure,
                clean |-> faults' = app.since]

Throw == Return("error", app.ran)

\* ensureSession keeps the key and the call goes on.
Established(s, cached, unverified) ==
    /\ IF app.call = "connect"
       THEN /\ app' = [app EXCEPT !.at = "idle", !.active = s, !.cached = cached,
                                  !.unverified = unverified]
            /\ last' = [call |-> "connect", end |-> "ok", ran |-> 0, sure |-> TRUE,
                        clean |-> faults' = app.since]
       ELSE /\ app' = [app EXCEPT !.at = "write", !.active = s, !.cached = cached,
                                  !.unverified = unverified]
            /\ UNCHANGED last

\* A call may need two offers.
Begins == calls < MaxCalls /\ calls' = calls + 1 /\ offers + 2 <= MaxOffers

\* connectSession, when the page opens or the user retries.
Open ==
    /\ app.at \in {"closed", "failed"} /\ Begins
    /\ app' = [Closed EXCEPT !.at = "connect", !.since = faults]
    /\ link' = FALSE /\ lock' \in Unlinked(lock)
    /\ UNCHANGED <<offers, registered, mem, late, last, faults>>

LateSave ==
    \E e \in late :
        /\ late' = late \ {e} /\ saveSession(e)
        /\ UNCHANGED <<lock, link, offers, registered, app, last, calls, faults>>

\* The list of locks has a button to forget every session.
clearAllSessions ==
    /\ app.at = "closed" /\ mem # <<>> /\ mem' = <<>>
    /\ UNCHANGED <<lock, link, offers, registered, late, app, last, calls, faults>>

-----------------------------------------------------------------------------
(* ensureSession and the handshake.                                        *)

\* A call keeps the active key, after connecting again if the link is gone.
Call(c) ==
    /\ app.at = "idle" /\ Begins
    /\ app' = [app EXCEPT !.call = c, !.fresh = FALSE, !.ran = 0, !.since = faults,
                 !.sure = app.active = NoSession \/ app.cached
                            \/ Obeys(app.active),
                 !.at = CASE app.active = NoSession -> "connect"
                          [] app.active # NoSession /\ link -> "write"
                          [] OTHER -> "reconnect"]
    /\ UNCHANGED <<lock, link, offers, registered, mem, late, last, faults>>

\* What follows a connection: the cached session is probed unless it is not wanted,
\* and a probed channel is used no further.
AfterConnect ==
    CASE app.at = "connect" /\ ~app.fresh /\ mem # <<>> -> "probe"
      [] app.at \in {"connect", "clean"} -> "publickey"
      [] app.at = "reconnect" -> "write"
      [] app.at = "resend" -> "rewrite"

\* connectWithRetry: one of six attempts succeeds, or none.
connectWithRetry ==
    /\ app.at \in {"connect", "clean", "reconnect", "resend"}
    /\ \/ /\ link' = TRUE /\ UNCHANGED faults
          /\ IF link THEN lock' \in Unlinked(lock) ELSE UNCHANGED lock
          /\ app' = [app EXCEPT !.at = AfterConnect, !.offer = 0,
                        !.of = IF AfterConnect = "probe" THEN findLatestByDid ELSE NoSession]
          /\ UNCHANGED last
       \/ /\ Fault /\ link' = FALSE /\ lock' \in Unlinked(lock) /\ Throw
    /\ UNCHANGED <<offers, registered, mem, late, calls>>

\* Defective variant: the fresh handshake goes on where the probe has left the channel.
probe_unclean ==
    /\ app.at = "probe"
    /\ lock' = IF link THEN Hears(lock, app.of.offer) ELSE lock
    /\ LET hit == findByDevicePublicKey(lock.dev)
       IN  \/ /\ link /\ UNCHANGED faults
              /\ app' = IF hit # NoSession THEN [app EXCEPT !.at = "replay", !.of = hit]
                                       ELSE [app EXCEPT !.at = "publickey"]
           \/ ~link /\ UNCHANGED faults /\ At("publickey")
           \/ Fault /\ At("publickey")
    /\ UNCHANGED <<link, offers, registered, mem, late, last, calls>>

\* 0610 with the offer of the latest session. If the lock answers with a key that a
\* session is cached for, that session is replayed; otherwise the link is closed.
probe ==
    /\ app.at = "probe"
    /\ LET hit == findByDevicePublicKey(lock.dev)
       IN  \/ /\ link /\ hit # NoSession /\ lock' = Hears(lock, app.of.offer)
              /\ app' = [app EXCEPT !.at = "replay", !.of = hit]
              /\ UNCHANGED <<link, faults>>
           \/ /\ IF link /\ hit # NoSession THEN Fault ELSE UNCHANGED faults
              /\ At("clean") /\ link' = FALSE /\ lock' \in Unlinked(lock)
    /\ UNCHANGED <<offers, registered, mem, late, last, calls>>

\* 0610, if the session has another offer than the probe, and 0710; neither has to be
\* answered.
Replayed(s) ==
    IF link THEN \/ lock' = Proves(Hears(lock, s.offer), s) /\ UNCHANGED faults
                 \/ Fault /\ lock' \in {lock, Hears(lock, s.offer)}
            ELSE UNCHANGED <<lock, faults>>

replay ==
    /\ app.at = "replay"
    /\ Replayed(app.of) /\ touchSession(app.of) /\ Established(app.of, TRUE, FALSE)
    /\ UNCHANGED <<link, offers, registered, late, calls>>

\* An error that means that the cloud cannot be reached lets a cached session do, if
\* the call does not insist on a fresh one; any other is the caller's.
Unavailable(hit) ==
    \/ /\ ~app.fresh /\ hit # NoSession
       /\ app' = [app EXCEPT !.at = "fallback", !.of = hit] /\ UNCHANGED last
    \/ Throw

publickey ==
    /\ app.at = "publickey"
    /\ \/ /\ offers' = offers + 1 /\ UNCHANGED <<faults, last>>
          /\ app' = [app EXCEPT !.at = "0610", !.offer = offers']
       \/ Fault /\ UNCHANGED offers /\ Unavailable(findLatestByDid)
    /\ UNCHANGED <<lock, link, registered, mem, late, calls>>

\* Only an exchange that the lock takes up is answered.
hello ==
    /\ app.at = "0610"
    /\ \/ /\ link /\ lock.channel = 0 /\ lock' = Hears(lock, app.offer)
          /\ app' = [app EXCEPT !.at = "verify", !.of = [offer |-> app.offer, dev |-> lock.dev]]
          /\ UNCHANGED <<faults, last>>
       \/ (~link \/ lock.channel # 0) /\ UNCHANGED <<lock, faults>> /\ Throw
       \/ link /\ Fault /\ lock' \in {lock, Hears(lock, app.offer)} /\ Throw
    /\ UNCHANGED <<link, offers, registered, mem, late, calls>>

verify ==
    /\ app.at = "verify"
    /\ \/ At("0710") /\ UNCHANGED <<faults, last>>
       \/ Fault /\ Unavailable(findByDevicePublicKey(app.of.dev))
    /\ UNCHANGED <<lock, link, offers, registered, mem, late, calls>>

\* The answer to 0710 is not looked at.
login ==
    /\ app.at = "0710"
    /\ IF link THEN \/ lock' = Proves(lock, app.of) /\ UNCHANGED faults
                    \/ Fault /\ UNCHANGED lock
               ELSE UNCHANGED <<lock, faults>>
    /\ saveSession(app.of) /\ Established(app.of, FALSE, FALSE)
    /\ UNCHANGED <<link, offers, registered, late, calls>>

\* Defective variant: every fallback passes for verified.
reuseBestEffort_trusted ==
    /\ app.at = "fallback"
    /\ Replayed(app.of) /\ touchSession(app.of) /\ Established(app.of, TRUE, FALSE)
    /\ UNCHANGED <<link, offers, registered, late, calls>>

\* The session counts as verified if the lock has shown its key in this handshake.
reuseBestEffort ==
    /\ app.at = "fallback"
    /\ Replayed(app.of) /\ touchSession(app.of)
    /\ Established(app.of, TRUE, app.offer = 0)
    /\ UNCHANGED <<link, offers, registered, late, calls>>

-----------------------------------------------------------------------------
(* The calls.                                                              *)

Ran == app.ran + IF Obeys(app.active) THEN 1 ELSE 0

\* Nothing came back on a cached session: it is forgotten and the call starts again on
\* a fresh one, which does not try again.
Retries == app.cached /\ ~app.fresh
Again(l, ran) ==
    /\ app' = [app EXCEPT !.at = "connect", !.fresh = TRUE, !.active = NoSession, !.ran = ran]
    /\ link' = FALSE /\ lock' \in Unlinked(l)
    /\ clearSessionsForDid /\ UNCHANGED last

\* A link that is gone is found out by writing: unlock connects and writes once more,
\* the others give up. A write that takes too long may still arrive. If unlock throws,
\* the screen goes on to the cloud.
unlock ==
    /\ app.at \in {"write", "rewrite"} /\ app.call = "unlock"
    /\ \/ link /\ UNCHANGED faults /\ Return("ok", Ran)
       \/ link /\ Fault /\ \E n \in {app.ran, Ran} : Return("error", n)
       \/ ~link /\ app.at = "write" /\ At("resend") /\ UNCHANGED <<faults, last>>
       \/ ~link /\ app.at = "rewrite" /\ UNCHANGED faults /\ Throw
    /\ UNCHANGED <<lock, link, offers, registered, mem, late, calls>>

\* Of several validities some may be acknowledged, which is no reason to try again, or
\* the writing of one may fail.
InPart ==
    /\ link /\ Fault
    /\ \/ Obeys(app.active) /\ Return("noack", Ran)
       \/ \E n \in {app.ran, Ran} : Return("error", n)

\* Defective variant: the session that was rejected is used again.
setValidity_same ==
    /\ app.at = "write" /\ app.call = "setValidity" /\ UNCHANGED <<lock, link, mem>>
    /\ \/ link /\ Obeys(app.active) /\ UNCHANGED faults /\ Return("ok", Ran)
       \/ /\ link /\ IF Obeys(app.active) THEN Fault ELSE UNCHANGED faults
          /\ IF Retries THEN UNCHANGED <<app, last>> ELSE Return("noack", Ran)
       \/ InPart
       \/ ~link /\ UNCHANGED faults /\ Throw
    /\ UNCHANGED <<offers, registered, late, calls>>

\* Every validity that the lock takes on is acknowledged, unless that is lost.
setValidity ==
    /\ app.at = "write" /\ app.call = "setValidity"
    /\ \/ /\ link /\ Obeys(app.active) /\ UNCHANGED <<lock, link, mem, faults>>
          /\ Return("ok", Ran)
       \/ /\ link /\ IF Obeys(app.active) THEN Fault ELSE UNCHANGED faults
          /\ IF Retries THEN Again(lock, Ran)
                        ELSE Return("noack", Ran) /\ UNCHANGED <<lock, link, mem>>
       \/ InPart /\ UNCHANGED <<lock, link, mem>>
       \/ ~link /\ UNCHANGED <<lock, link, mem, faults>> /\ Throw
    /\ UNCHANGED <<offers, registered, late, calls>>

Programmed == IF Obeys(app.active) THEN [lock EXCEPT !.slots = @ + 1] ELSE lock

\* Defective variant: a session counts as rejected whatever the lock reports.
createPassword_again ==
    /\ app.at = "write" /\ app.call = "createPassword"
    /\ \/ /\ link /\ Obeys(app.active) /\ ~Retries /\ lock' = Programmed
          /\ app' = [app EXCEPT !.at = "validity", !.ran = Ran]
          /\ UNCHANGED <<link, mem, faults, last>>
       \/ /\ link /\ IF Obeys(app.active) /\ ~Retries THEN Fault ELSE UNCHANGED faults
          /\ IF Retries THEN Again(Programmed, Ran)
             ELSE Return("error", Ran) /\ lock' = Programmed /\ UNCHANGED <<link, mem>>
       \/ ~link /\ UNCHANGED <<lock, link, mem, faults>> /\ Throw
    /\ UNCHANGED <<offers, registered, late, calls>>

\* The lock programs the password and reports where, unless that is lost.
createPassword ==
    /\ app.at = "write" /\ app.call = "createPassword"
    /\ \/ /\ link /\ Obeys(app.active) /\ lock' = Programmed
          /\ app' = [app EXCEPT !.at = "validity", !.ran = Ran]
          /\ UNCHANGED <<link, mem, faults, last>>
       \/ /\ link /\ IF Obeys(app.active) THEN Fault ELSE UNCHANGED faults
          /\ IF Retries THEN Again(Programmed, Ran)
             ELSE Return("error", Ran) /\ lock' = Programmed /\ UNCHANGED <<link, mem>>
       \/ ~link /\ UNCHANGED <<lock, link, mem, faults>> /\ Throw
    /\ UNCHANGED <<offers, registered, late, calls>>

\* Then the screen tells the cloud of the password.
addCredentialMeta ==
    /\ app.at = "validity"
    /\ \/ /\ link /\ registered' = registered + 1 /\ UNCHANGED faults
          /\ Return("ok", app.ran)
       \/ link /\ Fault /\ Throw /\ UNCHANGED registered
       \/ ~link /\ UNCHANGED <<registered, faults>> /\ Throw
    /\ UNCHANGED <<lock, link, offers, mem, late, calls>>

\* What the controller asks for is cut off with its connection or, while it scans for the
\* lock, with its Bluetooth manager (ble.destroy); but a handshake that waits for the
\* cloud's verdict goes on and saves it. Leaving in the middle of a command counts among
\* the faults.
Close ==
    /\ app.at # "closed" /\ app' = Closed
    /\ IF app.at \in {"write", "rewrite", "validity"} THEN Fault ELSE UNCHANGED faults
    /\ link' = FALSE
    /\ \/ lock' \in Unlinked(lock)
       \/ app.at = "write" /\ app.call = "createPassword" /\ lock' \in Unlinked(Programmed)
    /\ late' = IF app.at \in {"verify", "0710"} THEN late \cup {app.of} ELSE late
    /\ UNCHANGED <<offers, registered, mem, last, calls>>

\* Nothing tells whether the lock has deleted the user.
deleteUserGroup ==
    /\ app.at = "write" /\ app.call = "deleteUserGroup"
    /\ UNCHANGED <<lock, link, offers, registered, mem, late, calls, faults>>
    /\ IF link THEN Return("ok", Ran) ELSE Throw

-----------------------------------------------------------------------------
Step == \/ connectWithRetry \/ probe \/ replay \/ publickey \/ hello \/ verify \/ login
        \/ reuseBestEffort \/ unlock \/ setValidity \/ createPassword \/ addCredentialMeta
        \/ deleteUserGroup

Next == \/ Step \/ Drop \/ Rotate \/ Open \/ Close \/ LateSave \/ clearAllSessions
        \/ \E c \in Calls \ {"connect"} : Call(c)

Spec == Init /\ [][Next]_vars

\* Every exchange, write and cloud call of the app is answered, fails or times out.
FairSpec == Spec /\ WF_vars(Step)

-----------------------------------------------------------------------------
(* Properties.                                                             *)

\* A call in which nothing fails does what it says, once, whatever has become of the
\* cached session it was started with: a session that the lock no longer has is
\* replaced on the way. (A session that is not from the cache is not replaced.)
CleanCallsSucceed ==
    last.clean /\ last.sure =>
        /\ last.call = "connect" => last.end = "ok"
        /\ last.call \in {"setValidity", "createPassword"} => last.end = "ok" /\ last.ran = 1

\* The lock holds no password that the cloud does not know of, unless something has
\* failed for each, or the page was left before the cloud could be told.
Accounted == app.at # "validity" => lock.slots - registered <= faults

\* A session that counts as verified while the link it was made on lasts is one with the
\* key the lock has then.
VerifiedKey ==
    [][\A s \in Sessions :
          app'.active = s /\ app.active = NoSession /\ ~app'.unverified /\ link
            => s.dev = lock.dev]_vars

\* Every call comes to an end: the retry on a fresh session is not retried.
EveryCallEnds == app.at \notin {"closed", "failed", "idle"} ~> app.at \in {"closed", "failed", "idle"}

=============================================================================
