--------------------------- MODULE BluetoothProofs ---------------------------
(***************************************************************************)
(* Proofs about the programs that reach a lock over Bluetooth.             *)
(*                                                                         *)
(* PhoneSession, the session of the phone app, for any number of cached    *)
(* sessions, keys, calls and faults: a verified session has the lock's     *)
(* key, no password is left on the lock unless something failed, and a     *)
(* call in which nothing fails succeeds; types, among them the limit of    *)
(* the cache.                                                              *)
(*                                                                         *)
(* LockScreen, the page of the app, as the instance Screen, for any number *)
(* of slots, users, operations, reloads and faults: the lock and the cloud *)
(* agree, the validity last set is in force, and no range is for another   *)
(* slot.                                                                   *)
(*                                                                         *)
(* FastUnlock, the desktop tool, as the instance Fast, for any number of   *)
(* processes, sessions in the file, keys and faults: a process whose       *)
(* replay fails is made up for by the cloud, and the next one needs none.  *)
(***************************************************************************)
EXTENDS PhoneSession, LockUsers, DesktopTool, SequenceTheorems, WellFoundedInduction,
        NaturalsInduction, TLAPS

-----------------------------------------------------------------------------
(* The session cache.                                                      *)

\* Sessions and the sequences of them, without the bounds.
Session == [offer : Nat, dev : Nat]

\* The cache keeps one session for each key of the lock (sessionCache.ts:59).
OneEach(s) == \A i, j \in 1..Len(s) : s[i].dev = s[j].dev => i = j
OnePerKey == OneEach(mem)

Cache == mem \in Seq(Session) /\ OnePerKey

\* What is found has the key that was asked for.
LEMMA FoundIndex ==
  ASSUME Cache, NEW dev, Matches(dev) # {}
  PROVE  findIndex(dev) \in 1..Len(mem) /\ mem[findIndex(dev)].dev = dev
  <1>1. PICK i \in Matches(dev) : TRUE  OBVIOUS
  <1>2. \A j \in Matches(dev) : i = j /\ i \in Nat
    BY <1>1 DEF Matches, Cache, OnePerKey, OneEach
  <1>3. \E k \in Matches(dev) : \A j \in Matches(dev) : k <= j
    BY <1>1, <1>2
  <1>4. findIndex(dev) \in Matches(dev)
    BY <1>3 DEF findIndex
  <1> QED  BY <1>4 DEF Matches

LEMMA Found ==
  ASSUME Cache, NEW dev, findByDevicePublicKey(dev) # NoSession
  PROVE  /\ findByDevicePublicKey(dev) \in Session
         /\ findByDevicePublicKey(dev).dev = dev
  <1>1. Matches(dev) # {}  BY DEF findByDevicePublicKey
  <1>2. findIndex(dev) \in 1..Len(mem) /\ mem[findIndex(dev)].dev = dev
    BY <1>1, FoundIndex
  <1> QED  BY <1>1, <1>2 DEF findByDevicePublicKey, Cache

LEMMA Latest ==
  ASSUME Cache, mem # <<>>
  PROVE  findLatestByDid \in Session
  BY DEF findLatestByDid, Cache

\* Without the session of a key the rest is in order, and has not that key.
LEMMA WithoutKey ==
  ASSUME Cache, NEW dev
  PROVE  /\ Without(dev) \in Seq(Session) /\ OneEach(Without(dev))
         /\ \A k \in 1..Len(Without(dev)) : Without(dev)[k].dev # dev
  <1>1. CASE Matches(dev) = {}
    BY <1>1 DEF Without, Matches, Cache, OnePerKey
  <1>2. CASE Matches(dev) # {}
    <2> DEFINE i == findIndex(dev)
               a == SubSeq(mem, 1, i - 1)
               b == SubSeq(mem, i + 1, Len(mem))
    <2>1. i \in 1..Len(mem) /\ mem[i].dev = dev /\ Len(mem) \in Nat
      BY <1>2, FoundIndex DEF Cache
    <2> HIDE DEF i
    <2>2. a \in Seq(Session) /\ Len(a) = i - 1 /\ \A k \in 1..(i - 1) : a[k] = mem[k]
      BY <2>1 DEF Cache
    <2>3. b \in Seq(Session) /\ Len(b) = Len(mem) - i /\ \A k \in 1..(Len(mem) - i) : b[k] = mem[k + i]
      BY <2>1 DEF Cache
    <2>4. Without(dev) = a \o b  BY <1>2 DEF Without, i
    <2> HIDE DEF a, b
    <2>5. /\ Without(dev) \in Seq(Session) /\ Len(Without(dev)) = Len(mem) - 1
          /\ \A k \in 1..(Len(mem) - 1) :
                Without(dev)[k] = mem[IF k < i THEN k ELSE k + 1]
      <3>1. Without(dev) \in Seq(Session) /\ Len(Without(dev)) = Len(mem) - 1
        <4>1. a \o b \in Seq(Session) /\ Len(a \o b) = Len(a) + Len(b)  BY <2>2, <2>3
        <4>2. (i - 1) + (Len(mem) - i) = Len(mem) - 1  BY <2>1
        <4> QED  BY <2>2, <2>3, <2>4, <4>1, <4>2
      <3>2. ASSUME NEW k \in 1..(Len(mem) - 1), k < i
            PROVE  Without(dev)[k] = mem[k]
        BY <2>1, <2>2, <2>3, <2>4, <3>2
      <3>3. ASSUME NEW k \in 1..(Len(mem) - 1), k >= i
            PROVE  Without(dev)[k] = mem[k + 1]
        <4>1. (a \o b)[k] = b[k - (i - 1)]  BY <2>1, <2>2, <2>3, <3>3
        <4>2. k - (i - 1) \in 1..(Len(mem) - i) /\ k - (i - 1) + i = k + 1  BY <2>1, <3>3
        <4> QED  BY <2>3, <2>4, <4>1, <4>2
      <3> QED  BY <2>1, <3>1, <3>2, <3>3
    <2>6. ASSUME NEW k \in 1..(Len(mem) - 1)
          PROVE  /\ (IF k < i THEN k ELSE k + 1) \in 1..Len(mem)
                 /\ (IF k < i THEN k ELSE k + 1) # i
      BY <2>1
    <2>7. \A k \in 1..Len(Without(dev)) : Without(dev)[k].dev # dev
      BY <2>1, <2>5, <2>6 DEF OnePerKey, OneEach, Cache
    <2>8. ASSUME NEW j \in 1..Len(Without(dev)), NEW k \in 1..Len(Without(dev)),
                 Without(dev)[j].dev = Without(dev)[k].dev
          PROVE  j = k
      <3>1. (IF j < i THEN j ELSE j + 1) = (IF k < i THEN k ELSE k + 1)
        BY <2>5, <2>6, <2>8 DEF Cache, OnePerKey, OneEach
      <3> QED  BY <2>1, <2>5, <3>1
    <2> QED  BY <2>5, <2>7, <2>8 DEF OneEach
  <1> QED  BY <1>1, <1>2

\* A session put at the head of those with other keys.
LEMMA AtHead ==
  ASSUME NEW s \in Seq(Session), OneEach(s), NEW e \in Session,
         \A k \in 1..Len(s) : s[k].dev # e.dev
  PROVE  <<e>> \o s \in Seq(Session) /\ OneEach(<<e>> \o s)
  <1> DEFINE t == <<e>> \o s
  <1>1. /\ t \in Seq(Session) /\ Len(t) = Len(s) + 1 /\ t[1] = e
        /\ \A k \in 2..Len(t) : t[k] = s[k - 1]
    OBVIOUS
  <1> HIDE DEF t
  <1>2. ASSUME NEW i \in 1..Len(t), NEW j \in 1..Len(t), t[i].dev = t[j].dev
        PROVE  i = j
    <2>0. \A k \in 2..Len(t) : t[k].dev # e.dev
      <3>1. \A k \in 2..Len(t) : k - 1 \in 1..Len(s)  BY <1>1
      <3> QED  BY <1>1, <3>1
    <2>1. CASE i = 1 \/ j = 1
      <3>1. i # 1 => i \in 2..Len(t)  BY <1>1
      <3>2. j # 1 => j \in 2..Len(t)  BY <1>1
      <3> QED  BY <1>1, <1>2, <2>0, <2>1, <3>1, <3>2
    <2>2. CASE i > 1 /\ j > 1
      <3>1. i - 1 \in 1..Len(s) /\ j - 1 \in 1..Len(s) /\ s[i - 1].dev = s[j - 1].dev
        BY <1>1, <1>2, <2>2
      <3>2. i - 1 = j - 1  BY <3>1 DEF OneEach
      <3> QED  BY <3>2
    <2> QED  BY <2>1, <2>2
  <1> QED  BY <1>1, <1>2 DEF OneEach, t

LEMMA Saved ==
  ASSUME Cache, NEW e \in Session, saveSession(e)
  PROVE  Cache'
  <1> DEFINE t == <<e>> \o Without(e.dev)
             n == IF Len(t) > MAX_SESSIONS THEN MAX_SESSIONS ELSE Len(t)
  <1>1. t \in Seq(Session) /\ OneEach(t)  BY WithoutKey, AtHead
  <1>2. mem' = SubSeq(t, 1, n)  BY DEF saveSession
  <1> HIDE DEF t
  <1>3. n \in 0..Len(t)  BY <1>1, ParametersAssumption
  <1> HIDE DEF n
  <1>4. mem' \in Seq(Session) /\ Len(mem') = n /\ \A i \in 1..n : mem'[i] = t[i]
    BY <1>1, <1>2, <1>3
  <1>5. OneEach(mem)'
    <2> SUFFICES ASSUME NEW i \in 1..n, NEW j \in 1..n, mem'[i].dev = mem'[j].dev
                 PROVE  i = j
      BY <1>4 DEF OneEach
    <2> QED  BY <1>1, <1>3, <1>4 DEF OneEach
  <1> QED  BY <1>4, <1>5 DEF Cache, OnePerKey

LEMMA Touched ==
  ASSUME Cache, NEW e \in Session, touchSession(e)
  PROVE  Cache'
  <1>1. CASE Matches(e.dev) = {}
    BY <1>1 DEF touchSession, Cache, OnePerKey, OneEach
  <1>2. CASE Matches(e.dev) # {}
    <2>1. /\ mem[findIndex(e.dev)] \in Session /\ mem[findIndex(e.dev)].dev = e.dev
          /\ mem' = <<mem[findIndex(e.dev)]>> \o Without(e.dev)
      BY <1>2, FoundIndex DEF Cache, touchSession
    <2>2. mem' \in Seq(Session) /\ OneEach(<<mem[findIndex(e.dev)]>> \o Without(e.dev))
      BY <2>1, WithoutKey, AtHead
    <2> QED  BY <2>1, <2>2 DEF Cache, OnePerKey, OneEach
  <1> QED  BY <1>1, <1>2

LEMMA Emptied ==
  ASSUME mem' = <<>>
  PROVE  Cache'
  BY DEF Cache, OnePerKey, OneEach

-----------------------------------------------------------------------------
(* The inductive invariant.                                                *)

LockShape == [dev : Nat, channel : Nat, open : Session, slots : Nat]
AppShape == [at : Stages, call : Calls, fresh : BOOLEAN, active : Session, cached : BOOLEAN,
             unverified : BOOLEAN, of : Session, offer : Nat, ran : Nat, sure : BOOLEAN,
             since : Nat]

\* What the variables hold, without the bounds.
Shape ==
    /\ lock \in LockShape /\ link \in BOOLEAN /\ offers \in Nat /\ registered \in Nat
    /\ late \subseteq Session /\ app \in AppShape /\ faults \in Nat

\* While the link lasts on which the lock has shown its key, that is its key.
KeyShown ==
    link /\ (app.at \in {"replay", "verify", "0710"} \/ (app.at = "fallback" /\ app.offer # 0))
        => app.of.dev = lock.dev

\* The password of which the cloud is yet to be told is the only one that no fault
\* stands for, and only while the link lasts.
Books == lock.slots - registered <= faults + (IF app.at = "validity" /\ link THEN 1 ELSE 0)

\* Nothing has failed since the call began.
Clean == faults = app.since

\* Then the link holds, the lock follows the handshake, and the call has not yet done
\* what it asks.
OnTrack ==
    /\ app.at \in {"probe", "replay", "publickey", "0610", "verify", "0710", "validity"} => link
    /\ app.at \in {"publickey", "0610"} => lock.channel = 0
    /\ app.at = "0610" => app.offer > 0
    /\ app.at \in {"verify", "0710"} =>
          lock.channel = app.of.offer /\ lock.dev = app.of.dev /\ app.of.offer > 0
    /\ app.at # "fallback"
    /\ app.at \notin {"closed", "failed", "idle", "validity"} => app.ran = 0
    /\ app.at = "validity" => app.ran = 1

\* And if the call's session was cached or alive, the lock obeys it or the call starts
\* again on a fresh one.
InHand ==
    /\ app.at = "write" => link /\ (Obeys(app.active) \/ Retries)
    /\ app.at = "reconnect" => app.cached /\ ~app.fresh
    /\ app.at \notin {"resend", "rewrite"}

Control ==
    /\ app.since <= faults
    /\ ~link => lock.channel = 0
    /\ app.at \in {"probe", "replay"} => ~app.fresh
    /\ app.at = "publickey" => app.offer = 0
    /\ app.at = "validity" => app.call = "createPassword"
    /\ Clean => OnTrack
    /\ Clean /\ app.sure => InHand

Inv == Shape /\ Cache /\ KeyShown /\ Books /\ Control /\ CleanCallsSucceed

LEMMA InitInv == Init => Inv
  <1> SUFFICES ASSUME Init PROVE Inv
    OBVIOUS
  <1>1. Shape  BY DEF Init, Shape, LockShape, AppShape, Session, Closed, NoSession, Stages, Calls
  <1>2. Cache  BY DEF Init, Cache, OnePerKey, OneEach
  <1>3. KeyShown /\ Books /\ CleanCallsSucceed
    BY DEF Init, KeyShown, Books, CleanCallsSucceed, Closed
  <1>4. Control  BY DEF Init, Control, OnTrack, InHand, Closed
  <1> QED  BY <1>1, <1>2, <1>3, <1>4 DEF Inv

-----------------------------------------------------------------------------
(* How a stage follows another.                                            *)

\* What a link that is closed leaves of the lock.
LEMMA UnlinkedShape ==
  ASSUME NEW l \in LockShape, NEW k \in Unlinked(l)
  PROVE  k \in LockShape /\ k.channel = 0 /\ k.slots = l.slots /\ k.dev = l.dev
  <1>1. NoSession \in Session /\ 0 \in Nat  BY DEF NoSession, Session
  <1>2. CASE k = [l EXCEPT !.channel = 0]  BY <1>1, <1>2 DEF LockShape
  <1>3. CASE k = [l EXCEPT !.channel = 0, !.open = NoSession]  BY <1>1, <1>3 DEF LockShape
  <1> QED  BY <1>2, <1>3 DEF Unlinked

LEMMA HearsShape ==
  ASSUME NEW l \in LockShape, NEW offer \in Nat
  PROVE  /\ Hears(l, offer) \in LockShape
         /\ Hears(l, offer) = [l EXCEPT !.channel = IF l.channel = 0 THEN offer ELSE l.channel]
  BY DEF Hears, LockShape

LEMMA ProvesShape ==
  ASSUME NEW l \in LockShape, NEW s \in Session
  PROVE  /\ Proves(l, s) \in LockShape
         /\ Proves(l, s).dev = l.dev /\ Proves(l, s).channel = l.channel
         /\ Proves(l, s).slots = l.slots
         /\ l.channel = s.offer /\ l.dev = s.dev => Proves(l, s).open = s
  BY DEF Proves, LockShape

\* A call that ends leaves nothing to be kept but the accounts.
LEMMA Ended ==
  ASSUME Inv, NEW end, NEW ran \in Nat, Return(end, ran),
         lock' \in LockShape, link' \in BOOLEAN, offers' \in Nat, registered' \in Nat,
         UNCHANGED late, Cache', faults' \in {faults, faults + 1},
         ~link' => lock'.channel = 0, lock'.slots - registered' <= faults',
         faults' = app.since /\ app.sure =>
            /\ app.call # "connect"
            /\ app.call \in {"setValidity", "createPassword"} => end = "ok" /\ ran = 1
  PROVE  Inv'
  <1>1. app \in AppShape /\ app.since \in Nat /\ app.since <= faults /\ faults \in Nat
    BY DEF Inv, Shape, Control, AppShape
  <1>2. /\ app' \in AppShape /\ app'.at \in {"failed", "idle"} /\ app'.since = app.since
        /\ app'.sure = app.sure
    BY <1>1 DEF Return, AppShape, Stages
  <1>3. /\ last'.clean = (faults' = app.since) /\ last'.sure = app.sure /\ last'.call = app.call
        /\ last'.end = end /\ last'.ran = ran
    BY DEF Return
  <1>4. Shape'  BY <1>1, <1>2 DEF Inv, Shape
  <1>5. KeyShown' /\ Books'  BY <1>1, <1>2 DEF KeyShown, Books
  <1>6. Control'
    <2>1. OnTrack' /\ InHand'  BY <1>2 DEF OnTrack, InHand, Obeys, Retries
    <2> QED  BY <1>1, <1>2, <2>1 DEF Control
  <1>7. CleanCallsSucceed'  BY <1>3 DEF CleanCallsSucceed
  <1> QED  BY <1>4, <1>5, <1>6, <1>7 DEF Inv

\* A handshake that ends with a session: the lock obeys it, or it is cached.
LEMMA Settled ==
  ASSUME Inv, NEW s \in Session, NEW cached \in BOOLEAN, NEW unverified \in BOOLEAN,
         Established(s, cached, unverified), app.at \notin {"closed", "failed", "idle", "validity"},
         lock' \in LockShape, lock'.slots = lock.slots, UNCHANGED <<link, offers, registered, late>>,
         Cache', faults' \in {faults, faults + 1}, ~link' => lock'.channel = 0,
         faults' = app.since => link /\ ((lock'.open = s /\ s # NoSession) \/ (cached /\ ~app.fresh))
  PROVE  Inv'
  <1>1. app \in AppShape /\ app.since \in Nat /\ app.since <= faults /\ faults \in Nat
        /\ registered \in Nat /\ lock.slots \in Nat
    BY DEF Inv, Shape, Control, LockShape, AppShape
  <1>2. /\ app' \in AppShape /\ app'.at \in {"write", "idle"} /\ app'.since = app.since
        /\ app'.fresh = app.fresh /\ app'.ran = app.ran /\ app'.active = s /\ app'.cached = cached
    <2>1. {"write", "idle"} \subseteq Stages  BY DEF Stages
    <2>2. CASE app.call = "connect"  BY <1>1, <2>1, <2>2 DEF Established, AppShape
    <2>3. CASE app.call # "connect"  BY <1>1, <2>1, <2>3 DEF Established, AppShape
    <2> QED  BY <2>2, <2>3
  <1>3. CleanCallsSucceed'
    <2>1. CASE app.call = "connect"  BY <2>1 DEF Established, CleanCallsSucceed
    <2>2. CASE app.call # "connect"  BY <2>2 DEF Established, CleanCallsSucceed, Inv
    <2> QED  BY <2>1, <2>2
  <1>4. Shape'  BY <1>1, <1>2 DEF Inv, Shape
  <1>5. KeyShown' /\ Books'  BY <1>1, <1>2 DEF KeyShown, Books, Inv
  <1>6. faults' = app.since => faults = app.since  BY <1>1
  <1>7. OnTrack' \/ ~Clean'
    BY <1>1, <1>2, <1>6 DEF Inv, Control, OnTrack, Clean
  <1>8. InHand' \/ ~Clean'
    BY <1>1, <1>2 DEF InHand, Clean, Obeys, Retries
  <1>9. Control'
    <2>1. app'.since <= faults' /\ (~link' => lock'.channel = 0)  BY <1>1, <1>2
    <2>2. app'.at \notin {"probe", "replay", "publickey", "validity"}  BY <1>2
    <2> QED  BY <1>7, <1>8, <2>1, <2>2 DEF Control
  <1> QED  BY <1>3, <1>4, <1>5, <1>9 DEF Inv

\* A call in which nothing has failed was one before the step as well.
LEMMA Before ==
  ASSUME Inv, faults' \in {faults, faults + 1}
  PROVE  /\ faults' = app.since => Clean /\ faults' = faults /\ OnTrack
         /\ faults' = app.since /\ app.sure => InHand
  BY DEF Inv, Control, Clean, Shape, AppShape

\* What is known of the state before a step.
LEMMA Known ==
  ASSUME Inv
  PROVE  /\ app \in AppShape /\ app.since \in Nat /\ app.ran \in Nat /\ app.offer \in Nat
         /\ app.of \in Session /\ app.since <= faults /\ faults \in Nat
         /\ lock \in LockShape /\ lock.slots \in Nat /\ lock.dev \in Nat
         /\ registered \in Nat /\ offers \in Nat /\ link \in BOOLEAN /\ late \subseteq Session
         /\ Cache /\ KeyShown /\ Books /\ Control /\ CleanCallsSucceed
  BY DEF Inv, Shape, LockShape, AppShape, Control

\* A step that ends no call.
LEMMA Passed ==
  ASSUME Inv, UNCHANGED last, Shape', Cache', KeyShown', Books', Control'
  PROVE  Inv'
  BY DEF Inv, CleanCallsSucceed

-----------------------------------------------------------------------------
(* One lemma for each action.                                              *)

LEMMA DropInv == Inv /\ Drop => Inv'
  <1> SUFFICES ASSUME Inv, Drop PROVE Inv'
    OBVIOUS
  <1> USE Known
  <1>1. lock' \in LockShape /\ lock'.channel = 0 /\ lock'.slots = lock.slots
    BY UnlinkedShape DEF Drop
  <1>2. /\ link' = FALSE /\ faults' = faults + 1
        /\ UNCHANGED <<offers, registered, mem, late, app, last>> /\ link' \in BOOLEAN
    BY DEF Drop, Fault
  <1>3. Shape' /\ Cache'
    <2>1. faults' \in Nat  BY <1>2
    <2>2. Shape'  BY <1>1, <1>2, <2>1 DEF Shape
    <2>3. Cache'  BY <1>2 DEF Cache, OnePerKey
    <2> QED  BY <2>2, <2>3
  <1>4. KeyShown' /\ Books'  BY <1>1, <1>2 DEF KeyShown, Books
  <1>5. ~Clean'  BY <1>2 DEF Clean
  <1>6. Control'  BY <1>1, <1>2, <1>5 DEF Control
  <1> QED  BY <1>2, <1>3, <1>4, <1>6, Passed

LEMMA RotateInv == Inv /\ Rotate => Inv'
  <1> SUFFICES ASSUME Inv, Rotate PROVE Inv'
    OBVIOUS
  <1> USE Known
  <1>1. /\ ~link /\ UNCHANGED <<link, offers, registered, mem, late, app, last, faults>>
        /\ lock'.channel = lock.channel /\ lock'.slots = lock.slots /\ lock' \in LockShape
    <2>1. NoSession \in Session  BY DEF NoSession, Session
    <2>2. lock.dev + 1 \in Nat  OBVIOUS
    <2> QED  BY <2>1, <2>2 DEF Rotate, LockShape
  <1>2. Shape' /\ Cache'  BY <1>1 DEF Shape, Cache, OnePerKey
  <1>3. KeyShown' /\ Books'  BY <1>1 DEF KeyShown, Books
  <1>4. Clean' = Clean  BY <1>1 DEF Clean
  <1>5. OnTrack => OnTrack'  BY <1>1 DEF OnTrack
  <1>6. InHand => InHand'  BY <1>1 DEF InHand
  <1>7. Control'  BY <1>1, <1>4, <1>5, <1>6 DEF Control
  <1> QED  BY <1>1, <1>2, <1>3, <1>7, Passed

LEMMA OpenInv == Inv /\ Open => Inv'
  <1> SUFFICES ASSUME Inv, Open PROVE Inv'
    OBVIOUS
  <1> USE Known
  <1>1. /\ lock' \in LockShape /\ lock'.channel = 0 /\ lock'.slots = lock.slots
    BY UnlinkedShape DEF Open
  <1>2. link' = FALSE /\ UNCHANGED <<offers, registered, mem, late, last, faults>>
    BY DEF Open
  <1>3. /\ app' \in AppShape /\ app'.at = "connect" /\ app'.since = faults /\ app'.ran = 0
    BY DEF Open, Closed, AppShape, Stages, Calls, Session, NoSession
  <1>4. Shape' /\ Cache'  BY <1>1, <1>2, <1>3 DEF Shape, Cache, OnePerKey
  <1>5. KeyShown' /\ Books'
    <2>1. app.at # "validity"  BY DEF Open
    <2> QED  BY <1>1, <1>2, <1>3, <2>1 DEF KeyShown, Books
  <1>6. OnTrack' /\ InHand'  BY <1>3 DEF OnTrack, InHand
  <1>7. Control'  BY <1>1, <1>2, <1>3, <1>6 DEF Control
  <1> QED  BY <1>2, <1>4, <1>5, <1>7, Passed

LEMMA CacheInv == Inv /\ (LateSave \/ clearAllSessions) => Inv'
  <1> SUFFICES ASSUME Inv, LateSave \/ clearAllSessions PROVE Inv'
    OBVIOUS
  <1> USE Known
  <1>1. /\ UNCHANGED <<lock, link, offers, registered, app, last, faults>>
        /\ late' \subseteq Session
    BY DEF LateSave, clearAllSessions
  <1>2. Cache'
    <2>1. CASE LateSave
      <3>1. PICK e \in late : saveSession(e)  BY <2>1 DEF LateSave
      <3> QED  BY <3>1, Saved
    <2>2. CASE clearAllSessions  BY <2>2, Emptied DEF clearAllSessions
    <2> QED  BY <2>1, <2>2
  <1>3. Shape' /\ KeyShown' /\ Books' /\ Clean' = Clean
    BY <1>1 DEF Shape, KeyShown, Books, Clean
  <1>4. OnTrack' = OnTrack /\ InHand' = InHand
    BY <1>1 DEF OnTrack, InHand, Obeys, Retries
  <1>5. Control'  BY <1>1, <1>3, <1>4 DEF Control
  <1> QED  BY <1>1, <1>2, <1>3, <1>5, Passed

LEMMA CallInv == \A c \in Calls : Inv /\ Call(c) => Inv'
  <1> SUFFICES ASSUME NEW c \in Calls, Inv, Call(c) PROVE Inv'
    OBVIOUS
  <1> USE Known
  <1>1. /\ UNCHANGED <<lock, link, offers, registered, mem, late, last, faults>>
        /\ app.at = "idle"
    BY DEF Call
  <1>2. /\ app'.fresh = FALSE /\ app'.ran = 0 /\ app'.since = faults
        /\ app'.active = app.active /\ app'.cached = app.cached
        /\ app'.sure = (app.active = NoSession \/ app.cached \/ Obeys(app.active))
        /\ app'.at = CASE app.active = NoSession -> "connect"
                       [] app.active # NoSession /\ link -> "write"
                       [] OTHER -> "reconnect"
    BY DEF Call, AppShape
  <1>3. /\ app'.at \in {"connect", "write", "reconnect"}
        /\ app'.at = "write" => link /\ app.active # NoSession
        /\ app'.at = "reconnect" => ~link /\ app.active # NoSession
    BY <1>2
  <1>4. app' \in AppShape
    <2>1. app'.at \in Stages  BY <1>3 DEF Stages
    <2>2. app'.sure \in BOOLEAN  BY <1>2
    <2> QED  BY <1>1, <2>1, <2>2 DEF Call, AppShape
  <1>5. Shape' /\ Cache'  BY <1>1, <1>4 DEF Shape, Cache, OnePerKey
  <1>6. KeyShown' /\ Books'  BY <1>1, <1>3 DEF KeyShown, Books
  <1>7. OnTrack'  BY <1>2, <1>3 DEF OnTrack
  <1>8. app'.sure => InHand'
    <2>1. app'.sure /\ app.active # NoSession => app.cached \/ (link /\ lock.open = app.active)
      BY <1>2 DEF Obeys
    <2> QED  BY <1>1, <1>2, <1>3, <2>1 DEF InHand, Obeys, Retries
  <1>9. Control'  BY <1>1, <1>2, <1>3, <1>7, <1>8 DEF Control
  <1> QED  BY <1>1, <1>5, <1>6, <1>9, Passed

LEMMA ConnectInv == Inv /\ connectWithRetry => Inv'
  <1> SUFFICES ASSUME Inv, connectWithRetry PROVE Inv'
    OBVIOUS
  <1> USE Known
  <1>0. /\ app.at \in {"connect", "clean", "reconnect", "resend"}
        /\ UNCHANGED <<offers, registered, mem, late>>
    BY DEF connectWithRetry
  <1>1. CASE /\ link' = TRUE /\ UNCHANGED <<faults, last>>
             /\ IF link THEN lock' \in Unlinked(lock) ELSE UNCHANGED lock
             /\ app' = [app EXCEPT !.at = AfterConnect, !.offer = 0,
                           !.of = IF AfterConnect = "probe" THEN findLatestByDid ELSE NoSession]
    <2>1. lock' \in LockShape /\ lock'.channel = 0 /\ lock'.slots = lock.slots
      BY <1>1, UnlinkedShape DEF Control
    <2>2. /\ AfterConnect \in {"probe", "publickey", "write", "rewrite"}
          /\ AfterConnect = "probe" => mem # <<>> /\ ~app.fresh
          /\ AfterConnect = "write" => app.at = "reconnect"
          /\ AfterConnect = "rewrite" => app.at = "resend"
      BY <1>0 DEF AfterConnect
    <2>3. (IF AfterConnect = "probe" THEN findLatestByDid ELSE NoSession) \in Session
      BY <2>2, Latest DEF NoSession, Session
    <2>4. /\ app' \in AppShape /\ app'.at = AfterConnect /\ app'.since = app.since
          /\ app'.ran = app.ran /\ app'.offer = 0 /\ app'.fresh = app.fresh
          /\ app'.cached = app.cached /\ app'.sure = app.sure
      <3>1. AfterConnect \in Stages  BY <2>2 DEF Stages
      <3> QED  BY <1>1, <2>3, <3>1 DEF AppShape
    <2>5. Shape' /\ Cache'  BY <1>0, <1>1, <2>1, <2>4 DEF Shape, Cache, OnePerKey
    <2>6. KeyShown' /\ Books'  BY <1>0, <1>1, <2>1, <2>2, <2>4 DEF KeyShown, Books
    <2>7. Clean' => OnTrack'
      BY <1>0, <1>1, <2>1, <2>2, <2>4, Before DEF OnTrack, Clean
    <2>8. Clean' /\ app'.sure => InHand'
      BY <1>0, <1>1, <2>2, <2>4, Before DEF InHand, Clean, Retries
    <2>9. Control'  BY <1>1, <2>2, <2>4, <2>7, <2>8 DEF Control
    <2> QED  BY <1>1, <2>5, <2>6, <2>9, Passed
  <1>2. CASE Fault /\ link' = FALSE /\ lock' \in Unlinked(lock) /\ Throw
    <2>1. lock' \in LockShape /\ lock'.channel = 0 /\ lock'.slots = lock.slots
      BY <1>2, UnlinkedShape
    <2>2. link' \in BOOLEAN /\ faults' = faults + 1  BY <1>2 DEF Fault
    <2>3. lock'.slots - registered' <= faults'  BY <1>0, <2>1, <2>2 DEF Books
    <2>4. Cache'  BY <1>0 DEF Cache, OnePerKey
    <2>5. faults' # app.since  BY <2>2
    <2>6. Return("error", app.ran)  BY <1>2 DEF Throw
    <2> QED  BY <1>0, <2>1, <2>2, <2>3, <2>4, <2>5, <2>6, Ended
  <1> QED  BY <1>1, <1>2 DEF connectWithRetry

LEMMA ProbeInv == Inv /\ probe => Inv'
  <1> SUFFICES ASSUME Inv, probe PROVE Inv'
    OBVIOUS
  <1> USE Known
  <1> DEFINE hit == findByDevicePublicKey(lock.dev)
  <1>0. app.at = "probe" /\ UNCHANGED <<offers, registered, mem, late, last>>
    BY DEF probe
  <1>1. CASE /\ link /\ hit # NoSession /\ lock' = Hears(lock, app.of.offer)
             /\ app' = [app EXCEPT !.at = "replay", !.of = hit]
             /\ UNCHANGED <<link, faults>>
    <2>1. hit \in Session /\ hit.dev = lock.dev  BY <1>1, Found
    <2> HIDE DEF hit
    <2>2. lock' \in LockShape /\ lock'.slots = lock.slots /\ lock'.dev = lock.dev
      BY <1>1, HearsShape DEF LockShape, Session
    <2>3. /\ app' \in AppShape /\ app'.at = "replay" /\ app'.of = hit /\ app'.since = app.since
          /\ app'.ran = app.ran /\ app'.fresh = app.fresh
      BY <1>1, <2>1 DEF AppShape, Stages
    <2>4. Shape' /\ Cache'  BY <1>0, <1>1, <2>2, <2>3 DEF Shape, Cache, OnePerKey
    <2>5. KeyShown' /\ Books'  BY <1>0, <1>1, <2>1, <2>2, <2>3 DEF KeyShown, Books
    <2>6. Clean' => OnTrack'  BY <1>0, <1>1, <2>3, Before DEF OnTrack, Clean
    <2>7. InHand'  BY <2>3 DEF InHand
    <2>8. Control'  BY <1>0, <1>1, <2>3, <2>6, <2>7 DEF Control
    <2> QED  BY <1>0, <2>4, <2>5, <2>8, Passed
  <1>2. CASE /\ IF link /\ hit # NoSession THEN Fault ELSE UNCHANGED faults
             /\ At("clean") /\ link' = FALSE /\ lock' \in Unlinked(lock)
    <2>1. faults' \in {faults, faults + 1} /\ faults' \in Nat /\ faults' >= faults
      BY <1>2 DEF Fault
    <2>2. lock' \in LockShape /\ lock'.channel = 0 /\ lock'.slots = lock.slots
      BY <1>2, UnlinkedShape
    <2>3. /\ app' \in AppShape /\ app'.at = "clean" /\ app'.since = app.since
          /\ app'.ran = app.ran /\ link' = FALSE /\ link' \in BOOLEAN
      BY <1>2 DEF At, AppShape, Stages
    <2>4. Shape' /\ Cache'  BY <1>0, <2>1, <2>2, <2>3 DEF Shape, Cache, OnePerKey
    <2>5. KeyShown' /\ Books'  BY <1>0, <2>1, <2>2, <2>3 DEF KeyShown, Books
    <2>6. Clean' => OnTrack'  BY <1>0, <2>1, <2>3, Before DEF OnTrack, Clean
    <2>7. InHand'  BY <2>3 DEF InHand
    <2>8. Control'  BY <2>1, <2>2, <2>3, <2>6, <2>7 DEF Control
    <2> QED  BY <1>0, <2>4, <2>5, <2>8, Passed
  <1> QED  BY <1>1, <1>2 DEF probe

\* What a replayed session leaves of the lock.
LEMMA ReplayedShape ==
  ASSUME Inv, Replayed(app.of)
  PROVE  /\ lock' \in LockShape /\ lock'.slots = lock.slots /\ lock'.dev = lock.dev
         /\ faults' \in {faults, faults + 1}
         /\ ~link => lock'.channel = 0
  <1> USE Known
  <1> DEFINE h == Hears(lock, app.of.offer)
  <1>1. h \in LockShape /\ h.slots = lock.slots /\ h.dev = lock.dev
    BY HearsShape DEF LockShape, Session
  <1> HIDE DEF h
  <1>2. /\ Proves(h, app.of) \in LockShape /\ Proves(h, app.of).slots = lock.slots
        /\ Proves(h, app.of).dev = lock.dev
    BY <1>1, ProvesShape
  <1> QED  BY <1>1, <1>2 DEF Replayed, Fault, Control, h

LEMMA ReplayInv == Inv /\ replay => Inv'
  <1> SUFFICES ASSUME Inv, replay PROVE Inv'
    OBVIOUS
  <1> USE Known
  <1>1. /\ app.at = "replay" /\ Replayed(app.of) /\ touchSession(app.of)
        /\ Established(app.of, TRUE, FALSE) /\ UNCHANGED <<link, offers, registered, late>>
    BY DEF replay
  <1>2. Cache'  BY <1>1, Touched
  <1>3. faults' \in {faults, faults + 1}  BY <1>1, ReplayedShape
  <1>4. faults' = app.since => link /\ ~app.fresh
    BY <1>1, <1>3, Before DEF OnTrack, Control
  <1>5. /\ lock' \in LockShape /\ lock'.slots = lock.slots /\ (~link' => lock'.channel = 0)
    BY <1>1, ReplayedShape
  <1> QED  BY <1>1, <1>2, <1>3, <1>4, <1>5, Settled

LEMMA FallbackInv == Inv /\ reuseBestEffort => Inv'
  <1> SUFFICES ASSUME Inv, reuseBestEffort PROVE Inv'
    OBVIOUS
  <1> USE Known
  <1>1. /\ app.at = "fallback" /\ Replayed(app.of) /\ touchSession(app.of)
        /\ Established(app.of, TRUE, app.offer = 0)
        /\ UNCHANGED <<link, offers, registered, late>>
    BY DEF reuseBestEffort
  <1>2. Cache'  BY <1>1, Touched
  <1>3. faults' \in {faults, faults + 1}  BY <1>1, ReplayedShape
  <1>4. faults' # app.since  BY <1>1, <1>3, Before DEF OnTrack
  <1>5. /\ lock' \in LockShape /\ lock'.slots = lock.slots /\ (~link' => lock'.channel = 0)
    BY <1>1, ReplayedShape
  <1>6. (app.offer = 0) \in BOOLEAN  OBVIOUS
  <1> QED  BY <1>1, <1>2, <1>3, <1>4, <1>5, <1>6, Settled

LEMMA LoginInv == Inv /\ login => Inv'
  <1> SUFFICES ASSUME Inv, login PROVE Inv'
    OBVIOUS
  <1> USE Known
  <1>1. /\ app.at = "0710" /\ saveSession(app.of)
        /\ Established(app.of, FALSE, FALSE) /\ UNCHANGED <<link, offers, registered, late>>
        /\ IF link THEN \/ lock' = Proves(lock, app.of) /\ UNCHANGED faults
                        \/ Fault /\ UNCHANGED lock
                   ELSE UNCHANGED <<lock, faults>>
    BY DEF login
  <1>2. Cache'  BY <1>1, Saved
  <1>3. faults' \in {faults, faults + 1}  BY <1>1 DEF Fault
  <1>4. lock' \in LockShape /\ lock'.slots = lock.slots /\ (~link' => lock'.channel = 0)
    BY <1>1, ProvesShape DEF Control
  <1>5. faults' = app.since => link /\ lock'.open = app.of /\ app.of # NoSession
    <2> SUFFICES ASSUME faults' = app.since
                 PROVE  link /\ lock'.open = app.of /\ app.of # NoSession
      OBVIOUS
    <2>1. /\ link /\ lock.channel = app.of.offer /\ lock.dev = app.of.dev /\ app.of.offer > 0
          /\ faults' = faults
      BY <1>1, <1>3, Before DEF OnTrack
    <2>2. lock' = Proves(lock, app.of)  BY <1>1, <2>1 DEF Fault
    <2> QED  BY <2>1, <2>2, ProvesShape DEF NoSession
  <1> QED  BY <1>1, <1>2, <1>3, <1>4, <1>5, Settled

\* An error that leaves the lock connected as it was, after a fault or outside of the
\* states in which nothing has failed.
LEMMA Thrown ==
  ASSUME Inv, Throw, UNCHANGED <<link, offers, registered, mem, late>>,
         lock' \in LockShape, lock'.slots = lock.slots, ~link => lock'.channel = 0,
         app.at # "validity" \/ ~link \/ Fault, Fault \/ UNCHANGED faults,
         faults' = app.since => ~app.sure
  PROVE  Inv'
  <1> USE Known
  <1>1. faults' \in {faults, faults + 1}  BY DEF Fault
  <1>2. lock'.slots - registered' <= faults'
    <2>1. CASE Fault  BY <2>1 DEF Books, Fault
    <2>2. CASE UNCHANGED faults /\ (app.at # "validity" \/ ~link)  BY <2>2 DEF Books
    <2> QED  BY <2>1, <2>2
  <1>3. Cache'  BY DEF Cache, OnePerKey
  <1>4. Return("error", app.ran)  BY DEF Throw
  <1>5. link' \in BOOLEAN /\ offers' \in Nat /\ registered' \in Nat  OBVIOUS
  <1> QED  BY <1>1, <1>2, <1>3, <1>4, <1>5, Ended

\* A handshake that goes on, or falls back on a cached session of the lock's key.
LEMMA PublickeyInv == Inv /\ publickey => Inv'
  <1> SUFFICES ASSUME Inv, publickey PROVE Inv'
    OBVIOUS
  <1> USE Known
  <1>0. app.at = "publickey" /\ UNCHANGED <<lock, link, registered, mem, late>>
    BY DEF publickey
  <1>1. CASE /\ offers' = offers + 1 /\ UNCHANGED <<faults, last>>
             /\ app' = [app EXCEPT !.at = "0610", !.offer = offers']
    <2>0. offers' \in Nat /\ offers' > 0  BY <1>1
    <2>1. /\ app' \in AppShape /\ app'.at = "0610" /\ app'.offer = offers'
          /\ app'.since = app.since /\ app'.ran = app.ran
      BY <1>1, <2>0 DEF AppShape, Stages
    <2>2. Shape' /\ Cache'  BY <1>0, <1>1, <2>0, <2>1 DEF Shape, Cache, OnePerKey
    <2>3. KeyShown' /\ Books'  BY <1>0, <1>1, <2>1 DEF KeyShown, Books
    <2>4. Clean' => OnTrack'  BY <1>0, <1>1, <2>0, <2>1, Before DEF OnTrack, Clean
    <2>5. InHand'  BY <2>1 DEF InHand
    <2>6. Control'  BY <1>0, <1>1, <2>1, <2>4, <2>5 DEF Control
    <2> QED  BY <1>1, <2>2, <2>3, <2>6, Passed
  <1>2. CASE Fault /\ UNCHANGED offers /\ Unavailable(findLatestByDid)
    <2>0. faults' = faults + 1 /\ faults' # app.since  BY <1>2 DEF Fault
    <2>1. CASE Throw
      BY <1>0, <1>2, <2>0, <2>1, Thrown DEF Control
    <2>2. CASE ~Throw
      <3>1. /\ findLatestByDid # NoSession /\ UNCHANGED last
            /\ app' = [app EXCEPT !.at = "fallback", !.of = findLatestByDid]
        BY <1>2, <2>2 DEF Unavailable
      <3>2. findLatestByDid \in Session  BY <3>1, Latest DEF findLatestByDid
      <3>3. /\ app' \in AppShape /\ app'.at = "fallback" /\ app'.offer = 0
            /\ app'.since = app.since
        BY <1>0, <3>1, <3>2 DEF AppShape, Stages, Control
      <3>4. Shape' /\ Cache'  BY <1>0, <1>2, <2>0, <3>3 DEF Shape, Cache, OnePerKey
      <3>5. KeyShown' /\ Books'  BY <1>0, <2>0, <3>3 DEF KeyShown, Books
      <3>6. Control'  BY <1>0, <2>0, <3>3 DEF Control, Clean
      <3> QED  BY <3>1, <3>4, <3>5, <3>6, Passed
    <2> QED  BY <2>1, <2>2
  <1> QED  BY <1>1, <1>2 DEF publickey

LEMMA HelloInv == Inv /\ hello => Inv'
  <1> SUFFICES ASSUME Inv, hello PROVE Inv'
    OBVIOUS
  <1> USE Known
  <1>0. app.at = "0610" /\ UNCHANGED <<link, offers, registered, mem, late>>
    BY DEF hello
  <1>1. CASE /\ link /\ lock.channel = 0 /\ lock' = Hears(lock, app.offer)
             /\ app' = [app EXCEPT !.at = "verify", !.of = [offer |-> app.offer, dev |-> lock.dev]]
             /\ UNCHANGED <<faults, last>>
    <2>1. /\ lock' \in LockShape /\ lock'.channel = app.offer /\ lock'.slots = lock.slots
          /\ lock'.dev = lock.dev
      BY <1>1, HearsShape DEF LockShape
    <2>2. [offer |-> app.offer, dev |-> lock.dev] \in Session  BY DEF Session
    <2>3. /\ app' \in AppShape /\ app'.at = "verify" /\ app'.of.dev = lock.dev
          /\ app'.of.offer = app.offer /\ app'.since = app.since /\ app'.ran = app.ran
      BY <1>1, <2>2 DEF AppShape, Stages
    <2>4. Shape' /\ Cache'  BY <1>0, <1>1, <2>1, <2>3 DEF Shape, Cache, OnePerKey
    <2>5. KeyShown' /\ Books'  BY <1>0, <1>1, <2>1, <2>3 DEF KeyShown, Books
    <2>6. Clean' => OnTrack'  BY <1>0, <1>1, <2>1, <2>3, Before DEF OnTrack, Clean
    <2>7. InHand'  BY <2>3 DEF InHand
    <2>8. Control'  BY <1>0, <1>1, <2>3, <2>6, <2>7 DEF Control
    <2> QED  BY <1>1, <2>4, <2>5, <2>8, Passed
  <1>2. CASE (~link \/ lock.channel # 0) /\ UNCHANGED <<lock, faults>> /\ Throw
    <2>1. faults' # app.since
      <3>1. faults' = app.since => OnTrack  BY <1>2, Before
      <3> QED  BY <1>0, <1>2, <3>1 DEF OnTrack
    <2> QED  BY <1>0, <1>2, <2>1, Thrown DEF Control
  <1>3. CASE link /\ Fault /\ lock' \in {lock, Hears(lock, app.offer)} /\ Throw
    <2>1. lock' \in LockShape /\ lock'.slots = lock.slots
      BY <1>3, HearsShape DEF LockShape
    <2>2. faults' # app.since  BY <1>3 DEF Fault
    <2> QED  BY <1>0, <1>3, <2>1, <2>2, Thrown
  <1> QED  BY <1>1, <1>2, <1>3 DEF hello

LEMMA VerifyInv == Inv /\ verify => Inv'
  <1> SUFFICES ASSUME Inv, verify PROVE Inv'
    OBVIOUS
  <1> USE Known
  <1> DEFINE hit == findByDevicePublicKey(app.of.dev)
  <1>0. app.at = "verify" /\ UNCHANGED <<lock, link, offers, registered, mem, late>>
    BY DEF verify
  <1>1. CASE At("0710") /\ UNCHANGED <<faults, last>>
    <2>1. /\ app' \in AppShape /\ app'.at = "0710" /\ app'.of = app.of
          /\ app'.since = app.since /\ app'.ran = app.ran
      BY <1>1 DEF At, AppShape, Stages
    <2>2. Shape' /\ Cache'  BY <1>0, <1>1, <2>1 DEF Shape, Cache, OnePerKey
    <2>3. KeyShown' /\ Books'  BY <1>0, <1>1, <2>1 DEF KeyShown, Books
    <2>4. Clean' => OnTrack'  BY <1>0, <1>1, <2>1, Before DEF OnTrack, Clean
    <2>5. InHand'  BY <2>1 DEF InHand
    <2>6. Control'  BY <1>0, <1>1, <2>1, <2>4, <2>5 DEF Control
    <2> QED  BY <1>1, <2>2, <2>3, <2>6, Passed
  <1>2. CASE Fault /\ Unavailable(hit)
    <2>0. faults' = faults + 1 /\ faults' # app.since  BY <1>2 DEF Fault
    <2>1. CASE Throw
      BY <1>0, <1>2, <2>0, <2>1, Thrown DEF Control
    <2>2. CASE ~Throw
      <3>1. /\ hit # NoSession /\ UNCHANGED last
            /\ app' = [app EXCEPT !.at = "fallback", !.of = hit]
        BY <1>2, <2>2 DEF Unavailable
      <3>2. hit \in Session /\ hit.dev = app.of.dev  BY <3>1, Found
      <3> HIDE DEF hit
      <3>3. /\ app' \in AppShape /\ app'.at = "fallback" /\ app'.of = hit
            /\ app'.since = app.since
        BY <3>1, <3>2 DEF AppShape, Stages
      <3>4. Shape' /\ Cache'  BY <1>0, <2>0, <3>3 DEF Shape, Cache, OnePerKey
      <3>5. KeyShown' /\ Books'  BY <1>0, <2>0, <3>2, <3>3 DEF KeyShown, Books
      <3>6. Control'  BY <1>0, <2>0, <3>3 DEF Control, Clean
      <3> QED  BY <3>1, <3>4, <3>5, <3>6, Passed
    <2> QED  BY <2>1, <2>2
  <1> QED  BY <1>1, <1>2 DEF verify

-----------------------------------------------------------------------------
(* The calls, one lemma for each action.                                   *)

LEMMA RanCounts ==
  ASSUME Inv
  PROVE  /\ Ran \in Nat
         /\ Obeys(app.active) => Ran = app.ran + 1
         /\ ~Obeys(app.active) => Ran = app.ran
  BY Known DEF Ran

LEMMA ProgrammedShape ==
  ASSUME Inv
  PROVE  /\ Programmed \in LockShape /\ Programmed.channel = lock.channel
         /\ Programmed.dev = lock.dev
         /\ Obeys(app.active) => Programmed.slots = lock.slots + 1
         /\ ~Obeys(app.active) => Programmed = lock
  BY Known DEF Programmed, LockShape

\* A call that starts again on a fresh session.
LEMMA StartsAgain ==
  ASSUME Inv, app.at = "write", NEW l \in LockShape, Again(l, Ran),
         IF Obeys(app.active) THEN Fault ELSE UNCHANGED faults,
         UNCHANGED <<offers, registered, late>>,
         l.slots - lock.slots <= (IF Obeys(app.active) THEN 1 ELSE 0)
  PROVE  Inv'
  <1> USE Known
  <1>1. /\ lock' \in LockShape /\ lock'.channel = 0 /\ lock'.slots = l.slots
    BY UnlinkedShape DEF Again
  <1>2. link' = FALSE /\ mem' = <<>> /\ UNCHANGED last
    BY DEF Again, clearSessionsForDid
  <1>3. NoSession \in Session  BY DEF NoSession, Session
  <1>4. /\ app' \in AppShape /\ app'.at = "connect" /\ app'.since = app.since
        /\ app'.ran = Ran
    BY <1>3, RanCounts DEF Again, AppShape, Stages
  <1>5. faults' \in Nat /\ faults' \in {faults, faults + 1}  BY DEF Fault
  <1>6. Shape'
    <2>1. link' \in BOOLEAN  BY <1>2
    <2> QED  BY <1>1, <1>4, <1>5, <2>1 DEF Shape
  <1>7. Cache'  BY <1>2, Emptied
  <1>8. KeyShown'  BY <1>2 DEF KeyShown
  <1>9. Books'
    <2>1. lock.slots - registered <= faults  BY DEF Books
    <2>2. l.slots \in Nat  BY DEF LockShape
    <2>3. CASE Obeys(app.active)  BY <1>1, <1>2, <2>1, <2>2, <2>3 DEF Books, Fault
    <2>4. CASE ~Obeys(app.active)  BY <1>1, <1>2, <2>1, <2>2, <2>4 DEF Books
    <2> QED  BY <2>3, <2>4
  <1>10. Clean' => OnTrack'
    <2> SUFFICES ASSUME Clean' PROVE OnTrack'
      OBVIOUS
    <2>1. faults' = app.since  BY <1>4 DEF Clean
    <2>2. app.ran = 0 /\ faults' = faults  BY <1>5, <2>1, Before DEF OnTrack
    <2>3. ~Obeys(app.active)  BY <2>2 DEF Fault
    <2> QED  BY <1>4, <2>2, <2>3, RanCounts DEF OnTrack
  <1>11. InHand'  BY <1>4 DEF InHand
  <1>12. Control'
    <2>1. app'.since <= faults'  BY <1>4, <1>5
    <2> QED  BY <1>1, <1>4, <1>10, <1>11, <2>1 DEF Control
  <1> QED  BY <1>2, <1>6, <1>7, <1>8, <1>12, <1>9, Passed

LEMMA UnlockInv == Inv /\ unlock => Inv'
  <1> SUFFICES ASSUME Inv, unlock PROVE Inv'
    OBVIOUS
  <1> USE Known
  <1>0. /\ app.at \in {"write", "rewrite"} /\ app.call = "unlock"
        /\ UNCHANGED <<lock, link, offers, registered, mem, late>>
    BY DEF unlock
  <1>1. Cache' /\ lock' \in LockShape /\ link' \in BOOLEAN /\ (~link' => lock'.channel = 0)
        /\ offers' \in Nat /\ registered' \in Nat /\ UNCHANGED late
        /\ lock'.slots - registered' <= faults
    BY <1>0 DEF Cache, OnePerKey, Books, Control
  <1>2. CASE link /\ UNCHANGED faults /\ Return("ok", Ran)
    BY <1>0, <1>1, <1>2, RanCounts, Ended
  <1>3. CASE link /\ Fault /\ \E n \in {app.ran, Ran} : Return("error", n)
    <2>1. PICK n \in {app.ran, Ran} : Return("error", n)  BY <1>3
    <2>2. n \in Nat  BY RanCounts
    <2>3. faults' = faults + 1 /\ lock'.slots - registered' <= faults'
      BY <1>0, <1>1, <1>3 DEF Fault, LockShape
    <2>4. faults' # app.since  BY <2>3
    <2> QED  BY <1>1, <2>1, <2>2, <2>3, <2>4, Ended
  <1>4. CASE ~link /\ app.at = "write" /\ At("resend") /\ UNCHANGED <<faults, last>>
    <2>1. /\ app' \in AppShape /\ app'.at = "resend" /\ app'.since = app.since
          /\ app'.ran = app.ran /\ app'.sure = app.sure
      BY <1>4 DEF At, AppShape, Stages
    <2>2. Shape'  BY <1>0, <1>4, <2>1 DEF Shape
    <2>3. KeyShown' /\ Books'  BY <1>0, <1>4, <2>1 DEF KeyShown, Books
    <2>4. Clean' => OnTrack'  BY <1>0, <1>4, <2>1, Before DEF OnTrack, Clean
    <2>5. ~(Clean' /\ app'.sure)  BY <1>0, <1>4, <2>1, Before DEF InHand, Clean
    <2>6. Control'  BY <1>0, <1>4, <2>1, <2>4, <2>5 DEF Control
    <2> QED  BY <1>1, <1>4, <2>2, <2>3, <2>6, Passed
  <1>5. CASE ~link /\ app.at = "rewrite" /\ UNCHANGED faults /\ Throw
    <2>1. ~(faults' = app.since /\ app.sure)  BY <1>0, <1>5, Before DEF InHand
    <2> QED  BY <1>0, <1>5, <2>1, Thrown DEF Control
  <1> QED  BY <1>2, <1>3, <1>4, <1>5 DEF unlock

LEMMA SetValidityInv == Inv /\ setValidity => Inv'
  <1> SUFFICES ASSUME Inv, setValidity PROVE Inv'
    OBVIOUS
  <1> USE Known
  <1>0. /\ app.at = "write" /\ app.call = "setValidity"
        /\ UNCHANGED <<offers, registered, late>>
    BY DEF setValidity
  <1>1. CASE /\ link /\ Obeys(app.active) /\ UNCHANGED <<lock, link, mem, faults>>
             /\ Return("ok", Ran)
    <2>1. Cache' /\ (~link' => lock'.channel = 0) /\ lock'.slots - registered' <= faults'
      BY <1>0, <1>1 DEF Cache, OnePerKey, Books, Control
    <2>2. faults' = app.since => Ran = 1
      BY <1>0, <1>1, Before, RanCounts DEF OnTrack
    <2> QED  BY <1>0, <1>1, <2>1, <2>2, RanCounts, Ended
  <1>2. CASE /\ link /\ IF Obeys(app.active) THEN Fault ELSE UNCHANGED faults
             /\ Retries /\ Again(lock, Ran)
    BY <1>0, <1>2, StartsAgain
  <1>3. CASE /\ link /\ IF Obeys(app.active) THEN Fault ELSE UNCHANGED faults
             /\ ~Retries /\ Return("noack", Ran) /\ UNCHANGED <<lock, link, mem>>
    <2>1. faults' \in {faults, faults + 1}  BY <1>3 DEF Fault
    <2>2. Cache' /\ (~link' => lock'.channel = 0) /\ lock'.slots - registered' <= faults'
      BY <1>0, <1>3, <2>1 DEF Cache, OnePerKey, Books, Control
    <2>3. ~(faults' = app.since /\ app.sure)
      <3>1. faults' = app.since /\ app.sure => Obeys(app.active) /\ faults' = faults
        BY <1>0, <1>3, <2>1, Before DEF InHand
      <3> QED  BY <1>3, <3>1 DEF Fault
    <2> QED  BY <1>0, <1>3, <2>1, <2>2, <2>3, RanCounts, Ended
  <1>4. CASE ~link /\ UNCHANGED <<lock, link, mem, faults>> /\ Throw
    <2>1. ~(faults' = app.since /\ app.sure)  BY <1>0, <1>4, Before DEF InHand
    <2> QED  BY <1>0, <1>4, <2>1, Thrown DEF Control
  <1>5. CASE InPart /\ UNCHANGED <<lock, link, mem>>
    <2>1. PICK end \in {"noack", "error"}, n \in {app.ran, Ran} : Return(end, n)
      BY <1>5 DEF InPart
    <2>2. n \in Nat  BY RanCounts
    <2>3. faults' = faults + 1 /\ faults' # app.since  BY <1>5 DEF InPart, Fault
    <2>4. Cache' /\ (~link' => lock'.channel = 0) /\ lock'.slots - registered' <= faults'
      BY <1>0, <1>5, <2>3 DEF Cache, OnePerKey, Books, Control
    <2> QED  BY <1>0, <1>5, <2>1, <2>2, <2>3, <2>4, Ended
  <1> QED  BY <1>1, <1>2, <1>3, <1>4, <1>5 DEF setValidity

LEMMA CreatePasswordInv == Inv /\ createPassword => Inv'
  <1> SUFFICES ASSUME Inv, createPassword PROVE Inv'
    OBVIOUS
  <1> USE Known
  <1>0. /\ app.at = "write" /\ app.call = "createPassword"
        /\ UNCHANGED <<offers, registered, late>>
    BY DEF createPassword
  <1>1. CASE /\ link /\ Obeys(app.active) /\ lock' = Programmed
             /\ app' = [app EXCEPT !.at = "validity", !.ran = Ran]
             /\ UNCHANGED <<link, mem, faults, last>>
    <2>1. /\ lock' \in LockShape /\ lock'.slots = lock.slots + 1 /\ lock'.channel = lock.channel
      BY <1>1, ProgrammedShape
    <2>2. /\ app' \in AppShape /\ app'.at = "validity" /\ app'.since = app.since
          /\ app'.ran = Ran /\ app'.call = app.call
      BY <1>1, RanCounts DEF AppShape, Stages
    <2>3. Shape' /\ Cache'  BY <1>0, <1>1, <2>1, <2>2 DEF Shape, Cache, OnePerKey
    <2>4. KeyShown' /\ Books'  BY <1>0, <1>1, <2>1, <2>2 DEF KeyShown, Books
    <2>5. Clean' => OnTrack'
      <3>1. Clean' => app.ran = 0  BY <1>0, <1>1, <2>2, Before DEF OnTrack, Clean
      <3> QED  BY <1>1, <2>2, <3>1, RanCounts DEF OnTrack
    <2>6. InHand'  BY <2>2 DEF InHand
    <2>7. Control'  BY <1>0, <1>1, <2>2, <2>5, <2>6 DEF Control
    <2> QED  BY <1>1, <2>3, <2>4, <2>7, Passed
  <1>2. CASE /\ link /\ IF Obeys(app.active) THEN Fault ELSE UNCHANGED faults
             /\ Retries /\ Again(Programmed, Ran)
    <2>1. Programmed \in LockShape
          /\ Programmed.slots - lock.slots <= (IF Obeys(app.active) THEN 1 ELSE 0)
      BY ProgrammedShape
    <2> QED  BY <1>0, <1>2, <2>1, StartsAgain
  <1>3. CASE /\ link /\ IF Obeys(app.active) THEN Fault ELSE UNCHANGED faults
             /\ ~Retries /\ Return("error", Ran) /\ lock' = Programmed /\ UNCHANGED <<link, mem>>
    <2>1. faults' \in {faults, faults + 1}  BY <1>3 DEF Fault
    <2>2. lock' \in LockShape /\ lock'.channel = lock.channel  BY <1>3, ProgrammedShape
    <2>3. lock'.slots - registered' <= faults'
      <3>1. CASE Obeys(app.active)  BY <1>0, <1>3, <3>1, ProgrammedShape DEF Books, Fault
      <3>2. CASE ~Obeys(app.active)  BY <1>0, <1>3, <3>2, ProgrammedShape DEF Books
      <3> QED  BY <3>1, <3>2
    <2>4. ~(faults' = app.since /\ app.sure)
      <3>1. faults' = app.since /\ app.sure => Obeys(app.active) /\ faults' = faults
        BY <1>0, <1>3, <2>1, Before DEF InHand
      <3> QED  BY <1>3, <3>1 DEF Fault
    <2>5. Cache'  BY <1>3 DEF Cache, OnePerKey
    <2> QED  BY <1>0, <1>3, <2>1, <2>2, <2>3, <2>4, <2>5, RanCounts, Ended
  <1>4. CASE ~link /\ UNCHANGED <<lock, link, mem, faults>> /\ Throw
    <2>1. ~(faults' = app.since /\ app.sure)  BY <1>0, <1>4, Before DEF InHand
    <2> QED  BY <1>0, <1>4, <2>1, Thrown DEF Control
  <1> QED  BY <1>1, <1>2, <1>3, <1>4 DEF createPassword

LEMMA AddCredentialMetaInv == Inv /\ addCredentialMeta => Inv'
  <1> SUFFICES ASSUME Inv, addCredentialMeta PROVE Inv'
    OBVIOUS
  <1> USE Known
  <1>0. app.at = "validity" /\ UNCHANGED <<lock, link, offers, mem, late>>
    BY DEF addCredentialMeta
  <1>1. CASE /\ link /\ registered' = registered + 1 /\ UNCHANGED faults
             /\ Return("ok", app.ran)
    <2>1. /\ registered' \in Nat /\ lock'.slots - registered' <= faults' /\ Cache'
          /\ ~link' => lock'.channel = 0
      BY <1>0, <1>1 DEF Books, Cache, OnePerKey, Control
    <2>2. faults' = app.since => app.ran = 1  BY <1>0, <1>1, Before DEF OnTrack
    <2>3. app.call = "createPassword"  BY <1>0 DEF Control
    <2> QED  BY <1>0, <1>1, <2>1, <2>2, <2>3, Ended
  <1>2. CASE link /\ Fault /\ Throw /\ UNCHANGED registered
    <2>1. faults' # app.since  BY <1>2 DEF Fault
    <2> QED  BY <1>0, <1>2, <2>1, Thrown DEF Control
  <1>3. CASE ~link /\ UNCHANGED <<registered, faults>> /\ Throw
    <2>1. faults' # app.since  BY <1>0, <1>3, Before DEF OnTrack
    <2> QED  BY <1>0, <1>3, <2>1, Thrown DEF Control
  <1> QED  BY <1>1, <1>2, <1>3 DEF addCredentialMeta

LEMMA DeleteUserGroupInv == Inv /\ deleteUserGroup => Inv'
  <1> SUFFICES ASSUME Inv, deleteUserGroup PROVE Inv'
    OBVIOUS
  <1> USE Known
  <1>0. /\ app.at = "write" /\ app.call = "deleteUserGroup"
        /\ UNCHANGED <<lock, link, offers, registered, mem, late, faults>>
        /\ Return("ok", Ran) \/ Return("error", app.ran)
    BY DEF deleteUserGroup, Throw
  <1>1. Cache' /\ (~link' => lock'.channel = 0) /\ lock'.slots - registered' <= faults'
    BY <1>0 DEF Cache, OnePerKey, Books, Control
  <1> QED  BY <1>0, <1>1, RanCounts, Ended

LEMMA CloseInv == Inv /\ Close => Inv'
  <1> SUFFICES ASSUME Inv, Close PROVE Inv'
    OBVIOUS
  <1> USE Known
  <1>1. /\ app' = Closed /\ link' = FALSE /\ UNCHANGED <<offers, registered, mem, last>>
        /\ late' \subseteq Session
        /\ IF app.at \in {"write", "rewrite", "validity"} THEN Fault ELSE UNCHANGED faults
    BY DEF Close
  <1>2. /\ lock' \in LockShape /\ lock'.channel = 0
        /\ \/ lock'.slots = lock.slots
           \/ app.at = "write" /\ lock'.slots = Programmed.slots
    BY UnlinkedShape, ProgrammedShape DEF Close
  <1>3. /\ app' \in AppShape /\ app'.at = "closed" /\ app'.since = 0
    BY <1>1 DEF Closed, AppShape, Stages, Calls, Session, NoSession
  <1>4. faults' \in Nat  BY <1>1 DEF Fault
  <1>5. Shape'
    <2>1. link' \in BOOLEAN  BY <1>1
    <2> QED  BY <1>1, <1>2, <1>3, <1>4, <2>1 DEF Shape
  <1>6. Cache' /\ KeyShown'  BY <1>1 DEF Cache, OnePerKey, KeyShown
  <1>7. Books'
    <2>1. lock'.slots \in Nat /\ lock'.slots <= lock.slots + 1
          /\ (app.at # "write" => lock'.slots = lock.slots)
      BY <1>2, ProgrammedShape
    <2>2. CASE app.at \in {"write", "rewrite", "validity"}
      BY <1>1, <1>2, <1>3, <2>1, <2>2 DEF Books, Fault
    <2>3. CASE app.at \notin {"write", "rewrite", "validity"}
      BY <1>1, <1>2, <1>3, <2>1, <2>3 DEF Books
    <2> QED  BY <2>2, <2>3
  <1>8. Control'
    <2>1. OnTrack' /\ InHand'  BY <1>3 DEF OnTrack, InHand
    <2> QED  BY <1>2, <1>3, <1>4, <2>1 DEF Control
  <1> QED  BY <1>1, <1>5, <1>6, <1>7, <1>8, Passed

-----------------------------------------------------------------------------
(* The theorems.                                                           *)

LEMMA StutterInv == Inv /\ UNCHANGED vars => Inv'
  <1> SUFFICES ASSUME Inv, UNCHANGED vars PROVE Inv'
    OBVIOUS
  <1>1. UNCHANGED <<lock, link, offers, registered, mem, late, app, last, faults>>
    BY DEF vars
  <1>2. Shape' /\ Cache' /\ KeyShown' /\ Books'
    BY <1>1 DEF Inv, Shape, Cache, OnePerKey, KeyShown, Books
  <1>3. Clean' = Clean /\ OnTrack' = OnTrack /\ InHand' = InHand
    BY <1>1 DEF Clean, OnTrack, InHand, Obeys, Retries
  <1>4. Control'  BY <1>1, <1>3 DEF Inv, Control
  <1> QED  BY <1>1, <1>2, <1>4, Passed

LEMMA NextInv == Inv /\ [Next]_vars => Inv'
  <1> SUFFICES ASSUME Inv, [Next]_vars PROVE Inv'
    OBVIOUS
  <1>1. CASE Step
    <2>1. CASE connectWithRetry \/ probe \/ replay \/ reuseBestEffort \/ login
      BY <2>1, ConnectInv, ProbeInv, ReplayInv, FallbackInv, LoginInv
    <2>2. CASE publickey \/ hello \/ verify
      BY <2>2, PublickeyInv, HelloInv, VerifyInv
    <2>3. CASE unlock \/ setValidity \/ createPassword \/ addCredentialMeta \/ deleteUserGroup
      BY <2>3, UnlockInv, SetValidityInv, CreatePasswordInv, AddCredentialMetaInv,
         DeleteUserGroupInv
    <2> QED  BY <1>1, <2>1, <2>2, <2>3 DEF Step
  <1>2. CASE Drop \/ Rotate \/ Open \/ Close
    BY <1>2, DropInv, RotateInv, OpenInv, CloseInv
  <1>3. CASE LateSave \/ clearAllSessions  BY <1>3, CacheInv
  <1>4. CASE \E c \in Calls \ {"connect"} : Call(c)
    <2>1. PICK c \in Calls : Call(c)  BY <1>4
    <2> QED  BY <2>1, CallInv
  <1>5. CASE UNCHANGED vars  BY <1>5, StutterInv
  <1> QED  BY <1>1, <1>2, <1>3, <1>4, <1>5 DEF Next

THEOREM Invariance == Spec => []Inv
  <1> QED  BY InitInv, NextInv, PTL DEF Spec

\* The cache never keeps two sessions for one key of the lock, in whatever order the
\* open screen and the handshakes of closed ones save and touch sessions
\* (sessionCache.ts:59-79): what is found for a key is all there is for it.
THEOREM OneSessionPerKey == Spec => []OnePerKey
  <1>1. Inv => OnePerKey  BY DEF Inv, Cache
  <1> QED  BY <1>1, Invariance, PTL

\* Every password on the lock is known to the cloud, or a fault stands for it
\* (LockController.ts createPassword and LockDetailScreen.tsx addCredentialMeta).
THEOREM PasswordsAccounted == Spec => []Accounted
  <1>1. Inv => Accounted  BY Known DEF Accounted, Books
  <1> QED  BY <1>1, Invariance, PTL

\* A call in which nothing fails succeeds, and does what it asks once, whatever the
\* cache holds (LockController.ts ensureSession and the retry on a fresh session).
THEOREM CleanCalls == Spec => []CleanCallsSucceed
  <1>1. Inv => CleanCallsSucceed  BY DEF Inv
  <1> QED  BY <1>1, Invariance, PTL

\* No other action makes a session active.
LEMMA MadeActive ==
  ASSUME Inv, [Next]_vars, app'.active # app.active, app'.active # NoSession
  PROVE  replay \/ login \/ reuseBestEffort
  <1> USE Known
  <1>1. CASE UNCHANGED vars
    <2>1. app' = app  BY <1>1 DEF vars
    <2> QED  BY <2>1
  <1>2. CASE Drop \/ Rotate \/ LateSave \/ clearAllSessions
    BY <1>2 DEF Drop, Rotate, LateSave, clearAllSessions
  <1>3. CASE Open \/ Close
    <2>1. app' = Closed \/ app' = [Closed EXCEPT !.at = "connect", !.since = faults]
      BY <1>3 DEF Open, Close
    <2>2. app'.active = NoSession
      <3>1. Closed.active = NoSession  BY DEF Closed
      <3>2. CASE app' = Closed  BY <3>1, <3>2
      <3>3. CASE app' = [Closed EXCEPT !.at = "connect", !.since = faults]
        BY <3>3 DEF Closed
      <3> QED  BY <2>1, <3>2, <3>3
    <2> QED  BY <2>2
  <1>4. CASE \E c \in Calls \ {"connect"} : Call(c)  BY <1>4 DEF Call, AppShape
  <1>5. ASSUME NEW end, NEW ran, Return(end, ran) PROVE FALSE
    BY <1>5 DEF Return, AppShape
  <1>6. ~Throw  BY <1>5 DEF Throw
  <1>7. ASSUME NEW l, NEW ran, Again(l, ran) PROVE FALSE
    BY <1>7 DEF Again, AppShape
  <1>8. CASE connectWithRetry  BY <1>6, <1>8 DEF connectWithRetry, AppShape
  <1>9. CASE probe \/ publickey \/ hello \/ verify
    BY <1>6, <1>9 DEF probe, publickey, hello, verify, Unavailable, At, AppShape
  <1>10. CASE unlock  BY <1>5, <1>6, <1>10 DEF unlock, At, AppShape
  <1>11. CASE setValidity \/ deleteUserGroup
    BY <1>5, <1>6, <1>7, <1>11 DEF setValidity, InPart, deleteUserGroup
  <1>12. CASE createPassword \/ addCredentialMeta
    BY <1>5, <1>6, <1>7, <1>12 DEF createPassword, addCredentialMeta, AppShape
  <1> QED
    BY <1>1, <1>2, <1>3, <1>4, <1>8, <1>9, <1>10, <1>11, <1>12 DEF Next, Step

\* A session that counts as verified has the key that the lock has, while the link it
\* was made on lasts: a replay, a login and a fallback after the lock's answer are all
\* of the key that the lock has shown (LockController.ts reuseBestEffort).
THEOREM VerifiedHasKey == Spec => VerifiedKey
  <1> DEFINE Verified == \A s \in Sessions :
                 app'.active = s /\ app.active = NoSession /\ ~app'.unverified /\ link
                   => s.dev = lock.dev
  <1>1. Inv /\ [Next]_vars => Verified
    <2> SUFFICES ASSUME Inv, [Next]_vars, NEW s \in Sessions, app'.active = s,
                        app.active = NoSession, ~app'.unverified, link
                 PROVE  s.dev = lock.dev
      OBVIOUS
    <2> USE Known
    <2>1. s # NoSession
      <3>1. s.offer # 0  BY ParametersAssumption DEF Sessions
      <3> QED  BY <3>1 DEF NoSession
    <2>2. replay \/ login \/ reuseBestEffort  BY <2>1, MadeActive
    <2>3. /\ app.at \in {"replay", "0710", "fallback"}
          /\ \E cached, unverified \in BOOLEAN :
                /\ Established(app.of, cached, unverified)
                /\ app.at = "fallback" => unverified = (app.offer = 0)
      BY <2>2 DEF replay, login, reuseBestEffort
    <2>4. app'.active = app.of /\ (app.at = "fallback" => app.offer # 0)
      BY <2>3 DEF Established, AppShape
    <2> QED  BY <2>3, <2>4 DEF KeyShown
  <1> QED  BY <1>1, Invariance, PTL DEF Spec, VerifiedKey

-----------------------------------------------------------------------------
(* Types: the bounds of what the variables hold.                           *)

SessionOrNone == Sessions \cup {NoSession}

\* A lock whose key, exchange and session there have been.
LockWithin(l) ==
    l.dev \in 1..MaxKeys /\ l.channel \in 0..MaxOffers /\ l.open \in SessionOrNone

\* The offers that a call may still need: for the handshake it is to make, and for the
\* second attempt, which makes one, too.
Needed(a) ==
    IF a.at \in {"closed", "failed", "idle", "validity"} THEN 0
    ELSE (IF a.fresh THEN 0 ELSE 1)
         + (IF a.at \in {"connect", "probe", "clean", "publickey"} THEN 1 ELSE 0)

\* A handshake is about a session that there is, or about an offer that was made.
AppWithin(a) ==
    /\ a.active \in SessionOrNone /\ a.of \in SessionOrNone
    /\ a.offer \in 0..MaxOffers /\ a.since \in 0..MaxFaults
    /\ a.at \in {"probe", "replay", "verify", "0710", "fallback"} => a.of \in Sessions
    /\ a.at = "0610" => a.offer > 0

CacheWithin == mem \in Seq(Sessions) /\ Len(mem) <= MAX_SESSIONS /\ late \subseteq Sessions
Reports == [call : Calls, end : Ends, ran : Nat, sure : BOOLEAN, clean : BOOLEAN]
Counters == calls \in 0..MaxCalls /\ faults \in 0..MaxFaults

Within ==
    /\ LockWithin(lock) /\ AppWithin(app) /\ offers + Needed(app) <= MaxOffers
    /\ CacheWithin /\ last \in Reports /\ Counters

LEMMA SessionFields ==
  /\ \A s \in Sessions : s \in Session /\ s # NoSession /\ s.offer \in 0..MaxOffers /\ s.dev \in 1..MaxKeys
  /\ NoSession \in Session /\ NoSession \in SessionOrNone
  BY ParametersAssumption DEF Sessions, Session, NoSession, SessionOrNone

LEMMA InitWithin == Init => Within
  <1> SUFFICES ASSUME Init PROVE Within
    OBVIOUS
  <1> USE ParametersAssumption, SessionFields
  <1>1. LockWithin(lock)  BY DEF Init, LockWithin
  <1>2. AppWithin(app) /\ offers + Needed(app) <= MaxOffers
    BY DEF Init, Closed, AppWithin, Needed
  <1>3. CacheWithin /\ Counters  BY DEF Init, CacheWithin, Counters
  <1>4. last \in Reports  BY DEF Init, Reports, Calls, Ends
  <1> QED  BY <1>1, <1>2, <1>3, <1>4 DEF Within

\* The cache and the sessions that are saved to it.
LEMMA WithoutWithin ==
  ASSUME Cache, CacheWithin, NEW dev
  PROVE  /\ Without(dev) \in Seq(Sessions)
         /\ Len(Without(dev)) = IF Matches(dev) = {} THEN Len(mem) ELSE Len(mem) - 1
  <1>1. CASE Matches(dev) = {}
    BY <1>1 DEF Without, CacheWithin
  <1>2. CASE Matches(dev) # {}
    <2> DEFINE i == findIndex(dev)
               a == SubSeq(mem, 1, i - 1)
               b == SubSeq(mem, i + 1, Len(mem))
    <2>1. i \in 1..Len(mem) /\ Len(mem) \in Nat
      BY <1>2, FoundIndex DEF Cache
    <2> HIDE DEF i
    <2>2. a \in Seq(Sessions) /\ Len(a) = i - 1
      BY <2>1 DEF CacheWithin
    <2>3. b \in Seq(Sessions) /\ Len(b) = Len(mem) - i
      BY <2>1 DEF CacheWithin
    <2>4. Without(dev) = a \o b  BY <1>2 DEF Without, i
    <2> HIDE DEF a, b
    <2>5. a \o b \in Seq(Sessions) /\ Len(a \o b) = Len(a) + Len(b)  BY <2>2, <2>3
    <2>6. (i - 1) + (Len(mem) - i) = Len(mem) - 1  BY <2>1
    <2> QED  BY <1>2, <2>2, <2>3, <2>4, <2>5, <2>6
  <1> QED  BY <1>1, <1>2

LEMMA StoredWithin ==
  ASSUME Cache, CacheWithin, NEW e \in Sessions,
         saveSession(e) \/ touchSession(e) \/ clearSessionsForDid
  PROVE  mem' \in Seq(Sessions) /\ Len(mem') <= MAX_SESSIONS
  <1> USE ParametersAssumption
  <1>0. Len(mem) \in Nat /\ Without(e.dev) \in Seq(Sessions)
        /\ Len(Without(e.dev)) = IF Matches(e.dev) = {} THEN Len(mem) ELSE Len(mem) - 1
    BY WithoutWithin DEF CacheWithin
  <1>1. CASE saveSession(e)
    <2> DEFINE t == <<e>> \o Without(e.dev)
               n == IF Len(t) > MAX_SESSIONS THEN MAX_SESSIONS ELSE Len(t)
    <2>1. t \in Seq(Sessions)  BY <1>0
    <2>2. mem' = SubSeq(t, 1, n)  BY <1>1 DEF saveSession
    <2> HIDE DEF t
    <2>3. n \in 0..Len(t) /\ n <= MAX_SESSIONS  BY <2>1
    <2> HIDE DEF n
    <2> QED  BY <2>1, <2>2, <2>3
  <1>2. CASE touchSession(e)
    <2>1. CASE Matches(e.dev) = {}  BY <1>2, <2>1 DEF touchSession, CacheWithin
    <2>2. CASE Matches(e.dev) # {}
      <3>1. mem[findIndex(e.dev)] \in Sessions
        BY <2>2, FoundIndex DEF CacheWithin
      <3>2. mem' = <<mem[findIndex(e.dev)]>> \o Without(e.dev)
        BY <1>2, <2>2 DEF touchSession
      <3>3. mem' \in Seq(Sessions) /\ Len(mem') = 1 + Len(Without(e.dev))
        BY <1>0, <3>1, <3>2
      <3>4. Len(mem') = Len(mem)  BY <1>0, <2>2, <3>3
      <3> QED  BY <3>3, <3>4 DEF CacheWithin
    <2> QED  BY <2>1, <2>2
  <1>3. CASE clearSessionsForDid  BY <1>3 DEF clearSessionsForDid
  <1> QED  BY <1>1, <1>2, <1>3

\* What the cache gives is a session that there is.
LEMMA HitWithin ==
  ASSUME Cache, CacheWithin, NEW dev
  PROVE  /\ findByDevicePublicKey(dev) \in SessionOrNone
         /\ findLatestByDid \in SessionOrNone
         /\ mem # <<>> => findLatestByDid \in Sessions
  <1>1. findByDevicePublicKey(dev) \in SessionOrNone
    <2>1. CASE Matches(dev) = {}
      BY <2>1 DEF findByDevicePublicKey, SessionOrNone
    <2>2. CASE Matches(dev) # {}
      BY <2>2, FoundIndex DEF findByDevicePublicKey, SessionOrNone, CacheWithin
    <2> QED  BY <2>1, <2>2
  <1>2. mem # <<>> => findLatestByDid \in Sessions
    BY DEF findLatestByDid, CacheWithin
  <1>3. mem = <<>> => findLatestByDid = NoSession
    BY DEF findLatestByDid
  <1> QED  BY <1>1, <1>2, <1>3 DEF SessionOrNone

\* What may become of a lock.
LEMMA LockWithinAfter ==
  ASSUME NEW l \in LockShape, LockWithin(l)
  PROVE  /\ \A k \in Unlinked(l) : LockWithin(k)
         /\ \A offer \in 0..MaxOffers : LockWithin(Hears(l, offer)) /\ Hears(l, offer) \in LockShape
         /\ \A s \in Sessions : LockWithin(Proves(l, s))
  <1> USE ParametersAssumption, SessionFields DEF LockWithin
  <1>1. ASSUME NEW k \in Unlinked(l) PROVE LockWithin(k)
    <2>1. k.dev = l.dev /\ k.channel = 0 /\ k.open \in {l.open, NoSession}
      BY DEF Unlinked, LockShape
    <2> QED  BY <2>1
  <1>2. \A offer \in 0..MaxOffers : LockWithin(Hears(l, offer)) /\ Hears(l, offer) \in LockShape
    BY DEF Hears, LockShape
  <1>3. \A s \in Sessions : LockWithin(Proves(l, s))
    BY DEF Proves, LockShape, SessionOrNone
  <1> QED  BY <1>1, <1>2, <1>3

LEMMA ProgrammedWithin ==
  ASSUME lock \in LockShape, LockWithin(lock)
  PROVE  Programmed \in LockShape /\ LockWithin(Programmed)
  BY DEF Programmed, LockShape, LockWithin

LEMMA NextLockWithin ==
  ASSUME Inv, Within, [Next]_vars
  PROVE  LockWithin(lock)'
  <1>0. lock \in LockShape /\ LockWithin(lock) /\ app.offer \in 0..MaxOffers
    BY Known DEF Within, AppWithin
  <1>1. CASE UNCHANGED lock  BY <1>0, <1>1 DEF LockWithin
  <1>2. CASE lock' \in Unlinked(lock)  BY <1>0, <1>2, LockWithinAfter
  <1>3. CASE lock' = Programmed \/ lock' \in Unlinked(Programmed)
    BY <1>0, <1>3, ProgrammedWithin, LockWithinAfter
  <1>4. ASSUME NEW s \in Sessions,
               lock' \in {lock, Hears(lock, s.offer), Proves(lock, s), Proves(Hears(lock, s.offer), s)}
        PROVE  LockWithin(lock)'
    <2>1. s.offer \in 0..MaxOffers  BY SessionFields
    <2>2. Hears(lock, s.offer) \in LockShape /\ LockWithin(Hears(lock, s.offer))
      BY <1>0, <2>1, LockWithinAfter
    <2>3. LockWithin(Proves(lock, s)) /\ LockWithin(Proves(Hears(lock, s.offer), s))
      BY <1>0, <2>2, LockWithinAfter
    <2> QED  BY <1>0, <1>4, <2>2, <2>3
  <1>5. CASE replay \/ reuseBestEffort \/ login \/ probe
    <2>1. app.of \in Sessions
      BY <1>5 DEF Within, AppWithin, replay, reuseBestEffort, login, probe
    <2>2. \/ lock' \in {lock, Hears(lock, app.of.offer), Proves(lock, app.of),
                        Proves(Hears(lock, app.of.offer), app.of)}
          \/ lock' \in Unlinked(lock)
      BY <1>5 DEF replay, reuseBestEffort, login, probe, Replayed
    <2> QED  BY <1>2, <1>4, <2>1, <2>2
  <1>6. CASE hello
    <2>1. lock' \in {lock, Hears(lock, app.offer)}  BY <1>6 DEF hello
    <2> QED  BY <1>0, <1>1, <2>1, LockWithinAfter
  <1>7. CASE Rotate
    <2>1. lock' = [lock EXCEPT !.dev = @ + 1, !.open = NoSession] /\ lock.dev < MaxKeys
      BY <1>7 DEF Rotate
    <2> QED  BY <1>0, <2>1, ParametersAssumption, SessionFields DEF LockWithin, LockShape
  <1>8. CASE connectWithRetry \/ publickey \/ verify \/ unlock \/ setValidity \/ createPassword
               \/ addCredentialMeta \/ deleteUserGroup
    <2>1. UNCHANGED lock \/ lock' \in Unlinked(lock) \/ lock' = Programmed
          \/ lock' \in Unlinked(Programmed)
      BY <1>8 DEF connectWithRetry, publickey, verify, unlock, setValidity, createPassword,
                  addCredentialMeta, deleteUserGroup, Again
    <2> QED  BY <1>1, <1>2, <1>3, <2>1
  <1>9. CASE Drop \/ Open \/ Close \/ LateSave \/ clearAllSessions \/ UNCHANGED vars
               \/ \E c \in Calls \ {"connect"} : Call(c)
    <2>1. UNCHANGED lock \/ lock' \in Unlinked(lock) \/ lock' \in Unlinked(Programmed)
      BY <1>9 DEF Drop, Open, Close, LateSave, clearAllSessions, Call, vars
    <2> QED  BY <1>1, <1>2, <1>3, <2>1
  <1> QED  BY <1>5, <1>6, <1>7, <1>8, <1>9 DEF Next, Step

\* A call that ends, or that the page waits for, needs no offer.
LEMMA ReturnWithin ==
  ASSUME Inv, Within, NEW end \in Ends, NEW ran \in Nat, Return(end, ran), UNCHANGED offers
  PROVE  AppWithin(app') /\ offers' + Needed(app') <= MaxOffers /\ last' \in Reports
  <1>1. app \in AppShape /\ AppWithin(app) /\ offers \in Nat /\ offers <= MaxOffers
    <2>1. Needed(app) \in Nat  BY DEF Needed
    <2> QED  BY <2>1, Known, ParametersAssumption DEF Within
  <1>2. /\ app'.at \in {"failed", "idle"}
        /\ UNCHANGED <<app.active, app.of, app.offer, app.since>>
    BY <1>1 DEF Return, AppShape
  <1>3. last' \in Reports  BY <1>1 DEF Return, Reports, AppShape
  <1> QED  BY <1>1, <1>2, <1>3 DEF AppWithin, Needed

\* A handshake that gives a session needs no more than the call it was for.
LEMMA EstablishedWithin ==
  ASSUME Inv, Within, NEW cached, NEW unverified, Established(app.of, cached, unverified),
         app.at \in {"replay", "0710", "fallback"}, UNCHANGED offers
  PROVE  AppWithin(app') /\ offers' + Needed(app') <= MaxOffers /\ last' \in Reports
  <1>1. app \in AppShape /\ AppWithin(app) /\ offers \in Nat /\ app.of \in Sessions
        /\ offers + Needed(app) <= MaxOffers /\ last \in Reports /\ app.fresh \in BOOLEAN
    BY Known DEF Within, AppWithin, AppShape
  <1>2. /\ app'.at \in {"write", "idle"} /\ app'.active = app.of
        /\ UNCHANGED <<app.fresh, app.of, app.offer, app.since>>
    BY <1>1 DEF Established, AppShape
  <1>3. last' \in Reports
    <2>1. CASE app.call = "connect"
      <3> DEFINE b == faults' = app.since
      <3>1. b \in BOOLEAN  OBVIOUS
      <3>2. last' = [call |-> "connect", end |-> "ok", ran |-> 0, sure |-> TRUE, clean |-> b]
        BY <2>1 DEF Established
      <3> HIDE DEF b
      <3> QED  BY <3>1, <3>2 DEF Reports, Calls, Ends
    <2>2. CASE app.call # "connect"  BY <1>1, <2>2 DEF Established
    <2> QED  BY <2>1, <2>2
  <1>4. Needed(app') <= Needed(app) /\ Needed(app) \in Nat /\ Needed(app') \in Nat
    BY <1>1, <1>2 DEF Needed
  <1> QED  BY <1>1, <1>2, <1>3, <1>4, ParametersAssumption DEF AppWithin, SessionOrNone

\* The stage changes to one that needs no more.
LEMMA StageWithin ==
  ASSUME Inv, Within, UNCHANGED last, offers' \in Nat, offers' + Needed(app') <= MaxOffers,
         AppWithin(app')
  PROVE  AppWithin(app') /\ offers' + Needed(app') <= MaxOffers /\ last' \in Reports
  BY DEF Within

\* The parts of Within that a step of a call can disturb.
CallWithin == AppWithin(app') /\ offers' + Needed(app') <= MaxOffers /\ last' \in Reports

LEMMA ThrowWithin ==
  ASSUME Inv, Within, Throw, UNCHANGED offers
  PROVE  CallWithin
  <1>1. "error" \in Ends  BY DEF Ends
  <1>2. app.ran \in Nat  BY Known
  <1> QED  BY <1>1, <1>2, ReturnWithin DEF Throw, CallWithin

LEMMA ConnectWithin ==
  ASSUME Inv, Within, connectWithRetry
  PROVE  CallWithin
  <1>0. /\ app \in AppShape /\ AppWithin(app) /\ offers \in Nat /\ UNCHANGED offers
        /\ offers + Needed(app) <= MaxOffers /\ app.fresh \in BOOLEAN
        /\ app.at \in {"connect", "clean", "reconnect", "resend"} /\ last \in Reports
    BY Known DEF Within, AppShape, connectWithRetry
  <1>1. CASE /\ app' = [app EXCEPT !.at = AfterConnect, !.offer = 0,
                           !.of = IF AfterConnect = "probe" THEN findLatestByDid ELSE NoSession]
             /\ UNCHANGED last
    <2>1. /\ AfterConnect \in {"probe", "publickey", "write", "rewrite"}
          /\ AfterConnect = "probe" => app.at = "connect" /\ mem # <<>> /\ ~app.fresh
          /\ AfterConnect \in {"write", "rewrite"} => app.at \in {"reconnect", "resend"}
          /\ AfterConnect = "publickey" => app.at \in {"connect", "clean"}
      BY <1>0 DEF AfterConnect
    <2>2. /\ app'.at = AfterConnect /\ app'.offer = 0
          /\ app'.of = (IF AfterConnect = "probe" THEN findLatestByDid ELSE NoSession)
          /\ UNCHANGED <<app.active, app.since, app.fresh>>
      BY <1>0, <1>1 DEF AppShape
    <2>3. AfterConnect = "probe" => findLatestByDid \in Sessions
      BY <2>1, HitWithin, Known DEF Within
    <2>4. AppWithin(app')
      BY <1>0, <2>1, <2>2, <2>3, ParametersAssumption DEF AppWithin, SessionOrNone
    <2>5. Needed(app') = Needed(app)
      BY <1>0, <2>1, <2>2 DEF Needed
    <2> QED  BY <1>0, <1>1, <2>4, <2>5 DEF CallWithin
  <1>2. CASE Throw  BY <1>0, <1>2, ThrowWithin
  <1> QED  BY <1>1, <1>2 DEF connectWithRetry

LEMMA ProbeWithin ==
  ASSUME Inv, Within, probe
  PROVE  CallWithin
  <1>0. /\ app \in AppShape /\ AppWithin(app) /\ offers \in Nat /\ UNCHANGED <<offers, last>>
        /\ offers + Needed(app) <= MaxOffers /\ app.fresh \in BOOLEAN
        /\ app.at = "probe" /\ last \in Reports
    BY Known DEF Within, AppShape, probe
  <1>1. CASE app' = [app EXCEPT !.at = "clean"]
    BY <1>0, <1>1 DEF CallWithin, AppWithin, Needed, AppShape
  <1>2. ASSUME NEW hit \in Sessions, app' = [app EXCEPT !.at = "replay", !.of = hit]
        PROVE  CallWithin
    <2>1. /\ app'.at = "replay" /\ app'.of = hit
          /\ UNCHANGED <<app.active, app.offer, app.since, app.fresh>>
      BY <1>0, <1>2 DEF AppShape
    <2>2. AppWithin(app')  BY <1>0, <1>2, <2>1 DEF AppWithin, SessionOrNone
    <2>3. Needed(app') <= Needed(app) /\ Needed(app) \in Nat /\ Needed(app') \in Nat
      BY <1>0, <2>1 DEF Needed
    <2> QED  BY <1>0, <2>2, <2>3, ParametersAssumption DEF CallWithin
  <1>3. findByDevicePublicKey(lock.dev) \in SessionOrNone
    BY HitWithin, Known DEF Within
  <1> QED  BY <1>1, <1>2, <1>3 DEF probe, At, SessionOrNone

\* A session in the cache takes the place of the cloud, or the call fails.
LEMMA UnavailableWithin ==
  ASSUME Inv, Within, NEW hit \in SessionOrNone, Unavailable(hit),
         app.at \in {"publickey", "verify"}, UNCHANGED offers
  PROVE  CallWithin
  <1>0. /\ app \in AppShape /\ AppWithin(app) /\ offers \in Nat
        /\ offers + Needed(app) <= MaxOffers /\ app.fresh \in BOOLEAN /\ last \in Reports
    BY Known DEF Within, AppShape
  <1>1. CASE /\ hit \in Sessions /\ UNCHANGED last
             /\ app' = [app EXCEPT !.at = "fallback", !.of = hit]
    <2>1. /\ app'.at = "fallback" /\ app'.of = hit
          /\ UNCHANGED <<app.active, app.offer, app.since, app.fresh>>
      BY <1>0, <1>1 DEF AppShape
    <2>2. AppWithin(app')  BY <1>0, <1>1, <2>1 DEF AppWithin, SessionOrNone
    <2>3. Needed(app') <= Needed(app) /\ Needed(app) \in Nat /\ Needed(app') \in Nat
      BY <1>0, <2>1 DEF Needed
    <2> QED  BY <1>0, <1>1, <2>2, <2>3, ParametersAssumption DEF CallWithin
  <1>2. CASE Throw  BY <1>2, ThrowWithin
  <1> QED  BY <1>1, <1>2 DEF Unavailable, SessionOrNone

LEMMA HandshakeWithin ==
  ASSUME Inv, Within, publickey \/ hello \/ verify
  PROVE  CallWithin
  <1>0. /\ app \in AppShape /\ AppWithin(app) /\ offers \in Nat
        /\ offers + Needed(app) <= MaxOffers /\ app.fresh \in BOOLEAN /\ last \in Reports
        /\ LockWithin(lock) /\ MaxOffers \in Nat
    BY Known, ParametersAssumption DEF Within, AppShape
  <1>h. findLatestByDid \in SessionOrNone /\ findByDevicePublicKey(app.of.dev) \in SessionOrNone
    BY HitWithin, Known DEF Within
  <1>1. CASE publickey
    <2>1. app.at = "publickey"  BY <1>1 DEF publickey
    <2>2. CASE /\ offers' = offers + 1 /\ UNCHANGED last
               /\ app' = [app EXCEPT !.at = "0610", !.offer = offers']
      <3>1. /\ app'.at = "0610" /\ app'.offer = offers'
            /\ UNCHANGED <<app.active, app.of, app.since, app.fresh>>
        BY <1>0, <2>2 DEF AppShape
      <3>2. Needed(app') + 1 = Needed(app) /\ Needed(app') \in Nat
        BY <1>0, <2>1, <3>1 DEF Needed
      <3>3. offers' + Needed(app') <= MaxOffers /\ offers' \in 1..MaxOffers
        BY <1>0, <2>2, <3>2
      <3>4. AppWithin(app')  BY <1>0, <3>1, <3>3 DEF AppWithin
      <3> QED  BY <1>0, <2>2, <3>3, <3>4 DEF CallWithin
    <2>3. CASE Unavailable(findLatestByDid) /\ UNCHANGED offers
      BY <1>h, <2>1, <2>3, UnavailableWithin
    <2> QED  BY <1>1, <2>2, <2>3 DEF publickey
  <1>2. CASE hello
    <2>1. app.at = "0610" /\ UNCHANGED offers  BY <1>2 DEF hello
    <2>2. CASE /\ app' = [app EXCEPT !.at = "verify", !.of = [offer |-> app.offer, dev |-> lock.dev]]
               /\ UNCHANGED last
      <3>1. [offer |-> app.offer, dev |-> lock.dev] \in Sessions
        BY <1>0, <2>1 DEF Sessions, AppWithin, LockWithin
      <3> QED
        BY <1>0, <2>1, <2>2, <3>1 DEF CallWithin, AppWithin, Needed, AppShape, SessionOrNone
    <2>3. CASE Throw  BY <2>1, <2>3, ThrowWithin
    <2> QED  BY <1>2, <2>2, <2>3 DEF hello
  <1>3. CASE verify
    <2>1. app.at = "verify" /\ UNCHANGED offers  BY <1>3 DEF verify
    <2>2. CASE app' = [app EXCEPT !.at = "0710"] /\ UNCHANGED last
      BY <1>0, <2>1, <2>2 DEF CallWithin, AppWithin, Needed, AppShape
    <2>3. CASE Unavailable(findByDevicePublicKey(app.of.dev))
      BY <1>h, <2>1, <2>3, UnavailableWithin
    <2> QED  BY <1>3, <2>2, <2>3 DEF verify, At
  <1> QED  BY <1>1, <1>2, <1>3

LEMMA SessionWithin ==
  ASSUME Inv, Within, replay \/ login \/ reuseBestEffort
  PROVE  CallWithin
  <1>1. app.at \in {"replay", "0710", "fallback"} /\ UNCHANGED offers
        /\ \E cached, unverified : Established(app.of, cached, unverified)
    BY DEF replay, login, reuseBestEffort
  <1> QED  BY <1>1, EstablishedWithin DEF CallWithin

LEMMA AgainWithin ==
  ASSUME Inv, Within, NEW l, NEW ran, Retries, Again(l, ran), app.at = "write", UNCHANGED offers
  PROVE  CallWithin
  <1>0. /\ app \in AppShape /\ AppWithin(app) /\ offers \in Nat
        /\ offers + Needed(app) <= MaxOffers /\ last \in Reports
    BY Known DEF Within
  <1>1. /\ app'.at = "connect" /\ app'.fresh = TRUE /\ app'.active = NoSession
        /\ UNCHANGED <<app.of, app.offer, app.since, last>>
    BY <1>0 DEF Again, AppShape
  <1>2. Needed(app') = 1 /\ Needed(app) = 1  BY <1>1 DEF Needed, Retries
  <1> QED  BY <1>0, <1>1, <1>2, SessionFields DEF CallWithin, AppWithin

LEMMA WriteWithin ==
  ASSUME Inv, Within,
         unlock \/ setValidity \/ createPassword \/ addCredentialMeta \/ deleteUserGroup
  PROVE  CallWithin
  <1>0. /\ app \in AppShape /\ AppWithin(app) /\ offers \in Nat /\ UNCHANGED offers
        /\ offers + Needed(app) <= MaxOffers /\ last \in Reports /\ MaxOffers \in Nat
        /\ app.ran \in Nat /\ Ran \in Nat /\ app.fresh \in BOOLEAN
    BY Known, ParametersAssumption
       DEF Within, Ran, AppShape, unlock, setValidity, createPassword, addCredentialMeta, deleteUserGroup
  <1>1. ASSUME NEW end \in {"ok", "noack", "error"}, NEW ran \in {app.ran, Ran}, Return(end, ran)
        PROVE  CallWithin
    <2>1. end \in Ends /\ ran \in Nat  BY <1>0, <1>1 DEF Ends
    <2> QED  BY <1>0, <1>1, <2>1, ReturnWithin DEF CallWithin
  <1>2. CASE Throw  BY <1>0, <1>2, ThrowWithin
  <1>3. CASE unlock
    <2>1. CASE At("resend") /\ UNCHANGED last
      BY <1>0, <1>3, <2>1 DEF At, unlock, CallWithin, AppWithin, Needed, AppShape
    <2> QED  BY <1>1, <1>2, <1>3, <2>1 DEF unlock
  <1>4. CASE setValidity
    <2>1. app.at = "write"  BY <1>4 DEF setValidity
    <2>2. CASE Retries /\ Again(lock, Ran)  BY <1>0, <2>1, <2>2, AgainWithin
    <2> QED  BY <1>1, <1>2, <1>4, <2>2 DEF setValidity, InPart
  <1>5. CASE createPassword
    <2>1. app.at = "write"  BY <1>5 DEF createPassword
    <2>2. CASE Retries /\ Again(Programmed, Ran)  BY <1>0, <2>1, <2>2, AgainWithin
    <2>3. CASE app' = [app EXCEPT !.at = "validity", !.ran = Ran] /\ UNCHANGED last
      <3>1. /\ app'.at = "validity" /\ UNCHANGED <<app.active, app.of, app.offer, app.since>>
        BY <1>0, <2>3 DEF AppShape
      <3>2. Needed(app') = 0 /\ Needed(app) \in Nat  BY <1>0, <3>1 DEF Needed
      <3> QED  BY <1>0, <2>3, <3>1, <3>2 DEF CallWithin, AppWithin
    <2> QED  BY <1>1, <1>2, <1>5, <2>2, <2>3 DEF createPassword
  <1>6. CASE addCredentialMeta  BY <1>1, <1>2, <1>6 DEF addCredentialMeta
  <1>7. CASE deleteUserGroup  BY <1>1, <1>2, <1>7 DEF deleteUserGroup
  <1> QED  BY <1>3, <1>4, <1>5, <1>6, <1>7

\* The page: what it asks for is begun with two offers at hand.
LEMMA PageWithin ==
  ASSUME Inv, Within, NEW c, Open \/ Close \/ Call(c)
  PROVE  CallWithin
  <1>0. /\ app \in AppShape /\ AppWithin(app) /\ offers \in Nat /\ UNCHANGED <<offers, last>>
        /\ offers + Needed(app) <= MaxOffers /\ last \in Reports /\ MaxOffers \in Nat
        /\ faults \in 0..MaxFaults /\ app.fresh \in BOOLEAN
    BY Known, ParametersAssumption DEF Within, Counters, AppShape, Open, Close, Call
  <1>1. CASE Open
    <2>1. /\ app'.at = "connect" /\ app'.fresh = FALSE /\ app'.active = NoSession
          /\ app'.of = NoSession /\ app'.offer = 0 /\ app'.since = faults
          /\ offers + 2 <= MaxOffers
      BY <1>1 DEF Open, Closed, Begins
    <2>2. Needed(app') = 2  BY <2>1 DEF Needed
    <2> QED  BY <1>0, <2>1, <2>2, SessionFields DEF CallWithin, AppWithin
  <1>2. CASE Close
    <2>1. app' = Closed  BY <1>2 DEF Close
    <2>2. Needed(app') = 0 /\ Needed(app) \in Nat  BY <1>0, <2>1 DEF Needed, Closed
    <2>3. AppWithin(app')  BY <2>1, SessionFields, ParametersAssumption DEF AppWithin, Closed
    <2> QED  BY <1>0, <2>2, <2>3 DEF CallWithin
  <1>3. CASE Call(c)
    <2>1. /\ app'.at \in {"connect", "write", "reconnect"} /\ app'.fresh = FALSE
          /\ app'.since = faults /\ UNCHANGED <<app.active, app.of, app.offer>>
          /\ offers + 2 <= MaxOffers
      BY <1>0, <1>3 DEF Call, AppShape, Begins
    <2>2. Needed(app') \in {1, 2}  BY <2>1 DEF Needed
    <2> QED  BY <1>0, <2>1, <2>2 DEF CallWithin, AppWithin
  <1> QED  BY <1>1, <1>2, <1>3

LEMMA NextCallWithin ==
  ASSUME Inv, Within, [Next]_vars
  PROVE  CallWithin
  <1>1. CASE Step
    BY <1>1, ConnectWithin, ProbeWithin, HandshakeWithin, SessionWithin, WriteWithin DEF Step
  <1>2. CASE Open \/ Close \/ \E c \in Calls \ {"connect"} : Call(c)
    BY <1>2, PageWithin
  <1>3. CASE Drop \/ Rotate \/ LateSave \/ clearAllSessions \/ UNCHANGED vars
    <2>1. UNCHANGED <<app, offers, last>>
      BY <1>3 DEF Drop, Rotate, LateSave, clearAllSessions, vars
    <2> QED  BY <2>1 DEF Within, CallWithin, AppWithin, Needed
  <1> QED  BY <1>1, <1>2, <1>3 DEF Next

LEMMA NextCacheWithin ==
  ASSUME Inv, Within, [Next]_vars
  PROVE  CacheWithin'
  <1>0. Cache /\ CacheWithin /\ AppWithin(app)  BY Known DEF Within
  <1>1. ASSUME UNCHANGED late, NEW e \in Sessions,
               saveSession(e) \/ touchSession(e) \/ clearSessionsForDid
        PROVE  CacheWithin'
    BY <1>0, <1>1, StoredWithin DEF CacheWithin
  <1>2. CASE UNCHANGED mem /\ late' \subseteq Sessions
    BY <1>0, <1>2 DEF CacheWithin
  <1>3. CASE UNCHANGED late /\ mem' = <<>>
    BY <1>0, <1>3, ParametersAssumption DEF CacheWithin
  <1>4. CASE UNCHANGED <<mem, late>>  BY <1>0, <1>2, <1>4 DEF CacheWithin
  <1>5. CASE replay \/ reuseBestEffort \/ login
    <2>1. app.of \in Sessions /\ UNCHANGED late /\ (saveSession(app.of) \/ touchSession(app.of))
      BY <1>0, <1>5 DEF AppWithin, replay, reuseBestEffort, login
    <2> QED  BY <1>1, <2>1
  <1>6. CASE setValidity \/ createPassword
    <2>1. UNCHANGED late /\ (UNCHANGED mem \/ mem' = <<>>)
      BY <1>6 DEF setValidity, createPassword, Again, clearSessionsForDid
    <2> QED  BY <1>3, <1>4, <2>1
  <1>7. CASE LateSave
    <2>1. PICK e \in late : late' = late \ {e} /\ saveSession(e)  BY <1>7 DEF LateSave
    <2>2. e \in Sessions /\ late' \subseteq Sessions  BY <1>0, <2>1 DEF CacheWithin
    <2>3. mem' \in Seq(Sessions) /\ Len(mem') <= MAX_SESSIONS
      BY <1>0, <2>1, <2>2, StoredWithin
    <2> QED  BY <2>2, <2>3 DEF CacheWithin
  <1>8. CASE Close
    <2>1. UNCHANGED mem /\ (late' = late \/ (app.of \in Sessions /\ late' = late \cup {app.of}))
      BY <1>0, <1>8 DEF Close, AppWithin
    <2> QED  BY <1>0, <1>2, <2>1 DEF CacheWithin
  <1>9. CASE clearAllSessions  BY <1>3, <1>9 DEF clearAllSessions
  <1>10. CASE \/ connectWithRetry \/ probe \/ publickey \/ hello \/ verify \/ unlock
              \/ addCredentialMeta \/ deleteUserGroup
    BY <1>4, <1>10 DEF connectWithRetry, probe, publickey, hello, verify, unlock,
                       addCredentialMeta, deleteUserGroup
  <1>11. CASE Drop \/ Rotate \/ Open \/ UNCHANGED vars \/ \E c \in Calls \ {"connect"} : Call(c)
    BY <1>4, <1>11 DEF Drop, Rotate, Open, Call, vars
  <1> QED  BY <1>5, <1>6, <1>7, <1>8, <1>9, <1>10, <1>11 DEF Next, Step

LEMMA NextCounters ==
  ASSUME Counters, [Next]_vars
  PROVE  Counters'
  <1> USE ParametersAssumption DEF Counters, Fault
  <1>1. CASE Step
    <2>1. UNCHANGED calls /\ (UNCHANGED faults \/ Fault)
      BY <1>1 DEF Step, connectWithRetry, probe, replay, publickey, hello, verify, login,
                  reuseBestEffort, unlock, setValidity, InPart, createPassword,
                  addCredentialMeta, deleteUserGroup, Replayed
    <2> QED  BY <2>1
  <1>2. CASE Drop \/ Rotate \/ Close \/ LateSave \/ clearAllSessions \/ UNCHANGED vars
    <2>1. UNCHANGED calls /\ (UNCHANGED faults \/ Fault)
      BY <1>2 DEF Drop, Rotate, Close, LateSave, clearAllSessions, vars
    <2> QED  BY <2>1
  <1>3. CASE Open \/ \E c \in Calls \ {"connect"} : Call(c)
    <2>1. UNCHANGED faults /\ Begins  BY <1>3 DEF Open, Call
    <2> QED  BY <2>1 DEF Begins
  <1> QED  BY <1>1, <1>2, <1>3 DEF Next

LEMMA NextWithin == Inv /\ Within /\ [Next]_vars => Within'
  <1> SUFFICES ASSUME Inv, Within, [Next]_vars PROVE Within'
    OBVIOUS
  <1>1. LockWithin(lock)' /\ CallWithin /\ CacheWithin' /\ Counters'
    BY NextLockWithin, NextCallWithin, NextCacheWithin, NextCounters DEF Within
  <1> QED  BY <1>1 DEF Within, CallWithin, AppWithin, Needed

\* The types of the sessions, of the lock and of the call, whatever the bounds: among
\* them that a handshake is about a session that there is, that the cache is never
\* longer than its limit (sessionCache.ts:65), and that a call never asks the cloud for
\* more than two offers, one of them for its only second attempt.
THEOREM SessionTyping == Spec => []TypeOK
  <1>1. Inv /\ Within => TypeOK
    <2> SUFFICES ASSUME Inv, Within PROVE TypeOK
      OBVIOUS
    <2>1. /\ lock \in LockShape /\ app \in AppShape /\ link \in BOOLEAN /\ registered \in Nat
          /\ offers \in Nat /\ LockWithin(lock) /\ AppWithin(app)
      BY Known DEF Within
    <2>2. lock \in Lock  BY <2>1 DEF Lock, LockShape, LockWithin, SessionOrNone
    <2>3. app \in App  BY <2>1 DEF App, AppShape, AppWithin, SessionOrNone
    <2>4. offers \in 0..MaxOffers
      <3>1. Needed(app) \in Nat  BY DEF Needed
      <3> QED  BY <2>1, <3>1, ParametersAssumption DEF Within
    <2> QED  BY <2>1, <2>2, <2>3, <2>4 DEF TypeOK, Within, CacheWithin, Counters, Reports
  <1> QED  BY <1>1, InitWithin, NextWithin, Invariance, PTL DEF Spec

-----------------------------------------------------------------------------
(***************************************************************************)
(* The page of a lock: LockScreen, as the instance Screen of LockUsers.    *)
(***************************************************************************)

-----------------------------------------------------------------------------
(* The invariant.                                                          *)

Sides == {"front", "behind"}
LoadRuns == {"page", "op"}

\* A range for a slot, and credentials whose ranges are for their own slots.
Own(u) == [uid : {u}, until : Screen!Until]
OwnIn(creds) == \A u \in DOMAIN creds : creds[u].range \in Own(u) \cup {Screen!NoRange}

\* Wherever the page keeps credentials, their ranges are for their own slots; so are the
\* ranges that an operation is about to set.
OwnRanges ==
    /\ OwnIn(cloud.creds) /\ OwnIn(shown.creds)
    /\ \A r \in LoadRuns : OwnIn(loads[r].creds)
    /\ \A s \in Sides :
          OwnIn(ops[s].items) /\ \A u \in DOMAIN ops[s].ranges : ops[s].ranges[u] \in Own(u)

\* What an operation has still to do is about its credentials.
OpShape(o) ==
    /\ o.at = "idle" => o = Screen!Idle
    /\ o.todo \subseteq DOMAIN o.items
    /\ o.kind = "validity" => DOMAIN o.ranges = DOMAIN o.items
    /\ o.kind = "validity" /\ o.at = "ble" => o.todo = DOMAIN o.items
    /\ o.kind \in {"rename", "delete"} /\ o.at = "cloud" => o.todo # {}
    /\ o.kind \in {"none", "renameUser", "password", "user", "deleteUser"} => o.todo = {}
    /\ o.kind = "password" /\ o.at = "cloud" => o.uid # 0
Shapes == \A s \in Sides : OpShape(ops[s])

\* The load of an operation runs only when the operation has come to it.
Loaded ==
    /\ \A r \in LoadRuns : loads[r].at = "none" => ~loads[r].c /\ ~loads[r].g
    /\ loads["op"].at = "asked" => ops["front"].at = "load"

\* The slots of an operation that was left are spoiled, and so are those of one that was
\* started while such an operation went on.
LeftBehind ==
    /\ ops["behind"] # Screen!Idle /\ ops["front"] # Screen!Idle => DOMAIN ops["front"].items \subseteq spoiled
    /\ DOMAIN ops["behind"].items \subseteq spoiled /\ ops["behind"].uid \in spoiled \cup {0}

\* A credential that the operation has still to write is in the cloud as the page has it.
Current ==
    \A u \in ops["front"].todo \ spoiled :
        u \in DOMAIN cloud.creds /\ cloud.creds[u] = ops["front"].items[u]

\* What the operation has done to the lock and not yet to the cloud.
Adding(u) == ops["front"].kind = "password" /\ ops["front"].at = "cloud" /\ ops["front"].uid = u
Setting(u) ==
    ops["front"].kind = "validity" /\ ops["front"].at = "cloud" /\ u \in ops["front"].todo
Deleting(u) ==
    /\ ops["front"].kind = "deleteUser" /\ ops["front"].at = "mirror"
    /\ cloud.creds[u].group = ops["front"].group

\* A password that is to be made known is on the lock, and nobody else knows its slot.
Added(u) ==
    Adding(u) => /\ u \in DOMAIN slots /\ u \notin DOMAIN cloud.creds /\ u \notin due
                 /\ slots[u].group = ops["front"].group

\* Lock and cloud agree about a slot, but for what is due or being done.
Fits(u) ==
    /\ u \in DOMAIN cloud.creds /\ u \notin DOMAIN slots => Deleting(u)
    /\ u \in DOMAIN slots /\ u \notin DOMAIN cloud.creds => u \in due \/ Adding(u)
    /\ u \in DOMAIN slots /\ u \in DOMAIN cloud.creds =>
          /\ slots[u].group = cloud.creds[u].group
          /\ slots[u].until = cloud.creds[u].range.until \/ u \in due \/ Setting(u)

\* The cloud keeps the validity last set.
Kept(u) == u \in DOMAIN want /\ u \in DOMAIN cloud.creds => cloud.creds[u].range.until = want[u]

Slots == \A u \in Screen!Uids \ spoiled : Added(u) /\ Fits(u) /\ Kept(u)

IInv == Screen!TypeOK /\ OwnRanges /\ Shapes /\ Loaded /\ LeftBehind /\ Current /\ Slots

-----------------------------------------------------------------------------
(* Sets of slots and functions on them.                                    *)

\* A set of numbers that is not empty has a least one.
LEMMA MinIn ==
    ASSUME NEW S \in SUBSET Nat, S # {}
    PROVE  Screen!Min(S) \in S
<1> DEFINE R == {p \in Nat \X Nat : p[1] < p[2]}
<1>1. IsWellFoundedOn(R, Nat)
    BY NatLessThanWellFounded DEF OpToRel
<1>2. PICK x \in S : \A y \in S : ~(<<y, x>> \in R)
  <2> HIDE DEF R
  <2> QED  BY <1>1, WFMin, Zenon
<1>3. ASSUME NEW y \in S PROVE x <= y
    <2>1. x \in Nat /\ y \in Nat /\ <<y, x>> \in Nat \X Nat
        OBVIOUS
    <2>2. ~(y < x)
        BY <1>2, <2>1
    <2>3. QED BY <2>1, <2>2
<1>4. QED BY <1>3, Zenon DEF Screen!Min

LEMMA MinSlot ==
    ASSUME Screen!Parameters, NEW U \in SUBSET Screen!Uids, U # {}
    PROVE  Screen!Min(U) \in U /\ Screen!Min(U) \in Screen!Uids /\ Screen!Min(U) # 0
<1>1. U \subseteq Nat
    BY DEF Screen!Uids, Screen!Parameters
<1>2. Screen!Min(U) \in U
    BY <1>1, MinIn
<1>3. Screen!Uids \subseteq Nat \ {0}
    BY DEF Screen!Uids, Screen!Parameters
<1>4. QED BY <1>2, <1>3

\* A function that knows some slots, and back.
LEMMA KnownFunction ==
    ASSUME NEW S, NEW f \in Screen!Known(S)
    PROVE  DOMAIN f \subseteq Screen!Uids /\ f \in [DOMAIN f -> S] /\ \A u \in DOMAIN f : f[u] \in S
    BY DEF Screen!Known

LEMMA FunctionKnown ==
    ASSUME NEW S, NEW D \in SUBSET Screen!Uids, NEW f \in [D -> S]
    PROVE  f \in Screen!Known(S)
    BY DEF Screen!Known

\* A slot more, some slots less.
LEMMA WithKnown ==
    ASSUME NEW S, NEW f \in Screen!Known(S), NEW u \in Screen!Uids, NEW v \in S
    PROVE  /\ Screen!With(f, u, v) \in Screen!Known(S)
           /\ DOMAIN Screen!With(f, u, v) = DOMAIN f \cup {u}
           /\ Screen!With(f, u, v)[u] = v
           /\ \A w \in DOMAIN f : w # u => Screen!With(f, u, v)[w] = f[w]
<1>1. DOMAIN f \subseteq Screen!Uids /\ \A w \in DOMAIN f : f[w] \in S
    BY KnownFunction
<1>2. Screen!With(f, u, v) \in [DOMAIN f \cup {u} -> S]
    BY <1>1 DEF Screen!With
<1>3. QED BY <1>1, <1>2, FunctionKnown DEF Screen!With

LEMMA RestrictKnown ==
    ASSUME NEW S, NEW f \in Screen!Known(S), NEW D \in SUBSET DOMAIN f
    PROVE  /\ Screen!Restrict(f, D) \in Screen!Known(S)
           /\ DOMAIN Screen!Restrict(f, D) = D
           /\ \A w \in D : Screen!Restrict(f, D)[w] = f[w]
<1>1. DOMAIN f \subseteq Screen!Uids /\ \A w \in DOMAIN f : f[w] \in S
    BY KnownFunction
<1>2. Screen!Restrict(f, D) \in [D -> S]
    BY <1>1 DEF Screen!Restrict
<1>3. QED BY <1>1, <1>2, FunctionKnown DEF Screen!Restrict

LEMMA WithoutKnown ==
    ASSUME NEW S, NEW f \in Screen!Known(S), NEW D
    PROVE  Screen!Without(f, D) \in Screen!Known(S)
    BY RestrictKnown DEF Screen!Without

LEMMA WithoutSome ==
    ASSUME NEW f, NEW D
    PROVE  /\ DOMAIN Screen!Without(f, D) = DOMAIN f \ D
           /\ \A w \in DOMAIN f : w \notin D => Screen!Without(f, D)[w] = f[w]
    BY DEF Screen!Without, Screen!Restrict

\* What none of the slots is about.
LEMMA NoneKnown ==
    ASSUME NEW S
    PROVE  Screen!None \in Screen!Known(S) /\ DOMAIN Screen!None = {}
<1>1. Screen!None \in [{} -> S] /\ DOMAIN Screen!None = {}
    BY DEF Screen!None
<1>2. QED BY <1>1, FunctionKnown

-----------------------------------------------------------------------------
(* The initial states.                                                     *)

\* No operation, no load and no page.
LEMMA Blank ==
    ASSUME Screen!Parameters
    PROVE  /\ Screen!Idle \in Screen!Operations /\ OpShape(Screen!Idle)
           /\ OwnIn(Screen!Idle.items) /\ DOMAIN Screen!Idle.ranges = {} /\ DOMAIN Screen!Idle.items = {}
           /\ Screen!Unasked \in Screen!Load /\ OwnIn(Screen!Unasked.creds)
           /\ Screen!Nothing \in [groups : SUBSET Screen!Gids, creds : Screen!Known(Screen!Credentials)]
           /\ OwnIn(Screen!Nothing.creds)
<1>1. /\ Screen!None \in Screen!Known(Screen!Credentials) /\ Screen!None \in Screen!Known(Screen!Ranges)
      /\ DOMAIN Screen!None = {}
    BY NoneKnown
<1>2. 1 \in Screen!Gids
    BY DEF Screen!Gids, Screen!Parameters
<1>3. Screen!Idle \in Screen!Operations /\ DOMAIN Screen!Idle.ranges = {} /\ DOMAIN Screen!Idle.items = {}
    BY <1>1, <1>2 DEF Screen!Idle, Screen!Operations, Screen!Kinds, Screen!Parameters
<1>4. OpShape(Screen!Idle)
    BY <1>1 DEF OpShape, Screen!Idle
<1>5. Screen!Unasked \in Screen!Load
    BY <1>1 DEF Screen!Unasked, Screen!Load
<1>6. OwnIn(Screen!Idle.items) /\ OwnIn(Screen!Unasked.creds) /\ OwnIn(Screen!Nothing.creds)
    BY <1>1 DEF OwnIn, Screen!Idle, Screen!Unasked, Screen!Nothing
<1>7. Screen!Nothing \in [groups : SUBSET Screen!Gids, creds : Screen!Known(Screen!Credentials)]
    BY <1>1 DEF Screen!Nothing
<1>8. QED BY <1>3, <1>4, <1>5, <1>6, <1>7

LEMMA InitIInv ==
    ASSUME Screen!Parameters, Screen!Init
    PROVE  IInv
<1>1. 1..2 \subseteq Screen!Uids /\ 1 \in Screen!Gids
    BY DEF Screen!Uids, Screen!Gids, Screen!Parameters
<1>2. slots \in Screen!Known(Screen!Slot)
  <2>1. slots \in [1..2 -> Screen!Slot]
    BY <1>1 DEF Screen!Init, Screen!Slot, Screen!Until
  <2>2. QED BY <1>1, <2>1, FunctionKnown
<1>3. PICK r \in {Screen!NoRange, [uid |-> 1, until |-> "forever"]} :
          cloud = [groups |-> {1}, creds |-> [u \in 1..2 |-> [group |-> 1,
                      range |-> IF u = 1 THEN r ELSE Screen!NoRange]]]
    BY DEF Screen!Init
<1>4. cloud.groups \subseteq Screen!Gids /\ cloud.creds \in Screen!Known(Screen!Credentials)
  <2>1. r \in Screen!Ranges /\ Screen!NoRange \in Screen!Ranges
    BY <1>1 DEF Screen!Ranges, Screen!Until
  <2>2. cloud.creds \in [1..2 -> Screen!Credentials]
    BY <1>1, <1>3, <2>1 DEF Screen!Credentials
  <2>3. QED BY <1>1, <1>3, <2>2, FunctionKnown
<1>5. Screen!TypeOK
  <2>1. want \in Screen!Known(Screen!Until)
    <3>1. want \in [{} -> Screen!Until]
      BY DEF Screen!Init
    <3>2. QED BY <3>1, FunctionKnown
  <2>2. loads \in [LoadRuns -> Screen!Load]
    BY Blank DEF Screen!Init, LoadRuns, Screen!Load
  <2>3. ops \in [Sides -> Screen!Operations]
    BY Blank DEF Screen!Init, Sides
  <2>4. cloud \in [groups : SUBSET Screen!Gids, creds : Screen!Known(Screen!Credentials)]
    BY <1>3, <1>4
  <2>5. nops \in 0..MaxOps /\ pulls \in 0..MaxPulls /\ failures \in 0..MaxFailures
    BY DEF Screen!Init, Screen!Parameters
  <2>6. QED BY <1>2, <2>1, <2>2, <2>3, <2>4, <2>5, Blank DEF Screen!Init, Screen!TypeOK,
               LoadRuns, Sides
<1>6. OwnRanges
  <2>1. OwnIn(cloud.creds)
    BY <1>1, <1>3 DEF OwnIn, Own, Screen!Until
  <2>2. \A q \in LoadRuns : OwnIn(loads[q].creds)
    BY Blank DEF Screen!Init, LoadRuns, Screen!Unasked
  <2>3. QED BY <2>1, <2>2, Blank DEF Screen!Init, OwnRanges, Sides
<1>7. Shapes /\ Loaded /\ LeftBehind /\ Current
    BY Blank DEF Screen!Init, Shapes, Sides, Loaded, LoadRuns, LeftBehind, Current,
       Screen!Idle, Screen!Unasked
<1>8. Slots
    BY <1>3 DEF Screen!Init, Slots, Added, Fits, Kept, Adding, Screen!Idle, Screen!NoRange
<1>9. QED BY <1>5, <1>6, <1>7, <1>8 DEF IInv

-----------------------------------------------------------------------------
(* The page and its loads.                                                 *)

\* Slots fit as long as the lock, the cloud and the operation stay.
LEMMA SlotsStay ==
    ASSUME Slots, UNCHANGED <<slots, cloud, due, want>>, spoiled \subseteq spoiled',
           ops'["front"] = ops["front"]
    PROVE  Slots'
    BY DEF Slots, Added, Fits, Kept, Adding, Setting, Deleting

\* An operation that has done nothing to the lock, or has told the cloud, has nothing in
\* flight.
AtRest(o) == o.at \in {"idle", "ble", "load"}

LEMMA SlotsRest ==
    ASSUME Slots, UNCHANGED <<slots, cloud, due, want>>, spoiled \subseteq spoiled',
           AtRest(ops["front"]), ops'["front"].at # "mirror",
           ops'["front"].at = "cloud" =>
              ops'["front"].kind # "password"
    PROVE  Slots'
    BY DEF Slots, Added, Fits, Kept, Adding, Setting, Deleting, AtRest

\* Faults count within the bound.
LEMMA FaultType ==
    ASSUME Screen!Parameters, Screen!TypeOK, Screen!Fault \/ UNCHANGED failures
    PROVE  failures' \in 0..MaxFailures
    BY DEF Screen!Parameters, Screen!TypeOK, Screen!Fault

LEMMA pullToRefreshKeeps ==
    ASSUME Screen!Parameters, IInv, Screen!pullToRefresh
    PROVE  IInv'
<1> USE DEF Screen!pullToRefresh, Screen!Ask
<1>1. Screen!TypeOK'
  <2>1. loads' \in [LoadRuns -> Screen!Load]
    BY Blank DEF IInv, Screen!TypeOK, LoadRuns, Screen!Load
  <2>2. pulls' \in 0..MaxPulls
    BY DEF IInv, Screen!TypeOK, Screen!Parameters
  <2>3. QED BY <2>1, <2>2 DEF IInv, Screen!TypeOK, LoadRuns
<1>2. OwnRanges' /\ Loaded'
    BY Blank DEF IInv, Screen!TypeOK, OwnRanges, OwnIn, LoadRuns, Sides, Loaded, Screen!Unasked
<1>3. Slots'
    BY SlotsStay DEF IInv
<1>4. QED BY <1>1, <1>2, <1>3 DEF IInv, Shapes, LeftBehind, Current

LEMMA ConnectedKeeps ==
    ASSUME IInv, Screen!Connected
    PROVE  IInv'
<1>1. Screen!TypeOK'
    BY DEF IInv, Screen!TypeOK, Screen!Connected, Screen!bounds
<1>2. Slots'
    BY SlotsStay DEF IInv, Screen!Connected
<1>3. QED BY <1>1, <1>2
          DEF IInv, Screen!Connected, OwnRanges, Shapes, Loaded, LeftBehind, Current

LEMMA AnswerKeeps ==
    ASSUME Screen!Parameters, IInv, NEW r \in LoadRuns, Screen!Answer(r)
    PROVE  IInv'
<1>1. PICK q \in Screen!Load : /\ loads' = [loads EXCEPT ![r] = q]
                               /\ q.at = "asked" /\ OwnIn(q.creds)
  <2>1. /\ loads[r] \in Screen!Load /\ loads[r].at = "asked" /\ loads \in [LoadRuns -> Screen!Load]
        /\ cloud.creds \in Screen!Known(Screen!Credentials) /\ cloud.groups \in SUBSET Screen!Gids
        /\ OwnIn(cloud.creds) /\ OwnIn(loads[r].creds)
    BY DEF IInv, Screen!TypeOK, OwnRanges, Screen!Answer, LoadRuns
  <2>2. \/ loads' = [loads EXCEPT ![r].c = TRUE, ![r].creds = cloud.creds]
        \/ loads' = [loads EXCEPT ![r].g = TRUE, ![r].groups = cloud.groups]
        \/ loads' = [loads EXCEPT ![r].c = TRUE]
        \/ loads' = [loads EXCEPT ![r].g = TRUE]
    BY DEF Screen!Answer
  <2>3. \/ loads' = [loads EXCEPT ![r] = [loads[r] EXCEPT !.c = TRUE, !.creds = cloud.creds]]
        \/ loads' = [loads EXCEPT ![r] = [loads[r] EXCEPT !.g = TRUE, !.groups = cloud.groups]]
        \/ loads' = [loads EXCEPT ![r] = [loads[r] EXCEPT !.c = TRUE]]
        \/ loads' = [loads EXCEPT ![r] = [loads[r] EXCEPT !.g = TRUE]]
    BY <2>1, <2>2 DEF Screen!Load
  <2>4. /\ [loads[r] EXCEPT !.c = TRUE, !.creds = cloud.creds] \in Screen!Load
        /\ [loads[r] EXCEPT !.g = TRUE, !.groups = cloud.groups] \in Screen!Load
        /\ [loads[r] EXCEPT !.c = TRUE] \in Screen!Load
        /\ [loads[r] EXCEPT !.g = TRUE] \in Screen!Load
    BY <2>1 DEF Screen!Load
  <2>5. /\ [loads[r] EXCEPT !.c = TRUE, !.creds = cloud.creds].at = "asked"
        /\ [loads[r] EXCEPT !.c = TRUE, !.creds = cloud.creds].creds = cloud.creds
        /\ [loads[r] EXCEPT !.g = TRUE, !.groups = cloud.groups].at = "asked"
        /\ [loads[r] EXCEPT !.g = TRUE, !.groups = cloud.groups].creds = loads[r].creds
        /\ [loads[r] EXCEPT !.c = TRUE].at = "asked"
        /\ [loads[r] EXCEPT !.c = TRUE].creds = loads[r].creds
        /\ [loads[r] EXCEPT !.g = TRUE].at = "asked"
        /\ [loads[r] EXCEPT !.g = TRUE].creds = loads[r].creds
    BY <2>1 DEF Screen!Load
  <2>6. QED BY <2>1, <2>3, <2>4, <2>5
<1>2. Screen!TypeOK'
  <2>1. loads' \in [LoadRuns -> Screen!Load]
    BY <1>1 DEF IInv, Screen!TypeOK, LoadRuns
  <2>2. failures' \in 0..MaxFailures
    BY FaultType DEF IInv, Screen!Answer
  <2>3. QED BY <2>1, <2>2 DEF IInv, Screen!TypeOK, LoadRuns, Screen!Answer
<1>3. loads[r].at = "asked" /\ UNCHANGED <<slots, cloud, due, shown, ops, want, spoiled>>
    BY DEF Screen!Answer
<1>4. /\ loads'[r] = q /\ \A t \in LoadRuns : t # r => loads'[t] = loads[t]
    BY <1>1 DEF IInv, Screen!TypeOK, LoadRuns
<1>5. OwnRanges' /\ Loaded'
    BY <1>1, <1>3, <1>4 DEF IInv, OwnRanges, OwnIn, LoadRuns, Sides, Loaded
<1>6. Slots'
    BY <1>3, SlotsStay DEF IInv
<1>7. QED BY <1>2, <1>3, <1>5, <1>6 DEF IInv, Shapes, LeftBehind, Current

LEMMA ShowKeeps ==
    ASSUME Screen!Parameters, IInv, NEW r \in LoadRuns, Screen!Show(r)
    PROVE  IInv'
<1>1. UNCHANGED <<slots, cloud, due, ready, want, spoiled, Screen!bounds>>
    BY DEF Screen!Show
<1>2. loads[r] \in Screen!Load /\ loads \in [LoadRuns -> Screen!Load] /\ ops \in [Sides -> Screen!Operations]
    BY DEF IInv, Screen!TypeOK, LoadRuns, Sides
<1>3. loads'[r] = Screen!Unasked /\ \A t \in LoadRuns : t # r => loads'[t] = loads[t]
    BY <1>2 DEF Screen!Show
<1>4. r = "op" => ops["front"].at = "load"
    BY <1>2 DEF IInv, Loaded, Screen!Show, LoadRuns, Screen!Load
<1>5. /\ r = "op" => ops'["front"] = Screen!Idle
      /\ r # "op" => ops'["front"] = ops["front"]
      /\ ops'["behind"] = ops["behind"]
      /\ ops' \in [Sides -> Screen!Operations]
    BY <1>2, Blank DEF Screen!Show, Sides
<1>6. shown' = [groups |-> loads[r].groups, creds |-> loads[r].creds]
    BY DEF Screen!Show
<1>7. Screen!TypeOK'
  <2>1. loads' \in [LoadRuns -> Screen!Load]
    BY <1>2, Blank DEF Screen!Show
  <2>2. shown' \in [groups : SUBSET Screen!Gids, creds : Screen!Known(Screen!Credentials)]
    BY <1>2, <1>6 DEF Screen!Load
  <2>3. QED BY <1>1, <1>5, <2>1, <2>2 DEF IInv, Screen!TypeOK, LoadRuns, Sides, Screen!bounds
<1>8. OwnRanges'
  <2>1. OwnIn(shown'.creds)
    BY <1>6 DEF IInv, OwnRanges
  <2>2. QED BY <1>1, <1>3, <1>5, <2>1, Blank DEF IInv, OwnRanges, OwnIn, LoadRuns, Sides
<1>9. Shapes' /\ LeftBehind'
    BY <1>1, <1>5, Blank DEF IInv, Shapes, LeftBehind, Sides
<1>10. Loaded'
    BY <1>3, <1>5 DEF IInv, Loaded, LoadRuns, Screen!Unasked
<1>11. Current'
    BY <1>1, <1>5 DEF IInv, Current, Screen!Idle
<1>12. Slots'
  <2>1. CASE r = "op"
    BY <1>1, <1>4, <1>5, <2>1, SlotsRest DEF IInv, AtRest, Screen!Idle
  <2>2. CASE r # "op"
    BY <1>1, <1>5, <2>2, SlotsStay DEF IInv
  <2>3. QED BY <2>1, <2>2
<1>13. QED BY <1>7, <1>8, <1>9, <1>10, <1>11, <1>12 DEF IInv

-----------------------------------------------------------------------------
(* The operations start, and are left.                                     *)

\* What the page shows of a user.
LEMMA Items ==
    ASSUME Screen!TypeOK, OwnRanges, NEW g
    PROVE  /\ Screen!ItemsOf(g) \in Screen!Known(Screen!Credentials) /\ OwnIn(Screen!ItemsOf(g))
           /\ DOMAIN Screen!ItemsOf(g) \subseteq Screen!Uids
<1>1. shown.creds \in Screen!Known(Screen!Credentials) /\ OwnIn(shown.creds)
    BY DEF Screen!TypeOK, OwnRanges
<1>2. Screen!OfGroup(shown.creds, g) \in SUBSET DOMAIN shown.creds
    BY DEF Screen!OfGroup
<1>3. QED BY <1>1, <1>2, RestrictKnown, KnownFunction DEF Screen!ItemsOf, OwnIn

LEMMA NextGroup ==
    ASSUME Screen!Parameters
    PROVE  Screen!nextFreeGroupId \in Screen!Gids
<1>1. 1 \in Screen!Gids /\ Screen!Gids \ shown.groups \in SUBSET Nat
    BY DEF Screen!Gids, Screen!Parameters
<1>2. Screen!Gids \ shown.groups # {} => Screen!Min(Screen!Gids \ shown.groups) \in Screen!Gids
    BY <1>1, MinIn
<1>3. QED BY <1>1, <1>2 DEF Screen!nextFreeGroupId

\* A new operation has done nothing yet.
New(o) ==
    /\ o \in Screen!Operations /\ OpShape(o) /\ OwnIn(o.items)
    /\ \A u \in DOMAIN o.ranges : o.ranges[u] \in Own(u)
    /\ o.at = "ble" \/ (o.at = "cloud" /\ o.kind # "password")
    /\ o.kind = "user" => DOMAIN o.items = {}

LEMMA StartsKeeps ==
    ASSUME Screen!Parameters, IInv, NEW o, New(o), Screen!Starts(o)
    PROVE  IInv'
<1>1. /\ UNCHANGED <<slots, cloud, due, shown, loads, ready, want, pulls, failures>>
      /\ ops["front"] = Screen!Idle
    BY DEF Screen!Starts
<1>2. /\ ops' \in [Sides -> Screen!Operations]
      /\ ops'["front"] = o /\ ops'["behind"] = ops["behind"]
    BY DEF Screen!Starts, IInv, Screen!TypeOK, Sides, New
<1>3. spoiled \subseteq spoiled' /\ spoiled' \subseteq Screen!Uids
    BY KnownFunction DEF Screen!Starts, IInv, Screen!TypeOK, New, Screen!Operations
<1>4. o.kind = "user" \/ \/ ops["behind"] # Screen!Idle \/ Screen!Outdated(o) => DOMAIN o.items \subseteq spoiled'
    BY DEF Screen!Starts
<1>5. Screen!TypeOK'
  <2>1. nops' \in 0..MaxOps
    BY DEF Screen!Starts, IInv, Screen!TypeOK, Screen!Parameters
  <2>2. QED BY <1>1, <1>2, <1>3, <2>1 DEF IInv, Screen!TypeOK, Sides
<1>6. OwnRanges'
    BY <1>1, <1>2 DEF IInv, OwnRanges, OwnIn, Sides, New, Own
<1>7. Shapes'
    BY <1>2 DEF IInv, Shapes, Sides, New
<1>8. Loaded'
    BY <1>1, <1>2 DEF IInv, Loaded, Screen!Idle
<1>9. LeftBehind'
    BY <1>2, <1>3, <1>4 DEF IInv, LeftBehind, New
<1>10. Current'
  <2>1. o.todo \subseteq DOMAIN o.items
    BY DEF New, OpShape
  <2>2. \A u \in DOMAIN o.items \ spoiled' : u \in DOMAIN cloud.creds /\ cloud.creds[u] = o.items[u]
    BY <1>4 DEF Screen!Outdated, New
  <2>3. QED BY <1>1, <1>2, <2>1, <2>2 DEF Current
<1>11. Slots'
    BY <1>1, <1>2, <1>3, SlotsRest DEF IInv, AtRest, Screen!Idle, New
<1>12. QED BY <1>5, <1>6, <1>7, <1>8, <1>9, <1>10, <1>11 DEF IInv

\* The ranges that a validity is set with.
LEMMA runValidityKeeps ==
    ASSUME Screen!Parameters, IInv, NEW g \in Screen!Gids, NEW ranges \in [DOMAIN Screen!ItemsOf(g) -> Screen!Ranges],
           \A u \in DOMAIN Screen!ItemsOf(g) : ranges[u] \in Own(u),
           Screen!runValidity(g, ranges)
    PROVE  IInv'
<1> DEFINE o == [Screen!Idle EXCEPT !.kind = "validity", !.at = IF ready THEN "ble" ELSE "cloud",
                 !.group = g, !.items = Screen!ItemsOf(g), !.todo = DOMAIN Screen!ItemsOf(g),
                 !.ranges = ranges]
<1>1. /\ Screen!ItemsOf(g) \in Screen!Known(Screen!Credentials) /\ OwnIn(Screen!ItemsOf(g))
      /\ DOMAIN Screen!ItemsOf(g) \subseteq Screen!Uids
    BY Items DEF IInv
<1>2. ranges \in Screen!Known(Screen!Ranges) /\ DOMAIN ranges = DOMAIN Screen!ItemsOf(g)
    BY <1>1, FunctionKnown
<1>3. /\ o.kind = "validity" /\ o.at \in {"ble", "cloud"} /\ o.group = g
      /\ o.items = Screen!ItemsOf(g) /\ o.todo = DOMAIN Screen!ItemsOf(g) /\ o.ranges = ranges /\ o.uid = 0
    BY DEF Screen!Idle
<1>4. o \in Screen!Operations
    BY <1>1, <1>2, Blank DEF Screen!Operations, Screen!Kinds
<1>5. Screen!Starts(o)
    BY DEF Screen!runValidity
<1> HIDE DEF o
<1>6. New(o)
    BY <1>1, <1>2, <1>3, <1>4 DEF New, OpShape
<1>7. QED BY <1>5, <1>6, StartsKeeps

LEMMA doGroupToggleKeeps ==
    ASSUME Screen!Parameters, IInv, NEW g \in Screen!Gids, Screen!doGroupToggle(g)
    PROVE  IInv'
<1> DEFINE items == Screen!ItemsOf(g)
           ranges == [u \in DOMAIN items |->
               IF Screen!userDisabled(items) THEN Screen!enabledValidRange(u, items[u])
                                      ELSE Screen!disabledValidRange(u, items[u])]
<1>1. items \in Screen!Known(Screen!Credentials) /\ OwnIn(items) /\ DOMAIN items \subseteq Screen!Uids
    BY Items DEF IInv
<1>2. ASSUME NEW u \in DOMAIN items
      PROVE  /\ Screen!enabledValidRange(u, items[u]) \in Own(u)
             /\ Screen!disabledValidRange(u, items[u]) \in Own(u)
    BY <1>1 DEF OwnIn, Own, Screen!enabledValidRange, Screen!disabledValidRange,
       Screen!credUserId, Screen!Until
<1>3. \A u \in Screen!Uids : Own(u) \subseteq Screen!Ranges
    BY DEF Own, Screen!Ranges
<1> HIDE DEF items
<1>4. \A u \in DOMAIN items : ranges[u] \in Own(u) /\ ranges[u] \in Screen!Ranges
    BY <1>1, <1>2, <1>3
<1>5. ranges \in [DOMAIN items -> Screen!Ranges]
    BY <1>4
<1>6. Screen!runValidity(g, ranges)
    BY DEF Screen!doGroupToggle, items
<1>7. QED BY <1>4, <1>5, <1>6, runValidityKeeps DEF items

LEMMA submitUserValidityKeeps ==
    ASSUME Screen!Parameters, IInv, NEW g \in Screen!Gids, Screen!submitUserValidity(g)
    PROVE  IInv'
<1>1. PICK until \in Screen!Until :
          Screen!runValidity(g, [u \in DOMAIN Screen!ItemsOf(g) |-> Screen!buildUserValidRange(u, until)])
    BY DEF Screen!submitUserValidity
<1> DEFINE ranges == [u \in DOMAIN Screen!ItemsOf(g) |-> Screen!buildUserValidRange(u, until)]
<1>2. DOMAIN Screen!ItemsOf(g) \subseteq Screen!Uids
    BY Items DEF IInv
<1>3. \A u \in DOMAIN Screen!ItemsOf(g) : ranges[u] \in Own(u) /\ ranges[u] \in Screen!Ranges
    BY <1>2 DEF Screen!buildUserValidRange, Screen!credUserId, Own, Screen!Ranges
<1>4. ranges \in [DOMAIN Screen!ItemsOf(g) -> Screen!Ranges]
    BY <1>3
<1>5. QED BY <1>1, <1>3, <1>4, runValidityKeeps

\* A write to the cloud is about one credential, or none.
LEMMA runWriteKeeps ==
    ASSUME Screen!Parameters, IInv, NEW kind \in {"rename", "delete", "renameUser"}, NEW g \in Screen!Gids,
           NEW items \in Screen!Known(Screen!Credentials), OwnIn(items),
           kind = "renameUser" <=> DOMAIN items = {},
           Screen!runWrite(kind, g, items)
    PROVE  IInv'
<1> DEFINE o == [Screen!Idle EXCEPT !.kind = kind, !.at = "cloud", !.group = g, !.items = items,
                     !.todo = DOMAIN items]
<1>1. /\ o.kind = kind /\ o.at = "cloud" /\ o.items = items /\ o.todo = DOMAIN items
      /\ o.ranges = Screen!Idle.ranges
    BY DEF Screen!Idle
<1>2. o \in Screen!Operations
    BY Blank, KnownFunction DEF Screen!Operations, Screen!Kinds
<1>3. Screen!Starts(o)
    BY DEF Screen!runWrite
<1> HIDE DEF o
<1>4. New(o)
    BY <1>1, <1>2, Blank DEF New, OpShape
<1>5. QED BY <1>3, <1>4, StartsKeeps

LEMMA CredentialSheetKeeps ==
    ASSUME Screen!Parameters, IInv, NEW g \in Screen!Gids, NEW u \in DOMAIN Screen!ItemsOf(g), Screen!CredentialSheet(g, u)
    PROVE  IInv'
<1>1. PICK kind \in {"rename", "delete"} : Screen!runWrite(kind, g, Screen!Restrict(shown.creds, {u}))
    BY DEF Screen!CredentialSheet
<1>2. shown.creds \in Screen!Known(Screen!Credentials) /\ OwnIn(shown.creds)
    BY DEF IInv, Screen!TypeOK, OwnRanges
<1>3. {u} \in SUBSET DOMAIN shown.creds
    BY DEF Screen!ItemsOf, Screen!OfGroup, Screen!Restrict
<1> DEFINE items == Screen!Restrict(shown.creds, {u})
<1>4. items \in Screen!Known(Screen!Credentials) /\ DOMAIN items = {u} /\ items[u] = shown.creds[u]
    BY <1>2, <1>3, RestrictKnown
<1> HIDE DEF items
<1>5. OwnIn(items)
    BY <1>2, <1>3, <1>4 DEF OwnIn
<1>6. QED BY <1>1, <1>4, <1>5, runWriteKeeps DEF items

\* A new user, a new password, the end of a user.
LEMMA OtherStartsKeep ==
    ASSUME Screen!Parameters, IInv, NEW g \in Screen!Gids,
           Screen!submitCreateUser \/ Screen!submitCreatePassword(g) \/ Screen!doDeleteUser(g)
    PROVE  IInv'
<1> DEFINE user == [Screen!Idle EXCEPT !.kind = "user", !.at = "cloud", !.group = Screen!nextFreeGroupId]
           password == [Screen!Idle EXCEPT !.kind = "password", !.at = "ble", !.group = g]
           delete == [Screen!Idle EXCEPT !.kind = "deleteUser", !.at = IF ready THEN "ble" ELSE "cloud",
                          !.group = g, !.items = Screen!ItemsOf(g)]
<1>1. user \in Screen!Operations /\ password \in Screen!Operations /\ delete \in Screen!Operations
    BY Blank, NextGroup, Items DEF IInv, Screen!Operations, Screen!Kinds
<1>2. /\ user.kind = "user" /\ user.at = "cloud" /\ user.items = Screen!Idle.items
      /\ user.ranges = Screen!Idle.ranges /\ user.todo = {}
      /\ password.kind = "password" /\ password.at = "ble" /\ password.items = Screen!Idle.items
      /\ password.ranges = Screen!Idle.ranges /\ password.todo = {}
      /\ delete.kind = "deleteUser" /\ delete.at \in {"ble", "cloud"}
      /\ delete.items = Screen!ItemsOf(g) /\ delete.ranges = Screen!Idle.ranges /\ delete.todo = {}
    BY DEF Screen!Idle
<1>3. Screen!Starts(user) \/ Screen!Starts(password) \/ Screen!Starts(delete)
    BY DEF Screen!submitCreateUser, Screen!submitCreatePassword, Screen!doDeleteUser
<1>4. OwnIn(Screen!ItemsOf(g))
    BY Items DEF IInv
<1> HIDE DEF user, password, delete
<1>5. New(user) /\ New(password) /\ New(delete)
    BY <1>1, <1>2, <1>4, Blank DEF New, OpShape
<1>6. QED BY <1>3, <1>5, StartsKeeps

LEMMA UserKeeps ==
    ASSUME Screen!Parameters, IInv, Screen!User
    PROVE  IInv'
<1>1. shown.groups \subseteq Screen!Gids /\ 1 \in Screen!Gids
    BY DEF IInv, Screen!TypeOK, Screen!Gids, Screen!Parameters
<1>2. CASE Screen!submitCreateUser
    BY <1>1, <1>2, OtherStartsKeep
<1>3. ASSUME NEW g \in Screen!Gids, Screen!UserSheet(g)
      PROVE  IInv'
  <2>1. CASE Screen!runWrite("renameUser", g, Screen!None)
    <3>1. Screen!None \in Screen!Known(Screen!Credentials) /\ DOMAIN Screen!None = {} /\ OwnIn(Screen!None)
      BY NoneKnown DEF OwnIn
    <3>2. QED BY <2>1, <3>1, runWriteKeeps
  <2>2. QED BY <1>3, <2>1, submitUserValidityKeeps, doGroupToggleKeeps, OtherStartsKeep
            DEF Screen!UserSheet
<1>4. QED BY <1>1, <1>2, <1>3, CredentialSheetKeeps DEF Screen!User

LEMMA LeaveKeeps ==
    ASSUME Screen!Parameters, IInv, Screen!Leave
    PROVE  IInv'
<1> DEFINE o == ops["front"]
<1>1. /\ UNCHANGED <<slots, cloud, due, want, Screen!bounds>>
      /\ o # Screen!Idle /\ ops["behind"] = Screen!Idle
      /\ loads' = [page |-> [Screen!Unasked EXCEPT !.at = "asked"], op |-> Screen!Unasked]
      /\ shown' = Screen!Nothing /\ ready' = FALSE
    BY DEF Screen!Leave
<1>2. o \in Screen!Operations /\ ops \in [Sides -> Screen!Operations]
    BY DEF IInv, Screen!TypeOK, Sides
<1>3. /\ ops'["front"] = Screen!Idle
      /\ ops'["behind"] = IF o.at = "load" THEN Screen!Idle ELSE o
      /\ ops' \in [Sides -> Screen!Operations]
    BY <1>2, Blank DEF Screen!Leave, Sides
<1>4. spoiled' = IF o.at = "load" THEN spoiled ELSE spoiled \cup Screen!SlotsOf(o)
    BY DEF Screen!Leave
<1>5. Screen!OfGroup(cloud.creds, o.group) \subseteq Screen!Uids
    BY KnownFunction DEF IInv, Screen!TypeOK, Screen!OfGroup
<1>6. Screen!SlotsOf(o) \subseteq Screen!Uids
  <2>1. DOMAIN o.items \subseteq Screen!Uids /\ {o.uid} \ {0} \subseteq Screen!Uids
    BY <1>2, KnownFunction DEF Screen!Operations, Screen!Uids, Screen!Parameters
  <2>2. QED BY <1>5, <2>1 DEF Screen!SlotsOf
<1>7. Screen!TypeOK'
  <2>1. loads' \in [LoadRuns -> Screen!Load]
    BY <1>1, Blank DEF LoadRuns, Screen!Load
  <2>2. QED BY <1>1, <1>3, <1>4, <1>6, <2>1, Blank DEF IInv, Screen!TypeOK, LoadRuns, Sides,
               Screen!bounds
<1>8. OwnRanges'
  <2>1. \A r \in LoadRuns : OwnIn(loads[r].creds)'
    BY <1>1, Blank DEF LoadRuns, Screen!Unasked
  <2>2. QED BY <1>1, <1>3, <2>1, Blank DEF IInv, OwnRanges, Sides
<1>9. Shapes'
    BY <1>3, Blank DEF IInv, Shapes, Sides
<1>10. Loaded'
    BY <1>1 DEF Loaded, LoadRuns, Screen!Unasked
<1>11. LeftBehind'
    BY <1>3, <1>4, Blank DEF LeftBehind, Screen!SlotsOf, Screen!Idle
<1>12. Current'
    BY <1>3 DEF Current, Screen!Idle
<1>13. Slots'
  <2>1. ASSUME NEW u \in Screen!Uids \ spoiled'
        PROVE  (Added(u) /\ Fits(u) /\ Kept(u))'
    <3>1. Added(u) /\ Fits(u) /\ Kept(u)
      BY <1>4, <2>1 DEF IInv, Slots
    <3>2. ~Adding(u) /\ ~Setting(u)
      <4>1. CASE o.at = "load"
        BY <4>1 DEF Adding, Setting
      <4>2. CASE o.at # "load"
        BY <1>4, <2>1, <4>2 DEF Screen!SlotsOf, Adding, Setting, IInv, Shapes, OpShape, Sides,
           Screen!Uids, Screen!Parameters
      <4>3. QED BY <4>1, <4>2
    <3>3. u \in DOMAIN cloud.creds => ~Deleting(u)
      BY <1>4, <2>1 DEF Screen!SlotsOf, Deleting, Screen!OfGroup
    <3>4. QED BY <1>1, <1>3, <3>1, <3>2, <3>3
              DEF Added, Fits, Kept, Adding, Setting, Deleting, Screen!Idle
  <2>2. QED BY <2>1 DEF Slots
<1>14. QED BY <1>7, <1>8, <1>9, <1>10, <1>11, <1>12, <1>13 DEF IInv

-----------------------------------------------------------------------------
(* The hub, and the operation over Bluetooth.                              *)

\* The fields of a slot, a credential and a range.
LEMMA Fields ==
    ASSUME Screen!TypeOK
    PROVE  /\ slots \in Screen!Known(Screen!Slot) /\ DOMAIN slots \subseteq Screen!Uids
           /\ \A u \in DOMAIN slots : slots[u] \in Screen!Slot
           /\ cloud \in [groups : SUBSET Screen!Gids, creds : Screen!Known(Screen!Credentials)]
           /\ DOMAIN cloud.creds \subseteq Screen!Uids
           /\ \A u \in DOMAIN cloud.creds : cloud.creds[u] \in Screen!Credentials
           /\ \A c \in Screen!Credentials : c.group \in Screen!Gids /\ c.range \in Screen!Ranges
           /\ \A r \in Screen!Ranges : r.until \in Screen!Until
<1>1. slots \in Screen!Known(Screen!Slot) /\ cloud \in [groups : SUBSET Screen!Gids, creds : Screen!Known(Screen!Credentials)]
    BY DEF Screen!TypeOK
<1>2. cloud.creds \in Screen!Known(Screen!Credentials)
    BY <1>1
<1>3. \A r \in Screen!Ranges : r.until \in Screen!Until
    BY DEF Screen!Ranges, Screen!NoRange, Screen!Until
<1>4. QED BY <1>1, <1>2, <1>3, KnownFunction DEF Screen!Credentials

LEMMA SyncKeeps ==
    ASSUME Screen!Parameters, IInv, Screen!Sync
    PROVE  IInv'
<1>1. PICK u \in due :
        /\ due' = due \ {u}
        /\ slots' = IF u \notin DOMAIN cloud.creds THEN Screen!Without(slots, {u})
                   ELSE IF u \in DOMAIN slots
                        THEN [slots EXCEPT ![u].until = cloud.creds[u].range.until]
                        ELSE slots
        /\ UNCHANGED <<cloud, shown, loads, ops, ready, want, spoiled, Screen!bounds>>
    BY DEF Screen!Sync
<1>2. Screen!TypeOK /\ u \in Screen!Uids
    BY DEF IInv, Screen!TypeOK
<1>3. CASE u \notin DOMAIN cloud.creds
  <2>1. /\ slots' \in Screen!Known(Screen!Slot) /\ DOMAIN slots' = DOMAIN slots \ {u}
        /\ \A w \in DOMAIN slots : w \notin {u} => slots'[w] = slots[w]
    <3> DEFINE less == Screen!Without(slots, {u})
    <3>1. slots' = less /\ slots \in Screen!Known(Screen!Slot)
      BY <1>1, <1>2, <1>3, Fields
    <3>2. less \in Screen!Known(Screen!Slot)
      BY <3>1, WithoutKnown
    <3>3. /\ DOMAIN less = DOMAIN slots \ {u}
          /\ \A w \in DOMAIN slots : w \notin {u} => less[w] = slots[w]
      BY WithoutSome, Zenon
    <3> HIDE DEF less
    <3>4. QED BY <3>1, <3>2, <3>3
  <2>2. Screen!TypeOK'
    BY <1>1, <2>1 DEF IInv, Screen!TypeOK, Screen!bounds
  <2>3. Slots'
    BY <1>1, <1>2, <1>3, <2>1
       DEF IInv, Slots, Added, Fits, Kept, Adding, Setting, Deleting
  <2>4. QED BY <1>1, <2>2, <2>3 DEF IInv, OwnRanges, Shapes, Loaded, LeftBehind, Current
<1>4. CASE u \in DOMAIN cloud.creds /\ u \in DOMAIN slots
  <2> DEFINE until == cloud.creds[u].range.until
  <2>1. until \in Screen!Until
    BY <1>2, <1>4, Fields
  <2>2. slots' = [slots EXCEPT ![u] = [slots[u] EXCEPT !.until = until]]
    BY <1>1, <1>4
  <2> HIDE DEF until
  <2>3. slots \in [DOMAIN slots -> Screen!Slot] /\ slots[u] \in Screen!Slot
    BY <1>2, <1>4, Fields, KnownFunction
  <2>4. [slots[u] EXCEPT !.until = until] \in Screen!Slot
    BY <2>1, <2>3 DEF Screen!Slot
  <2>5. /\ [slots[u] EXCEPT !.until = until].until = until
        /\ [slots[u] EXCEPT !.until = until].group = slots[u].group
    BY <2>3 DEF Screen!Slot
  <2>6. /\ slots' \in [DOMAIN slots -> Screen!Slot]
        /\ DOMAIN slots' = DOMAIN slots /\ slots'[u].until = until /\ slots'[u].group = slots[u].group
        /\ \A w \in DOMAIN slots : w # u => slots'[w] = slots[w]
    BY <1>4, <2>2, <2>3, <2>4, <2>5
  <2>7. slots' \in Screen!Known(Screen!Slot)
    BY <1>2, <2>6, Fields, FunctionKnown
  <2>8. Screen!TypeOK'
    BY <1>1, <2>7 DEF IInv, Screen!TypeOK, Screen!bounds
  <2>9. ASSUME NEW w \in Screen!Uids \ spoiled'
        PROVE  (Added(w) /\ Fits(w) /\ Kept(w))'
    <3>1. Added(w) /\ Fits(w) /\ Kept(w)
      BY <1>1, <2>9 DEF IInv, Slots
    <3>2. QED BY <1>1, <1>4, <2>6, <3>1
              DEF Added, Fits, Kept, Adding, Setting, Deleting, until
  <2>10. Slots'
    BY <2>9 DEF Slots
  <2>11. QED BY <1>1, <2>8, <2>10 DEF IInv, OwnRanges, Shapes, Loaded, LeftBehind, Current
<1>5. CASE u \in DOMAIN cloud.creds /\ u \notin DOMAIN slots
  <2>1. UNCHANGED slots
    BY <1>1, <1>5
  <2>2. Screen!TypeOK'
    BY <1>1, <2>1 DEF IInv, Screen!TypeOK, Screen!bounds
  <2>3. Slots'
    BY <1>1, <1>5, <2>1 DEF IInv, Slots, Added, Fits, Kept, Adding, Setting, Deleting
  <2>4. QED BY <1>1, <2>2, <2>3 DEF IInv, OwnRanges, Shapes, Loaded, LeftBehind, Current
<1>6. QED BY <1>3, <1>4, <1>5

\* What a step makes of its operation, the other one untouched.
LEMMA OpGoes ==
    ASSUME Screen!TypeOK, NEW s \in Sides, NEW o \in Screen!Operations, ops' = [ops EXCEPT ![s] = o]
    PROVE  ops' \in [Sides -> Screen!Operations] /\ ops'[s] = o
           /\ \A t \in Sides : t # s => ops'[t] = ops[t]
    BY DEF Screen!TypeOK, Sides

\* An operation goes on with the same credentials.
Onward(o, n) ==
    /\ n \in Screen!Operations /\ OpShape(n) /\ n.kind = o.kind /\ n.items = o.items
    /\ n.ranges = o.ranges /\ n.group = o.group /\ n.todo \subseteq o.todo

\* The parts of the invariant that are about the operations and the loads.
OpsInv == (OwnRanges /\ Shapes /\ Loaded /\ LeftBehind)

LEMMA GoesKeeps ==
    ASSUME IInv, NEW s \in Sides, NEW n, Onward(ops[s], n), n.at # "idle",
           s = "behind" => n.uid = ops[s].uid, Screen!Goes(s, n),
           ops[s].at \notin {"idle", "load"},
           OwnIn(cloud.creds)', UNCHANGED shown, spoiled \subseteq spoiled'
    PROVE  /\ OpsInv'
           /\ ops' \in [Sides -> Screen!Operations] /\ loads' \in [LoadRuns -> Screen!Load]
           /\ ops'[s] = n /\ \A t \in Sides : t # s => ops'[t] = ops[t]
<1>1. /\ ops' \in [Sides -> Screen!Operations] /\ ops'[s] = n
      /\ \A t \in Sides : t # s => ops'[t] = ops[t]
    BY OpGoes DEF IInv, Screen!Goes, Onward
<1>2. UNCHANGED loads /\ loads \in [LoadRuns -> Screen!Load]
    BY DEF Screen!Goes, IInv, Screen!TypeOK, LoadRuns
<1>3. OwnRanges'
    BY <1>1, <1>2 DEF IInv, OwnRanges, OwnIn, Own, Onward
<1>4. Shapes'
    BY <1>1 DEF IInv, Shapes, Onward
<1>5. Loaded'
    BY <1>1, <1>2 DEF IInv, Loaded, Sides
<1>6. ops[s] # Screen!Idle
    BY DEF Screen!Idle
<1>7. LeftBehind'
    BY <1>1, <1>6 DEF IInv, LeftBehind, Onward, Sides
<1>8. QED BY <1>1, <1>2, <1>3, <1>4, <1>5, <1>7 DEF OpsInv

LEMMA EndsKeeps ==
    ASSUME Screen!Parameters, IInv, NEW s \in Sides, Screen!Ends(s), ops[s].at \notin {"idle", "load"},
           OwnIn(cloud.creds)', UNCHANGED shown, spoiled \subseteq spoiled'
    PROVE  /\ OpsInv'
           /\ ops' \in [Sides -> Screen!Operations] /\ loads' \in [LoadRuns -> Screen!Load]
           /\ ops'[s] = Screen!Idle /\ \A t \in Sides : t # s => ops'[t] = ops[t]
<1>1. /\ ops' \in [Sides -> Screen!Operations] /\ ops'[s] = Screen!Idle
      /\ \A t \in Sides : t # s => ops'[t] = ops[t]
    BY OpGoes, Blank DEF IInv, Screen!Ends
<1>2. UNCHANGED loads /\ loads \in [LoadRuns -> Screen!Load]
    BY DEF Screen!Ends, IInv, Screen!TypeOK, LoadRuns
<1>3. OwnRanges'
    BY <1>1, <1>2, Blank DEF IInv, OwnRanges, OwnIn, Own
<1>4. Shapes'
    BY <1>1, Blank DEF IInv, Shapes
<1>5. Loaded'
    BY <1>1, <1>2 DEF IInv, Loaded, Sides
<1>6. LeftBehind'
    BY <1>1, Blank DEF IInv, LeftBehind, Sides, Screen!Idle
<1>7. QED BY <1>1, <1>2, <1>3, <1>4, <1>5, <1>6 DEF OpsInv

\* The slots that the ranges are for are changed, and nothing but their end.
LEMMA SetSlotsType ==
    ASSUME Screen!TypeOK, OwnRanges, NEW s \in Sides, NEW D \in SUBSET DOMAIN ops[s].ranges
    PROVE  LET after == Screen!SetSlots(slots, {ops[s].ranges[u] : u \in D})
           IN  /\ after \in Screen!Known(Screen!Slot) /\ DOMAIN after = DOMAIN slots
               /\ \A w \in DOMAIN slots : after[w].group = slots[w].group
               /\ \A w \in DOMAIN slots : w \notin D => after[w] = slots[w]
<1> DEFINE R == {ops[s].ranges[u] : u \in D}
           after == Screen!SetSlots(slots, R)
<1>1. \A u \in D : ops[s].ranges[u] \in Own(u)
    BY DEF OwnRanges
<1>2. \A r \in R : r.until \in Screen!Until /\ r.uid \in D
    BY <1>1 DEF Own
<1> HIDE DEF R
<1>3. slots \in [DOMAIN slots -> Screen!Slot] /\ DOMAIN slots \subseteq Screen!Uids
    BY Fields, KnownFunction
<1>4. ASSUME NEW w \in DOMAIN slots
      PROVE  after[w] \in Screen!Slot /\ after[w].group = slots[w].group /\ (w \notin D => after[w] = slots[w])
  <2>1. CASE \E r \in R : r.uid = w
    <3> DEFINE q == CHOOSE r \in R : r.uid = w
    <3>1. q \in R /\ q.uid = w
      BY <2>1
    <3>2. after[w] = [slots[w] EXCEPT !.until = q.until]
      BY <1>4, <2>1 DEF Screen!SetSlots
    <3> HIDE DEF q
    <3>3. q.until \in Screen!Until /\ w \in D
      BY <1>2, <3>1
    <3>4. QED BY <1>3, <1>4, <3>2, <3>3 DEF Screen!Slot
  <2>2. CASE ~\E r \in R : r.uid = w
    BY <1>3, <1>4, <2>2 DEF Screen!SetSlots
  <2>3. QED BY <2>1, <2>2
<1>5. DOMAIN after = DOMAIN slots
    BY DEF Screen!SetSlots
<1>6. after \in [DOMAIN slots -> Screen!Slot]
    BY <1>4, <1>5 DEF Screen!SetSlots
<1>7. QED BY <1>3, <1>4, <1>5, <1>6, FunctionKnown DEF R

\* A slot that the step leaves alone, of an operation that it leaves alone or that had
\* nothing in flight.
LEMMA SlotStays ==
    ASSUME NEW u, Added(u), Fits(u), Kept(u),
           u \in DOMAIN slots' <=> u \in DOMAIN slots, u \in DOMAIN slots => slots'[u] = slots[u],
           u \in DOMAIN cloud'.creds <=> u \in DOMAIN cloud.creds,
           u \in DOMAIN cloud.creds => cloud'.creds[u] = cloud.creds[u],
           u \in due' <=> u \in due,
           u \in DOMAIN want' <=> u \in DOMAIN want, u \in DOMAIN want => want'[u] = want[u],
           \/ ops'["front"] = ops["front"]
           \/ /\ ~Adding(u) /\ ~Setting(u) /\ ~Adding(u)'
              /\ u \in DOMAIN cloud.creds => ~Deleting(u)
    PROVE  (Added(u) /\ Fits(u) /\ Kept(u))'
    BY DEF Added, Fits, Kept, Adding, Setting, Deleting

LEMMA setValidityKeeps ==
    ASSUME Screen!Parameters, IInv, NEW s \in Sides, Screen!setValidity(s)
    PROVE  IInv'
<1> DEFINE o == ops[s]
           n == [o EXCEPT !.at = "cloud"]
<1>1. /\ o.kind = "validity" /\ o.at = "ble"
      /\ UNCHANGED <<cloud, due, shown, ready, want, nops, pulls>>
    BY DEF Screen!setValidity
<1>2. PICK D \in SUBSET DOMAIN o.ranges :
        /\ slots' = Screen!SetSlots(slots, {o.ranges[u] : u \in D})
        /\ \/ s = "front" /\ Screen!Goes(s, n) /\ UNCHANGED spoiled
           \/ Screen!Ends(s) /\ Screen!Spoil(DOMAIN o.ranges)
    BY DEF Screen!setValidity
<1>3. o \in Screen!Operations /\ OpShape(o) /\ DOMAIN o.ranges = DOMAIN o.items
    BY <1>1 DEF IInv, Screen!TypeOK, Shapes, OpShape, Sides
<1>4. Onward(o, n) /\ n.at = "cloud" /\ n.todo = DOMAIN o.items /\ n.uid = o.uid
  <2>1. /\ n \in Screen!Operations /\ n.at = "cloud" /\ n.kind = o.kind /\ n.items = o.items
        /\ n.ranges = o.ranges /\ n.group = o.group /\ n.todo = o.todo /\ n.uid = o.uid
    BY <1>3 DEF Screen!Operations
  <2>2. QED BY <1>1, <1>3, <2>1 DEF Onward, OpShape
<1>5. /\ slots' \in Screen!Known(Screen!Slot) /\ DOMAIN slots' = DOMAIN slots
      /\ \A w \in DOMAIN slots : slots'[w].group = slots[w].group
      /\ \A w \in DOMAIN slots : w \notin D => slots'[w] = slots[w]
    BY <1>2, SetSlotsType DEF IInv
<1>6. OwnIn(cloud.creds)' /\ (Screen!Fault \/ UNCHANGED failures)
    BY <1>1 DEF IInv, OwnRanges, Screen!setValidity, Screen!Broken
<1>7. DOMAIN o.ranges \subseteq Screen!Uids
    BY <1>3, KnownFunction DEF Screen!Operations
<1>8. spoiled \subseteq spoiled' /\ spoiled' \subseteq Screen!Uids
    BY <1>2, <1>7 DEF Screen!Spoil, IInv, Screen!TypeOK
<1>9. failures' \in 0..MaxFailures
    BY <1>6, FaultType DEF IInv
<1> HIDE DEF n
<1>10. CASE s = "front" /\ Screen!Goes(s, n) /\ UNCHANGED spoiled
  <2>1. /\ OpsInv' /\ ops' \in [Sides -> Screen!Operations] /\ loads' \in [LoadRuns -> Screen!Load]
        /\ ops'["front"] = n
    BY <1>1, <1>4, <1>6, <1>10, GoesKeeps DEF IInv, Sides
  <2>2. Current'
    BY <1>1, <1>3, <1>4, <1>10, <2>1 DEF IInv, Current, Onward, OpShape
  <2>3. ASSUME NEW u \in Screen!Uids \ spoiled'
        PROVE  (Added(u) /\ Fits(u) /\ Kept(u))'
    <3>1. Added(u) /\ Fits(u) /\ Kept(u)
      BY <1>8, <2>3 DEF IInv, Slots
    <3>2. /\ ~Adding(u) /\ ~Setting(u) /\ ~Deleting(u) /\ ~Adding(u)'
          /\ Setting(u)' <=> u \in DOMAIN o.items
      BY <1>1, <1>4, <1>10, <2>1 DEF Adding, Setting, Deleting, Onward
    <3>3. u \in DOMAIN slots /\ u \notin DOMAIN o.items => slots'[u] = slots[u]
      BY <1>3, <1>5
    <3>4. QED BY <1>1, <1>5, <3>1, <3>2, <3>3 DEF Added, Fits, Kept
  <2>4. Slots'
    BY <2>3 DEF Slots
  <2>5. QED BY <1>1, <1>5, <1>8, <1>9, <2>1, <2>2, <2>4 DEF IInv, OpsInv, Screen!TypeOK,
               Sides, LoadRuns
<1>11. CASE Screen!Ends(s) /\ Screen!Spoil(DOMAIN o.ranges)
  <2>1. /\ OpsInv' /\ ops' \in [Sides -> Screen!Operations] /\ loads' \in [LoadRuns -> Screen!Load]
        /\ ops'[s] = Screen!Idle /\ (s # "front" => ops'["front"] = ops["front"])
    BY <1>1, <1>6, <1>8, <1>11, EndsKeeps DEF Sides
  <2>2. Current'
    BY <1>1, <1>8, <2>1 DEF IInv, Current, Screen!Idle, Sides
  <2>3. ASSUME NEW u \in Screen!Uids \ spoiled'
        PROVE  (Added(u) /\ Fits(u) /\ Kept(u))'
    <3>1. Added(u) /\ Fits(u) /\ Kept(u)
      BY <1>8, <2>3 DEF IInv, Slots
    <3>2. u \in DOMAIN slots => slots'[u] = slots[u]
      BY <1>5, <1>11, <2>3 DEF Screen!Spoil
    <3>3. s = "front" => ~Adding(u) /\ ~Setting(u) /\ ~Deleting(u) /\ ~Adding(u)'
      BY <1>1, <2>1 DEF Adding, Setting, Deleting, Screen!Idle
    <3>4. QED BY <1>1, <1>5, <2>1, <3>1, <3>2, <3>3, SlotStays
  <2>4. Slots'
    BY <2>3 DEF Slots
  <2>5. QED BY <1>1, <1>5, <1>8, <1>9, <2>1, <2>2, <2>4 DEF IInv, OpsInv, Screen!TypeOK,
               Sides, LoadRuns
<1>12. QED BY <1>2, <1>10, <1>11

LEMMA createPasswordKeeps ==
    ASSUME Screen!Parameters, IInv, NEW s \in Sides, Screen!createPassword(s)
    PROVE  IInv'
<1> DEFINE o == ops[s]
           free == Screen!Uids \ DOMAIN slots
           m == Screen!Min(free)
           n == [o EXCEPT !.at = "cloud", !.uid = m]
           more == Screen!With(slots, m, [group |-> o.group, until |-> "forever"])
<1>1. /\ o.kind = "password" /\ o.at = "ble"
      /\ UNCHANGED <<cloud, due, shown, ready, want, nops, pulls>>
    BY DEF Screen!createPassword
<1>2. \/ /\ s = "front" /\ free # {} /\ slots' = more /\ Screen!Goes(s, n) /\ Screen!Spoil({m} \cap due)
      \/ /\ free # {} /\ slots' = more /\ Screen!Ends(s) /\ Screen!Spoil({m})
      \/ Screen!Ends(s) /\ UNCHANGED <<slots, spoiled>>
    BY DEF Screen!createPassword
<1>3. o \in Screen!Operations /\ OpShape(o)
    BY DEF IInv, Screen!TypeOK, Shapes, Sides
<1>4. free # {} => m \in Screen!Uids /\ m \notin DOMAIN slots /\ m # 0
    BY MinSlot
<1>5. free # {} => /\ more \in Screen!Known(Screen!Slot) /\ DOMAIN more = DOMAIN slots \cup {m}
                   /\ more[m] = [group |-> o.group, until |-> "forever"]
                   /\ \A w \in DOMAIN slots : w # m => more[w] = slots[w]
  <2>1. [group |-> o.group, until |-> "forever"] \in Screen!Slot /\ slots \in Screen!Known(Screen!Slot)
    BY <1>3, Fields DEF IInv, Screen!Operations, Screen!Slot, Screen!Until
  <2>2. free # {} => more \in Screen!Known(Screen!Slot)
    <3> HIDE DEF m, free
    <3>1. QED BY <1>4, <2>1, WithKnown
  <2> HIDE DEF m, free
  <2>3. QED BY <1>4, <2>2 DEF Screen!With
<1>6. OwnIn(cloud.creds)' /\ (Screen!Fault \/ UNCHANGED failures)
    BY <1>1 DEF IInv, OwnRanges, Screen!createPassword, Screen!Broken
<1>7. spoiled \subseteq spoiled' /\ spoiled' \subseteq Screen!Uids
    BY <1>2, <1>4 DEF Screen!Spoil, IInv, Screen!TypeOK
<1>8. failures' \in 0..MaxFailures
    BY <1>6, FaultType DEF IInv
<1> HIDE DEF free, m, more
<1>9. CASE s = "front" /\ free # {} /\ slots' = more /\ Screen!Goes(s, n) /\ Screen!Spoil({m} \cap due)
  <2>1. /\ n \in Screen!Operations /\ n.at = "cloud" /\ n.uid = m /\ n.kind = o.kind
        /\ n.items = o.items /\ n.ranges = o.ranges /\ n.group = o.group /\ n.todo = o.todo
    <3>1. m \in 0..MaxUid
      BY <1>4, <1>9 DEF Screen!Uids, Screen!Parameters
    <3>2. QED BY <1>3, <3>1 DEF Screen!Operations
  <2>2. o.todo = {} /\ Onward(o, n)
    BY <1>1, <1>3, <1>4, <1>9, <2>1 DEF Onward, OpShape
  <2> HIDE DEF n
  <2>3. /\ OpsInv' /\ ops' \in [Sides -> Screen!Operations] /\ loads' \in [LoadRuns -> Screen!Load]
        /\ ops'["front"] = n
    BY <1>1, <1>6, <1>7, <1>9, <2>1, <2>2, GoesKeeps DEF IInv, Sides
  <2>4. Current'
    BY <2>1, <2>2, <2>3 DEF Current
  <2>5. ASSUME NEW u \in Screen!Uids \ spoiled'
        PROVE  (Added(u) /\ Fits(u) /\ Kept(u))'
    <3>1. Added(u) /\ Fits(u) /\ Kept(u)
      BY <1>7, <2>5 DEF IInv, Slots
    <3>2. ~Adding(u) /\ ~Setting(u) /\ ~Deleting(u) /\ (Adding(u)' <=> u = m)
      BY <1>1, <1>9, <2>1, <2>3 DEF Adding, Setting, Deleting
    <3>3. CASE u = m
      <4>1. u \notin due /\ u \notin DOMAIN slots /\ u \notin DOMAIN cloud.creds
        BY <1>4, <1>9, <2>5, <3>1, <3>2, <3>3 DEF Screen!Spoil, Fits
      <4>2. QED BY <1>1, <1>5, <1>9, <2>1, <2>3, <3>1, <3>2, <3>3, <4>1
                DEF Added, Fits, Kept
    <3>4. CASE u # m
      BY <1>1, <1>5, <1>9, <3>1, <3>2, <3>4, SlotStays
    <3>5. QED BY <3>3, <3>4
  <2>6. Slots'
    BY <2>5 DEF Slots
  <2>7. QED BY <1>1, <1>5, <1>7, <1>8, <1>9, <2>3, <2>4, <2>6
            DEF IInv, OpsInv, Screen!TypeOK, Sides, LoadRuns
<1>10. ASSUME Screen!Ends(s), slots' = slots \/ (free # {} /\ slots' = more /\ Screen!Spoil({m}))
       PROVE  IInv'
  <2>1. /\ OpsInv' /\ ops' \in [Sides -> Screen!Operations] /\ loads' \in [LoadRuns -> Screen!Load]
        /\ ops'[s] = Screen!Idle /\ (s # "front" => ops'["front"] = ops["front"])
    BY <1>1, <1>6, <1>7, <1>10, EndsKeeps DEF Sides
  <2>2. Current'
    BY <1>1, <1>7, <2>1 DEF IInv, Current, Screen!Idle, Sides
  <2>3. ASSUME NEW u \in Screen!Uids \ spoiled'
        PROVE  (Added(u) /\ Fits(u) /\ Kept(u))'
    <3>1. Added(u) /\ Fits(u) /\ Kept(u)
      BY <1>7, <2>3 DEF IInv, Slots
    <3>2. /\ u \in DOMAIN slots' <=> u \in DOMAIN slots
          /\ u \in DOMAIN slots => slots'[u] = slots[u]
      BY <1>5, <1>10, <2>3 DEF Screen!Spoil
    <3>3. s = "front" => ~Adding(u) /\ ~Setting(u) /\ ~Deleting(u) /\ ~Adding(u)'
      BY <1>1, <2>1 DEF Adding, Setting, Deleting, Screen!Idle
    <3>4. QED BY <1>1, <2>1, <3>1, <3>2, <3>3, SlotStays
  <2>4. Slots'
    BY <2>3 DEF Slots
  <2>5. slots' \in Screen!Known(Screen!Slot)
    BY <1>5, <1>10 DEF IInv, Screen!TypeOK
  <2>6. QED BY <1>1, <1>7, <1>8, <2>1, <2>2, <2>4, <2>5 DEF IInv, OpsInv, Screen!TypeOK,
               Sides, LoadRuns
<1>11. QED BY <1>2, <1>9, <1>10

LEMMA deleteUserGroupKeeps ==
    ASSUME Screen!Parameters, IInv, NEW s \in Sides, Screen!deleteUserGroup(s)
    PROVE  IInv'
<1> DEFINE o == ops[s]
           n == [o EXCEPT !.at = "mirror"]
           those == {u \in DOMAIN slots : slots[u].group = o.group}
           gone == Screen!Without(slots, those)
<1>1. /\ o.kind = "deleteUser" /\ o.at = "ble"
      /\ UNCHANGED <<cloud, due, shown, ready, want, nops, pulls>>
      /\ slots' \in {slots, gone}
    BY DEF Screen!deleteUserGroup
<1>2. \/ s = "front" /\ Screen!Goes(s, n) /\ UNCHANGED spoiled
      \/ Screen!Ends(s) /\ Screen!Spoil(DOMAIN slots \ DOMAIN slots')
    BY DEF Screen!deleteUserGroup
<1>3. o \in Screen!Operations /\ OpShape(o) /\ o.todo = {}
    BY <1>1 DEF IInv, Screen!TypeOK, Shapes, OpShape, Sides
<1>4. Onward(o, n) /\ n.at = "mirror" /\ n.uid = o.uid
  <2>1. /\ n \in Screen!Operations /\ n.at = "mirror" /\ n.kind = o.kind /\ n.items = o.items
        /\ n.ranges = o.ranges /\ n.group = o.group /\ n.todo = o.todo /\ n.uid = o.uid
    BY <1>3 DEF Screen!Operations
  <2>2. QED BY <1>1, <1>3, <2>1 DEF Onward, OpShape
<1> HIDE DEF n
<1>5. /\ slots' \in Screen!Known(Screen!Slot) /\ DOMAIN slots' \subseteq DOMAIN slots
      /\ \A w \in DOMAIN slots : w \notin DOMAIN slots' => slots[w].group = o.group
      /\ \A w \in DOMAIN slots' : slots'[w] = slots[w]
  <2>1. slots \in Screen!Known(Screen!Slot)
    BY Fields DEF IInv
  <2>2. gone \in Screen!Known(Screen!Slot)
    BY <2>1, WithoutKnown
  <2>3. /\ DOMAIN gone = DOMAIN slots \ those
        /\ \A w \in DOMAIN slots : w \notin those => gone[w] = slots[w]
    BY WithoutSome, Zenon
  <2> HIDE DEF gone
  <2>4. QED BY <1>1, <2>1, <2>2, <2>3
<1>6. OwnIn(cloud.creds)' /\ (Screen!Fault \/ UNCHANGED failures)
    BY <1>1 DEF IInv, OwnRanges, Screen!deleteUserGroup, Screen!Broken
<1>7. spoiled \subseteq spoiled' /\ spoiled' \subseteq Screen!Uids
    BY <1>2, Fields DEF Screen!Spoil, IInv, Screen!TypeOK
<1>8. failures' \in 0..MaxFailures
    BY <1>6, FaultType DEF IInv
<1>9. CASE s = "front" /\ Screen!Goes(s, n) /\ UNCHANGED spoiled
  <2>1. /\ OpsInv' /\ ops' \in [Sides -> Screen!Operations] /\ loads' \in [LoadRuns -> Screen!Load]
        /\ ops'["front"] = n
    BY <1>1, <1>4, <1>6, <1>9, GoesKeeps DEF IInv, Sides
  <2>2. Current'
    BY <1>3, <1>4, <2>1 DEF Current, Onward
  <2>3. ASSUME NEW u \in Screen!Uids \ spoiled'
        PROVE  (Added(u) /\ Fits(u) /\ Kept(u))'
    <3>1. Added(u) /\ Fits(u) /\ Kept(u)
      BY <1>7, <2>3 DEF IInv, Slots
    <3>2. /\ ~Adding(u) /\ ~Setting(u) /\ ~Deleting(u) /\ ~Adding(u)' /\ ~Setting(u)'
          /\ Deleting(u)' <=> cloud.creds[u].group = o.group
      BY <1>1, <1>4, <1>9, <2>1 DEF Adding, Setting, Deleting, Onward
    <3>3. QED BY <1>1, <1>5, <3>1, <3>2 DEF Added, Fits, Kept
  <2>4. Slots'
    BY <2>3 DEF Slots
  <2>5. QED BY <1>1, <1>5, <1>7, <1>8, <2>1, <2>2, <2>4 DEF IInv, OpsInv, Screen!TypeOK,
               Sides, LoadRuns
<1>10. CASE Screen!Ends(s) /\ Screen!Spoil(DOMAIN slots \ DOMAIN slots')
  <2>1. /\ OpsInv' /\ ops' \in [Sides -> Screen!Operations] /\ loads' \in [LoadRuns -> Screen!Load]
        /\ ops'[s] = Screen!Idle /\ (s # "front" => ops'["front"] = ops["front"])
    BY <1>1, <1>6, <1>7, <1>10, EndsKeeps DEF Sides
  <2>2. Current'
    BY <1>1, <1>7, <2>1 DEF IInv, Current, Screen!Idle, Sides
  <2>3. ASSUME NEW u \in Screen!Uids \ spoiled'
        PROVE  (Added(u) /\ Fits(u) /\ Kept(u))'
    <3>1. Added(u) /\ Fits(u) /\ Kept(u)
      BY <1>7, <2>3 DEF IInv, Slots
    <3>2. /\ u \in DOMAIN slots' <=> u \in DOMAIN slots
          /\ u \in DOMAIN slots => slots'[u] = slots[u]
      BY <1>5, <1>10, <2>3 DEF Screen!Spoil
    <3>3. s = "front" => ~Adding(u) /\ ~Setting(u) /\ ~Deleting(u) /\ ~Adding(u)'
      BY <1>1, <2>1 DEF Adding, Setting, Deleting, Screen!Idle
    <3>4. QED BY <1>1, <2>1, <3>1, <3>2, <3>3, SlotStays
  <2>4. Slots'
    BY <2>3 DEF Slots
  <2>5. QED BY <1>1, <1>5, <1>7, <1>8, <2>1, <2>2, <2>4 DEF IInv, OpsInv, Screen!TypeOK,
               Sides, LoadRuns
<1>11. QED BY <1>2, <1>9, <1>10

-----------------------------------------------------------------------------
(* The operation in the cloud.                                             *)

\* What the cloud becomes differs from what it was in some slots only.
Cloud == [groups : SUBSET Screen!Gids, creds : Screen!Known(Screen!Credentials)]
Elsewhere(c, U) ==
    \A w \in Screen!Uids \ U : /\ w \in DOMAIN c.creds <=> w \in DOMAIN cloud.creds
                               /\ w \in DOMAIN cloud.creds => c.creds[w] = cloud.creds[w]

\* A write is told to the hub; or its slots are spoiled and it may not have happened.
Writes(c, U) ==
    /\ c \in Cloud /\ OwnIn(c.creds) /\ U \subseteq Screen!Uids /\ Elsewhere(c, U)
    /\ UNCHANGED slots /\ spoiled \subseteq spoiled' /\ spoiled' \subseteq Screen!Uids
    /\ Screen!Tell(c, U) \/ (U \subseteq spoiled' /\ UNCHANGED <<cloud, due>>)

LEMMA WritesEffect ==
    ASSUME Screen!TypeOK, OwnRanges, NEW c, NEW U, Writes(c, U)
    PROVE  /\ cloud' \in Cloud /\ OwnIn(cloud'.creds) /\ due' \subseteq Screen!Uids
           /\ \A w \in Screen!Uids \ U : /\ w \in DOMAIN cloud'.creds <=> w \in DOMAIN cloud.creds
                                         /\ w \in DOMAIN cloud.creds => cloud'.creds[w] = cloud.creds[w]
                                         /\ w \in due' <=> w \in due
           /\ \A w \in U \ spoiled' :
                 /\ cloud' = c /\ (w \in due => w \in due')
                 /\ w \in DOMAIN slots => w \in due' \/ Screen!Agrees(slots, c.creds, w)
<1>1. cloud \in Cloud /\ OwnIn(cloud.creds) /\ due \subseteq Screen!Uids /\ DOMAIN slots \subseteq Screen!Uids
    BY Fields DEF Screen!TypeOK, OwnRanges, Cloud
<1>2. CASE Screen!Tell(c, U)
    BY <1>1, <1>2 DEF Writes, Screen!Tell, Elsewhere
<1>3. CASE U \subseteq spoiled' /\ UNCHANGED <<cloud, due>>
    BY <1>1, <1>3 DEF Writes
<1>4. QED BY <1>2, <1>3 DEF Writes

\* The operation has made its last write.
LEMMA LoadsKeeps ==
    ASSUME Screen!Parameters, IInv, NEW s \in Sides, Screen!Loads(s) \/ Screen!Ends(s),
           ops[s].at \notin {"idle", "load"},
           OwnIn(cloud.creds)', UNCHANGED shown, spoiled \subseteq spoiled'
    PROVE  /\ OpsInv'
           /\ ops' \in [Sides -> Screen!Operations] /\ loads' \in [LoadRuns -> Screen!Load]
           /\ s # "front" => ops'["front"] = ops["front"]
           /\ s = "front" => ops'["front"].at \in {"idle", "load"} /\ ops'["front"].todo = {}
<1>1. CASE Screen!Ends(s)
    BY <1>1, EndsKeeps DEF Sides, Screen!Idle
<1>2. CASE s = "front" /\ Screen!Loads(s)
  <2> DEFINE o == ops["front"]
             n == [o EXCEPT !.at = "load", !.todo = {}]
  <2>1. o \in Screen!Operations /\ OpShape(o) /\ o # Screen!Idle /\ ops \in [Sides -> Screen!Operations]
    BY <1>2 DEF IInv, Screen!TypeOK, Shapes, Sides, Screen!Idle
  <2>2. /\ n \in Screen!Operations /\ n.at = "load" /\ n.kind = o.kind /\ n.items = o.items
        /\ n.ranges = o.ranges /\ n.group = o.group /\ n.todo = {} /\ n.uid = o.uid
    BY <2>1 DEF Screen!Operations
  <2>3. ops' = [ops EXCEPT !["front"] = n]
    BY <1>2, <2>1 DEF Screen!Loads
  <2>4. loads' = [loads EXCEPT !["op"] = [Screen!Unasked EXCEPT !.at = "asked"]]
    BY <1>2 DEF Screen!Loads, Screen!Ask
  <2> HIDE DEF n
  <2>5. /\ ops' \in [Sides -> Screen!Operations] /\ ops'["front"] = n
        /\ ops'["behind"] = ops["behind"]
    BY <2>1, <2>2, <2>3 DEF Sides
  <2>6. /\ loads' \in [LoadRuns -> Screen!Load] /\ OwnIn(loads'["op"].creds)
        /\ loads'["page"] = loads["page"] /\ loads'["op"].at = "asked"
    BY <2>4, Blank DEF IInv, Screen!TypeOK, LoadRuns, Screen!Load, Screen!Unasked
  <2>7. OwnRanges'
    BY <2>2, <2>5, <2>6 DEF IInv, OwnRanges, OwnIn, Own, Sides, LoadRuns
  <2>8. Shapes'
    BY <2>1, <2>2, <2>5 DEF IInv, Shapes, OpShape, Sides
  <2>9. Loaded'
    BY <2>2, <2>5, <2>6 DEF IInv, Loaded, LoadRuns
  <2>10. LeftBehind'
    BY <2>1, <2>2, <2>5 DEF IInv, LeftBehind
  <2>11. QED BY <1>2, <2>2, <2>5, <2>6, <2>7, <2>8, <2>9, <2>10 DEF OpsInv
<1>3. QED BY <1>1, <1>2 DEF Screen!Loads

\* A write of an operation that has nothing in flight but what it writes, and that ends or
\* loads after it: what is left to show is what becomes of the slots it writes.
LEMMA LastWriteKeeps ==
    ASSUME Screen!Parameters, IInv, NEW s \in Sides, NEW c, NEW U, Writes(c, U),
           Screen!Loads(s) \/ Screen!Ends(s), ops[s].at \notin {"idle", "load"},
           UNCHANGED <<shown, ready, nops, pulls>>, Screen!Fault \/ UNCHANGED failures,
           want' \in Screen!Known(Screen!Until),
           \A u \in Screen!Uids : /\ u \notin U => (u \in DOMAIN want' <=> u \in DOMAIN want)
                                  /\ u \notin U /\ u \in DOMAIN want => want'[u] = want[u],
           s = "front" => \A u \in Screen!Uids \ U :
              ~Adding(u) /\ ~Setting(u) /\ (u \in DOMAIN cloud.creds => ~Deleting(u)),
           s = "behind" => \A u \in ops["front"].todo \ spoiled : u \notin U,
           \A u \in U \ spoiled' :
              (cloud' = c /\ (u \in due => u \in due')
                 /\ (u \in DOMAIN slots => u \in due' \/ Screen!Agrees(slots, c.creds, u))
                 /\ Added(u) /\ Fits(u) /\ Kept(u)
                 /\ IF s = "front" THEN ops'["front"].at \in {"idle", "load"}
                                   ELSE ops'["front"] = ops["front"])
              => (Added(u) /\ Fits(u) /\ Kept(u))'
    PROVE  IInv'
<1>1. /\ cloud' \in Cloud /\ OwnIn(cloud'.creds) /\ due' \subseteq Screen!Uids
      /\ \A w \in Screen!Uids \ U : /\ w \in DOMAIN cloud'.creds <=> w \in DOMAIN cloud.creds
                                    /\ w \in DOMAIN cloud.creds => cloud'.creds[w] = cloud.creds[w]
                                    /\ w \in due' <=> w \in due
      /\ \A w \in U \ spoiled' :
            /\ cloud' = c /\ (w \in due => w \in due')
            /\ w \in DOMAIN slots => w \in due' \/ Screen!Agrees(slots, c.creds, w)
    BY WritesEffect DEF IInv
<1>2. UNCHANGED slots /\ spoiled \subseteq spoiled' /\ spoiled' \subseteq Screen!Uids /\ U \subseteq Screen!Uids
    BY DEF Writes
<1>3. /\ OpsInv' /\ ops' \in [Sides -> Screen!Operations] /\ loads' \in [LoadRuns -> Screen!Load]
      /\ s # "front" => ops'["front"] = ops["front"]
      /\ s = "front" => ops'["front"].at \in {"idle", "load"} /\ ops'["front"].todo = {}
    BY <1>1, <1>2, LoadsKeeps
<1>4. failures' \in 0..MaxFailures
    BY FaultType DEF IInv
<1>5. Screen!TypeOK'
    BY <1>1, <1>2, <1>3, <1>4 DEF IInv, Screen!TypeOK, Sides, LoadRuns, Cloud
<1>6. Current'
  <2>1. CASE s = "front"
    BY <1>3, <2>1 DEF Current
  <2>2. CASE s = "behind"
    <3>1. ops'["front"] = ops["front"] /\ ops["front"].todo \subseteq Screen!Uids
      BY <1>3, <2>2 DEF IInv, Screen!TypeOK, Screen!Operations
    <3>2. SUFFICES ASSUME NEW u \in ops["front"].todo \ spoiled'
                   PROVE  u \in DOMAIN cloud'.creds /\ cloud'.creds[u] = ops["front"].items[u]
      BY <3>1 DEF Current
    <3>3. u \in Screen!Uids \ U /\ u \notin spoiled
      BY <1>2, <2>2, <3>1, <3>2
    <3>4. u \in DOMAIN cloud.creds /\ cloud.creds[u] = ops["front"].items[u]
      BY <3>2, <3>3 DEF IInv, Current
    <3>5. QED BY <1>1, <3>3, <3>4
  <2>3. QED BY <2>1, <2>2 DEF Sides
<1>7. ASSUME NEW u \in Screen!Uids \ spoiled'
      PROVE  (Added(u) /\ Fits(u) /\ Kept(u))'
  <2>1. Added(u) /\ Fits(u) /\ Kept(u)
    BY <1>2, <1>7 DEF IInv, Slots
  <2>2. CASE u \in U
    BY <1>1, <1>3, <1>7, <2>1, <2>2
  <2>3. CASE u \notin U
    <3>1. \/ ops'["front"] = ops["front"]
          \/ /\ ~Adding(u) /\ ~Setting(u) /\ ~Adding(u)'
             /\ u \in DOMAIN cloud.creds => ~Deleting(u)
      <4>1. s = "front" => ~Adding(u)'
        BY <1>3 DEF Adding
      <4>2. QED BY <1>3, <1>7, <2>3, <4>1 DEF Sides
    <3>2. /\ u \in DOMAIN cloud'.creds <=> u \in DOMAIN cloud.creds
          /\ u \in DOMAIN cloud.creds => cloud'.creds[u] = cloud.creds[u]
          /\ u \in due' <=> u \in due
      BY <1>1, <1>7, <2>3
    <3>3. /\ u \in DOMAIN want' <=> u \in DOMAIN want
          /\ u \in DOMAIN want => want'[u] = want[u]
      BY <1>7, <2>3
    <3>4. QED BY <1>2, <2>1, <3>1, <3>2, <3>3, SlotStays
  <2>4. QED BY <2>2, <2>3
<1>8. Slots'
    BY <1>7 DEF Slots
<1>9. QED BY <1>3, <1>5, <1>6, <1>8 DEF IInv, OpsInv

\* Saving a credential changes its range, and only if there is one to save.
LEMMA UpdateEffect ==
    ASSUME Screen!TypeOK, OwnRanges, NEW u \in Screen!Uids, NEW k \in Screen!Credentials,
           k.range \in Own(u) \cup {Screen!NoRange}, NEW range \in Own(u) \cup {Screen!NoRange}
    PROVE  LET c == Screen!updateCredential(u, k, range)
           IN  /\ c \in Cloud /\ OwnIn(c.creds) /\ Elsewhere(c, {u})
               /\ DOMAIN c.creds = DOMAIN cloud.creds
               /\ u \in DOMAIN cloud.creds =>
                     /\ c.creds[u].group = cloud.creds[u].group
                     /\ range # Screen!NoRange => c.creds[u].range = range
                     /\ range = Screen!NoRange /\ cloud.creds[u] = k => c.creds[u] = cloud.creds[u]
<1> DEFINE vr == IF range = Screen!NoRange THEN k.range ELSE range
           c == Screen!updateCredential(u, k, range)
<1>1. cloud \in Cloud /\ OwnIn(cloud.creds) /\ cloud.creds \in Screen!Known(Screen!Credentials)
    BY Fields DEF OwnRanges, Cloud
<1>2. DOMAIN cloud.creds \subseteq Screen!Uids /\ cloud.creds \in [DOMAIN cloud.creds -> Screen!Credentials]
    BY <1>1, KnownFunction
<1>3. vr \in Own(u) \cup {Screen!NoRange} /\ vr \in Screen!Ranges
    BY DEF Own, Screen!Ranges, Screen!Credentials
<1>4. CASE u \in DOMAIN cloud.creds /\ vr # Screen!NoRange
  <2> DEFINE v == [cloud.creds[u] EXCEPT !.range = vr]
             after == [cloud.creds EXCEPT ![u] = v]
  <2>1. v \in Screen!Credentials /\ v.range = vr /\ v.group = cloud.creds[u].group
    BY <1>2, <1>3, <1>4 DEF Screen!Credentials
  <2>2. c = [cloud EXCEPT !.creds = after]
    BY <1>4 DEF Screen!updateCredential
  <2> HIDE DEF v
  <2>3. /\ after \in [DOMAIN cloud.creds -> Screen!Credentials] /\ after[u] = v
        /\ \A w \in DOMAIN cloud.creds : w # u => after[w] = cloud.creds[w]
    BY <1>2, <1>4, <2>1
  <2> HIDE DEF after, vr
  <2>4. after \in Screen!Known(Screen!Credentials) /\ DOMAIN after = DOMAIN cloud.creds
    BY <1>2, <2>3, FunctionKnown
  <2>5. c \in Cloud /\ c.creds = after
    BY <1>1, <2>2, <2>4 DEF Cloud
  <2>6. OwnIn(c.creds) /\ Elsewhere(c, {u})
    BY <1>1, <1>2, <1>3, <2>1, <2>3, <2>4, <2>5 DEF OwnIn, Elsewhere
  <2>7. range = Screen!NoRange /\ cloud.creds[u] = k => v = cloud.creds[u]
    <3>1. ASSUME range = Screen!NoRange, cloud.creds[u] = k PROVE v = cloud.creds[u]
      <4>1. vr = cloud.creds[u].range /\ cloud.creds[u] \in Screen!Credentials
        BY <1>2, <1>4, <3>1 DEF vr
      <4>2. QED BY <4>1 DEF v, Screen!Credentials
    <3>2. QED BY <3>1
  <2>8. QED BY <1>4, <2>1, <2>3, <2>4, <2>5, <2>6, <2>7 DEF vr
<1>5. CASE ~(u \in DOMAIN cloud.creds /\ vr # Screen!NoRange)
  <2>1. c = cloud
    BY <1>5 DEF Screen!updateCredential
  <2>2. QED BY <1>1, <1>5, <2>1 DEF Elsewhere
<1>6. QED BY <1>4, <1>5

LEMMA mirrorKeeps ==
    ASSUME Screen!Parameters, IInv, NEW s \in Sides, Screen!mirror(s)
    PROVE  IInv'
<1> DEFINE o == ops[s]
           u == Screen!Min(o.todo)
           n == [o EXCEPT !.todo = o.todo \ {u}]
           c == Screen!updateCredential(u, o.items[u], o.ranges[u])
<1>1. /\ o.kind = "validity" /\ o.at = "cloud" /\ o.todo # {}
      /\ Screen!Written(c, {u}) /\ Screen!Goes(s, n)
      /\ want' = Screen!With(want, u, o.ranges[u].until)
      /\ UNCHANGED <<slots, shown, ready, nops, pulls>>
    BY DEF Screen!mirror
<1>2. /\ o \in Screen!Operations /\ OpShape(o) /\ OwnIn(o.items)
      /\ \A w \in DOMAIN o.ranges : o.ranges[w] \in Own(w)
    BY DEF IInv, Screen!TypeOK, Shapes, OwnRanges, Sides
<1>3. u \in o.todo /\ u \in Screen!Uids
    BY <1>1, <1>2, MinSlot DEF Screen!Operations
<1>4. u \in DOMAIN o.items /\ u \in DOMAIN o.ranges
    BY <1>1, <1>2, <1>3 DEF OpShape
<1>5. /\ o.items[u] \in Screen!Credentials /\ o.items[u].range \in Own(u) \cup {Screen!NoRange}
      /\ o.ranges[u] \in Own(u) /\ o.ranges[u] # Screen!NoRange /\ o.ranges[u].until \in Screen!Until
  <2>1. o.items \in Screen!Known(Screen!Credentials)
    BY <1>2 DEF Screen!Operations
  <2>2. Screen!NoRange \notin Own(u)
    BY <1>3 DEF Screen!NoRange, Own, Screen!Uids, Screen!Parameters
  <2>3. QED BY <1>2, <1>4, <2>1, <2>2, KnownFunction DEF OwnIn, Own
<1>6. /\ n \in Screen!Operations /\ n.todo = o.todo \ {u} /\ n.at = o.at /\ n.kind = o.kind
      /\ n.items = o.items /\ n.ranges = o.ranges /\ n.group = o.group /\ n.uid = o.uid
    BY <1>2 DEF Screen!Operations
<1> HIDE DEF n, c, u
<1>7. Onward(o, n)
    BY <1>1, <1>2, <1>6 DEF Onward, OpShape
<1>8. /\ c \in Cloud /\ OwnIn(c.creds) /\ Elsewhere(c, {u})
      /\ DOMAIN c.creds = DOMAIN cloud.creds
      /\ u \in DOMAIN cloud.creds =>
            c.creds[u].group = cloud.creds[u].group /\ c.creds[u].range = o.ranges[u]
  <2> DEFINE k == o.items[u]
             range == o.ranges[u]
  <2>1. /\ k \in Screen!Credentials /\ k.range \in Own(u) \cup {Screen!NoRange}
        /\ range \in Own(u) \cup {Screen!NoRange} /\ range # Screen!NoRange
        /\ c = Screen!updateCredential(u, k, range)
    BY <1>5 DEF c
  <2>2. Screen!TypeOK /\ OwnRanges
    BY DEF IInv
  <2>3. c.creds = Screen!updateCredential(u, k, range).creds
    BY <2>1
  <2> HIDE DEF k, range
  <2>4. QED BY <1>3, <2>1, <2>2, UpdateEffect DEF k, range
<1>9. Writes(c, {u}) /\ (Screen!Fault \/ UNCHANGED failures)
    BY <1>1, <1>3, <1>8 DEF Writes, Screen!Written, Screen!Failed, Screen!Spoil, IInv,
       Screen!TypeOK
<1>10. /\ cloud' \in Cloud /\ OwnIn(cloud'.creds) /\ due' \subseteq Screen!Uids
       /\ \A w \in Screen!Uids \ {u} : /\ w \in DOMAIN cloud'.creds <=> w \in DOMAIN cloud.creds
                                       /\ w \in DOMAIN cloud.creds => cloud'.creds[w] = cloud.creds[w]
                                       /\ w \in due' <=> w \in due
       /\ u \notin spoiled' =>
             /\ cloud' = c /\ (u \in due => u \in due')
             /\ u \in DOMAIN slots => u \in due' \/ Screen!Agrees(slots, c.creds, u)
    BY <1>9, WritesEffect DEF IInv
<1>11. spoiled \subseteq spoiled' /\ spoiled' \subseteq Screen!Uids
    BY <1>9 DEF Writes
<1>12. /\ OpsInv' /\ ops' \in [Sides -> Screen!Operations] /\ loads' \in [LoadRuns -> Screen!Load]
       /\ ops'[s] = n /\ (s # "front" => ops'["front"] = ops["front"])
    BY <1>1, <1>6, <1>7, <1>10, <1>11, GoesKeeps DEF Sides
<1>13. /\ want' \in Screen!Known(Screen!Until) /\ DOMAIN want' = DOMAIN want \cup {u}
       /\ want'[u] = o.ranges[u].until
       /\ \A w \in DOMAIN want : w # u => want'[w] = want[w]
  <2> DEFINE until == o.ranges[u].until
  <2>1. want \in Screen!Known(Screen!Until) /\ until \in Screen!Until /\ want' = Screen!With(want, u, until)
    BY <1>1, <1>5 DEF IInv, Screen!TypeOK
  <2> HIDE DEF until
  <2>2. Screen!With(want, u, until) \in Screen!Known(Screen!Until)
    BY <1>3, <2>1, WithKnown
  <2>3. QED BY <2>1, <2>2 DEF until, Screen!With
<1>14. Screen!TypeOK'
  <2>1. failures' \in 0..MaxFailures
    BY <1>9, FaultType DEF IInv
  <2>2. QED BY <1>1, <1>10, <1>11, <1>12, <1>13, <2>1 DEF IInv, Screen!TypeOK, Sides,
               LoadRuns, Cloud
<1>15. s # "front" => u \in spoiled
    BY <1>4 DEF IInv, LeftBehind, Sides
<1>16. Current'
  <2>1. ops["front"].todo \subseteq Screen!Uids
    BY DEF IInv, Screen!TypeOK, Screen!Operations
  <2>2. ops'["front"].items = ops["front"].items
    BY <1>6, <1>12
  <2>3. /\ ops'["front"].todo \subseteq ops["front"].todo
        /\ s = "front" => u \notin ops'["front"].todo
    BY <1>6, <1>12
  <2>4. SUFFICES ASSUME NEW w \in ops'["front"].todo \ spoiled'
                 PROVE  w \in DOMAIN cloud'.creds /\ cloud'.creds[w] = ops["front"].items[w]
    BY <2>2 DEF Current
  <2>5. w \in Screen!Uids /\ w \in ops["front"].todo \ spoiled /\ w # u
    BY <1>11, <1>15, <2>1, <2>3, <2>4
  <2>6. w \in DOMAIN cloud.creds /\ cloud.creds[w] = ops["front"].items[w]
    BY <2>5 DEF IInv, Current
  <2>7. QED BY <1>10, <2>5, <2>6
<1>17. ASSUME NEW w \in Screen!Uids \ spoiled'
       PROVE  (Added(w) /\ Fits(w) /\ Kept(w))'
  <2>1. Added(w) /\ Fits(w) /\ Kept(w)
    BY <1>11, <1>17 DEF IInv, Slots
  <2>2. CASE s = "front" /\ w = u
    <3>1. u \in DOMAIN cloud.creds
      BY <1>3, <1>11, <1>17, <2>2 DEF IInv, Current
    <3>2. /\ ~Adding(u) /\ ~Deleting(u) /\ ~Adding(w)'
          /\ u \in DOMAIN cloud'.creds /\ cloud' = c
      BY <1>1, <1>6, <1>8, <1>10, <1>12, <1>17, <2>2, <3>1 DEF Adding, Deleting
    <3>3. u \in DOMAIN slots /\ slots[u].group = cloud.creds[u].group
      BY <2>1, <2>2, <3>1, <3>2 DEF Fits
    <3>4. u \in due' \/ Screen!Agrees(slots, c.creds, u)
      BY <1>10, <1>17, <2>2, <3>3
    <3>5. Fits(w)'
      BY <1>1, <1>8, <2>2, <3>1, <3>2, <3>3, <3>4 DEF Fits, Screen!Agrees
    <3>6. Kept(w)'
      <4>1. cloud'.creds[u].range = o.ranges[u]
        BY <1>8, <3>1, <3>2
      <4>2. cloud'.creds[w].range.until = want'[w]
        BY <1>13, <2>2, <4>1
      <4>3. QED BY <4>2 DEF Kept
    <3>7. QED BY <2>2, <3>2, <3>5, <3>6 DEF Added
  <2>3. CASE s = "front" /\ w # u
    <3>1. /\ ~Adding(w) /\ ~Deleting(w) /\ ~Adding(w)'
          /\ Setting(w)' <=> Setting(w)
      BY <1>1, <1>6, <1>12, <2>3 DEF Adding, Deleting, Setting
    <3>2. /\ w \in DOMAIN cloud'.creds <=> w \in DOMAIN cloud.creds
          /\ w \in DOMAIN cloud.creds => cloud'.creds[w] = cloud.creds[w]
          /\ w \in due' <=> w \in due
      BY <1>10, <1>17, <2>3
    <3>3. /\ w \in DOMAIN want' <=> w \in DOMAIN want
          /\ w \in DOMAIN want => want'[w] = want[w]
      BY <1>13, <2>3
    <3>4. QED BY <1>1, <2>1, <3>1, <3>2, <3>3 DEF Added, Fits, Kept
  <2>4. CASE s # "front"
    <3>1. w # u
      BY <1>11, <1>15, <1>17, <2>4
    <3>2. /\ w \in DOMAIN cloud'.creds <=> w \in DOMAIN cloud.creds
          /\ w \in DOMAIN cloud.creds => cloud'.creds[w] = cloud.creds[w]
          /\ w \in due' <=> w \in due
      BY <1>10, <1>17, <3>1
    <3>3. /\ w \in DOMAIN want' <=> w \in DOMAIN want
          /\ w \in DOMAIN want => want'[w] = want[w]
      BY <1>13, <3>1
    <3>4. QED BY <1>1, <1>12, <2>1, <2>4, <3>2, <3>3, SlotStays
  <2>5. QED BY <2>2, <2>3, <2>4
<1>18. Slots'
    BY <1>17 DEF Slots
<1>19. QED BY <1>12, <1>14, <1>16, <1>18 DEF IInv, OpsInv

LEMMA mirroredKeeps ==
    ASSUME Screen!Parameters, IInv, NEW s \in Sides, Screen!mirrored(s)
    PROVE  IInv'
<1>1. /\ ops[s].kind = "validity" /\ ops[s].at = "cloud" /\ ops[s].todo = {} /\ Screen!Loads(s)
      /\ UNCHANGED <<slots, cloud, due, shown, ready, want, spoiled, Screen!bounds>>
    BY DEF Screen!mirrored
<1>2. Writes(cloud, {})
    BY <1>1, Fields DEF IInv, Screen!TypeOK, OwnRanges, Writes, Elsewhere, Cloud
<1>3. s = "front" => \A u \in Screen!Uids : ~Adding(u) /\ ~Setting(u) /\ ~Deleting(u)
    BY <1>1 DEF Adding, Setting, Deleting
<1>4. want' \in Screen!Known(Screen!Until) /\ UNCHANGED <<nops, pulls, failures>>
    BY <1>1 DEF IInv, Screen!TypeOK, Screen!bounds
<1>5. QED BY <1>1, <1>2, <1>3, <1>4, LastWriteKeeps

\* What a write of runWrite, or of a new user, makes of the cloud.
LEMMA writeKeeps ==
    ASSUME Screen!Parameters, IInv, NEW s \in Sides, Screen!write(s)
    PROVE  IInv'
<1> DEFINE o == ops[s]
           u == Screen!Min(o.todo)
           c == CASE o.kind = "rename" -> Screen!updateCredential(u, o.items[u], Screen!NoRange)
                  [] o.kind = "delete" -> Screen!deleteCredential(u)
                  [] o.kind = "user"   -> Screen!createUserGroup(o.group)
                  [] OTHER             -> cloud
<1>1. /\ o.kind \in {"rename", "renameUser", "delete", "user"} /\ o.at = "cloud"
      /\ \/ Screen!Tell(c, o.todo) /\ Screen!Loads(s) /\ UNCHANGED <<failures, spoiled>>
         \/ Screen!Failed(c, o.todo) /\ Screen!Ends(s)
      /\ UNCHANGED <<slots, shown, ready, want, nops, pulls>>
    BY DEF Screen!write
<1>2. o \in Screen!Operations /\ OpShape(o) /\ OwnIn(o.items) /\ o.items \in Screen!Known(Screen!Credentials)
    BY DEF IInv, Screen!TypeOK, Shapes, OwnRanges, Sides, Screen!Operations
<1>3. o.todo \subseteq Screen!Uids
    BY <1>2 DEF Screen!Operations
<1>4. cloud \in Cloud /\ OwnIn(cloud.creds) /\ cloud.creds \in Screen!Known(Screen!Credentials)
    BY Fields DEF IInv, OwnRanges, Cloud
<1>5. o.kind \in {"rename", "delete"} => u \in o.todo /\ u \in Screen!Uids /\ u \in DOMAIN o.items
    BY <1>1, <1>2, <1>3, MinSlot DEF OpShape
<1> HIDE DEF u
<1>6. /\ c \in Cloud /\ OwnIn(c.creds) /\ Elsewhere(c, o.todo)
      /\ o.kind \in {"renameUser", "user"} => c.creds = cloud.creds
      /\ o.kind = "delete" => /\ DOMAIN c.creds = DOMAIN cloud.creds \ {u}
                              /\ \A w \in DOMAIN c.creds : c.creds[w] = cloud.creds[w]
      /\ o.kind = "rename" =>
            /\ DOMAIN c.creds = DOMAIN cloud.creds
            /\ \A w \in DOMAIN cloud.creds : w # u => c.creds[w] = cloud.creds[w]
            /\ u \in DOMAIN cloud.creds /\ cloud.creds[u] = o.items[u]
                  => c.creds[u] = cloud.creds[u]
  <2>1. CASE o.kind = "rename"
    <3>1. c = Screen!updateCredential(u, o.items[u], Screen!NoRange)
      BY <2>1
    <3>2. o.items[u] \in Screen!Credentials /\ o.items[u].range \in Own(u) \cup {Screen!NoRange}
      BY <1>2, <1>5, <2>1, KnownFunction DEF OwnIn
    <3> HIDE DEF c
    <3>3. /\ c \in Cloud /\ OwnIn(c.creds) /\ Elsewhere(c, {u})
          /\ DOMAIN c.creds = DOMAIN cloud.creds
          /\ u \in DOMAIN cloud.creds /\ cloud.creds[u] = o.items[u]
                => c.creds[u] = cloud.creds[u]
      BY <1>5, <2>1, <3>1, <3>2, UpdateEffect DEF IInv
    <3>4. QED BY <1>4, <1>5, <2>1, <3>3, KnownFunction DEF Elsewhere
  <2>2. CASE o.kind = "delete"
    <3> DEFINE less == Screen!Without(cloud.creds, {u})
    <3>1. c = [cloud EXCEPT !.creds = less]
      BY <2>2 DEF Screen!deleteCredential
    <3>2. /\ less \in Screen!Known(Screen!Credentials) /\ DOMAIN less = DOMAIN cloud.creds \ {u}
          /\ \A w \in DOMAIN cloud.creds : w \notin {u} => less[w] = cloud.creds[w]
      <4>1. less \in Screen!Known(Screen!Credentials)
        BY <1>4, WithoutKnown
      <4>2. /\ DOMAIN less = DOMAIN cloud.creds \ {u}
            /\ \A w \in DOMAIN cloud.creds : w \notin {u} => less[w] = cloud.creds[w]
        BY WithoutSome, Zenon
      <4> HIDE DEF less
      <4>3. QED BY <4>1, <4>2
    <3> HIDE DEF less, c
    <3>3. c \in Cloud /\ c.creds = less
      BY <1>4, <3>1, <3>2 DEF Cloud
    <3>4. OwnIn(c.creds) /\ Elsewhere(c, o.todo)
      BY <1>4, <1>5, <2>2, <3>2, <3>3 DEF OwnIn, Elsewhere
    <3>5. QED BY <2>2, <3>2, <3>3, <3>4
  <2>3. CASE o.kind = "user"
    <3>1. c = [cloud EXCEPT !.groups = cloud.groups \cup {o.group}]
      BY <2>3 DEF Screen!createUserGroup
    <3>2. o.group \in Screen!Gids
      BY <1>2 DEF Screen!Operations
    <3> HIDE DEF c
    <3>3. c \in Cloud /\ c.creds = cloud.creds
      BY <1>4, <3>1, <3>2 DEF Cloud
    <3>4. QED BY <1>4, <2>3, <3>3 DEF Elsewhere
  <2>4. CASE o.kind = "renameUser"
    <3>1. c = cloud
      BY <2>4
    <3> HIDE DEF c
    <3>2. QED BY <1>4, <2>4, <3>1 DEF Elsewhere
  <2>5. QED BY <1>1, <2>1, <2>2, <2>3, <2>4
<1> HIDE DEF c
<1>7. Writes(c, o.todo) /\ (Screen!Fault \/ UNCHANGED failures)
    BY <1>1, <1>3, <1>6 DEF Writes, Screen!Failed, Screen!Spoil, IInv, Screen!TypeOK
<1>8. s = "front" => \A w \in Screen!Uids : ~Adding(w) /\ ~Setting(w) /\ ~Deleting(w)
    BY <1>1 DEF Adding, Setting, Deleting
<1>9. s = "behind" => o.todo \subseteq spoiled
    BY <1>2 DEF IInv, LeftBehind, OpShape
<1>10. ASSUME NEW w \in o.todo \ spoiled', cloud' = c, w \in due => w \in due',
              w \in DOMAIN slots => w \in due' \/ Screen!Agrees(slots, c.creds, w),
              Added(w), Fits(w), Kept(w),
              IF s = "front" THEN ops'["front"].at \in {"idle", "load"}
                             ELSE ops'["front"] = ops["front"]
       PROVE  (Added(w) /\ Fits(w) /\ Kept(w))'
  <2>1. spoiled \subseteq spoiled' /\ s = "front"
    BY <1>7, <1>9, <1>10 DEF Writes, Sides
  <2>2. w \in DOMAIN cloud.creds /\ cloud.creds[w] = o.items[w] /\ w \in Screen!Uids
    BY <1>3, <1>10, <2>1 DEF IInv, Current
  <2>3. ~Adding(w)' /\ ~Adding(w) /\ ~Setting(w) /\ ~Deleting(w)
    BY <1>8, <1>10, <2>1, <2>2 DEF Adding
  <2>4. w \in DOMAIN slots /\ slots[w].group = cloud.creds[w].group
    BY <1>10, <2>2, <2>3 DEF Fits
  <2>5. CASE o.kind = "delete" /\ w = u
    BY <1>1, <1>6, <1>10, <2>3, <2>4, <2>5 DEF Added, Fits, Kept, Screen!Agrees
  <2>6. CASE ~(o.kind = "delete" /\ w = u)
    <3>1. w \in DOMAIN c.creds /\ c.creds[w] = cloud.creds[w]
      BY <1>1, <1>6, <2>2, <2>6
    <3>2. QED BY <1>1, <1>10, <2>2, <2>3, <2>4, <3>1 DEF Added, Fits, Kept
  <2>7. QED BY <2>5, <2>6
<1>11. want' \in Screen!Known(Screen!Until) /\ UNCHANGED want
    BY <1>1 DEF IInv, Screen!TypeOK
<1>12. Screen!Loads(s) \/ Screen!Ends(s)
    BY <1>1
<1>13. QED BY <1>1, <1>7, <1>8, <1>9, <1>10, <1>11, <1>12, LastWriteKeeps

LEMMA metadataKeeps ==
    ASSUME Screen!Parameters, IInv, NEW s \in Sides, Screen!metadata(s)
    PROVE  IInv'
<1> DEFINE o == ops[s]
           v == [group |-> o.group, range |-> Screen!permanentValidRangeForUserId(o)]
           more == Screen!With(cloud.creds, o.uid, v)
           c == [cloud EXCEPT !.creds = more]
<1>1. /\ o.kind = "password" /\ o.at = "cloud"
      /\ \/ /\ Screen!Tell(c, {o.uid}) /\ Screen!Loads(s)
            /\ want' = Screen!With(want, o.uid, "forever") /\ UNCHANGED failures
            /\ Screen!Spoil(IF o.group \in cloud.groups THEN {} ELSE {o.uid})
         \/ Screen!Failed(c, {o.uid}) /\ Screen!Ends(s) /\ UNCHANGED want
         \/ Screen!Ends(s) /\ Screen!Spoil({o.uid}) /\ UNCHANGED <<cloud, due, want, failures>>
      /\ UNCHANGED <<slots, shown, ready, nops, pulls>>
    BY DEF Screen!metadata, Screen!addCredentialMeta
<1>2. o \in Screen!Operations /\ o.uid \in Screen!Uids /\ o.group \in Screen!Gids
    BY <1>1 DEF IInv, Screen!TypeOK, Shapes, OpShape, Sides, Screen!Operations, Screen!Uids,
       Screen!Parameters
<1>3. cloud \in Cloud /\ OwnIn(cloud.creds) /\ cloud.creds \in Screen!Known(Screen!Credentials)
    BY Fields DEF IInv, OwnRanges, Cloud
<1>4. v \in Screen!Credentials /\ v.range \in Own(o.uid) /\ v.range.until = "forever"
    BY <1>2 DEF Screen!permanentValidRangeForUserId, Screen!Credentials, Own, Screen!Ranges,
       Screen!Until
<1>5. v.group = o.group
    OBVIOUS
<1> HIDE DEF v
<1>6. /\ more \in Screen!Known(Screen!Credentials) /\ DOMAIN more = DOMAIN cloud.creds \cup {o.uid}
      /\ more[o.uid] = v
      /\ \A w \in DOMAIN cloud.creds : w # o.uid => more[w] = cloud.creds[w]
  <2> DEFINE u == o.uid
             f == cloud.creds
  <2>1. u \in Screen!Uids /\ f \in Screen!Known(Screen!Credentials) /\ v \in Screen!Credentials
    BY <1>2, <1>3, <1>4
  <2>2. more = Screen!With(f, u, v)
    OBVIOUS
  <2> HIDE DEF u, f, more
  <2>3. Screen!With(f, u, v) \in Screen!Known(Screen!Credentials)
    BY <2>1, WithKnown
  <2>4. QED BY <2>2, <2>3 DEF u, f, Screen!With
<1> HIDE DEF more
<1>7. c \in Cloud /\ c.creds = more
    BY <1>3, <1>6 DEF Cloud
<1> HIDE DEF c
<1>8. OwnIn(c.creds) /\ Elsewhere(c, {o.uid})
    BY <1>3, <1>4, <1>6, <1>7 DEF OwnIn, Elsewhere
<1>9. Writes(c, {o.uid}) /\ (Screen!Fault \/ UNCHANGED failures)
    BY <1>1, <1>2, <1>7, <1>8 DEF Writes, Screen!Failed, Screen!Spoil, IInv, Screen!TypeOK
<1>10. s = "front" => \A w \in Screen!Uids \ {o.uid} : ~Adding(w) /\ ~Setting(w) /\ ~Deleting(w)
    BY <1>1 DEF Adding, Setting, Deleting
<1>11. s = "behind" => o.uid \in spoiled
    BY <1>2 DEF IInv, LeftBehind, Screen!Uids, Screen!Parameters
<1>12. /\ want' \in Screen!Known(Screen!Until)
       /\ \A u \in Screen!Uids : /\ u \notin {o.uid} => (u \in DOMAIN want' <=> u \in DOMAIN want)
                                 /\ u \notin {o.uid} /\ u \in DOMAIN want => want'[u] = want[u]
       /\ want' = want \/ want'[o.uid] = "forever"
  <2>1. want \in Screen!Known(Screen!Until) /\ "forever" \in Screen!Until
    BY DEF IInv, Screen!TypeOK, Screen!Until
  <2>2. CASE want' = Screen!With(want, o.uid, "forever")
    <3> DEFINE u == o.uid
    <3>1. u \in Screen!Uids /\ want' = Screen!With(want, u, "forever")
      BY <1>2, <2>2
    <3> HIDE DEF u
    <3>2. Screen!With(want, u, "forever") \in Screen!Known(Screen!Until)
      BY <2>1, <3>1, WithKnown
    <3>3. QED BY <3>1, <3>2 DEF u, Screen!With
  <2>3. QED BY <1>1, <2>1, <2>2
<1>13. ASSUME NEW w \in {o.uid} \ spoiled', cloud' = c, w \in due => w \in due',
              w \in DOMAIN slots => w \in due' \/ Screen!Agrees(slots, c.creds, w),
              Added(w), Fits(w), Kept(w),
              IF s = "front" THEN ops'["front"].at \in {"idle", "load"}
                             ELSE ops'["front"] = ops["front"]
       PROVE  (Added(w) /\ Fits(w) /\ Kept(w))'
  <2>1. s = "front" /\ w = o.uid
    BY <1>9, <1>11, <1>13 DEF Writes, Sides
  <2>2. Adding(w) /\ ~Adding(w)'
    BY <1>1, <1>13, <2>1 DEF Adding
  <2>3. w \in DOMAIN slots /\ w \notin DOMAIN cloud.creds /\ slots[w].group = o.group
    BY <1>13, <2>1, <2>2 DEF Added
  <2>4. w \in DOMAIN c.creds /\ c.creds[w] = v
    BY <1>6, <1>7, <2>1
  <2>5. Fits(w)'
    BY <1>1, <1>5, <1>13, <2>3, <2>4 DEF Fits, Screen!Agrees
  <2>6. Kept(w)'
    <3>1. want'[w] = "forever"
      BY <1>1, <1>2, <1>13, <2>1, <2>3, <2>4 DEF Screen!Failed, Screen!Spoil, Screen!With
    <3>2. QED BY <1>4, <1>13, <2>4, <3>1 DEF Kept
  <2>7. QED BY <2>2, <2>5, <2>6 DEF Added
<1>14. s = "behind" => \A u \in ops["front"].todo \ spoiled : u \notin {o.uid}
    BY <1>11
<1>15. Screen!Loads(s) \/ Screen!Ends(s)
    BY <1>1
<1>16. QED BY <1>1, <1>9, <1>10, <1>12, <1>13, <1>14, <1>15, LastWriteKeeps

LEMMA deleteUserKeeps ==
    ASSUME Screen!Parameters, IInv, NEW s \in Sides, Screen!deleteUser(s)
    PROVE  IInv'
<1> DEFINE o == ops[s]
           U == Screen!OfGroup(cloud.creds, o.group)
           less == Screen!Without(cloud.creds, U)
           c == [groups |-> cloud.groups \ {o.group}, creds |-> less]
<1>1. /\ o.kind = "deleteUser" /\ o.at \in {"mirror", "cloud"}
      /\ \/ Screen!Tell(c, U) /\ Screen!Loads(s) /\ UNCHANGED <<failures, spoiled>>
         \/ Screen!Failed(c, U) /\ (Screen!Loads(s) \/ Screen!Ends(s))
      /\ UNCHANGED <<slots, shown, ready, want, nops, pulls>>
    BY DEF Screen!deleteUser, Screen!deleteUserGroupCloud
<1>2. o \in Screen!Operations /\ OpShape(o) /\ o.todo = {}
    BY <1>1 DEF IInv, Screen!TypeOK, Shapes, OpShape, Sides
<1>3. cloud \in Cloud /\ OwnIn(cloud.creds) /\ cloud.creds \in Screen!Known(Screen!Credentials)
    BY Fields DEF IInv, OwnRanges, Cloud
<1>4. /\ U \subseteq DOMAIN cloud.creds /\ U \subseteq Screen!Uids
      /\ \A w \in DOMAIN cloud.creds : w \in U <=> cloud.creds[w].group = o.group
    BY <1>3, KnownFunction DEF Screen!OfGroup
<1> HIDE DEF U
<1>5. /\ less \in Screen!Known(Screen!Credentials) /\ DOMAIN less = DOMAIN cloud.creds \ U
      /\ \A w \in DOMAIN cloud.creds : w \notin U => less[w] = cloud.creds[w]
  <2>1. less \in Screen!Known(Screen!Credentials)
    BY <1>3, WithoutKnown
  <2>2. /\ DOMAIN less = DOMAIN cloud.creds \ U
        /\ \A w \in DOMAIN cloud.creds : w \notin U => less[w] = cloud.creds[w]
    BY WithoutSome, Zenon
  <2> HIDE DEF less
  <2>3. QED BY <2>1, <2>2
<1> HIDE DEF less
<1>6. c \in Cloud /\ c.creds = less
    BY <1>3, <1>5 DEF Cloud
<1> HIDE DEF c
<1>7. OwnIn(c.creds) /\ Elsewhere(c, U)
    BY <1>3, <1>4, <1>5, <1>6 DEF OwnIn, Elsewhere
<1>8. Writes(c, U) /\ (Screen!Fault \/ UNCHANGED failures)
    BY <1>1, <1>4, <1>6, <1>7 DEF Writes, Screen!Failed, Screen!Spoil, IInv, Screen!TypeOK
<1>9. s = "front" => \A w \in Screen!Uids \ U :
          ~Adding(w) /\ ~Setting(w) /\ (w \in DOMAIN cloud.creds => ~Deleting(w))
    BY <1>1, <1>4 DEF Adding, Setting, Deleting
<1>10. s = "behind" => \A u \in ops["front"].todo \ spoiled : u \notin U
  <2>1. SUFFICES ASSUME s = "behind", NEW u \in ops["front"].todo
                 PROVE  u \in spoiled
    OBVIOUS
  <2>2. ops["behind"] # Screen!Idle
    BY <1>1, <2>1 DEF Screen!Idle
  <2>3. ops["front"] # Screen!Idle /\ u \in DOMAIN ops["front"].items
    BY <2>1, Blank DEF IInv, Shapes, OpShape, Sides
  <2>4. QED BY <2>2, <2>3 DEF IInv, LeftBehind
<1>11. ASSUME NEW w \in U \ spoiled', cloud' = c, w \in due => w \in due',
              w \in DOMAIN slots => w \in due' \/ Screen!Agrees(slots, c.creds, w),
              Added(w), Fits(w), Kept(w),
              IF s = "front" THEN ops'["front"].at \in {"idle", "load"}
                             ELSE ops'["front"] = ops["front"]
       PROVE  (Added(w) /\ Fits(w) /\ Kept(w))'
  <2>1. w \notin DOMAIN cloud'.creds /\ w \in DOMAIN cloud.creds
    BY <1>4, <1>5, <1>6, <1>11
  <2>2. w \in DOMAIN slots => w \in due'
    BY <1>6, <1>11, <2>1 DEF Screen!Agrees
  <2>3. ~Adding(w)'
    <3>1. ~Adding(w)
      BY <1>11, <2>1 DEF Added
    <3>2. QED BY <1>11, <3>1 DEF Adding
  <2>4. QED BY <1>1, <2>1, <2>2, <2>3 DEF Added, Fits, Kept
<1>12. want' \in Screen!Known(Screen!Until) /\ UNCHANGED want
    BY <1>1 DEF IInv, Screen!TypeOK
<1>13. Screen!Loads(s) \/ Screen!Ends(s)
    BY <1>1
<1>14. QED BY <1>1, <1>8, <1>9, <1>10, <1>11, <1>12, <1>13, LastWriteKeeps

-----------------------------------------------------------------------------
(* The theorems.                                                           *)

LEMMA NextKeeps ==
    ASSUME Screen!Parameters, IInv, [Screen!Next]_Screen!vars
    PROVE  IInv'
<1>1. CASE UNCHANGED Screen!vars
  <2>1. UNCHANGED <<slots, cloud, due, shown, loads, ops, ready, want, spoiled>>
        /\ UNCHANGED <<nops, pulls, failures>>
    BY <1>1 DEF Screen!vars
  <2>2. Screen!TypeOK'
    BY <2>1 DEF IInv, Screen!TypeOK
  <2>3. Slots'
    BY <2>1, SlotsStay DEF IInv
  <2>4. QED BY <2>1, <2>2, <2>3 DEF IInv, OwnRanges, Shapes, Loaded, LeftBehind, Current
<1>2. ASSUME NEW s \in Sides, Screen!Step(s)
      PROVE  IInv'
    BY <1>2, setValidityKeeps, createPasswordKeeps, deleteUserGroupKeeps, mirrorKeeps,
       mirroredKeeps, writeKeeps, metadataKeeps, deleteUserKeeps DEF Screen!Step
<1>3. ASSUME NEW r \in LoadRuns, Screen!Loading(r)
      PROVE  IInv'
    BY <1>3, AnswerKeeps, ShowKeeps DEF Screen!Loading
<1>4. QED BY <1>1, <1>2, <1>3, UserKeeps, LeaveKeeps, ConnectedKeeps, pullToRefreshKeeps,
             SyncKeeps DEF Screen!Next, Sides, LoadRuns

\* Whatever the page shows and however operations, loads, the hub and the closing of the
\* page interleave, the invariant above holds.
THEOREM ScreenInvariance == ScreenSpec => []IInv
<1>1. Screen!Init => IInv
    BY ScreenAssumption, InitIInv
<1>2. IInv /\ [Screen!Next]_Screen!vars => IInv'
    BY ScreenAssumption, NextKeeps
<1>3. QED BY <1>1, <1>2, PTL DEF ScreenSpec, Screen!Spec

\* When no operation goes on, the lock and the cloud agree on every slot that the hub has
\* nothing to carry to and that no operation has failed on (LockDetailScreen.tsx: the lock
\* first, the cloud after it, the hub for what Bluetooth does not reach).
THEOREM LockAndCloudAgree == ScreenSpec => []Agree
<1>1. IInv => Agree
  <2>1. SUFFICES ASSUME IInv, Screen!Done, NEW u \in Screen!Uids \ (due \cup spoiled)
                 PROVE  Screen!Agrees(slots, cloud.creds, u)
    BY DEF Agree, Screen!Agree
  <2>2. Fits(u) /\ ~Adding(u) /\ ~Setting(u) /\ ~Deleting(u)
    BY <2>1 DEF IInv, Slots, Screen!Done, Adding, Setting, Deleting, Screen!Idle
  <2>3. u \in DOMAIN slots => slots[u] \in Screen!Slot
    BY <2>1, Fields DEF IInv
  <2>4. QED BY <2>1, <2>2, <2>3 DEF Fits, Screen!Agrees, Screen!Slot
<1>2. QED BY <1>1, ScreenInvariance, PTL

\* The validity last set for a slot is the one the lock enforces, with the same exceptions.
THEOREM LastSetIsHeld == ScreenSpec => []LastSetHolds
<1>1. IInv => LastSetHolds
  <2>1. SUFFICES ASSUME IInv, Screen!Done, NEW u \in DOMAIN want, u \in DOMAIN slots,
                        u \notin due, u \notin spoiled
                 PROVE  slots[u].until = want[u]
    BY DEF LastSetHolds, Screen!LastSetHolds
  <2>2. u \in Screen!Uids
    BY <2>1, Fields DEF IInv
  <2>3. Fits(u) /\ Kept(u) /\ ~Adding(u) /\ ~Setting(u)
    BY <2>1, <2>2 DEF IInv, Slots, Screen!Done, Adding, Setting, Screen!Idle
  <2>4. QED BY <2>1, <2>3 DEF Fits, Kept
<1>2. QED BY <1>1, ScreenInvariance, PTL

\* The range that the cloud keeps for a credential names the credential's own slot: to
\* disable a user never disables another (lockmeta.ts, the range's credUserId).
THEOREM RangesAreOwn == ScreenSpec => []OwnSlot
<1>1. IInv => OwnSlot
    BY DEF IInv, OwnRanges, OwnIn, Own, OwnSlot, Screen!OwnSlot
<1>2. QED BY <1>1, ScreenInvariance, PTL

-----------------------------------------------------------------------------
(***************************************************************************)
(* The desktop tool: FastUnlock, as the instance Fast of DesktopTool.      *)
(***************************************************************************)

-----------------------------------------------------------------------------
(* The invariant.                                                          *)

\* From verify on the process has its session.
HasSession == {"verify", "prove", "save", "open", "write", "ready"}
Opened == {"save", "open", "write", "ready"}

\* One session for each key of the lock.
Distinct(list) == \A i, j \in 1..Len(list) : list[i].dev = list[j].dev => i = j

\* What a process has, wherever it is: its session or its offer, and what it will write,
\* which has its session first.
Has(o) ==
    /\ o.path = "cached" => o.at \in {"connect", "hello", "prove", "ready"}
    /\ o.path = "cached" \/ o.at \in HasSession => o.of \in Fast!Sessions
    /\ o.path = "cloud" /\ o.at \in {"connect", "hello"} => o.of.offer \in 1..MaxPublished
    /\ o.at \in {"open", "write"} => o.list # <<>> /\ o.list[1] = o.of
    /\ Len(o.list) <= MAX /\ Distinct(o.list)

\* How far a process is with the lock, if no fault keeps it from it.
Place(r, o, l) ==
    o.hit # "other" =>
        /\ o.at \in {"login", "publickey", "connect"} => l.link # r
        /\ o.at \in {"hello"} \cup HasSession => l.link = r /\ o.known
        /\ o.at \in {"verify", "prove"} => l.channel = o.of.offer /\ l.dev = o.of.dev
        /\ o.at \in Opened => l.open = o.of

\* A process that is alone finds its session first in the file, if it came from there or
\* has been saved.
Held(o, f) ==
    /\ o.path = "cached" \/ o.at = "ready" => f # <<>> /\ f[1] = o.of
    /\ ~o.crossed

\* A process that started on a file warmed up does not ask the cloud.
Fresh(o, l) == o.warm /\ o.hit = "no" => o.path = "cached" /\ o.of.dev = l.dev

Processes ==
    \A r \in Runs : run[r] # Fast!Idle =>
        /\ Has(run[r]) /\ Place(r, run[r], door)
        /\ ~overlapped => Held(run[r], file) /\ Fresh(run[r], door)

Alone == ~overlapped => \A r, s \in Runs : r = s \/ run[r] = Fast!Idle \/ run[s] = Fast!Idle

\* Nobody is connected who is not running.
Links == door.link # NoRun => run[door.link] # Fast!Idle

\* Between two processes the file is warmed up.
Ready(f, l) == f # <<>> /\ f[1].dev = l.dev
Warmed_up == ~overlapped /\ warm /\ (\A r \in Runs : run[r] = Fast!Idle) => Ready(file, door)

Sound(f) == f # Fast!Torn => Distinct(f)

Sane == Fast!TypeOK /\ Processes /\ Alone /\ Links /\ Warmed_up /\ Sound(file)
        /\ Fast!FallbackSucceeds /\ Fast!NextIsOffline

-----------------------------------------------------------------------------
(* The file.                                                               *)

\* A sequence without one of its elements.
LEMMA RemovedOne ==
    ASSUME NEW S, NEW s \in Seq(S), NEW i \in 1..Len(s)
    PROVE  LET t == SubSeq(s, 1, i - 1) \o SubSeq(s, i + 1, Len(s))
           IN  /\ t \in Seq(S) /\ Len(t) = Len(s) - 1
               /\ \A k \in 1..Len(t) : t[k] = s[IF k < i THEN k ELSE k + 1]
<1> DEFINE a == SubSeq(s, 1, i - 1)
           b == SubSeq(s, i + 1, Len(s))
<1>1. a \in Seq(S) /\ Len(a) = i - 1 /\ \A k \in 1..(i - 1) : a[k] = s[k]
    OBVIOUS
<1>2. b \in Seq(S) /\ Len(b) = Len(s) - i /\ \A k \in 1..(Len(s) - i) : b[k] = s[k + i]
    OBVIOUS
<1> HIDE DEF a, b
<1>3. a \o b \in Seq(S) /\ Len(a \o b) = Len(s) - 1
  <2>1. a \o b \in Seq(S) /\ Len(a \o b) = Len(a) + Len(b)
    BY <1>1, <1>2, ConcatProperties
  <2>2. (i - 1) + (Len(s) - i) = Len(s) - 1
    OBVIOUS
  <2>3. QED BY <1>1, <1>2, <2>1, <2>2
<1>4. ASSUME NEW k \in 1..(Len(s) - 1), k < i PROVE (a \o b)[k] = s[k]
    BY <1>1, <1>2, <1>4
<1>5. ASSUME NEW k \in 1..(Len(s) - 1), ~(k < i) PROVE (a \o b)[k] = s[k + 1]
  <2>1. (a \o b)[k] = b[k - (i - 1)]
    BY <1>1, <1>2, <1>5
  <2>2. k - (i - 1) \in 1..(Len(s) - i) /\ k - (i - 1) + i = k + 1
    BY <1>5
  <2>3. QED BY <1>2, <2>1, <2>2
<1>6. \A k \in 1..(Len(s) - 1) : (a \o b)[k] = s[IF k < i THEN k ELSE k + 1]
  <2>1. SUFFICES ASSUME NEW k \in 1..(Len(s) - 1)
                 PROVE  (a \o b)[k] = s[IF k < i THEN k ELSE k + 1]
    OBVIOUS
  <2>2. CASE k < i
    BY <1>4, <2>2
  <2>3. CASE ~(k < i)
    BY <1>5, <2>3
  <2>4. QED BY <2>2, <2>3
<1>7. QED BY <1>3, <1>6 DEF a, b

\* What the file has for other keys.
LEMMA OthersKept ==
    ASSUME NEW e \in Fast!Sessions, Fast!load \in Seq(Fast!Sessions), Distinct(Fast!load)
    PROVE  /\ Fast!Others(e) \in Seq(Fast!Sessions) /\ Distinct(Fast!Others(e))
           /\ \A k \in 1..Len(Fast!Others(e)) : Fast!Others(e)[k].dev # e.dev
<1> DEFINE same == {i \in 1..Len(Fast!load) : Fast!load[i].dev = e.dev}
           i == CHOOSE i \in same : TRUE
           t == SubSeq(Fast!load, 1, i - 1) \o SubSeq(Fast!load, i + 1, Len(Fast!load))
<1>1. CASE same = {}
    BY <1>1 DEF Fast!Others
<1>2. CASE same # {}
  <2>1. Fast!Others(e) = t
    BY <1>2 DEF Fast!Others
  <2>2. i \in 1..Len(Fast!load) /\ Fast!load[i].dev = e.dev
    BY <1>2
  <2> HIDE DEF i
  <2>3. /\ t \in Seq(Fast!Sessions) /\ Len(t) = Len(Fast!load) - 1
        /\ \A k \in 1..Len(t) : t[k] = Fast!load[IF k < i THEN k ELSE k + 1]
    BY <2>2, RemovedOne
  <2> HIDE DEF t
  <2>4. ASSUME NEW k \in 1..Len(t)
        PROVE  (IF k < i THEN k ELSE k + 1) \in 1..Len(Fast!load) \ {i}
    BY <2>2, <2>3
  <2>5. \A k \in 1..Len(t) : t[k].dev # e.dev
    BY <2>2, <2>3, <2>4 DEF Distinct
  <2>6. ASSUME NEW j \in 1..Len(t), NEW k \in 1..Len(t), t[j].dev = t[k].dev
        PROVE  j = k
    <3>1. (IF j < i THEN j ELSE j + 1) = (IF k < i THEN k ELSE k + 1)
      BY <2>3, <2>4, <2>6 DEF Distinct
    <3>2. QED BY <2>2, <2>3, <3>1
  <2>7. QED BY <2>1, <2>3, <2>5, <2>6 DEF Distinct
<1>3. QED BY <1>1, <1>2

\* What is saved comes first, once, and no more is kept than there is room for.
LEMMA SavedKept ==
    ASSUME Fast!Parameters, NEW e \in Fast!Sessions, Fast!load \in Seq(Fast!Sessions), Distinct(Fast!load)
    PROVE  /\ Fast!Saved(e) \in Seq(Fast!Sessions) /\ Fast!Saved(e) # <<>> /\ Fast!Saved(e)[1] = e
           /\ Len(Fast!Saved(e)) <= MAX /\ Distinct(Fast!Saved(e))
<1> DEFINE s == Fast!Others(e)
           t == <<e>> \o s
           n == IF Len(t) > MAX THEN MAX ELSE Len(t)
<1>1. s \in Seq(Fast!Sessions) /\ Distinct(s) /\ \A k \in 1..Len(s) : s[k].dev # e.dev
    BY OthersKept
<1>2. Fast!Saved(e) = SubSeq(t, 1, n)
    BY DEF Fast!Saved, Fast!Cut
<1> HIDE DEF s
<1>3. /\ t \in Seq(Fast!Sessions) /\ Len(t) = Len(s) + 1 /\ t[1] = e
      /\ \A k \in 2..Len(t) : t[k] = s[k - 1]
    BY <1>1
<1> HIDE DEF t
<1>4. Distinct(t)
  <2>1. \A k \in 2..Len(t) : k - 1 \in 1..Len(s) /\ t[k].dev # e.dev
    BY <1>1, <1>3
  <2>2. SUFFICES ASSUME NEW i \in 1..Len(t), NEW j \in 1..Len(t), t[i].dev = t[j].dev
                 PROVE  i = j
    BY DEF Distinct
  <2>3. CASE i = 1 \/ j = 1
    BY <1>3, <2>1, <2>2, <2>3
  <2>4. CASE i # 1 /\ j # 1
    <3>1. i \in 2..Len(t) /\ j \in 2..Len(t)
      BY <1>3, <2>4
    <3>2. s[i - 1].dev = s[j - 1].dev /\ i - 1 \in 1..Len(s) /\ j - 1 \in 1..Len(s)
      BY <1>3, <2>1, <2>2, <3>1
    <3>3. i - 1 = j - 1
      BY <1>1, <3>2 DEF Distinct
    <3>4. QED BY <3>1, <3>3
  <2>5. QED BY <2>3, <2>4
<1>5. n \in 1..Len(t) /\ n <= MAX
    BY <1>1, <1>3 DEF Fast!Parameters
<1> HIDE DEF n
<1>6. SubSeq(t, 1, n) \in Seq(Fast!Sessions) /\ Len(SubSeq(t, 1, n)) = n
      /\ \A k \in 1..n : SubSeq(t, 1, n)[k] = t[k]
    BY <1>3, <1>5
<1> DEFINE c == SubSeq(t, 1, n)
<1>7. c \in Seq(Fast!Sessions) /\ Len(c) = n /\ \A k \in 1..n : c[k] = t[k]
    BY <1>6
<1>8. Fast!Saved(e) = c
    BY <1>2
<1> HIDE DEF c
<1>9. Distinct(c) /\ c # <<>> /\ c[1] = e
    BY <1>3, <1>4, <1>5, <1>7 DEF Distinct
<1>10. QED BY <1>5, <1>7, <1>8, <1>9

-----------------------------------------------------------------------------
(* What a process does to the lock.                                        *)

\* A process changes the lock only on its own link.
LockFor(r) ==
    /\ door' \in Fast!Lock /\ door'.dev = door.dev
    /\ door.link \notin {r, NoRun} => door' = door
    /\ door.link \in {r, NoRun} => door'.link \in {r, NoRun}

LEMMA LockSame ==
    ASSUME Fast!TypeOK, NEW r \in Runs, door' = door
    PROVE  LockFor(r)
    BY DEF LockFor, Fast!TypeOK

LEMMA LockFreed ==
    ASSUME Fast!TypeOK, Fast!Parameters, NEW r \in Runs, door' \in Fast!Freed(r)
    PROVE  LockFor(r) /\ door'.link # r
<1>1. door \in Fast!Lock /\ Fast!NoSession \in {Fast!NoSession}
    BY DEF Fast!TypeOK
<1>2. CASE door.link # r
    BY <1>1, <1>2 DEF Fast!Freed, LockFor, Fast!Lock
<1>3. CASE door.link = r
  <2>1. PICK s \in {door.open, Fast!NoSession} :
            door' = [door EXCEPT !.link = NoRun, !.channel = 0, !.open = s]
    BY <1>3 DEF Fast!Freed
  <2>2. s \in Fast!Sessions \cup {Fast!NoSession}
    BY <1>1 DEF Fast!Lock
  <2>3. 0 \in 0..MaxPublished
    BY DEF Fast!Parameters
  <2>4. door' \in Fast!Lock /\ door'.dev = door.dev /\ door'.link = NoRun
    BY <1>1, <2>1, <2>2, <2>3 DEF Fast!Lock
  <2>5. QED BY <1>3, <2>4 DEF LockFor, Fast!Parameters
<1>4. QED BY <1>2, <1>3

LEMMA LockTaken ==
    ASSUME Fast!TypeOK, NEW r \in Runs, door.link = NoRun, door' = [door EXCEPT !.link = r]
    PROVE  LockFor(r) /\ door'.link = r
<1>1. door \in Fast!Lock
    BY DEF Fast!TypeOK
<1>2. door' \in Fast!Lock /\ door'.dev = door.dev /\ door'.link = r
    BY <1>1 DEF Fast!Lock
<1>3. QED BY <1>2 DEF LockFor

LEMMA LockHears ==
    ASSUME Fast!TypeOK, NEW r \in Runs, Fast!Linked(r), NEW offer \in 0..MaxPublished, door' = Fast!Hears(offer)
    PROVE  LockFor(r) /\ door'.link = r /\ door'.channel = offer
<1>1. door \in Fast!Lock
    BY DEF Fast!TypeOK
<1>2. door' \in Fast!Lock /\ door'.dev = door.dev /\ door'.link = r /\ door'.channel = offer
    BY <1>1 DEF Fast!Lock, Fast!Hears, Fast!Linked
<1>3. QED BY <1>2 DEF LockFor, Fast!Linked

LEMMA LockProves ==
    ASSUME Fast!TypeOK, NEW r \in Runs, Fast!Linked(r), NEW s \in Fast!Sessions, door' = Fast!Proves(s)
    PROVE  /\ LockFor(r) /\ door'.link = r
           /\ door.channel = s.offer /\ door.dev = s.dev => door'.open = s
<1>1. door \in Fast!Lock
    BY DEF Fast!TypeOK
<1>2. door' \in Fast!Lock /\ door'.dev = door.dev /\ door'.link = r
    BY <1>1 DEF Fast!Lock, Fast!Proves, Fast!Linked
<1>3. door.channel = s.offer /\ door.dev = s.dev => door'.open = s
    BY <1>1 DEF Fast!Lock, Fast!Proves
<1>4. QED BY <1>2, <1>3 DEF LockFor, Fast!Linked

-----------------------------------------------------------------------------
(* A step of a process.                                                    *)

\* Another process has the file open at the same time, or goes on as it was.
AsBefore(s) == \/ run'[s] = run[s]
               \/ run[s] # Fast!Idle /\ run'[s] = [run[s] EXCEPT !.crossed = TRUE]

\* After a step of one process the others are where they were.
LEMMA OthersStay ==
    ASSUME Fast!Parameters, Sane, NEW r \in Runs, NEW s \in Runs \ {r}, AsBefore(s), LockFor(r),
           overlapped' <=> (overlapped \/ (run[r] = Fast!Idle /\ \E q \in Runs : run[q] # Fast!Idle))
    PROVE  /\ run'[s] \in Fast!Active \cup {Fast!Idle}
           /\ run'[s] # Fast!Idle <=> run[s] # Fast!Idle
           /\ run'[s] # Fast!Idle => /\ Has(run'[s]) /\ Place(s, run'[s], door')
                                     /\ overlapped'
<1>1. run[s] \in Fast!Active \cup {Fast!Idle}
    BY DEF Sane, Fast!TypeOK
<1>2. CASE run[s] = Fast!Idle
    BY <1>2 DEF AsBefore
<1>3. CASE run[s] # Fast!Idle
  <2>1. run[s] \in Fast!Active
    BY <1>1, <1>3
  <2>2. Has(run[s]) /\ Place(s, run[s], door)
    BY <1>3 DEF Sane, Processes
  <2>3. /\ run'[s] \in Fast!Active
        /\ run'[s].at = run[s].at /\ run'[s].path = run[s].path /\ run'[s].of = run[s].of
        /\ run'[s].list = run[s].list /\ run'[s].hit = run[s].hit
        /\ run'[s].known = run[s].known
    BY <2>1 DEF AsBefore, Fast!Active
  <2>4. run'[s] # Fast!Idle
    <3>1. run'[s].at # "idle"
      BY <2>3 DEF Fast!Active, Fast!Stages
    <3>2. QED BY <3>1 DEF Fast!Idle
  <2>5. Has(run'[s])
    BY <2>2, <2>3 DEF Has
  <2>6. /\ door.link = s => door' = door
        /\ door.link # s => door'.link # s
    <3>1. r # s /\ s # NoRun
      BY DEF Fast!Parameters
    <3>2. QED BY <3>1 DEF LockFor
  <2>7. Place(s, run'[s], door')
    BY <2>2, <2>3, <2>6 DEF Place, HasSession, Opened
  <2>8. overlapped'
    BY <1>3 DEF Sane, Alone
  <2>9. QED BY <1>3, <2>3, <2>4, <2>5, <2>7, <2>8
<1>4. QED BY <1>2, <1>3

\* A step of a process keeps the invariant if what it makes of the process, the lock, the
\* file and the history is as it says.
LEMMA StepKeeps ==
    ASSUME Fast!Parameters, Sane, NEW r \in Runs, NEW o, LockFor(r),
           run' \in [Runs -> Fast!Active \cup {Fast!Idle}], run'[r] = o,
           \A s \in Runs \ {r} : AsBefore(s),
           overlapped' <=> (overlapped \/ (run[r] = Fast!Idle /\ \E q \in Runs : run[q] # Fast!Idle)),
           file' \in Seq(Fast!Sessions) \cup {Fast!Torn}, Len(file') <= MAX, Sound(file'),
           published' \in 0..MaxPublished, outcome' \in Fast!Ended, {warm', overlapped'} \subseteq BOOLEAN,
           starts' \in 0..MaxStarts, mishaps' \in 0..MaxMishaps,
           o # Fast!Idle => Has(o) /\ Place(r, o, door')
                       /\ (~overlapped' => Held(o, file') /\ Fresh(o, door')),
           o = Fast!Idle => door'.link # r,
           ~overlapped' /\ warm' /\ (\A s \in Runs : run'[s] = Fast!Idle) => Ready(file', door'),
           Fast!FallbackSucceeds', Fast!NextIsOffline'
    PROVE  Sane'
<1>1. ASSUME NEW s \in Runs \ {r}
      PROVE  /\ run'[s] # Fast!Idle <=> run[s] # Fast!Idle
             /\ run'[s] # Fast!Idle => /\ Has(run'[s]) /\ Place(s, run'[s], door') /\ overlapped'
    BY <1>1, OthersStay
<1>2. Fast!TypeOK'
    BY DEF Sane, Fast!TypeOK, LockFor
<1>3. Processes'
    BY <1>1 DEF Processes
<1>4. Alone'
    BY <1>1 DEF Alone
<1>5. Links'
  <2>1. door'.link \in Runs \cup {NoRun}
    BY DEF LockFor, Fast!Lock
  <2>2. CASE door'.link = r
    BY <2>2 DEF Links
  <2>3. CASE door'.link \in Runs \ {r}
    <3>1. door' = door /\ run[door.link] # Fast!Idle
      BY <2>3 DEF LockFor, Sane, Links, Fast!Parameters
    <3>2. run'[door.link] # Fast!Idle
      BY <1>1, <2>3, <3>1
    <3>3. QED BY <3>1, <3>2 DEF Links
  <2>4. CASE door'.link = NoRun
    BY <2>4 DEF Links
  <2>5. QED BY <2>1, <2>2, <2>3, <2>4
<1>6. Warmed_up'
    BY DEF Warmed_up
<1>7. QED BY <1>2, <1>3, <1>4, <1>5, <1>6 DEF Sane

\* A process that goes on, and leaves the file alone.
LEMMA GoesOn ==
    ASSUME Fast!Parameters, Sane, NEW r \in Runs, run[r] # Fast!Idle, NEW o \in Fast!Active,
           run' = [run EXCEPT ![r] = o], LockFor(r), UNCHANGED <<file, Fast!history>>,
           published' \in 0..MaxPublished, mishaps' \in 0..MaxMishaps,
           Has(o), Place(r, o, door'), ~overlapped => Held(o, file) /\ Fresh(o, door)
    PROVE  Sane'
<1>1. o # Fast!Idle
  <2>1. o.at # "idle"
    BY DEF Fast!Active, Fast!Stages
  <2>2. QED BY <2>1 DEF Fast!Idle
<1>2. UNCHANGED <<file, outcome, warm, overlapped, starts>>
    BY DEF Fast!history
<1>3. /\ run' \in [Runs -> Fast!Active \cup {Fast!Idle}] /\ run'[r] = o
      /\ \A s \in Runs \ {r} : AsBefore(s)
    BY DEF Sane, Fast!TypeOK, AsBefore
<1>4. Fresh(o, door) => Fresh(o, door')
    BY DEF Fresh, LockFor
<1>5. Fast!FallbackSucceeds' /\ Fast!NextIsOffline'
    BY <1>2 DEF Sane, Fast!FallbackSucceeds, Fast!NextIsOffline
<1>6. /\ file' \in Seq(Fast!Sessions) \cup {Fast!Torn} /\ Len(file') <= MAX /\ Sound(file')
      /\ outcome' \in Fast!Ended /\ {warm', overlapped'} \subseteq BOOLEAN /\ starts' \in 0..MaxStarts
    BY <1>2 DEF Sane, Fast!TypeOK, Sound
<1>7. overlapped' <=> (overlapped \/ (run[r] = Fast!Idle /\ \E q \in Runs : run[q] # Fast!Idle))
    BY <1>2
<1>8. o # Fast!Idle => Has(o) /\ Place(r, o, door')
                  /\ (~overlapped' => Held(o, file') /\ Fresh(o, door'))
    BY <1>2, <1>4
<1>9. ~(\A s \in Runs : run'[s] = Fast!Idle)
    BY <1>1, <1>3
<1>10. QED BY <1>1, <1>3, <1>5, <1>6, <1>7, <1>8, <1>9, StepKeeps

\* A process that ends keeps the invariant if nothing has gone wrong with it but what it
\* says, and if it was ready when it ended well.
LEMMA EndKeeps ==
    ASSUME Fast!Parameters, Sane, NEW r \in Runs, run[r] # Fast!Idle, NEW end \in {"ok", "error"},
           NEW ran \in 0..1, NEW hit \in Fast!Hits, Fast!End(r, end, ran, hit), mishaps' \in 0..MaxMishaps,
           hit # "other" => end = "ok" /\ ran = (IF run[r].mode = "unlock" THEN 1 ELSE 0),
           hit = "no" => run[r].hit = "no",
           end = "ok" => run[r].at = "ready"
    PROVE  Sane'
<1>1. run[r] \in Fast!Active
    BY DEF Sane, Fast!TypeOK
<1>2. LockFor(r) /\ door'.link # r
  <2>1. Fast!TypeOK /\ door' \in Fast!Freed(r)
    BY DEF Sane, Fast!End
  <2>2. QED BY <2>1, LockFreed
<1>3. UNCHANGED <<file, published, overlapped, starts>>
    BY DEF Fast!End
<1>4. /\ run' \in [Runs -> Fast!Active \cup {Fast!Idle}] /\ run'[r] = Fast!Idle
      /\ \A s \in Runs \ {r} : AsBefore(s)
    BY DEF Sane, Fast!TypeOK, AsBefore, Fast!End
<1>5. outcome' = [mode |-> run[r].mode, path |-> run[r].path, end |-> end, ran |-> ran,
               hit |-> hit, warm |-> run[r].warm]
    BY DEF Fast!End
<1>6. outcome' \in Fast!Ended
    BY <1>1, <1>5 DEF Fast!Active, Fast!Ended
<1>7. warm' = (end = "ok" /\ run[r].of.dev = door.dev)
    BY DEF Fast!End
<1>8. /\ file' \in Seq(Fast!Sessions) \cup {Fast!Torn} /\ Len(file') <= MAX /\ Sound(file')
      /\ published' \in 0..MaxPublished /\ overlapped' \in BOOLEAN /\ starts' \in 0..MaxStarts
    BY <1>3 DEF Sane, Fast!TypeOK, Sound
<1>9. warm' \in BOOLEAN
    BY <1>7
<1>10. ~overlapped => Held(run[r], file) /\ Fresh(run[r], door)
    BY DEF Sane, Processes
<1>11. ~overlapped' /\ warm' => Ready(file', door')
  <2>1. SUFFICES ASSUME ~overlapped, warm' PROVE Ready(file', door')
    BY <1>3
  <2>2. file # <<>> /\ file[1] = run[r].of /\ run[r].of.dev = door.dev
    BY <1>7, <1>10, <2>1 DEF Held
  <2>3. QED BY <1>2, <1>3, <2>2 DEF Ready, LockFor
<1>12. Fast!FallbackSucceeds'
    BY <1>5 DEF Fast!FallbackSucceeds
<1>13. Fast!NextIsOffline'
    BY <1>3, <1>5, <1>10 DEF Fast!NextIsOffline, Fresh
<1>14. QED BY <1>2, <1>3, <1>4, <1>6, <1>8, <1>9, <1>11, <1>12, <1>13, StepKeeps

\* A replay that goes over to the cloud.
LEMMA ToCloudKeeps ==
    ASSUME Fast!Parameters, Sane, NEW r \in Runs, run[r] # Fast!Idle, NEW hit \in Fast!Hits,
           Fast!ToCloud(r, hit), LockFor(r), mishaps' \in 0..MaxMishaps,
           hit # "other" => door'.link # r,
           hit = "no" /\ ~overlapped => ~run[r].warm
    PROVE  Sane'
<1> DEFINE o == [run[r] EXCEPT !.at = "login", !.path = "cloud", !.known = FALSE,
                               !.of = Fast!NoSession, !.hit = hit]
<1>1. run[r] \in Fast!Active
    BY DEF Sane, Fast!TypeOK
<1>2. Fast!NoSession \in [offer : 0..MaxPublished, dev : 0..MaxDoorKeys]
    BY DEF Fast!NoSession, Fast!Parameters
<1>3. o \in Fast!Active
    BY <1>1, <1>2 DEF Fast!Active, Fast!Stages
<1>4. run' = [run EXCEPT ![r] = o]
    BY DEF Fast!ToCloud
<1>5. /\ o.at = "login" /\ o.path = "cloud" /\ o.hit = hit /\ o.warm = run[r].warm
      /\ o.list = run[r].list /\ o.crossed = run[r].crossed
    BY <1>1 DEF Fast!Active
<1> HIDE DEF o
<1>6. Has(run[r]) /\ (~overlapped => Held(run[r], file))
    BY DEF Sane, Processes
<1>7. Has(o) /\ Place(r, o, door') /\ (~overlapped => Held(o, file) /\ Fresh(o, door))
    BY <1>5, <1>6 DEF Has, Place, Held, Fresh, HasSession, Opened
<1>8. UNCHANGED <<file, Fast!history>> /\ published' \in 0..MaxPublished
    BY DEF Fast!ToCloud, Sane, Fast!TypeOK
<1>9. QED BY <1>3, <1>4, <1>7, <1>8, GoesOn

LEMMA FallbackKeeps ==
    ASSUME Fast!Parameters, Sane, NEW r \in Runs, run[r] # Fast!Idle, NEW hit \in Fast!Hits,
           Fast!Fallback(r, hit), mishaps' \in 0..MaxMishaps,
           hit # "other" => run[r].known \/ ~Fast!Linked(r),
           hit = "no" /\ ~overlapped => ~run[r].warm
    PROVE  Sane'
<1>1. Fast!TypeOK /\ Fast!ToCloud(r, hit)
    BY DEF Sane, Fast!Fallback
<1>2. CASE run[r].known
  <2>1. LockFor(r) /\ door'.link # r
    BY <1>1, <1>2, LockFreed DEF Fast!Fallback
  <2>2. QED BY <1>1, <2>1, ToCloudKeeps
<1>3. CASE ~run[r].known
  <2>1. door' = door
    BY <1>3 DEF Fast!Fallback
  <2>2. LockFor(r)
    BY <1>1, <2>1, LockSame
  <2>3. QED BY <1>1, <1>3, <2>1, <2>2, ToCloudKeeps DEF Fast!Linked
<1>4. QED BY <1>2, <1>3

\* What is thrown for a fault that the fallback to the cloud is there for, or another.
LEMMA ThrowKeeps ==
    ASSUME Fast!Parameters, Sane, NEW r \in Runs, run[r] # Fast!Idle, NEW hit \in {"replay", "other"},
           Fast!Throw(r, hit), mishaps' \in 0..MaxMishaps,
           hit # "other" => run[r].path = "cached" /\ (run[r].known \/ ~Fast!Linked(r))
    PROVE  Sane'
<1>1. hit \in Fast!Hits /\ hit # "no" /\ "error" \in {"ok", "error"} /\ 0 \in 0..1 /\ "error" # "ok"
    BY DEF Fast!Hits
<1>2. CASE run[r].path = "cached"
  <2>1. Fast!Fallback(r, hit)
    BY <1>2 DEF Fast!Throw
  <2>2. QED BY <1>1, <2>1, FallbackKeeps
<1>3. CASE run[r].path # "cached"
  <2>1. Fast!End(r, "error", 0, hit) /\ hit = "other"
    BY <1>3 DEF Fast!Throw
  <2>2. QED BY <1>1, <2>1, EndKeeps
<1>4. QED BY <1>2, <1>3

\* A process that ends with an error that a fault has made.
LEMMA ErrorKeeps ==
    ASSUME Fast!Parameters, Sane, NEW r \in Runs, run[r] # Fast!Idle, NEW ran \in 0..1,
           Fast!End(r, "error", ran, "other"), mishaps' \in 0..MaxMishaps
    PROVE  Sane'
<1>1. "other" \in Fast!Hits /\ "other" # "no" /\ "error" \in {"ok", "error"} /\ "error" # "ok"
    BY DEF Fast!Hits
<1>2. QED BY <1>1, EndKeeps

LEMMA OneMoreFault ==
    ASSUME Fast!Parameters, Sane, UNCHANGED mishaps \/ (mishaps < MaxMishaps /\ mishaps' = mishaps + 1)
    PROVE  mishaps' \in 0..MaxMishaps
<1>1. mishaps \in 0..MaxMishaps /\ MaxMishaps \in Nat
    BY DEF Sane, Fast!TypeOK, Fast!Parameters
<1>2. QED BY <1>1

-----------------------------------------------------------------------------
(* The actions.                                                            *)

LEMMA StageIsActive ==
    ASSUME Sane, NEW r \in Runs, run[r].at \in Fast!Stages
    PROVE  run[r] # Fast!Idle /\ run[r] \in Fast!Active
<1>1. run[r] # Fast!Idle
    BY DEF Fast!Idle, Fast!Stages
<1>2. QED BY <1>1 DEF Sane, Fast!TypeOK

LEMMA StartKeeps ==
    ASSUME Fast!Parameters, Sane, NEW r \in Runs, NEW mode \in Fast!Modes, Fast!Start(r, mode)
    PROVE  Sane'
<1> DEFINE s == Fast!findLatestByDid
           o == [at |-> IF s = Fast!NoSession THEN "login" ELSE "connect", mode |-> mode,
                 path |-> IF s = Fast!NoSession THEN "cloud" ELSE "cached",
                 of |-> s, known |-> FALSE, list |-> <<>>, crossed |-> FALSE,
                 hit |-> "no", warm |-> warm]
<1>1. /\ run[r] = Fast!Idle /\ run' = [run EXCEPT ![r] = o]
      /\ overlapped' = (overlapped \/ \E q \in Runs : run[q] # Fast!Idle)
      /\ UNCHANGED <<file, door, published, outcome, warm, mishaps>>
      /\ starts < MaxStarts /\ starts' = starts + 1
    BY DEF Fast!Start
<1>2. Fast!TypeOK
    BY DEF Sane
<1>3. LockFor(r)
    BY <1>1, <1>2, LockSame
<1>4. /\ s = Fast!NoSession \/ s \in Fast!Sessions
      /\ s # Fast!NoSession => file # <<>> /\ file[1] = s
      /\ file # <<>> /\ file # Fast!Torn => s = file[1] /\ s \in Fast!Sessions
  <2>1. file \in Seq(Fast!Sessions) \cup {Fast!Torn}
    BY <1>2 DEF Fast!TypeOK
  <2>2. CASE file = Fast!Torn \/ file = <<>>
    BY <2>2 DEF Fast!findLatestByDid, Fast!load
  <2>3. CASE file # Fast!Torn /\ file # <<>>
    <3>1. file \in Seq(Fast!Sessions) /\ 1 \in 1..Len(file)
      BY <2>1, <2>3
    <3>2. file[1] \in Fast!Sessions
      BY <3>1
    <3>3. QED BY <2>3, <3>2 DEF Fast!findLatestByDid, Fast!load
  <2>4. QED BY <2>2, <2>3
<1>5. Fast!NoSession \notin Fast!Sessions /\ Fast!NoSession \in [offer : 0..MaxPublished, dev : 0..MaxDoorKeys]
      /\ Fast!Sessions \subseteq [offer : 0..MaxPublished, dev : 0..MaxDoorKeys]
    BY DEF Fast!NoSession, Fast!Sessions, Fast!Parameters
<1>6. <<>> \in Seq(Fast!Sessions) /\ Len(<<>>) <= MAX /\ Distinct(<<>>)
    BY DEF Distinct, Fast!Parameters
<1>7. door.dev # 0
    BY <1>2 DEF Fast!TypeOK, Fast!Lock
<1>8. ~overlapped' /\ warm => Ready(file, door)
    BY <1>1 DEF Sane, Warmed_up
<1>9. ~overlapped' /\ warm => s \in Fast!Sessions /\ s.dev = door.dev
  <2>1. SUFFICES ASSUME Ready(file, door) PROVE s \in Fast!Sessions /\ s.dev = door.dev
    BY <1>8
  <2>2. file # Fast!Torn
    BY <1>7, <2>1 DEF Ready, Fast!Torn, Fast!NoSession
  <2>3. QED BY <1>4, <2>1, <2>2 DEF Ready
<1>10. warm \in BOOLEAN /\ "no" \in Fast!Hits
    BY <1>2 DEF Fast!TypeOK, Fast!Hits
<1> HIDE DEF s
<1>11. o \in Fast!Active
    BY <1>4, <1>5, <1>6, <1>10 DEF Fast!Active, Fast!Stages
<1> HIDE DEF o
<1>12. /\ o.at \in {"login", "connect"} /\ (o.at = "login" <=> s = Fast!NoSession)
       /\ o.path = (IF s = Fast!NoSession THEN "cloud" ELSE "cached")
       /\ o.of = s /\ o.list = <<>> /\ o.crossed = FALSE /\ o.hit = "no" /\ o.warm = warm
    BY DEF o
<1>13. Has(o)
    BY <1>4, <1>6, <1>12 DEF Has, HasSession
<1>14. door.link # r
    BY <1>1 DEF Sane, Links, Fast!Parameters
<1>15. Place(r, o, door')
    BY <1>1, <1>12, <1>14 DEF Place, HasSession, Opened
<1>16. Held(o, file') /\ (~overlapped' => Fresh(o, door'))
    BY <1>1, <1>4, <1>5, <1>9, <1>12 DEF Held, Fresh
<1>17. o # Fast!Idle
  <2>1. o.at # "idle"
    BY <1>12
  <2>2. QED BY <2>1 DEF Fast!Idle
<1>18. /\ run' \in [Runs -> Fast!Active \cup {Fast!Idle}] /\ run'[r] = o
       /\ \A q \in Runs \ {r} : AsBefore(q)
    BY <1>1, <1>2, <1>11 DEF Fast!TypeOK, AsBefore
<1>19. /\ file' \in Seq(Fast!Sessions) \cup {Fast!Torn} /\ Len(file') <= MAX /\ Sound(file')
       /\ published' \in 0..MaxPublished /\ outcome' \in Fast!Ended /\ mishaps' \in 0..MaxMishaps
    BY <1>1 DEF Sane, Fast!TypeOK, Sound
<1>20. starts' \in 0..MaxStarts
    BY <1>1, <1>2 DEF Fast!TypeOK, Fast!Parameters
<1>21. {warm', overlapped'} \subseteq BOOLEAN
    BY <1>1, <1>2 DEF Fast!TypeOK
<1>22. Fast!FallbackSucceeds' /\ Fast!NextIsOffline'
    BY <1>1 DEF Sane, Fast!FallbackSucceeds, Fast!NextIsOffline
<1>23. ~(\A q \in Runs : run'[q] = Fast!Idle)
    BY <1>17, <1>18
<1>24. overlapped' <=> (overlapped \/ (run[r] = Fast!Idle /\ \E q \in Runs : run[q] # Fast!Idle))
    BY <1>1
<1>25. QED BY <1>3, <1>13, <1>15, <1>16, <1>17, <1>18, <1>19, <1>20, <1>21, <1>22, <1>23,
              <1>24, StepKeeps

LEMMA CloudFailsKeeps ==
    ASSUME Fast!Parameters, Sane, NEW r \in Runs, Fast!CloudFails(r)
    PROVE  Sane'
<1>1. run[r] # Fast!Idle /\ 0 \in 0..1
    BY StageIsActive DEF Fast!CloudFails, Fast!At, Fast!Stages
<1>2. mishaps' \in 0..MaxMishaps
    BY OneMoreFault DEF Fast!CloudFails, Fast!Fault
<1>3. QED BY <1>1, <1>2, ErrorKeeps DEF Fast!CloudFails

LEMMA LoginKeeps ==
    ASSUME Fast!Parameters, Sane, NEW r \in Runs, Fast!login(r)
    PROVE  Sane'
<1> DEFINE o == [run[r] EXCEPT !.at = "publickey"]
<1>1. run[r] # Fast!Idle /\ run[r] \in Fast!Active /\ run[r].at = "login"
    BY StageIsActive DEF Fast!login, Fast!At, Fast!Stages
<1>2. o \in Fast!Active
    BY <1>1 DEF Fast!Active, Fast!Stages
<1>3. run' = [run EXCEPT ![r] = o]
    BY DEF Fast!login, Fast!Goes
<1>4. /\ o.at = "publickey" /\ o.path = run[r].path /\ o.hit = run[r].hit
      /\ o.warm = run[r].warm /\ o.list = run[r].list /\ o.crossed = run[r].crossed
      /\ o.of = run[r].of
    BY <1>1 DEF Fast!Active
<1> HIDE DEF o
<1>5. /\ Has(run[r]) /\ Place(r, run[r], door)
      /\ ~overlapped => Held(run[r], file) /\ Fresh(run[r], door)
    BY <1>1 DEF Sane, Processes
<1>6. door' = door /\ Fast!TypeOK
    BY DEF Fast!login, Sane
<1>7. LockFor(r)
    BY <1>6, LockSame
<1>8. Has(o) /\ Place(r, o, door') /\ (~overlapped => Held(o, file) /\ Fresh(o, door))
    BY <1>1, <1>4, <1>5, <1>6 DEF Has, Place, Held, Fresh, HasSession, Opened
<1>9. /\ UNCHANGED <<file, Fast!history>> /\ published' \in 0..MaxPublished
      /\ mishaps' \in 0..MaxMishaps
    BY DEF Fast!login, Sane, Fast!TypeOK
<1>10. QED BY <1>1, <1>2, <1>3, <1>7, <1>8, <1>9, GoesOn

LEMMA PublickeyKeeps ==
    ASSUME Fast!Parameters, Sane, NEW r \in Runs, Fast!publickey(r)
    PROVE  Sane'
<1> DEFINE o == [run[r] EXCEPT !.at = "connect", !.of = [offer |-> published', dev |-> 0]]
<1>1. run[r] # Fast!Idle /\ run[r] \in Fast!Active /\ run[r].at = "publickey"
    BY StageIsActive DEF Fast!publickey, Fast!At, Fast!Stages
<1>2. /\ published' \in 1..MaxPublished
      /\ [offer |-> published', dev |-> 0] \in [offer : 0..MaxPublished, dev : 0..MaxDoorKeys]
    BY DEF Fast!publickey, Sane, Fast!TypeOK, Fast!Parameters
<1>3. o \in Fast!Active
    BY <1>1, <1>2 DEF Fast!Active, Fast!Stages
<1>4. run' = [run EXCEPT ![r] = o]
    BY DEF Fast!publickey
<1>5. /\ o.at = "connect" /\ o.path = run[r].path /\ o.hit = run[r].hit
      /\ o.warm = run[r].warm /\ o.list = run[r].list /\ o.crossed = run[r].crossed
      /\ o.of.offer = published'
    BY <1>1 DEF Fast!Active
<1> HIDE DEF o
<1>6. /\ Has(run[r]) /\ Place(r, run[r], door)
      /\ ~overlapped => Held(run[r], file) /\ Fresh(run[r], door)
    BY <1>1 DEF Sane, Processes
<1>7. door' = door /\ Fast!TypeOK /\ run[r].path = "cloud"
    BY <1>1, <1>6 DEF Fast!publickey, Sane, Has, Fast!Active
<1>8. LockFor(r)
    BY <1>7, LockSame
<1>9. Has(o) /\ Place(r, o, door') /\ (~overlapped => Held(o, file) /\ Fresh(o, door))
    BY <1>1, <1>2, <1>5, <1>6, <1>7 DEF Has, Place, Held, Fresh, HasSession, Opened
<1>10. /\ UNCHANGED <<file, Fast!history>> /\ published' \in 0..MaxPublished
       /\ mishaps' \in 0..MaxMishaps
    BY <1>2 DEF Fast!publickey, Sane, Fast!TypeOK
<1>11. QED BY <1>1, <1>3, <1>4, <1>8, <1>9, <1>10, GoesOn

LEMMA ConnectKeeps ==
    ASSUME Fast!Parameters, Sane, NEW r \in Runs, Fast!connect(r)
    PROVE  Sane'
<1> DEFINE o == [run[r] EXCEPT !.at = "hello", !.known = TRUE]
<1>1. run[r] # Fast!Idle /\ run[r] \in Fast!Active /\ run[r].at = "connect"
    BY StageIsActive DEF Fast!connect, Fast!At, Fast!Stages
<1>2. o \in Fast!Active
    BY <1>1 DEF Fast!Active, Fast!Stages
<1>3. run' = [run EXCEPT ![r] = o]
    BY DEF Fast!connect
<1>4. /\ o.at = "hello" /\ o.path = run[r].path /\ o.hit = run[r].hit
      /\ o.warm = run[r].warm /\ o.list = run[r].list /\ o.crossed = run[r].crossed
      /\ o.of = run[r].of /\ o.known = TRUE
    BY <1>1 DEF Fast!Active
<1> HIDE DEF o
<1>5. /\ Has(run[r])
      /\ ~overlapped => Held(run[r], file) /\ Fresh(run[r], door)
    BY <1>1 DEF Sane, Processes
<1>6. Fast!TypeOK /\ door.link = NoRun /\ door' = [door EXCEPT !.link = r]
    BY DEF Fast!connect, Sane
<1>7. LockFor(r) /\ door'.link = r
    BY <1>6, LockTaken
<1>8. Has(o) /\ Place(r, o, door') /\ (~overlapped => Held(o, file) /\ Fresh(o, door))
    BY <1>1, <1>4, <1>5, <1>7 DEF Has, Place, Held, Fresh, HasSession, Opened
<1>9. /\ UNCHANGED <<file, Fast!history>> /\ published' \in 0..MaxPublished
      /\ mishaps' \in 0..MaxMishaps
    BY DEF Fast!connect, Sane, Fast!TypeOK
<1>10. QED BY <1>1, <1>2, <1>3, <1>7, <1>8, <1>9, GoesOn

LEMMA ScanTimeoutKeeps ==
    ASSUME Fast!Parameters, Sane, NEW r \in Runs, Fast!ScanTimeout(r)
    PROVE  Sane'
<1>1. run[r] # Fast!Idle /\ run[r] \in Fast!Active /\ run[r].at = "connect"
    BY StageIsActive DEF Fast!ScanTimeout, Fast!At, Fast!Stages
<1>2. mishaps' \in 0..MaxMishaps
    BY OneMoreFault DEF Fast!ScanTimeout, Fast!Fault
<1>3. Place(r, run[r], door)
    BY <1>1 DEF Sane, Processes
<1>4. run[r].hit # "other" => ~Fast!Linked(r)
    BY <1>1, <1>3 DEF Place, Fast!Linked
<1> DEFINE hit == IF run[r].path = "cached" THEN Fast!Worse(r, "replay") ELSE "other"
<1>5. hit \in {"replay", "other"}
      /\ (hit # "other" => run[r].path = "cached" /\ run[r].hit # "other")
    BY DEF Fast!Worse
<1>6. CASE Fast!Throw(r, hit)
  <2> HIDE DEF hit
  <2>1. QED BY <1>1, <1>2, <1>4, <1>5, <1>6, ThrowKeeps
<1>7. CASE Fast!Throw(r, IF Fast!Linked(r) THEN run[r].hit ELSE "other")
  <2>1. (IF Fast!Linked(r) THEN run[r].hit ELSE "other") = "other"
    BY <1>4
  <2>2. Fast!Throw(r, "other")
    BY <1>7, <2>1
  <2>3. QED BY <1>1, <1>2, <2>2, ThrowKeeps
<1>8. QED BY <1>6, <1>7 DEF Fast!ScanTimeout

LEMMA DiscoverFailsKeeps ==
    ASSUME Fast!Parameters, Sane, NEW r \in Runs, Fast!DiscoverFails(r)
    PROVE  Sane'
<1>1. run[r] # Fast!Idle
    BY StageIsActive DEF Fast!DiscoverFails, Fast!At, Fast!Stages
<1>2. mishaps' \in 0..MaxMishaps
    BY OneMoreFault DEF Fast!DiscoverFails, Fast!Fault
<1>3. CASE run[r].path = "cached"
  <2>1. /\ Fast!TypeOK /\ door.link = NoRun /\ door' = [door EXCEPT !.link = r]
        /\ Fast!ToCloud(r, "other")
    BY <1>3 DEF Fast!DiscoverFails, Sane
  <2>2. LockFor(r)
    BY <2>1, LockTaken
  <2>3. "other" \in Fast!Hits /\ "other" # "no"
    BY DEF Fast!Hits
  <2>4. QED BY <1>1, <1>2, <2>1, <2>2, <2>3, ToCloudKeeps
<1>4. CASE run[r].path # "cached"
  <2>1. Fast!End(r, "error", 0, "other") /\ 0 \in 0..1
    BY <1>4 DEF Fast!DiscoverFails
  <2>2. QED BY <1>1, <1>2, <2>1, ErrorKeeps
<1>5. QED BY <1>3, <1>4

LEMMA HelloReplayKeeps ==
    ASSUME Fast!Parameters, Sane, NEW r \in Runs, Fast!helloReplay(r)
    PROVE  Sane'
<1>1. run[r] # Fast!Idle /\ run[r] \in Fast!Active /\ run[r].at = "hello" /\ run[r].path = "cached"
      /\ Fast!Linked(r)
    BY StageIsActive DEF Fast!helloReplay, Fast!At, Fast!Stages
<1>2. mishaps' \in 0..MaxMishaps
    BY DEF Fast!helloReplay, Sane, Fast!TypeOK
<1>3. /\ Has(run[r]) /\ Place(r, run[r], door)
      /\ ~overlapped => Held(run[r], file) /\ Fresh(run[r], door)
    BY <1>1 DEF Sane, Processes
<1>4. CASE door.dev = run[r].of.dev
  <2> DEFINE o == [run[r] EXCEPT !.at = "prove"]
  <2>1. o \in Fast!Active
    BY <1>1 DEF Fast!Active, Fast!Stages
  <2>2. /\ run' = [run EXCEPT ![r] = o] /\ door' = Fast!Hears(run[r].of.offer)
        /\ UNCHANGED <<file, published, Fast!history>>
    BY <1>4 DEF Fast!helloReplay, Fast!Goes
  <2>3. /\ o.at = "prove" /\ o.path = run[r].path /\ o.hit = run[r].hit
        /\ o.warm = run[r].warm /\ o.list = run[r].list /\ o.crossed = run[r].crossed
        /\ o.of = run[r].of /\ o.known = run[r].known
    BY <1>1 DEF Fast!Active
  <2> HIDE DEF o
  <2>4. run[r].of \in Fast!Sessions /\ run[r].of.offer \in 0..MaxPublished /\ Fast!TypeOK
    BY <1>1, <1>3 DEF Has, Fast!Sessions, Sane
  <2>5. LockFor(r) /\ door'.link = r /\ door'.channel = run[r].of.offer
    BY <1>1, <2>2, <2>4, LockHears
  <2>6. Place(r, o, door')
    BY <1>1, <1>3, <1>4, <2>3, <2>5 DEF Place, HasSession, Opened, LockFor
  <2>7. Has(o) /\ (~overlapped => Held(o, file) /\ Fresh(o, door))
    BY <1>1, <1>3, <2>3, <2>4 DEF Has, Held, Fresh, HasSession
  <2>8. UNCHANGED <<file, Fast!history>> /\ published' \in 0..MaxPublished
    BY <2>2, <2>4 DEF Fast!TypeOK
  <2>9. QED BY <1>1, <1>2, <2>1, <2>2, <2>5, <2>6, <2>7, <2>8, GoesOn
<1>5. CASE door.dev # run[r].of.dev
  <2>1. Fast!Fallback(r, run[r].hit) /\ run[r].hit \in Fast!Hits
    BY <1>1, <1>5 DEF Fast!helloReplay, Fast!Active
  <2>2. run[r].hit # "other" => run[r].known
    BY <1>1, <1>3 DEF Place
  <2>3. run[r].hit = "no" /\ ~overlapped => ~run[r].warm
    BY <1>3, <1>5 DEF Fresh
  <2>4. QED BY <1>1, <1>2, <2>1, <2>2, <2>3, FallbackKeeps
<1>6. QED BY <1>4, <1>5

LEMMA HelloKeeps ==
    ASSUME Fast!Parameters, Sane, NEW r \in Runs, Fast!hello(r)
    PROVE  Sane'
<1> DEFINE s == [run[r].of EXCEPT !.dev = door.dev]
           o == [run[r] EXCEPT !.at = "verify", !.of = s]
<1>1. run[r] # Fast!Idle /\ run[r] \in Fast!Active /\ run[r].at = "hello" /\ run[r].path = "cloud"
      /\ Fast!Linked(r)
    BY StageIsActive DEF Fast!hello, Fast!At, Fast!Stages
<1>2. /\ Has(run[r]) /\ Place(r, run[r], door)
      /\ ~overlapped => Held(run[r], file) /\ Fresh(run[r], door)
    BY <1>1 DEF Sane, Processes
<1>3. door \in Fast!Lock /\ Fast!TypeOK
    BY DEF Sane, Fast!TypeOK
<1>4. run[r].of.offer \in 1..MaxPublished /\ run[r].of \in [offer : 0..MaxPublished, dev : 0..MaxDoorKeys]
    BY <1>1, <1>2 DEF Has, Fast!Active
<1>5. /\ s \in Fast!Sessions /\ s \in [offer : 0..MaxPublished, dev : 0..MaxDoorKeys]
      /\ s.offer = run[r].of.offer /\ s.dev = door.dev
    BY <1>3, <1>4 DEF Fast!Sessions, Fast!Lock
<1>6. run' = [run EXCEPT ![r] = o] /\ door' = Fast!Hears(run[r].of.offer)
    BY DEF Fast!hello
<1> HIDE DEF s
<1>7. o \in Fast!Active
    BY <1>1, <1>5 DEF Fast!Active, Fast!Stages
<1>8. /\ o.at = "verify" /\ o.path = run[r].path /\ o.hit = run[r].hit
      /\ o.warm = run[r].warm /\ o.list = run[r].list /\ o.crossed = run[r].crossed
      /\ o.of = s /\ o.known = run[r].known
    BY <1>1 DEF Fast!Active
<1> HIDE DEF o
<1>9. LockFor(r) /\ door'.link = r /\ door'.channel = run[r].of.offer
  <2>1. run[r].of.offer \in 0..MaxPublished
    BY <1>4
  <2>2. QED BY <1>1, <1>3, <1>6, <2>1, LockHears
<1>10. Place(r, o, door')
    BY <1>1, <1>2, <1>5, <1>8, <1>9 DEF Place, HasSession, Opened, LockFor
<1>11. Has(o) /\ (~overlapped => Held(o, file) /\ Fresh(o, door))
    BY <1>1, <1>2, <1>5, <1>8 DEF Has, Held, Fresh, HasSession
<1>12. /\ UNCHANGED <<file, Fast!history>> /\ published' \in 0..MaxPublished
       /\ mishaps' \in 0..MaxMishaps
    BY <1>3 DEF Fast!hello, Fast!TypeOK
<1>13. QED BY <1>1, <1>6, <1>7, <1>9, <1>10, <1>11, <1>12, GoesOn

LEMMA HelloTimeoutKeeps ==
    ASSUME Fast!Parameters, Sane, NEW r \in Runs, Fast!HelloTimeout(r)
    PROVE  Sane'
<1>1. run[r] # Fast!Idle /\ run[r] \in Fast!Active /\ run[r].at = "hello"
    BY StageIsActive DEF Fast!HelloTimeout, Fast!At, Fast!Stages
<1>2. mishaps' \in 0..MaxMishaps
    BY OneMoreFault DEF Fast!HelloTimeout, Fast!Fault
<1>3. Place(r, run[r], door)
    BY <1>1 DEF Sane, Processes
<1>4. run[r].hit # "other" => run[r].known
    BY <1>1, <1>3 DEF Place
<1> DEFINE hit == IF run[r].path = "cached" THEN Fast!Worse(r, "replay") ELSE "other"
<1>5. hit \in {"replay", "other"}
      /\ (hit # "other" => run[r].path = "cached" /\ run[r].hit # "other")
    BY DEF Fast!Worse
<1>6. Fast!Throw(r, hit)
    BY DEF Fast!HelloTimeout
<1> HIDE DEF hit
<1>7. QED BY <1>1, <1>2, <1>4, <1>5, <1>6, ThrowKeeps

LEMMA VerifyKeeps ==
    ASSUME Fast!Parameters, Sane, NEW r \in Runs, Fast!verify(r)
    PROVE  Sane'
<1> DEFINE o == [run[r] EXCEPT !.at = "prove"]
<1>1. run[r] # Fast!Idle /\ run[r] \in Fast!Active /\ run[r].at = "verify"
    BY StageIsActive DEF Fast!verify, Fast!At, Fast!Stages
<1>2. o \in Fast!Active
    BY <1>1 DEF Fast!Active, Fast!Stages
<1>3. run' = [run EXCEPT ![r] = o]
    BY DEF Fast!verify, Fast!Goes
<1>4. /\ o.at = "prove" /\ o.path = run[r].path /\ o.hit = run[r].hit
      /\ o.warm = run[r].warm /\ o.list = run[r].list /\ o.crossed = run[r].crossed
      /\ o.of = run[r].of /\ o.known = run[r].known
    BY <1>1 DEF Fast!Active
<1> HIDE DEF o
<1>5. /\ Has(run[r]) /\ Place(r, run[r], door)
      /\ ~overlapped => Held(run[r], file) /\ Fresh(run[r], door)
    BY <1>1 DEF Sane, Processes
<1>6. door' = door /\ Fast!TypeOK
    BY DEF Fast!verify, Sane
<1>7. LockFor(r)
    BY <1>6, LockSame
<1>8. Has(o) /\ Place(r, o, door') /\ (~overlapped => Held(o, file) /\ Fresh(o, door))
    BY <1>1, <1>4, <1>5, <1>6 DEF Has, Place, Held, Fresh, HasSession, Opened
<1>9. /\ UNCHANGED <<file, Fast!history>> /\ published' \in 0..MaxPublished
      /\ mishaps' \in 0..MaxMishaps
    BY DEF Fast!verify, Sane, Fast!TypeOK
<1>10. QED BY <1>1, <1>2, <1>3, <1>7, <1>8, <1>9, GoesOn

LEMMA ProveKeeps ==
    ASSUME Fast!Parameters, Sane, NEW r \in Runs, Fast!prove(r)
    PROVE  Sane'
<1> DEFINE o == [run[r] EXCEPT !.at = Fast!AfterProof(r)]
<1>1. run[r] # Fast!Idle /\ run[r] \in Fast!Active /\ run[r].at = "prove"
    BY StageIsActive DEF Fast!prove, Fast!At, Fast!Stages
<1>2. Fast!AfterProof(r) \in {"ready", "save"} /\ (Fast!AfterProof(r) = "ready" <=> run[r].path = "cached")
    BY DEF Fast!AfterProof
<1>3. o \in Fast!Active
    BY <1>1, <1>2 DEF Fast!Active, Fast!Stages
<1>4. run' = [run EXCEPT ![r] = o]
    BY DEF Fast!prove, Fast!Goes
<1>5. /\ o.at = Fast!AfterProof(r) /\ o.path = run[r].path /\ o.hit = run[r].hit
      /\ o.warm = run[r].warm /\ o.list = run[r].list /\ o.crossed = run[r].crossed
      /\ o.of = run[r].of /\ o.known = run[r].known
    BY <1>1 DEF Fast!Active
<1> HIDE DEF o
<1>6. /\ Has(run[r]) /\ Place(r, run[r], door)
      /\ ~overlapped => Held(run[r], file) /\ Fresh(run[r], door)
    BY <1>1 DEF Sane, Processes
<1>7. Fast!TypeOK /\ run[r].of \in Fast!Sessions
    BY <1>1, <1>6 DEF Sane, Has, HasSession
<1>8. /\ LockFor(r)
      /\ run[r].hit # "other" => door'.link = r /\ door'.open = run[r].of
  <2>1. CASE Fast!Linked(r)
    <3>1. door' = Fast!Proves(run[r].of)
      BY <2>1 DEF Fast!prove
    <3>2. run[r].hit # "other" => door.channel = run[r].of.offer /\ door.dev = run[r].of.dev
      BY <1>1, <1>6 DEF Place
    <3>3. QED BY <1>7, <2>1, <3>1, <3>2, LockProves
  <2>2. CASE ~Fast!Linked(r)
    <3>1. door' = door
      BY <2>2 DEF Fast!prove
    <3>2. run[r].hit = "other"
      BY <1>1, <1>6, <2>2 DEF Place, Fast!Linked, HasSession
    <3>3. QED BY <1>7, <3>1, <3>2, LockSame
  <2>3. QED BY <2>1, <2>2
<1>9. Place(r, o, door')
    BY <1>1, <1>2, <1>5, <1>6, <1>8 DEF Place, HasSession, Opened
<1>10. Has(o) /\ (~overlapped => Held(o, file) /\ Fresh(o, door))
    BY <1>1, <1>2, <1>5, <1>6, <1>7 DEF Has, Held, Fresh, HasSession
<1>11. /\ UNCHANGED <<file, Fast!history>> /\ published' \in 0..MaxPublished
       /\ mishaps' \in 0..MaxMishaps
    BY DEF Fast!prove, Sane, Fast!TypeOK
<1>12. QED BY <1>1, <1>3, <1>4, <1>8, <1>9, <1>10, <1>11, GoesOn

LEMMA ProofLostKeeps ==
    ASSUME Fast!Parameters, Sane, NEW r \in Runs, Fast!ProofLost(r)
    PROVE  Sane'
<1> DEFINE o == [run[r] EXCEPT !.at = Fast!AfterProof(r), !.hit = "other"]
<1>1. run[r] # Fast!Idle /\ run[r] \in Fast!Active /\ run[r].at = "prove" /\ Fast!Linked(r)
    BY StageIsActive DEF Fast!ProofLost, Fast!At, Fast!Stages
<1>2. Fast!AfterProof(r) \in {"ready", "save"} /\ (Fast!AfterProof(r) = "ready" <=> run[r].path = "cached")
    BY DEF Fast!AfterProof
<1>3. o \in Fast!Active
    BY <1>1, <1>2 DEF Fast!Active, Fast!Stages, Fast!Hits
<1>4. run' = [run EXCEPT ![r] = o]
    BY DEF Fast!ProofLost
<1>5. /\ o.at = Fast!AfterProof(r) /\ o.path = run[r].path /\ o.hit = "other"
      /\ o.warm = run[r].warm /\ o.list = run[r].list /\ o.crossed = run[r].crossed
      /\ o.of = run[r].of
    BY <1>1 DEF Fast!Active
<1> HIDE DEF o
<1>6. Has(run[r]) /\ (~overlapped => Held(run[r], file))
    BY <1>1 DEF Sane, Processes
<1>7. Fast!TypeOK /\ run[r].of \in Fast!Sessions
    BY <1>1, <1>6 DEF Sane, Has, HasSession
<1>8. LockFor(r)
  <2>1. door' = door \/ door' = Fast!Proves(run[r].of)
    BY DEF Fast!ProofLost
  <2>2. QED BY <1>1, <1>7, <2>1, LockSame, LockProves
<1>9. Has(o) /\ Place(r, o, door') /\ (~overlapped => Held(o, file) /\ Fresh(o, door))
    BY <1>1, <1>2, <1>5, <1>6, <1>7 DEF Has, Place, Held, Fresh, HasSession
<1>10. UNCHANGED <<file, Fast!history>> /\ published' \in 0..MaxPublished
    BY DEF Fast!ProofLost, Sane, Fast!TypeOK
<1>11. mishaps' \in 0..MaxMishaps
    BY OneMoreFault DEF Fast!ProofLost, Fast!Fault
<1>12. QED BY <1>1, <1>3, <1>4, <1>8, <1>9, <1>10, <1>11, GoesOn

LEMMA UnlinkedKeeps ==
    ASSUME Fast!Parameters, Sane, NEW r \in Runs, Fast!Unlinked(r)
    PROVE  Sane'
<1>1. run[r] # Fast!Idle /\ 0 \in 0..1
    BY StageIsActive DEF Fast!Unlinked, Fast!At, Fast!Stages
<1>2. mishaps' \in 0..MaxMishaps
    BY DEF Fast!Unlinked, Sane, Fast!TypeOK
<1>3. CASE Fast!Throw(r, "other")
    BY <1>1, <1>2, <1>3, ThrowKeeps
<1>4. CASE Fast!End(r, "error", 0, "other")
    BY <1>1, <1>2, <1>4, ErrorKeeps
<1>5. QED BY <1>3, <1>4 DEF Fast!Unlinked

LEMMA SaveSessionKeeps ==
    ASSUME Fast!Parameters, Sane, NEW r \in Runs, Fast!saveSession(r)
    PROVE  Sane'
<1> DEFINE list == Fast!Saved(run[r].of)
           o == [run[r] EXCEPT !.at = "open", !.list = list]
<1>1. run[r] # Fast!Idle /\ run[r] \in Fast!Active /\ run[r].at = "save"
    BY StageIsActive DEF Fast!saveSession, Fast!At, Fast!Stages
<1>2. /\ Has(run[r]) /\ Place(r, run[r], door)
      /\ ~overlapped => Held(run[r], file) /\ Fresh(run[r], door)
    BY <1>1 DEF Sane, Processes
<1>3. Fast!TypeOK /\ run[r].of \in Fast!Sessions /\ run[r].path # "cached"
    BY <1>1, <1>2 DEF Sane, Has, HasSession
<1>4. Fast!load \in Seq(Fast!Sessions) /\ Distinct(Fast!load)
  <2>1. file \in Seq(Fast!Sessions) \cup {Fast!Torn} /\ Sound(file)
    BY DEF Sane, Fast!TypeOK
  <2>2. <<>> \in Seq(Fast!Sessions) /\ Distinct(<<>>)
    BY DEF Distinct
  <2>3. QED BY <2>1, <2>2 DEF Fast!load, Sound
<1>5. /\ list \in Seq(Fast!Sessions) /\ list # <<>> /\ list[1] = run[r].of
      /\ Len(list) <= MAX /\ Distinct(list)
    BY <1>3, <1>4, SavedKept
<1>6. run' = [run EXCEPT ![r] = o]
    BY DEF Fast!saveSession
<1> HIDE DEF list
<1>7. o \in Fast!Active
    BY <1>1, <1>5 DEF Fast!Active, Fast!Stages
<1>8. /\ o.at = "open" /\ o.path = run[r].path /\ o.hit = run[r].hit
      /\ o.warm = run[r].warm /\ o.list = list /\ o.crossed = run[r].crossed
      /\ o.of = run[r].of /\ o.known = run[r].known
    BY <1>1 DEF Fast!Active
<1> HIDE DEF o
<1>9. door' = door
    BY DEF Fast!saveSession
<1>10. LockFor(r)
    BY <1>3, <1>9, LockSame
<1>11. Place(r, o, door')
    BY <1>1, <1>2, <1>8, <1>9 DEF Place, HasSession, Opened
<1>12. Has(o) /\ (~overlapped => Held(o, file) /\ Fresh(o, door))
    BY <1>2, <1>3, <1>5, <1>8 DEF Has, Held, Fresh, HasSession
<1>13. /\ UNCHANGED <<file, Fast!history>> /\ published' \in 0..MaxPublished
       /\ mishaps' \in 0..MaxMishaps
    BY <1>3 DEF Fast!saveSession, Fast!TypeOK
<1>14. QED BY <1>1, <1>6, <1>7, <1>10, <1>11, <1>12, <1>13, GoesOn

\* What a step on the file leaves as it was.
LEMMA RestIsKept ==
    ASSUME Sane, NEW r \in Runs, run[r] # Fast!Idle, UNCHANGED <<door, published, Fast!history, mishaps>>
    PROVE  /\ LockFor(r) /\ door' = door /\ UNCHANGED <<overlapped, warm>>
           /\ overlapped' <=> (overlapped \/ (run[r] = Fast!Idle /\ \E q \in Runs : run[q] # Fast!Idle))
           /\ published' \in 0..MaxPublished /\ outcome' \in Fast!Ended /\ {warm', overlapped'} \subseteq BOOLEAN
           /\ starts' \in 0..MaxStarts /\ mishaps' \in 0..MaxMishaps
           /\ Fast!FallbackSucceeds' /\ Fast!NextIsOffline'
<1>1. Fast!TypeOK /\ door' = door
    BY DEF Sane
<1>2. LockFor(r)
    BY <1>1, LockSame
<1>3. UNCHANGED <<outcome, warm, overlapped, starts>>
    BY DEF Fast!history
<1>4. Fast!FallbackSucceeds' /\ Fast!NextIsOffline'
    BY <1>3 DEF Sane, Fast!FallbackSucceeds, Fast!NextIsOffline
<1>5. /\ published' \in 0..MaxPublished /\ outcome' \in Fast!Ended /\ {warm', overlapped'} \subseteq BOOLEAN
      /\ starts' \in 0..MaxStarts /\ mishaps' \in 0..MaxMishaps
    BY <1>1, <1>3 DEF Fast!TypeOK
<1>6. overlapped' <=> (overlapped \/ (run[r] = Fast!Idle /\ \E q \in Runs : run[q] # Fast!Idle))
    BY <1>3
<1>7. QED BY <1>1, <1>2, <1>3, <1>4, <1>5, <1>6

LEMMA PersistOpensKeeps ==
    ASSUME Fast!Parameters, Sane, NEW r \in Runs, Fast!persistOpens(r)
    PROVE  Sane'
<1> DEFINE o == [run[r] EXCEPT !.at = "write", !.crossed = (Fast!Writing # {})]
<1>1. run[r] # Fast!Idle /\ run[r] \in Fast!Active /\ run[r].at = "open"
    BY StageIsActive DEF Fast!persistOpens, Fast!At, Fast!Stages
<1>2. /\ Has(run[r]) /\ Place(r, run[r], door)
      /\ ~overlapped => Held(run[r], file) /\ Fresh(run[r], door)
    BY <1>1 DEF Sane, Processes
<1>3. /\ file' = Fast!Torn /\ UNCHANGED <<door, published, Fast!history, mishaps>>
      /\ run' = [s \in Runs |->
            IF s = r THEN o
            ELSE IF s \in Fast!Writing THEN [run[s] EXCEPT !.crossed = TRUE] ELSE run[s]]
    BY DEF Fast!persistOpens
<1>4. ~overlapped => Fast!Writing = {}
  <2>1. ASSUME ~overlapped, NEW s \in Runs, run[s].at = "write" PROVE FALSE
    <3>1. run[s] # Fast!Idle
      BY <2>1 DEF Fast!Idle
    <3>2. r = s
      BY <1>1, <2>1, <3>1 DEF Sane, Alone
    <3>3. QED BY <1>1, <2>1, <3>2
  <2>2. QED BY <2>1 DEF Fast!Writing, Fast!At
<1>5. (Fast!Writing # {}) \in BOOLEAN
    OBVIOUS
<1>6. o \in Fast!Active
    BY <1>1, <1>5 DEF Fast!Active, Fast!Stages
<1>7. /\ o.at = "write" /\ o.path = run[r].path /\ o.hit = run[r].hit
      /\ o.warm = run[r].warm /\ o.list = run[r].list /\ o.crossed = (Fast!Writing # {})
      /\ o.of = run[r].of /\ o.known = run[r].known
    BY <1>1 DEF Fast!Active
<1> HIDE DEF o
<1>8. \A s \in Runs \ {r} : AsBefore(s)
  <2>1. SUFFICES ASSUME NEW s \in Runs \ {r} PROVE AsBefore(s)
    OBVIOUS
  <2>2. CASE s \in Fast!Writing
    <3>1. run[s].at = "write"
      BY <2>2 DEF Fast!Writing, Fast!At
    <3>2. run[s] # Fast!Idle
      BY <3>1 DEF Fast!Idle
    <3>3. QED BY <1>3, <2>2, <3>2 DEF AsBefore
  <2>3. CASE s \notin Fast!Writing
    BY <1>3, <2>3 DEF AsBefore
  <2>4. QED BY <2>2, <2>3
<1>9. run' \in [Runs -> Fast!Active \cup {Fast!Idle}] /\ run'[r] = o
  <2>1. \A s \in Runs : run[s] \in Fast!Active \cup {Fast!Idle}
    BY DEF Sane, Fast!TypeOK
  <2>2. ASSUME NEW s \in Fast!Writing PROVE [run[s] EXCEPT !.crossed = TRUE] \in Fast!Active
    <3>1. s \in Runs /\ run[s].at = "write"
      BY DEF Fast!Writing, Fast!At
    <3>2. run[s] \in Fast!Active
      BY <3>1, StageIsActive DEF Fast!Stages
    <3>3. QED BY <3>2 DEF Fast!Active
  <2>3. QED BY <1>3, <1>6, <2>1, <2>2
<1>10. o # Fast!Idle
  <2>1. o.at # "idle"
    BY <1>7
  <2>2. QED BY <2>1 DEF Fast!Idle
<1>11. /\ LockFor(r) /\ door' = door /\ overlapped' = overlapped
       /\ overlapped' <=> (overlapped \/ (run[r] = Fast!Idle /\ \E q \in Runs : run[q] # Fast!Idle))
       /\ published' \in 0..MaxPublished /\ outcome' \in Fast!Ended /\ {warm', overlapped'} \subseteq BOOLEAN
       /\ starts' \in 0..MaxStarts /\ mishaps' \in 0..MaxMishaps
       /\ Fast!FallbackSucceeds' /\ Fast!NextIsOffline'
    BY <1>1, <1>3, RestIsKept
<1>12. file' \in Seq(Fast!Sessions) \cup {Fast!Torn} /\ Len(file') <= MAX /\ Sound(file')
    BY <1>3 DEF Sound, Fast!Torn, Fast!Parameters
<1>13. Has(o) /\ Place(r, o, door') /\ (~overlapped' => Held(o, file') /\ Fresh(o, door'))
    BY <1>1, <1>2, <1>4, <1>7, <1>11 DEF Has, Place, Held, Fresh, HasSession, Opened
<1>14. ~(\A s \in Runs : run'[s] = Fast!Idle)
    BY <1>9, <1>10
<1>15. QED BY <1>8, <1>9, <1>10, <1>11, <1>12, <1>13, <1>14, StepKeeps

LEMMA PersistWritesKeeps ==
    ASSUME Fast!Parameters, Sane, NEW r \in Runs, Fast!persistWrites(r)
    PROVE  Sane'
<1> DEFINE o == [run[r] EXCEPT !.at = "ready", !.list = <<>>, !.crossed = FALSE]
<1>1. run[r] # Fast!Idle /\ run[r] \in Fast!Active /\ run[r].at = "write"
    BY StageIsActive DEF Fast!persistWrites, Fast!At, Fast!Stages
<1>2. /\ Has(run[r]) /\ Place(r, run[r], door)
      /\ ~overlapped => Held(run[r], file) /\ Fresh(run[r], door)
    BY <1>1 DEF Sane, Processes
<1>3. /\ file' \in {run[r].list} \cup (IF run[r].crossed THEN {Fast!Torn} ELSE {})
      /\ UNCHANGED <<door, published, Fast!history, mishaps>> /\ run' = [run EXCEPT ![r] = o]
    BY DEF Fast!persistWrites
<1>4. <<>> \in Seq(Fast!Sessions) /\ Len(<<>>) <= MAX /\ Distinct(<<>>)
    BY DEF Distinct, Fast!Parameters
<1>5. o \in Fast!Active
    BY <1>1, <1>4 DEF Fast!Active, Fast!Stages
<1>6. /\ o.at = "ready" /\ o.path = run[r].path /\ o.hit = run[r].hit
      /\ o.warm = run[r].warm /\ o.list = <<>> /\ o.crossed = FALSE
      /\ o.of = run[r].of /\ o.known = run[r].known
    BY <1>1 DEF Fast!Active
<1> HIDE DEF o
<1>7. /\ run' \in [Runs -> Fast!Active \cup {Fast!Idle}] /\ run'[r] = o
      /\ \A s \in Runs \ {r} : AsBefore(s)
    BY <1>3, <1>5 DEF Sane, Fast!TypeOK, AsBefore
<1>8. o # Fast!Idle
  <2>1. o.at # "idle"
    BY <1>6
  <2>2. QED BY <2>1 DEF Fast!Idle
<1>9. /\ LockFor(r) /\ door' = door /\ overlapped' = overlapped
      /\ overlapped' <=> (overlapped \/ (run[r] = Fast!Idle /\ \E q \in Runs : run[q] # Fast!Idle))
      /\ published' \in 0..MaxPublished /\ outcome' \in Fast!Ended /\ {warm', overlapped'} \subseteq BOOLEAN
      /\ starts' \in 0..MaxStarts /\ mishaps' \in 0..MaxMishaps
      /\ Fast!FallbackSucceeds' /\ Fast!NextIsOffline'
    BY <1>1, <1>3, RestIsKept
<1>10. /\ run[r].list \in Seq(Fast!Sessions) /\ Len(run[r].list) <= MAX /\ Distinct(run[r].list)
       /\ run[r].list # <<>> /\ run[r].list[1] = run[r].of
    BY <1>1, <1>2 DEF Has, Fast!Active
<1>11. Len(Fast!Torn) <= MAX
    BY DEF Fast!Torn, Fast!Parameters
<1>12. file' \in Seq(Fast!Sessions) \cup {Fast!Torn} /\ Len(file') <= MAX /\ Sound(file')
    BY <1>3, <1>10, <1>11 DEF Sound
<1>13. ~overlapped' => file' # <<>> /\ file'[1] = run[r].of
    BY <1>2, <1>3, <1>9, <1>10 DEF Held
<1>14. Has(o) /\ Place(r, o, door') /\ (~overlapped' => Held(o, file') /\ Fresh(o, door'))
    BY <1>1, <1>2, <1>4, <1>6, <1>9, <1>13 DEF Has, Place, Held, Fresh, HasSession, Opened
<1>15. ~(\A s \in Runs : run'[s] = Fast!Idle)
    BY <1>7, <1>8
<1>16. QED BY <1>7, <1>8, <1>9, <1>12, <1>14, <1>15, StepKeeps

LEMMA PersistFailsKeeps ==
    ASSUME Fast!Parameters, Sane, NEW r \in Runs, Fast!PersistFails(r)
    PROVE  Sane'
<1>1. run[r] # Fast!Idle /\ 0 \in 0..1
    BY StageIsActive DEF Fast!PersistFails, Fast!At, Fast!Stages
<1>2. mishaps' \in 0..MaxMishaps
    BY OneMoreFault DEF Fast!PersistFails, Fast!Fault
<1>3. QED BY <1>1, <1>2, ErrorKeeps DEF Fast!PersistFails

\* A process that is ready, and that no fault but those of the replay has hit, is obeyed.
LEMMA ReadyIsObeyed ==
    ASSUME Sane, NEW r \in Runs, Fast!At(r, "ready")
    PROVE  /\ run[r] # Fast!Idle /\ run[r].hit \in Fast!Hits
           /\ run[r].hit # "other" => Fast!Linked(r) /\ Fast!Obeys(r)
<1>1. run[r] # Fast!Idle /\ run[r] \in Fast!Active /\ run[r].at = "ready"
    BY StageIsActive DEF Fast!At, Fast!Stages
<1>2. Place(r, run[r], door)
    BY <1>1 DEF Sane, Processes
<1>3. QED BY <1>1, <1>2 DEF Place, Fast!Active, Fast!Linked, Fast!Obeys, HasSession, Opened

LEMMA WarmedKeeps ==
    ASSUME Fast!Parameters, Sane, NEW r \in Runs, Fast!Warmed(r)
    PROVE  Sane'
<1>1. run[r] # Fast!Idle /\ run[r].hit \in Fast!Hits
    BY ReadyIsObeyed DEF Fast!Warmed
<1>2. /\ Fast!End(r, "ok", 0, run[r].hit) /\ run[r].mode = "warm" /\ run[r].at = "ready"
      /\ mishaps' \in 0..MaxMishaps
    BY DEF Fast!Warmed, Fast!At, Sane, Fast!TypeOK
<1>3. "ok" \in {"ok", "error"} /\ 0 \in 0..1
    OBVIOUS
<1>4. QED BY <1>1, <1>2, <1>3, EndKeeps

LEMMA OpenLockKeeps ==
    ASSUME Fast!Parameters, Sane, NEW r \in Runs, Fast!openLock(r)
    PROVE  Sane'
<1> DEFINE ran == IF Fast!Obeys(r) THEN 1 ELSE 0
<1>1. /\ run[r] # Fast!Idle /\ run[r].hit \in Fast!Hits
      /\ run[r].hit # "other" => Fast!Linked(r) /\ ran = 1
    BY ReadyIsObeyed DEF Fast!openLock
<1>2. run[r].mode = "unlock" /\ run[r].at = "ready" /\ ran \in 0..1 /\ 0 \in 0..1
    BY DEF Fast!openLock, Fast!At
<1>3. mishaps' \in 0..MaxMishaps
    BY OneMoreFault DEF Fast!openLock, Fast!Fault
<1>4. \/ Fast!End(r, "ok", ran, run[r].hit)
      \/ \E n \in {0, ran} : Fast!End(r, "error", n, "other")
      \/ ~Fast!Linked(r) /\ Fast!End(r, "error", 0, run[r].hit)
    BY DEF Fast!openLock
<1> HIDE DEF ran
<1>5. CASE Fast!End(r, "ok", ran, run[r].hit)
  <2>1. "ok" \in {"ok", "error"}
    OBVIOUS
  <2>2. QED BY <1>1, <1>2, <1>3, <1>5, <2>1, EndKeeps
<1>6. ASSUME NEW n \in {0, ran}, Fast!End(r, "error", n, "other") PROVE Sane'
    BY <1>1, <1>2, <1>3, <1>6, ErrorKeeps
<1>7. CASE ~Fast!Linked(r) /\ Fast!End(r, "error", 0, run[r].hit)
    BY <1>1, <1>2, <1>3, <1>7, ErrorKeeps
<1>8. QED BY <1>4, <1>5, <1>6, <1>7

LEMMA GetDoorLockStatusKeeps ==
    ASSUME Fast!Parameters, Sane, NEW r \in Runs, Fast!getDoorLockStatus(r)
    PROVE  Sane'
<1>1. /\ run[r] # Fast!Idle /\ run[r].hit \in Fast!Hits
      /\ run[r].hit # "other" => Fast!Obeys(r)
    BY ReadyIsObeyed DEF Fast!getDoorLockStatus
<1>2. /\ run[r].mode = "status" /\ run[r].at = "ready" /\ 0 \in 0..1
      /\ "ok" \in {"ok", "error"}
    BY DEF Fast!getDoorLockStatus, Fast!At
<1>3. mishaps' \in 0..MaxMishaps
    BY OneMoreFault DEF Fast!getDoorLockStatus, Fast!Fault
<1>4. CASE Fast!End(r, "ok", 0, run[r].hit)
    BY <1>1, <1>2, <1>3, <1>4, EndKeeps
<1>5. CASE Fast!End(r, "error", 0, "other")
    BY <1>1, <1>2, <1>3, <1>5, ErrorKeeps
<1>6. CASE ~Fast!Obeys(r) /\ Fast!End(r, "error", 0, run[r].hit)
    BY <1>1, <1>2, <1>3, <1>6, ErrorKeeps
<1>7. QED BY <1>4, <1>5, <1>6 DEF Fast!getDoorLockStatus

LEMMA KillKeeps ==
    ASSUME Fast!Parameters, Sane, NEW r \in Runs, Fast!Kill(r)
    PROVE  Sane'
<1>1. run[r] # Fast!Idle /\ 0 \in 0..1
    BY DEF Fast!Kill
<1>2. mishaps' \in 0..MaxMishaps
    BY OneMoreFault DEF Fast!Kill, Fast!Fault
<1>3. QED BY <1>1, <1>2, ErrorKeeps DEF Fast!Kill

LEMMA DropKeeps ==
    ASSUME Fast!Parameters, Sane, NEW r \in Runs, Fast!Drop(r)
    PROVE  Sane'
<1> DEFINE o == [run[r] EXCEPT !.hit = "other"]
<1>1. run[r] # Fast!Idle
    BY DEF Fast!Drop, Fast!Linked, Sane, Links, Fast!Parameters
<1>2. run[r] \in Fast!Active
    BY <1>1 DEF Sane, Fast!TypeOK
<1>3. o \in Fast!Active
    BY <1>2 DEF Fast!Active, Fast!Hits
<1>4. run' = [run EXCEPT ![r] = o]
    BY DEF Fast!Drop
<1>5. /\ o.at = run[r].at /\ o.path = run[r].path /\ o.hit = "other"
      /\ o.list = run[r].list /\ o.crossed = run[r].crossed /\ o.of = run[r].of
    BY <1>2 DEF Fast!Active
<1> HIDE DEF o
<1>6. Has(run[r]) /\ (~overlapped => Held(run[r], file))
    BY <1>1 DEF Sane, Processes
<1>7. LockFor(r)
    BY LockFreed DEF Fast!Drop, Sane
<1>8. Has(o) /\ Place(r, o, door') /\ (~overlapped => Held(o, file) /\ Fresh(o, door))
    BY <1>5, <1>6 DEF Has, Place, Held, Fresh, HasSession
<1>9. UNCHANGED <<file, Fast!history>> /\ published' \in 0..MaxPublished
    BY DEF Fast!Drop, Sane, Fast!TypeOK
<1>10. mishaps' \in 0..MaxMishaps
    BY OneMoreFault DEF Fast!Drop, Fast!Fault
<1>11. QED BY <1>1, <1>3, <1>4, <1>7, <1>8, <1>9, <1>10, GoesOn

LEMMA RotateKeeps ==
    ASSUME Fast!Parameters, Sane, Fast!Rotate
    PROVE  Sane'
<1>1. /\ door.link = NoRun /\ door.dev < MaxDoorKeys
      /\ door' = [door EXCEPT !.dev = door.dev + 1, !.open = Fast!NoSession] /\ warm' = FALSE
      /\ run' = [r \in Runs |-> IF run[r] = Fast!Idle THEN Fast!Idle ELSE [run[r] EXCEPT !.warm = FALSE]]
      /\ UNCHANGED <<file, published, outcome, overlapped, starts, mishaps>>
    BY DEF Fast!Rotate
<1>2. Fast!TypeOK /\ door \in Fast!Lock
    BY DEF Sane, Fast!TypeOK
<1>3. door' \in Fast!Lock /\ door'.link = NoRun
  <2>1. door.dev \in 1..MaxDoorKeys /\ door.dev < MaxDoorKeys /\ MaxDoorKeys \in Nat
    BY <1>1, <1>2 DEF Fast!Lock, Fast!Parameters
  <2>2. door.dev + 1 \in 1..MaxDoorKeys
    BY <2>1
  <2>3. Fast!NoSession \in Fast!Sessions \cup {Fast!NoSession}
    OBVIOUS
  <2>4. QED BY <1>1, <1>2, <2>2, <2>3 DEF Fast!Lock
<1>4. ASSUME NEW r \in Runs
      PROVE  /\ run'[r] = Fast!Idle <=> run[r] = Fast!Idle
             /\ run'[r] \in Fast!Active \cup {Fast!Idle}
             /\ run'[r] # Fast!Idle => /\ Has(run'[r]) /\ Place(r, run'[r], door')
                                       /\ ~overlapped => Held(run'[r], file) /\ Fresh(run'[r], door')
  <2>1. CASE run[r] = Fast!Idle
    BY <1>1, <2>1
  <2>2. CASE run[r] # Fast!Idle
    <3>1. run[r] \in Fast!Active
      BY <1>2, <2>2 DEF Fast!TypeOK
    <3>2. run'[r] = [run[r] EXCEPT !.warm = FALSE]
      BY <1>1, <2>2
    <3>3. /\ run'[r] \in Fast!Active /\ run'[r].warm = FALSE
          /\ run'[r].at = run[r].at /\ run'[r].path = run[r].path /\ run'[r].hit = run[r].hit
          /\ run'[r].list = run[r].list /\ run'[r].crossed = run[r].crossed
          /\ run'[r].of = run[r].of /\ run'[r].known = run[r].known
      BY <3>1, <3>2 DEF Fast!Active
    <3>4. run'[r] # Fast!Idle
      <4>1. run'[r].at # "idle"
        BY <3>3 DEF Fast!Active, Fast!Stages
      <4>2. QED BY <4>1 DEF Fast!Idle
    <3>5. Has(run[r]) /\ Place(r, run[r], door) /\ (~overlapped => Held(run[r], file))
      BY <2>2 DEF Sane, Processes
    <3>6. Has(run'[r]) /\ (~overlapped => Held(run'[r], file) /\ Fresh(run'[r], door'))
      BY <3>3, <3>5 DEF Has, Held, Fresh
    <3>7. r # NoRun
      BY DEF Fast!Parameters
    <3>8. Place(r, run'[r], door')
      BY <1>1, <1>3, <3>3, <3>5, <3>7 DEF Place, HasSession, Opened
    <3>9. QED BY <2>2, <3>3, <3>4, <3>6, <3>8
  <2>3. QED BY <2>1, <2>2
<1>5. Fast!TypeOK'
  <2>1. run' \in [Runs -> Fast!Active \cup {Fast!Idle}]
    BY <1>1, <1>4
  <2>2. QED BY <1>1, <1>2, <1>3, <2>1 DEF Fast!TypeOK
<1>6. Processes' /\ Alone' /\ Links' /\ Warmed_up'
    BY <1>1, <1>3, <1>4 DEF Sane, Processes, Alone, Links, Warmed_up
<1>7. Sound(file') /\ Fast!FallbackSucceeds' /\ Fast!NextIsOffline'
    BY <1>1 DEF Sane, Sound, Fast!FallbackSucceeds, Fast!NextIsOffline
<1>8. QED BY <1>5, <1>6, <1>7 DEF Sane

-----------------------------------------------------------------------------
(* The theorems.                                                           *)

LEMMA ToolStarts ==
    ASSUME Fast!Parameters, Fast!Init
    PROVE  Sane
<1>1. door \in Fast!Lock /\ door.link = NoRun
    BY DEF Fast!Init, Fast!Lock, Fast!Parameters
<1>2. <<>> \in Seq(Fast!Sessions) /\ Len(<<>>) <= MAX /\ Distinct(<<>>)
    BY DEF Distinct, Fast!Parameters
<1>3. outcome \in Fast!Ended /\ Fast!FallbackSucceeds /\ Fast!NextIsOffline
    BY DEF Fast!Init, Fast!Ended, Fast!Modes, Fast!Hits, Fast!FallbackSucceeds,
       Fast!NextIsOffline
<1>4. Fast!TypeOK
  <2>1. run \in [Runs -> Fast!Active \cup {Fast!Idle}]
    BY DEF Fast!Init
  <2>2. file \in Seq(Fast!Sessions) \cup {Fast!Torn} /\ Len(file) <= MAX
    BY <1>2 DEF Fast!Init
  <2>3. published \in 0..MaxPublished /\ starts \in 0..MaxStarts /\ mishaps \in 0..MaxMishaps
    BY DEF Fast!Init, Fast!Parameters
  <2>4. {warm, overlapped} \subseteq BOOLEAN
    BY DEF Fast!Init
  <2>5. QED BY <1>1, <1>3, <2>1, <2>2, <2>3, <2>4 DEF Fast!TypeOK
<1>5. Processes /\ Alone /\ Links /\ Warmed_up /\ Sound(file)
    BY <1>1, <1>2 DEF Fast!Init, Processes, Alone, Links, Warmed_up, Sound
<1>6. QED BY <1>3, <1>4, <1>5 DEF Sane

LEMMA ToolSteps ==
    ASSUME Fast!Parameters, Sane, [Fast!Next]_Fast!vars
    PROVE  Sane'
<1>1. CASE UNCHANGED Fast!vars
    BY <1>1 DEF Fast!vars, Sane, Fast!TypeOK, Processes, Alone, Links, Warmed_up,
       Fast!FallbackSucceeds,
                Fast!NextIsOffline
<1>2. CASE Fast!Rotate
    BY <1>2, RotateKeeps
<1>3. ASSUME NEW r \in Runs,
             \/ \E mode \in Fast!Modes : Fast!Start(r, mode)
             \/ Fast!Replay(r) \/ Fast!Handshake(r) \/ Fast!Save(r) \/ Fast!Action(r) \/ Fast!Fails(r)
      PROVE  Sane'
  <2>1. CASE \E mode \in Fast!Modes : Fast!Start(r, mode)
    BY <2>1, StartKeeps
  <2>2. CASE Fast!Replay(r)
    BY <2>2, ConnectKeeps, HelloReplayKeeps, ProveKeeps DEF Fast!Replay
  <2>3. CASE Fast!Handshake(r)
    BY <2>3, LoginKeeps, PublickeyKeeps, HelloKeeps, VerifyKeeps DEF Fast!Handshake
  <2>4. CASE Fast!Save(r)
    BY <2>4, SaveSessionKeeps, PersistOpensKeeps, PersistWritesKeeps DEF Fast!Save
  <2>5. CASE Fast!Action(r)
    BY <2>5, WarmedKeeps, OpenLockKeeps, GetDoorLockStatusKeeps DEF Fast!Action
  <2>6. CASE Fast!Fails(r)
    BY <2>6, CloudFailsKeeps, ScanTimeoutKeeps, DiscoverFailsKeeps, HelloTimeoutKeeps,
       ProofLostKeeps, UnlinkedKeeps, PersistFailsKeeps, KillKeeps, DropKeeps DEF Fast!Fails
  <2>7. QED BY <1>3, <2>1, <2>2, <2>3, <2>4, <2>5, <2>6
<1>4. QED BY <1>1, <1>2, <1>3 DEF Fast!Next

\* However processes of the tool interleave, and whichever faults hit them, the invariant
\* above holds.
THEOREM ToolInvariance == ToolSpec => []Sane
<1>1. Fast!Init => Sane
    BY ToolAssumption, ToolStarts
<1>2. Sane /\ [Fast!Next]_Fast!vars => Sane'
    BY ToolAssumption, ToolSteps
<1>3. QED BY <1>1, <1>2, PTL DEF ToolSpec, Fast!Spec

\* The file is a list of MAX sessions at most or cannot be read (sessionStore.ts), the lock
\* has one link, and every process is at one of its stages.
THEOREM ToolTyping == ToolSpec => []ToolTypeOK
<1>1. Sane => ToolTypeOK
    BY DEF Sane, ToolTypeOK
<1>2. QED BY <1>1, ToolInvariance, PTL

\* A process that no fault hits, or only one in the replay that the fallback to the cloud
\* is there for (ble_unlock_fast.ts:70), ends well, and the lock has opened if that was
\* asked, with any number of processes at the same time.
THEOREM FallbackHelps == ToolSpec => []FallbackSucceeds
<1>1. Sane => FallbackSucceeds
    BY DEF Sane, FallbackSucceeds
<1>2. QED BY <1>1, ToolInvariance, PTL

\* After a process that ended well the next one replays what the file has first, and does
\* not ask the cloud, if the processes run one after the other and the lock has kept its key
\* (ble_unlock_fast.ts:109).
THEOREM NextStaysOffline == ToolSpec => []NextIsOffline
<1>1. Sane => NextIsOffline
    BY DEF Sane, NextIsOffline
<1>2. QED BY <1>1, ToolInvariance, PTL

\* A file that can be read has one session at most for each key of the lock, even when two
\* processes have written it at the same time (sessionStore.ts, saveSession).
THEOREM OneForEachKey == ToolSpec => [](file # Fast!Torn => Distinct(file))
<1>1. Sane => (file # Fast!Torn => Distinct(file))
    BY DEF Sane, Sound
<1>2. QED BY <1>1, ToolInvariance, PTL
=============================================================================
