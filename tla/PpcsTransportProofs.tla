------------------------ MODULE PpcsTransportProofs ------------------------
(***************************************************************************)
(* Proofs about PpcsTransport, for any number of sendings, frames and      *)
(* lost datagrams: it implements LumiChannel, drops nothing that it has    *)
(* acknowledged, and gives up only if what it sent was lost.               *)
(***************************************************************************)
EXTENDS PpcsTransport, FiniteSets, FiniteSetTheorems, TLAPS

-----------------------------------------------------------------------------
(* The inductive invariant.                                                *)

\* What the variables hold, without the bounds.
Datagrams == [to : {"hub", "app"}, kind : {"search", "punch", "ready", "drw", "ack"},
              port : Nat, index : Nat, n : Nat]
HubState == [ports : Nat, up : SUBSET Nat, got : Nat, said : Nat,
             sent : [1..MaxReplies -> Nat], heard : SUBSET Nat]
Shape ==
    /\ at \in Calls /\ port \in Nat /\ tx \in Nat /\ sends \in Nat
    /\ hub \in HubState /\ wire \subseteq Datagrams

\* Only the frame that the caller waits for, or that it gave up, may be missing.
Counts ==
    /\ hub.got \in {tx - 1, tx}
    /\ at \notin {"write", "failed", "closed"} => hub.got = tx
    /\ at = "write" => tx > 0
    /\ at \in {"new", "search", "punch"} => tx = 0

\* The frames on their way were written, and what is acknowledged was taken in.
OnTheWay == \A m \in wire :
    /\ m.to = "hub" /\ m.kind = "drw" => m.index < tx
    /\ m.to = "app" /\ m.kind = "ack" => m.index < hub.got
    /\ m.to = "hub" => m.kind \in {"search", "punch", "drw", "ack"}

Ledger == Shape /\ Counts /\ OnTheWay

LEMMA InitLedger == Init => Ledger
  BY ParametersAssumption
  DEF Init, Ledger, Shape, Counts, OnTheWay, Calls, HubState

\* What one new datagram must satisfy for the rest to stay true.
LEMMA OneMore ==
  ASSUME NEW m \in Datagrams, Ledger, wire' \subseteq wire \cup {m},
         hub' \in HubState, hub'.got >= hub.got, tx' \in Nat, tx' >= tx,
         m.to = "hub" /\ m.kind = "drw" => m.index < tx',
         m.to = "app" /\ m.kind = "ack" => m.index < hub'.got,
         m.to = "hub" => m.kind \in {"search", "punch", "drw", "ack"}
  PROVE  wire' \subseteq Datagrams /\ OnTheWay'
  <1>1. wire' \subseteq Datagrams  BY DEF Ledger, Shape
  <1>2. ASSUME NEW k \in wire'
        PROVE /\ k.to = "hub" /\ k.kind = "drw" => k.index < tx'
              /\ k.to = "app" /\ k.kind = "ack" => k.index < hub'.got
              /\ k.to = "hub" => k.kind \in {"search", "punch", "drw", "ack"}
    <2>1. CASE k = m  BY <2>1
    <2>2. CASE k \in wire
      <3>1. k.index \in Nat /\ tx \in Nat /\ hub.got \in Nat /\ hub'.got \in Nat
        BY <2>2 DEF Ledger, Shape, Datagrams, HubState
      <3> QED  BY <2>2, <3>1 DEF Ledger, OnTheWay
    <2> QED  BY <2>1, <2>2
  <1> QED  BY <1>1, <1>2 DEF OnTheWay

\* Nothing new on its way.
LEMMA NoMore ==
  ASSUME Ledger, wire' \subseteq wire, hub' \in HubState, hub'.got >= hub.got,
         tx' \in Nat, tx' >= tx
  PROVE  wire' \subseteq Datagrams /\ OnTheWay'
  <1>1. wire' \subseteq Datagrams  BY DEF Ledger, Shape
  <1>2. ASSUME NEW k \in wire'
        PROVE /\ k.to = "hub" /\ k.kind = "drw" => k.index < tx'
              /\ k.to = "app" /\ k.kind = "ack" => k.index < hub'.got
              /\ k.to = "hub" => k.kind \in {"search", "punch", "drw", "ack"}
    <2>1. k.index \in Nat /\ tx \in Nat /\ hub.got \in Nat /\ hub'.got \in Nat
      BY DEF Ledger, Shape, Datagrams, HubState
    <2> QED  BY <2>1 DEF Ledger, OnTheWay
  <1> QED  BY <1>1, <1>2 DEF OnTheWay

-----------------------------------------------------------------------------
(* The steps of the network and the hub.                                   *)

\* A frame that is taken in is the next one, and was written.
LEMMA HubReceivesStep ==
  ASSUME Ledger, HubReceives
  PROVE  Ledger' /\ hub'.got \in {hub.got, hub.got + 1}
  <1> USE DEF Ledger
  <1>1. PICK m \in wire : HubReceives!(m)  BY DEF HubReceives
  <1>u. m.kind \in {"search", "ack"} => ~Unheard(m)  BY DEF Unheard
  <1>2. /\ m \in Datagrams /\ m.to = "hub" /\ m.index \in Nat /\ m.port \in Nat /\ m.n \in Nat
        /\ m.kind \in {"search", "punch", "drw", "ack"}
        /\ UNCHANGED <<at, port, tx, sends>>
    BY <1>1 DEF Shape, Datagrams, OnTheWay
  <1>3. /\ hub \in HubState /\ hub.got \in Nat /\ hub.ports \in Nat /\ hub.ports + 1 \in Nat
        /\ tx \in Nat
    BY DEF Shape, HubState
  <1>4. CASE m.kind = "search"
    <2>1. hub' = [hub EXCEPT !.ports = @ + 1] /\ hub' \in HubState /\ hub'.got = hub.got
      BY <1>1, <1>u, <1>3, <1>4 DEF HubState
    <2>2. wire' \subseteq wire \cup {Packet("app", "punch", hub.ports + 1, 0, 0)}
      BY <1>1, <1>u, <1>4
    <2>3. wire' \subseteq Datagrams /\ OnTheWay'
      <3> DEFINE k == Packet("app", "punch", hub.ports + 1, 0, 0)
      <3>1. k \in Datagrams /\ k.to = "app" /\ k.kind = "punch"  BY <1>3 DEF Packet, Datagrams
      <3> HIDE DEF k
      <3> QED  BY <1>2, <1>3, <2>1, <2>2, <3>1, OneMore DEF k
    <2> QED  BY <1>2, <2>1, <2>3 DEF Shape, Counts
  <1>5. CASE m.kind = "punch" /\ ~Unheard(m)
    <2>1. hub' = [hub EXCEPT !.up = @ \cup {m.port}] /\ hub' \in HubState /\ hub'.got = hub.got
      BY <1>1, <1>2, <1>3, <1>5 DEF HubState
    <2>2. wire' \subseteq wire \cup {Packet("app", "ready", m.port, 0, m.n)}
      BY <1>1, <1>5
    <2>3. wire' \subseteq Datagrams /\ OnTheWay'
      <3> DEFINE k == Packet("app", "ready", m.port, 0, m.n)
      <3>1. k \in Datagrams /\ k.to = "app" /\ k.kind = "ready"  BY <1>2 DEF Packet, Datagrams
      <3> HIDE DEF k
      <3> QED  BY <1>2, <1>3, <2>1, <2>2, <3>1, OneMore DEF k
    <2> QED  BY <1>2, <2>1, <2>3 DEF Shape, Counts
  <1>6. CASE m.kind = "drw" /\ ~Unheard(m)
    <2>0. hub' = [hub EXCEPT !.got = IF m.index = @ THEN @ + 1 ELSE @]
          /\ wire' = (wire \ {m}) \cup {Packet("app", "ack", m.port, m.index, m.n)}
      BY <1>1, <1>u, <1>6
    <2>1. /\ hub' \in HubState
          /\ hub'.got = IF m.index = hub.got THEN hub.got + 1 ELSE hub.got
      BY <1>3, <2>0 DEF HubState
    <2>2. m.index < tx /\ hub.got \in {tx - 1, tx}
      BY <1>2, <1>6 DEF OnTheWay, Counts
    <2>3. m.index < hub'.got /\ hub'.got >= hub.got /\ hub'.got \in {tx - 1, tx}
      BY <1>2, <1>3, <2>1, <2>2
    <2>4. wire' \subseteq Datagrams /\ OnTheWay'
      <3> DEFINE k == Packet("app", "ack", m.port, m.index, m.n)
      <3>1. k \in Datagrams /\ k.to = "app" /\ k.kind = "ack" /\ k.index = m.index
        BY <1>2 DEF Packet, Datagrams
      <3>2. wire' \subseteq wire \cup {k}  BY <2>0
      <3> HIDE DEF k
      <3> QED  BY <1>2, <1>3, <2>1, <2>3, <3>1, <3>2, OneMore
    <2>5. Counts'
      BY <1>2, <1>3, <2>1, <2>2, <2>3 DEF Counts
    <2> QED  BY <1>2, <1>3, <2>1, <2>4, <2>5 DEF Shape
  <1>7. CASE Unheard(m)
    <2>1. hub' = hub /\ wire' \subseteq wire  BY <1>1, <1>2, <1>u, <1>7
    <2>2. wire' \subseteq Datagrams /\ OnTheWay'  BY <1>2, <1>3, <2>1, NoMore
    <2> QED  BY <1>2, <2>1, <2>2 DEF Shape, Counts
  <1>8. CASE m.kind = "ack"
    <2>1. hub' = [hub EXCEPT !.heard = @ \cup {m.index}] /\ wire' \subseteq wire
      BY <1>1, <1>u, <1>8
    <2>2. hub' \in HubState /\ hub'.got = hub.got  BY <1>2, <1>3, <2>1 DEF HubState
    <2>3. wire' \subseteq Datagrams /\ OnTheWay'  BY <1>2, <1>3, <2>1, <2>2, NoMore
    <2> QED  BY <1>2, <2>1, <2>2, <2>3 DEF Shape, Counts
  <1> QED  BY <1>2, <1>4, <1>5, <1>6, <1>7, <1>8

\* What the hub says is no acknowledgement.
LEMMA HubSendsStep ==
  ASSUME Ledger, HubSends
  PROVE  Ledger' /\ hub'.got = hub.got
  <1> USE DEF Ledger
  <1>1. PICK r \in 1..MaxReplies : HubSends!(r)  BY DEF HubSends
  <1>2. UNCHANGED <<at, port, tx, sends>>  BY <1>1
  <1>3. /\ hub \in HubState /\ hub.got \in Nat /\ tx \in Nat /\ port \in Nat /\ r \in Nat
        /\ hub.sent[r] \in Nat
    BY ParametersAssumption DEF Shape, HubState
  <1>4. hub' \in HubState /\ hub'.got = hub.got
    <2>1. hub' = [hub EXCEPT !.said = IF r > @ THEN r ELSE @, !.sent[r] = @ + 1]  BY <1>1
    <2>2. hub.said \in Nat /\ (IF r > hub.said THEN r ELSE hub.said) \in Nat
      BY <1>3 DEF HubState
    <2>3. [hub.sent EXCEPT ![r] = @ + 1] \in [1..MaxReplies -> Nat]
      BY <1>3 DEF HubState
    <2> QED  BY <1>3, <2>1, <2>2, <2>3 DEF HubState
  <1>5. wire' \subseteq Datagrams /\ OnTheWay'
    <2> DEFINE k == Packet("app", "drw", port, r, hub.sent[r])
    <2>1. k \in Datagrams /\ k.to = "app" /\ k.kind = "drw"  BY <1>3 DEF Packet, Datagrams
    <2>2. wire' \subseteq wire \cup {k}  BY <1>1
    <2> HIDE DEF k
    <2> QED  BY <1>2, <1>3, <1>4, <2>1, <2>2, OneMore
  <1> QED  BY <1>2, <1>4, <1>5 DEF Shape, Counts

-----------------------------------------------------------------------------
(* The steps of the caller.                                                *)

\* An acknowledgement of what the hub says counts no frame.
LEMMA AcknowledgeStep ==
  ASSUME Ledger, NEW m \in wire, m.to = "app", Acknowledge(m), UNCHANGED <<hub, tx>>
  PROVE  wire' \subseteq Datagrams /\ OnTheWay'
  <1> DEFINE k == Packet("hub", "ack", m.port, m.index, m.n)
  <1>1. m \in Datagrams /\ hub \in HubState /\ hub.got \in Nat /\ tx \in Nat
    BY DEF Ledger, Shape, HubState
  <1>2. k \in Datagrams /\ k.to = "hub" /\ k.kind = "ack"
    BY <1>1 DEF Packet, Datagrams
  <1>3. wire' \subseteq wire \cup {k}  BY DEF Acknowledge
  <1> HIDE DEF k
  <1> QED  BY <1>1, <1>2, <1>3, OneMore

LEMMA SendingStep ==
  ASSUME Ledger, NEW m \in Datagrams, Sending(m), m.to = "hub",
         m.kind = "drw" => m.index < tx, m.kind \in {"search", "punch", "drw"}
  PROVE  Ledger' /\ UNCHANGED hub
  <1>1. /\ hub \in HubState /\ hub.got \in Nat /\ tx \in Nat /\ sends' \in Nat
        /\ UNCHANGED <<at, port, tx, hub>> /\ wire' \subseteq wire \cup {m}
    BY DEF Ledger, Shape, HubState, Sending
  <1>2. wire' \subseteq Datagrams /\ OnTheWay'  BY <1>1, OneMore
  <1> QED  BY <1>1, <1>2 DEF Ledger, Shape, Counts

\* An acknowledgement of the frame shows that it was taken in.
LEMMA AppStep ==
  ASSUME Ledger, App
  PROVE  Ledger' /\ UNCHANGED hub
  <1>0. /\ hub \in HubState /\ hub.got \in Nat /\ tx \in Nat /\ port \in Nat /\ sends \in Nat
        /\ at \in Calls
    BY DEF Ledger, Shape, HubState
  <1>n. ASSUME wire' \subseteq wire, UNCHANGED hub, tx' \in {tx, tx + 1}, at' \in Calls,
               port' \in Nat, sends' \in Nat, Counts'
        PROVE Ledger'
    <2>1. wire' \subseteq Datagrams /\ OnTheWay'  BY <1>0, <1>n, NoMore
    <2> QED  BY <1>0, <1>n, <2>1 DEF Ledger, Shape
  <1>1. CASE connect
    BY <1>0, <1>1, <1>n DEF connect, Goes, Ledger, Counts, Calls
  <1>2. CASE Search
    <2>1. Packet("hub", "search", 0, 0, sends) \in Datagrams
      BY <1>0 DEF Packet, Datagrams
    <2> QED  BY <1>2, <2>1, SendingStep DEF Search, Packet
  <1>3. CASE Discovered
    <2>1. PICK m \in wire : Discovered!(m)  BY <1>3 DEF Discovered
    <2>2. m.port \in Nat  BY DEF Ledger, Shape, Datagrams
    <2> QED  BY <1>0, <1>n, <2>1, <2>2 DEF Goes, Ledger, Counts, Calls
  <1>4. CASE Punch
    <2>1. Packet("hub", "punch", port, 0, sends) \in Datagrams
      BY <1>0 DEF Packet, Datagrams
    <2> QED  BY <1>4, <2>1, SendingStep DEF Punch, Packet
  <1>5. CASE Ready
    <2>1. PICK m \in wire : Ready!(m)  BY <1>5 DEF Ready
    <2> QED  BY <1>0, <1>n, <2>1 DEF Goes, Ledger, Counts, Calls
  <1>6. CASE write
    BY <1>0, <1>6, <1>n DEF write, Goes, Ledger, Counts, Calls
  <1>7. CASE Transmit
    <2>1. tx > 0 /\ tx - 1 \in Nat  BY <1>0, <1>7 DEF Transmit, Ledger, Counts
    <2>2. /\ Packet("hub", "drw", port, tx - 1, sends) \in Datagrams
          /\ Packet("hub", "drw", port, tx - 1, sends).index < tx
      BY <1>0, <2>1 DEF Packet, Datagrams
    <2> QED  BY <1>7, <2>2, SendingStep DEF Transmit, Packet
  <1>8. CASE Acknowledged
    <2>1. PICK m \in wire : Acknowledged!(m)  BY <1>8 DEF Acknowledged
    <2>2. tx - 1 < hub.got
      BY <2>1 DEF ack_contains, Ledger, OnTheWay
    <2>3. hub.got = tx  BY <1>0, <2>2 DEF Ledger, Counts
    <2> QED  BY <1>0, <1>n, <2>1, <2>3 DEF Goes, Ledger, Counts, Calls
  <1>9. CASE Meanwhile
    <2>1. PICK m \in wire : Meanwhile!(m)  BY <1>9 DEF Meanwhile
    <2>2. UNCHANGED <<at, port, tx, sends, hub>>  BY <2>1
    <2>3. wire' \subseteq Datagrams /\ OnTheWay'
      <3>1. CASE m.kind = "drw"  BY <2>1, <2>2, <3>1, AcknowledgeStep
      <3>2. CASE m.kind # "drw"  BY <1>0, <2>1, <2>2, <3>2, NoMore
      <3> QED  BY <3>1, <3>2
    <2> QED  BY <2>2, <2>3 DEF Ledger, Shape, Counts
  <1>10. CASE ReadBuffered
    BY <1>0, <1>10, <1>n DEF ReadBuffered, Ledger, Counts
  <1>11. CASE ReadWaits
    BY <1>0, <1>11, <1>n DEF ReadWaits, Reads, Goes, Ledger, Counts, Calls
  <1>12. CASE ReadReceives
    <2>1. PICK m \in wire : ReadReceives!(m)  BY <1>12 DEF ReadReceives
    <2>2. UNCHANGED <<port, tx, hub>> /\ at = "read" /\ at' = "open" /\ sends' = 0
      BY <2>1 DEF Goes
    <2>3. wire' \subseteq Datagrams /\ OnTheWay'
      <3>1. CASE m.kind = "drw"  BY <2>1, <2>2, <3>1, AcknowledgeStep
      <3>2. CASE m.kind # "drw"  BY <1>0, <2>1, <2>2, <3>2, NoMore
      <3> QED  BY <3>1, <3>2
    <2> QED  BY <1>0, <2>2, <2>3 DEF Ledger, Shape, Counts, Calls
  <1>13. CASE ReadTimesOut
    BY <1>0, <1>13, <1>n DEF ReadTimesOut, Goes, Ledger, Counts, Calls
  <1>14. CASE GiveUp
    BY <1>0, <1>14, <1>n DEF GiveUp, Ledger, Counts, Calls
  <1>15. CASE close
    <2>1. wire' \subseteq wire  BY <1>15 DEF close
    <2> QED  BY <1>0, <1>15, <1>n, <2>1 DEF close, Ledger, Counts, Calls
  <1> QED
    BY <1>1, <1>2, <1>3, <1>4, <1>5, <1>6, <1>7, <1>8, <1>9, <1>10, <1>11, <1>12, <1>13,
       <1>14, <1>15 DEF App, connect, Discovered, Ready, write, Acknowledged, Meanwhile,
       ReadBuffered, ReadWaits, ReadReceives, ReadTimesOut, GiveUp, close

LEMMA LoseStep ==
  ASSUME Ledger, Lose
  PROVE  Ledger' /\ UNCHANGED hub
  <1>1. /\ wire' \subseteq wire /\ UNCHANGED <<at, port, tx, sends, hub>>
        /\ hub \in HubState /\ hub.got \in Nat /\ tx \in Nat
    BY DEF Lose, Ledger, Shape, HubState
  <1>2. wire' \subseteq Datagrams /\ OnTheWay'  BY <1>1, NoMore
  <1> QED  BY <1>1, <1>2 DEF Ledger, Shape, Counts

LEMMA Stutter == Ledger /\ UNCHANGED vars => Ledger'
  BY DEF Ledger, Shape, Counts, OnTheWay, vars

LEMMA NextLedger == Ledger /\ [Next]_vars => Ledger'
  BY AppStep, HubReceivesStep, HubSendsStep, LoseStep, Stutter DEF Next

-----------------------------------------------------------------------------
(* The refinement.                                                         *)

LEMMA InitChannel == Init => Channel!Init
  BY DEF Init, Channel!Init

\* A step of the caller gives a frame, ends a call or is none of the channel's.
LEMMA AppChannel ==
  ASSUME Ledger, Ledger', App, UNCHANGED hub
  PROVE  [Channel!Next]_Channel!vars
  <1> USE DEF Channel!Next, Channel!vars
  <1>0. tx \in Nat /\ hub.got \in Nat /\ UNCHANGED hub.got
    BY DEF Ledger, Shape, HubState
  <1>1. CASE at' = at /\ tx' = tx
    BY <1>0, <1>1
  <1>2. CASE connect \/ Discovered \/ Ready
    <2>1. tx = 0 /\ tx' = 0
      BY <1>2 DEF connect, Discovered, Ready, Goes, Ledger, Counts
    <2>2. /\ at \in {"new", "search", "punch"} /\ at' \in {"search", "punch", "open"}
      BY <1>2 DEF connect, Discovered, Ready, Goes
    <2> QED  BY <1>0, <2>1, <2>2
  <1>3. CASE write
    <2>1. /\ at = "open" /\ at' = "write" /\ tx' = tx + 1
      BY <1>3 DEF write, Goes
    <2> QED  BY <1>0, <2>1 DEF Channel!Give
  <1>4. CASE Acknowledged
    <2>1. at = "write" /\ at' = "open" /\ tx' = tx  BY <1>4 DEF Acknowledged, Goes
    <2>2. tx > 0 /\ hub.got = tx  BY <1>0, <2>1 DEF Ledger, Counts
    <2> QED  BY <1>0, <2>1, <2>2 DEF Channel!Succeed
  <1>5. CASE ReadWaits \/ ReadReceives \/ ReadTimesOut
    <2>1. at \in {"open", "read"} /\ at' \in {"open", "read"} /\ tx' = tx
      BY <1>5 DEF ReadWaits, Reads, ReadReceives, ReadTimesOut, Goes
    <2> QED  BY <1>0, <2>1
  <1>6. CASE GiveUp
    <2>1. at \in {"search", "punch", "write"} /\ at' = "failed" /\ tx' = tx
      BY <1>6 DEF GiveUp
    <2>2. at # "write" => tx = 0  BY <2>1 DEF Ledger, Counts
    <2> QED  BY <1>0, <2>1, <2>2 DEF Channel!Fail
  <1>7. CASE close
    <2>1. at \in {"open", "failed"} /\ at' = "closed" /\ tx' = tx  BY <1>7 DEF close
    <2> QED  BY <1>0, <2>1 DEF Channel!Close
  <1> QED
    BY <1>1, <1>2, <1>3, <1>4, <1>5, <1>6, <1>7
    DEF App, Search, Punch, Transmit, Sending, Meanwhile, ReadBuffered

LEMMA NextChannel ==
  ASSUME Ledger, Ledger', [Next]_vars
  PROVE  [Channel!Next]_Channel!vars
  <1>1. CASE App  BY <1>1, AppStep, AppChannel
  <1>2. CASE HubReceives
    <2>1. hub'.got \in {hub.got, hub.got + 1} /\ UNCHANGED <<at, tx>>
      BY <1>2, HubReceivesStep DEF HubReceives
    <2>2. /\ tx \in Nat /\ hub.got \in Nat
          /\ hub'.got \in {tx - 1, tx}
      BY <2>1 DEF Ledger, Shape, HubState, Counts
    <2>3. hub'.got = hub.got \/ (hub.got < tx /\ hub'.got = hub.got + 1)
      BY <2>1, <2>2
    <2> QED  BY <2>1, <2>3 DEF Channel!Next, Channel!Arrive, Channel!vars
  <1>3. CASE HubSends
    <2>1. hub'.got = hub.got /\ UNCHANGED <<at, tx>>
      BY <1>3, HubSendsStep DEF HubSends
    <2> QED  BY <2>1 DEF Channel!vars
  <1>4. CASE Lose
    <2>1. UNCHANGED <<at, tx, hub>>  BY <1>4 DEF Lose
    <2> QED  BY <2>1 DEF Channel!vars
  <1>5. CASE UNCHANGED vars  BY <1>5 DEF vars, Channel!vars
  <1> QED  BY <1>1, <1>2, <1>3, <1>4, <1>5 DEF Next

\* What is written reaches the hub in order and once, and a write that returns has
\* reached it: the transport implements LumiChannel.
THEOREM KeepsPromise == Spec => Promise
  <1>1. Init => Ledger  BY InitLedger
  <1>2. Ledger /\ [Next]_vars => Ledger'  BY NextLedger
  <1>3. Ledger /\ Ledger' /\ [Next]_vars => [Channel!Next]_Channel!vars  BY NextChannel
  <1> QED  BY <1>1, <1>2, <1>3, InitChannel, PTL DEF Spec, Promise, Channel!Spec

-----------------------------------------------------------------------------
(* What is acknowledged is kept.                                           *)

InSeq(r, s) == \E i \in 1..Len(s) : s[i] = r

Kept ==
    /\ buf \in Seq(Nat) /\ read \in Seq(Nat)
    /\ \A r \in acked : InSeq(r, buf) \/ InSeq(r, read)
    /\ hub.heard \subseteq acked
    /\ \A m \in wire : m.to = "hub" /\ m.kind = "ack" => m.index \in acked

LEMMA InAppend ==
  ASSUME NEW s \in Seq(Nat), NEW e \in Nat
  PROVE  /\ Append(s, e) \in Seq(Nat) /\ InSeq(e, Append(s, e))
         /\ \A r : InSeq(r, s) => InSeq(r, Append(s, e))
  BY DEF InSeq

\* What leaves the buffer is what is read.
LEMMA InTail ==
  ASSUME NEW s \in Seq(Nat), s # <<>>, NEW r, InSeq(r, s)
  PROVE  r = Head(s) \/ InSeq(r, Tail(s))
  <1>1. PICK i \in 1..Len(s) : s[i] = r  BY DEF InSeq
  <1>2. CASE i = 1  BY <1>1, <1>2
  <1>3. CASE i > 1
    <2>1. i - 1 \in 1..Len(Tail(s)) /\ Tail(s)[i - 1] = s[i]  BY <1>3
    <2> QED  BY <1>1, <2>1 DEF InSeq
  <1> QED  BY <1>2, <1>3

LEMMA InConcat ==
  ASSUME NEW s \in Seq(Nat), NEW t \in Seq(Nat), NEW r, InSeq(r, s) \/ InSeq(r, t)
  PROVE  InSeq(r, s \o t)
  <1>1. CASE InSeq(r, s)
    <2>1. PICK i \in 1..Len(s) : s[i] = r  BY <1>1 DEF InSeq
    <2>2. i \in 1..Len(s \o t) /\ (s \o t)[i] = r  BY <2>1
    <2> QED  BY <2>2 DEF InSeq
  <1>2. CASE InSeq(r, t)
    <2>1. PICK i \in 1..Len(t) : t[i] = r  BY <1>2 DEF InSeq
    <2>2. Len(s) + i \in 1..Len(s \o t) /\ (s \o t)[Len(s) + i] = r  BY <2>1
    <2> QED  BY <2>2 DEF InSeq
  <1> QED  BY <1>1, <1>2

LEMMA InitKept == Init => Kept
  BY DEF Init, Kept

\* A step that acknowledges nothing, reads nothing and only adds other datagrams.
LEMMA KeptAlone ==
  ASSUME Kept, UNCHANGED <<buf, read, acked>>, hub'.heard \subseteq acked,
         \A m \in wire' \ wire : ~(m.to = "hub" /\ m.kind = "ack")
  PROVE  Kept'
  BY DEF Kept

\* An index that is acknowledged is put where read finds it, or is read.
LEMMA KeptAcknowledge ==
  ASSUME Ledger, Kept, NEW m \in wire, Acknowledge(m), UNCHANGED hub,
         \/ buf' = Append(buf, m.index) /\ read' = read
         \/ buf' = buf /\ read' = Append(read, m.index)
  PROVE  Kept'
  <1>1. m.index \in Nat  BY DEF Ledger, Shape, Datagrams
  <1>2. /\ buf' \in Seq(Nat) /\ read' \in Seq(Nat)
        /\ InSeq(m.index, buf') \/ InSeq(m.index, read')
        /\ \A r \in acked : InSeq(r, buf') \/ InSeq(r, read')
    BY <1>1, InAppend DEF Kept
  <1>3. acked' = acked \cup {m.index}  BY DEF Acknowledge
  <1>4. ASSUME NEW k \in wire', k.to = "hub", k.kind = "ack"
        PROVE  k.index \in acked'
    <2>1. CASE k \in wire  BY <1>3, <1>4, <2>1 DEF Kept
    <2>2. CASE k = Packet("hub", "ack", m.port, m.index, m.n)
      BY <1>3, <2>2 DEF Packet
    <2> QED  BY <2>1, <2>2 DEF Acknowledge
  <1> QED  BY <1>2, <1>3, <1>4 DEF Kept

LEMMA AppKept ==
  ASSUME Ledger, Kept, App, UNCHANGED hub
  PROVE  Kept'
  <1>h. hub'.heard \subseteq acked  BY DEF Kept
  <1>1. CASE connect \/ Discovered \/ Ready \/ write \/ Acknowledged \/ ReadWaits
             \/ ReadTimesOut \/ GiveUp \/ close
    <2>1. UNCHANGED <<buf, read, acked>> /\ wire' \subseteq wire
      BY <1>1 DEF connect, Discovered, Ready, write, Acknowledged, ReadWaits, ReadTimesOut,
                  GiveUp, close
    <2> QED  BY <1>h, <2>1, KeptAlone
  <1>2. CASE Search \/ Punch \/ Transmit
    <2>1. PICK k \in {Packet("hub", "search", 0, 0, sends), Packet("hub", "punch", port, 0, sends),
                      Packet("hub", "drw", port, tx - 1, sends)} : Sending(k)
      BY <1>2 DEF Search, Punch, Transmit
    <2>2. k.kind # "ack"  BY <2>1 DEF Packet
    <2>3. UNCHANGED <<buf, read, acked>> /\ wire' = wire \cup {k}  BY <2>1 DEF Sending
    <2> QED  BY <1>h, <2>2, <2>3, KeptAlone
  <1>3. CASE Meanwhile
    <2>1. PICK m \in wire : Meanwhile!(m)  BY <1>3 DEF Meanwhile
    <2>2. CASE m.kind = "drw"  BY <2>1, <2>2, KeptAcknowledge
    <2>3. CASE m.kind # "drw"
      <3>1. UNCHANGED <<buf, read, acked>> /\ wire' \subseteq wire  BY <2>1, <2>3
      <3> QED  BY <1>h, <3>1, KeptAlone
    <2> QED  BY <2>2, <2>3
  <1>4. CASE ReadBuffered
    <2>1. /\ buf # <<>> /\ read' = Append(read, Head(buf)) /\ buf' = Tail(buf)
          /\ UNCHANGED <<acked, hub, wire>>
      BY <1>4 DEF ReadBuffered
    <2>2. buf \in Seq(Nat) /\ read \in Seq(Nat) /\ Head(buf) \in Nat /\ Tail(buf) \in Seq(Nat)
      BY <2>1 DEF Kept
    <2>3. /\ read' \in Seq(Nat) /\ InSeq(Head(buf), read')
          /\ \A r : InSeq(r, read) => InSeq(r, read')
      BY <2>1, <2>2, InAppend
    <2>4. \A r \in acked : InSeq(r, buf') \/ InSeq(r, read')
      BY <2>1, <2>2, <2>3, InTail DEF Kept
    <2> QED  BY <2>1, <2>2, <2>3, <2>4 DEF Kept
  <1>5. CASE ReadReceives
    <2>1. PICK m \in wire : ReadReceives!(m)  BY <1>5 DEF ReadReceives
    <2>2. CASE m.kind = "drw"  BY <2>1, <2>2, KeptAcknowledge
    <2>3. CASE m.kind # "drw"
      <3>1. /\ UNCHANGED <<buf, acked, hub>> /\ wire' \subseteq wire
            /\ read' = Append(read, 0)
        BY <2>1, <2>3
      <3>2. read' \in Seq(Nat) /\ \A r : InSeq(r, read) => InSeq(r, read')
        BY <3>1, InAppend DEF Kept
      <3> QED  BY <3>1, <3>2 DEF Kept
    <2> QED  BY <2>2, <2>3
  <1> QED  BY <1>1, <1>2, <1>3, <1>4, <1>5 DEF App

\* The hub hears of nothing that was not acknowledged.
LEMMA HubKept ==
  ASSUME Ledger, Kept, HubReceives
  PROVE  Kept'
  <1>1. PICK m \in wire : HubReceives!(m)  BY DEF HubReceives
  <1>u. m.kind \in {"search", "ack"} => ~Unheard(m)  BY DEF Unheard
  <1>2. /\ m.to = "hub" /\ m.kind \in {"search", "punch", "drw", "ack"} /\ hub \in HubState
        /\ UNCHANGED <<buf, read, acked>>
    BY <1>1 DEF Ledger, Shape, OnTheWay
  <1>3. hub'.heard \subseteq acked
    <2>1. CASE m.kind = "ack"
      <3>1. hub' = [hub EXCEPT !.heard = @ \cup {m.index}]  BY <1>1, <2>1
      <3>2. hub'.heard = hub.heard \cup {m.index}  BY <1>2, <3>1 DEF HubState
      <3> QED  BY <1>2, <2>1, <3>2 DEF Kept
    <2>2. CASE m.kind # "ack"
      <3>1. hub'.heard = hub.heard
        BY <1>1, <1>2, <2>2 DEF HubState
      <3> QED  BY <3>1 DEF Kept
    <2> QED  BY <2>1, <2>2
  <1>4. \A k \in wire' \ wire : ~(k.to = "hub" /\ k.kind = "ack")
    <2>1. ASSUME NEW k \in wire', k \notin wire
          PROVE  k.to = "app"
      <3>1. CASE Unheard(m)  BY <1>1, <1>2, <1>u, <2>1, <3>1
      <3>2. CASE m.kind = "search"  BY <1>1, <1>u, <2>1, <3>2 DEF Packet
      <3>3. CASE m.kind = "punch" /\ ~Unheard(m)  BY <1>1, <2>1, <3>3 DEF Packet
      <3>4. CASE m.kind = "drw" /\ ~Unheard(m)  BY <1>1, <2>1, <3>4 DEF Packet
      <3>5. CASE m.kind = "ack"  BY <1>1, <1>u, <2>1, <3>5
      <3> QED  BY <1>2, <3>1, <3>2, <3>3, <3>4, <3>5
    <2> QED  BY <2>1
  <1> QED  BY <1>2, <1>3, <1>4, KeptAlone

LEMMA HubSendsKept ==
  ASSUME Ledger, Kept, HubSends
  PROVE  Kept'
  <1>1. PICK r \in 1..MaxReplies : HubSends!(r)  BY DEF HubSends
  <1>2. hub' = [hub EXCEPT !.said = IF r > @ THEN r ELSE @, !.sent[r] = @ + 1]
        /\ hub \in HubState
    BY <1>1 DEF Ledger, Shape
  <1>3. hub'.heard = hub.heard  BY <1>2 DEF HubState
  <1>4. UNCHANGED <<buf, read, acked>>  BY <1>1
  <1>5. \A k \in wire' \ wire : k.to = "app"  BY <1>1 DEF Packet
  <1> QED  BY <1>3, <1>4, <1>5, KeptAlone DEF Kept

LEMMA NextKept == Ledger /\ Kept /\ [Next]_vars => Kept'
  <1> SUFFICES ASSUME Ledger, Kept, [Next]_vars PROVE Kept'
    OBVIOUS
  <1>1. CASE App  BY <1>1, AppStep, AppKept
  <1>2. CASE HubReceives  BY <1>2, HubKept
  <1>3. CASE HubSends  BY <1>3, HubSendsKept
  <1>4. CASE Lose
    <2>1. UNCHANGED <<buf, read, acked, hub>> /\ wire' \subseteq wire  BY <1>4 DEF Lose
    <2> QED  BY <2>1, KeptAlone DEF Kept
  <1>5. CASE UNCHANGED vars  BY <1>5 DEF vars, Kept
  <1> QED  BY <1>1, <1>2, <1>3, <1>4, <1>5 DEF Next

LEMMA KeptImplies == Kept => AckedIsKept
  <1> SUFFICES ASSUME Kept, NEW r \in acked
               PROVE  InSeq(r, buf \o read)
    BY DEF AckedIsKept, Kept, InSeq
  <1> QED  BY InConcat DEF Kept

\* What the hub has been told has arrived is in the buffer or was read.
THEOREM NothingDropped == Spec => []AckedIsKept
  <1>1. Init => Ledger /\ Kept  BY InitLedger, InitKept
  <1>2. Ledger /\ Kept /\ [Next]_vars => (Ledger /\ Kept)'  BY NextLedger, NextKept
  <1> QED  BY <1>1, <1>2, KeptImplies, PTL DEF Spec

-----------------------------------------------------------------------------
(* A call that gives up has lost all it sent.                              *)

\* What is on its way of what the caller waits for.
Awaited == {m \in wire : Current(m)}

\* Every sending of a phase has a number of its own, which its answer repeats, and
\* nobody sends again what is on its way.
Placed(m) ==
    /\ at = "search" => \/ m.kind = "search" /\ m.to = "hub" /\ m.n < sends
                        \/ m.kind = "punch" /\ m.to = "app"
    /\ at = "punch" /\ (m.kind = "ready" \/ (m.kind = "punch" /\ m.to = "hub")) => m.n < sends
    /\ at = "write" /\ Current(m) => m.n < sends /\ m.port = port
    /\ m.kind = "punch" /\ m.to = "app" => m.port <= hub.ports
    /\ m.kind = "punch" /\ m.to = "hub" =>
         m.index = 0 /\ Packet("app", "ready", m.port, 0, m.n) \notin wire
    /\ m.kind = "drw" /\ m.to = "hub" =>
         Packet("app", "ack", m.port, m.index, m.n) \notin wire

Numbered ==
    /\ IsFiniteSet(wire) /\ lost \in Nat
    /\ at = "new" => wire = {}
    /\ \A m \in wire : Placed(m)

\* Each of the sendings of this phase is lost, or it or its answer is on its way.
Owed ==
    /\ at \in {"search", "punch", "write"} => sends <= lost + Cardinality(Awaited)
    /\ FailsOnlyWhenLost

Balance == Numbered /\ Owed

LEMMA InitBalance == Init => Balance
  BY FS_EmptySet DEF Init, Balance, Numbered, Owed, FailsOnlyWhenLost

\* Whether a datagram is waited for does not change within a phase.
LEMMA SamePhase ==
  ASSUME UNCHANGED <<at, port, tx>>
  PROVE  Awaited' = {m \in wire' : Current(m)}
  BY DEF Awaited, Current

LEMMA Finite ==
  ASSUME IsFiniteSet(wire)
  PROVE  IsFiniteSet(Awaited) /\ Cardinality(Awaited) \in Nat
  <1>1. Awaited \in SUBSET wire  BY DEF Awaited
  <1>2. IsFiniteSet(Awaited)  BY <1>1, FS_Subset
  <1> QED  BY <1>2, FS_CardinalityType

\* One datagram more.
LEMMA Added ==
  ASSUME IsFiniteSet(wire), UNCHANGED <<at, port, tx>>, NEW k, k \notin wire,
         wire' = wire \cup {k}
  PROVE  /\ IsFiniteSet(wire')
         /\ Cardinality(Awaited') = Cardinality(Awaited) + (IF Current(k) THEN 1 ELSE 0)
  <1>1. IsFiniteSet(wire')  BY FS_AddElement
  <1>2. IsFiniteSet(Awaited) /\ Cardinality(Awaited) \in Nat /\ k \notin Awaited
    BY Finite DEF Awaited
  <1>3. CASE Current(k)
    <2>1. Awaited' = Awaited \cup {k}  BY <1>3, SamePhase DEF Awaited
    <2> QED  BY <1>1, <1>2, <1>3, <2>1, FS_AddElement
  <1>4. CASE ~Current(k)
    <2>1. Awaited' = Awaited  BY <1>4, SamePhase DEF Awaited
    <2> QED  BY <1>1, <1>2, <1>4, <2>1
  <1> QED  BY <1>3, <1>4

\* One datagram less.
LEMMA Taken ==
  ASSUME IsFiniteSet(wire), UNCHANGED <<at, port, tx>>, NEW m \in wire, wire' = wire \ {m}
  PROVE  /\ IsFiniteSet(wire')
         /\ Cardinality(Awaited') = Cardinality(Awaited) - (IF Current(m) THEN 1 ELSE 0)
  <1>1. IsFiniteSet(wire')  BY FS_RemoveElement
  <1>2. IsFiniteSet(Awaited) /\ Cardinality(Awaited) \in Nat  BY Finite
  <1>3. CASE Current(m)
    <2>1. Awaited' = Awaited \ {m} /\ m \in Awaited  BY <1>3, SamePhase DEF Awaited
    <2> QED  BY <1>1, <1>2, <1>3, <2>1, FS_RemoveElement
  <1>4. CASE ~Current(m)
    <2>1. Awaited' = Awaited  BY <1>4, SamePhase DEF Awaited
    <2> QED  BY <1>1, <1>2, <1>4, <2>1
  <1> QED  BY <1>3, <1>4

\* An answer takes the place of what it answers.
LEMMA Exchanged ==
  ASSUME IsFiniteSet(wire), UNCHANGED <<at, port, tx>>, NEW m \in wire, NEW k, k \notin wire,
         wire' = (wire \ {m}) \cup {k}, Current(m) => Current(k)
  PROVE  /\ IsFiniteSet(wire')
         /\ Cardinality(Awaited') \in Nat /\ Cardinality(Awaited') >= Cardinality(Awaited)
  <1>1. IsFiniteSet(wire')
    <2>1. IsFiniteSet(wire \ {m})  BY FS_RemoveElement
    <2> QED  BY <2>1, FS_AddElement
  <1>2. IsFiniteSet(Awaited) /\ Cardinality(Awaited) \in Nat  BY Finite
  <1>3. IsFiniteSet(Awaited') /\ Cardinality(Awaited') \in Nat
    <2>1. Awaited' \in SUBSET wire'  BY DEF Awaited
    <2>2. IsFiniteSet(Awaited')  BY <1>1, <2>1, FS_Subset
    <2> QED  BY <2>2, FS_CardinalityType
  <1>4. CASE Current(m)
    <2> DEFINE R == Awaited \ {m}
    <2>1. Awaited' = R \cup {k} /\ m \in Awaited /\ k \notin R
      BY <1>4, SamePhase DEF Awaited
    <2>2. IsFiniteSet(R) /\ Cardinality(R) = Cardinality(Awaited) - 1
      BY <1>2, <2>1, FS_RemoveElement
    <2>3. Cardinality(R \cup {k}) = Cardinality(R) + 1
      <3> HIDE DEF R
      <3> QED  BY <2>1, <2>2, FS_AddElement
    <2>4. Cardinality(Awaited') = Cardinality(Awaited)
      <3> HIDE DEF R
      <3> QED  BY <1>2, <2>1, <2>2, <2>3
    <2> QED  BY <1>1, <1>2, <1>3, <2>4
  <1>5. CASE ~Current(m)
    <2>1. Awaited \in SUBSET Awaited'  BY <1>5, SamePhase DEF Awaited
    <2>2. Cardinality(Awaited) <= Cardinality(Awaited')  BY <1>3, <2>1, FS_Subset
    <2> QED  BY <1>1, <1>2, <1>3, <2>2
  <1> QED  BY <1>4, <1>5

\* A datagram stays placed if what comes is not its answer.
LEMMA StillPlaced ==
  ASSUME Ledger, Numbered, UNCHANGED <<at, port, tx>>, sends' \in {sends, sends + 1},
         hub'.ports \in Nat, hub'.ports >= hub.ports,
         NEW k, wire' \subseteq wire \cup {k}, NEW x \in wire,
         x.kind = "punch" /\ x.to = "hub" => k # Packet("app", "ready", x.port, 0, x.n),
         x.kind = "drw" /\ x.to = "hub" => k # Packet("app", "ack", x.port, x.index, x.n)
  PROVE  Placed(x)'
  <1>1. /\ x.n \in Nat /\ x.port \in Nat /\ x.index \in Nat /\ sends \in Nat
        /\ hub.ports \in Nat /\ tx \in Nat
    BY DEF Ledger, Shape, Datagrams, HubState
  <1>2. Placed(x)  BY DEF Numbered
  <1>3. Current(x)' = Current(x)  BY DEF Current
  <1> QED  BY <1>1, <1>2, <1>3 DEF Placed

\* A step within a phase that neither sends nor loses what is waited for.
LEMMA Steady ==
  ASSUME Ledger, Balance, UNCHANGED <<at, port, tx, sends, lost>>, IsFiniteSet(wire'),
         Cardinality(Awaited') \in Nat, Cardinality(Awaited') >= Cardinality(Awaited),
         at = "new" => wire' = {}, \A x \in wire' : Placed(x)'
  PROVE  Balance'
  <1>1. sends \in Nat /\ lost \in Nat /\ Cardinality(Awaited) \in Nat
    BY Finite DEF Ledger, Shape, Balance, Numbered
  <1>2. FailsOnlyWhenLost'  BY DEF Balance, Owed, FailsOnlyWhenLost
  <1> QED  BY <1>1, <1>2 DEF Balance, Numbered, Owed

\* A datagram that is not waited for disappears.
LEMMA Unneeded ==
  ASSUME Ledger, Balance, UNCHANGED <<at, port, tx, sends, lost>>, hub'.ports = hub.ports,
         NEW m \in wire, ~Current(m), wire' = wire \ {m}
  PROVE  Balance'
  <1>1. IsFiniteSet(wire') /\ Cardinality(Awaited') = Cardinality(Awaited)
        /\ Cardinality(Awaited) \in Nat
    BY Taken, Finite DEF Balance, Numbered
  <1>2. hub.ports \in Nat /\ at # "new"  BY DEF Ledger, Shape, HubState, Balance, Numbered
  <1>3. \A x \in wire' : Placed(x)'
    <2> SUFFICES ASSUME NEW x \in wire' PROVE Placed(x)'
      OBVIOUS
    <2>1. Placed(x) /\ (Current(x)' = Current(x))  BY DEF Balance, Numbered, Current
    <2> QED  BY <2>1 DEF Placed
  <1> QED  BY <1>1, <1>2, <1>3, Steady

\* An answer that is itself not answered takes the place of a datagram.
LEMMA Replaced ==
  ASSUME Ledger, Balance, UNCHANGED <<at, port, tx, sends, lost>>,
         hub'.ports \in Nat, hub'.ports >= hub.ports,
         NEW m \in wire, NEW k, k \notin wire, wire' = (wire \ {m}) \cup {k},
         Current(m) => Current(k), Placed(k)',
         \A x \in wire \ {m} :
            /\ x.kind = "punch" /\ x.to = "hub" => k # Packet("app", "ready", x.port, 0, x.n)
            /\ x.kind = "drw" /\ x.to = "hub" => k # Packet("app", "ack", x.port, x.index, x.n)
  PROVE  Balance'
  <1>1. /\ IsFiniteSet(wire')
        /\ Cardinality(Awaited') \in Nat /\ Cardinality(Awaited') >= Cardinality(Awaited)
    BY Exchanged DEF Balance, Numbered
  <1>2. at # "new"  BY DEF Balance, Numbered
  <1>3. sends \in Nat  BY DEF Ledger, Shape
  <1>4. \A x \in wire' : Placed(x)'
    <2> SUFFICES ASSUME NEW x \in wire', x # k PROVE Placed(x)'
      OBVIOUS
    <2>1. x \in wire \ {m}  OBVIOUS
    <2> QED  BY <1>3, <2>1, StillPlaced DEF Balance
  <1> QED  BY <1>1, <1>2, <1>4, Steady

\* What is lost is counted, if it was waited for.
LEMMA LostBalance ==
  ASSUME Ledger, Balance, UNCHANGED <<at, port, tx, sends, hub>>, NEW m \in wire,
         wire' = wire \ {m}, lost' = IF Current(m) THEN lost + 1 ELSE lost
  PROVE  Balance'
  <1>1. CASE ~Current(m)
    <2>1. lost' = lost  BY <1>1
    <2> QED  BY <1>1, <2>1, Unneeded
  <1>2. CASE Current(m)
    <2>1. /\ IsFiniteSet(wire') /\ Cardinality(Awaited') = Cardinality(Awaited) - 1
          /\ Cardinality(Awaited) \in Nat
      BY <1>2, Taken, Finite DEF Balance, Numbered
    <2>2. lost \in Nat /\ sends \in Nat /\ lost' = lost + 1
      BY <1>2 DEF Balance, Numbered, Ledger, Shape
    <2>3. \A x \in wire' : Placed(x)'
      <3> SUFFICES ASSUME NEW x \in wire' PROVE Placed(x)'
        OBVIOUS
      <3>1. Placed(x) /\ (Current(x)' = Current(x))  BY DEF Balance, Numbered, Current
      <3> QED  BY <3>1 DEF Placed
    <2>4. at \in {"search", "punch", "write"}  BY <1>2 DEF Current
    <2> QED
      BY <2>1, <2>2, <2>3, <2>4 DEF Balance, Numbered, Owed, FailsOnlyWhenLost
  <1> QED  BY <1>1, <1>2

LEMMA HubReceivesBalance ==
  ASSUME Ledger, Balance, HubReceives
  PROVE  Balance'
  <1>1. PICK m \in wire : HubReceives!(m)  BY DEF HubReceives
  <1>u. m.kind \in {"search", "ack"} => ~Unheard(m)  BY DEF Unheard
  <1>2. /\ m \in Datagrams /\ m.to = "hub" /\ m.index \in Nat /\ m.port \in Nat /\ m.n \in Nat
        /\ m.kind \in {"search", "punch", "drw", "ack"}
        /\ UNCHANGED <<at, port, tx, sends>> /\ Placed(m)
    BY <1>1 DEF Ledger, Shape, Datagrams, OnTheWay, Balance, Numbered
  <1>3. hub \in HubState /\ hub.ports \in Nat /\ hub.ports + 1 \in Nat
    BY DEF Ledger, Shape, HubState
  <1>4. CASE m.kind = "search"
    <2>0. PICK k : k = Packet("app", "punch", hub.ports + 1, 0, 0)
      OBVIOUS
    <2>1. hub'.ports = hub.ports + 1 /\ wire' = (wire \ {m}) \cup {k} /\ lost' = lost
      BY <1>1, <1>u, <1>3, <1>4, <2>0 DEF HubState
    <2>2. k.kind = "punch" /\ k.to = "app" /\ k.port = hub.ports + 1
      BY <2>0 DEF Packet
    <2>3. k \notin wire
      <3>1. k \in wire => Placed(k)  BY DEF Balance, Numbered
      <3> QED  BY <1>3, <2>2, <3>1 DEF Placed
    <2>4. Current(m) => Current(k)  BY <1>4, <2>2 DEF Current
    <2>5. Placed(k)'
      <3>1. ~(at = "write" /\ Current(k))'  BY <2>2 DEF Current
      <3> QED  BY <1>3, <2>1, <2>2, <3>1 DEF Placed
    <2>6. hub'.ports \in Nat /\ hub'.ports >= hub.ports  BY <1>3, <2>1
    <2>7. \A x \in wire \ {m} :
            /\ x.kind = "punch" /\ x.to = "hub" => k # Packet("app", "ready", x.port, 0, x.n)
            /\ x.kind = "drw" /\ x.to = "hub" => k # Packet("app", "ack", x.port, x.index, x.n)
      BY <2>2 DEF Packet
    <2> QED  BY <1>2, <2>1, <2>3, <2>4, <2>5, <2>6, <2>7, Replaced
  <1>5. CASE m.kind = "punch" /\ ~Unheard(m)
    <2> DEFINE k == Packet("app", "ready", m.port, 0, m.n)
    <2>1. hub'.ports = hub.ports /\ wire' = (wire \ {m}) \cup {k} /\ lost' = lost
      BY <1>1, <1>3, <1>5 DEF HubState
    <2>2. k.kind = "ready" /\ k.to = "app" /\ k.port = m.port /\ k.n = m.n  BY DEF Packet
    <2>3. k \notin wire /\ m.index = 0  BY <1>2, <1>5 DEF Placed
    <2>4. Current(m) => Current(k)  BY <1>2, <1>5, <2>2 DEF Current
    <2>5. Placed(k)'
      <3>1. ~(at = "write" /\ Current(k))'  BY <2>2 DEF Current
      <3>2. at # "search"  BY <1>2, <1>5 DEF Placed
      <3>3. at = "punch" => m.n < sends  BY <1>2, <1>5 DEF Placed
      <3> QED  BY <1>2, <2>1, <2>2, <3>1, <3>2, <3>3 DEF Placed
    <2>6. \A x \in wire \ {m} :
            /\ x.kind = "punch" /\ x.to = "hub" => k # Packet("app", "ready", x.port, 0, x.n)
            /\ x.kind = "drw" /\ x.to = "hub" => k # Packet("app", "ack", x.port, x.index, x.n)
      <3> SUFFICES ASSUME NEW x \in wire, x # m
                   PROVE  /\ x.kind = "punch" /\ x.to = "hub" => k # Packet("app", "ready", x.port, 0, x.n)
                          /\ x.kind = "drw" /\ x.to = "hub" => k # Packet("app", "ack", x.port, x.index, x.n)
        OBVIOUS
      <3>1. x \in Datagrams /\ Placed(x)  BY DEF Ledger, Shape, Balance, Numbered
      <3>2. ASSUME x.kind = "punch", x.to = "hub", k = Packet("app", "ready", x.port, 0, x.n)
            PROVE  FALSE
        <4>1. x.port = m.port /\ x.n = m.n /\ x.index = 0  BY <3>1, <3>2, <2>2 DEF Packet, Placed
        <4> QED  BY <1>2, <1>5, <2>3, <3>1, <3>2, <4>1 DEF Datagrams
      <3> QED  BY <3>2 DEF Packet
    <2> HIDE DEF k
    <2> QED  BY <1>2, <1>3, <2>1, <2>3, <2>4, <2>5, <2>6, Replaced
  <1>6. CASE m.kind = "drw" /\ ~Unheard(m)
    <2> DEFINE k == Packet("app", "ack", m.port, m.index, m.n)
    <2>1. hub'.ports = hub.ports /\ wire' = (wire \ {m}) \cup {k} /\ lost' = lost
      BY <1>1, <1>3, <1>6 DEF HubState
    <2>2. k.kind = "ack" /\ k.to = "app" /\ k.port = m.port /\ k.n = m.n /\ k.index = m.index
      BY DEF Packet
    <2>3. k \notin wire  BY <1>2, <1>6 DEF Placed
    <2>4. Current(m) => Current(k)  BY <1>2, <1>6, <2>2 DEF Current
    <2>5. Placed(k)'
      <3>1. at # "search"  BY <1>2, <1>6 DEF Placed
      <3>2. Current(k)' => Current(m) \/ at # "write"  BY <1>2, <1>6, <2>2 DEF Current
      <3>3. at = "write" /\ Current(m) => m.n < sends /\ m.port = port  BY <1>2 DEF Placed
      <3> QED  BY <1>2, <2>1, <2>2, <3>1, <3>2, <3>3 DEF Placed
    <2>6. \A x \in wire \ {m} :
            /\ x.kind = "punch" /\ x.to = "hub" => k # Packet("app", "ready", x.port, 0, x.n)
            /\ x.kind = "drw" /\ x.to = "hub" => k # Packet("app", "ack", x.port, x.index, x.n)
      <3> SUFFICES ASSUME NEW x \in wire, x # m
                   PROVE  /\ x.kind = "punch" /\ x.to = "hub" => k # Packet("app", "ready", x.port, 0, x.n)
                          /\ x.kind = "drw" /\ x.to = "hub" => k # Packet("app", "ack", x.port, x.index, x.n)
        OBVIOUS
      <3>1. x \in Datagrams  BY DEF Ledger, Shape
      <3>2. ASSUME x.kind = "drw", x.to = "hub", k = Packet("app", "ack", x.port, x.index, x.n)
            PROVE  FALSE
        <4>1. x.port = m.port /\ x.n = m.n /\ x.index = m.index  BY <3>2, <2>2 DEF Packet
        <4> QED  BY <1>2, <1>6, <3>1, <3>2, <4>1 DEF Datagrams
      <3> QED  BY <3>2 DEF Packet
    <2> HIDE DEF k
    <2> QED  BY <1>2, <1>3, <2>1, <2>3, <2>4, <2>5, <2>6, Replaced
  <1>7. CASE Unheard(m)
    <2>1. hub' = hub /\ wire' = wire \ {m} /\ lost' = IF Current(m) THEN lost + 1 ELSE lost
      BY <1>1, <1>2, <1>u, <1>7
    <2> QED  BY <1>2, <2>1, LostBalance
  <1>8. CASE m.kind = "ack"
    <2>1. hub'.ports = hub.ports /\ wire' = wire \ {m} /\ lost' = lost
      BY <1>1, <1>u, <1>3, <1>8 DEF HubState
    <2>2. ~Current(m)  BY <1>2, <1>8 DEF Current
    <2> QED  BY <1>2, <2>1, <2>2, Unneeded
  <1> QED  BY <1>2, <1>4, <1>5, <1>6, <1>7, <1>8

\* What is never answered, and nobody waits for, changes nothing.
Aside(k) == (k.kind = "ack" /\ k.to = "hub") \/ (k.kind = "drw" /\ k.to = "app")

LEMMA AsideBalance ==
  ASSUME Ledger, Balance, UNCHANGED <<at, port, tx, sends, lost>>, hub'.ports = hub.ports,
         at \notin {"new", "search"}, NEW k, Aside(k),
         IsFiniteSet(wire'), wire' \subseteq wire \cup {k}, Awaited \subseteq wire'
  PROVE  Balance'
  <1>1. ~Current(k)  BY DEF Aside, Current
  <1>2. Awaited' = Awaited  BY <1>1, SamePhase DEF Awaited
  <1>3. Cardinality(Awaited) \in Nat  BY Finite DEF Balance, Numbered
  <1>4. hub.ports \in Nat /\ sends \in Nat  BY DEF Ledger, Shape, HubState
  <1>5. \A x \in wire' : Placed(x)'
    <2> SUFFICES ASSUME NEW x \in wire' PROVE Placed(x)'
      OBVIOUS
    <2>1. CASE x \in wire
      <3>1. /\ k # Packet("app", "ready", x.port, 0, x.n)
            /\ k # Packet("app", "ack", x.port, x.index, x.n)
        BY DEF Aside, Packet
      <3> QED  BY <1>4, <2>1, <3>1, StillPlaced DEF Balance
    <2>2. CASE x = k
      <3>1. ~Current(k)'  BY <1>1 DEF Current
      <3> QED  BY <2>2, <3>1 DEF Aside, Placed
    <2> QED  BY <2>1, <2>2
  <1> QED  BY <1>2, <1>3, <1>5, Steady

LEMMA HubSendsBalance ==
  ASSUME Ledger, Balance, hub.said <= hub.got, HubSends
  PROVE  Balance'
  <1>1. PICK r \in 1..MaxReplies : HubSends!(r)  BY DEF HubSends
  <1>2. /\ hub \in HubState /\ hub.got \in Nat /\ hub.said \in Nat /\ tx \in Nat
        /\ r \in Nat /\ r > 0 /\ at \in Calls
    BY ParametersAssumption DEF Ledger, Shape, HubState
  <1>3. at \notin {"new", "search"}
    <2>1. hub.got > 0  BY <1>1, <1>2
    <2> QED  BY <1>2, <2>1 DEF Ledger, Counts
  <1>4. PICK k : k = Packet("app", "drw", port, r, hub.sent[r])
    OBVIOUS
  <1>5. hub'.ports = hub.ports
    <2>1. hub' = [hub EXCEPT !.said = IF r > @ THEN r ELSE @, !.sent[r] = @ + 1]  BY <1>1
    <2> QED  BY <1>2, <2>1 DEF HubState
  <1>6. wire' = wire \cup {k} /\ UNCHANGED <<at, port, tx, sends, lost>>  BY <1>1, <1>4
  <1>7. IsFiniteSet(wire')  BY <1>6, FS_AddElement DEF Balance, Numbered
  <1>8. Aside(k)  BY <1>4 DEF Aside, Packet
  <1>9. Awaited \subseteq wire'  BY <1>6 DEF Awaited
  <1> QED  BY <1>3, <1>5, <1>6, <1>7, <1>8, <1>9, AsideBalance

\* Another sending has a number that none had.
LEMMA SendingBalance ==
  ASSUME Ledger, Balance, NEW k, Sending(k), k \notin wire, Current(k),
         k.to = "hub", k.n = sends, k.kind \in {"search", "punch", "drw"},
         k.kind = "search" => at = "search",
         k.kind = "punch" => at = "punch" /\ k.index = 0
                             /\ Packet("app", "ready", k.port, 0, k.n) \notin wire,
         k.kind = "drw" => at = "write" /\ k.port = port
                           /\ Packet("app", "ack", k.port, k.index, k.n) \notin wire
  PROVE  Balance'
  <1>1. /\ UNCHANGED <<at, port, tx, hub, lost>> /\ sends' = sends + 1 /\ wire' = wire \cup {k}
    BY DEF Sending
  <1>2. /\ IsFiniteSet(wire') /\ Cardinality(Awaited') = Cardinality(Awaited) + 1
        /\ Cardinality(Awaited) \in Nat
    BY <1>1, Added, Finite DEF Balance, Numbered
  <1>3. /\ sends \in Nat /\ lost \in Nat /\ hub.ports \in Nat
    BY DEF Ledger, Shape, HubState, Balance, Numbered
  <1>4. at \in {"search", "punch", "write"}  BY DEF Current
  <1>5. \A x \in wire' : Placed(x)'
    <2> SUFFICES ASSUME NEW x \in wire' PROVE Placed(x)'
      OBVIOUS
    <2>1. CASE x \in wire
      <3>1. /\ k # Packet("app", "ready", x.port, 0, x.n)
            /\ k # Packet("app", "ack", x.port, x.index, x.n)
        BY DEF Packet
      <3> QED  BY <1>1, <1>3, <2>1, <3>1, StillPlaced DEF Balance
    <2>2. CASE x = k
      <3>1. /\ Packet("app", "ready", k.port, 0, k.n) # k
            /\ Packet("app", "ack", k.port, k.index, k.n) # k
        BY DEF Packet
      <3> QED  BY <1>1, <1>3, <1>4, <2>2, <3>1 DEF Placed
    <2> QED  BY <1>1, <2>1, <2>2
  <1> QED
    BY <1>1, <1>2, <1>3, <1>4, <1>5 DEF Balance, Numbered, Owed, FailsOnlyWhenLost

\* The next phase has sent nothing, and nothing of what it waits for is on its way, but
\* for a punch.
LEMMA PhaseBalance ==
  ASSUME Ledger, Balance, hub' = hub, IsFiniteSet(wire'), sends' \in Nat, lost' \in Nat,
         NEW k, Aside(k), wire' \subseteq wire \cup {k},
         at' \in {"search", "punch", "write"} => sends' = 0,
         at' # "new", at' = "search" => wire' = {},
         at' = "punch" => \A x \in wire' : ~(x.kind = "ready" \/ (x.kind = "punch" /\ x.to = "hub")),
         at' = "write" => \A x \in wire' : ~Current(x)',
         FailsOnlyWhenLost'
  PROVE  Balance'
  <1>1. Cardinality(Awaited') \in Nat
    <2>1. Awaited' \in SUBSET wire'  BY DEF Awaited
    <2>2. IsFiniteSet(Awaited')  BY <2>1, FS_Subset
    <2> QED  BY <2>2, FS_CardinalityType
  <1>2. \A x \in wire' : Placed(x)'
    <2> SUFFICES ASSUME NEW x \in wire' PROVE Placed(x)'
      OBVIOUS
    <2>1. CASE x \in wire
      <3>1. /\ k # Packet("app", "ready", x.port, 0, x.n)
            /\ k # Packet("app", "ack", x.port, x.index, x.n)
        BY DEF Aside, Packet
      <3> QED  BY <2>1, <3>1 DEF Balance, Numbered, Placed
    <2>2. CASE x = k  BY <2>2 DEF Aside, Placed
    <2> QED  BY <2>1, <2>2
  <1> QED  BY <1>1, <1>2 DEF Balance, Numbered, Owed

\* A phase that begins with nothing new on its way.
LEMMA NewPhase ==
  ASSUME Ledger, Balance, hub' = hub, wire' \subseteq wire, sends' \in Nat, lost' \in Nat,
         at' \in {"search", "punch", "write"} => sends' = 0,
         at' # "new", at' = "search" => wire' = {},
         at' = "punch" => \A x \in wire' : ~(x.kind = "ready" \/ (x.kind = "punch" /\ x.to = "hub")),
         at' = "write" => \A x \in wire' : ~Current(x)',
         FailsOnlyWhenLost'
  PROVE  Balance'
  <1> DEFINE k == Packet("hub", "ack", 0, 0, 0)
  <1>1. Aside(k)  BY DEF Aside, Packet
  <1>2. IsFiniteSet(wire')
    <2>1. wire' \in SUBSET wire  OBVIOUS
    <2> QED  BY <2>1, FS_Subset DEF Balance, Numbered
  <1> HIDE DEF k
  <1> QED  BY <1>1, <1>2, PhaseBalance

LEMMA SameBalance ==
  ASSUME Balance, UNCHANGED <<at, port, tx, sends, hub, wire, lost>>
  PROVE  Balance'
  <1>1. \A x : Current(x)' = Current(x)  BY DEF Current
  <1>2. Awaited' = Awaited  BY <1>1 DEF Awaited
  <1>3. \A x \in wire' : Placed(x)'  BY <1>1 DEF Balance, Numbered, Placed
  <1> QED  BY <1>2, <1>3 DEF Balance, Numbered, Owed, FailsOnlyWhenLost

\* Of one sending of a frame there is only one datagram on its way: it or its answer.
LEMMA OneLate ==
  ASSUME Ledger, Balance, Awaited # {},
         \A x \in Awaited : at = "write" /\ x.n = Sends - 1
  PROVE  at = "write" /\ Cardinality(Awaited) = 1
  <1>1. PICK a \in Awaited : TRUE  OBVIOUS
  <1>2. at = "write"  BY <1>1
  <1>3. ASSUME NEW x \in Awaited
        PROVE  /\ x \in wire /\ Placed(x) /\ x.port = port /\ x.index = tx - 1
               /\ x.n = Sends - 1
               /\ \/ x.kind = "drw" /\ x = Packet("hub", "drw", port, tx - 1, Sends - 1)
                  \/ x.kind = "ack" /\ x = Packet("app", "ack", port, tx - 1, Sends - 1)
    <2>1. x \in wire /\ x \in Datagrams /\ Current(x) /\ Placed(x)
      BY DEF Awaited, Ledger, Shape, Balance, Numbered
    <2>2. x.port = port /\ x.index = tx - 1 /\ x.n = Sends - 1
      BY <1>2, <2>1 DEF Placed, Current
    <2>3. (x.kind = "drw" /\ x.to = "hub") \/ (x.kind = "ack" /\ x.to = "app")
      BY <1>2, <2>1 DEF Current, Datagrams
    <2>4. x = Packet(x.to, x.kind, x.port, x.index, x.n)  BY <2>1 DEF Packet, Datagrams
    <2> QED  BY <2>1, <2>2, <2>3, <2>4
  <1>4. ASSUME NEW x \in Awaited PROVE x = a
    <2>1. x.kind = a.kind
      <3>1. ASSUME NEW y \in Awaited, NEW z \in Awaited, y.kind = "drw", z.kind = "ack"
            PROVE  FALSE
        <4>1. y.to = "hub" /\ y.kind = "drw"  BY <1>3, <3>1 DEF Packet
        <4>2. z = Packet("app", "ack", y.port, y.index, y.n)  BY <1>3, <3>1
        <4> QED  BY <1>3, <4>1, <4>2 DEF Placed
      <3> QED  BY <1>3, <3>1
    <2> QED  BY <1>3, <2>1
  <1>5. Awaited = {a}  BY <1>4
  <1> QED  BY <1>2, <1>5, FS_Singleton

LEMMA AppBalance ==
  ASSUME Ledger, Balance, App, UNCHANGED hub
  PROVE  Balance'
  <1>0. /\ tx \in Nat /\ port \in Nat /\ sends \in Nat /\ lost \in Nat /\ hub.got \in Nat
        /\ at \in Calls /\ Sends \in Nat /\ IsFiniteSet(wire)
    BY ParametersAssumption DEF Ledger, Shape, HubState, Balance, Numbered
  <1>1. CASE connect
    BY <1>0, <1>1, NewPhase DEF connect, Goes, Balance, Numbered, FailsOnlyWhenLost
  <1>2. CASE Search
    <2>1. PICK k : k = Packet("hub", "search", 0, 0, sends)  OBVIOUS
    <2>2. /\ k.kind = "search" /\ k.to = "hub" /\ k.n = sends  BY <2>1 DEF Packet
    <2>3. k \notin wire
      <3>1. k \in wire => Placed(k)  BY DEF Balance, Numbered
      <3> QED  BY <1>0, <1>2, <2>2, <3>1 DEF Placed, Search
    <2>4. Current(k)  BY <1>2, <2>2 DEF Search, Current
    <2> QED  BY <1>2, <2>1, <2>2, <2>3, <2>4, SendingBalance DEF Search
  <1>3. CASE Discovered
    <2>1. PICK m \in wire : Discovered!(m)  BY <1>3 DEF Discovered
    <2>2. \A x \in wire' : ~(x.kind = "ready" \/ (x.kind = "punch" /\ x.to = "hub"))
      BY <2>1 DEF Balance, Numbered, Placed
    <2> QED  BY <1>0, <2>1, <2>2, NewPhase DEF Goes, FailsOnlyWhenLost
  <1>4. CASE Punch
    <2>1. PICK k : k = Packet("hub", "punch", port, 0, sends)  OBVIOUS
    <2>2. /\ k.kind = "punch" /\ k.to = "hub" /\ k.n = sends /\ k.port = port /\ k.index = 0
      BY <2>1 DEF Packet
    <2>3. k \notin wire
      <3>1. k \in wire => Placed(k)  BY DEF Balance, Numbered
      <3> QED  BY <1>0, <1>4, <2>2, <3>1 DEF Placed, Punch
    <2>4. Current(k)  BY <1>4, <2>2 DEF Punch, Current
    <2>5. Packet("app", "ready", k.port, 0, k.n) \notin wire
      <3>1. PICK r : r = Packet("app", "ready", k.port, 0, k.n)  OBVIOUS
      <3>2. r.kind = "ready" /\ r.n = sends  BY <2>2, <3>1 DEF Packet
      <3>3. r \in wire => Placed(r)  BY DEF Balance, Numbered
      <3> QED  BY <1>0, <1>4, <3>1, <3>2, <3>3 DEF Placed, Punch
    <2> QED  BY <1>4, <2>1, <2>2, <2>3, <2>4, <2>5, SendingBalance DEF Punch
  <1>5. CASE Ready
    <2>1. PICK m \in wire : Ready!(m)  BY <1>5 DEF Ready
    <2> QED  BY <1>0, <2>1, NewPhase DEF Goes, FailsOnlyWhenLost
  <1>6. CASE write
    <2>1. UNCHANGED wire /\ tx' = tx + 1 /\ sends' = 0 /\ lost' = 0 /\ at = "open"
          /\ at' = "write"
      BY <1>6 DEF write, Goes
    <2>2. FailsOnlyWhenLost'  BY <2>1 DEF FailsOnlyWhenLost
    <2>3. \A x \in wire' : ~Current(x)'
      <3> SUFFICES ASSUME NEW x \in wire, Current(x)'
                   PROVE  FALSE
        BY <2>1
      <3>1. x.index = tx /\ hub.got = tx
        BY <1>0, <2>1 DEF Current, Ledger, Counts
      <3>2. (x.kind = "drw" /\ x.to = "hub") \/ (x.kind = "ack" /\ x.to = "app")
        <4>1. x \in Datagrams  BY DEF Ledger, Shape
        <4> QED  BY <2>1, <4>1 DEF Current, Datagrams
      <3> QED  BY <1>0, <3>1, <3>2 DEF Ledger, OnTheWay
    <2> QED  BY <1>0, <2>1, <2>2, <2>3, NewPhase
  <1>7. CASE Transmit
    <2>1. PICK k : k = Packet("hub", "drw", port, tx - 1, sends)  OBVIOUS
    <2>2. /\ k.kind = "drw" /\ k.to = "hub" /\ k.n = sends /\ k.index = tx - 1 /\ k.port = port
      BY <2>1 DEF Packet
    <2>3. Current(k) /\ at = "write"  BY <1>7, <2>2 DEF Transmit, Current
    <2>4. k \notin wire
      <3>1. k \in wire => Placed(k)  BY DEF Balance, Numbered
      <3> QED  BY <1>0, <2>2, <2>3, <3>1 DEF Placed
    <2>5. Packet("app", "ack", k.port, k.index, k.n) \notin wire
      <3>1. PICK r : r = Packet("app", "ack", k.port, k.index, k.n)  OBVIOUS
      <3>2. r.kind = "ack" /\ r.to = "app" /\ r.n = sends /\ r.index = tx - 1
        BY <2>2, <3>1 DEF Packet
      <3>3. r \in wire => Placed(r)  BY DEF Balance, Numbered
      <3>4. Current(r)  BY <2>3, <3>2 DEF Current
      <3> QED  BY <1>0, <2>3, <3>1, <3>2, <3>3, <3>4 DEF Placed
    <2> QED  BY <1>7, <2>1, <2>2, <2>3, <2>4, <2>5, SendingBalance DEF Transmit
  <1>8. CASE Acknowledged
    <2>1. PICK m \in wire : Acknowledged!(m)  BY <1>8 DEF Acknowledged
    <2> QED  BY <1>0, <2>1, NewPhase DEF Goes, FailsOnlyWhenLost
  <1>9. CASE Meanwhile
    <2>1. PICK m \in wire : Meanwhile!(m)  BY <1>9 DEF Meanwhile
    <2>2. UNCHANGED <<at, port, tx, sends, hub, lost>> /\ at = "write" /\ m.to = "app"
      BY <2>1
    <2>3. ~Current(m)  BY <2>1, <2>2 DEF Current, ack_contains
    <2>4. CASE m.kind = "drw"
      <3>1. PICK k : k = Packet("hub", "ack", m.port, m.index, m.n)  OBVIOUS
      <3>2. Aside(k)  BY <3>1 DEF Aside, Packet
      <3>3. wire' = (wire \ {m}) \cup {k}  BY <2>1, <2>4, <3>1 DEF Acknowledge
      <3>4. IsFiniteSet(wire')
        <4>1. IsFiniteSet(wire \ {m})  BY <1>0, FS_RemoveElement
        <4> QED  BY <3>3, <4>1, FS_AddElement
      <3>5. Awaited \subseteq wire'  BY <2>3, <3>3 DEF Awaited
      <3>6. wire' \subseteq wire \cup {k}  BY <3>3
      <3>7. hub'.ports = hub.ports  BY <2>2
      <3> QED  BY <2>2, <3>2, <3>4, <3>5, <3>6, <3>7, AsideBalance
    <2>5. CASE m.kind # "drw"
      <3>1. wire' = wire \ {m} /\ hub'.ports = hub.ports  BY <2>1, <2>2, <2>5
      <3> QED  BY <2>2, <2>3, <3>1, Unneeded
    <2> QED  BY <2>4, <2>5
  <1>10. CASE ReadBuffered
    BY <1>10, SameBalance DEF ReadBuffered, Reads
  <1>11. CASE ReadWaits
    BY <1>0, <1>11, NewPhase DEF ReadWaits, Goes, FailsOnlyWhenLost
  <1>12. CASE ReadReceives
    <2>1. PICK m \in wire : ReadReceives!(m)  BY <1>12 DEF ReadReceives
    <2>2. at' = "open" /\ sends' = 0 /\ lost' = 0  BY <2>1 DEF Goes
    <2>3. CASE m.kind = "drw"
      <3>1. PICK k : k = Packet("hub", "ack", m.port, m.index, m.n)  OBVIOUS
      <3>2. Aside(k)  BY <3>1 DEF Aside, Packet
      <3>3. wire' = (wire \ {m}) \cup {k}  BY <2>1, <2>3, <3>1 DEF Acknowledge
      <3>4. IsFiniteSet(wire')
        <4>1. IsFiniteSet(wire \ {m})  BY <1>0, FS_RemoveElement
        <4> QED  BY <3>3, <4>1, FS_AddElement
      <3>5. wire' \subseteq wire \cup {k}  BY <3>3
      <3> QED  BY <2>2, <3>2, <3>4, <3>5, PhaseBalance DEF FailsOnlyWhenLost
    <2>4. CASE m.kind # "drw"
      <3>1. wire' \subseteq wire  BY <2>1, <2>4
      <3> QED  BY <2>2, <3>1, NewPhase DEF FailsOnlyWhenLost
    <2> QED  BY <2>3, <2>4
  <1>13. CASE ReadTimesOut
    BY <1>0, <1>13, NewPhase DEF ReadTimesOut, Goes, FailsOnlyWhenLost
  <1>14. CASE GiveUp
    <2>1. /\ at \in {"search", "punch", "write"} /\ sends = Sends /\ at' = "failed"
          /\ UNCHANGED <<tx, sends, wire, lost>>
          /\ \A x \in Awaited : at = "write" /\ x.n = Sends - 1
      BY <1>14 DEF GiveUp, Awaited
    <2>2. Sends <= lost + Cardinality(Awaited)  BY <2>1 DEF Balance, Owed
    <2>3. FailsOnlyWhenLost'
      <3>1. CASE Awaited = {}
        <4>1. Cardinality(Awaited) = 0  BY <3>1, FS_EmptySet
        <4> QED  BY <1>0, <2>1, <2>2, <4>1 DEF FailsOnlyWhenLost
      <3>2. CASE Awaited # {}
        <4>1. at = "write" /\ Cardinality(Awaited) = 1  BY <2>1, <3>2, OneLate
        <4>2. tx > 0  BY <4>1 DEF Ledger, Counts
        <4> QED  BY <1>0, <2>1, <2>2, <4>1, <4>2 DEF FailsOnlyWhenLost
      <3> QED  BY <3>1, <3>2
    <2> QED  BY <1>0, <2>1, <2>3, NewPhase
  <1>15. CASE close
    <2>1. wire' \subseteq wire /\ at' = "closed" /\ UNCHANGED <<sends, lost>>
      BY <1>15 DEF close
    <2> QED  BY <1>0, <2>1, NewPhase DEF FailsOnlyWhenLost
  <1> QED
    BY <1>1, <1>2, <1>3, <1>4, <1>5, <1>6, <1>7, <1>8, <1>9, <1>10, <1>11, <1>12, <1>13,
       <1>14, <1>15 DEF App

\* The hub answers what it has taken in.
LEMMA NextSaid ==
  ASSUME Ledger, hub.said <= hub.got, [Next]_vars
  PROVE  hub'.said <= hub'.got
  <1>0. hub \in HubState /\ hub.got \in Nat /\ hub.said \in Nat  BY DEF Ledger, Shape, HubState
  <1>1. CASE HubReceives
    <2>1. hub'.got \in {hub.got, hub.got + 1}  BY <1>1, HubReceivesStep
    <2>2. hub'.said = hub.said
      <3>1. PICK m \in wire : HubReceives!(m)  BY <1>1 DEF HubReceives
      <3>2. m.kind \in {"search", "punch", "drw", "ack"}
        BY <3>1 DEF Ledger, OnTheWay
      <3> QED  BY <1>0, <3>1, <3>2 DEF HubState
    <2> QED  BY <1>0, <2>1, <2>2
  <1>2. CASE HubSends
    <2>1. PICK r \in 1..MaxReplies : HubSends!(r)  BY <1>2 DEF HubSends
    <2>2. r \in Nat  BY ParametersAssumption
    <2>3. hub' = [hub EXCEPT !.said = IF r > @ THEN r ELSE @, !.sent[r] = @ + 1]  BY <2>1
    <2>4. hub'.said = (IF r > hub.said THEN r ELSE hub.said) /\ hub'.got = hub.got
      BY <1>0, <2>3 DEF HubState
    <2> QED  BY <1>0, <2>1, <2>2, <2>4
  <1>3. CASE App \/ Lose \/ UNCHANGED vars
    <2>1. hub' = hub  BY <1>3, AppStep, LoseStep DEF vars
    <2> QED  BY <1>0, <2>1
  <1> QED  BY <1>1, <1>2, <1>3 DEF Next

LEMMA NextBalance == Ledger /\ hub.said <= hub.got /\ Balance /\ [Next]_vars => Balance'
  <1> SUFFICES ASSUME Ledger, hub.said <= hub.got, Balance, [Next]_vars PROVE Balance'
    OBVIOUS
  <1>1. CASE App  BY <1>1, AppStep, AppBalance
  <1>2. CASE HubReceives  BY <1>2, HubReceivesBalance
  <1>3. CASE HubSends  BY <1>3, HubSendsBalance
  <1>4. CASE Lose
    <2>1. PICK m \in wire : Lose!(m)  BY <1>4 DEF Lose
    <2> QED  BY <2>1, LostBalance
  <1>5. CASE UNCHANGED vars  BY <1>5, SameBalance DEF vars
  <1> QED  BY <1>1, <1>2, <1>3, <1>4, <1>5 DEF Next

\* A call gives up only if all its sendings, or what came of them, were lost, of a write
\* all but perhaps the last, whatever their number.
THEOREM GivesUpOnlyOnLoss == Spec => []FailsOnlyWhenLost
  <1>1. Init => Ledger /\ hub.said <= hub.got /\ Balance
    <2>1. Init => hub.said <= hub.got  BY DEF Init
    <2> QED  BY <2>1, InitLedger, InitBalance
  <1>2. Ledger /\ hub.said <= hub.got /\ Balance /\ [Next]_vars
          => (Ledger /\ hub.said <= hub.got /\ Balance)'
    BY NextLedger, NextSaid, NextBalance
  <1>3. Balance => FailsOnlyWhenLost  BY DEF Balance, Owed
  <1> QED  BY <1>1, <1>2, <1>3, PTL DEF Spec

-----------------------------------------------------------------------------
(* Types: the bounds of what the variables hold.                           *)

\* The hub opens at most one port for each search that was sent; a known port, which it may
\* still have, spares the search.
Searches == {m \in wire : m.kind = "search"}
Searched == IF at = "new" THEN port ELSE IF at = "search" THEN sends ELSE Sends
PortsAreSearched == hub.ports + Cardinality(Searches) <= Searched

\* A datagram names a port and an index that there are; what is acknowledged, a reply.
PacketWithin(m) ==
    /\ m.port \in 0..Sends /\ m.index \in 0..MaxWrites /\ m.n \in 0..Sends
    /\ m.kind = "punch" => m.port > 0
    /\ m.kind = "drw" /\ m.to = "app" => m.index \in 1..MaxReplies
    /\ m.kind = "ack" /\ m.to = "hub" => m.index \in 1..MaxReplies
WireWithin == \A m \in wire : PacketWithin(m)

HubWithin ==
    /\ hub.up \subseteq Ports /\ hub.said \in 0..MaxReplies
    /\ hub.sent \in [1..MaxReplies -> 0..Sends] /\ hub.heard \subseteq 1..MaxReplies

CallerWithin ==
    /\ port \in 0..Sends /\ tx \in 0..MaxWrites /\ sends \in 0..Sends
    /\ buf \in Seq(1..MaxReplies) /\ read \in Seq(0..MaxReplies) /\ Len(read) <= MaxReads
    /\ acked \subseteq 1..MaxReplies /\ faults \in 0..MaxFaults
    /\ at \in {"punch", "open", "write", "read"} => port > 0
    /\ at = "read" => Len(read) < MaxReads
    /\ at = "new" => port <= 1

Within == PortsAreSearched /\ WireWithin /\ HubWithin /\ CallerWithin

LEMMA InitWithin == Init => Within
  <1> SUFFICES ASSUME Init PROVE Within
    OBVIOUS
  <1> USE ParametersAssumption
  <1>1. Searches = {}  BY DEF Init, Searches
  <1>2. PortsAreSearched  BY <1>1, FS_EmptySet DEF Init, PortsAreSearched, Searched
  <1>3. WireWithin /\ HubWithin /\ CallerWithin
    BY DEF Init, WireWithin, HubWithin, CallerWithin
  <1> QED  BY <1>2, <1>3 DEF Within

\* What is known of the state before a step.
LEMMA Bounds ==
  ASSUME Ledger, Balance, Within
  PROVE  /\ hub \in HubState /\ hub.ports \in 0..Sends /\ hub.ports \in Nat
         /\ IsFiniteSet(wire) /\ IsFiniteSet(Searches) /\ Cardinality(Searches) \in Nat
         /\ sends \in Nat /\ sends <= Sends /\ Sends \in Nat \ {0} /\ Searched \in 0..Sends
         /\ wire \subseteq Datagrams
  <1>1. IsFiniteSet(wire) /\ wire \subseteq Datagrams /\ hub \in HubState /\ hub.ports \in Nat
    BY DEF Balance, Numbered, Ledger, Shape, HubState
  <1>2. Searches \in SUBSET wire  BY DEF Searches
  <1>3. IsFiniteSet(Searches) /\ Cardinality(Searches) \in Nat
    BY <1>1, <1>2, FS_Subset, FS_CardinalityType
  <1>4. sends \in 0..Sends /\ Sends \in Nat \ {0}
    BY ParametersAssumption DEF Within, CallerWithin
  <1>5. Searched \in 0..Sends
    BY <1>4, ParametersAssumption DEF Searched, Within, CallerWithin
  <1>6. hub.ports \in 0..Sends
    BY <1>1, <1>3, <1>4, <1>5 DEF Within, PortsAreSearched
  <1> QED  BY <1>1, <1>3, <1>4, <1>5, <1>6

\* No search more.
LEMMA NoSearchMore ==
  ASSUME Ledger, Balance, Within, Searches' \subseteq Searches, hub'.ports = hub.ports,
         Searched' \in Nat, Searched' >= Searched
  PROVE  PortsAreSearched'
  <1>1. Searches' \in SUBSET Searches  OBVIOUS
  <1>2. Cardinality(Searches') <= Cardinality(Searches) /\ Cardinality(Searches') \in Nat
    BY <1>1, Bounds, FS_Subset, FS_CardinalityType
  <1> QED  BY <1>2, Bounds DEF Within, PortsAreSearched

LEMMA AppPorts ==
  ASSUME Ledger, Balance, Within, App, UNCHANGED hub
  PROVE  PortsAreSearched'
  <1> USE Bounds
  <1>1. CASE Search
    <2> DEFINE k == Packet("hub", "search", 0, 0, sends)
    <2>1. at = "search" /\ at' = at /\ sends' = sends + 1 /\ wire' = wire \cup {k}
      BY <1>1 DEF Search, Sending
    <2>2. Searches' = Searches \cup {k}
      BY <2>1 DEF Searches, Packet
    <2>3. Cardinality(Searches') <= Cardinality(Searches) + 1 /\ Cardinality(Searches') \in Nat
      <3> HIDE DEF k
      <3>1. IsFiniteSet(Searches')  BY <2>2, FS_AddElement
      <3>2. Cardinality(Searches') \in {Cardinality(Searches), Cardinality(Searches) + 1}
        BY <2>2, FS_AddElement
      <3> QED  BY <3>1, <3>2, FS_CardinalityType
    <2>4. Searched = sends /\ Searched' = sends + 1
      <3>1. at' = "search"  BY <2>1
      <3> QED  BY <2>1, <3>1 DEF Searched
    <2> QED  BY <2>3, <2>4 DEF Within, PortsAreSearched
  <1>2. CASE Punch \/ Transmit
    <2>1. PICK k \in {Packet("hub", "punch", port, 0, sends),
                      Packet("hub", "drw", port, tx - 1, sends)} : Sending(k)
      BY <1>2 DEF Punch, Transmit
    <2>2. k.kind # "search"  BY <2>1 DEF Packet
    <2>3. Searches' \subseteq Searches  BY <2>1, <2>2 DEF Searches, Sending
    <2>4. at \in {"punch", "write"} /\ at' = at  BY <1>2 DEF Punch, Transmit, Sending
    <2>5. Searched' = Sends /\ Searched = Sends  BY <2>4 DEF Searched
    <2> QED  BY <2>3, <2>5, NoSearchMore
  <1>3. CASE connect
    <2>1. /\ at = "new" /\ at' = (IF port = 0 THEN "search" ELSE "punch") /\ sends' = 0
          /\ UNCHANGED wire /\ port \in Nat /\ port <= 1
      BY <1>3 DEF connect, Goes, Within, CallerWithin, Ledger, Shape
    <2>2. Searched = port /\ Searched' = (IF port = 0 THEN 0 ELSE Sends) /\ Searches' = Searches
      BY <2>1 DEF Searched, Searches
    <2> QED  BY <2>1, <2>2, NoSearchMore
  <1>4. CASE Discovered \/ Ready \/ write \/ Acknowledged \/ Meanwhile \/ ReadBuffered
             \/ ReadWaits \/ ReadReceives \/ ReadTimesOut \/ GiveUp \/ close
    <2>1. at' \in {"punch", "open", "write", "read", "failed", "closed"}
      BY <1>4 DEF Discovered, Ready, write, Acknowledged, Meanwhile, ReadBuffered, ReadWaits,
                  ReadReceives, ReadTimesOut, GiveUp, close, Goes, Reads
    <2>2. Searched' = Sends  BY <2>1 DEF Searched
    <2>3. \A k \in wire' \ wire : k.kind # "search"
      BY <1>4 DEF Discovered, Ready, write, Acknowledged, Meanwhile, ReadBuffered, ReadWaits,
                  ReadReceives, ReadTimesOut, GiveUp, close, Acknowledge, Packet
    <2>4. Searches' \subseteq Searches  BY <2>3 DEF Searches
    <2> QED  BY <2>2, <2>4, NoSearchMore
  <1> QED  BY <1>1, <1>2, <1>3, <1>4 DEF App

LEMMA HubReceivesPorts ==
  ASSUME Ledger, Balance, Within, HubReceives
  PROVE  PortsAreSearched'
  <1> USE Bounds
  <1>1. PICK m \in wire : HubReceives!(m)  BY DEF HubReceives
  <1>u. m.kind \in {"search", "ack"} => ~Unheard(m)  BY DEF Unheard
  <1>2. /\ m.to = "hub" /\ m.kind \in {"search", "punch", "drw", "ack"}
        /\ UNCHANGED <<at, port, sends>>
    BY <1>1 DEF Ledger, OnTheWay
  <1>3. Searched' = Searched  BY <1>2 DEF Searched
  <1>4. CASE m.kind = "search"
    <2>1. /\ hub' = [hub EXCEPT !.ports = @ + 1]
          /\ wire' = (wire \ {m}) \cup {Packet("app", "punch", hub.ports + 1, 0, 0)}
      BY <1>1, <1>u, <1>4
    <2>2. hub'.ports = hub.ports + 1  BY <2>1 DEF HubState
    <2>3. Searches' = Searches \ {m} /\ m \in Searches
      BY <1>4, <2>1 DEF Searches, Packet
    <2>4. Cardinality(Searches') = Cardinality(Searches) - 1
      BY <2>3, FS_RemoveElement
    <2> QED  BY <1>3, <2>2, <2>4 DEF Within, PortsAreSearched
  <1>5. CASE m.kind # "search"
    <2>1. hub'.ports = hub.ports  BY <1>1, <1>2, <1>5 DEF HubState
    <2>2. \/ wire' \subseteq wire
          \/ wire' \subseteq wire \cup {Packet("app", "ready", m.port, 0, m.n)}
          \/ wire' \subseteq wire \cup {Packet("app", "ack", m.port, m.index, m.n)}
      <3>1. CASE m.kind = "punch" /\ ~Unheard(m)  BY <1>1, <3>1
      <3>2. CASE m.kind = "drw" /\ ~Unheard(m)  BY <1>1, <3>2
      <3>3. CASE Unheard(m)  BY <1>1, <1>2, <1>u, <3>3
      <3>4. CASE m.kind = "ack"  BY <1>1, <3>4
      <3> QED  BY <1>2, <1>5, <3>1, <3>2, <3>3, <3>4
    <2>3. Searches' \subseteq Searches  BY <2>2 DEF Searches, Packet
    <2> QED  BY <1>3, <2>1, <2>3, NoSearchMore
  <1> QED  BY <1>4, <1>5

LEMMA NextPorts ==
  ASSUME Ledger, Balance, Within, [Next]_vars
  PROVE  PortsAreSearched'
  <1>1. CASE App  BY <1>1, AppStep, AppPorts
  <1>2. CASE HubReceives  BY <1>2, HubReceivesPorts
  <1>3. CASE HubSends \/ Lose \/ UNCHANGED vars
    <2>1. UNCHANGED <<at, port, sends>> /\ hub'.ports = hub.ports
      <3>1. CASE HubSends
        <4>1. PICK r \in 1..MaxReplies : HubSends!(r)  BY <3>1 DEF HubSends
        <4>2. hub' = [hub EXCEPT !.said = IF r > @ THEN r ELSE @, !.sent[r] = @ + 1]
              /\ UNCHANGED <<at, port, sends>>
          BY <4>1
        <4> QED  BY <4>2, Bounds DEF HubState
      <3>2. CASE Lose \/ UNCHANGED vars  BY <3>2 DEF Lose, vars
      <3> QED  BY <1>3, <3>1, <3>2
    <2>2. \A k \in wire' \ wire : k.kind # "search"
      <3>1. CASE HubSends
        <4>1. PICK r \in 1..MaxReplies : HubSends!(r)  BY <3>1 DEF HubSends
        <4> QED  BY <4>1 DEF Packet
      <3>2. CASE Lose \/ UNCHANGED vars  BY <3>2 DEF Lose, vars
      <3> QED  BY <1>3, <3>1, <3>2
    <2>3. Searches' \subseteq Searches /\ Searched' = Searched
      BY <2>1, <2>2 DEF Searches, Searched
    <2> QED  BY <2>1, <2>3, Bounds, NoSearchMore
  <1> QED  BY <1>1, <1>2, <1>3 DEF Next

\* The wire, when a datagram is added.
LEMMA OneWithin ==
  ASSUME WireWithin, NEW k, PacketWithin(k), wire' \subseteq wire \cup {k}
  PROVE  WireWithin'
  BY DEF WireWithin, PacketWithin

LEMMA NoneWithin ==
  ASSUME WireWithin, wire' \subseteq wire
  PROVE  WireWithin'
  BY DEF WireWithin, PacketWithin

\* Numbers that lie within the bounds.
LEMMA Numbers ==
  /\ Sends \in Nat \ {0} /\ MaxWrites \in Nat /\ MaxReplies \in Nat /\ MaxReplies <= MaxWrites
  /\ MaxReads \in Nat /\ MaxFaults \in Nat /\ 0 \in 0..Sends /\ 0 \in 0..MaxWrites
  /\ 1..MaxReplies \subseteq 0..MaxWrites
  BY ParametersAssumption

\* What the hub says is acknowledged with the same numbers.
LEMMA AcknowledgeWithin ==
  ASSUME Within, NEW m \in wire, m.to = "app", m.kind = "drw", Acknowledge(m)
  PROVE  WireWithin' /\ acked' \subseteq 1..MaxReplies /\ m.index \in 1..MaxReplies
  <1> DEFINE k == Packet("hub", "ack", m.port, m.index, m.n)
  <1>1. PacketWithin(m) /\ m.index \in 1..MaxReplies  BY DEF Within, WireWithin, PacketWithin
  <1>2. PacketWithin(k)  BY <1>1 DEF PacketWithin, Packet
  <1>3. wire' \subseteq wire \cup {k}  BY DEF Acknowledge
  <1>4. acked' \subseteq 1..MaxReplies  BY <1>1 DEF Acknowledge, Within, CallerWithin
  <1> HIDE DEF k
  <1> QED  BY <1>1, <1>2, <1>3, <1>4, OneWithin DEF Within

LEMMA AppWithin ==
  ASSUME Ledger, Balance, Within, App, UNCHANGED hub
  PROVE  WireWithin' /\ CallerWithin'
  <1> USE Bounds, Numbers
  <1>0. WireWithin /\ CallerWithin  BY DEF Within
  <1>1. CASE Search \/ Punch \/ Transmit
    <2>1. PICK k \in {Packet("hub", "search", 0, 0, sends), Packet("hub", "punch", port, 0, sends),
                      Packet("hub", "drw", port, tx - 1, sends)} :
              /\ Sending(k)
              /\ k.kind = "punch" => at = "punch"
              /\ k.kind = "drw" => at = "write"
      BY <1>1 DEF Search, Punch, Transmit, Packet
    <2>2. sends < Sends /\ sends' = sends + 1 /\ wire' = wire \cup {k}
          /\ UNCHANGED <<at, port, tx, buf, read, acked, faults>>
      BY <2>1 DEF Sending
    <2>3. PacketWithin(k)
      <3>1. CASE k = Packet("hub", "search", 0, 0, sends)
        BY <2>2, <3>1 DEF PacketWithin, Packet
      <3>2. CASE k = Packet("hub", "punch", port, 0, sends)
        BY <1>0, <2>1, <2>2, <3>2 DEF PacketWithin, Packet, CallerWithin
      <3>3. CASE k = Packet("hub", "drw", port, tx - 1, sends)
        <4>1. at = "write"  BY <2>1, <3>3 DEF Packet
        <4>2. tx - 1 \in 0..MaxWrites  BY <1>0, <4>1 DEF Ledger, Counts, CallerWithin
        <4> QED  BY <1>0, <2>2, <3>3, <4>2 DEF PacketWithin, Packet, CallerWithin
      <3> QED  BY <2>1, <3>1, <3>2, <3>3
    <2>4. WireWithin'  BY <1>0, <2>2, <2>3, OneWithin
    <2>5. CallerWithin'  BY <1>0, <2>2 DEF CallerWithin
    <2> QED  BY <2>4, <2>5
  <1>2. CASE connect \/ Ready \/ Acknowledged \/ ReadTimesOut \/ GiveUp \/ close
    <2>1. /\ wire' \subseteq wire /\ UNCHANGED <<port, tx, buf, read, acked, faults>>
          /\ sends' = 0 \/ sends' = sends
          /\ at' \in {"search", "punch", "open", "failed", "closed"}
          /\ at' = "open" => at \in {"punch", "write", "read"}
          /\ at' = "punch" => port > 0
      BY <1>0, <1>2 DEF connect, Ready, Acknowledged, ReadTimesOut, GiveUp, close, Goes, CallerWithin
    <2>2. WireWithin'  BY <1>0, <2>1, NoneWithin
    <2>3. CallerWithin'  BY <1>0, <2>1 DEF CallerWithin
    <2> QED  BY <2>2, <2>3
  <1>3. CASE Discovered
    <2>1. PICK m \in wire : Discovered!(m)  BY <1>3 DEF Discovered
    <2>2. /\ at = "search" /\ m.to = "app" /\ wire' \subseteq wire /\ port' = m.port
          /\ sends' = 0 /\ at' = "punch" /\ UNCHANGED <<tx, buf, read, acked, faults>>
      BY <2>1 DEF Goes
    <2>3. m.kind = "punch"  BY <2>2 DEF Balance, Numbered, Placed
    <2>4. m.port \in 0..Sends /\ m.port > 0
      BY <1>0, <2>3 DEF WireWithin, PacketWithin
    <2>5. CallerWithin'  BY <1>0, <2>2, <2>4 DEF CallerWithin
    <2> QED  BY <1>0, <2>2, <2>5, NoneWithin
  <1>4. CASE write
    <2>1. /\ at = "open" /\ tx < MaxWrites /\ tx' = tx + 1 /\ at' = "write"
          /\ sends' = 0 /\ UNCHANGED <<wire, port, buf, read, acked, faults>>
      BY <1>4 DEF write, Goes
    <2>2. CallerWithin'  BY <1>0, <2>1 DEF CallerWithin
    <2> QED  BY <1>0, <2>1, <2>2, NoneWithin
  <1>5. CASE Meanwhile
    <2>1. PICK m \in wire : Meanwhile!(m)  BY <1>5 DEF Meanwhile
    <2>2. at = "write" /\ m.to = "app" /\ UNCHANGED <<at, port, tx, sends, read, faults>>
      BY <2>1
    <2>3. CASE m.kind = "drw"
      <3>1. Acknowledge(m) /\ buf' = Append(buf, m.index)  BY <2>1, <2>3
      <3>2. WireWithin' /\ acked' \subseteq 1..MaxReplies /\ m.index \in 1..MaxReplies
        BY <2>2, <2>3, <3>1, AcknowledgeWithin
      <3>3. buf' \in Seq(1..MaxReplies)  BY <1>0, <3>1, <3>2 DEF CallerWithin
      <3> QED  BY <1>0, <2>2, <3>2, <3>3 DEF CallerWithin
    <2>4. CASE m.kind # "drw"
      <3>1. wire' \subseteq wire /\ UNCHANGED <<buf, acked>>  BY <2>1, <2>4
      <3>2. CallerWithin'  BY <1>0, <2>2, <3>1 DEF CallerWithin
      <3> QED  BY <1>0, <3>1, <3>2, NoneWithin
    <2> QED  BY <2>3, <2>4
  <1>6. CASE ReadBuffered
    <2>1. /\ at = "open" /\ Len(read) < MaxReads /\ buf # <<>>
          /\ read' = Append(read, Head(buf)) /\ buf' = Tail(buf)
          /\ UNCHANGED <<at, port, tx, sends, acked, wire, faults>>
      BY <1>6 DEF ReadBuffered, Reads
    <2>2. /\ buf' \in Seq(1..MaxReplies) /\ read' \in Seq(0..MaxReplies)
          /\ Len(read') = Len(read) + 1
      <3>1. Head(buf) \in 1..MaxReplies /\ Tail(buf) \in Seq(1..MaxReplies)
        BY <1>0, <2>1 DEF CallerWithin
      <3>2. Head(buf) \in 0..MaxReplies  BY <3>1
      <3> QED  BY <1>0, <2>1, <3>1, <3>2 DEF CallerWithin
    <2>3. CallerWithin'  BY <1>0, <2>1, <2>2 DEF CallerWithin
    <2> QED  BY <1>0, <2>1, <2>3, NoneWithin
  <1>7. CASE ReadWaits
    <2>1. /\ at = "open" /\ Len(read) < MaxReads /\ at' = "read" /\ sends' = 0
          /\ UNCHANGED <<port, tx, buf, read, acked, wire, faults>>
      BY <1>7 DEF ReadWaits, Reads, Goes
    <2>2. CallerWithin'  BY <1>0, <2>1 DEF CallerWithin
    <2> QED  BY <1>0, <2>1, <2>2, NoneWithin
  <1>8. CASE ReadReceives
    <2>1. PICK m \in wire : ReadReceives!(m)  BY <1>8 DEF ReadReceives
    <2>2. /\ at = "read" /\ m.to = "app" /\ at' = "open" /\ sends' = 0
          /\ UNCHANGED <<port, tx, buf, faults>>
      BY <2>1 DEF Goes
    <2>3. ASSUME NEW n \in 0..MaxReplies, read' = Append(read, n), acked' \subseteq 1..MaxReplies
          PROVE  CallerWithin'
      <3>1. read' \in Seq(0..MaxReplies) /\ Len(read') = Len(read) + 1 /\ Len(read) < MaxReads
        BY <1>0, <2>2, <2>3 DEF CallerWithin
      <3> QED  BY <1>0, <2>2, <2>3, <3>1 DEF CallerWithin
    <2>4. CASE m.kind = "drw"
      <3>1. Acknowledge(m) /\ read' = Append(read, m.index)  BY <2>1, <2>4
      <3>2. WireWithin' /\ acked' \subseteq 1..MaxReplies /\ m.index \in 1..MaxReplies
        BY <2>2, <2>4, <3>1, AcknowledgeWithin
      <3>3. m.index \in 0..MaxReplies  BY <3>2
      <3> QED  BY <2>3, <3>1, <3>2, <3>3
    <2>5. CASE m.kind # "drw"
      <3>1. wire' \subseteq wire /\ read' = Append(read, 0) /\ UNCHANGED acked  BY <2>1, <2>5
      <3>2. 0 \in 0..MaxReplies /\ acked' \subseteq 1..MaxReplies
        BY <1>0, <3>1 DEF CallerWithin
      <3> QED  BY <1>0, <2>3, <3>1, <3>2, NoneWithin
    <2> QED  BY <2>4, <2>5
  <1> QED  BY <1>1, <1>2, <1>3, <1>4, <1>5, <1>6, <1>7, <1>8 DEF App

LEMMA HubReceivesWithin ==
  ASSUME Ledger, Balance, Within, HubReceives
  PROVE  WireWithin' /\ HubWithin'
  <1> USE Bounds, Numbers
  <1>0. WireWithin /\ HubWithin  BY DEF Within
  <1>1. PICK m \in wire : HubReceives!(m)  BY DEF HubReceives
  <1>u. m.kind \in {"search", "ack"} => ~Unheard(m)  BY DEF Unheard
  <1>2. m.to = "hub" /\ m.kind \in {"search", "punch", "drw", "ack"} /\ PacketWithin(m)
    BY <1>0, <1>1 DEF Ledger, OnTheWay, WireWithin
  <1>3. CASE m.kind = "search"
    <2> DEFINE k == Packet("app", "punch", hub.ports + 1, 0, 0)
    <2>1. hub' = [hub EXCEPT !.ports = @ + 1] /\ wire' \subseteq wire \cup {k}
      BY <1>1, <1>3
    <2>2. hub.ports + 1 \in 1..Sends
      <3>1. m \in Searches  BY <1>3 DEF Searches
      <3>2. Cardinality(Searches) # 0  BY <3>1, FS_EmptySet
      <3>3. hub.ports + Cardinality(Searches) <= Searched  BY DEF Within, PortsAreSearched
      <3> QED  BY <3>2, <3>3
    <2>3. PacketWithin(k)  BY <2>2 DEF PacketWithin, Packet
    <2>4. HubWithin'  BY <1>0, <2>1 DEF HubWithin, HubState
    <2> HIDE DEF k
    <2> QED  BY <1>0, <2>1, <2>3, <2>4, OneWithin
  <1>4. CASE m.kind = "punch" /\ ~Unheard(m)
    <2> DEFINE k == Packet("app", "ready", m.port, 0, m.n)
    <2>1. hub' = [hub EXCEPT !.up = @ \cup {m.port}] /\ wire' \subseteq wire \cup {k}
      BY <1>1, <1>u, <1>4
    <2>2. m.port \in Ports  BY <1>2, <1>4 DEF PacketWithin, Ports
    <2>3. PacketWithin(k)  BY <1>2 DEF PacketWithin, Packet
    <2>4. HubWithin'  BY <1>0, <2>1, <2>2 DEF HubWithin, HubState
    <2> HIDE DEF k
    <2> QED  BY <1>0, <2>1, <2>3, <2>4, OneWithin
  <1>5. CASE m.kind = "drw" /\ ~Unheard(m)
    <2> DEFINE k == Packet("app", "ack", m.port, m.index, m.n)
    <2>1. wire' \subseteq wire \cup {k} /\ UNCHANGED <<hub.up, hub.said, hub.sent, hub.heard>>
      BY <1>1, <1>5 DEF HubState
    <2>2. PacketWithin(k)  BY <1>2 DEF PacketWithin, Packet
    <2>3. HubWithin'  BY <1>0, <2>1 DEF HubWithin
    <2> HIDE DEF k
    <2> QED  BY <1>0, <2>1, <2>2, <2>3, OneWithin
  <1>6. CASE m.kind = "ack"
    <2>1. hub' = [hub EXCEPT !.heard = @ \cup {m.index}] /\ wire' \subseteq wire
      BY <1>1, <1>u, <1>6
    <2>2. m.index \in 1..MaxReplies  BY <1>2, <1>6 DEF PacketWithin
    <2>3. HubWithin'  BY <1>0, <2>1, <2>2 DEF HubWithin, HubState
    <2> QED  BY <1>0, <2>1, <2>3, NoneWithin
  <1>7. CASE Unheard(m)
    <2>1. hub' = hub /\ wire' \subseteq wire  BY <1>1, <1>2, <1>u, <1>7
    <2>2. HubWithin'  BY <1>0, <2>1 DEF HubWithin
    <2> QED  BY <1>0, <2>1, <2>2, NoneWithin
  <1> QED  BY <1>2, <1>3, <1>4, <1>5, <1>6, <1>7

LEMMA HubSendsWithin ==
  ASSUME Ledger, Balance, Within, HubSends
  PROVE  WireWithin' /\ HubWithin'
  <1> USE Bounds, Numbers
  <1>0. WireWithin /\ HubWithin /\ port \in 0..Sends  BY DEF Within, CallerWithin
  <1>1. PICK r \in 1..MaxReplies : HubSends!(r)  BY DEF HubSends
  <1> DEFINE k == Packet("app", "drw", port, r, hub.sent[r])
  <1>2. /\ hub.sent[r] < Sends /\ wire' \subseteq wire \cup {k}
        /\ hub' = [hub EXCEPT !.said = IF r > @ THEN r ELSE @, !.sent[r] = @ + 1]
    BY <1>1
  <1>3. hub.sent[r] \in 0..Sends /\ r \in 0..MaxWrites /\ r \in 0..MaxReplies
    BY <1>0 DEF HubWithin
  <1>4. PacketWithin(k)  BY <1>0, <1>3 DEF PacketWithin, Packet
  <1>5. HubWithin'
    <2>1. /\ hub'.said = (IF r > hub.said THEN r ELSE hub.said)
          /\ hub'.sent = [hub.sent EXCEPT ![r] = @ + 1]
          /\ hub'.up = hub.up /\ hub'.heard = hub.heard
      BY <1>2 DEF HubState
    <2>2. hub.sent[r] + 1 \in 0..Sends  BY <1>2, <1>3
    <2> QED  BY <1>0, <1>3, <2>1, <2>2 DEF HubWithin
  <1> HIDE DEF k
  <1> QED  BY <1>0, <1>2, <1>4, <1>5, OneWithin

LEMMA NextWithin == Ledger /\ Balance /\ Within /\ [Next]_vars => Within'
  <1> SUFFICES ASSUME Ledger, Balance, Within, [Next]_vars PROVE Within'
    OBVIOUS
  <1>0. WireWithin /\ HubWithin /\ CallerWithin  BY DEF Within
  <1>1. CASE App
    <2>1. UNCHANGED hub  BY <1>1, AppStep
    <2>2. HubWithin'  BY <1>0, <2>1 DEF HubWithin
    <2> QED  BY <1>1, <2>1, <2>2, AppWithin, NextPorts DEF Within
  <1>2. CASE HubReceives \/ HubSends
    <2>1. UNCHANGED <<at, port, tx, sends, buf, read, acked, faults>>
      BY <1>2 DEF HubReceives, HubSends
    <2>2. CallerWithin'  BY <1>0, <2>1 DEF CallerWithin
    <2> QED  BY <1>2, <2>2, HubReceivesWithin, HubSendsWithin, NextPorts DEF Within
  <1>3. CASE Lose \/ UNCHANGED vars
    <2>1. /\ wire' \subseteq wire /\ UNCHANGED <<at, port, tx, sends, buf, read, acked, hub>>
          /\ faults' \in 0..MaxFaults
      BY <1>0, <1>3, Numbers DEF Lose, vars, CallerWithin
    <2>2. HubWithin' /\ CallerWithin'  BY <1>0, <2>1 DEF HubWithin, CallerWithin
    <2> QED  BY <1>0, <2>1, <2>2, NoneWithin, NextPorts DEF Within
  <1> QED  BY <1>1, <1>2, <1>3 DEF Next

\* The types of the transport: among them that the hub opens no more ports than it was
\* asked for, that no index leaves the range of what was written, and that only replies
\* of the hub are acknowledged (local.py 395-433).
THEOREM Typing == Spec => []TypeOK
  <1> DEFINE TInv == Ledger /\ hub.said <= hub.got /\ Balance /\ Within
  <1>1. Init => TInv
    <2>1. Init => hub.said <= hub.got  BY DEF Init
    <2> QED  BY <2>1, InitLedger, InitBalance, InitWithin
  <1>2. TInv /\ [Next]_vars => TInv'
    BY NextLedger, NextSaid, NextBalance, NextWithin
  <1>3. TInv => TypeOK
    <2> SUFFICES ASSUME TInv PROVE TypeOK
      OBVIOUS
    <2> USE Bounds, Numbers
    <2>1. WireWithin /\ HubWithin /\ CallerWithin  BY DEF Within
    <2>2. hub.got \in 0..MaxWrites
      BY <2>1 DEF Ledger, Shape, Counts, HubState, CallerWithin
    <2>3. hub \in Hub  BY <2>1, <2>2 DEF HubWithin, HubState, Hub
    <2>4. wire \subseteq Packets
      <3>1. ASSUME NEW m \in wire PROVE m \in Packets
        BY <2>1 DEF WireWithin, PacketWithin, Datagrams, Packets
      <3> QED  BY <3>1
    <2>5. at \in Calls /\ lost \in Nat  BY DEF Ledger, Shape, Balance, Numbered
    <2> QED  BY <2>1, <2>3, <2>4, <2>5 DEF TypeOK, CallerWithin
  <1> QED  BY <1>1, <1>2, <1>3, PTL DEF Spec

=============================================================================
