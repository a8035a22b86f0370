--------------------------- MODULE PpcsTransport ---------------------------
(***************************************************************************)
(* The transport to the hub over the local network: PpcsUdpTransport of    *)
(* custom_components/aquara_local/local.py, from connect to close, as      *)
(* local_unlock and tools/local_hub_test.py use it, with the network and   *)
(* the hub around it.  Datagrams are lost and overtake each other; every   *)
(* sending of a datagram is one of its own.  Enciphering and layout are    *)
(* left out, and so are the keep-alives, which change nothing here.        *)
(***************************************************************************)
EXTENDS Integers, Sequences

CONSTANTS
    Sends,      \* sendings until a call gives up: 8 searches, 12 punches, 15 to 20 of a frame
    MaxWrites,  \* bound: frames the caller writes
    MaxReplies, \* bound: frames the hub answers
    MaxReads,   \* bound: reads of the caller
    MaxFaults   \* bound: datagrams lost

ASSUME ParametersAssumption ==
    /\ Sends \in Nat \ {0}
    /\ MaxWrites \in Nat /\ MaxReads \in Nat /\ MaxFaults \in Nat
    /\ MaxReplies \in 0..MaxWrites

VARIABLES
    at,      \* the call that the caller is in
    port,    \* _hub_port, 0 if not known
    tx,      \* _tx_index
    sends,   \* sendings of the current phase
    buf,     \* _rx_lumi
    read,    \* history: what read has returned, 0 for an empty frame
    acked,   \* _rx_indices
    hub,     \* the ports it has opened, and for each what it got and said
    wire,    \* datagrams on their way
    lost,    \* history: datagrams of the current phase that were lost or not taken
    faults   \* bound

vars == <<at, port, tx, sends, buf, read, acked, hub, wire, lost, faults>>

Ports == 1..Sends
Calls == {"new", "search", "punch", "open", "write", "read", "failed", "closed"}

Packet(to, kind, p, i, n) == [to |-> to, kind |-> kind, port |-> p, index |-> i, n |-> n]
Packets == [to : {"hub", "app"}, kind : {"search", "punch", "ready", "drw", "ack"},
            port : 0..Sends, index : 0..MaxWrites, n : 0..Sends]

\* up: the ports that were punched; got, said and heard: frames it has taken in, replies
\* it has sent, and replies that it knows to have arrived.
Hub == [ports : 0..Sends, up : SUBSET Ports, got : 0..MaxWrites, said : 0..MaxReplies,
        sent : [1..MaxReplies -> 0..Sends], heard : SUBSET (1..MaxReplies)]

TypeOK ==
    /\ at \in Calls /\ port \in 0..Sends /\ tx \in 0..MaxWrites /\ sends \in 0..Sends
    /\ buf \in Seq(1..MaxReplies) /\ read \in Seq(0..MaxReplies) /\ Len(read) <= MaxReads
    /\ acked \subseteq 1..MaxReplies
    /\ hub \in Hub /\ wire \subseteq Packets
    /\ lost \in Nat /\ faults \in 0..MaxFaults

\* The caller may know a port of an earlier session, which the hub may have closed since.
Init ==
    /\ at = "new" /\ port \in 0..1 /\ tx = 0 /\ sends = 0
    /\ buf = <<>> /\ read = <<>> /\ acked = {}
    /\ \E kept \in 0..port :
         hub = [ports |-> kept, up |-> {}, got |-> 0, said |-> 0,
                sent |-> [r \in 1..MaxReplies |-> 0], heard |-> {}]
    /\ wire = {} /\ lost = 0 /\ faults = 0

-----------------------------------------------------------------------------
(* The network and the hub.                                                *)

\* Whether a datagram belongs to what the caller waits for.
Current(m) ==
    \/ at = "search" /\ (m.kind = "search" \/ (m.kind = "punch" /\ m.to = "app"))
    \/ at = "punch" /\ m.kind \in {"punch", "ready"} /\ m.port = port
    \/ at = "write" /\ m.kind \in {"drw", "ack"} /\ m.index = tx - 1
         /\ (m.kind = "drw" <=> m.to = "hub")

Lose == \E m \in wire :
    /\ faults < MaxFaults /\ faults' = faults + 1
    /\ wire' = wire \ {m}
    /\ lost' = IF Current(m) THEN lost + 1 ELSE lost
    /\ UNCHANGED <<at, port, tx, sends, buf, read, acked, hub>>

\* Whether the port that a datagram is sent to has nobody to take it: a punch finds it
\* closed, or a frame not ready.
Unheard(m) ==
    \/ m.kind = "punch" /\ m.port > hub.ports
    \/ m.kind = "drw" /\ m.port \notin hub.up

\* A search opens a port, which the answer comes from; a punch makes an open port ready; a
\* frame on a ready port is taken in if it is the next, and acknowledged in any case.
HubReceives == \E m \in wire :
    /\ m.to = "hub"
    /\ CASE Unheard(m) ->
              UNCHANGED hub /\ wire' = wire \ {m}
         [] m.kind = "search" ->
              /\ hub' = [hub EXCEPT !.ports = @ + 1]
              /\ wire' = (wire \ {m}) \cup {Packet("app", "punch", hub.ports + 1, 0, 0)}
         [] m.kind = "punch" /\ ~Unheard(m) ->
              /\ hub' = [hub EXCEPT !.up = @ \cup {m.port}]
              /\ wire' = (wire \ {m}) \cup {Packet("app", "ready", m.port, 0, m.n)}
         [] m.kind = "drw" /\ ~Unheard(m) ->
              /\ hub' = [hub EXCEPT !.got = IF m.index = @ THEN @ + 1 ELSE @]
              /\ wire' = (wire \ {m}) \cup {Packet("app", "ack", m.port, m.index, m.n)}
         [] m.kind = "ack" ->
              /\ hub' = [hub EXCEPT !.heard = @ \cup {m.index}]
              /\ wire' = wire \ {m}
    /\ lost' = IF Unheard(m) /\ Current(m) THEN lost + 1 ELSE lost
    /\ UNCHANGED <<at, port, tx, sends, buf, read, acked, faults>>

\* It answers a frame, and repeats an answer that was not acknowledged.
HubSends == \E r \in 1..MaxReplies :
    /\ at # "closed"
    /\ \/ r = hub.said + 1 /\ r <= hub.got
       \/ r <= hub.said /\ r \notin hub.heard
    /\ hub.sent[r] < Sends
    /\ hub' = [hub EXCEPT !.said = IF r > @ THEN r ELSE @, !.sent[r] = @ + 1]
    /\ wire' = wire \cup {Packet("app", "drw", port, r, hub.sent[r])}
    /\ UNCHANGED <<at, port, tx, sends, buf, read, acked, lost, faults>>

-----------------------------------------------------------------------------
(* connect: the search for the port of a session, and the punches.         *)

\* The next phase begins with nothing sent.
Goes(call) == at' = call /\ sends' = 0 /\ lost' = 0

\* A port that is known is not searched for.
connect ==
    /\ at = "new" /\ Goes(IF port = 0 THEN "search" ELSE "punch")
    /\ UNCHANGED <<port, tx, buf, read, acked, hub, wire, faults>>

Sending(m) ==
    /\ sends < Sends /\ sends' = sends + 1
    /\ wire' = wire \cup {m}
    /\ UNCHANGED <<at, port, tx, buf, read, acked, hub, lost, faults>>

Search == at = "search" /\ Sending(Packet("hub", "search", 0, 0, sends))
Punch == at = "punch" /\ Sending(Packet("hub", "punch", port, 0, sends))

\* The first answer tells the port.
Discovered == \E m \in wire :
    /\ at = "search" /\ m.to = "app"
    /\ wire' = wire \ {m} /\ port' = m.port /\ Goes("punch")
    /\ UNCHANGED <<tx, buf, read, acked, hub, faults>>

\* A punch, from whatever port, does for an answer too.
Ready == \E m \in wire :
    /\ at = "punch" /\ sends > 0 /\ m.to = "app" /\ m.kind \in {"ready", "punch"}
    /\ wire' = wire \ {m} /\ Goes("open")
    /\ UNCHANGED <<port, tx, buf, read, acked, hub, faults>>

-----------------------------------------------------------------------------
(* write and read.                                                         *)

write ==
    /\ at = "open" /\ tx < MaxWrites /\ tx' = tx + 1 /\ Goes("write")
    /\ UNCHANGED <<port, buf, read, acked, hub, wire, faults>>

Transmit == at = "write" /\ Sending(Packet("hub", "drw", port, tx - 1, sends))

\* Defective variant: any acknowledgement will do.
ack_contains_any(m) == m.kind = "ack"

ack_contains(m) == m.kind = "ack" /\ m.index = tx - 1

Acknowledged == \E m \in wire :
    /\ at = "write" /\ m.to = "app" /\ ack_contains(m)
    /\ wire' = wire \ {m} /\ Goes("open")
    /\ UNCHANGED <<port, tx, buf, read, acked, hub, faults>>

\* _recv acknowledges what the hub says, again if it comes again.
Acknowledge(m) ==
    /\ acked' = acked \cup {m.index}
    /\ wire' = (wire \ {m}) \cup {Packet("hub", "ack", m.port, m.index, m.n)}

\* Defective variant: what the hub says meanwhile is acknowledged and dropped.
Meanwhile_dropped == \E m \in wire :
    /\ at = "write" /\ m.to = "app" /\ ~ack_contains(m)
    /\ IF m.kind = "drw" THEN Acknowledge(m)
                         ELSE wire' = wire \ {m} /\ UNCHANGED acked
    /\ UNCHANGED <<at, port, tx, sends, buf, read, hub, lost, faults>>

\* What the hub says while the write waits is kept for read.
Meanwhile == \E m \in wire :
    /\ at = "write" /\ m.to = "app" /\ ~ack_contains(m)
    /\ IF m.kind = "drw" THEN Acknowledge(m) /\ buf' = Append(buf, m.index)
                         ELSE wire' = wire \ {m} /\ UNCHANGED <<buf, acked>>
    /\ UNCHANGED <<at, port, tx, sends, read, hub, lost, faults>>

Reads == at = "open" /\ Len(read) < MaxReads

ReadBuffered ==
    /\ Reads /\ buf # <<>> /\ read' = Append(read, Head(buf)) /\ buf' = Tail(buf)
    /\ UNCHANGED <<at, port, tx, sends, acked, hub, wire, lost, faults>>

ReadWaits ==
    /\ Reads /\ buf = <<>> /\ Goes("read")
    /\ UNCHANGED <<port, tx, buf, read, acked, hub, wire, faults>>

\* Any other datagram ends the read with an empty frame.
ReadReceives == \E m \in wire :
    /\ at = "read" /\ m.to = "app" /\ Goes("open")
    /\ IF m.kind = "drw" THEN Acknowledge(m) /\ read' = Append(read, m.index)
       ELSE wire' = wire \ {m} /\ read' = Append(read, 0) /\ UNCHANGED acked
    /\ UNCHANGED <<port, tx, buf, hub, faults>>

\* The caller goes on without an answer.
ReadTimesOut ==
    /\ at = "read" /\ Goes("open")
    /\ UNCHANGED <<port, tx, buf, read, acked, hub, wire, faults>>

\* Defective variant: one sending less, and the deadline leaves no time for its answer.
GiveUp_early ==
    /\ at \in {"search", "punch", "write"} /\ sends + 1 >= Sends
    /\ at' = "failed"
    /\ UNCHANGED <<port, tx, sends, buf, read, acked, hub, wire, lost, faults>>

\* Search and punch wait longer for each answer than a datagram and its answer take, and
\* so does a write, except that its deadline may pass just after the last sending: what
\* came of the others has then been received or lost.
GiveUp ==
    /\ at \in {"search", "punch", "write"} /\ sends = Sends
    /\ \A m \in wire : Current(m) => at = "write" /\ m.n = Sends - 1
    /\ at' = "failed"
    /\ UNCHANGED <<port, tx, sends, buf, read, acked, hub, wire, lost, faults>>

close ==
    /\ at = "open" \/ (at = "failed" /\ tx > 0)
    /\ at' = "closed" /\ wire' = {m \in wire : m.to = "hub"}
    /\ UNCHANGED <<port, tx, sends, buf, read, acked, hub, lost, faults>>

-----------------------------------------------------------------------------
App == \/ connect \/ Search \/ Discovered \/ Punch \/ Ready \/ write \/ Transmit
       \/ Acknowledged \/ Meanwhile \/ ReadBuffered \/ ReadWaits \/ ReadReceives
       \/ ReadTimesOut \/ GiveUp \/ close

Next == App \/ HubReceives \/ HubSends \/ Lose

Spec == Init /\ [][Next]_vars

-----------------------------------------------------------------------------
(* Properties.                                                             *)

\* The transport keeps the promise of LumiChannel: a write that returns has reached the
\* hub, and what is written reaches it in order and once.
Channel == INSTANCE LumiChannel WITH
    given <- tx, got <- hub.got,
    told <- CASE at = "write" -> "waiting"
              [] at \in {"failed", "closed"} -> at
              [] OTHER -> IF tx = 0 THEN "nothing" ELSE "ok"
Promise == Channel!Spec

\* A call gives up only if every one of its sendings, or what came of it, was lost or met
\* a port that was closed or not ready; of a write, every one but perhaps the last.
FailsOnlyWhenLost == at = "failed" => lost >= (IF tx > 0 THEN Sends - 1 ELSE Sends)

\* What the hub has been told has arrived is never dropped: it is in the buffer or was
\* read.
AckedIsKept ==
    \A r \in acked \cup hub.heard : \E i \in 1..Len(buf \o read) : (buf \o read)[i] = r

=============================================================================
