---------------------------- MODULE LumiChannel ----------------------------
(***************************************************************************)
(* What a PpcsTransport promises its caller about the frames it writes     *)
(* (custom_components/aquara_local/local.py): they reach the hub in order  *)
(* and once each, a write that returns has reached it, and of one that     *)
(* raises nothing is known.                                                *)
(***************************************************************************)
EXTENDS Naturals

VARIABLES
    given,  \* frames handed to the transport
    got,    \* frames that the hub has taken in
    told    \* what the caller has been told of the last one

vars == <<given, got, told>>

TypeOK == given \in Nat /\ got \in Nat /\ told \in {"nothing", "waiting", "ok", "failed", "closed"}

Init == given = 0 /\ got = 0 /\ told = "nothing"

Give == /\ told \in {"nothing", "ok"} /\ told' = "waiting"
        /\ given' = given + 1 /\ UNCHANGED got

Arrive == got < given /\ got' = got + 1 /\ UNCHANGED <<given, told>>

Succeed == /\ told = "waiting" /\ got = given /\ told' = "ok"
           /\ UNCHANGED <<given, got>>

\* Before the first frame it is the connection that fails.
Fail == /\ told \in {"nothing", "waiting"} /\ told' = "failed"
        /\ UNCHANGED <<given, got>>

Close == told # "waiting" /\ told' = "closed" /\ UNCHANGED <<given, got>>

Next == Give \/ Arrive \/ Succeed \/ Fail \/ Close

Spec == Init /\ [][Next]_vars

=============================================================================
