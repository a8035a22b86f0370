------------------------ MODULE ConfigEntriesProofs ------------------------
(***************************************************************************)
(* Proofs about ConfigEntries, for any accounts, tokens and faults: the    *)
(* token that an entry keeps is the newest one, and the services are there *)
(* while an entry is loaded.                                               *)
(***************************************************************************)
EXTENDS ConfigEntries, TLAPS

-----------------------------------------------------------------------------
(* The inductive invariant.                                                *)

\* The calls of a coordinator hold its lock one at a time.
Holds(k) == call[k].at \in {"login", "issued"}
OneLogin == \A k, q \in Calls :
    k[1] = q[1] /\ k[2] = q[2] /\ Holds(k) /\ Holds(q) => k = q

\* Nobody calls for an account that has no entry, and an entry is made but once.
Quiet == \A a \in Accounts :
    /\ entry[a].state = "none" => \A k \in Calls : k[1] = a => call[k] = Idle
    /\ flow[a].at = "list" => entry[a].state = "none"
    /\ a \in data => entry[a].state # "none"

\* What a login of the entry's own coordinator has brought is the newest token.
IssuedNewest == \A k \in Calls :
    ~crossed[k[1]] /\ call[k].at = "issued" /\ Own(k) => call[k].sent = newest[k[1]]

\* An entry whose platforms are being set up is in the integration's data already.
Found == \A a \in Accounts : entry[a].state = "forward" => a \in data

\* Until the baseline of the events is asked for, nothing else asks for events.
EventsWait == \A a \in Accounts :
    entry[a].state \in {"refresh", "forward"} => call[<<a, entry[a].co, "events">>] = Idle

IInv == /\ TypeOK /\ OneLogin /\ Quiet /\ EventsWait
        /\ IssuedNewest /\ NewestKept /\ ServicesServe /\ Found

Active(a) == entry[a].state \in {"refresh", "forward"} \cup Serving

-----------------------------------------------------------------------------
(* Calls.                                                                  *)

LEMMA CallParts ==
  ASSUME NEW k \in Calls
  PROVE  /\ k[1] \in Accounts /\ k[2] \in Cos /\ k[3] \in Kinds
         /\ k = <<k[1], k[2], k[3]>>
  BY DEF Calls

LEMMA CallOf ==
  ASSUME NEW a \in Accounts, NEW c \in Cos, NEW kind \in Kinds
  PROVE  /\ <<a, c, kind>> \in Calls
         /\ <<a, c, kind>>[1] = a /\ <<a, c, kind>>[2] = c /\ <<a, c, kind>>[3] = kind
  BY DEF Calls

LEMMA CallsOfAccount ==
  ASSUME NEW a \in Accounts
  PROVE  \A k : k \in {a} \X Cos \X Kinds <=> k \in Calls /\ k[1] = a
  BY DEF Calls

LEMMA InitInv == Init => IInv
  <1> SUFFICES ASSUME Init PROVE IInv
    OBVIOUS
  <1>1. TypeOK
    <2>1. 0 \in 0..MaxEvents  BY ParametersAssumption
    <2>2. Idle \in Call /\ NoFlow \in [at : {"none", "login", "list"}, token : Tokens \cup {None}]
      BY DEF Idle, Call, NoFlow
    <2>3. 1 \in Cos /\ "none" \in States  BY DEF Cos, States
    <2> QED  BY <2>1, <2>2, <2>3 DEF Init, TypeOK
  <1>2. \A k \in Calls : call[k] = Idle  BY DEF Init
  <1>3. OneLogin /\ IssuedNewest  BY <1>2 DEF OneLogin, IssuedNewest, Holds, Idle
  <1>4. Quiet /\ Found /\ ServicesServe
    BY <1>2 DEF Init, Quiet, Found, ServicesServe, NoFlow, Serving
  <1>5. NewestKept /\ EventsWait  BY DEF Init, NewestKept, EventsWait, Serving
  <1> QED  BY <1>1, <1>3, <1>4, <1>5 DEF IInv

\* Whoever starts a login has found the lock free.
LEMMA OneLoginKept ==
  ASSUME TypeOK, OneLogin, NEW k \in Calls, NEW x \in Call, call' = [call EXCEPT ![k] = x],
         x.at \in {"login", "issued"} => LockFree(k) \/ Holds(k)
  PROVE  OneLogin'
  <1> SUFFICES ASSUME NEW p \in Calls, NEW q \in Calls, p[1] = q[1], p[2] = q[2],
                      Holds(p)', Holds(q)'
               PROVE  p = q
    BY DEF OneLogin
  <1>1. call'[k] = x /\ \A r \in Calls \ {k} : call'[r] = call[r]
    BY DEF TypeOK
  <1>2. ASSUME NEW r \in Calls, r # k, Holds(r), r[1] = k[1], r[2] = k[2], Holds(k)'
        PROVE  FALSE
    <2>1. LockFree(k) \/ Holds(k)  BY <1>1, <1>2 DEF Holds
    <2>2. ~Holds(k)  BY <1>2 DEF OneLogin
    <2>3. r = <<k[1], k[2], r[3]>> /\ r[3] \in Kinds  BY <1>2, CallParts
    <2> QED  BY <1>2, <2>1, <2>2, <2>3 DEF LockFree, Holds
  <1>3. CASE p # k /\ q # k  BY <1>1, <1>3 DEF OneLogin, Holds
  <1>4. CASE p = k /\ q # k  BY <1>1, <1>2, <1>4 DEF Holds
  <1>5. CASE p # k /\ q = k  BY <1>1, <1>2, <1>5 DEF Holds
  <1> QED  BY <1>3, <1>4, <1>5

\* A step that issues nothing, saves nothing and starts no coordinator.
LEMMA TokensAlone ==
  ASSUME IInv, UNCHANGED <<token, newest, crossed>>,
         \A a \in Accounts : /\ entry'[a].token = entry[a].token /\ entry'[a].co = entry[a].co
                             /\ Active(a)' => Active(a),
         \A k \in Calls : /\ call'[k].at = "issued" <=> call[k].at = "issued"
                          /\ call[k].at = "issued" => call'[k].sent = call[k].sent
  PROVE  NewestKept' /\ IssuedNewest'
  <1>1. NewestKept'
    <2> SUFFICES ASSUME NEW a \in Accounts, ~crossed[a],
                        \A k \in {a} \X Cos \X Kinds : call'[k].at # "issued"
                 PROVE  /\ entry'[a].token = newest[a]
                        /\ Active(a)' => token[a][entry'[a].co] = newest[a]
      BY DEF NewestKept, Active, Serving
    <2>1. \A k \in {a} \X Cos \X Kinds : call[k].at # "issued"
      BY CallsOfAccount
    <2> QED  BY <2>1 DEF IInv, NewestKept, Active, Serving
  <1>2. IssuedNewest'
    BY CallParts DEF IInv, IssuedNewest, Own
  <1> QED  BY <1>1, <1>2

\* A step that makes no entry and leaves accounts without one alone.
LEMMA QuietKept ==
  ASSUME IInv, NEW a \in Accounts, entry[a].state # "none",
         entry'[a].state # "none", \A b \in Accounts \ {a} : entry'[b] = entry[b],
         \A k \in Calls : k[1] # a => call'[k] = call[k],
         UNCHANGED flow, data' \subseteq data \cup {a}
  PROVE  Quiet'
  BY DEF IInv, Quiet

\* A call that is under way is none for the events of such an entry.
LEMMA EventsWaitKept ==
  ASSUME IInv, NEW k \in Calls, call[k] # Idle, \A q \in Calls : q # k => call'[q] = call[q],
         \A b \in Accounts : /\ entry'[b].co = entry[b].co
                             /\ entry'[b].state \in {"refresh", "forward"}
                                  => entry[b].state \in {"refresh", "forward"}
  PROVE  EventsWait'
  <1> SUFFICES ASSUME NEW b \in Accounts, entry'[b].state \in {"refresh", "forward"}
               PROVE  call'[<<b, entry'[b].co, "events">>] = Idle
    BY DEF EventsWait
  <1> DEFINE q == <<b, entry[b].co, "events">>
  <1>1. q \in Calls
    <2>1. entry[b].co \in Cos /\ "events" \in Kinds  BY DEF IInv, TypeOK, Kinds
    <2> QED  BY <2>1, CallOf
  <1>2. call[q] = Idle  BY DEF IInv, EventsWait
  <1> HIDE DEF q
  <1>3. call'[q] = Idle  BY <1>1, <1>2
  <1> QED  BY <1>3 DEF q

-----------------------------------------------------------------------------
(* The end of a call, and its steps.                                       *)

\* What the end of a call does to the entry: it goes on, or waits to be tried again.
LEMMA EndsOK ==
  ASSUME TypeOK, NEW k \in Calls, NEW outcome \in {"ok", "error", "auth"}, Ends(k, outcome)
  PROVE  /\ call' = [call EXCEPT ![k] = Idle] /\ call' \in [Calls -> Call]
         /\ up' \in [Accounts -> BOOLEAN]
         /\ entry' \in [Accounts -> [state : States, token : Tokens \cup {None}, co : Cos]]
         /\ \A b \in Accounts \ {k[1]} : entry'[b] = entry[b]
         /\ entry'[k[1]].token = entry[k[1]].token /\ entry'[k[1]].co = entry[k[1]].co
         /\ \/ entry'[k[1]].state = entry[k[1]].state
            \/ entry[k[1]].state = "refresh" /\ entry'[k[1]].state \in {"retry", "forward"}
            \/ entry[k[1]].state = "seed" /\ entry'[k[1]].state = "loaded"
         /\ data' = IF entry'[k[1]].state = "forward" THEN data \cup {k[1]} ELSE data
         /\ data' \subseteq Accounts
  <1> DEFINE a == k[1]
  <1>1. a \in Accounts  BY CallParts
  <1>2. call' = [call EXCEPT ![k] = Idle] /\ call' \in [Calls -> Call]
    <2>1. Idle \in Call  BY DEF Idle, Call
    <2> QED  BY <2>1 DEF Ends, TypeOK
  <1>3. up' \in [Accounts -> BOOLEAN]
    BY <1>1 DEF Ends, TypeOK
  <1>4. data' = IF entry'[a].state = "forward" THEN data \cup {a} ELSE data
    BY DEF Ends
  <1>5. data' \subseteq Accounts  BY <1>1, <1>4 DEF TypeOK
  <1>6. entry[a] \in [state : States, token : Tokens \cup {None}, co : Cos]
    BY <1>1 DEF TypeOK
  <1>7. CASE Own(k) /\ k[3] = "status" /\ entry[a].state = "refresh"
    <2>1. PICK st \in {"retry", "forward"} : entry' = [entry EXCEPT ![a].state = st]
      BY <1>7 DEF Ends
    <2> QED  BY <1>1, <1>2, <1>3, <1>4, <1>5, <1>6, <1>7, <2>1 DEF TypeOK, States
  <1>8. CASE Own(k) /\ k[3] = "events" /\ entry[a].state = "seed"
    <2>1. entry' = [entry EXCEPT ![a].state = "loaded"]
      BY <1>8 DEF Ends
    <2> QED  BY <1>1, <1>2, <1>3, <1>4, <1>5, <1>6, <1>8, <2>1 DEF TypeOK, States
  <1>9. CASE /\ ~(Own(k) /\ k[3] = "status" /\ entry[a].state = "refresh")
             /\ ~(Own(k) /\ k[3] = "events" /\ entry[a].state = "seed")
    <2>1. entry' = entry  BY <1>9 DEF Ends
    <2> QED  BY <1>1, <1>2, <1>3, <1>4, <1>5, <1>6, <2>1 DEF TypeOK
  <1> QED  BY <1>7, <1>8, <1>9

\* A call has an entry to its account.
LEMMA CallHasEntry ==
  ASSUME IInv, NEW k \in Calls, call[k] # Idle
  PROVE  entry[k[1]].state # "none"
  BY CallParts DEF IInv, Quiet

\* The entries' side of the end of a call that has not just logged in.
LEMMA EndsKeeps ==
  ASSUME IInv, NEW k \in Calls, call[k] # Idle, NEW outcome \in {"ok", "error", "auth"},
         Ends(k, outcome), UNCHANGED <<flow, services>>
  PROVE  /\ OneLogin' /\ Quiet' /\ EventsWait' /\ ServicesServe' /\ Found'
         /\ call[k].at # "issued" /\ UNCHANGED <<token, newest, crossed>>
              => NewestKept' /\ IssuedNewest'
  <1> USE DEF IInv
  <1> DEFINE a == k[1]
  <1>1. a \in Accounts /\ entry[a].state # "none"  BY CallHasEntry, CallParts
  <1>2. /\ call' = [call EXCEPT ![k] = Idle]
        /\ \A b \in Accounts \ {a} : entry'[b] = entry[b]
        /\ entry'[a].token = entry[a].token /\ entry'[a].co = entry[a].co
        /\ \/ entry'[a].state = entry[a].state
           \/ entry[a].state = "refresh" /\ entry'[a].state \in {"retry", "forward"}
           \/ entry[a].state = "seed" /\ entry'[a].state = "loaded"
        /\ data' = IF entry'[a].state = "forward" THEN data \cup {a} ELSE data
    BY EndsOK
  <1>3. call'[k] = Idle /\ \A q \in Calls \ {k} : call'[q] = call[q]
    BY <1>2 DEF TypeOK
  <1>4. OneLogin'
    <2>1. Idle \in Call /\ Idle.at = "idle"  BY DEF Idle, Call
    <2> QED  BY <1>2, <2>1, OneLoginKept
  <1>5. Quiet'  BY <1>1, <1>2, <1>3, QuietKept
  <1>6. ServicesServe' /\ Found'  BY <1>1, <1>2 DEF ServicesServe, Found, Serving
  <1>7. ASSUME call[k].at # "issued", UNCHANGED <<token, newest, crossed>>
        PROVE  NewestKept' /\ IssuedNewest'
    <2>1. \A b \in Accounts : /\ entry'[b].token = entry[b].token /\ entry'[b].co = entry[b].co
                              /\ Active(b)' => Active(b)
      BY <1>2 DEF Active, Serving
    <2>2. \A q \in Calls : /\ call'[q].at = "issued" <=> call[q].at = "issued"
                           /\ call[q].at = "issued" => call'[q].sent = call[q].sent
      BY <1>3, <1>7 DEF Idle
    <2> QED  BY <1>7, <2>1, <2>2, TokensAlone
  <1>8. EventsWait'  BY <1>2, <1>3, EventsWaitKept
  <1> QED  BY <1>4, <1>5, <1>6, <1>7, <1>8

LEMMA EventsOK ==
  ASSUME TypeOK, UNCHANGED events \/ Happens
  PROVE  events' \in 0..MaxEvents
  BY ParametersAssumption DEF TypeOK, Happens

\* A call goes from one step to another that is not that of a new token.
LEMMA MovesKeep ==
  ASSUME IInv, NEW k \in Calls, call[k] # Idle, NEW x \in Call,
         call' = [call EXCEPT ![k] = x], x.at # "issued", call[k].at # "issued",
         x.at = "login" => LockFree(k),
         UNCHANGED <<valid, flow, entry, token, data, services, up, newest, crossed>>,
         UNCHANGED events \/ Happens
  PROVE  IInv'
  <1> USE DEF IInv
  <1>1. k[1] \in Accounts /\ entry[k[1]].state # "none"  BY CallHasEntry, CallParts
  <1>2. call'[k] = x /\ \A q \in Calls \ {k} : call'[q] = call[q]
    BY DEF TypeOK
  <1>3. TypeOK'
    <2>1. call' \in [Calls -> Call]  BY DEF TypeOK
    <2> QED  BY <2>1, EventsOK DEF TypeOK
  <1>4. OneLogin'  BY OneLoginKept
  <1>5. Quiet'  BY <1>1, <1>2, QuietKept
  <1>6. NewestKept' /\ IssuedNewest'
    <2>1. \A q \in Calls : /\ call'[q].at = "issued" <=> call[q].at = "issued"
                           /\ call[q].at = "issued" => call'[q].sent = call[q].sent
      BY <1>2
    <2> QED  BY <2>1, TokensAlone DEF Active, Serving
  <1>7. ServicesServe' /\ Found'  BY DEF ServicesServe, Found, Serving
  <1>8. EventsWait'  BY <1>2, EventsWaitKept
  <1> QED  BY <1>3, <1>4, <1>5, <1>6, <1>7, <1>8

LEMMA AnswerStep ==
  ASSUME IInv, NEW k \in Calls, Answer(k)
  PROVE  IInv'
  <1> USE DEF IInv
  <1>1. call[k].at \in {"asked", "again"} /\ call[k] # Idle
        /\ UNCHANGED <<valid, flow, token, services, newest, crossed>>
    BY DEF Answer, Idle
  <1>2. ASSUME NEW outcome \in {"ok", "error", "auth"}, Ends(k, outcome),
               UNCHANGED events \/ Happens
        PROVE  IInv'
    <2>1. /\ OneLogin' /\ Quiet' /\ EventsWait' /\ ServicesServe' /\ Found'
          /\ NewestKept' /\ IssuedNewest'
      BY <1>1, <1>2, EndsKeeps
    <2>2. TypeOK'
      <3>1. events' \in 0..MaxEvents  BY <1>2, EventsOK
      <3> QED  BY <1>1, <1>2, <3>1, EndsOK DEF TypeOK
    <2> QED  BY <2>1, <2>2
  <1>3. ASSUME call' = [call EXCEPT ![k] = [at |-> IF LockFree(k) THEN "login" ELSE "wait",
                                            sent |-> None]],
               UNCHANGED <<entry, data, up, events>>
        PROVE  IInv'
    <2> DEFINE x == [at |-> IF LockFree(k) THEN "login" ELSE "wait", sent |-> None]
    <2>1. x \in Call /\ x.at # "issued" /\ (x.at = "login" => LockFree(k))  BY DEF Call
    <2>2. call' = [call EXCEPT ![k] = x]  BY <1>3
    <2> HIDE DEF x
    <2> QED  BY <1>1, <1>3, <2>1, <2>2, MovesKeep
  <1> QED  BY <1>2, <1>3 DEF Answer, Fault

LEMMA AcquireStep ==
  ASSUME IInv, NEW k \in Calls, Acquire(k)
  PROVE  IInv'
  <1> DEFINE x == [call[k] EXCEPT !.at = "login"]
  <1>1. call[k] \in Call /\ call[k].at = "wait" /\ call[k] # Idle
    BY DEF Acquire, IInv, TypeOK, Idle
  <1>2. x \in Call /\ x.at = "login"  BY <1>1 DEF Call
  <1>3. call' = [call EXCEPT ![k] = x]  BY DEF Acquire
  <1> HIDE DEF x
  <1> QED  BY <1>1, <1>2, <1>3, MovesKeep DEF Acquire

LEMMA IssuesOK ==
  ASSUME TypeOK, NEW a \in Accounts, NEW n, Issues(a, n)
  PROVE  /\ n \in Tokens /\ valid' \in [Accounts -> SUBSET Tokens]
         /\ UNCHANGED events \/ Happens
  <1>1. n \in Tokens  BY DEF Issues
  <1>2. UNCHANGED events \/ Happens  BY DEF Issues, Fault
  <1>3. PICK v \in {(valid[a] \cap Held(a)) \cup {n}, {n}} : valid' = [valid EXCEPT ![a] = v]
    BY DEF Issues
  <1>4. v \in SUBSET Tokens  BY <1>1, <1>3 DEF TypeOK
  <1> QED  BY <1>1, <1>2, <1>3, <1>4 DEF TypeOK

\* What is issued is the newest, and no other login of the coordinator is under way.
LEMMA loginStep ==
  ASSUME IInv, NEW k \in Calls, login_with_password(k)
  PROVE  IInv'
  <1> USE DEF IInv
  <1> DEFINE a == k[1]
             n == Unused(a)
  <1>1. a \in Accounts /\ call[k].at = "login" /\ call[k] # Idle /\ UNCHANGED <<flow, token, services>>
        /\ entry[a].state # "none"
    BY CallHasEntry, CallParts DEF login_with_password, Idle
  <1>2. ASSUME Issues(a, n), newest' = [newest EXCEPT ![a] = n],
               call' = [call EXCEPT ![k] = [at |-> "issued", sent |-> n]],
               crossed' = [crossed EXCEPT ![a] = @ \/ ~Own(k)],
               UNCHANGED <<entry, data, up>>
        PROVE  IInv'
    <2> HIDE DEF n
    <2>1. n \in Tokens /\ valid' \in [Accounts -> SUBSET Tokens] /\ events' \in 0..MaxEvents
      BY <1>1, <1>2, IssuesOK, EventsOK
    <2> DEFINE x == [at |-> "issued", sent |-> n]
    <2>2. x \in Call /\ x.at = "issued" /\ x.sent = n  BY <2>1 DEF Call
    <2>3. call' = [call EXCEPT ![k] = x]  BY <1>2
    <2> HIDE DEF x
    <2>4. call' \in [Calls -> Call] /\ call'[k] = x /\ \A q \in Calls \ {k} : call'[q] = call[q]
      BY <2>2, <2>3 DEF TypeOK
    <2>5. crossed' \in [Accounts -> BOOLEAN] /\ newest' \in [Accounts -> Tokens \cup {None}]
      BY <1>2, <2>1 DEF TypeOK
    <2>6. TypeOK'
      BY <1>1, <1>2, <2>1, <2>4, <2>5 DEF TypeOK
    <2>7. OneLogin'
      BY <1>1, <2>2, <2>3, OneLoginKept DEF Holds
    <2>8. Quiet'  BY <1>1, <1>2, <2>4, QuietKept
    <2>9. /\ newest'[a] = n /\ \A b \in Accounts \ {a} : newest'[b] = newest[b] /\ crossed'[b] = crossed[b]
          /\ ~crossed'[a] => ~crossed[a] /\ Own(k)
      BY <1>1, <1>2 DEF TypeOK
    <2>10. IssuedNewest'
      <3> SUFFICES ASSUME NEW q \in Calls, ~crossed'[q[1]], call'[q].at = "issued", Own(q)'
                   PROVE  call'[q].sent = newest'[q[1]]
        BY DEF IssuedNewest
      <3>1. CASE q = k  BY <2>2, <2>4, <2>9, <3>1
      <3>2. CASE q # k /\ q[1] = a
        <4>1. Own(k) /\ Own(q) /\ call[q].at = "issued"
          BY <1>2, <2>4, <2>9, <3>2 DEF Own
        <4>2. q[2] = k[2] /\ Holds(q) /\ Holds(k)  BY <1>1, <3>2, <4>1 DEF Own, Holds
        <4> QED  BY <3>2, <4>2 DEF OneLogin
      <3>3. CASE q # k /\ q[1] # a
        <4>1. q[1] \in Accounts  BY CallParts
        <4> QED  BY <1>2, <2>4, <2>9, <3>3, <4>1 DEF IssuedNewest, Own
      <3> QED  BY <3>1, <3>2, <3>3
    <2>11. NewestKept'
      <3> SUFFICES ASSUME NEW b \in Accounts, ~crossed'[b],
                          \A q \in {b} \X Cos \X Kinds : call'[q].at # "issued"
                   PROVE  /\ entry[b].token = newest'[b]
                          /\ Active(b) => token[b][entry[b].co] = newest'[b]
        BY <1>1, <1>2 DEF NewestKept, Active, Serving
      <3>1. b # a
        <4>1. k \in {a} \X Cos \X Kinds  BY CallsOfAccount, <1>1
        <4> QED  BY <2>2, <2>4, <4>1
      <3>2. \A q \in {b} \X Cos \X Kinds : call[q].at # "issued"
        BY <2>4, <3>1, CallsOfAccount
      <3> QED  BY <2>9, <3>1, <3>2 DEF NewestKept, Active, Serving
    <2>12. ServicesServe' /\ Found'  BY <1>1, <1>2 DEF ServicesServe, Found, Serving
    <2>13. EventsWait'  BY <1>1, <1>2, <2>4, EventsWaitKept
    <2> QED  BY <2>6, <2>7, <2>8, <2>10, <2>11, <2>12, <2>13
  <1>3. ASSUME NEW outcome \in {"auth", "error"}, Ends(k, outcome), UNCHANGED <<valid, newest, crossed>>,
               Happens
        PROVE  IInv'
    <2>1. /\ OneLogin' /\ Quiet' /\ EventsWait' /\ ServicesServe' /\ Found'
          /\ NewestKept' /\ IssuedNewest'
      BY <1>1, <1>3, EndsKeeps
    <2>2. TypeOK'
      <3>1. events' \in 0..MaxEvents  BY <1>3, EventsOK
      <3> QED  BY <1>1, <1>3, <3>1, EndsOK DEF TypeOK
    <2> QED  BY <2>1, <2>2
  <1> QED  BY <1>2, <1>3 DEF login_with_password, Fault

\* The entry and its coordinator get the newest token, or it counts as crossed.
LEMMA reloginStep ==
  ASSUME IInv, NEW k \in Calls, _relogin(k)
  PROVE  IInv'
  <1> USE DEF IInv
  <1> DEFINE a == k[1]
  <1>1. /\ a \in Accounts /\ k[2] \in Cos /\ call[k].at = "issued" /\ call[k] # Idle
        /\ call[k] \in Call /\ UNCHANGED <<valid, flow, services, newest>>
        /\ entry[a].state # "none"
        /\ entry[a] \in [state : States, token : Tokens \cup {None}, co : Cos]
    BY CallHasEntry, CallParts DEF _relogin, Idle, TypeOK
  <1>2. ASSUME token' = [token EXCEPT ![a][k[2]] = call[k].sent],
               entry' = [entry EXCEPT ![a].token = call[k].sent],
               call' = [call EXCEPT ![k].at = "again"],
               crossed' = [crossed EXCEPT ![a] = @ \/ ~Own(k)],
               UNCHANGED <<data, up, events>>
        PROVE  IInv'
    <2>1. call[k].sent \in Tokens \cup {None}  BY <1>1 DEF Call
    <2>2. /\ entry' \in [Accounts -> [state : States, token : Tokens \cup {None}, co : Cos]]
          /\ entry'[a].token = call[k].sent /\ entry'[a].state = entry[a].state
          /\ entry'[a].co = entry[a].co
          /\ \A b \in Accounts \ {a} : entry'[b] = entry[b]
      BY <1>1, <1>2, <2>1 DEF TypeOK
    <2>3. /\ token' \in [Accounts -> [Cos -> Tokens \cup {None}]]
          /\ token'[a][k[2]] = call[k].sent
          /\ \A b \in Accounts \ {a} : token'[b] = token[b]
      BY <1>1, <1>2, <2>1 DEF TypeOK
    <2> DEFINE x == [call[k] EXCEPT !.at = "again"]
    <2>4. x \in Call /\ x.at = "again"  BY <1>1 DEF Call
    <2>5. call' = [call EXCEPT ![k] = x]  BY <1>2
    <2> HIDE DEF x
    <2>6. call' \in [Calls -> Call] /\ call'[k] = x /\ \A q \in Calls \ {k} : call'[q] = call[q]
      BY <2>4, <2>5 DEF TypeOK
    <2>7. /\ crossed' \in [Accounts -> BOOLEAN]
          /\ ~crossed'[a] => ~crossed[a] /\ Own(k)
          /\ \A b \in Accounts \ {a} : crossed'[b] = crossed[b]
      BY <1>1, <1>2 DEF TypeOK
    <2>8. TypeOK'  BY <1>1, <1>2, <2>2, <2>3, <2>6, <2>7 DEF TypeOK
    <2>9. OneLogin'  BY <1>1, <2>4, <2>5, OneLoginKept
    <2>10. Quiet'  BY <1>1, <1>2, <2>2, <2>6, QuietKept
    <2>11. IssuedNewest'
      <3> SUFFICES ASSUME NEW q \in Calls, ~crossed'[q[1]], call'[q].at = "issued", Own(q)'
                   PROVE  call'[q].sent = newest[q[1]]
        BY <1>1 DEF IssuedNewest
      <3>1. q # k  BY <2>4, <2>6
      <3>2. q[1] \in Accounts  BY CallParts
      <3>3. ~crossed[q[1]] /\ Own(q) /\ call[q] = call'[q]
        BY <2>2, <2>6, <2>7, <3>1, <3>2 DEF Own
      <3> QED  BY <3>3 DEF IssuedNewest
    <2>12. NewestKept'
      <3> SUFFICES ASSUME NEW b \in Accounts, ~crossed'[b],
                          \A q \in {b} \X Cos \X Kinds : call'[q].at # "issued"
                   PROVE  /\ entry'[b].token = newest[b]
                          /\ Active(b)' => token'[b][entry'[b].co] = newest[b]
        BY <1>1 DEF NewestKept, Active, Serving
      <3>1. CASE b = a
        <4>1. ~crossed[a] /\ Own(k)  BY <2>7, <3>1
        <4>2. call[k].sent = newest[a]  BY <1>1, <4>1 DEF IssuedNewest
        <4>3. entry[a].co = k[2]  BY <4>1 DEF Own
        <4> QED  BY <2>2, <2>3, <3>1, <4>2, <4>3
      <3>2. CASE b # a
        <4>1. \A q \in {b} \X Cos \X Kinds : call[q].at # "issued"
          BY <2>6, <3>2, CallsOfAccount
        <4> QED  BY <2>2, <2>3, <2>7, <3>2, <4>1 DEF NewestKept, Active, Serving
      <3> QED  BY <3>1, <3>2
    <2>13. ServicesServe' /\ Found'  BY <1>1, <1>2, <2>2 DEF ServicesServe, Found, Serving
    <2>14. EventsWait'  BY <1>1, <2>2, <2>6, EventsWaitKept
    <2> QED  BY <2>8, <2>9, <2>10, <2>11, <2>12, <2>13, <2>14
  <1>3. ASSUME Ends(k, "error"), crossed' = [crossed EXCEPT ![a] = TRUE], UNCHANGED token, Happens
        PROVE  IInv'
    <2>1. OneLogin' /\ Quiet' /\ EventsWait' /\ ServicesServe' /\ Found'
      BY <1>1, <1>3, EndsKeeps
    <2>2. /\ crossed' \in [Accounts -> BOOLEAN] /\ crossed'[a]
          /\ \A b \in Accounts \ {a} : crossed'[b] = crossed[b]
      BY <1>1, <1>3 DEF TypeOK
    <2>3. TypeOK'
      <3>1. events' \in 0..MaxEvents  BY <1>3, EventsOK
      <3> QED  BY <1>1, <1>3, <2>2, <3>1, EndsOK DEF TypeOK
    <2>4. /\ call' = [call EXCEPT ![k] = Idle] /\ \A b \in Accounts \ {a} : entry'[b] = entry[b]
      BY <1>3, EndsOK
    <2>5. \A q \in Calls : q[1] # a => call'[q] = call[q]
      BY <2>4 DEF TypeOK
    <2>6. IssuedNewest'
      BY <1>1, <1>3, <2>2, <2>4, <2>5, CallParts DEF IssuedNewest, Own
    <2>7. NewestKept'
      <3> SUFFICES ASSUME NEW b \in Accounts, ~crossed'[b],
                          \A q \in {b} \X Cos \X Kinds : call'[q].at # "issued"
                   PROVE  /\ entry'[b].token = newest[b]
                          /\ Active(b)' => token[b][entry'[b].co] = newest[b]
        BY <1>1, <1>3 DEF NewestKept, Active, Serving
      <3>1. b # a  BY <2>2
      <3>2. \A q \in {b} \X Cos \X Kinds : call[q].at # "issued"
        BY <2>5, <3>1, CallsOfAccount
      <3> QED  BY <2>2, <2>4, <3>1, <3>2 DEF NewestKept, Active, Serving
    <2> QED  BY <2>1, <2>3, <2>6, <2>7
  <1> QED  BY <1>2, <1>3 DEF _relogin, Fault

-----------------------------------------------------------------------------
(* Entries.                                                                *)

\* The new coordinator begins with the entry's token, and with no call under way.
LEMMA SetupStep ==
  ASSUME IInv, NEW a \in Accounts, async_setup_entry(a)
  PROVE  IInv'
  <1> USE DEF IInv
  <1>1. PICK c \in Cos :
           /\ \A kind \in Kinds : call[<<a, c, kind>>] = Idle
           /\ entry' = [entry EXCEPT ![a].state = "refresh", ![a].co = c]
           /\ token' = [token EXCEPT ![a][c] = entry[a].token]
           /\ call' = [call EXCEPT ![<<a, c, "status">>] =
                                     [at |-> "asked", sent |-> entry[a].token]]
    BY DEF async_setup_entry
  <1>2. /\ entry[a].state \in {"notloaded", "retry"}
        /\ UNCHANGED <<valid, flow, data, services, up, newest, crossed, events>>
        /\ entry[a] \in [state : States, token : Tokens \cup {None}, co : Cos]
    BY DEF async_setup_entry, TypeOK
  <1>3. /\ entry' \in [Accounts -> [state : States, token : Tokens \cup {None}, co : Cos]]
        /\ entry'[a].state = "refresh" /\ entry'[a].co = c /\ entry'[a].token = entry[a].token
        /\ \A b \in Accounts \ {a} : entry'[b] = entry[b]
    BY <1>1, <1>2 DEF TypeOK, States
  <1>4. /\ token' \in [Accounts -> [Cos -> Tokens \cup {None}]]
        /\ token'[a][c] = entry[a].token
        /\ \A b \in Accounts \ {a} : token'[b] = token[b]
    BY <1>1, <1>2 DEF TypeOK
  <1> DEFINE k == <<a, c, "status">>
             x == [at |-> "asked", sent |-> entry[a].token]
  <1>5. k \in Calls /\ k[1] = a /\ x \in Call /\ x.at = "asked" /\ call[k] = Idle
    <2>1. "status" \in Kinds  BY DEF Kinds
    <2> QED  BY <1>1, <1>2, <2>1, CallOf DEF Call
  <1>6. call' = [call EXCEPT ![k] = x]  BY <1>1
  <1> HIDE DEF k, x
  <1>7. /\ call' \in [Calls -> Call] /\ call'[k] = x
        /\ \A q \in Calls \ {k} : call'[q] = call[q]
    BY <1>5, <1>6 DEF TypeOK
  <1>8. TypeOK'  BY <1>2, <1>3, <1>4, <1>7 DEF TypeOK
  <1>9. OneLogin'  BY <1>5, <1>6, OneLoginKept
  <1>10. Quiet'  BY <1>2, <1>3, <1>5, <1>7, QuietKept
  <1>11. ASSUME NEW q \in Calls, q[1] = a, q[2] = c
         PROVE  call[q] = Idle
    <2>1. q = <<a, c, q[3]>> /\ q[3] \in Kinds  BY <1>11, CallParts
    <2> QED  BY <1>1, <2>1
  <1>12. IssuedNewest'
    <2> SUFFICES ASSUME NEW q \in Calls, ~crossed[q[1]], call'[q].at = "issued", Own(q)'
                 PROVE  call'[q].sent = newest[q[1]]
      BY <1>2 DEF IssuedNewest
    <2>1. q # k /\ call'[q] = call[q]  BY <1>5, <1>7
    <2>2. q[1] # a  BY <1>3, <1>11, <2>1 DEF Own, Idle
    <2>3. Own(q)  BY <1>3, <2>2, CallParts DEF Own
    <2> QED  BY <2>1, <2>3 DEF IssuedNewest
  <1>13. NewestKept'
    <2> SUFFICES ASSUME NEW b \in Accounts, ~crossed[b],
                        \A q \in {b} \X Cos \X Kinds : call'[q].at # "issued"
                 PROVE  /\ entry'[b].token = newest[b]
                        /\ Active(b)' => token'[b][entry'[b].co] = newest[b]
      BY <1>2 DEF NewestKept, Active, Serving
    <2>1. \A q \in {b} \X Cos \X Kinds : call[q].at # "issued"
      BY <1>5, <1>7, CallsOfAccount DEF Idle
    <2>2. /\ entry[b].token = newest[b]
          /\ Active(b) => token[b][entry[b].co] = newest[b]
      BY <2>1 DEF NewestKept, Active, Serving
    <2>3. CASE b = a  BY <1>3, <1>4, <2>2, <2>3
    <2>4. CASE b # a  BY <1>3, <1>4, <2>2, <2>4 DEF Active, Serving
    <2> QED  BY <2>3, <2>4
  <1>14. ServicesServe' /\ Found'  BY <1>2, <1>3 DEF ServicesServe, Found, Serving
  <1>15. EventsWait'
    <2> SUFFICES ASSUME NEW b \in Accounts, entry'[b].state \in {"refresh", "forward"}
                 PROVE  call'[<<b, entry'[b].co, "events">>] = Idle
      BY DEF EventsWait
    <2>1. CASE b = a
      <3>1. <<a, c, "events">> # k /\ <<a, c, "events">> \in Calls
        <4>1. "events" \in Kinds  BY DEF Kinds
        <4> QED  BY <4>1, CallOf DEF k
      <3>2. call[<<a, c, "events">>] = Idle  BY <1>1 DEF Kinds
      <3> QED  BY <1>3, <1>7, <2>1, <3>1, <3>2
    <2>2. CASE b # a
      <3> DEFINE q == <<b, entry[b].co, "events">>
      <3>1. q \in Calls /\ q[1] = b
        <4>1. entry[b].co \in Cos /\ "events" \in Kinds  BY DEF TypeOK, Kinds
        <4> QED  BY <4>1, CallOf
      <3>2. call[q] = Idle /\ entry'[b] = entry[b]  BY <1>3, <2>2 DEF EventsWait
      <3> HIDE DEF q
      <3>3. call'[q] = Idle  BY <1>5, <1>7, <2>2, <3>1, <3>2
      <3> QED  BY <3>2, <3>3 DEF q
    <2> QED  BY <2>1, <2>2
  <1> QED  BY <1>8, <1>9, <1>10, <1>12, <1>13, <1>14, <1>15

\* The entry moves on with its token and its coordinator.
LEMMA EntryMoves ==
  ASSUME IInv, NEW a \in Accounts, entry[a].state # "none", NEW st \in States \ {"none"},
         entry' = [entry EXCEPT ![a].state = st],
         st \in {"refresh", "forward", "seed", "loaded", "unload", "failed"} => Active(a),
         UNCHANGED <<flow, token, newest, crossed>>,
         data' \subseteq data \cup {a},
         \A k \in Calls : k[1] # a => call'[k] = call[k],
         \A k \in Calls : /\ call'[k].at = "issued" <=> call[k].at = "issued"
                          /\ call[k].at = "issued" => call'[k].sent = call[k].sent
  PROVE  /\ entry' \in [Accounts -> [state : States, token : Tokens \cup {None}, co : Cos]]
         /\ entry'[a].state = st /\ \A b \in Accounts \ {a} : entry'[b] = entry[b]
         /\ Quiet' /\ NewestKept' /\ IssuedNewest'
  <1> USE DEF IInv
  <1>1. entry[a] \in [state : States, token : Tokens \cup {None}, co : Cos]  BY DEF TypeOK
  <1>2. /\ entry' \in [Accounts -> [state : States, token : Tokens \cup {None}, co : Cos]]
        /\ entry'[a].state = st /\ entry'[a].token = entry[a].token /\ entry'[a].co = entry[a].co
        /\ \A b \in Accounts \ {a} : entry'[b] = entry[b]
    BY <1>1 DEF TypeOK
  <1>3. Quiet'  BY <1>2, QuietKept
  <1>4. \A b \in Accounts : /\ entry'[b].token = entry[b].token /\ entry'[b].co = entry[b].co
                            /\ Active(b)' => Active(b)
    BY <1>2 DEF Active, Serving
  <1>5. NewestKept' /\ IssuedNewest'  BY <1>4, TokensAlone
  <1> QED  BY <1>2, <1>3, <1>5

\* A call that begins uses the token its coordinator has.
LEMMA AsksOK ==
  ASSUME IInv, NEW k \in Calls, call' = Asks(k), call[k].at # "issued"
  PROVE  /\ call' \in [Calls -> Call] /\ OneLogin'
         /\ \A q \in Calls : q # k => call'[q] = call[q]
         /\ \A q \in Calls : /\ call'[q].at = "issued" <=> call[q].at = "issued"
                             /\ call[q].at = "issued" => call'[q].sent = call[q].sent
  <1> DEFINE x == [at |-> "asked", sent |-> Co(k)]
  <1>1. x \in Call /\ x.at = "asked"  BY CallParts DEF IInv, TypeOK, Call, Co
  <1>2. call' = [call EXCEPT ![k] = x]  BY DEF Asks
  <1> HIDE DEF x
  <1>3. OneLogin'  BY <1>1, <1>2, OneLoginKept DEF IInv
  <1> QED  BY <1>1, <1>2, <1>3 DEF IInv, TypeOK

\* When an entry is loaded the services are registered, and the baseline is asked for.
LEMMA ServicesStep ==
  ASSUME IInv, NEW a \in Accounts, async_setup_services(a)
  PROVE  IInv'
  <1> USE DEF IInv
  <1> DEFINE k == <<a, entry[a].co, "events">>
  <1>1. /\ entry[a].state = "forward" /\ services' = TRUE
        /\ entry' = [entry EXCEPT ![a].state = "seed"] /\ call' = Asks(k)
        /\ UNCHANGED <<valid, flow, token, data, up, newest, crossed, events>>
    BY DEF async_setup_services
  <1>2. k \in Calls /\ k[1] = a
    <2>1. entry[a].co \in Cos /\ "events" \in Kinds  BY DEF TypeOK, Kinds
    <2> QED  BY <2>1, CallOf
  <1>3. call[k] = Idle  BY <1>1 DEF EventsWait
  <1> HIDE DEF k
  <1>4. /\ call' \in [Calls -> Call] /\ OneLogin'
        /\ \A q \in Calls : q # k => call'[q] = call[q]
        /\ \A q \in Calls : /\ call'[q].at = "issued" <=> call[q].at = "issued"
                            /\ call[q].at = "issued" => call'[q].sent = call[q].sent
    BY <1>1, <1>2, <1>3, AsksOK DEF Idle
  <1>5. \A q \in Calls : q[1] # a => call'[q] = call[q]  BY <1>2, <1>4
  <1>6. /\ entry' \in [Accounts -> [state : States, token : Tokens \cup {None}, co : Cos]]
        /\ entry'[a].state = "seed" /\ \A b \in Accounts \ {a} : entry'[b] = entry[b]
        /\ Quiet' /\ NewestKept' /\ IssuedNewest'
    <2>1. "seed" \in States \ {"none"} /\ Active(a)  BY <1>1 DEF States, Active, Serving
    <2> QED  BY <1>1, <1>4, <1>5, <2>1, EntryMoves
  <1>7. TypeOK'  BY <1>1, <1>4, <1>6 DEF TypeOK
  <1>8. ServicesServe' /\ Found'  BY <1>1, <1>6 DEF ServicesServe, Found, Serving
  <1>9. EventsWait'
    <2> SUFFICES ASSUME NEW b \in Accounts, entry'[b].state \in {"refresh", "forward"}
                 PROVE  call'[<<b, entry'[b].co, "events">>] = Idle
      BY DEF EventsWait
    <2>1. b # a /\ entry'[b] = entry[b]  BY <1>6
    <2> DEFINE q == <<b, entry[b].co, "events">>
    <2>2. q \in Calls /\ q[1] = b
      <3>1. entry[b].co \in Cos /\ "events" \in Kinds  BY DEF TypeOK, Kinds
      <3> QED  BY <3>1, CallOf
    <2>3. call[q] = Idle  BY <2>1 DEF EventsWait
    <2> HIDE DEF q
    <2>4. call'[q] = Idle  BY <1>5, <2>1, <2>2, <2>3
    <2> QED  BY <2>1, <2>4 DEF q
  <1> QED  BY <1>4, <1>6, <1>7, <1>8, <1>9

\* With the last entry the services go, and not before.
LEMMA UnloadStep ==
  ASSUME IInv, NEW a \in Accounts, StartUnload(a) \/ async_unload_entry(a)
  PROVE  IInv'
  <1> USE DEF IInv
  <1>1. PICK st \in {"unload", "notloaded", "failed"} :
           /\ entry' = [entry EXCEPT ![a].state = st]
           /\ UNCHANGED <<valid, flow, token, call, up, newest, crossed>>
           /\ entry[a].state \in {"loaded", "unload"}
           /\ \/ st \in {"unload", "failed"} /\ UNCHANGED <<data, services>>
              \/ /\ st = "notloaded" /\ data' = data \ {a}
                 /\ services' = (services /\ data' # {})
           /\ UNCHANGED events \/ Happens
    BY DEF StartUnload, async_unload_entry, async_unload_services, Fault
  <1>2. /\ entry' \in [Accounts -> [state : States, token : Tokens \cup {None}, co : Cos]]
        /\ entry'[a].state = st /\ \A b \in Accounts \ {a} : entry'[b] = entry[b]
        /\ Quiet' /\ NewestKept' /\ IssuedNewest'
    <2>1. st \in States \ {"none"} /\ Active(a)  BY <1>1 DEF States, Active, Serving
    <2> QED  BY <1>1, <2>1, EntryMoves
  <1>3. TypeOK'
    <2>1. events' \in 0..MaxEvents  BY <1>1, EventsOK
    <2>2. data' \subseteq Accounts /\ services' \in BOOLEAN  BY <1>1 DEF TypeOK
    <2> QED  BY <1>1, <1>2, <2>1, <2>2 DEF TypeOK
  <1>4. OneLogin'  BY <1>1 DEF OneLogin, Holds
  <1>5. ServicesServe' /\ Found'
    <2>1. CASE st \in {"unload", "failed"} /\ UNCHANGED <<data, services>>
      <3>1. services /\ a \in data  BY <1>1 DEF ServicesServe, Serving
      <3> QED  BY <1>1, <1>2, <2>1, <3>1 DEF ServicesServe, Serving, Found
    <2>2. CASE st = "notloaded" /\ data' = data \ {a} /\ services' = (services /\ data' # {})
      <3>1. services' <=> services /\ data' # {}  BY <2>2, Zenon
      <3>2. Found'  BY <1>1, <1>2, <2>2 DEF Found
      <3>3. ASSUME NEW b \in Accounts, entry'[b].state \in Serving
            PROVE  services' /\ b \in data'
        <4>1. b # a /\ entry'[b] = entry[b]  BY <1>2, <2>2, <3>3 DEF Serving
        <4>2. services /\ b \in data  BY <3>3, <4>1 DEF ServicesServe, Serving
        <4>3. b \in data'  BY <2>2, <4>1, <4>2
        <4> QED  BY <3>1, <4>2, <4>3
      <3> QED  BY <3>1, <3>2, <3>3 DEF ServicesServe, Serving
    <2> QED  BY <1>1, <2>1, <2>2
  <1>6. EventsWait'  BY <1>1, <1>2 DEF EventsWait
  <1> QED  BY <1>2, <1>3, <1>4, <1>5, <1>6

\* A poll or an action begins.
LEMMA AskStep ==
  ASSUME IInv, NEW a \in Accounts,
         async_cloud_action(a) \/ \E kind \in Kinds : Poll(a, kind)
  PROVE  IInv'
  <1> USE DEF IInv
  <1>1. PICK kind \in Kinds :
           /\ call[<<a, entry[a].co, kind>>] = Idle /\ call' = Asks(<<a, entry[a].co, kind>>)
           /\ UNCHANGED <<valid, flow, entry, token, data, services, up, newest, crossed>>
           /\ entry[a].state # "none"
           /\ kind = "events" => entry[a].state \notin {"refresh", "forward"}
           /\ UNCHANGED events \/ Happens
    <2>1. CASE async_cloud_action(a)
      <3>1. "action" \in Kinds  BY DEF Kinds
      <3> QED  BY <2>1, <3>1 DEF async_cloud_action, _resolve, Quiet
    <2>2. ASSUME NEW kind \in Kinds, Poll(a, kind)
          PROVE  /\ call[<<a, entry[a].co, kind>>] = Idle
                 /\ call' = Asks(<<a, entry[a].co, kind>>)
                 /\ UNCHANGED <<valid, flow, entry, token, data, services, up, newest, crossed>>
                 /\ entry[a].state # "none"
                 /\ kind = "events" => entry[a].state \notin {"refresh", "forward"}
                 /\ UNCHANGED events
      BY <2>2 DEF Poll, Serving
    <2> QED  BY <2>1, <2>2
  <1> DEFINE k == <<a, entry[a].co, kind>>
  <1>2. k \in Calls /\ k[1] = a /\ k[3] = kind
    <2>1. entry[a].co \in Cos  BY DEF TypeOK
    <2> QED  BY <2>1, CallOf
  <1>3. call[k] = Idle /\ call' = Asks(k)  BY <1>1
  <1> HIDE DEF k
  <1>4. /\ call' \in [Calls -> Call] /\ OneLogin'
        /\ \A q \in Calls : q # k => call'[q] = call[q]
        /\ \A q \in Calls : /\ call'[q].at = "issued" <=> call[q].at = "issued"
                            /\ call[q].at = "issued" => call'[q].sent = call[q].sent
    BY <1>2, <1>3, AsksOK DEF Idle
  <1>5. TypeOK'
    <2>1. events' \in 0..MaxEvents  BY <1>1, EventsOK
    <2> QED  BY <1>1, <1>4, <2>1 DEF TypeOK
  <1>6. Quiet'
    <2>1. \A q \in Calls : q[1] # a => call'[q] = call[q]  BY <1>2, <1>4
    <2> QED  BY <1>1, <2>1, QuietKept
  <1>7. NewestKept' /\ IssuedNewest'  BY <1>1, <1>4, TokensAlone DEF Active, Serving
  <1>8. ServicesServe' /\ Found'  BY <1>1 DEF ServicesServe, Found, Serving
  <1>9. EventsWait'
    <2> SUFFICES ASSUME NEW b \in Accounts, entry[b].state \in {"refresh", "forward"}
                 PROVE  call'[<<b, entry[b].co, "events">>] = Idle
      BY <1>1 DEF EventsWait
    <2> DEFINE q == <<b, entry[b].co, "events">>
    <2>1. q \in Calls /\ q[1] = b /\ q[3] = "events"
      <3>1. entry[b].co \in Cos /\ "events" \in Kinds  BY DEF TypeOK, Kinds
      <3> QED  BY <3>1, CallOf
    <2>2. call[q] = Idle  BY DEF EventsWait
    <2> HIDE DEF q
    <2>3. q # k  BY <1>1, <1>2, <2>1
    <2>4. call'[q] = Idle  BY <1>4, <2>1, <2>2, <2>3
    <2> QED  BY <2>4 DEF q
  <1> QED  BY <1>4, <1>5, <1>6, <1>7, <1>8, <1>9

\* A flow makes an entry only where there is none.
LEMMA FlowStep ==
  ASSUME IInv, NEW a \in Accounts, Flow(a) \/ Expire(a)
  PROVE  IInv'
  <1> USE DEF IInv
  <1> DEFINE Flows == [at : {"none", "login", "list"}, token : Tokens \cup {None}]
  <1>1. ASSUME UNCHANGED <<entry, token, call, data, services, up, newest, crossed>>,
               valid' \in [Accounts -> SUBSET Tokens], flow' \in [Accounts -> Flows],
               \A b \in Accounts : flow'[b].at = "list" => flow[b].at = "list" \/ entry[b].state = "none",
               UNCHANGED events \/ Happens
        PROVE  IInv'
    <2>1. TypeOK'  BY <1>1, EventsOK DEF TypeOK
    <2>2. OneLogin' /\ EventsWait'  BY <1>1 DEF OneLogin, Holds, EventsWait
    <2>3. Quiet'  BY <1>1 DEF Quiet
    <2>4. NewestKept' /\ IssuedNewest'  BY <1>1 DEF NewestKept, IssuedNewest, Own, Serving
    <2>5. ServicesServe' /\ Found'  BY <1>1 DEF ServicesServe, Found, Serving
    <2> QED  BY <2>1, <2>2, <2>3, <2>4, <2>5
  <1>2. flow[a] \in Flows /\ NoFlow \in Flows /\ NoFlow.at = "none"
    BY DEF TypeOK, NoFlow
  <1>3. CASE Expire(a)
    <2>1. valid' \in [Accounts -> SUBSET Tokens]  BY <1>3 DEF Expire, TypeOK
    <2>2. UNCHANGED <<flow, entry, token, call, data, services, up, newest, crossed>> /\ Happens
      BY <1>3 DEF Expire, Fault
    <2> QED  BY <1>1, <2>1, <2>2 DEF TypeOK
  <1>4. CASE StartFlow(a)
    <2>1. /\ flow' \in [Accounts -> Flows] /\ flow'[a].at = "login"
          /\ \A b \in Accounts \ {a} : flow'[b] = flow[b]
      BY <1>2, <1>4 DEF StartFlow, TypeOK
    <2>2. UNCHANGED <<valid, entry, token, call, data, services, up, newest, crossed>>
          /\ (UNCHANGED events \/ Happens)
      BY <1>4 DEF StartFlow
    <2>3. \A b \in Accounts : flow'[b].at = "list" => flow[b].at = "list"  BY <2>1
    <2> QED  BY <1>1, <2>1, <2>2, <2>3 DEF TypeOK
  <1>5. CASE async_step_user(a)
    <2>1. UNCHANGED <<entry, token, call, data, services, up, newest, crossed>>
      BY <1>5 DEF async_step_user
    <2>2. CASE Issues(a, Unused(a)) /\ (IF entry[a].state # "none" THEN FlowEnds(a)
             ELSE flow' = [flow EXCEPT ![a] = [at |-> "list", token |-> Unused(a)]])
      <3> DEFINE n == Unused(a)
                 x == IF entry[a].state # "none" THEN NoFlow ELSE [at |-> "list", token |-> n]
      <3> HIDE DEF n
      <3>1. n \in Tokens /\ valid' \in [Accounts -> SUBSET Tokens] /\ (UNCHANGED events \/ Happens)
        BY <2>2, IssuesOK DEF n
      <3>2. flow' = [flow EXCEPT ![a] = x]  BY <2>2 DEF FlowEnds, n
      <3>3. x \in Flows /\ (x.at = "list" => entry[a].state = "none")  BY <1>2, <3>1
      <3> HIDE DEF x
      <3>4. flow' \in [Accounts -> Flows] /\ flow'[a] = x
            /\ \A b \in Accounts \ {a} : flow'[b] = flow[b]
        BY <3>2, <3>3 DEF TypeOK
      <3>5. \A b \in Accounts : flow'[b].at = "list" => flow[b].at = "list" \/ entry[b].state = "none"
        BY <3>3, <3>4
      <3> QED  BY <1>1, <2>1, <3>1, <3>4, <3>5
    <2>3. CASE Happens /\ FlowEnds(a) /\ UNCHANGED valid
      <3>1. /\ flow' \in [Accounts -> Flows] /\ flow'[a] = NoFlow
            /\ \A b \in Accounts \ {a} : flow'[b] = flow[b]
        BY <1>2, <2>3 DEF FlowEnds, TypeOK
      <3>2. \A b \in Accounts : flow'[b].at = "list" => flow[b].at = "list"  BY <1>2, <3>1
      <3> QED  BY <1>1, <2>1, <2>3, <3>1, <3>2 DEF TypeOK
    <2> QED  BY <1>5, <2>2, <2>3 DEF async_step_user, Fault
  <1>6. CASE _enrich_with_mac(a)
    <2>1. /\ flow[a].at = "list" /\ UNCHANGED <<valid, token, call, data, services, up, crossed>>
          /\ flow' \in [Accounts -> Flows] /\ flow'[a] = NoFlow
          /\ \A b \in Accounts \ {a} : flow'[b] = flow[b]
          /\ (UNCHANGED events \/ Happens)
      BY <1>2, <1>6 DEF _enrich_with_mac, FlowEnds, TypeOK, Fault
    <2>2. /\ entry[a].state = "none" /\ a \notin data
          /\ \A k \in Calls : k[1] = a => call[k] = Idle
      BY <2>1 DEF Quiet
    <2>3. CASE UNCHANGED <<entry, newest>>
      <3>1. \A b \in Accounts : flow'[b].at = "list" => flow[b].at = "list"  BY <1>2, <2>1
      <3> QED  BY <1>1, <2>1, <2>3, <3>1 DEF TypeOK
    <2>4. CASE /\ entry' = [entry EXCEPT ![a].state = "notloaded", ![a].token = flow[a].token]
               /\ newest' = [newest EXCEPT ![a] = flow[a].token]
      <3>1. flow[a].token \in Tokens \cup {None}
            /\ entry[a] \in [state : States, token : Tokens \cup {None}, co : Cos]
        BY <1>2 DEF TypeOK
      <3>2. /\ entry' \in [Accounts -> [state : States, token : Tokens \cup {None}, co : Cos]]
            /\ entry'[a].state = "notloaded" /\ entry'[a].token = flow[a].token
            /\ entry'[a].co = entry[a].co
            /\ \A b \in Accounts \ {a} : entry'[b] = entry[b]
        BY <2>4, <3>1 DEF TypeOK, States
      <3>3. /\ newest' \in [Accounts -> Tokens \cup {None}] /\ newest'[a] = flow[a].token
            /\ \A b \in Accounts \ {a} : newest'[b] = newest[b]
        BY <2>4, <3>1 DEF TypeOK
      <3>4. TypeOK'  BY <2>1, <3>2, <3>3, EventsOK DEF TypeOK
      <3>5. OneLogin'  BY <2>1 DEF OneLogin, Holds
      <3>6. Quiet'  BY <1>2, <2>1, <2>2, <3>2 DEF Quiet
      <3>7. EventsWait'
        BY <2>1, <3>2 DEF EventsWait
      <3>8. IssuedNewest'
        BY <2>1, <2>2, <3>2, <3>3, CallParts DEF IssuedNewest, Own, Idle
      <3>9. NewestKept'
        <4> SUFFICES ASSUME NEW b \in Accounts, ~crossed[b],
                            \A q \in {b} \X Cos \X Kinds : call[q].at # "issued"
                     PROVE  /\ entry'[b].token = newest'[b]
                            /\ Active(b)' => token[b][entry'[b].co] = newest'[b]
          BY <2>1 DEF NewestKept, Active, Serving
        <4>1. CASE b = a  BY <3>2, <3>3, <4>1 DEF Active, Serving
        <4>2. CASE b # a  BY <3>2, <3>3, <4>2 DEF NewestKept, Active, Serving
        <4> QED  BY <4>1, <4>2
      <3>10. ServicesServe' /\ Found'  BY <2>1, <3>2 DEF ServicesServe, Found, Serving
      <3> QED  BY <3>4, <3>5, <3>6, <3>7, <3>8, <3>9, <3>10
    <2> QED  BY <1>6, <2>3, <2>4 DEF _enrich_with_mac
  <1> QED  BY <1>3, <1>4, <1>5, <1>6 DEF Flow

LEMMA StutterStep == IInv /\ UNCHANGED vars => IInv'
  BY DEF IInv, TypeOK, OneLogin, Holds, Quiet, EventsWait, IssuedNewest, Own, NewestKept, Serving,
         ServicesServe, Found, vars

LEMMA NextInv == IInv /\ [Next]_vars => IInv'
  <1> SUFFICES ASSUME IInv, [Next]_vars PROVE IInv'
    OBVIOUS
  <1>1. ASSUME NEW k \in Calls, Step(k)
        PROVE  IInv'
    BY <1>1, AnswerStep, AcquireStep, loginStep, reloginStep DEF Step
  <1>2. ASSUME NEW a \in Accounts,
               Load(a) \/ Flow(a) \/ Expire(a) \/ StartUnload(a) \/ async_cloud_action(a)
                 \/ \E kind \in Kinds : Poll(a, kind)
        PROVE  IInv'
    BY <1>2, SetupStep, ServicesStep, UnloadStep, AskStep, FlowStep DEF Load
  <1> QED  BY <1>1, <1>2, StutterStep DEF Next

-----------------------------------------------------------------------------
(* What the entries can rely on.                                           *)

\* The entries, their calls and their tokens are of their types.
THEOREM Types == Spec => []TypeOK
  <1>1. IInv => TypeOK  BY DEF IInv
  <1> QED  BY <1>1, InitInv, NextInv, PTL DEF Spec

\* Calls that are rejected together log in one after the other, and the entry and its
\* coordinator end up with the token issued last.
THEOREM NewestIsKept == Spec => []NewestKept
  <1>1. IInv => NewestKept  BY DEF IInv
  <1> QED  BY <1>1, InitInv, NextInv, PTL DEF Spec

\* Whatever order entries are loaded and unloaded in, the services are there for those
\* that are loaded, and gone without entries.
THEOREM ServicesAreThere == Spec => []ServicesServe
  <1>1. IInv => ServicesServe  BY DEF IInv
  <1> QED  BY <1>1, InitInv, NextInv, PTL DEF Spec

=============================================================================
