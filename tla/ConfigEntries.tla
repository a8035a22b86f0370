--------------------------- MODULE ConfigEntries ---------------------------
(***************************************************************************)
(* The integration as Home Assistant runs it, in                           *)
(* custom_components/aquara_local: the flow that makes an entry of an      *)
(* account (config_flow.py), setting entries up and unloading them         *)
(* (__init__.py), the services that they share (services.py), and the      *)
(* tokens that the calls of a coordinator (coordinator.py) use and renew   *)
(* (cloud.py).  What the calls read and write is in Coordinator.           *)
(*                                                                         *)
(* Every account is taken to have one lock; with more of them a poll is    *)
(* several calls in a row.                                                 *)
(***************************************************************************)
EXTENDS Naturals, FiniteSets

CONSTANTS
    Accounts,   \* accounts that entries are made for
    Tokens,     \* names for the tokens in use at once
    None,       \* no token
    MaxEvents,  \* bound: faults, unloadings, actions, second flows
    Faults,     \* the kinds of fault that may happen
    Busy        \* bound: accounts that faults befall and whose intervals run

ASSUME ParametersAssumption ==
    /\ None \notin Tokens /\ MaxEvents \in Nat
    /\ Faults \subseteq {"fail", "refuse", "lost", "expire", "end", "stuck"}
    /\ Busy \subseteq Accounts

\* Two coordinators of an account may be at work: the one of the entry, and one that
\* an unloaded entry has left in the middle of a call. Each has one status poll and
\* one event poll at a time, and one action (a command or a service).
Cos == {1, 2}
Kinds == {"status", "events", "action"}
Calls == Accounts \X Cos \X Kinds

VARIABLES
    valid,     \* tokens that the cloud accepts
    flow,      \* the configuration flow of an account and the token it has got
    entry,     \* the entry: its state, the token in its data, its coordinator
    token,     \* cloud.token of each coordinator
    call,      \* the calls of the coordinators
    data,      \* hass.data[DOMAIN]
    services,  \* has_service
    up,        \* whether the last status poll of the entry went well
    newest,    \* history: the last token issued to a coordinator or for the entry
    crossed,   \* history: a login of a coordinator that is not the entry's, or lost
    events     \* bound

vars == <<valid, flow, entry, token, call, data, services, up, newest, crossed, events>>

\* failed: the platforms did not unload (FAILED_UNLOAD), and nothing but a restart of Home
\* Assistant helps.
States == {"none", "notloaded", "refresh", "retry", "forward", "seed", "loaded", "unload",
           "failed"}
Serving == {"seed", "loaded", "unload", "failed"}
NoFlow == [at |-> "none", token |-> None]

\* sent is the token in the headers of the request, or the one a login has issued.
Call == [at : {"idle", "asked", "wait", "login", "issued", "again"}, sent : Tokens \cup {None}]
Idle == [at |-> "idle", sent |-> None]

TypeOK ==
    /\ valid \in [Accounts -> SUBSET Tokens]
    /\ flow \in [Accounts -> [at : {"none", "login", "list"}, token : Tokens \cup {None}]]
    /\ entry \in [Accounts -> [state : States, token : Tokens \cup {None}, co : Cos]]
    /\ token \in [Accounts -> [Cos -> Tokens \cup {None}]]
    /\ call \in [Calls -> Call]
    /\ data \subseteq Accounts /\ services \in BOOLEAN
    /\ up \in [Accounts -> BOOLEAN] /\ crossed \in [Accounts -> BOOLEAN]
    /\ newest \in [Accounts -> Tokens \cup {None}]
    /\ events \in 0..MaxEvents

Init ==
    /\ valid = [a \in Accounts |-> {}]
    /\ flow = [a \in Accounts |-> NoFlow]
    /\ entry = [a \in Accounts |-> [state |-> "none", token |-> None, co |-> 1]]
    /\ token = [a \in Accounts |-> [c \in Cos |-> None]]
    /\ call = [k \in Calls |-> Idle]
    /\ data = {} /\ services = FALSE
    /\ up = [a \in Accounts |-> FALSE] /\ crossed = [a \in Accounts |-> FALSE]
    /\ newest = [a \in Accounts |-> None]
    /\ events = 0

Happens == events < MaxEvents /\ events' = events + 1
Fault(a, kind) == a \in Busy /\ kind \in Faults /\ Happens

-----------------------------------------------------------------------------
(* The cloud.                                                              *)

\* Tokens of the account that anybody still knows.
Held(a) == {flow[a].token, entry[a].token, newest[a]} \cup {token[a][c] : c \in Cos}
               \cup {call[k].sent : k \in {a} \X Cos \X Kinds}
Unused(a) == CHOOSE n \in Tokens : n \notin Held(a)

\* A login leaves the sessions that there are alone, or ends them.
Issues(a, n) ==
    /\ n \in Tokens \ Held(a)   \* bound: a name for it is left
    /\ \/ valid' = [valid EXCEPT ![a] = (@ \cap Held(a)) \cup {n}] /\ UNCHANGED events
       \/ Fault(a, "end") /\ valid' = [valid EXCEPT ![a] = {n}]

\* A token ends by itself.
Expire(a) ==
    /\ valid[a] # {} /\ Fault(a, "expire")
    /\ valid' = [valid EXCEPT ![a] = {}]
    /\ UNCHANGED <<flow, entry, token, call, data, services, up, newest, crossed>>

-----------------------------------------------------------------------------
(* The configuration flow.                                                 *)

StartFlow(a) ==
    /\ flow[a].at = "none"
    /\ IF entry[a].state = "none" THEN UNCHANGED events ELSE Happens
    /\ flow' = [flow EXCEPT ![a].at = "login"]
    /\ UNCHANGED <<valid, entry, token, call, data, services, up, newest, crossed>>

FlowEnds(a) == flow' = [flow EXCEPT ![a] = NoFlow]

\* The account's id is that of the entry: a second flow for it is aborted.
async_step_user(a) ==
    /\ flow[a].at = "login"
    /\ \/ Issues(a, Unused(a))
          /\ IF entry[a].state # "none" THEN FlowEnds(a)
             ELSE flow' = [flow EXCEPT ![a] = [at |-> "list", token |-> Unused(a)]]
       \/ (Fault(a, "refuse") \/ Fault(a, "fail")) /\ FlowEnds(a) /\ UNCHANGED valid
    /\ UNCHANGED <<entry, token, call, data, services, up, newest, crossed>>

\* list_locks and a publickey for each lock; the entry is made if one was found.
_enrich_with_mac(a) ==
    /\ flow[a].at = "list" /\ FlowEnds(a)
    /\ \/ /\ flow[a].token \in valid[a] /\ UNCHANGED events
          /\ entry' = [entry EXCEPT ![a].state = "notloaded", ![a].token = flow[a].token]
          /\ newest' = [newest EXCEPT ![a] = flow[a].token]
       \/ /\ IF flow[a].token \in valid[a] THEN Fault(a, "fail") ELSE UNCHANGED events
          /\ UNCHANGED <<entry, newest>>
    /\ UNCHANGED <<valid, token, call, data, services, up, crossed>>

-----------------------------------------------------------------------------
(* A call of a coordinator: _with_auth_retry around a request.             *)

Co(k) == token[k[1]][k[2]]

Asks(k) == [call EXCEPT ![k] = [at |-> "asked", sent |-> Co(k)]]

\* Whether a call is of the coordinator that the entry has now.
Own(k) == k[2] = entry[k[1]].co

\* Defective variant: nothing keeps two logins apart.
LockFree_never(k) == TRUE

\* _relogin_lock.
LockFree(k) == \A kind \in Kinds : call[<<k[1], k[2], kind>>].at \notin {"login", "issued"}

\* What the end of a call means to the entry: the first status poll decides whether it
\* is set up, and whatever becomes of the seeding it is then loaded.
Ends(k, outcome) ==
    LET a == k[1] IN
    /\ call' = [call EXCEPT ![k] = Idle]
    /\ up' = IF Own(k) /\ k[3] = "status" THEN [up EXCEPT ![a] = outcome = "ok"] ELSE up
    /\ entry' = CASE Own(k) /\ k[3] = "status" /\ entry[a].state = "refresh" ->
                       [entry EXCEPT ![a].state = IF outcome = "auth" THEN "retry" ELSE "forward"]
                  [] Own(k) /\ k[3] = "events" /\ entry[a].state = "seed" ->
                       [entry EXCEPT ![a].state = "loaded"]
                  [] OTHER -> entry
    /\ data' = IF entry'[a].state = "forward" THEN data \cup {a} ELSE data

Accepted(k) == call[k].sent \in valid[k[1]]

\* The cloud decides on the token that was sent. A call is tried once more, after a
\* login of its own; one that fails otherwise is not.
Answer(k) ==
    LET a == k[1] IN
    /\ call[k].at \in {"asked", "again"}
    /\ \/ Accepted(k) /\ Ends(k, "ok") /\ UNCHANGED events
       \/ Fault(a, "fail") /\ Ends(k, "error")
       \/ /\ ~Accepted(k) /\ call[k].at = "again"
          /\ Ends(k, "auth") /\ UNCHANGED events
       \/ /\ ~Accepted(k) /\ call[k].at = "asked"
          /\ call' = [call EXCEPT ![k] = [at |-> IF LockFree(k) THEN "login" ELSE "wait",
                                          sent |-> None]]
          /\ UNCHANGED <<entry, data, up, events>>
    /\ UNCHANGED <<valid, flow, token, services, newest, crossed>>

Acquire(k) ==
    /\ call[k].at = "wait" /\ LockFree(k)
    /\ call' = [call EXCEPT ![k].at = "login"]
    /\ UNCHANGED <<valid, flow, entry, token, data, services, up, newest, crossed, events>>

\* The cloud logs in, or does not.
login_with_password(k) ==
    LET a == k[1] IN
    /\ call[k].at = "login"
    /\ \/ /\ Issues(a, Unused(a)) /\ newest' = [newest EXCEPT ![a] = Unused(a)]
          /\ call' = [call EXCEPT ![k] = [at |-> "issued", sent |-> Unused(a)]]
          /\ crossed' = [crossed EXCEPT ![a] = @ \/ ~Own(k)]
          /\ UNCHANGED <<entry, data, up>>
       \/ /\ Fault(a, "refuse") /\ Ends(k, "auth") /\ UNCHANGED <<valid, newest, crossed>>
       \/ /\ Fault(a, "fail") /\ Ends(k, "error") /\ UNCHANGED <<valid, newest, crossed>>
    /\ UNCHANGED <<flow, token, services>>

\* Defective variant: the token is saved, but the client keeps the old one.
_relogin_savedOnly(k) ==
    LET a == k[1] IN
    /\ call[k].at = "issued"
    /\ \/ /\ entry' = [entry EXCEPT ![a].token = call[k].sent]
          /\ call' = [call EXCEPT ![k].at = "again"]
          /\ crossed' = [crossed EXCEPT ![a] = @ \/ ~Own(k)]
          /\ UNCHANGED <<token, data, up, events>>
       \/ /\ Fault(a, "lost") /\ Ends(k, "error") /\ crossed' = [crossed EXCEPT ![a] = TRUE]
          /\ UNCHANGED token
    /\ UNCHANGED <<valid, flow, services, newest>>

\* The answer of the login: the token goes to the client and to the entry's data, also
\* when the entry has another coordinator by now, and the call is tried again.
_relogin(k) ==
    LET a == k[1] IN
    /\ call[k].at = "issued"
    /\ \/ /\ token' = [token EXCEPT ![a][k[2]] = call[k].sent]
          /\ entry' = [entry EXCEPT ![a].token = call[k].sent]
          /\ call' = [call EXCEPT ![k].at = "again"]
          /\ crossed' = [crossed EXCEPT ![a] = @ \/ ~Own(k)]
          /\ UNCHANGED <<data, up, events>>
       \/ /\ Fault(a, "lost") /\ Ends(k, "error") /\ crossed' = [crossed EXCEPT ![a] = TRUE]
          /\ UNCHANGED token
    /\ UNCHANGED <<valid, flow, services, newest>>

-----------------------------------------------------------------------------
(* Setting up and unloading.                                               *)

\* A coordinator with the token of the entry; its first poll is waited for.
async_setup_entry(a) ==
    /\ entry[a].state \in {"notloaded", "retry"}
    /\ \E c \in Cos :
          /\ \A kind \in Kinds : call[<<a, c, kind>>] = Idle
          /\ c = 1 \/ \E kind \in Kinds : call[<<a, 1, kind>>] # Idle
          /\ entry' = [entry EXCEPT ![a].state = "refresh", ![a].co = c]
          /\ token' = [token EXCEPT ![a][c] = entry[a].token]
          /\ call' = [call EXCEPT ![<<a, c, "status">>] =
                                    [at |-> "asked", sent |-> entry[a].token]]
    /\ UNCHANGED <<valid, flow, data, services, up, newest, crossed, events>>

\* When the platforms are set up the services are registered, unless they are, and the
\* baseline of the events is read.
async_setup_services(a) ==
    /\ entry[a].state = "forward"
    /\ services' = TRUE
    /\ entry' = [entry EXCEPT ![a].state = "seed"]
    /\ call' = Asks(<<a, entry[a].co, "events">>)
    /\ UNCHANGED <<valid, flow, token, data, up, newest, crossed, events>>

\* The intervals; the one of the events begins after the baseline.
Poll(a, kind) ==
    LET k == <<a, entry[a].co, kind>> IN
    /\ entry[a].state \in (IF kind = "status" THEN Serving ELSE Serving \ {"seed"})
    /\ a \in Busy /\ kind # "action" /\ call[k] = Idle /\ call' = Asks(k)
    /\ UNCHANGED <<valid, flow, entry, token, data, services, up, newest, crossed, events>>

\* A service finds the coordinator of the lock in the integration's data.
_resolve(a) == services /\ a \in data

\* A service, or a command of the lock's entity, which is there as long.
async_cloud_action(a) ==
    LET k == <<a, entry[a].co, "action">> IN
    /\ _resolve(a) /\ call[k] = Idle /\ Happens
    /\ call' = Asks(k)
    /\ UNCHANGED <<valid, flow, entry, token, data, services, up, newest, crossed>>

StartUnload(a) ==
    /\ entry[a].state = "loaded" /\ Happens
    /\ entry' = [entry EXCEPT ![a].state = "unload"]
    /\ UNCHANGED <<valid, flow, token, call, data, services, up, newest, crossed>>

async_unload_services(left) == services' = (services /\ left # {})

\* Defective variant: the services go with any entry.
async_unload_entry_all(a) ==
    /\ entry[a].state = "unload"
    /\ data' = data \ {a} /\ services' = FALSE
    /\ entry' = [entry EXCEPT ![a].state = "notloaded"]
    /\ UNCHANGED <<valid, flow, token, call, up, newest, crossed, events>>

\* The intervals end, calls in progress do not. The services go with the last entry. If
\* the platforms do not unload, the entry keeps its coordinator and its intervals.
async_unload_entry(a) ==
    /\ entry[a].state = "unload"
    /\ \/ /\ data' = data \ {a} /\ async_unload_services(data')
          /\ entry' = [entry EXCEPT ![a].state = "notloaded"] /\ UNCHANGED events
       \/ /\ Fault(a, "stuck") /\ UNCHANGED <<data, services>>
          /\ entry' = [entry EXCEPT ![a].state = "failed"]
    /\ UNCHANGED <<valid, flow, token, call, up, newest, crossed>>

-----------------------------------------------------------------------------
Step(k) == Answer(k) \/ Acquire(k) \/ login_with_password(k) \/ _relogin(k)
Load(a) == async_setup_entry(a) \/ async_setup_services(a) \/ async_unload_entry(a)
Flow(a) == StartFlow(a) \/ async_step_user(a) \/ _enrich_with_mac(a)

Next == \/ \E k \in Calls : Step(k)
        \/ \E a \in Accounts : \/ Load(a) \/ Flow(a) \/ Expire(a) \/ StartUnload(a)
                               \/ async_cloud_action(a) \/ \E kind \in Kinds : Poll(a, kind)

Spec == Init /\ [][Next]_vars

\* Requests are answered or fail, the lock is handed on, Home Assistant sets entries up,
\* again after a while if they were not ready, and the intervals go on.
FairSpec == /\ Spec
            /\ \A k \in Calls : WF_vars(Step(k))
            /\ \A a \in Accounts : WF_vars(Load(a)) /\ WF_vars(Poll(a, "status"))

-----------------------------------------------------------------------------
(* Properties.                                                             *)

\* However calls are rejected together, the token that the entry keeps and its
\* coordinator uses is the one issued last: logins do not overtake each other. Except
\* after one of a coordinator that was left over, or one whose answer was lost.
NewestKept ==
    \A a \in Accounts :
        ~crossed[a] /\ (\A k \in {a} \X Cos \X Kinds : call[k].at # "issued")
            => /\ entry[a].token = newest[a]
               /\ entry[a].state \in {"refresh", "forward"} \cup Serving
                    => token[a][entry[a].co] = newest[a]

\* The services are there while any entry is loaded, and its coordinator is found by
\* them; without entries they are gone, however entries come and go beside each other.
ServicesServe ==
    /\ \A a \in Accounts : entry[a].state \in Serving => services /\ a \in data
    /\ services => data # {}

\* Once tokens end and calls fail no more, an entry that there is gets loaded and is then
\* polled successfully for good: the logins of its calls come to an end, and whatever an
\* unloaded coordinator left over still does, the entry's own finds a token that works.
\* Except an entry that did not unload.
ComesBack ==
    \A a \in Accounts :
        <>[](entry[a].state \notin {"none", "failed"} => entry[a].state = "loaded" /\ up[a])

=============================================================================
