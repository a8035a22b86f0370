----------------------------- MODULE LockScreen -----------------------------
(***************************************************************************)
(* Managing the users of a lock from the phone:                            *)
(* app/src/screens/LockDetailScreen.tsx over cloud/AqaraCloud.ts and       *)
(* cloud/lockmeta.ts.  The page shows what the cloud knew when it last     *)
(* loaded, and an operation acts on what is shown: on the lock over        *)
(* Bluetooth and on the cloud after it, or on the cloud alone, whose       *)
(* changes the hub carries to the lock.  What the calls of the controller  *)
(* do to the lock is what PhoneSession lets them do.                       *)
(***************************************************************************)
EXTENDS Integers, FiniteSets, FiniteSetsExt, Functions

CONSTANTS
    MaxUid,    \* bound: slots of the lock
    MaxGid,    \* bound: users (groups of credentials)
    MaxOps,    \* bound: operations
    MaxPulls,  \* bound: times the user pulls to refresh
    MaxFaults  \* bound: calls that fail or are lost

Parameters ==
    /\ MaxUid \in Nat \ {0, 1} /\ MaxGid \in Nat \ {0}
    /\ {MaxOps, MaxPulls, MaxFaults} \subseteq Nat

VARIABLES
    lock,     \* slots of the lock: whose they are and until when they open it
    cloud,    \* groups and credentials that the cloud knows
    due,      \* slots whose change in the cloud the hub has still to carry to the lock
    shown,    \* groups and creds of the page
    loads,    \* runs of load: pulled by the user (or the first), and of the operation
    ops,      \* the operation of the page, and one that a page left behind
    ready,    \* sessionReady
    want,     \* history: the validity last set, for each slot
    spoiled,  \* history: slots of an operation that failed, was left or acted on old data,
              \*   and slots given again while a change of them was due
    nops, pulls, faults  \* bounds

vars == <<lock, cloud, due, shown, loads, ops, ready, want, spoiled, nops, pulls, faults>>
bounds == <<nops, pulls, faults>>

Uids == 1..MaxUid
Gids == 1..MaxGid
Until == {"forever", "past"}

\* validRange names the slot that it is for; an empty one does not limit.
NoRange == [uid |-> 0, until |-> "forever"]
Ranges == [uid : Uids, until : Until] \cup {NoRange}

\* A credential's typeValue holds its type and its slot, by which it is known here.
Credentials == [group : Gids, range : Ranges]
Slot == [group : Gids, until : Until]

\* The partial functions from slots.
Known(S) == UNION {[D -> S] : D \in SUBSET Uids}
None == [u \in {} |-> NoRange]
Without(f, D) == Restrict(f, DOMAIN f \ D)
With(f, u, v) == [w \in DOMAIN f \cup {u} |-> IF w = u THEN v ELSE f[w]]

Nothing == [groups |-> {}, creds |-> None]
Unasked == [at |-> "none", c |-> FALSE, g |-> FALSE, creds |-> None, groups |-> {}]
Kinds == {"validity", "rename", "renameUser", "delete", "password", "user", "deleteUser"}
Idle == [kind |-> "none", at |-> "idle", group |-> 1, items |-> None, ranges |-> None,
         todo |-> {}, uid |-> 0]

Load == [at : {"none", "asked"}, c : BOOLEAN, g : BOOLEAN, creds : Known(Credentials),
         groups : SUBSET Gids]
Operations == [kind : Kinds \cup {"none"}, at : {"idle", "ble", "cloud", "mirror", "load"},
               group : Gids, items : Known(Credentials), ranges : Known(Ranges),
               todo : SUBSET Uids, uid : 0..MaxUid]

TypeOK ==
    /\ lock \in Known(Slot)
    /\ cloud \in [groups : SUBSET Gids, creds : Known(Credentials)]
    /\ shown \in [groups : SUBSET Gids, creds : Known(Credentials)]
    /\ due \subseteq Uids /\ spoiled \subseteq Uids
    /\ loads \in [{"page", "op"} -> Load]
    /\ ops \in [{"front", "behind"} -> Operations]
    /\ ready \in BOOLEAN /\ want \in Known(Until)
    /\ nops \in 0..MaxOps /\ pulls \in 0..MaxPulls /\ faults \in 0..MaxFaults

\* One user with two credentials, the lock and the cloud of one mind, and the first load.
Init ==
    /\ \E r \in {NoRange, [uid |-> 1, until |-> "forever"]} :
          cloud = [groups |-> {1}, creds |-> [u \in 1..2 |-> [group |-> 1,
                      range |-> IF u = 1 THEN r ELSE NoRange]]]
    /\ lock = [u \in 1..2 |-> [group |-> 1, until |-> "forever"]]
    /\ shown = Nothing
    /\ loads = [page |-> [Unasked EXCEPT !.at = "asked"], op |-> Unasked]
    /\ ops = [front |-> Idle, behind |-> Idle]
    /\ due = {} /\ ready = FALSE /\ want = [u \in {} |-> "forever"] /\ spoiled = {}
    /\ nops = 0 /\ pulls = 0 /\ faults = 0

Fault == faults < MaxFaults /\ faults' = faults + 1

-----------------------------------------------------------------------------
(* Validity, as lockmeta.ts encodes it.                                    *)

\* The low half of typeValue.
credUserId(u) == u

\* Disabling and enabling change the end of the stored range, or start one.
disabledValidRange(u, c) ==
    IF c.range # NoRange THEN [c.range EXCEPT !.until = "past"]
                         ELSE [uid |-> credUserId(u), until |-> "past"]
enabledValidRange(u, c) ==
    IF c.range # NoRange THEN [c.range EXCEPT !.until = "forever"]
                         ELSE [uid |-> credUserId(u), until |-> "forever"]
buildUserValidRange(u, until) == [uid |-> credUserId(u), until |-> until]

\* Defective variant: the range of a new password is for its user, not for its slot.
permanentValidRangeForUserId_group(o) == [uid |-> o.group, until |-> "forever"]
permanentValidRangeForUserId(o) == [uid |-> o.uid, until |-> "forever"]

\* A user is shown with the validity of the first credential that has one.
userDisabled(items) ==
    \E u \in DOMAIN items : /\ items[u].range.until = "past"
                            /\ \A v \in DOMAIN items : v < u => items[v].range = NoRange

-----------------------------------------------------------------------------
(* What the lock and the cloud make of a call.                             *)

\* 03/21: each range goes to the slot it names.
SetSlots(l, R) ==
    [u \in DOMAIN l |-> IF \E r \in R : r.uid = u
                        THEN [l[u] EXCEPT !.until = (CHOOSE r \in R : r.uid = u).until]
                        ELSE l[u]]

Agrees(l, c, u) ==
    /\ u \in DOMAIN l <=> u \in DOMAIN c
    /\ u \in DOMAIN l => l[u] = [group |-> c[u].group, until |-> c[u].range.until]

\* The cloud changes, and the hub is told of the slots of the lock that this is about.
Tell(c, U) ==
    /\ cloud' = c
    /\ due' = due \cup {u \in U \cap DOMAIN lock : ~Agrees(lock, c.creds, u)}

Sync == \E u \in due :
    /\ due' = due \ {u}
    /\ lock' = IF u \notin DOMAIN cloud.creds THEN Without(lock, {u})
               ELSE IF u \in DOMAIN lock
                    THEN [lock EXCEPT ![u].until = cloud.creds[u].range.until]
                    ELSE lock
    /\ UNCHANGED <<cloud, shown, loads, ops, ready, want, spoiled, bounds>>

\* Defective variant: a credential is saved with a range whether it has one or not.
updateCredential_always(u, c, range) ==
    IF u \notin DOMAIN cloud.creds THEN cloud
    ELSE [cloud EXCEPT !.creds[u].range =
             IF range = NoRange THEN [uid |-> u, until |-> "forever"] ELSE range]

\* What is not given is sent as the page has it, and an empty range is not sent. The
\* cloud knows nothing to update if the credential is gone.
updateCredential(u, c, range) ==
    LET vr == IF range = NoRange THEN c.range ELSE range
    IN  IF u \in DOMAIN cloud.creds /\ vr # NoRange
        THEN [cloud EXCEPT !.creds[u].range = vr]
        ELSE cloud

deleteCredential(u) == [cloud EXCEPT !.creds = Without(@, {u})]
createUserGroup(g) == [cloud EXCEPT !.groups = @ \cup {g}]
addCredentialMeta(o) ==
    [cloud EXCEPT !.creds =
        With(@, o.uid, [group |-> o.group, range |-> permanentValidRangeForUserId(o)])]
OfGroup(creds, g) == {u \in DOMAIN creds : creds[u].group = g}
deleteUserGroupCloud(g) ==
    [groups |-> cloud.groups \ {g}, creds |-> Without(cloud.creds, OfGroup(cloud.creds, g))]

\* The least number that no group of the page has.
nextFreeGroupId == LET free == Gids \ shown.groups
                   IN  IF free = {} THEN 1 ELSE Min(free)

-----------------------------------------------------------------------------
(* load: four requests at once, each of them empty if it fails or takes    *)
(* longer than 4.5 s; the page shows them when all are settled.            *)

Ask(r) == loads' = [loads EXCEPT ![r] = [Unasked EXCEPT !.at = "asked"]]

pullToRefresh ==
    /\ pulls < MaxPulls /\ pulls' = pulls + 1
    /\ loads["page"].at = "none" /\ Ask("page")
    /\ UNCHANGED <<lock, cloud, due, shown, ops, ready, want, spoiled, nops, faults>>

Answer(r) ==
    /\ loads[r].at = "asked"
    /\ \/ /\ ~loads[r].c /\ UNCHANGED faults
          /\ loads' = [loads EXCEPT ![r].c = TRUE, ![r].creds = cloud.creds]
       \/ /\ ~loads[r].g /\ UNCHANGED faults
          /\ loads' = [loads EXCEPT ![r].g = TRUE, ![r].groups = cloud.groups]
       \/ ~loads[r].c /\ Fault /\ loads' = [loads EXCEPT ![r].c = TRUE]
       \/ ~loads[r].g /\ Fault /\ loads' = [loads EXCEPT ![r].g = TRUE]
    /\ UNCHANGED <<lock, cloud, due, shown, ops, ready, want, spoiled, nops, pulls>>

\* The operation ends with its load. A page that was left shows nothing.
Show(r) ==
    /\ loads[r].c /\ loads[r].g
    /\ loads' = [loads EXCEPT ![r] = Unasked]
    /\ shown' = [groups |-> loads[r].groups, creds |-> loads[r].creds]
    /\ ops' = IF r = "op" THEN [ops EXCEPT !["front"] = Idle] ELSE ops
    /\ UNCHANGED <<lock, cloud, due, ready, want, spoiled, bounds>>

-----------------------------------------------------------------------------
(* The page: what the user can ask for, from what is shown.                *)

Connected ==
    /\ ~ready /\ ready' = TRUE
    /\ UNCHANGED <<lock, cloud, due, shown, loads, ops, want, spoiled, bounds>>

ItemsOf(g) == Restrict(shown.creds, OfGroup(shown.creds, g))

\* The operation acts on credentials or a user that are no longer as shown.
Outdated(o) ==
    \/ o.group \notin cloud.groups
    \/ \E u \in DOMAIN o.items : u \notin DOMAIN cloud.creds \/ cloud.creds[u] # o.items[u]

Starts(o) ==
    /\ ops["front"] = Idle /\ nops < MaxOps /\ nops' = nops + 1
    /\ ops' = [ops EXCEPT !["front"] = o]
    /\ spoiled' = IF (o.kind # "user" /\ Outdated(o)) \/ ops["behind"] # Idle
                  THEN spoiled \cup DOMAIN o.items ELSE spoiled
    /\ UNCHANGED <<lock, cloud, due, shown, loads, ready, want, pulls, faults>>

\* A range for each credential of the user.
runValidity(g, ranges) ==
    /\ ItemsOf(g) # None
    /\ Starts([Idle EXCEPT !.kind = "validity", !.at = IF ready THEN "ble" ELSE "cloud",
                 !.group = g, !.items = ItemsOf(g), !.todo = DOMAIN ItemsOf(g),
                 !.ranges = ranges])

\* "Disable" or "Enable", whichever the user is not.
doGroupToggle(g) ==
    LET items == ItemsOf(g)
    IN  runValidity(g, [u \in DOMAIN items |->
            IF userDisabled(items) THEN enabledValidRange(u, items[u])
                                   ELSE disabledValidRange(u, items[u])])

submitUserValidity(g) ==
    \E until \in Until :
        runValidity(g, [u \in DOMAIN ItemsOf(g) |-> buildUserValidRange(u, until)])

\* Rename and delete a credential, rename a user: in the cloud only.
runWrite(kind, g, items) ==
    Starts([Idle EXCEPT !.kind = kind, !.at = "cloud", !.group = g, !.items = items,
               !.todo = DOMAIN items])

submitCreatePassword(g) ==
    /\ ready
    /\ Starts([Idle EXCEPT !.kind = "password", !.at = "ble", !.group = g])

submitCreateUser ==
    Starts([Idle EXCEPT !.kind = "user", !.at = "cloud", !.group = nextFreeGroupId])

doDeleteUser(g) ==
    Starts([Idle EXCEPT !.kind = "deleteUser", !.at = IF ready THEN "ble" ELSE "cloud",
               !.group = g, !.items = ItemsOf(g)])

CredentialSheet(g, u) ==
    \E kind \in {"rename", "delete"} : runWrite(kind, g, Restrict(shown.creds, {u}))

UserSheet(g) == \/ submitUserValidity(g) \/ doGroupToggle(g) \/ submitCreatePassword(g)
                \/ runWrite("renameUser", g, None) \/ doDeleteUser(g)

User == \/ submitCreateUser
        \/ \E g \in shown.groups :
              UserSheet(g) \/ \E u \in DOMAIN ItemsOf(g) : CredentialSheet(g, u)

\* The slots that an operation is about.
SlotsOf(o) ==
    DOMAIN o.items \cup ({o.uid} \ {0})
    \cup (IF o.kind = "deleteUser" THEN OfGroup(cloud.creds, o.group) ELSE {})

\* Going back closes the Bluetooth session, not the operation; the page is opened again.
Leave ==
    /\ ops["front"] # Idle /\ ops["behind"] = Idle
    /\ ops' = [front |-> Idle,
               behind |-> IF ops["front"].at = "load" THEN Idle ELSE ops["front"]]
    /\ spoiled' = IF ops["front"].at = "load" THEN spoiled
                  ELSE spoiled \cup SlotsOf(ops["front"])
    /\ loads' = [page |-> [Unasked EXCEPT !.at = "asked"], op |-> Unasked]
    /\ shown' = Nothing /\ ready' = FALSE
    /\ UNCHANGED <<lock, cloud, due, want, bounds>>

-----------------------------------------------------------------------------
(* The operation over Bluetooth.                                           *)

Ends(s) == ops' = [ops EXCEPT ![s] = Idle] /\ UNCHANGED loads
Goes(s, o) == ops' = [ops EXCEPT ![s] = o] /\ UNCHANGED loads
Spoil(U) == spoiled' = spoiled \cup U

\* The session of a page that was left is closed.
Broken(s) == IF s = "front" THEN Fault ELSE UNCHANGED faults

\* The lock obeys all of it, or obeys some and the count of acknowledgements is not
\* looked at, or the link breaks before the end.
setValidity(s) ==
    LET o == ops[s]
        Sent(D) == SetSlots(lock, {o.ranges[u] : u \in D})
    IN  /\ o.kind = "validity" /\ o.at = "ble"
        /\ \/ /\ s = "front" /\ lock' = Sent(DOMAIN o.ranges) /\ Goes(s, [o EXCEPT !.at = "cloud"])
              /\ UNCHANGED <<faults, spoiled>>
           \/ \E D \in SUBSET DOMAIN o.ranges :
                 /\ lock' = Sent(D)
                 /\ \/ /\ s = "front" /\ Fault /\ Goes(s, [o EXCEPT !.at = "cloud"])
                       /\ UNCHANGED spoiled
                    \/ Broken(s) /\ Ends(s) /\ Spoil(DOMAIN o.ranges)
        /\ UNCHANGED <<cloud, due, shown, ready, want, nops, pulls>>

\* The lock chooses the slot and reports it, unless the link breaks before. The hub may
\* have a change still to carry that was made when the slot was another's.
createPassword(s) ==
    LET o == ops[s]
        free == Uids \ DOMAIN lock
    IN  /\ o.kind = "password" /\ o.at = "ble"
        /\ \/ /\ s = "front" /\ free # {} /\ UNCHANGED faults /\ Spoil({Min(free)} \cap due)
              /\ lock' = With(lock, Min(free), [group |-> o.group, until |-> "forever"])
              /\ Goes(s, [o EXCEPT !.at = "cloud", !.uid = Min(free)])
           \/ /\ free # {} /\ Broken(s) /\ Ends(s) /\ Spoil({Min(free)})
              /\ lock' = With(lock, Min(free), [group |-> o.group, until |-> "forever"])
           \/ /\ IF free = {} THEN UNCHANGED faults ELSE Broken(s)
              /\ Ends(s) /\ UNCHANGED <<lock, spoiled>>
        /\ UNCHANGED <<cloud, due, shown, ready, want, nops, pulls>>

\* Nothing tells whether the lock has deleted the user.
deleteUserGroup(s) ==
    LET o == ops[s]
        gone == Without(lock, {u \in DOMAIN lock : lock[u].group = o.group})
    IN  /\ o.kind = "deleteUser" /\ o.at = "ble"
        /\ \/ /\ s = "front" /\ lock' = gone /\ Goes(s, [o EXCEPT !.at = "mirror"])
              /\ UNCHANGED <<faults, spoiled>>
           \/ /\ s = "front" /\ Fault /\ Goes(s, [o EXCEPT !.at = "mirror"])
              /\ UNCHANGED <<lock, spoiled>>
           \/ Broken(s) /\ lock' \in {lock, gone} /\ Ends(s) /\ Spoil(DOMAIN lock \ DOMAIN lock')
        /\ UNCHANGED <<cloud, due, shown, ready, want, nops, pulls>>

-----------------------------------------------------------------------------
(* The operation in the cloud.                                             *)

\* A call that fails may have been carried out all the same.
Failed(c, U) == Fault /\ Spoil(U) /\ (Tell(c, U) \/ UNCHANGED <<cloud, due>>)
Written(c, U) == (Tell(c, U) /\ UNCHANGED <<faults, spoiled>>) \/ Failed(c, U)

\* After the last write the page loads, which nobody waits for on a page that was left.
Loads(s) ==
    IF s = "front" THEN ops' = [ops EXCEPT ![s].at = "load", ![s].todo = {}] /\ Ask("op")
                   ELSE Ends(s)

\* Defective variant: only one credential is mirrored in the cloud.
mirror_first(s) ==
    LET o == ops[s]
        u == Min(o.todo)
    IN  /\ o.kind = "validity" /\ o.at = "cloud" /\ o.todo # {}
        /\ Written(updateCredential(u, o.items[u], o.ranges[u]), {u})
        /\ Goes(s, [o EXCEPT !.todo = {}])
        /\ want' = With(want, u, o.ranges[u].until)
        /\ UNCHANGED <<lock, shown, ready, nops, pulls>>

\* One credential after the other; one that fails does not stop the rest.
mirror(s) ==
    LET o == ops[s]
        u == Min(o.todo)
    IN  /\ o.kind = "validity" /\ o.at = "cloud" /\ o.todo # {}
        /\ Written(updateCredential(u, o.items[u], o.ranges[u]), {u})
        /\ Goes(s, [o EXCEPT !.todo = @ \ {u}])
        /\ want' = With(want, u, o.ranges[u].until)
        /\ UNCHANGED <<lock, shown, ready, nops, pulls>>

mirrored(s) ==
    /\ ops[s].kind = "validity" /\ ops[s].at = "cloud" /\ ops[s].todo = {} /\ Loads(s)
    /\ UNCHANGED <<lock, cloud, due, shown, ready, want, spoiled, bounds>>

\* A write of runWrite or of a new user: if it fails, the page does not load.
write(s) ==
    LET o == ops[s]
        u == Min(o.todo)
        c == CASE o.kind = "rename" -> updateCredential(u, o.items[u], NoRange)
               [] o.kind = "delete" -> deleteCredential(u)
               [] o.kind = "user"   -> createUserGroup(o.group)
               [] OTHER             -> cloud
    IN  /\ o.kind \in {"rename", "renameUser", "delete", "user"} /\ o.at = "cloud"
        /\ \/ Tell(c, o.todo) /\ Loads(s) /\ UNCHANGED <<faults, spoiled>>
           \/ Failed(c, o.todo) /\ Ends(s)
        /\ UNCHANGED <<lock, shown, ready, want, nops, pulls>>

\* The cloud may refuse a credential of a user that it does not have.
metadata(s) ==
    LET o == ops[s]
    IN  /\ o.kind = "password" /\ o.at = "cloud"
        /\ \/ /\ Tell(addCredentialMeta(o), {o.uid}) /\ Loads(s)
              /\ want' = With(want, o.uid, "forever") /\ UNCHANGED faults
              /\ Spoil(IF o.group \in cloud.groups THEN {} ELSE {o.uid})
           \/ Failed(addCredentialMeta(o), {o.uid}) /\ Ends(s) /\ UNCHANGED want
           \/ /\ o.group \notin cloud.groups /\ Ends(s) /\ Spoil({o.uid})
              /\ UNCHANGED <<cloud, due, want, faults>>
        /\ UNCHANGED <<lock, shown, ready, nops, pulls>>

\* Over Bluetooth the cloud is only told, whatever comes of it; alone it has to agree.
deleteUser(s) ==
    LET o == ops[s]
        U == OfGroup(cloud.creds, o.group)
        c == deleteUserGroupCloud(o.group)
    IN  /\ o.kind = "deleteUser" /\ o.at \in {"mirror", "cloud"}
        /\ \/ Tell(c, U) /\ Loads(s) /\ UNCHANGED <<faults, spoiled>>
           \/ Failed(c, U) /\ (IF o.at = "mirror" THEN Loads(s) ELSE Ends(s))
        /\ UNCHANGED <<lock, shown, ready, want, nops, pulls>>

-----------------------------------------------------------------------------
Step(s) == \/ setValidity(s) \/ createPassword(s) \/ deleteUserGroup(s) \/ mirror(s)
           \/ mirrored(s) \/ write(s) \/ metadata(s) \/ deleteUser(s)
Loading(r) == Answer(r) \/ Show(r)

Next == \/ User \/ Leave \/ Connected \/ pullToRefresh \/ Sync
        \/ \E r \in {"page", "op"} : Loading(r)
        \/ \E s \in {"front", "behind"} : Step(s)

Spec == Init /\ [][Next]_vars

-----------------------------------------------------------------------------
(* Properties.                                                             *)

Done == \A s \in {"front", "behind"} : ops[s] = Idle

\* Between operations the lock and the cloud agree on every slot: which credentials
\* there are, whose, and until when.  The exceptions are what the hub has still to carry,
\* slots of an operation that failed, was left, or acted on what was no longer so, and
\* slots that the lock gave again before the hub had carried an old change of them.
Agree == Done => \A u \in Uids \ (due \cup spoiled) : Agrees(lock, cloud.creds, u)

\* The validity last set for a credential is the one the lock enforces: no later rename,
\* new password or deletion of another credential changes it, with the same exceptions.
LastSetHolds ==
    Done => \A u \in (DOMAIN want \cap DOMAIN lock) \ (due \cup spoiled) :
               lock[u].until = want[u]

\* What the cloud keeps as the validity of a credential is for its own slot, so that to
\* disable it can never disable another.
OwnSlot == \A u \in DOMAIN cloud.creds : cloud.creds[u].range \in [uid : {u}, until : Until]
                                                                      \cup {NoRange}

=============================================================================
