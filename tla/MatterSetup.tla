---------------------------- MODULE MatterSetup ----------------------------
(***************************************************************************)
(* The setup that keeps the automations of the Aqara hubs as the add-on    *)
(* wants them (addon/app/lib/matterSetup.server.ts): cloudLoop runs it     *)
(* after every login, the web page whenever it is opened, and nothing      *)
(* keeps two runs apart.  A run handles one hub after the other.  For each *)
(* it lists the automations of the hub's home, builds what the hub's locks *)
(* should have, and, where the names differ, deletes all that it listed    *)
(* and creates what it built.  At the end it saves and registers the       *)
(* levels that tell who opened a lock.  An action is what a run does       *)
(* between two awaits; a call to the cloud happens at one instant.         *)
(*                                                                         *)
(* Below the cloud, automations set the level of the lock's virtual light; *)
(* LightLevels says what the levels mean.                                  *)
(***************************************************************************)
EXTENDS Integers, FiniteSets

CONSTANTS
    Locks,       \* the locks of the account
    Hubs,        \* the hubs that can commission Matter devices
    Homes,       \* the homes of the account
    HomeOf,      \* the home of each lock and hub
    ParentOf,    \* the hub each lock is bound to, or NoHub
    NoHub,       \* a lock without parentDeviceId
    Loop,        \* the run of cloudLoop
    Webs,        \* the runs of the web page
    Marks,       \* tell apart the automations of different runs: part of linkageId
    NameOf,      \* the name of each lock
    Static,      \* levels of EVENT_LEVELS whose trigger the lock has, and 0: light on
    Creds,       \* credentials that can be enrolled: typeValue, as a number
    LabelOf,     \* how a credential is shown: "Vân tay — Ba"
    Silent,      \* credentials of a kind the lock has no trigger for
    First, Last, \* the levels for credentials: 60..99
    Old,         \* automations that an earlier version may have left
    MaxEvents,   \* bound: runs of the web page, credentials changed, crashes, faults
    Faults       \* the kinds of fault that may happen

Runs == {Loop} \cup Webs

\* What an automation does: an event of a lock, one of the fixed ones or the use
\* of a credential, sets a level.
Item == [lock : Locks, event : Nat, level : Nat]

\* An automation in the cloud. A run creates an item once, so its mark and the
\* item stand for the linkageId.
Automation == [mark : Marks, home : Homes, item : Item]

ASSUME ParametersAssumption ==
    /\ HomeOf \in [Locks \cup Hubs -> Homes]
    /\ ParentOf \in [Locks -> Hubs \cup {NoHub}]
    /\ Loop \notin Webs
    /\ Static \in [Locks -> SUBSET (0..First - 1)] /\ \A l \in Locks : 0 \in Static[l]
    /\ First \in Nat \ {0} /\ Last \in Nat
    /\ Creds \subseteq Nat \ (0..First - 1) /\ IsFiniteSet(Creds) /\ Silent \subseteq Creds
    /\ Old \subseteq Item
    /\ MaxEvents \in Nat
    /\ Faults \subseteq {"list", "creds", "lock", "delete", "create", "save", "abort"}

VARIABLES
    autos,    \* the add-on's automations in the cloud: their names begin with "[addon]"
    creds,    \* the credentials enrolled in each lock
    up,       \* whether the add-on runs
    run,      \* the activations of runMatterSetup
    dynamic,  \* DYNAMIC_INDEX: what the levels from First on mean
    saved,    \* credLevels in the configuration file
    \* bounds
    webs, changes, crashes, faults

vars == <<autos, creds, up, run, dynamic, saved, webs, changes, crashes, faults>>

-----------------------------------------------------------------------------
(* What a run builds.                                                      *)

\* The locks whose parent is the hub; if there are none, those of the home that
\* have no parent.
locksBoundToHub(h) ==
    LET byParent == {l \in Locks : ParentOf[l] = h}
    IN IF byParent # {} THEN byParent
       ELSE {l \in Locks : HomeOf[l] = HomeOf[h] /\ ParentOf[l] = NoHub}

\* The credentials are sorted by typeValue and take one level each; when the
\* levels are used up, the rest gets none.
credLevel_fromZero(read, c) == Cardinality({d \in read : d < c})
credLevel(read, c) == First + Cardinality({d \in read : d < c})

Placed(read) == {c \in read : credLevel(read, c) <= Last}

StaticItems(l) == {[lock |-> l, event |-> e, level |-> e] : e \in Static[l]}

CredItems(l, read) ==
    {[lock |-> l, event |-> c, level |-> credLevel(read, c)] : c \in Placed(read) \ Silent}

\* What the automations of a lock should be, by the credentials that were read.
Wanted(l, read) == StaticItems(l) \cup CredItems(l, read)

\* The name shows the lock, the event's label and the level.
Name(i) == <<NameOf[i.lock], IF i.event \in Creds THEN LabelOf[i.event] ELSE i.event, i.level>>

\* cfgCredLevels: what the levels mean. Those added later replace the earlier.
Meanings == UNION {[D -> {LabelOf[c] : c \in Creds}] : D \in SUBSET (First..Last)}
NoLevels == [n \in {} |-> n]

registerDynamicLevels_kept(new, old) ==
    [n \in DOMAIN old \cup DOMAIN new |-> IF n \in DOMAIN old THEN old[n] ELSE new[n]]
registerDynamicLevels(new, old) ==
    [n \in DOMAIN old \cup DOMAIN new |-> IF n \in DOMAIN new THEN new[n] ELSE old[n]]

LevelsOf(items) ==
    [n \in {i.level : i \in items} |-> LabelOf[(CHOOSE i \in items : i.level = n).event]]

-----------------------------------------------------------------------------
(* A run: between two hubs, building what the locks of a hub should have,   *)
(* creating it.                                                             *)
Idle == [at |-> "idle"]
Choosing == [at : {"hubs"}, hubs : SUBSET Hubs, levels : Meanings]
Building == [at : {"locks"}, hubs : SUBSET Hubs, levels : Meanings, hub : Hubs,
             locks : SUBSET Locks, existing : SUBSET Automation, desired : SUBSET Item]
Creation == [at : {"create"}, hubs : SUBSET Hubs, levels : Meanings, hub : Hubs,
             todo : SUBSET Item, mark : Marks]

TypeOK ==
    /\ autos   \subseteq Automation
    /\ creds   \in [Locks -> SUBSET Creds]
    /\ up      \in BOOLEAN
    /\ run     \in [Runs -> {Idle} \cup Choosing \cup Building \cup Creation]
    /\ dynamic \in Meanings
    /\ saved   \in Meanings
    /\ {webs, changes, crashes, faults} \subseteq Nat
    /\ webs + changes + crashes + faults <= MaxEvents

AutosIn(home) == {a \in autos : a.home = home}

\* Marks in use. A new automation gets one that nobody remembers.
Used == {a.mark : a \in autos} \cup UNION {
            CASE run[r].at = "locks"  -> {a.mark : a \in run[r].existing}
              [] run[r].at = "create" -> {run[r].mark}
              [] OTHER -> {} : r \in Runs}

Init ==
    /\ creds \in [Locks -> SUBSET Creds]
    /\ \E left \in SUBSET Old : \E m \in Marks :
          /\ m = CHOOSE n \in Marks : TRUE
          /\ autos = {[mark |-> m, home |-> HomeOf[i.lock], item |-> i] : i \in left}
    /\ up = TRUE
    /\ run = [r \in Runs |-> Idle]
    /\ dynamic = NoLevels
    /\ saved = NoLevels
    /\ webs = 0 /\ changes = 0 /\ crashes = 0 /\ faults = 0

MoreEvents == webs + changes + crashes + faults < MaxEvents

Fault(kind) ==
    /\ kind \in Faults
    /\ MoreEvents
    /\ faults' = faults + 1

\* What the steps of a run leave alone.
world == <<creds, up, webs, changes, crashes>>
memory == <<dynamic, saved>>

\* cloudLoop runs the setup again after its pause; the web page when it is
\* opened or its button is pressed. (An answer from the cache runs nothing.)
Start(r) ==
    /\ up
    /\ run[r] = Idle
    /\ run' = [run EXCEPT ![r] = [at |-> "hubs", hubs |-> Hubs, levels |-> NoLevels]]

StartLoop ==
    /\ Start(Loop)
    /\ UNCHANGED <<autos, memory, creds, up, webs, changes, crashes, faults>>

StartWeb(r) ==
    /\ MoreEvents
    /\ Start(r)
    /\ webs' = webs + 1
    /\ UNCHANGED <<autos, memory, creds, up, changes, crashes, faults>>

\* A hub without locks is passed over.
SkipHub(r) ==
    /\ run[r].at = "hubs"
    /\ \E h \in run[r].hubs :
          /\ locksBoundToHub(h) = {}
          /\ run' = [run EXCEPT ![r].hubs = @ \ {h}]
    /\ UNCHANGED <<autos, memory, world, faults>>

\* The automations of the hub's home are listed; if that fails, none exist.
List(r, h, existing) ==
    /\ run[r].at = "hubs"
    /\ h \in run[r].hubs
    /\ locksBoundToHub(h) # {}
    /\ run' = [run EXCEPT ![r] =
          [at |-> "locks", hubs |-> run[r].hubs \ {h}, levels |-> run[r].levels, hub |-> h,
           locks |-> locksBoundToHub(h), existing |-> existing, desired |-> {}]]
    /\ UNCHANGED <<autos, memory, world>>

listLinkages(r) ==
    /\ \E h \in Hubs : List(r, h, AutosIn(HomeOf[h]))
    /\ UNCHANGED faults

ListFails(r) == Fault("list") /\ \E h \in Hubs : List(r, h, {})

\* Phase 1, for one lock: its items are added and its levels noted.
Build(r, l, items, levels) ==
    /\ run[r].at = "locks"
    /\ l \in run[r].locks
    /\ run' = [run EXCEPT ![r].locks = @ \ {l},
                          ![r].desired = @ \cup items,
                          ![r].levels = registerDynamicLevels(levels, @)]
    /\ UNCHANGED <<autos, memory, world>>

BuildLock(r) ==
    /\ \E l \in Locks : Build(r, l, Wanted(l, creds[l]), LevelsOf(CredItems(l, creds[l])))
    /\ UNCHANGED faults

\* The credentials cannot be read: the lock has none.
BuildWithoutCreds(r) == Fault("creds") /\ \E l \in Locks : Build(r, l, StaticItems(l), NoLevels)

\* The light is not bound or the catalog cannot be read: the lock is left out.
BuildFails(r) == Fault("lock") /\ \E l \in Locks : Build(r, l, {}, NoLevels)

\* Whether what exists is not what was built: too much, too little, or twice.
Names(items) == {Name(i) : i \in items}
Items(as) == {a.item : a \in as}

Differs_uncounted(existing, desired) ==
    desired # {} /\ Names(Items(existing)) # Names(desired)

Differs(existing, desired) ==
    /\ desired # {}
    /\ \/ Names(Items(existing)) # Names(desired)
       \/ Cardinality(existing) # Cardinality(Names(Items(existing)))

Built(r) == run[r].at = "locks" /\ run[r].locks = {}

Between(r) == [at |-> "hubs", hubs |-> run[r].hubs, levels |-> run[r].levels]

\* Phase 2: nothing was built or nothing differs.
Keep(r) ==
    /\ Built(r)
    /\ ~Differs(run[r].existing, run[r].desired)
    /\ run' = [run EXCEPT ![r] = Between(r)]
    /\ UNCHANGED <<autos, memory, world, faults>>

\* Phase 2: all that was listed is deleted, then all that was built is created.
Rewrite(r) ==
    /\ Built(r)
    /\ Differs(run[r].existing, run[r].desired)
    /\ Used # Marks
    /\ run' = [run EXCEPT ![r] =
          [at |-> "create", hubs |-> run[r].hubs, levels |-> run[r].levels, hub |-> run[r].hub,
           todo |-> run[r].desired, mark |-> CHOOSE m \in Marks : m \notin Used]]
    /\ UNCHANGED <<memory, world>>

deleteLinkages_stale(r) ==
    /\ Rewrite(r)
    /\ autos' = autos \ {a \in run[r].existing : Name(a.item) \notin Names(run[r].desired)}
    /\ UNCHANGED faults

deleteLinkages(r) ==
    /\ Rewrite(r)
    /\ autos' = autos \ run[r].existing
    /\ UNCHANGED faults

\* It fails and nothing is deleted. (If the answer alone is lost, this is
\* deleteLinkages; the same holds for createAutomation.)
DeleteFails(r) ==
    /\ Fault("delete")
    /\ Rewrite(r) /\ run[r].existing # {}
    /\ UNCHANGED autos

\* One after the other, those of a lock by their levels; then the run goes on to
\* the next hub.
Creating(r, i) ==
    /\ \A j \in run[r].todo : j.lock = i.lock => i.level <= j.level
    /\ run' = [run EXCEPT ![r] = IF run[r].todo = {i} THEN Between(r)
                                 ELSE [run[r] EXCEPT !.todo = @ \ {i}]]
    /\ UNCHANGED <<memory, world>>

createAutomation(r) ==
    /\ run[r].at = "create"
    /\ \E i \in run[r].todo :
          /\ Creating(r, i)
          /\ autos' = autos \cup {[mark |-> run[r].mark, home |-> HomeOf[run[r].hub], item |-> i]}
    /\ UNCHANGED faults

CreateFails(r) ==
    /\ Fault("create")
    /\ run[r].at = "create"
    /\ \E i \in run[r].todo : Creating(r, i)
    /\ UNCHANGED autos

\* The end of a run: if it met a lock, the configuration is saved; the levels are
\* registered.
RunEnds(r) ==
    /\ run[r].at = "hubs" /\ run[r].hubs = {}
    /\ run' = [run EXCEPT ![r] = Idle]
    /\ dynamic' = registerDynamicLevels(run[r].levels, dynamic)
    /\ UNCHANGED <<autos, world>>

Finish_firstOnly(r) ==
    /\ RunEnds(r)
    /\ saved' = IF saved = NoLevels THEN run[r].levels ELSE saved
    /\ UNCHANGED faults

Finish(r) ==
    /\ RunEnds(r)
    /\ saved' = IF \E h \in Hubs : locksBoundToHub(h) # {} THEN run[r].levels ELSE saved
    /\ UNCHANGED faults

\* The write fails and nobody is told. It may have emptied the file before: one that
\* cannot be parsed means nothing. (A process killed while it writes is this and Crash.)
SaveFails(r) ==
    /\ Fault("save")
    /\ \E h \in Hubs : locksBoundToHub(h) # {}
    /\ RunEnds(r)
    /\ saved' \in {saved, NoLevels}

\* A call that nothing catches: the locks or the fabric of a hub, the light.
Abort(r) ==
    /\ Fault("abort")
    /\ \/ run[r].at = "hubs" /\ run[r].hubs # {}
       \/ run[r].at = "locks" /\ run[r].locks # {}
    /\ run' = [run EXCEPT ![r] = Idle]
    /\ UNCHANGED <<autos, memory, world>>

Crash ==
    /\ up /\ MoreEvents
    /\ crashes' = crashes + 1
    /\ up' = FALSE
    /\ run' = [r \in Runs |-> Idle]
    /\ dynamic' = NoLevels
    /\ UNCHANGED <<autos, creds, saved, webs, changes, faults>>

\* startLocalFromCache, before cloudLoop begins.
Boot ==
    /\ ~up
    /\ up' = TRUE
    /\ dynamic' = registerDynamicLevels(saved, dynamic)
    /\ UNCHANGED <<autos, creds, run, saved, webs, changes, crashes, faults>>

\* Somebody enrols or removes a credential.
Enrol(l) ==
    /\ MoreEvents
    /\ changes' = changes + 1
    /\ \E c \in Creds :
          creds' = [creds EXCEPT ![l] = IF c \in @ THEN @ \ {c} ELSE @ \cup {c}]
    /\ UNCHANGED <<autos, up, run, memory, webs, crashes, faults>>

RunStep(r) ==
    \/ SkipHub(r) \/ listLinkages(r)
    \/ BuildLock(r)
    \/ Keep(r) \/ deleteLinkages(r)
    \/ createAutomation(r)
    \/ Finish(r)

RunFault(r) ==
    \/ ListFails(r)
    \/ BuildWithoutCreds(r) \/ BuildFails(r)
    \/ DeleteFails(r) \/ CreateFails(r)
    \/ SaveFails(r) \/ Abort(r)

Next ==
    \/ StartLoop
    \/ \E r \in Webs : StartWeb(r)
    \/ \E r \in Runs : RunStep(r) \/ RunFault(r)
    \/ Crash \/ Boot
    \/ \E l \in Locks : Enrol(l)

Spec == Init /\ [][Next]_vars

\* Calls are answered or time out, the loop goes round for ever, and the
\* supervisor starts the add-on again.
Fairness ==
    /\ WF_vars(StartLoop)
    /\ \A r \in Runs : WF_vars(RunStep(r))
    /\ WF_vars(Boot)

FairSpec == Spec /\ Fairness

-----------------------------------------------------------------------------
(* Properties.                                                             *)

\* One run at a time, without faults, never leaves two automations for the same
\* event in a home, however often it rebuilds them and wherever it is killed
\* (matterSetup.server.ts:61-66).
Solo == webs = 0 /\ faults = 0
NeverTwice ==
    Solo => \A a, b \in autos : a.home = b.home /\ a.item = b.item => a = b

\* Whatever runs overlapped and whatever failed, the loop ends up with exactly
\* the automations that are wanted, each once ("đảm bảo mỗi restart là chính
\* xác", matterSetup.server.ts:66).
Exact(l) ==
    LET mine == {a \in autos : a.item.lock = l}
    IN  /\ Items(mine) = Wanted(l, creds[l])
        /\ Cardinality(mine) = Cardinality(Items(mine))
ReconcilesExactly == <>[](\A l \in Locks : Exact(l))

\* In the end every automation for a credential sets a level that the add-on
\* decodes as that credential ("để addon decode mức 60+ → Vân tay — Ba",
\* matterSetup.server.ts:287).
Decoded(a, meanings) ==
    a.item.event \in Creds =>
        a.item.level \in DOMAIN meanings /\ meanings[a.item.level] = LabelOf[a.item.event]
DecodesWho == <>[](\A a \in autos : Decoded(a, dynamic))

\* What the comment on the configuration file says: with it the levels are
\* decoded without the internet. While no run is at work, whatever the add-on can
\* tell it can still tell after a restart (matterSetup.server.ts:285).
DecodesOffline ==
    up /\ (\A r \in Runs : run[r] = Idle)
        => \A a \in autos : Decoded(a, dynamic) => Decoded(a, saved)

\* It holds with one run at a time and without faults, although the index of the
\* running add-on never forgets a level and the file does.
KeepsWho == Solo => DecodesOffline
=============================================================================
