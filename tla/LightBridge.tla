---------------------------- MODULE LightBridge ----------------------------
(***************************************************************************)
(* The life of the virtual lights of the add-on and its start:             *)
(* addon/app/lib/lightBridge.server.ts, bootstrap.server.ts and the part   *)
(* of runMatterSetup that gets a light into the Aqara fabric.  A light is  *)
(* a Matter device in the add-on's own process, with a storage of its own; *)
(* what the add-on knows of it is a file with the id the cloud gave it.    *)
(* The two are written at different moments, and the process may end in    *)
(* between.                                                                *)
(*                                                                         *)
(* An action is what an activation does between two awaits.  Nothing keeps *)
(* the loop of the bootstrap and the runs of the web page apart.  What the *)
(* runs do with automations is in MatterSetup.                             *)
(***************************************************************************)
EXTENDS Integers, FiniteSets

CONSTANTS
    Locks,      \* the locks that the account may have
    Loop,       \* the run of cloudLoop
    Webs,       \* the runs of the web page
    Nodes,      \* node ids of the Aqara fabric
    None,       \* no node id, no lock
    MaxEvents,  \* bound: faults, crashes, runs of the web page, pairings, new locks
    Faults      \* the kinds of fault that may happen

Runs == {Loop} \cup Webs

ASSUME ParametersAssumption ==
    /\ Loop \notin Webs
    /\ None \notin Nodes \cup Locks
    /\ MaxEvents \in Nat
    /\ Faults \subseteq {"create", "gen", "commission", "signup", "bind", "save",
                         "login", "list"}

VARIABLES
    account,  \* the locks of the account
    net,      \* whether the cloud can be reached at all
    signed,   \* nodes announced to the cloud with signup
    adopted,  \* nodes the hub has adopted
    \* on the disk
    file,     \* aqaraDid in <key>.bridge.json: the node it was given for
    node,     \* the node id under which the light is in the Aqara fabric
    paired,   \* lights in the fabric of Home Assistant
    locked,   \* storages with a lock file
    cfg,      \* the locks in bridge-config.json
    \* in the process
    up,       \* "down", "idle": boot() not called yet, "on"
    light,    \* the entry of handles
    info,     \* LightBridgeInfo: aqaraDid, nodeIdHex and status
    window,   \* lights whose commissioning window has been opened again
    run,      \* the loop and the runs of the web page
    mqtt,     \* the locks the MQTT bridge was started with
    mqttStarted, inLoop, everSetup, \* of boot() and cloudLoop
    \* bound and history
    events, saveFailed

cloud == <<account, net, signed, adopted>>
disk  == <<file, node, paired, locked, cfg>>
lights == <<light, info, window>>
starting == <<up, mqtt, mqttStarted, inLoop, everSetup>>
vars == <<cloud, disk, lights, starting, run, events, saveFailed>>

Fault(kind) == /\ kind \in Faults
               /\ events < MaxEvents
               /\ events' = events + 1

\* A run, at one of its awaits: todo is what it has still to go through, locks what
\* it saves or starts the bridge with, lock and node what it is busy with.
Run == [at : {"idle", "login", "pause", "local", "locallight", "list", "setup", "light",
              "gen", "commission", "signup", "bind"},
        todo : SUBSET Locks, locks : SUBSET Locks,
        lock : Locks \cup {None}, node : Nodes \cup {None}]
Waits(step) == [at |-> step, todo |-> {}, locks |-> {}, lock |-> None, node |-> None]
Idle == Waits("idle")
Over(step, found) == [Waits(step) EXCEPT !.todo = found, !.locks = found]

Info == [did : Nodes \cup {None}, nodeIdHex : Nodes \cup {None},
         status : {"none", "started", "bound", "error"}]
NoInfo == [did |-> None, nodeIdHex |-> None, status |-> "none"]

TypeOK ==
    /\ account \subseteq Locks /\ cfg \subseteq Locks /\ mqtt \subseteq Locks
    /\ paired \subseteq Locks /\ locked \subseteq Locks /\ window \subseteq Locks
    /\ signed \subseteq Nodes /\ adopted \subseteq Nodes
    /\ file \in [Locks -> Nodes \cup {None}]
    /\ node \in [Locks -> Nodes \cup {None}]
    /\ up \in {"down", "idle", "on"}
    /\ light \in [Locks -> {"none", "creating", "ready"}]
    /\ info \in [Locks -> Info]
    /\ run \in [Runs -> Run]
    /\ net \in BOOLEAN /\ saveFailed \in BOOLEAN
    /\ mqttStarted \in BOOLEAN /\ inLoop \in BOOLEAN /\ everSetup \in BOOLEAN
    /\ events \in 0..MaxEvents

Init ==
    /\ account \in SUBSET Locks /\ net \in BOOLEAN /\ signed = {} /\ adopted = {}
    /\ file = [l \in Locks |-> None] /\ node = [l \in Locks |-> None]
    /\ paired = {} /\ locked = {} /\ cfg \in {{}, account}
    /\ light = [l \in Locks |-> "none"] /\ info = [l \in Locks |-> NoInfo] /\ window = {}
    /\ up = "idle" /\ mqtt = {} /\ mqttStarted = FALSE /\ inLoop = FALSE /\ everSetup = FALSE
    /\ run = [r \in Runs |-> Idle]
    /\ events = 0 /\ saveFailed = FALSE

\* A run goes on at a step; nothing but the run changes.
Goes(r, next) == run' = [run EXCEPT ![r] = next]

-----------------------------------------------------------------------------
(* createVirtualLight and the map of handles.                              *)

\* Unless there is an entry, a light is made; everybody else waits for it.
AsksForLight(l) ==
    light' = [light EXCEPT ![l] = IF @ = "none" THEN "creating" ELSE @]

\* Defective variant: the file is not read.
Persisted_fresh(l) == [did |-> None, nodeIdHex |-> None, status |-> "started"]

\* What is known of a light comes from its file.
Persisted(l) == [did |-> file[l], nodeIdHex |-> file[l],
                 status |-> IF file[l] # None THEN "bound" ELSE "started"]

LightStarts(l) ==
    /\ light[l] = "creating" /\ l \notin locked
    /\ light' = [light EXCEPT ![l] = "ready"]
    /\ info' = [info EXCEPT ![l] = Persisted(l)]
    /\ locked' = locked \cup {l}
    /\ UNCHANGED <<cloud, file, node, paired, cfg, window, starting, run, events, saveFailed>>

\* Defective variant: the error is caught around the whole start, not per light.
Rejected_uncaught(r) == CASE run[r].at = "locallight" -> Waits("login")
                          [] run[r].at = "light" /\ r = Loop -> Waits("pause")
                          [] OTHER -> Idle

\* A run that waits for a light that cannot be made: the start goes on with the
\* next lock; a setup ends, and cloudLoop starts another after a while.
Rejected(r) == CASE run[r].at = "locallight" -> [run[r] EXCEPT !.at = "local", !.lock = None]
                 [] run[r].at = "light" /\ r = Loop -> Waits("pause")
                 [] OTHER -> Idle

\* A storage that still has its lock file cannot be opened.
LightFails(l) ==
    /\ light[l] = "creating"
    /\ IF l \in locked THEN UNCHANGED events ELSE Fault("create")
    /\ light' = [light EXCEPT ![l] = "none"]
    /\ info' = [info EXCEPT ![l] = NoInfo]
    /\ run' = [r \in Runs |-> IF run[r].at \in {"light", "locallight"} /\ run[r].lock = l
                              THEN Rejected(r) ELSE run[r]]
    /\ UNCHANGED <<cloud, disk, window, starting, saveFailed>>

-----------------------------------------------------------------------------
(* boot(), startLocalFromCache and cloudLoop.                              *)

\* Defective variant: the lock files stay.
kickBootstrap_dirty ==
    /\ up = "idle"
    /\ up' = "on"
    /\ IF cfg # {} THEN Goes(Loop, Over("local", cfg)) /\ UNCHANGED inLoop
       ELSE Goes(Loop, Waits("login")) /\ inLoop' = TRUE
    /\ UNCHANGED <<cloud, disk, lights, mqtt, mqttStarted, everSetup, events, saveFailed>>

\* Every call after the first returns at once. Lock files left by a process that
\* was killed are removed first; without a saved configuration there is nothing
\* to start.
kickBootstrap ==
    /\ up = "idle"
    /\ up' = "on"
    /\ locked' = {}
    /\ IF cfg # {} THEN Goes(Loop, Over("local", cfg)) /\ UNCHANGED inLoop
       ELSE Goes(Loop, Waits("login")) /\ inLoop' = TRUE
    /\ UNCHANGED <<cloud, file, node, paired, cfg, lights, mqtt, mqttStarted, everSetup,
                   events, saveFailed>>

LocalLight(l) ==
    /\ run[Loop].at = "local" /\ l \in run[Loop].todo
    /\ AsksForLight(l)
    /\ Goes(Loop, [run[Loop] EXCEPT !.at = "locallight", !.lock = l, !.todo = @ \ {l}])
    /\ UNCHANGED <<cloud, disk, info, window, starting, events, saveFailed>>

LocalLightReady ==
    /\ run[Loop].at = "locallight" /\ light[run[Loop].lock] = "ready"
    /\ Goes(Loop, [run[Loop] EXCEPT !.at = "local", !.lock = None])
    /\ UNCHANGED <<cloud, disk, lights, starting, events, saveFailed>>

\* Called by the start or by the loop after its first setup, the bridge starts once.
startMqttBridge ==
    /\ run[Loop].at = "local" /\ run[Loop].todo = {}
    /\ mqtt' = IF mqtt = {} THEN run[Loop].locks ELSE mqtt
    /\ IF inLoop THEN /\ everSetup' = TRUE /\ UNCHANGED <<mqttStarted, inLoop>>
                      /\ Goes(Loop, Waits("pause"))
       ELSE /\ mqttStarted' = TRUE /\ inLoop' = TRUE /\ UNCHANGED everSetup
            /\ Goes(Loop, Waits("login"))
    /\ UNCHANGED <<cloud, disk, lights, up, events, saveFailed>>

login ==
    /\ run[Loop].at = "login" /\ net
    /\ Goes(Loop, Waits("list"))
    /\ UNCHANGED <<cloud, disk, lights, starting, events, saveFailed>>

LoginFails ==
    /\ run[Loop].at = "login"
    /\ IF net THEN Fault("login") ELSE UNCHANGED events
    /\ Goes(Loop, Waits("pause"))
    /\ UNCHANGED <<cloud, disk, lights, starting, saveFailed>>

\* After 30 s, 60 s or six hours.
LoopAgain ==
    /\ run[Loop].at = "pause"
    /\ Goes(Loop, Waits("login"))
    /\ UNCHANGED <<cloud, disk, lights, starting, events, saveFailed>>

StartWeb(r) ==
    /\ up # "down" /\ net /\ run[r] = Idle /\ r \in Webs
    /\ events < MaxEvents /\ events' = events + 1
    /\ Goes(r, Waits("list"))
    /\ UNCHANGED <<cloud, disk, lights, starting, saveFailed>>

-----------------------------------------------------------------------------
(* runMatterSetup, as far as the lights are concerned.                     *)

\* discoverMatterHubs, locksBoundToHub and getFabric.
discoverLocks(r) ==
    /\ run[r].at = "list"
    /\ Goes(r, Over("setup", account))
    /\ UNCHANGED <<cloud, disk, lights, starting, events, saveFailed>>

DiscoverFails(r) ==
    /\ run[r].at = "list" /\ Fault("list")
    /\ Goes(r, IF r = Loop THEN Waits("pause") ELSE Idle)
    /\ UNCHANGED <<cloud, disk, lights, starting, saveFailed>>

ensureVirtualLight(r, l) ==
    /\ run[r].at = "setup" /\ l \in run[r].todo
    /\ AsksForLight(l)
    /\ Goes(r, [run[r] EXCEPT !.at = "light", !.lock = l, !.todo = @ \ {l}])
    /\ UNCHANGED <<cloud, disk, info, window, starting, events, saveFailed>>

Next(r) == [run[r] EXCEPT !.at = "setup", !.lock = None, !.node = None]

\* A light that has an id is left alone.
ensureLightBridge(r) ==
    /\ run[r].at = "light" /\ light[run[r].lock] = "ready"
    /\ Goes(r, IF info[run[r].lock].did # None THEN Next(r)
               ELSE [run[r] EXCEPT !.at = "gen"])
    /\ UNCHANGED <<cloud, disk, lights, starting, events, saveFailed>>

\* An id that nobody has.
Unused(n) == n \notin signed /\ (\A l \in Locks : n # node[l]) /\ (\A r \in Runs : n # run[r].node)

genNodeId(r) ==
    /\ run[r].at = "gen"
    /\ \E n \in Nodes :
          /\ Unused(n)
          /\ info' = [info EXCEPT ![run[r].lock].nodeIdHex = n]
          /\ Goes(r, [run[r] EXCEPT !.at = "commission", !.node = n])
    /\ UNCHANGED <<cloud, disk, light, window, starting, events, saveFailed>>

\* A light can be commissioned while it is in no fabric or its window is open, but
\* never twice into the same fabric.
CanJoin(l) == node[l] = None /\ (l \in paired => l \in window)

commissionNode(r) ==
    /\ run[r].at = "commission" /\ CanJoin(run[r].lock)
    /\ node' = [node EXCEPT ![run[r].lock] = run[r].node]
    /\ window' = window \ {run[r].lock}
    /\ Goes(r, [run[r] EXCEPT !.at = "signup"])
    /\ UNCHANGED <<cloud, file, paired, locked, cfg, light, info, starting, events, saveFailed>>

signup(r) ==
    /\ run[r].at = "signup"
    /\ signed' = signed \cup {run[r].node}
    /\ Goes(r, [run[r] EXCEPT !.at = "bind"])
    /\ UNCHANGED <<account, net, adopted, disk, lights, starting, events, saveFailed>>

\* The hub finds the node in its fabric.
HubAdopts(n) ==
    /\ n \in signed \ adopted /\ up # "down" /\ \E l \in Locks : node[l] = n /\ light[l] = "ready"
    /\ adopted' = adopted \cup {n}
    /\ UNCHANGED <<account, net, signed, disk, lights, starting, run, events, saveFailed>>

\* Defective variant: the id is the one of the light's record, which runs share.
waitBind_shared(r) ==
    LET l == run[r].lock IN
    /\ run[r].at = "bind" /\ run[r].node \in adopted
    /\ info' = [info EXCEPT ![l].did = info[l].nodeIdHex, ![l].status = "bound"]
    /\ file' = [file EXCEPT ![l] = info[l].nodeIdHex]
    /\ Goes(r, Next(r))
    /\ UNCHANGED <<cloud, node, paired, locked, cfg, light, window, starting, events,
                   saveFailed>>

\* The id goes to the light's record and to its file. A write that fails is ignored,
\* though it may leave a file that cannot be parsed, one without an id.
waitBind(r) ==
    LET l == run[r].lock IN
    /\ run[r].at = "bind" /\ run[r].node \in adopted
    /\ info' = [info EXCEPT ![l].did = run[r].node, ![l].status = "bound"]
    /\ \/ file' = [file EXCEPT ![l] = run[r].node] /\ UNCHANGED <<events, saveFailed>>
       \/ Fault("save") /\ saveFailed' = TRUE /\ file' \in {file, [file EXCEPT ![l] = None]}
    /\ Goes(r, Next(r))
    /\ UNCHANGED <<cloud, node, paired, locked, cfg, light, window, starting>>

\* Any of the four calls fails; a light that cannot join is not found.
BridgeFails(r) ==
    /\ run[r].at \in {"gen", "commission", "signup", "bind"}
    /\ IF run[r].at = "commission" /\ ~CanJoin(run[r].lock) THEN UNCHANGED events
       ELSE Fault(run[r].at)
    /\ info' = [info EXCEPT ![run[r].lock].status = "error"]
    /\ Goes(r, Next(r))
    /\ UNCHANGED <<cloud, disk, light, window, starting, saveFailed>>

\* Defective variant: the loop leaves the start to the next restart.
Finish_lazy(r) ==
    /\ run[r].at = "setup" /\ run[r].todo = {}
    /\ cfg' = (IF run[r].locks # {} THEN run[r].locks ELSE cfg)
    /\ IF r = Loop THEN Goes(Loop, Waits("pause")) /\ everSetup' = TRUE
       ELSE Goes(r, Idle) /\ UNCHANGED everSetup
    /\ UNCHANGED <<cloud, file, node, paired, locked, lights, up, mqtt, mqttStarted, inLoop,
                   events, saveFailed>>

\* The run saves the configuration, or fails to and leaves the old one or a file that
\* cannot be parsed, which counts as none; the loop's first run then starts what the
\* start has not started. (A process killed while it writes is a failed save and Crash.)
Finish(r) ==
    /\ run[r].at = "setup" /\ run[r].todo = {}
    /\ \/ cfg' = (IF run[r].locks # {} THEN run[r].locks ELSE cfg)
          /\ UNCHANGED <<events, saveFailed>>
       \/ run[r].locks # {} /\ Fault("save") /\ saveFailed' = TRUE /\ cfg' \in {cfg, {}}
    /\ IF r = Loop
       THEN IF ~mqttStarted /\ ~everSetup /\ cfg' # {}
            THEN Goes(Loop, Over("local", cfg')) /\ UNCHANGED everSetup
            ELSE Goes(Loop, Waits("pause")) /\ everSetup' = TRUE
       ELSE Goes(r, Idle) /\ UNCHANGED everSetup
    /\ UNCHANGED <<cloud, file, node, paired, locked, lights, up, mqtt, mqttStarted, inLoop>>

-----------------------------------------------------------------------------
(* People, Home Assistant and the supervisor.                              *)

AddLock(l) ==
    /\ events < MaxEvents /\ events' = events + 1
    /\ l \notin account /\ account' = account \cup {l}
    /\ UNCHANGED <<net, signed, adopted, disk, lights, starting, run, saveFailed>>

\* /api/pair: a light whose first window has been used is opened again, for 600 s.
openPairingWindow(l) ==
    /\ light[l] = "ready" /\ (node[l] # None \/ l \in paired) /\ l \notin window
    /\ events < MaxEvents /\ events' = events + 1
    /\ window' = window \cup {l}
    /\ UNCHANGED <<cloud, disk, light, info, starting, run, saveFailed>>

WindowCloses(l) ==
    /\ l \in window
    /\ window' = window \ {l}
    /\ UNCHANGED <<cloud, disk, light, info, starting, run, events, saveFailed>>

\* Home Assistant pairs with the code the page shows.
Pair(l) ==
    /\ light[l] = "ready" /\ l \notin paired /\ (node[l] # None => l \in window)
    /\ events < MaxEvents /\ events' = events + 1
    /\ paired' = paired \cup {l} /\ window' = window \ {l}
    /\ UNCHANGED <<cloud, file, node, locked, cfg, light, info, starting, run, saveFailed>>

Crash ==
    /\ up # "down"
    /\ events < MaxEvents /\ events' = events + 1
    /\ up' = "down" /\ mqtt' = {} /\ mqttStarted' = FALSE /\ inLoop' = FALSE /\ everSetup' = FALSE
    /\ light' = [l \in Locks |-> "none"] /\ info' = [l \in Locks |-> NoInfo] /\ window' = {}
    /\ run' = [r \in Runs |-> Idle]
    /\ UNCHANGED <<cloud, disk, saveFailed>>

Restart ==
    /\ up = "down" /\ up' = "idle"
    /\ UNCHANGED <<cloud, disk, lights, mqtt, mqttStarted, inLoop, everSetup, run, events,
                   saveFailed>>

-----------------------------------------------------------------------------
Bootstrap == kickBootstrap \/ LocalLightReady \/ startMqttBridge \/ login \/ LoginFails
             \/ LoopAgain \/ \E l \in Locks : LocalLight(l)
RunStep(r) == \/ discoverLocks(r) \/ ensureLightBridge(r) \/ genNodeId(r) \/ commissionNode(r)
              \/ signup(r) \/ waitBind(r) \/ BridgeFails(r) \/ DiscoverFails(r) \/ Finish(r)
              \/ \E l \in Locks : ensureVirtualLight(r, l)
Light(l) == LightStarts(l) \/ LightFails(l)
World == \/ \E r \in Webs : StartWeb(r)
         \/ \E l \in Locks : AddLock(l) \/ openPairingWindow(l) \/ WindowCloses(l) \/ Pair(l)
         \/ \E n \in Nodes : HubAdopts(n)
         \/ Crash \/ Restart

NextStep == Bootstrap \/ (\E r \in Runs : RunStep(r)) \/ (\E l \in Locks : Light(l)) \/ World

Spec == Init /\ [][NextStep]_vars

\* The event loop goes on, calls are answered or fail, the hub adopts what has been
\* announced to it, the supervisor starts the add-on again and the command of the
\* image asks for /login until it is answered. A login succeeds when there is a
\* network and no fault.
FairSpec == /\ Spec /\ WF_vars(Bootstrap) /\ WF_vars(Restart)
            /\ \A r \in Runs : WF_vars(RunStep(r))
            /\ \A l \in Locks : WF_vars(Light(l))
            /\ \A n \in Nodes : WF_vars(HubAdopts(n))

-----------------------------------------------------------------------------
(* Properties.                                                             *)

\* The id kept for a lock, in memory and on the disk, is that of the node which its
\* light really is in the fabric, and the hub has it, however runs cross and
\* wherever the process ends (onAfterCase takes the id of its own run).
OwnId ==
    \A l \in Locks : \A n \in {file[l], info[l].did} \ {None} :
        n = node[l] /\ n \in adopted

\* A light whose id is on the disk is never commissioned again, neither by a later
\* run nor after a restart: "restart must not commission again".
NotAgain ==
    [][\A r \in Runs : run[r].at = "light" /\ run'[r].at = "gen"
                          => file[run[r].lock] = None]_vars

\* A light in a fabric that the add-on has no id for: it is not commissionable any
\* more, so no later run gets it bound.
Lost(l) == file[l] = None /\ (node[l] # None \/ l \in paired)

\* With a network, the light of every lock ends up bound, whatever fails or crashes
\* on the way, or it is lost in the sense above.
EventuallyBound ==
    net => <>[](\A l \in account : info[l].did # None \/ Lost(l))

\* A start that finds a saved configuration starts the bridge, with or without a
\* network, unless the process ends before: local control needs no cloud. (A web
\* request that comes before boot() and fails to save may take the configuration away.)
ColdStart ==
    (up = "idle" /\ cfg # {}) ~> (mqtt # {} \/ up = "down" \/ (up = "idle" /\ cfg = {}))

\* An account with a lock gets its bridge without a restart by hand, unless the
\* configuration could not be written.
FirstSetupStarts ==
    (net /\ account # {}) => <>[](mqtt # {} \/ saveFailed)

=============================================================================
