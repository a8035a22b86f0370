------------------------- MODULE LightBridgeProofs -------------------------
(***************************************************************************)
(* Proofs about LightBridge, for any locks, runs of the web page, node ids *)
(* and faults: the ids that are kept are the lights' own, and a light that *)
(* has one is never commissioned again.                                    *)
(***************************************************************************)
EXTENDS LightBridge, TLAPS

-----------------------------------------------------------------------------
(* The inductive invariant.                                                *)

\* A run that is busy with a lock names it, and once its node has joined the light is
\* in the fabric under the id of this very run.
RunOK(x, nodes) ==
    /\ x \in Run
    /\ x.at \in {"light", "locallight", "gen", "commission", "signup", "bind"} => x.lock \in Locks
    /\ x.at \in {"commission", "signup", "bind"} => x.node \in Nodes
    /\ x.at \in {"signup", "bind"} => x.node = nodes[x.lock]
RunsOK == \A r \in Runs : RunOK(run[r], node)

\* A light that is there knows what its file says of it.
Known == \A l \in Locks : light[l] = "ready" /\ file[l] # None => info[l].did # None

IInv == TypeOK /\ RunsOK /\ OwnId /\ Known

\* Where a run can be that is busy with no lock.
LEMMA WaitsOK ==
  ASSUME NEW step \in {"idle", "login", "pause", "list"}, NEW nodes
  PROVE  RunOK(Waits(step), nodes)
  BY DEF RunOK, Run, Waits

LEMMA OverOK ==
  ASSUME NEW step \in {"local", "setup"}, NEW found \in SUBSET Locks, NEW nodes
  PROVE  RunOK(Over(step, found), nodes)
  BY DEF RunOK, Run, Waits, Over

\* A run goes on while the others stay.
LEMMA GoesOK ==
  ASSUME IInv, NEW r \in Runs, NEW x, Goes(r, x), RunOK(x, node), node' = node
  PROVE  run' \in [Runs -> Run] /\ RunsOK'
  <1>1. run \in [Runs -> Run] /\ x \in Run  BY DEF IInv, TypeOK, RunOK
  <1>2. run' = [run EXCEPT ![r] = x]  BY DEF Goes
  <1> QED  BY <1>1, <1>2 DEF RunsOK, IInv

\* A step that leaves the lights and what is known of them alone.
LEMMA LightsAlone ==
  ASSUME IInv, UNCHANGED <<light, info, file, node>>, adopted \subseteq adopted'
  PROVE  OwnId' /\ Known'
  BY DEF IInv, OwnId, Known

LEMMA InitInv == Init => IInv
  <1> SUFFICES ASSUME Init PROVE IInv
    OBVIOUS
  <1>1. TypeOK
    <2>1. NoInfo \in Info /\ Idle \in Run  BY DEF Info, NoInfo, Run, Idle, Waits
    <2>2. 0 \in 0..MaxEvents  BY ParametersAssumption
    <2> QED  BY <2>1, <2>2 DEF Init, TypeOK
  <1>2. RunsOK
    BY WaitsOK DEF Init, RunsOK, Idle
  <1>3. OwnId
    BY DEF Init, OwnId, NoInfo
  <1>4. Known
    BY DEF Init, Known
  <1> QED  BY <1>1, <1>2, <1>3, <1>4 DEF IInv

-----------------------------------------------------------------------------
(* The lights.                                                             *)

LEMMA LightStartsStep ==
  ASSUME IInv, NEW l \in Locks, LightStarts(l)
  PROVE  IInv'
  <1> USE DEF IInv
  <1>1. Persisted(l) \in Info  BY DEF Persisted, Info, TypeOK
  <1>2. TypeOK'
    BY <1>1 DEF LightStarts, TypeOK, cloud, starting
  <1>3. RunsOK'
    BY DEF LightStarts, RunsOK, starting
  <1>4. OwnId'
    BY DEF LightStarts, OwnId, TypeOK, Persisted, cloud
  <1>5. Known'
    BY DEF LightStarts, Known, TypeOK, Persisted
  <1> QED  BY <1>2, <1>3, <1>4, <1>5

LEMMA LightFailsStep ==
  ASSUME IInv, NEW l \in Locks, LightFails(l)
  PROVE  IInv'
  <1> USE DEF IInv
  <1>1. ASSUME NEW r \in Runs
        PROVE  RunOK(Rejected(r), node)
    <2>1. RunOK([run[r] EXCEPT !.at = "local", !.lock = None], node)
      BY DEF RunsOK, RunOK, Run
    <2> QED  BY <2>1, WaitsOK DEF Rejected, Idle
  <1>2. run' \in [Runs -> Run] /\ RunsOK'
    BY <1>1 DEF LightFails, RunsOK, RunOK, disk
  <1>3. NoInfo \in Info  BY DEF NoInfo, Info
  <1>4. TypeOK'
    <2>1. events' \in 0..MaxEvents
      BY ParametersAssumption DEF LightFails, Fault, TypeOK
    <2> QED  BY <1>2, <1>3, <2>1 DEF LightFails, TypeOK, cloud, disk, starting
  <1>5. OwnId'
    BY DEF LightFails, OwnId, TypeOK, NoInfo, cloud, disk
  <1>6. Known'
    BY DEF LightFails, Known, TypeOK, disk
  <1> QED  BY <1>2, <1>4, <1>5, <1>6

-----------------------------------------------------------------------------
(* The start and the loop.                                                 *)

LEMMA EventsOK ==
  ASSUME TypeOK, UNCHANGED events \/ (events < MaxEvents /\ events' = events + 1)
  PROVE  events' \in 0..MaxEvents
  BY ParametersAssumption DEF TypeOK

LEMMA LoopInRuns == Loop \in Runs /\ Webs \subseteq Runs
  BY DEF Runs

\* A run goes on, and nothing else than the start's own state changes with it.
LEMMA RunGoes ==
  ASSUME IInv, NEW r \in Runs, NEW x, Goes(r, x), RunOK(x, node),
         UNCHANGED <<cloud, file, node, paired, lights>>,
         locked' \in SUBSET Locks, cfg' \in SUBSET Locks, mqtt' \in SUBSET Locks,
         up' \in {"down", "idle", "on"},
         mqttStarted' \in BOOLEAN, inLoop' \in BOOLEAN, everSetup' \in BOOLEAN,
         saveFailed' \in BOOLEAN,
         UNCHANGED events \/ (events < MaxEvents /\ events' = events + 1)
  PROVE  IInv'
  <1> USE DEF IInv
  <1>1. run' \in [Runs -> Run] /\ RunsOK'  BY GoesOK
  <1>2. OwnId' /\ Known'
    BY LightsAlone DEF cloud, lights
  <1>3. TypeOK'
    BY <1>1, EventsOK DEF TypeOK, cloud, lights
  <1> QED  BY <1>1, <1>2, <1>3

\* The same while the start's own state stays.
LEMMA OnlyGoes ==
  ASSUME IInv, NEW r \in Runs, NEW x, Goes(r, x), RunOK(x, node),
         UNCHANGED <<cloud, disk, lights, starting, saveFailed>>,
         UNCHANGED events \/ (events < MaxEvents /\ events' = events + 1)
  PROVE  IInv'
  <1>1. UNCHANGED <<cloud, file, node, paired, locked, cfg, lights, up, mqtt, mqttStarted,
                    inLoop, everSetup, saveFailed>>
    BY DEF disk, starting
  <1>2. TypeOK  BY DEF IInv
  <1> QED  BY <1>1, <1>2, RunGoes DEF TypeOK

\* A run asks for a light.
LEMMA AsksStep ==
  ASSUME IInv, NEW r \in Runs, NEW x, NEW l \in Locks, AsksForLight(l), Goes(r, x),
         RunOK(x, node),
         UNCHANGED <<cloud, disk, info, window, starting, events, saveFailed>>
  PROVE  IInv'
  <1> USE DEF IInv
  <1>1. run' \in [Runs -> Run] /\ RunsOK'  BY GoesOK DEF disk
  <1>2. light' \in [Locks -> {"none", "creating", "ready"}]
        /\ \A k \in Locks : light'[k] = "ready" => light[k] = "ready"
    BY DEF AsksForLight, TypeOK
  <1>3. TypeOK'  BY <1>1, <1>2 DEF TypeOK, cloud, disk, starting
  <1>4. OwnId'  BY DEF OwnId, disk, cloud
  <1>5. Known'  BY <1>2 DEF Known, disk
  <1> QED  BY <1>1, <1>3, <1>4, <1>5

LEMMA BootstrapStep ==
  ASSUME IInv, Bootstrap
  PROVE  IInv'
  <1>0. TypeOK /\ Loop \in Runs /\ run[Loop] \in Run
    BY LoopInRuns DEF IInv, TypeOK
  <1>1. CASE kickBootstrap
    <2>1. PICK x \in {Over("local", cfg), Waits("login")} :
             Goes(Loop, x) /\ inLoop' \in BOOLEAN
      BY <1>0, <1>1 DEF kickBootstrap, TypeOK
    <2>2. RunOK(x, node)  BY <1>0, <2>1, OverOK, WaitsOK DEF TypeOK
    <2>3. /\ UNCHANGED <<cloud, file, node, paired, cfg, lights, mqtt, mqttStarted, everSetup,
                         events, saveFailed>>
          /\ locked' = {} /\ up' = "on"
      BY <1>1 DEF kickBootstrap
    <2> QED  BY <1>0, <2>1, <2>2, <2>3, RunGoes DEF TypeOK
  <1>2. CASE LocalLightReady
    <2>1. RunOK([run[Loop] EXCEPT !.at = "local", !.lock = None], node)
      BY <1>0 DEF IInv, RunsOK, RunOK, Run
    <2> QED  BY <1>0, <1>2, <2>1, OnlyGoes DEF LocalLightReady
  <1>3. CASE startMqttBridge
    <2>1. PICK x \in {Waits("pause"), Waits("login")} : Goes(Loop, x)
      BY <1>3 DEF startMqttBridge
    <2>2. RunOK(x, node)  BY <2>1, WaitsOK
    <2>3. mqtt' \in SUBSET Locks
      BY <1>0, <1>3 DEF startMqttBridge, TypeOK, Run
    <2>4. mqttStarted' \in BOOLEAN /\ inLoop' \in BOOLEAN /\ everSetup' \in BOOLEAN
      BY <1>0, <1>3 DEF startMqttBridge, TypeOK
    <2>5. UNCHANGED <<cloud, disk, lights, up, events, saveFailed>>
      BY <1>3 DEF startMqttBridge
    <2>6. UNCHANGED <<file, node, paired, locked, cfg>>  BY <2>5 DEF disk
    <2> QED  BY <1>0, <2>1, <2>2, <2>3, <2>4, <2>5, <2>6, RunGoes DEF TypeOK
  <1>4. CASE login
    BY <1>0, <1>4, WaitsOK, OnlyGoes DEF login
  <1>5. CASE LoginFails
    BY <1>0, <1>5, WaitsOK, OnlyGoes DEF LoginFails, Fault
  <1>6. CASE LoopAgain
    BY <1>0, <1>6, WaitsOK, OnlyGoes DEF LoopAgain
  <1>7. ASSUME NEW l \in Locks, LocalLight(l)
        PROVE  IInv'
    <2>1. RunOK([run[Loop] EXCEPT !.at = "locallight", !.lock = l, !.todo = @ \ {l}], node)
      BY <1>0 DEF RunOK, Run
    <2> QED  BY <1>0, <1>7, <2>1, AsksStep DEF LocalLight
  <1> QED  BY <1>1, <1>2, <1>3, <1>4, <1>5, <1>6, <1>7 DEF Bootstrap

-----------------------------------------------------------------------------
(* The runs.                                                               *)

LEMMA NextOK ==
  ASSUME IInv, NEW r \in Runs, NEW nodes
  PROVE  RunOK(Next(r), nodes)
  BY DEF IInv, RunsOK, RunOK, Run, Next

\* A node id that is taken is held by nobody else, so the light that joins is in the
\* fabric under it, and joins once.
LEMMA commissionStep ==
  ASSUME IInv, NEW r \in Runs, commissionNode(r)
  PROVE  IInv'
  <1> USE DEF IInv
  <1> DEFINE l == run[r].lock
             n == run[r].node
  <1>1. run[r] \in Run /\ l \in Locks /\ n \in Nodes /\ node[l] = None /\ None \notin Nodes
        /\ run[r].at = "commission"
    BY ParametersAssumption DEF commissionNode, CanJoin, RunsOK, RunOK
  <1>2. node' = [node EXCEPT ![l] = n]  BY DEF commissionNode
  <1>3. node' \in [Locks -> Nodes \cup {None}] /\ node'[l] = n
        /\ \A k \in Locks \ {l} : node'[k] = node[k]
    BY <1>1, <1>2 DEF TypeOK
  <1>4. run' = [run EXCEPT ![r] = [run[r] EXCEPT !.at = "signup"]]
    BY DEF commissionNode, Goes
  <1>5. RunOK([run[r] EXCEPT !.at = "signup"], node')
    BY <1>1, <1>3 DEF RunOK, Run
  <1>6. ASSUME NEW q \in Runs \ {r}
        PROVE  RunOK(run[q], node')
    <2>1. RunOK(run[q], node)  BY DEF RunsOK
    <2>2. run[q].at \in {"signup", "bind"} => run[q].lock # l
      BY <1>1, <2>1 DEF RunOK
    <2> QED  BY <1>3, <2>1, <2>2 DEF RunOK
  <1>7. run' \in [Runs -> Run] /\ RunsOK'
    BY <1>4, <1>5, <1>6 DEF TypeOK, RunsOK, RunOK
  <1>8. /\ window' \in SUBSET Locks
        /\ UNCHANGED <<cloud, file, paired, locked, cfg, light, info, starting, events, saveFailed>>
    BY DEF commissionNode, TypeOK
  <1>9. TypeOK'
    BY <1>3, <1>7, <1>8 DEF TypeOK, cloud, starting
  <1>10. OwnId'
    <2>1. ASSUME NEW k \in Locks, NEW d \in {file[k], info[k].did} \ {None}
          PROVE  d = node'[k] /\ d \in adopted'
      <3>1. d = node[k] /\ d \in adopted  BY DEF OwnId
      <3>2. k # l  BY <1>1, <2>1, <3>1
      <3> QED  BY <1>3, <1>8, <3>1, <3>2 DEF cloud
    <2> QED  BY <1>8, <2>1 DEF OwnId
  <1>11. Known'  BY <1>8 DEF Known
  <1> QED  BY <1>7, <1>9, <1>10, <1>11

\* The id that is kept is the one of the run, which is that of the light.
LEMMA waitBindStep ==
  ASSUME IInv, NEW r \in Runs, waitBind(r)
  PROVE  IInv'
  <1> USE DEF IInv
  <1> DEFINE l == run[r].lock
             n == run[r].node
  <1>1. run[r] \in Run /\ l \in Locks /\ n \in Nodes /\ n = node[l] /\ n \in adopted /\ n # None
    BY ParametersAssumption DEF waitBind, RunsOK, RunOK
  <1>2. /\ info' = [info EXCEPT ![l].did = n, ![l].status = "bound"]
        /\ file' \in {[file EXCEPT ![l] = n], file, [file EXCEPT ![l] = None]}
        /\ Goes(r, Next(r)) /\ saveFailed' \in BOOLEAN
        /\ UNCHANGED <<cloud, node, paired, locked, cfg, light, window, starting>>
        /\ UNCHANGED events \/ (events < MaxEvents /\ events' = events + 1)
    BY DEF waitBind, Fault, TypeOK
  <1>3. run' \in [Runs -> Run] /\ RunsOK'  BY <1>2, NextOK, GoesOK
  <1>4. /\ info' \in [Locks -> Info] /\ info'[l].did = n
        /\ \A k \in Locks \ {l} : info'[k] = info[k]
    BY <1>1, <1>2 DEF TypeOK, Info
  <1>5. /\ file' \in [Locks -> Nodes \cup {None}] /\ file'[l] \in {n, file[l], None}
        /\ \A k \in Locks \ {l} : file'[k] = file[k]
    BY <1>1, <1>2 DEF TypeOK
  <1>6. TypeOK'
    <2>1. events' \in 0..MaxEvents  BY <1>2, EventsOK
    <2> QED  BY <1>2, <1>3, <1>4, <1>5, <2>1 DEF TypeOK, cloud, starting
  <1>7. OwnId'
    BY <1>1, <1>2, <1>4, <1>5 DEF OwnId, cloud
  <1>8. Known'
    BY <1>1, <1>2, <1>4, <1>5 DEF Known
  <1> QED  BY <1>3, <1>6, <1>7, <1>8

\* Until a node has joined, the record of a light keeps its id.
LEMMA RecordStep ==
  ASSUME IInv, NEW r \in Runs, NEW x, Goes(r, x), RunOK(x, node),
         NEW l \in Locks, NEW rec \in Info, rec.did = info[l].did,
         info' = [info EXCEPT ![l] = rec],
         UNCHANGED <<cloud, disk, light, window, starting, saveFailed>>,
         UNCHANGED events \/ (events < MaxEvents /\ events' = events + 1)
  PROVE  IInv'
  <1> USE DEF IInv
  <1>1. run' \in [Runs -> Run] /\ RunsOK'  BY GoesOK DEF disk
  <1>2. info' \in [Locks -> Info] /\ \A k \in Locks : info'[k].did = info[k].did
    BY DEF TypeOK
  <1>3. TypeOK'
    <2>1. events' \in 0..MaxEvents  BY EventsOK
    <2> QED  BY <1>1, <1>2, <2>1 DEF TypeOK, cloud, disk, starting
  <1>4. OwnId'  BY <1>2 DEF OwnId, cloud, disk
  <1>5. Known'  BY <1>2 DEF Known, disk
  <1> QED  BY <1>1, <1>3, <1>4, <1>5

LEMMA RunStepInv ==
  ASSUME IInv, NEW r \in Runs, RunStep(r)
  PROVE  IInv'
  <1>0. TypeOK /\ run[r] \in Run /\ RunOK(run[r], node)
    BY DEF IInv, TypeOK, RunsOK
  <1>1. CASE discoverLocks(r)
    <2>1. RunOK(Over("setup", account), node)  BY <1>0, OverOK DEF TypeOK
    <2> QED  BY <1>1, <2>1, OnlyGoes DEF discoverLocks
  <1>2. CASE DiscoverFails(r)
    <2>1. RunOK(IF r = Loop THEN Waits("pause") ELSE Idle, node)  BY WaitsOK DEF Idle
    <2> QED  BY <1>2, <2>1, OnlyGoes DEF DiscoverFails, Fault
  <1>3. ASSUME NEW l \in Locks, ensureVirtualLight(r, l)
        PROVE  IInv'
    <2>1. RunOK([run[r] EXCEPT !.at = "light", !.lock = l, !.todo = @ \ {l}], node)
      BY <1>0 DEF RunOK, Run
    <2> QED  BY <1>3, <2>1, AsksStep DEF ensureVirtualLight
  <1>4. CASE ensureLightBridge(r)
    <2>1. RunOK([run[r] EXCEPT !.at = "gen"], node)
      BY <1>0, <1>4 DEF ensureLightBridge, RunOK, Run
    <2>2. PICK x \in {Next(r), [run[r] EXCEPT !.at = "gen"]} : Goes(r, x)
      BY <1>4 DEF ensureLightBridge
    <2>3. RunOK(x, node)  BY <2>1, <2>2, NextOK
    <2> QED  BY <1>4, <2>2, <2>3, OnlyGoes DEF ensureLightBridge
  <1>5. CASE genNodeId(r)
    <2>1. PICK n \in Nodes :
             /\ info' = [info EXCEPT ![run[r].lock].nodeIdHex = n]
             /\ Goes(r, [run[r] EXCEPT !.at = "commission", !.node = n])
      BY <1>5 DEF genNodeId
    <2>2. run[r].lock \in Locks /\ info[run[r].lock] \in Info
      BY <1>0, <1>5 DEF genNodeId, RunOK, TypeOK
    <2>3. RunOK([run[r] EXCEPT !.at = "commission", !.node = n], node)
      BY <1>0, <2>2 DEF RunOK, Run
    <2> DEFINE rec == [info[run[r].lock] EXCEPT !.nodeIdHex = n]
    <2>4. rec \in Info /\ rec.did = info[run[r].lock].did  BY <2>2 DEF Info
    <2>5. info' = [info EXCEPT ![run[r].lock] = rec]  BY <2>1
    <2> HIDE DEF rec
    <2> QED  BY <1>5, <2>1, <2>2, <2>3, <2>4, <2>5, RecordStep DEF genNodeId
  <1>6. CASE commissionNode(r)  BY <1>6, commissionStep
  <1>7. CASE signup(r)
    <2>1. RunOK([run[r] EXCEPT !.at = "bind"], node)
      BY <1>0, <1>7 DEF signup, RunOK, Run
    <2>2. /\ UNCHANGED <<account, net, adopted, disk, lights, starting, events, saveFailed>>
          /\ signed' = signed \cup {run[r].node} /\ run[r].node \in Nodes
          /\ Goes(r, [run[r] EXCEPT !.at = "bind"])
      BY <1>0, <1>7 DEF signup, RunOK
    <2>3. run' \in [Runs -> Run] /\ RunsOK'  BY <2>1, <2>2, GoesOK DEF disk
    <2>4. TypeOK'
      BY <1>0, <2>2, <2>3 DEF TypeOK, disk, lights, starting
    <2>5. OwnId' /\ Known'  BY <2>2, LightsAlone DEF disk, lights
    <2> QED  BY <2>3, <2>4, <2>5 DEF IInv
  <1>8. CASE waitBind(r)  BY <1>8, waitBindStep
  <1>9. CASE BridgeFails(r)
    <2>1. run[r].lock \in Locks /\ info[run[r].lock] \in Info
      BY <1>0, <1>9 DEF BridgeFails, RunOK, TypeOK
    <2> DEFINE rec == [info[run[r].lock] EXCEPT !.status = "error"]
    <2>2. rec \in Info /\ rec.did = info[run[r].lock].did  BY <2>1 DEF Info
    <2>3. info' = [info EXCEPT ![run[r].lock] = rec]  BY <1>9 DEF BridgeFails
    <2>4. UNCHANGED events \/ (events < MaxEvents /\ events' = events + 1)
      BY <1>9 DEF BridgeFails, Fault
    <2> HIDE DEF rec
    <2> QED  BY <1>9, <2>1, <2>2, <2>3, <2>4, NextOK, RecordStep DEF BridgeFails
  <1>10. CASE Finish(r)
    <2>1. /\ cfg' \in SUBSET Locks /\ saveFailed' \in BOOLEAN /\ everSetup' \in BOOLEAN
          /\ UNCHANGED events \/ (events < MaxEvents /\ events' = events + 1)
      BY <1>0, <1>10 DEF Finish, Fault, TypeOK, Run
    <2>2. PICK x \in {Over("local", cfg'), Waits("pause"), Idle} : Goes(r, x)
      BY <1>10 DEF Finish
    <2>3. RunOK(x, node)  BY <2>1, <2>2, OverOK, WaitsOK DEF Idle
    <2>4. UNCHANGED <<cloud, file, node, paired, locked, lights, up, mqtt, mqttStarted, inLoop>>
      BY <1>10 DEF Finish
    <2> QED  BY <1>0, <2>1, <2>2, <2>3, <2>4, RunGoes DEF TypeOK
  <1> QED
    BY <1>1, <1>2, <1>3, <1>4, <1>5, <1>6, <1>7, <1>8, <1>9, <1>10 DEF RunStep

-----------------------------------------------------------------------------
(* The world.                                                              *)

LEMMA WorldStep ==
  ASSUME IInv, World
  PROVE  IInv'
  <1> USE DEF IInv
  <1>1. ASSUME NEW r \in Webs, StartWeb(r)
        PROVE  IInv'
    BY <1>1, LoopInRuns, WaitsOK, OnlyGoes DEF StartWeb
  <1>2. ASSUME UNCHANGED <<file, node, light, info, run, net, starting, saveFailed, locked, cfg>>,
               adopted \subseteq adopted',
               account' \in SUBSET Locks, signed' \in SUBSET Nodes, adopted' \in SUBSET Nodes,
               paired' \in SUBSET Locks, window' \in SUBSET Locks,
               UNCHANGED events \/ (events < MaxEvents /\ events' = events + 1)
        PROVE  IInv'
    <2>1. TypeOK'  BY <1>2, EventsOK DEF TypeOK, starting
    <2>2. OwnId' /\ Known'  BY <1>2, LightsAlone
    <2>3. RunsOK'  BY <1>2 DEF RunsOK
    <2> QED  BY <2>1, <2>2, <2>3
  <1>3. ASSUME NEW l \in Locks, AddLock(l)
        PROVE  IInv'
    BY <1>2, <1>3 DEF AddLock, TypeOK, disk, lights, cloud
  <1>4. ASSUME NEW l \in Locks, openPairingWindow(l) \/ WindowCloses(l) \/ Pair(l)
        PROVE  IInv'
    BY <1>2, <1>4 DEF openPairingWindow, WindowCloses, Pair, TypeOK, disk, cloud
  <1>5. ASSUME NEW n \in Nodes, HubAdopts(n)
        PROVE  IInv'
    BY <1>2, <1>5 DEF HubAdopts, TypeOK, disk, lights
  <1>6. CASE Crash
    <2>1. NoInfo \in Info /\ Idle \in Run  BY DEF NoInfo, Info, Idle, Run, Waits
    <2>2. TypeOK'
      <3>1. events' \in 0..MaxEvents  BY <1>6, EventsOK DEF Crash
      <3> QED  BY <1>6, <2>1, <3>1 DEF Crash, TypeOK, cloud, disk
    <2>3. RunsOK'  BY <1>6, WaitsOK DEF Crash, RunsOK, Idle
    <2>4. OwnId'  BY <1>6 DEF Crash, OwnId, NoInfo, cloud, disk
    <2>5. Known'  BY <1>6 DEF Crash, Known
    <2> QED  BY <2>2, <2>3, <2>4, <2>5
  <1>7. CASE Restart
    <2>1. TypeOK'  BY <1>7 DEF Restart, TypeOK, cloud, disk, lights
    <2>2. OwnId' /\ Known'  BY <1>7, LightsAlone DEF Restart, cloud, disk, lights
    <2>3. RunsOK'  BY <1>7 DEF Restart, RunsOK, disk
    <2> QED  BY <2>1, <2>2, <2>3
  <1> QED  BY <1>1, <1>3, <1>4, <1>5, <1>6, <1>7 DEF World

LEMMA StutterStep == IInv /\ UNCHANGED vars => IInv'
  BY DEF IInv, TypeOK, RunsOK, OwnId, Known, vars, cloud, disk, lights, starting

LEMMA NextInv == IInv /\ [NextStep]_vars => IInv'
  BY BootstrapStep, RunStepInv, LightStartsStep, LightFailsStep, WorldStep, StutterStep
  DEF NextStep, Light

\* The state of the lights, the runs and the start is of its type.
THEOREM Types == Spec => []TypeOK
  <1>1. IInv => TypeOK  BY DEF IInv
  <1> QED  BY <1>1, InitInv, NextInv, PTL DEF Spec

\* The id kept for a lock is that of the node which its light really is, and the hub
\* has it, however many runs cross and wherever the process ends.
THEOREM KeepsOwnId == Spec => []OwnId
  <1>1. IInv => OwnId  BY DEF IInv
  <1> QED  BY <1>1, InitInv, NextInv, PTL DEF Spec

-----------------------------------------------------------------------------
(* Commissioning again.                                                    *)

AgainOnlyUnknown ==
    \A r \in Runs : run[r].at = "light" /\ run'[r].at = "gen" => file[run[r].lock] = None

\* Only a light without an id of its own goes on to be commissioned.
LEMMA AgainStep ==
  ASSUME IInv, NextStep
  PROVE  AgainOnlyUnknown
  <1> SUFFICES ASSUME NEW r \in Runs, run[r].at = "light", run'[r].at = "gen"
               PROVE  file[run[r].lock] = None
    BY DEF AgainOnlyUnknown
  <1>0. run \in [Runs -> Run]  BY DEF IInv, TypeOK
  <1>1. ASSUME NEW q \in Runs, NEW x, Goes(q, x), x.at # "gen"
        PROVE  FALSE
    <2>1. run' = [run EXCEPT ![q] = x]  BY <1>1 DEF Goes
    <2>2. CASE q = r  BY <1>0, <1>1, <2>1, <2>2
    <2>3. CASE q # r  BY <1>0, <2>1, <2>3
    <2> QED  BY <2>2, <2>3
  <1>2. ASSUME UNCHANGED run
        PROVE  FALSE
    BY <1>2
  <1>3. \A step : Waits(step).at = step  BY DEF Waits
  <1>4. \A step, found : Over(step, found).at = step  BY DEF Over, Waits
  <1>5. \A q \in Runs : Next(q).at = "setup"  BY <1>0 DEF Next, Run
  <1>6. CASE Bootstrap
    <2>1. PICK x : Goes(Loop, x) /\ x.at # "gen"
      <3>1. CASE kickBootstrap  BY <1>3, <1>4, <3>1 DEF kickBootstrap
      <3>2. CASE LocalLightReady
        <4>1. [run[Loop] EXCEPT !.at = "local", !.lock = None].at = "local"
          BY <1>0, LoopInRuns DEF Run
        <4> QED  BY <3>2, <4>1 DEF LocalLightReady
      <3>3. CASE startMqttBridge  BY <1>3, <3>3 DEF startMqttBridge
      <3>4. CASE login \/ LoginFails \/ LoopAgain
        BY <1>3, <3>4 DEF login, LoginFails, LoopAgain
      <3>5. ASSUME NEW l \in Locks, LocalLight(l)
            PROVE  \E x : Goes(Loop, x) /\ x.at # "gen"
        <4>1. [run[Loop] EXCEPT !.at = "locallight", !.lock = l, !.todo = @ \ {l}].at = "locallight"
          BY <1>0, LoopInRuns DEF Run
        <4> QED  BY <3>5, <4>1 DEF LocalLight
      <3> QED  BY <1>6, <3>1, <3>2, <3>3, <3>4, <3>5 DEF Bootstrap
    <2> QED  BY <1>1, <2>1, LoopInRuns
  <1>7. ASSUME NEW q \in Runs, RunStep(q), ~ensureLightBridge(q)
        PROVE  FALSE
    <2>1. PICK x : Goes(q, x) /\ x.at # "gen"
      <3>1. CASE discoverLocks(q)  BY <1>4, <3>1 DEF discoverLocks
      <3>2. CASE DiscoverFails(q)  BY <1>3, <3>2 DEF DiscoverFails, Idle
      <3>3. ASSUME NEW l \in Locks, ensureVirtualLight(q, l)
            PROVE  \E x : Goes(q, x) /\ x.at # "gen"
        <4>1. [run[q] EXCEPT !.at = "light", !.lock = l, !.todo = @ \ {l}].at = "light"
          BY <1>0 DEF Run
        <4> QED  BY <3>3, <4>1 DEF ensureVirtualLight
      <3>4. CASE genNodeId(q)
        <4>1. PICK n \in Nodes : Goes(q, [run[q] EXCEPT !.at = "commission", !.node = n])
          BY <3>4 DEF genNodeId
        <4>2. [run[q] EXCEPT !.at = "commission", !.node = n].at = "commission"
          BY <1>0 DEF Run
        <4> QED  BY <4>1, <4>2
      <3>5. CASE commissionNode(q) \/ signup(q)
        <4>1. /\ [run[q] EXCEPT !.at = "signup"].at = "signup"
              /\ [run[q] EXCEPT !.at = "bind"].at = "bind"
          BY <1>0 DEF Run
        <4> QED  BY <3>5, <4>1 DEF commissionNode, signup
      <3>6. CASE waitBind(q) \/ BridgeFails(q)  BY <1>5, <3>6 DEF waitBind, BridgeFails
      <3>7. CASE Finish(q)  BY <1>3, <1>4, <3>7 DEF Finish, Idle
      <3> QED  BY <1>7, <3>1, <3>2, <3>3, <3>4, <3>5, <3>6, <3>7 DEF RunStep
    <2> QED  BY <1>1, <2>1
  <1>8. ASSUME NEW q \in Runs, ensureLightBridge(q)
        PROVE  file[run[r].lock] = None
    <2>1. CASE q = r
      <3>1. info[run[r].lock].did = None
        <4>1. CASE info[run[r].lock].did # None
          <5>1. Goes(r, Next(r))  BY <1>8, <2>1, <4>1 DEF ensureLightBridge
          <5> QED  BY <1>1, <1>5, <5>1
        <4> QED  BY <4>1
      <3>2. run[r].lock \in Locks /\ light[run[r].lock] = "ready"
        BY <1>8, <2>1 DEF ensureLightBridge, IInv, RunsOK, RunOK
      <3> QED  BY <3>1, <3>2 DEF IInv, Known
    <2>2. CASE q # r
      <3>1. PICK x : run' = [run EXCEPT ![q] = x]
        BY <1>8 DEF ensureLightBridge, Goes
      <3> QED  BY <1>0, <2>2, <3>1
    <2> QED  BY <2>1, <2>2
  <1>9. ASSUME NEW l \in Locks, Light(l)
        PROVE  FALSE
    <2>1. CASE LightStarts(l)  BY <1>2, <2>1 DEF LightStarts
    <2>2. CASE LightFails(l)
      <3>1. run'[r] \in {Rejected(r), run[r]}  BY <2>2 DEF LightFails
      <3>2. Rejected(r).at # "gen"
        <4>1. [run[r] EXCEPT !.at = "local", !.lock = None].at = "local"
          BY <1>0 DEF Run
        <4> QED  BY <1>3, <4>1 DEF Rejected, Idle
      <3> QED  BY <3>1, <3>2
    <2> QED  BY <1>9, <2>1, <2>2 DEF Light
  <1>10. CASE World
    <2>1. CASE UNCHANGED run  BY <1>2, <2>1
    <2>2. ASSUME NEW q \in Webs, StartWeb(q)
          PROVE  FALSE
      BY <1>1, <1>3, <2>2, LoopInRuns DEF StartWeb
    <2>3. CASE Crash
      <3>1. run'[r] = Idle  BY <2>3 DEF Crash
      <3> QED  BY <1>3, <3>1 DEF Idle
    <2> QED
      BY <1>10, <2>1, <2>2, <2>3
      DEF World, AddLock, openPairingWindow, WindowCloses, Pair, HubAdopts, Restart
  <1> QED  BY <1>6, <1>7, <1>8, <1>9, <1>10 DEF NextStep

\* A light whose id is on the disk is never commissioned again, neither by a later run
\* nor after a restart.
THEOREM NeverAgain == Spec => NotAgain
  <1>1. IInv /\ [NextStep]_vars => [AgainOnlyUnknown]_vars  BY AgainStep
  <1>2. Spec => [][AgainOnlyUnknown]_vars
    BY <1>1, InitInv, NextInv, PTL DEF Spec
  <1> QED  BY <1>2 DEF NotAgain, AgainOnlyUnknown

=============================================================================
