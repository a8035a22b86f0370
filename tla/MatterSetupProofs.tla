------------------------- MODULE MatterSetupProofs -------------------------
(***************************************************************************)
(* Proofs about MatterSetup: types, and that a run that is alone and meets *)
(* no fault never leaves an automation twice and keeps on file all that    *)
(* tells who opened a lock.                                                *)
(***************************************************************************)
EXTENDS MatterSetup, FiniteSetTheorems, TLAPS

-----------------------------------------------------------------------------
(* Operators.                                                              *)

\* The level of a credential is one of those from First on (matterSetup.server.ts:204-252).
LEMMA LevelInRange ==
    ASSUME NEW read \in SUBSET Creds, NEW c \in Placed(read)
    PROVE  credLevel(read, c) \in First..Last
<1>1. IsFiniteSet({d \in read : d < c})
  BY ParametersAssumption, FS_Subset
<1>2. Cardinality({d \in read : d < c}) \in Nat
  BY <1>1, FS_CardinalityType
<1>. QED  BY <1>2, ParametersAssumption DEF credLevel, Placed

\* What is built for the events of a lock are items.
LEMMA StaticItemsType ==
    ASSUME NEW l \in Locks
    PROVE  StaticItems(l) \subseteq Item
BY ParametersAssumption DEF StaticItems, Item

\* What is built for its credentials are items, on the levels for credentials.
LEMMA CredItemsType ==
    ASSUME NEW l \in Locks, NEW read \in SUBSET Creds
    PROVE  /\ CredItems(l, read) \subseteq Item
           /\ \A i \in CredItems(l, read) : i.event \in Creds /\ i.level \in First..Last
<1>1. \A c \in Placed(read) : c \in Creds /\ c \in Nat /\ credLevel(read, c) \in First..Last
  BY LevelInRange, ParametersAssumption DEF Placed
<1>. QED  BY <1>1, ParametersAssumption DEF CredItems, Item

\* No levels mean anything.
LEMMA NoLevelsType == NoLevels \in Meanings
<1>1. NoLevels \in [{} -> {LabelOf[c] : c \in Creds}]  BY DEF NoLevels
<1>2. {} \in SUBSET (First..Last)  OBVIOUS
<1>. QED  BY <1>1, <1>2 DEF Meanings

\* Registering levels keeps the index one of levels to labels.
LEMMA RegisterType ==
    ASSUME NEW new \in Meanings, NEW old \in Meanings
    PROVE  registerDynamicLevels(new, old) \in Meanings
<1>. DEFINE L == {LabelOf[c] : c \in Creds}
<1>1. PICK D \in SUBSET (First..Last) : new \in [D -> L]  BY DEF Meanings
<1>2. PICK E \in SUBSET (First..Last) : old \in [E -> L]  BY DEF Meanings
<1>3. registerDynamicLevels(new, old) \in [E \cup D -> L]
  BY <1>1, <1>2 DEF registerDynamicLevels
<1>4. E \cup D \in SUBSET (First..Last)  OBVIOUS
<1>. QED  BY <1>3, <1>4 DEF Meanings

\* The levels noted for a lock are ones for credentials.
LEMMA LevelsOfType ==
    ASSUME NEW items, \A i \in items : i.event \in Creds /\ i.level \in First..Last
    PROVE  LevelsOf(items) \in Meanings
<1>. DEFINE L == {LabelOf[c] : c \in Creds}
            D == {i.level : i \in items}
<1>1. \A n \in D : (CHOOSE i \in items : i.level = n) \in items  OBVIOUS
<1>2. \A n \in D : LabelOf[(CHOOSE i \in items : i.level = n).event] \in L  BY <1>1
<1>3. LevelsOf(items) \in [D -> L]  BY <1>2 DEF LevelsOf
<1>4. D \in SUBSET (First..Last)  OBVIOUS
<1>. QED  BY <1>3, <1>4 DEF Meanings

-----------------------------------------------------------------------------
(* The invariant. While a single run works, what it listed is what its home *)
(* still has, and while it creates, nothing it has yet to create is there.  *)
Alone ==
    Solo =>
        /\ \A r \in Webs : run[r] = Idle
        /\ run[Loop].at = "locks" => run[Loop].existing = AutosIn(HomeOf[run[Loop].hub])
        /\ run[Loop].at = "create" =>
              \A a \in AutosIn(HomeOf[run[Loop].hub]) : a.item \notin run[Loop].todo

IInv == TypeOK /\ NeverTwice /\ Alone

\* What a run is, by the place where it waits.
LEMMA RunKinds ==
    ASSUME TypeOK, NEW r \in Runs
    PROVE  /\ run[r].at = "hubs"   => run[r] \in Choosing
           /\ run[r].at = "locks"  => run[r] \in Building
           /\ run[r].at = "create" => run[r] \in Creation
BY DEF TypeOK, Idle, Choosing, Building, Creation

\* Counting an event keeps within the bound.
LEMMA EventsType ==
    ASSUME TypeOK
    PROVE  /\ MoreEvents => webs + 1 \in Nat /\ (webs + 1) + changes + crashes + faults <= MaxEvents
           /\ MoreEvents => changes + 1 \in Nat /\ webs + (changes + 1) + crashes + faults <= MaxEvents
           /\ MoreEvents => crashes + 1 \in Nat /\ webs + changes + (crashes + 1) + faults <= MaxEvents
           /\ MoreEvents => faults + 1 \in Nat /\ webs + changes + crashes + (faults + 1) <= MaxEvents
BY ParametersAssumption DEF TypeOK, MoreEvents

-----------------------------------------------------------------------------
(* Types.                                                                  *)

\* The first state is typed.
LEMMA TypeInit == Init => TypeOK
<1>. SUFFICES ASSUME Init PROVE TypeOK  OBVIOUS
<1>1. autos \subseteq Automation
  BY ParametersAssumption DEF Init, Automation, Item
<1>2. run \in [Runs -> {Idle} \cup Choosing \cup Building \cup Creation]
  BY DEF Init
<1>3. 0 + 0 + 0 + 0 <= MaxEvents
  BY ParametersAssumption
<1>. QED  BY <1>1, <1>2, <1>3, NoLevelsType DEF Init, TypeOK

\* A run that goes on to the next hub keeps its hubs and levels.
LEMMA BetweenType ==
    ASSUME TypeOK, NEW r \in Runs, run[r].at \in {"locks", "create"}
    PROVE  Between(r) \in Choosing
BY RunKinds DEF Between, Choosing, Building, Creation

\* A run that starts is a run.
LEMMA TypeStart ==
    ASSUME TypeOK, NEW r \in Runs, Start(r)
    PROVE  run' \in [Runs -> {Idle} \cup Choosing \cup Building \cup Creation]
<1>1. [at |-> "hubs", hubs |-> Hubs, levels |-> NoLevels] \in Choosing
  BY NoLevelsType DEF Choosing
<1>. QED  BY <1>1 DEF Start, TypeOK

\* A run that has listed a home is a run (matterSetup.server.ts:96).
LEMMA TypeList ==
    ASSUME TypeOK, NEW r \in Runs, NEW h \in Hubs, NEW found \in SUBSET Automation,
           List(r, h, found)
    PROVE  run' \in [Runs -> {Idle} \cup Choosing \cup Building \cup Creation]
<1>1. run[r] \in Choosing  BY RunKinds DEF List
<1>2. locksBoundToHub(h) \subseteq Locks  BY DEF locksBoundToHub
<1>3. [at |-> "locks", hubs |-> run[r].hubs \ {h}, levels |-> run[r].levels, hub |-> h,
       locks |-> locksBoundToHub(h), existing |-> found, desired |-> {}] \in Building
  BY <1>1, <1>2 DEF Choosing, Building
<1>. QED  BY <1>3 DEF List, TypeOK

\* A run that has built a lock's items is a run.
LEMMA TypeBuild ==
    ASSUME TypeOK, NEW r \in Runs, NEW l \in Locks, NEW items \in SUBSET Item,
           NEW levels \in Meanings, Build(r, l, items, levels)
    PROVE  run' \in [Runs -> {Idle} \cup Choosing \cup Building \cup Creation]
<1>1. run[r] \in Building  BY RunKinds DEF Build
<1>2. registerDynamicLevels(levels, run[r].levels) \in Meanings
  BY <1>1, RegisterType DEF Building
<1>3. run'[r] \in Building
  BY <1>1, <1>2 DEF Build, TypeOK, Building
<1>4. \A q \in Runs \ {r} : run'[q] = run[q]  BY DEF Build, TypeOK
<1>5. DOMAIN run' = Runs /\ run' = [q \in Runs |-> run'[q]]  BY DEF Build, TypeOK
<1>. QED  BY <1>3, <1>4, <1>5 DEF TypeOK

\* A run that begins to create is a run: its mark is a fresh one.
LEMMA TypeRewrite ==
    ASSUME TypeOK, NEW r \in Runs, Rewrite(r)
    PROVE  run' \in [Runs -> {Idle} \cup Choosing \cup Building \cup Creation]
<1>1. run[r] \in Building  BY RunKinds DEF Rewrite, Built
<1>2. (CHOOSE m \in Marks : m \notin Used) \in Marks
  <2>1. Used \subseteq Marks
    <3>1. \A a \in autos : a.mark \in Marks  BY DEF TypeOK, Automation
    <3>2. \A q \in Runs : run[q].at = "locks" => \A a \in run[q].existing : a.mark \in Marks
      BY RunKinds DEF Building, Automation
    <3>3. \A q \in Runs : run[q].at = "create" => run[q].mark \in Marks
      BY RunKinds DEF Creation
    <3>. QED  BY <3>1, <3>2, <3>3 DEF Used
  <2>. QED  BY <2>1 DEF Rewrite
<1>3. [at |-> "create", hubs |-> run[r].hubs, levels |-> run[r].levels, hub |-> run[r].hub,
       todo |-> run[r].desired, mark |-> CHOOSE m \in Marks : m \notin Used] \in Creation
  BY <1>1, <1>2 DEF Building, Creation
<1>. QED  BY <1>3 DEF Rewrite, TypeOK

\* A run that has created an item is a run.
LEMMA TypeCreating ==
    ASSUME TypeOK, NEW r \in Runs, run[r].at = "create", NEW i \in run[r].todo, Creating(r, i)
    PROVE  run' \in [Runs -> {Idle} \cup Choosing \cup Building \cup Creation]
<1>1. run[r] \in Creation  BY RunKinds
<1>2. [run[r] EXCEPT !.todo = @ \ {i}] \in Creation  BY <1>1 DEF Creation
<1>3. Between(r) \in Choosing  BY BetweenType
<1>. QED  BY <1>2, <1>3 DEF Creating, TypeOK

\* Every step keeps the types; what it does to the run is one of the lemmas above.
LEMMA TypeStep == TypeOK /\ [Next]_vars => TypeOK'
<1>. SUFFICES ASSUME TypeOK, [Next]_vars PROVE TypeOK'  OBVIOUS
<1>. USE EventsType DEF Fault
<1>1. CASE StartLoop
  <2>1. run' \in [Runs -> {Idle} \cup Choosing \cup Building \cup Creation]
    BY <1>1, TypeStart DEF StartLoop, Runs
  <2>. QED  BY <1>1, <2>1 DEF StartLoop, TypeOK, memory
<1>2. ASSUME NEW r \in Webs, StartWeb(r) PROVE TypeOK'
  <2>1. run' \in [Runs -> {Idle} \cup Choosing \cup Building \cup Creation]
    BY <1>2, TypeStart DEF StartWeb, Runs
  <2>. QED  BY <1>2, <2>1 DEF StartWeb, TypeOK, memory
<1>3. ASSUME NEW r \in Runs, SkipHub(r) PROVE TypeOK'
  <2>1. PICK h \in run[r].hubs : run' = [run EXCEPT ![r].hubs = @ \ {h}]
    BY <1>3 DEF SkipHub
  <2>2. run[r] \in Choosing  BY <1>3, RunKinds DEF SkipHub
  <2>3. [run[r] EXCEPT !.hubs = @ \ {h}] \in Choosing  BY <2>2 DEF Choosing
  <2>4. run' \in [Runs -> {Idle} \cup Choosing \cup Building \cup Creation]
    BY <2>1, <2>3 DEF TypeOK
  <2>. QED  BY <1>3, <2>4 DEF SkipHub, TypeOK, memory, world
<1>4. ASSUME NEW r \in Runs, listLinkages(r) PROVE TypeOK'
  <2>1. PICK h \in Hubs : List(r, h, AutosIn(HomeOf[h]))  BY <1>4 DEF listLinkages
  <2>2. AutosIn(HomeOf[h]) \in SUBSET Automation  BY DEF AutosIn, TypeOK
  <2>3. run' \in [Runs -> {Idle} \cup Choosing \cup Building \cup Creation]
    BY <2>1, <2>2, TypeList
  <2>. QED  BY <1>4, <2>1, <2>3 DEF listLinkages, List, TypeOK, memory, world
<1>5. ASSUME NEW r \in Runs, ListFails(r) PROVE TypeOK'
  <2>1. PICK h \in Hubs : List(r, h, {})  BY <1>5 DEF ListFails
  <2>2. run' \in [Runs -> {Idle} \cup Choosing \cup Building \cup Creation]
    BY <2>1, TypeList
  <2>. QED  BY <1>5, <2>1, <2>2 DEF ListFails, List, TypeOK, memory, world
<1>6. ASSUME NEW r \in Runs, BuildLock(r) PROVE TypeOK'
  <2>1. PICK l \in Locks : Build(r, l, Wanted(l, creds[l]), LevelsOf(CredItems(l, creds[l])))
    BY <1>6 DEF BuildLock
  <2>2. creds[l] \in SUBSET Creds  BY DEF TypeOK
  <2>3. Wanted(l, creds[l]) \in SUBSET Item
    BY <2>2, StaticItemsType, CredItemsType DEF Wanted
  <2>4. LevelsOf(CredItems(l, creds[l])) \in Meanings
    <3>1. \A i \in CredItems(l, creds[l]) : i.event \in Creds /\ i.level \in First..Last
      BY <2>2, CredItemsType
    <3>. HIDE DEF CredItems
    <3>. QED  BY <3>1, LevelsOfType
  <2>5. run' \in [Runs -> {Idle} \cup Choosing \cup Building \cup Creation]
    BY <2>1, <2>3, <2>4, TypeBuild
  <2>. QED  BY <1>6, <2>1, <2>5 DEF BuildLock, Build, TypeOK, memory, world
<1>7. ASSUME NEW r \in Runs, BuildWithoutCreds(r) PROVE TypeOK'
  <2>1. PICK l \in Locks : Build(r, l, StaticItems(l), NoLevels)  BY <1>7 DEF BuildWithoutCreds
  <2>2. run' \in [Runs -> {Idle} \cup Choosing \cup Building \cup Creation]
    BY <2>1, StaticItemsType, NoLevelsType, TypeBuild
  <2>. QED  BY <1>7, <2>1, <2>2 DEF BuildWithoutCreds, Build, TypeOK, memory, world
<1>8. ASSUME NEW r \in Runs, BuildFails(r) PROVE TypeOK'
  <2>1. PICK l \in Locks : Build(r, l, {}, NoLevels)  BY <1>8 DEF BuildFails
  <2>2. run' \in [Runs -> {Idle} \cup Choosing \cup Building \cup Creation]
    BY <2>1, NoLevelsType, TypeBuild
  <2>. QED  BY <1>8, <2>1, <2>2 DEF BuildFails, Build, TypeOK, memory, world
<1>9. ASSUME NEW r \in Runs, Keep(r) PROVE TypeOK'
  <2>1. Between(r) \in Choosing  BY <1>9, BetweenType DEF Keep, Built
  <2>. QED  BY <1>9, <2>1 DEF Keep, TypeOK, memory, world
<1>10. ASSUME NEW r \in Runs, deleteLinkages(r) \/ DeleteFails(r) PROVE TypeOK'
  <2>1. Rewrite(r)  BY <1>10 DEF deleteLinkages, DeleteFails
  <2>2. run' \in [Runs -> {Idle} \cup Choosing \cup Building \cup Creation]
    BY <2>1, TypeRewrite
  <2>3. autos' \subseteq Automation  BY <1>10 DEF deleteLinkages, DeleteFails, TypeOK
  <2>. QED  BY <1>10, <2>1, <2>2, <2>3 DEF deleteLinkages, DeleteFails, Rewrite, TypeOK, memory, world
<1>11. ASSUME NEW r \in Runs, createAutomation(r) PROVE TypeOK'
  <2>1. PICK i \in run[r].todo :
           /\ Creating(r, i)
           /\ autos' = autos \cup {[mark |-> run[r].mark, home |-> HomeOf[run[r].hub], item |-> i]}
    BY <1>11 DEF createAutomation
  <2>2. run[r] \in Creation /\ run[r].at = "create"  BY <1>11, RunKinds DEF createAutomation
  <2>3. run' \in [Runs -> {Idle} \cup Choosing \cup Building \cup Creation]
    BY <2>1, <2>2, TypeCreating
  <2>4. [mark |-> run[r].mark, home |-> HomeOf[run[r].hub], item |-> i] \in Automation
    BY <2>2, ParametersAssumption DEF Creation, Automation
  <2>. QED  BY <1>11, <2>1, <2>3, <2>4 DEF createAutomation, Creating, TypeOK, memory, world
<1>12. ASSUME NEW r \in Runs, CreateFails(r) PROVE TypeOK'
  <2>1. PICK i \in run[r].todo : Creating(r, i)  BY <1>12 DEF CreateFails
  <2>2. run' \in [Runs -> {Idle} \cup Choosing \cup Building \cup Creation]
    BY <1>12, <2>1, TypeCreating DEF CreateFails
  <2>. QED  BY <1>12, <2>1, <2>2 DEF CreateFails, Creating, TypeOK, memory, world
<1>13. ASSUME NEW r \in Runs, Finish(r) \/ SaveFails(r) PROVE TypeOK'
  <2>1. RunEnds(r)  BY <1>13 DEF Finish, SaveFails
  <2>2. run[r].levels \in Meanings  BY <2>1, RunKinds DEF RunEnds, Choosing
  <2>3. dynamic' \in Meanings  BY <2>1, <2>2, RegisterType DEF RunEnds, TypeOK
  <2>4. saved' \in Meanings  BY <1>13, <2>2, NoLevelsType DEF Finish, SaveFails, TypeOK
  <2>. QED  BY <1>13, <2>1, <2>3, <2>4 DEF Finish, SaveFails, RunEnds, TypeOK, world
<1>14. ASSUME NEW r \in Runs, Abort(r) PROVE TypeOK'
  BY <1>14 DEF Abort, TypeOK, memory, world
<1>15. CASE Crash
  BY <1>15, NoLevelsType DEF Crash, TypeOK
<1>16. CASE Boot
  <2>1. dynamic' \in Meanings  BY <1>16, RegisterType DEF Boot, TypeOK
  <2>. QED  BY <1>16, <2>1 DEF Boot, TypeOK
<1>17. ASSUME NEW l \in Locks, Enrol(l) PROVE TypeOK'
  <2>1. creds' \in [Locks -> SUBSET Creds]  BY <1>17 DEF Enrol, TypeOK
  <2>. QED  BY <1>17, <2>1 DEF Enrol, TypeOK, memory
<1>18. CASE UNCHANGED vars
  BY <1>18 DEF vars, TypeOK
<1>. QED
  BY <1>1, <1>2, <1>3, <1>4, <1>5, <1>6, <1>7, <1>8, <1>9, <1>10, <1>11, <1>12, <1>13,
     <1>14, <1>15, <1>16, <1>17, <1>18 DEF Next, RunStep, RunFault

\* Every variable keeps its type, whatever runs overlap and whatever fails.
THEOREM TypeCorrect == Spec => []TypeOK
<1>1. Init => TypeOK  BY TypeInit
<1>2. TypeOK /\ [Next]_vars => TypeOK'  BY TypeStep
<1>. QED  BY <1>1, <1>2, PTL DEF Spec

-----------------------------------------------------------------------------
(* Once.                                                                   *)

Once == \A a, b \in autos : a.home = b.home /\ a.item = b.item => a = b

\* The first state satisfies the invariant.
LEMMA AloneInit == Init => NeverTwice /\ Alone
<1>. SUFFICES ASSUME Init PROVE NeverTwice /\ Alone  OBVIOUS
<1>1. Once
  <2>1. PICK left \in SUBSET Old, m \in Marks :
           autos = {[mark |-> m, home |-> HomeOf[i.lock], item |-> i] : i \in left}
    BY DEF Init
  <2>2. \A a \in autos : \E i \in left : a = [mark |-> m, home |-> HomeOf[i.lock], item |-> i]
    BY <2>1
  <2>3. \A a \in autos : a = [mark |-> m, home |-> HomeOf[a.item.lock], item |-> a.item]
    BY <2>2
  <2>. QED  BY <2>3 DEF Once
<1>2. \A r \in Runs : run[r] = Idle  BY DEF Init
<1>. QED  BY <1>1, <1>2 DEF Once, NeverTwice, Alone, Idle, Runs

\* With the web page and the faults away, only the loop's run is at work.
LEMMA OnlyLoop ==
    ASSUME IInv, Solo, NEW r \in Runs, run[r].at # "idle"
    PROVE  r = Loop
BY DEF IInv, Alone, Idle, Runs

\* A step after which there was neither web page nor fault is none of theirs.
LEMMA QuietStep ==
    ASSUME TypeOK, Next, Solo'
    PROVE  Solo /\ \/ StartLoop \/ Crash \/ Boot
                   \/ \E r \in Runs : RunStep(r)
                   \/ \E l \in Locks : Enrol(l)
<1>1. webs \in Nat /\ faults \in Nat  BY DEF TypeOK
<1>2. \A r \in Webs : ~StartWeb(r)  BY <1>1 DEF StartWeb, Solo
<1>3. \A kind : ~Fault(kind)  BY <1>1 DEF Fault, Solo
<1>4. \A r \in Runs : ~RunFault(r)
  BY <1>3 DEF RunFault, ListFails, BuildWithoutCreds, BuildFails, DeleteFails, CreateFails,
              SaveFails, Abort
<1>5. Solo
  <2>1. CASE StartLoop  BY <2>1 DEF StartLoop, Solo
  <2>2. CASE Crash  BY <2>2 DEF Crash, Solo
  <2>3. CASE Boot  BY <2>3 DEF Boot, Solo
  <2>4. ASSUME NEW l \in Locks, Enrol(l) PROVE Solo  BY <2>4 DEF Enrol, Solo
  <2>5. ASSUME NEW r \in Runs, RunStep(r) PROVE Solo
    BY <2>5 DEF RunStep, SkipHub, listLinkages, List, BuildLock, Build, Keep, deleteLinkages,
                Rewrite, createAutomation, Creating, Finish, RunEnds, world, Solo
  <2>. QED  BY <2>1, <2>2, <2>3, <2>4, <2>5, <1>2, <1>4 DEF Next
<1>. QED  BY <1>2, <1>4, <1>5 DEF Next

\* The loop's run alone: what it lists is what it deletes, and what it creates is
\* not there yet.
LEMMA AloneStep == IInv /\ [Next]_vars => NeverTwice' /\ Alone'
<1>. DEFINE Order ==
        /\ \A r \in Webs : run[r] = Idle
        /\ run[Loop].at = "locks" => run[Loop].existing = AutosIn(HomeOf[run[Loop].hub])
        /\ run[Loop].at = "create" =>
              \A a \in AutosIn(HomeOf[run[Loop].hub]) : a.item \notin run[Loop].todo
<1>. SUFFICES ASSUME IInv, [Next]_vars, Solo' PROVE Once' /\ Order'
  BY DEF NeverTwice, Alone, Once
<1>1. CASE UNCHANGED vars
  BY <1>1 DEF vars, IInv, NeverTwice, Alone, Once, Solo, AutosIn
<1>2. CASE Next
  <2>1. /\ Solo /\ TypeOK /\ Once /\ Order
        /\ Loop \in Runs /\ Webs \subseteq Runs \ {Loop}
    BY <1>2, QuietStep, ParametersAssumption DEF IInv, NeverTwice, Alone, Once, Runs
  <2>2. CASE StartLoop
    BY <2>1, <2>2 DEF StartLoop, Start, Once, TypeOK, AutosIn
  <2>3. CASE Crash
    BY <2>1, <2>3 DEF Crash, Once, Idle
  <2>4. CASE Boot
    BY <2>1, <2>4 DEF Boot, Once, AutosIn
  <2>5. ASSUME NEW l \in Locks, Enrol(l) PROVE Once' /\ Order'
    BY <2>1, <2>5 DEF Enrol, Once, AutosIn
  <2>6. ASSUME NEW r \in Runs, RunStep(r) PROVE Once' /\ Order'
    <3>1. ASSUME run[r].at # "idle" PROVE r = Loop
      BY <2>1, <3>1, OnlyLoop
    <3>2. CASE SkipHub(r)
      <4>1. r = Loop  BY <3>1, <3>2 DEF SkipHub
      <4>2. run[r] \in Choosing  BY <2>1, <3>2, RunKinds DEF SkipHub
      <4>3. run'[Loop].at = "hubs"
        BY <2>1, <3>2, <4>1, <4>2 DEF SkipHub, TypeOK, Choosing
      <4>. QED  BY <2>1, <3>2, <4>1, <4>3 DEF SkipHub, Once, TypeOK, AutosIn
    <3>3. CASE listLinkages(r)
      <4>1. PICK h \in Hubs : List(r, h, AutosIn(HomeOf[h]))  BY <3>3 DEF listLinkages
      <4>2. r = Loop  BY <3>1, <4>1 DEF List
      <4>. QED  BY <2>1, <4>1, <4>2 DEF List, Once, TypeOK, AutosIn
    <3>4. CASE BuildLock(r)
      <4>1. PICK l \in Locks :
               Build(r, l, Wanted(l, creds[l]), LevelsOf(CredItems(l, creds[l])))
        BY <3>4 DEF BuildLock
      <4>2. r = Loop  BY <3>1, <4>1 DEF Build
      <4>3. run[Loop] \in Building  BY <2>1, <4>1, <4>2, RunKinds DEF Build
      <4>4. /\ run'[Loop].at = "locks"
            /\ run'[Loop].hub = run[Loop].hub
            /\ run'[Loop].existing = run[Loop].existing
        BY <2>1, <4>1, <4>2, <4>3 DEF Build, TypeOK, Building
      <4>. QED  BY <2>1, <4>1, <4>2, <4>3, <4>4 DEF Build, Once, TypeOK, AutosIn, Building
    <3>5. CASE Keep(r)
      <4>1. r = Loop  BY <3>1, <3>5 DEF Keep, Built
      <4>. QED  BY <2>1, <3>5, <4>1 DEF Keep, Between, Once, TypeOK, AutosIn
    <3>6. CASE deleteLinkages(r)
      <4>1. r = Loop /\ run[Loop].at = "locks"
        BY <3>1, <3>6 DEF deleteLinkages, Rewrite, Built
      <4>2. run'[Loop].at = "create" /\ run'[Loop].hub = run[Loop].hub
        BY <2>1, <3>6, <4>1 DEF deleteLinkages, Rewrite, TypeOK
      <4>3. autos' = autos \ AutosIn(HomeOf[run[Loop].hub])
        BY <2>1, <3>6, <4>1 DEF deleteLinkages
      <4>4. AutosIn(HomeOf[run[Loop].hub])' = {}
        BY <4>2, <4>3 DEF AutosIn
      <4>5. \A q \in Webs : run'[q] = Idle
        BY <2>1, <3>6, <4>1 DEF deleteLinkages, Rewrite, TypeOK
      <4>. QED  BY <2>1, <4>2, <4>3, <4>4, <4>5 DEF Once
    <3>7. CASE createAutomation(r)
      <4>1. r = Loop /\ run[Loop].at = "create"  BY <3>1, <3>7 DEF createAutomation
      <4>2. PICK i \in run[Loop].todo :
               /\ Creating(Loop, i)
               /\ autos' = autos \cup {[mark |-> run[Loop].mark, home |-> HomeOf[run[Loop].hub], item |-> i]}
        BY <3>7, <4>1 DEF createAutomation
      <4>3. \A a \in autos : a.home = HomeOf[run[Loop].hub] => a.item \notin run[Loop].todo
        BY <2>1, <4>1 DEF AutosIn
      <4>4. Once'  BY <2>1, <4>2, <4>3 DEF Once
      <4>5. \A q \in Webs : run'[q] = Idle
        BY <2>1, <4>2 DEF Creating, TypeOK
      <4>6. run[Loop] \in Creation  BY <2>1, <4>1, RunKinds
      <4>7. \/ run'[Loop].at = "hubs"
            \/ /\ run'[Loop].at = "create"
               /\ run'[Loop].hub = run[Loop].hub
               /\ run'[Loop].todo = run[Loop].todo \ {i}
        BY <2>1, <4>2, <4>6 DEF Creating, Between, TypeOK, Creation
      <4>. QED  BY <4>2, <4>3, <4>4, <4>5, <4>7 DEF AutosIn
    <3>8. CASE Finish(r)
      <4>1. r = Loop  BY <3>1, <3>8 DEF Finish, RunEnds
      <4>. QED  BY <2>1, <3>8, <4>1 DEF Finish, RunEnds, Once, TypeOK, Idle, AutosIn
    <3>. QED  BY <2>6, <3>2, <3>3, <3>4, <3>5, <3>6, <3>7, <3>8 DEF RunStep
  <2>. QED  BY <1>2, <2>1, <2>2, <2>3, <2>4, <2>5, <2>6, QuietStep
<1>. QED  BY <1>1, <1>2

\* The invariant holds in every state.
THEOREM Invariance == Spec => []IInv
<1>1. Init => IInv  BY TypeInit, AloneInit DEF IInv
<1>2. IInv /\ [Next]_vars => IInv'
  BY TypeStep, AloneStep DEF IInv
<1>. QED  BY <1>1, <1>2, PTL DEF Spec

\* Whatever a lone run finds in the cloud, wherever it is killed and started
\* again: without faults no home has two automations for one event
\* (matterSetup.server.ts:61-66).
THEOREM OnlyOnce == Spec => []NeverTwice
<1>1. IInv => NeverTwice  BY DEF IInv
<1>. QED  BY <1>1, Invariance, PTL

-----------------------------------------------------------------------------
(* Who.                                                                    *)

\* A level for credentials that an automation sets is among those noted.
Covered(i, levels) ==
    i.event \in Creds /\ i.level \in First..Last => i.level \in DOMAIN levels

\* The home has a hub with locks, but for those left out: of them all, the setup
\* handles the home; of those still to come, it has handled it.
Handled(home, left) ==
    \E h \in Hubs \ left : HomeOf[h] = home /\ locksBoundToHub(h) # {}

\* What the loop's run has noted covers the homes it has been through; what it has
\* built for a hub is not empty once it met a lock.
AtHubs ==
    run[Loop].at = "hubs" =>
        \A a \in autos : Handled(a.home, run[Loop].hubs) => Covered(a.item, run[Loop].levels)
AtLocks ==
    run[Loop].at = "locks" =>
        /\ run[Loop].hub \notin run[Loop].hubs /\ locksBoundToHub(run[Loop].hub) # {}
        /\ \A i \in run[Loop].desired : i.level \in First..Last => i.level \in DOMAIN run[Loop].levels
        /\ run[Loop].locks # locksBoundToHub(run[Loop].hub) => run[Loop].desired # {}
        /\ \A a \in autos : Handled(a.home, run[Loop].hubs \cup {run[Loop].hub})
                               => Covered(a.item, run[Loop].levels)
AtCreate ==
    run[Loop].at = "create" =>
        /\ run[Loop].hub \notin run[Loop].hubs /\ locksBoundToHub(run[Loop].hub) # {}
        /\ \A i \in run[Loop].todo : Covered(i, run[Loop].levels)
        /\ \A a \in autos : Handled(a.home, run[Loop].hubs) => Covered(a.item, run[Loop].levels)

\* The index knows what the file says; between runs the file covers all there is, or
\* the index is what the file says.
Remembered ==
    /\ up => \A n \in DOMAIN saved : n \in DOMAIN dynamic /\ dynamic[n] = saved[n]
    /\ ~up => run[Loop] = Idle /\ dynamic = NoLevels
    /\ (\A h \in Hubs : locksBoundToHub(h) = {}) => saved = NoLevels
    /\ \A a \in autos : a.item.event \in Creds => Handled(a.home, {})
    /\ up /\ run[Loop] = Idle => dynamic = saved \/ \A a \in autos : Covered(a.item, saved)

Noted == Remembered /\ AtHubs /\ AtLocks /\ AtCreate

\* Automations left by an earlier version for credentials are in homes that the setup
\* handles.
OldHandled ==
    \A i \in Old : i.event \in Creds => Handled(HomeOf[i.lock], {})

LEMMA NotedInit == OldHandled /\ Init => Noted
<1>. SUFFICES ASSUME OldHandled, Init PROVE Noted  OBVIOUS
<1>1. run[Loop] = Idle /\ up = TRUE /\ dynamic = saved /\ saved = NoLevels
  BY DEF Init, Runs
<1>2. \A a \in autos : a.item \in Old /\ a.home = HomeOf[a.item.lock]
  BY DEF Init
<1>. QED  BY <1>1, <1>2 DEF Noted, Remembered, AtHubs, AtLocks, AtCreate, Idle, OldHandled

LEMMA RegisterDomain ==
    ASSUME NEW new, NEW old
    PROVE  DOMAIN registerDynamicLevels(new, old) = DOMAIN old \cup DOMAIN new
BY DEF registerDynamicLevels

\* Noting more covers what was covered.
LEMMA CoveredMore ==
    ASSUME NEW i, NEW levels, NEW more, Covered(i, levels), DOMAIN levels \subseteq DOMAIN more
    PROVE  Covered(i, more)
BY DEF Covered

\* A level for credentials that is built for a lock is noted, and something is built.
LEMMA WantedNoted ==
    ASSUME NEW l \in Locks, NEW read \in SUBSET Creds
    PROVE  /\ Wanted(l, read) # {}
           /\ \A i \in Wanted(l, read) :
                 i.level \in First..Last => i.level \in DOMAIN LevelsOf(CredItems(l, read))
<1>1. [lock |-> l, event |-> 0, level |-> 0] \in StaticItems(l)
  BY ParametersAssumption DEF StaticItems
<1>2. \A i \in StaticItems(l) : i.level \notin First..Last
  BY ParametersAssumption DEF StaticItems
<1>3. \A i \in CredItems(l, read) : i.level \in DOMAIN LevelsOf(CredItems(l, read))
  BY DEF LevelsOf
<1>. QED  BY <1>1, <1>2, <1>3 DEF Wanted

\* An automation with the name of one that was built sets the same level.
LEMMA SameName ==
    ASSUME NEW existing, NEW desired, Names(Items(existing)) = Names(desired),
           NEW a \in existing
    PROVE  \E i \in desired : i.level = a.item.level
<1>1. Name(a.item) \in Names(desired)  BY DEF Names, Items
<1>2. PICK i \in desired : Name(i) = Name(a.item)  BY <1>1 DEF Names
<1>. QED  BY <1>2 DEF Name

\* A home with a hub that is not the one at hand was handled without it.
LEMMA HandledOther ==
    ASSUME NEW home, NEW left, NEW h, Handled(home, left), home # HomeOf[h]
    PROVE  Handled(home, left \cup {h})
BY DEF Handled

\* Steps of the loop's run that touch neither memory, nor the cloud.
LEMMA NotedBoot ==
    ASSUME TypeOK, Noted, Boot
    PROVE  Noted'
<1>1. dynamic = NoLevels /\ run[Loop] = Idle /\ up' /\ UNCHANGED <<autos, run, saved>>
  BY DEF Boot, Noted, Remembered
<1>2. saved \in Meanings  BY DEF TypeOK
<1>3. dynamic' = saved
  <2>1. saved = [n \in DOMAIN saved |-> saved[n]]  BY <1>2 DEF Meanings
  <2>2. DOMAIN NoLevels = {}  BY DEF NoLevels
  <2>. QED  BY <1>1, <2>1, <2>2 DEF Boot, registerDynamicLevels
<1>. QED
  BY <1>1, <1>3 DEF Noted, Remembered, AtHubs, AtLocks, AtCreate, Idle

\* The end of a run: all homes that have hubs with locks were handled.
LEMMA NotedFinish ==
    ASSUME TypeOK, Noted, up, Loop \in Runs, Finish(Loop)
    PROVE  Noted'
<1>1. /\ run[Loop].at = "hubs" /\ run[Loop].hubs = {} /\ run'[Loop] = Idle
      /\ dynamic' = registerDynamicLevels(run[Loop].levels, dynamic) /\ UNCHANGED <<autos, up>>
  BY DEF Finish, RunEnds, TypeOK, world
<1>2. \A a \in autos : Handled(a.home, {}) => Covered(a.item, run[Loop].levels)
  BY <1>1 DEF Noted, AtHubs
<1>3. CASE \E h \in Hubs : locksBoundToHub(h) # {}
  <2>1. saved' = run[Loop].levels  BY <1>3 DEF Finish
  <2>2. \A n \in DOMAIN saved' : n \in DOMAIN dynamic' /\ dynamic'[n] = saved'[n]
    BY <1>1, <2>1 DEF registerDynamicLevels
  <2>3. \A a \in autos : Covered(a.item, saved')
    BY <1>2, <2>1 DEF Noted, Remembered, Covered
  <2>. QED
    BY <1>1, <1>3, <2>2, <2>3 DEF Noted, Remembered, AtHubs, AtLocks, AtCreate, Idle
<1>4. CASE ~\E h \in Hubs : locksBoundToHub(h) # {}
  <2>1. saved' = saved /\ saved = NoLevels  BY <1>4 DEF Finish, Noted, Remembered
  <2>2. DOMAIN saved' = {}  BY <2>1 DEF NoLevels
  <2>3. \A a \in autos : a.item.event \notin Creds
    BY <1>4 DEF Noted, Remembered, Handled
  <2>. QED
    BY <1>1, <1>4, <2>1, <2>2, <2>3
    DEF Noted, Remembered, AtHubs, AtLocks, AtCreate, Idle, Covered
<1>. QED  BY <1>3, <1>4

\* The steps of the loop's run within a hub, and from one hub to the next.
LEMMA NotedRun ==
    ASSUME IInv, Solo, Noted, Loop \in Runs, up,
           \/ SkipHub(Loop) \/ listLinkages(Loop) \/ BuildLock(Loop)
           \/ Keep(Loop) \/ deleteLinkages(Loop) \/ createAutomation(Loop)
    PROVE  Noted'
<1>. USE DEF Noted
<1>0. TypeOK /\ Alone  BY DEF IInv
<1>1. /\ UNCHANGED <<up, dynamic, saved>>
      /\ run[Loop].at # "idle"
      /\ run \in [Runs -> {Idle} \cup Choosing \cup Building \cup Creation]
  BY <1>0 DEF SkipHub, listLinkages, List, BuildLock, Build, Keep, Built, deleteLinkages,
              Rewrite, createAutomation, Creating, world, memory, TypeOK
<1>m. ASSUME run'[Loop].at # "idle", autos' \subseteq autos PROVE Remembered'
  BY <1>1, <1>m DEF Remembered, Idle
<1>2. CASE SkipHub(Loop)
  <2>1. PICK h \in run[Loop].hubs :
           locksBoundToHub(h) = {} /\ run' = [run EXCEPT ![Loop].hubs = @ \ {h}]
    BY <1>2 DEF SkipHub
  <2>2. run[Loop] \in Choosing  BY <1>0, <1>2, RunKinds DEF SkipHub
  <2>3. /\ run'[Loop].at = "hubs" /\ run'[Loop].hubs = run[Loop].hubs \ {h}
        /\ run'[Loop].levels = run[Loop].levels /\ autos' = autos
    BY <1>1, <1>2, <2>1, <2>2 DEF SkipHub, Choosing
  <2>4. \A a \in autos : Handled(a.home, run[Loop].hubs \ {h}) => Handled(a.home, run[Loop].hubs)
    BY <2>1 DEF Handled
  <2>5. AtHubs'  BY <1>2, <2>3, <2>4 DEF AtHubs, SkipHub
  <2>. QED  BY <1>m, <2>3, <2>5 DEF AtLocks, AtCreate
<1>3. CASE listLinkages(Loop)
  <2>1. PICK h \in Hubs : List(Loop, h, AutosIn(HomeOf[h]))  BY <1>3 DEF listLinkages
  <2>2. run[Loop] \in Choosing  BY <1>0, <2>1, RunKinds DEF List
  <2>3. /\ h \in run[Loop].hubs /\ locksBoundToHub(h) # {} /\ run[Loop].at = "hubs"
        /\ run'[Loop] = [at |-> "locks", hubs |-> run[Loop].hubs \ {h},
                         levels |-> run[Loop].levels, hub |-> h, locks |-> locksBoundToHub(h),
                         existing |-> AutosIn(HomeOf[h]), desired |-> {}]
        /\ autos' = autos
    BY <1>1, <2>1 DEF List
  <2>4. /\ run'[Loop].hub = h /\ run'[Loop].hubs = run[Loop].hubs \ {h}
        /\ run'[Loop].levels = run[Loop].levels /\ run'[Loop].desired = {}
        /\ run'[Loop].locks = locksBoundToHub(h)
        /\ run'[Loop].hubs \cup {run'[Loop].hub} = run[Loop].hubs
    BY <2>3
  <2>5. AtLocks'  BY <2>3, <2>4 DEF AtHubs, AtLocks
  <2>. QED  BY <1>m, <2>3, <2>5 DEF AtHubs, AtCreate
<1>4. CASE BuildLock(Loop)
  <2>1. PICK l \in Locks :
           Build(Loop, l, Wanted(l, creds[l]), LevelsOf(CredItems(l, creds[l])))
    BY <1>4 DEF BuildLock
  <2>2. run[Loop] \in Building /\ run[Loop].at = "locks"  BY <1>0, <2>1, RunKinds DEF Build
  <2>3. creds[l] \in SUBSET Creds  BY <1>0 DEF TypeOK
  <2>4. /\ run'[Loop].at = "locks" /\ run'[Loop].hubs = run[Loop].hubs
        /\ run'[Loop].hub = run[Loop].hub
        /\ run'[Loop].desired = run[Loop].desired \cup Wanted(l, creds[l])
        /\ run'[Loop].levels
             = registerDynamicLevels(LevelsOf(CredItems(l, creds[l])), run[Loop].levels)
        /\ autos' = autos
    BY <1>1, <2>1, <2>2 DEF Build, Building
  <2>5. DOMAIN run'[Loop].levels
          = DOMAIN run[Loop].levels \cup DOMAIN LevelsOf(CredItems(l, creds[l]))
    BY <2>4, RegisterDomain
  <2>6. \A i \in run'[Loop].desired : i.level \in First..Last => i.level \in DOMAIN run'[Loop].levels
    BY <2>2, <2>3, <2>4, <2>5, WantedNoted DEF AtLocks
  <2>7. run'[Loop].desired # {}  BY <2>3, <2>4, WantedNoted
  <2>8. \A a \in autos : Handled(a.home, run[Loop].hubs \cup {run[Loop].hub})
                           => Covered(a.item, run'[Loop].levels)
    BY <2>2, <2>5, CoveredMore DEF AtLocks
  <2>9. AtLocks'
    BY <2>2, <2>4, <2>6, <2>7, <2>8 DEF AtLocks
  <2>. QED  BY <1>m, <2>4, <2>9 DEF AtHubs, AtCreate
<1>5. CASE Keep(Loop)
  <2>1. run[Loop] \in Building /\ run[Loop].at = "locks" /\ run[Loop].locks = {}
    BY <1>0, <1>5, RunKinds DEF Keep, Built
  <2>2. /\ run'[Loop].at = "hubs" /\ run'[Loop].hubs = run[Loop].hubs
        /\ run'[Loop].levels = run[Loop].levels /\ autos' = autos
    BY <1>1, <1>5 DEF Keep, Between
  <2>3. /\ run[Loop].desired # {}
        /\ Names(Items(run[Loop].existing)) = Names(run[Loop].desired)
        /\ run[Loop].existing = AutosIn(HomeOf[run[Loop].hub])
    BY <1>0, <1>5, <2>1 DEF Keep, Differs, AtLocks, Alone
  <2>4. ASSUME NEW a \in autos, Handled(a.home, run[Loop].hubs)
        PROVE  Covered(a.item, run[Loop].levels)
    <3>1. CASE a.home = HomeOf[run[Loop].hub]
      <4>1. a \in run[Loop].existing  BY <2>3, <3>1 DEF AutosIn
      <4>2. PICK i \in run[Loop].desired : i.level = a.item.level  BY <2>3, <4>1, SameName
      <4>. QED  BY <2>1, <4>2 DEF AtLocks, Covered
    <3>2. CASE a.home # HomeOf[run[Loop].hub]
      BY <2>1, <2>4, <3>2, HandledOther DEF AtLocks
    <3>. QED  BY <3>1, <3>2
  <2>5. AtHubs'  BY <2>2, <2>4 DEF AtHubs
  <2>. QED  BY <1>m, <2>2, <2>5 DEF AtLocks, AtCreate
<1>6. CASE deleteLinkages(Loop)
  <2>1. run[Loop] \in Building /\ run[Loop].at = "locks" /\ Rewrite(Loop)
    BY <1>0, <1>6, RunKinds DEF deleteLinkages, Rewrite, Built
  <2>2. /\ run'[Loop].at = "create" /\ run'[Loop].hub = run[Loop].hub
        /\ run'[Loop].hubs = run[Loop].hubs /\ run'[Loop].levels = run[Loop].levels
        /\ run'[Loop].todo = run[Loop].desired
    BY <1>1, <2>1 DEF Rewrite
  <2>3. autos' = autos \ AutosIn(HomeOf[run[Loop].hub])
    BY <1>0, <1>6, <2>1 DEF deleteLinkages, Alone
  <2>4. ASSUME NEW a \in autos', Handled(a.home, run[Loop].hubs)
        PROVE  Covered(a.item, run[Loop].levels)
    <3>1. a \in autos /\ a.home # HomeOf[run[Loop].hub]  BY <2>3 DEF AutosIn
    <3>. QED  BY <2>1, <2>4, <3>1, HandledOther DEF AtLocks
  <2>5. AtCreate'
    BY <2>1, <2>2, <2>4 DEF AtLocks, AtCreate, Covered
  <2>. QED  BY <1>m, <2>2, <2>3, <2>5 DEF AtHubs, AtLocks
<1>7. CASE createAutomation(Loop)
  <2>1. run[Loop] \in Creation /\ run[Loop].at = "create"
    BY <1>0, <1>7, RunKinds DEF createAutomation
  <2>2. PICK i \in run[Loop].todo :
           /\ Creating(Loop, i)
           /\ autos' = autos \cup {[mark |-> run[Loop].mark, home |-> HomeOf[run[Loop].hub], item |-> i]}
    BY <1>7 DEF createAutomation
  <2>3. Covered(i, run[Loop].levels)  BY <2>1, <2>2 DEF AtCreate
  <2>4. \A a \in autos' : Handled(a.home, run[Loop].hubs) => Covered(a.item, run[Loop].levels)
    BY <2>1, <2>2, <2>3 DEF AtCreate
  <2>5. Handled(HomeOf[run[Loop].hub], {})  BY <2>1 DEF AtCreate, Handled, Creation
  <2>6. Remembered'
    <3>1. run'[Loop].at # "idle"  BY <1>1, <2>1, <2>2 DEF Creating, Between, Creation
    <3>. QED  BY <1>1, <2>2, <2>5, <3>1 DEF Remembered, Idle
  <2>7. CASE run[Loop].todo = {i}
    <3>1. /\ run'[Loop].at = "hubs" /\ run'[Loop].hubs = run[Loop].hubs
          /\ run'[Loop].levels = run[Loop].levels
      BY <1>1, <2>2, <2>7 DEF Creating, Between
    <3>. QED  BY <2>4, <2>6, <3>1 DEF AtHubs, AtLocks, AtCreate
  <2>8. CASE run[Loop].todo # {i}
    <3>1. /\ run'[Loop].at = "create" /\ run'[Loop].hubs = run[Loop].hubs
          /\ run'[Loop].levels = run[Loop].levels /\ run'[Loop].hub = run[Loop].hub
          /\ run'[Loop].todo = run[Loop].todo \ {i}
      BY <1>1, <2>1, <2>2, <2>8 DEF Creating, Creation
    <3>2. AtCreate'  BY <2>1, <2>4, <3>1 DEF AtCreate
    <3>. QED  BY <2>6, <3>1, <3>2 DEF AtHubs, AtLocks
  <2>. QED  BY <2>7, <2>8
<1>. QED  BY <1>2, <1>3, <1>4, <1>5, <1>6, <1>7

\* Every step of a lone run without faults keeps what is noted.
LEMMA NotedStep == IInv /\ (Solo => Noted) /\ [Next]_vars => (Solo => Noted)'
<1>. SUFFICES ASSUME IInv, Solo => Noted, [Next]_vars, Solo' PROVE Noted'
  OBVIOUS
<1>1. CASE UNCHANGED vars
  BY <1>1 DEF vars, Solo, Noted, Remembered, AtHubs, AtLocks, AtCreate
<1>2. CASE Next
  <2>1. Solo /\ TypeOK /\ Noted /\ Loop \in Runs
    BY <1>2, QuietStep DEF IInv, Runs
  <2>2. CASE StartLoop
    <3>1. /\ up /\ UNCHANGED <<autos, dynamic, saved, up>>
          /\ run'[Loop] = [at |-> "hubs", hubs |-> Hubs, levels |-> NoLevels]
      BY <2>1, <2>2 DEF StartLoop, Start, memory, TypeOK
    <3>2. \A a \in autos : ~Handled(a.home, Hubs)  BY DEF Handled
    <3>. QED  BY <2>1, <3>1, <3>2 DEF Noted, Remembered, AtHubs, AtLocks, AtCreate, Idle
  <2>3. CASE Crash
    <3>1. /\ ~up' /\ run'[Loop] = Idle /\ dynamic' = NoLevels /\ UNCHANGED <<autos, saved>>
      BY <2>1, <2>3 DEF Crash
    <3>. QED  BY <2>1, <3>1 DEF Noted, Remembered, AtHubs, AtLocks, AtCreate, Idle
  <2>4. CASE Boot  BY <2>1, <2>4, NotedBoot
  <2>5. ASSUME NEW l \in Locks, Enrol(l) PROVE Noted'
    <3>1. UNCHANGED <<autos, up, run, dynamic, saved>>  BY <2>5 DEF Enrol, memory
    <3>. QED  BY <2>1, <3>1 DEF Noted, Remembered, AtHubs, AtLocks, AtCreate
  <2>6. ASSUME NEW r \in Runs, RunStep(r) PROVE Noted'
    <3>1. run[r].at # "idle"
      BY <2>6 DEF RunStep, SkipHub, listLinkages, List, BuildLock, Build, Keep, Built,
                  deleteLinkages, Rewrite, createAutomation, Finish, RunEnds
    <3>2. r = Loop  BY <2>1, <3>1, OnlyLoop
    <3>3. up  BY <2>1, <3>1, <3>2 DEF Noted, Remembered, Idle
    <3>. QED  BY <2>1, <2>6, <3>2, <3>3, NotedRun, NotedFinish DEF RunStep
  <2>. QED  BY <1>2, <2>1, <2>2, <2>3, <2>4, <2>5, <2>6, QuietStep
<1>. QED  BY <1>1, <1>2

\* What the index decodes, the file decodes.
LEMMA NotedDecodes == IInv /\ (Solo => Noted) => KeepsWho
<1>. SUFFICES ASSUME TypeOK, Noted, up, run[Loop] = Idle,
                     NEW a \in autos, Decoded(a, dynamic)
              PROVE  Decoded(a, saved)
  BY DEF KeepsWho, DecodesOffline, IInv, Runs
<1>1. CASE dynamic = saved  BY <1>1
<1>2. CASE dynamic # saved
  <2>1. DOMAIN dynamic \subseteq First..Last  BY DEF TypeOK, Meanings
  <2>. QED  BY <1>2, <2>1 DEF Decoded, Noted, Remembered, Covered
<1>. QED  BY <1>1, <1>2

\* One run at a time and no faults: whatever the add-on can tell of who opened a lock
\* it can still tell after a restart without the internet, for any locks, hubs and
\* credentials (matterSetup.server.ts:285), if what an earlier version left for
\* credentials is in homes that the setup handles.
THEOREM WhoIsKept == OldHandled => (Spec => []KeepsWho)
<1>. SUFFICES ASSUME OldHandled PROVE Spec => []KeepsWho  OBVIOUS
<1>1. Init => IInv /\ (Solo => Noted)
  BY TypeInit, AloneInit, NotedInit DEF IInv
<1>2. IInv /\ (Solo => Noted) /\ [Next]_vars => IInv' /\ (Solo => Noted)'
  BY TypeStep, AloneStep, NotedStep DEF IInv
<1>3. IInv /\ (Solo => Noted) => KeepsWho  BY NotedDecodes
<1>. QED  BY <1>1, <1>2, <1>3, PTL DEF Spec
=============================================================================
