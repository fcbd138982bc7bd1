----------------------------- MODULE PoolProofs -----------------------------
(* Proofs about Pool, for both kinds and modes, and for every sequence of  *)
(* configurations, whichever are broken and whichever nodes answer.        *)
EXTENDS Pool, TLAPS

(* The maps change one after the other, the master's first, and hold what  *)
(* the loader loaded last unless it is about to replace it.                *)
MapsInOrder ==
  /\ cfg.num \in Nat /\ gen \in Nat /\ turn \in Nat
  /\ mMap.gen \in Nat /\ sMap.gen \in Nat
  /\ mMap.turn \in Nat /\ sMap.turn \in Nat
  /\ gen <= cfg.num /\ mMap.gen <= gen /\ mMap.turn <= turn
  /\ lpc # "master" => mMap.gen = gen /\ mMap.turn = turn
  /\ lpc = "slave" => sMap.gen <= mMap.gen /\ sMap.turn <= mMap.turn
  /\ lpc # "slave" => sMap.gen = mMap.gen /\ sMap.turn = mMap.turn

(* The loader is told of everything published since it registered: without *)
(* an event on its way, and unless it is at reading the configuration, what *)
(* it loaded last is the configuration in force, if that one parses.       *)
Told ==
  /\ told => joined
  /\ lpc = "idle" => joined
  /\ lpc = "get" => joined \/ (Mode = "file" /\ gen = 0)
  /\ told /\ ~event /\ lpc \in {"idle", "master", "slave"} =>
       gen = cfg.num \/ cfg.content \in Broken

(* Only Close closes pools.                                                *)
ClosedByClose == cpc = "idle" => shut = {} /\ toClose = {}

(* What is about to be stored, and what is stored, has pools for each      *)
(* role, unless a node did not answer.                                     *)
NeverEmpty ==
  AllHaveNodes /\ faults = 0 =>
    /\ lpc \in {"master", "slave"} => built["slave"] # {}
    /\ lpc = "master" => built["master"] # {}
    /\ mMap.gen # 0 => mMap.pools # {}
    /\ sMap.gen # 0 => sMap.pools # {}

(* Everything in use was opened.                                           *)
InOpened ==
  /\ \A role \in Roles : lpc \in {"master", "slave"} => built[role] \subseteq opened
  /\ mMap.pools \subseteq opened /\ sMap.pools \subseteq opened

(* These are pools that load t made of the configuration in force, all of  *)
(* them if all nodes answered.                                             *)
OfConfig(pools, t, role) ==
  pools \subseteq Built(t, role) /\ (faults = 0 => pools = Built(t, role))

(* What was loaded under the number of the configuration in force is built *)
(* from it.                                                                *)
UpToDate ==
  /\ lpc \in {"master", "slave"} /\ gen = cfg.num =>
       \A role \in Roles : OfConfig(built[role], turn, role)
  /\ mMap.gen = cfg.num => OfConfig(mMap.pools, mMap.turn, "master")
  /\ sMap.gen = cfg.num => OfConfig(sMap.pools, sMap.turn, "slave")

IInv ==
  TypeOK /\ InOpened /\ MapsInOrder /\ Told /\ ClosedByClose /\ NeverEmpty
  /\ UpToDate

(* Nothing is loaded or closed at first.                                   *)
LEMMA IInvInit == Init => IInv
<1> SUFFICES ASSUME Init PROVE IInv
  OBVIOUS
<1>1. TypeOK
  <2> USE PoolAssumption DEF Init
  <2>1. Unset \in Slot
    BY DEF Unset, Slot
  <2>2. built \in [Roles -> SUBSET AllPools] /\ held \in [Users -> opened \cup {None}]
    OBVIOUS
  <2>3. cfg \in [num : 1..MaxGen, content : Configs]
    OBVIOUS
  <2>4. event \in BOOLEAN /\ joined \in BOOLEAN /\ told \in BOOLEAN
    OBVIOUS
  <2>5. gen \in 0..MaxGen /\ turn \in 0..MaxTurn /\ faults \in Nat
    OBVIOUS
  <2>6. /\ lpc \in {"start", "idle", "get", "master", "slave", "panic"}
        /\ mMap \in Slot /\ sMap \in Slot
        /\ opened = {} /\ shut = {} /\ cpc = "idle" /\ toClose = {}
    BY <2>1
  <2> HIDE DEF Init
  <2> QED
    BY <2>2, <2>3, <2>4, <2>5, <2>6 DEF TypeOK
<1>2. InOpened /\ ClosedByClose /\ NeverEmpty
  BY DEF Init, Unset, InOpened, ClosedByClose, NeverEmpty
<1>3. MapsInOrder
  BY DEF Init, Unset, MapsInOrder
<1>4. Told
  BY PoolAssumption DEF Init, Told
<1>5. UpToDate
  BY DEF Init, Unset, UpToDate
<1> QED
  BY <1>1, <1>2, <1>3, <1>4, <1>5 DEF IInv

(* The loads are numbered from 1.                                          *)
LEMMA NextTurnFacts ==
  ASSUME turn \in 0..MaxTurn
  PROVE  NextTurn \in 1..MaxTurn /\ NextTurn >= turn
BY PoolAssumption DEF NextTurn

(* The pools of a configuration that parses are among AllPools.            *)
LEMMA BuiltFacts ==
  ASSUME TypeOK, cfg.content \notin Broken, NEW t \in 1..MaxTurn, NEW role \in Roles
  PROVE  Built(t, role) \subseteq AllPools
BY DEF TypeOK, Built, AllPools

(* The numbers of a configuration and of a load do not matter to whether   *)
(* there are pools.                                                        *)
LEMMA PoolsNonempty ==
  ASSUME NEW c, NEW role, NEW g, NEW t, Pools(1, 1, c, role) # {}
  PROVE  Pools(g, t, c, role) # {}
<1>1. PICK j \in Selected(c) : \E i \in 1..Len(c[j][role]) : TRUE
  BY DEF Pools
<1>2. PICK i \in 1..Len(c[j][role]) : TRUE
  BY <1>1
<1> DEFINE p == [gen |-> g, turn |-> t, role |-> role, ins |-> j, node |-> i,
                 addr |-> Target(c[j][role], i)]
<1>3. p \in Pools(g, t, c, role)
  BY <1>1, <1>2 DEF Pools
<1> QED
  BY <1>3

(* Every variable keeps its type.                                          *)
LEMMA TypeStep == TypeOK /\ InOpened /\ [Next]_vars => TypeOK'
<1> SUFFICES ASSUME TypeOK, InOpened, [Next]_vars
             PROVE  TypeOK'
  OBVIOUS
<1> USE PoolAssumption DEF TypeOK
<1>1. CASE Publish
  BY <1>1 DEF Publish, maps, closer
<1>2. CASE Wake
  BY <1>2 DEF Wake, maps, closer
<1>3. CASE Watch
  BY <1>3 DEF Watch, maps, closer
<1>4. CASE Receive
  BY <1>4 DEF Receive, maps, closer
<1>5. CASE LoadBroken
  BY <1>5 DEF LoadBroken, notice, maps, closer
<1>6. CASE InitPanics
  BY <1>6 DEF InitPanics, notice, maps, closer
<1>7. CASE Load
  <2>1. turn' \in 1..MaxTurn
    BY <1>7, NextTurnFacts DEF Load
  <2>2. \A role \in Roles : Built(turn', role) \subseteq AllPools
    BY <1>7, <2>1, BuiltFacts DEF Load
  <2>3. built' \in [Roles -> SUBSET AllPools]
    BY <1>7, <2>2 DEF Load
  <2>4. opened' \in SUBSET AllPools /\ opened \subseteq opened'
    BY <1>7, <2>3 DEF Load, Roles
  <2>5. faults' \in Nat /\ gen' \in 0..MaxGen
    BY <1>7 DEF Load
  <2> QED
    BY <1>7, <2>1, <2>3, <2>4, <2>5 DEF Load, notice, maps, closer
<1>8. CASE StoreMaster
  BY <1>8 DEF StoreMaster, Loaded, notice, closer, Slot, Roles
<1>9. CASE StoreSlave
  BY <1>9 DEF StoreSlave, AfterLoad, Loaded, notice, closer, Slot, Roles
<1>10. ASSUME NEW u \in Users, Slave(u) \/ Master(u) \/ Finish(u)
      PROVE  TypeOK'
  BY <1>10 DEF InOpened, Slave, Master, Take, Finish, loader, notice, maps, closer
<1>11. CASE CloseMaster
  BY <1>11 DEF InOpened, CloseMaster, loader, notice, maps
<1>12. CASE CloseSlave
  BY <1>12 DEF InOpened, CloseSlave, loader, notice, maps
<1>13. ASSUME NEW p \in toClose, ClosePool(p) PROVE TypeOK'
  BY <1>13 DEF ClosePool, loader, notice, maps
<1>14. CASE UNCHANGED vars
  BY <1>14 DEF vars, loader, notice, maps, closer
<1> QED
  BY <1>1, <1>2, <1>3, <1>4, <1>5, <1>6, <1>7, <1>8, <1>9, <1>10, <1>11, <1>12,
     <1>13, <1>14
  DEF Next, LoaderStep

(* Pools are opened before they are stored, and stay opened.               *)
LEMMA OpenedStep == TypeOK /\ InOpened /\ [Next]_vars => InOpened'
<1> SUFFICES ASSUME TypeOK, InOpened, [Next]_vars
             PROVE  InOpened'
  OBVIOUS
<1> USE DEF InOpened
<1>1. CASE Publish
  BY <1>1 DEF Publish, maps
<1>2. CASE Wake
  BY <1>2 DEF Wake, maps
<1>3. CASE Watch
  BY <1>3 DEF Watch, maps
<1>4. CASE Receive
  BY <1>4 DEF Receive, maps
<1>5. CASE LoadBroken
  BY <1>5 DEF LoadBroken, maps
<1>6. CASE InitPanics
  BY <1>6 DEF InitPanics, maps
<1>7. CASE Load
  BY <1>7 DEF Load, Roles, maps
<1>8. CASE StoreMaster
  BY <1>8 DEF StoreMaster, Loaded, Roles, maps
<1>9. CASE StoreSlave
  BY <1>9 DEF StoreSlave, Loaded, AfterLoad, Roles, maps
<1>10. ASSUME NEW u \in Users, Slave(u) \/ Master(u) \/ Finish(u)
      PROVE  InOpened'
  BY <1>10 DEF Slave, Master, Take, Finish, loader, notice, maps
<1>11. CASE CloseMaster
  BY <1>11 DEF CloseMaster, loader, notice, maps
<1>12. CASE CloseSlave
  BY <1>12 DEF CloseSlave, loader, notice, maps
<1>13. ASSUME NEW p \in toClose, ClosePool(p) PROVE InOpened'
  BY <1>13 DEF ClosePool, loader, notice, maps
<1>14. CASE UNCHANGED vars
  BY <1>14 DEF vars, loader, notice, maps
<1> QED
  BY <1>1, <1>2, <1>3, <1>4, <1>5, <1>6, <1>7, <1>8, <1>9, <1>10, <1>11, <1>12,
     <1>13, <1>14
  DEF Next, LoaderStep

(* With all nodes answering, no empty map is stored.                       *)
LEMMA NeverEmptyStep == TypeOK /\ NeverEmpty /\ [Next]_vars => NeverEmpty'
<1> SUFFICES ASSUME TypeOK, NeverEmpty, [Next]_vars, AllHaveNodes, faults' = 0
             PROVE  NeverEmpty'
  BY DEF NeverEmpty, AllHaveNodes
<1> USE DEF NeverEmpty
<1>1. CASE Publish
  BY <1>1 DEF Publish, maps
<1>2. CASE Wake
  BY <1>2 DEF Wake, maps
<1>3. CASE Watch
  BY <1>3 DEF Watch, maps
<1>4. CASE Receive
  BY <1>4 DEF Receive, maps
<1>5. CASE LoadBroken
  BY <1>5 DEF LoadBroken, maps
<1>6. CASE InitPanics
  BY <1>6 DEF InitPanics, maps
<1>7. CASE Load
  <2>1. faults = 0 /\ built' = [role \in Roles |-> Built(turn', role)]
    <3>1. PICK down \in SUBSET UNION {Built(turn', role) : role \in Roles} :
            /\ IF down = {} THEN UNCHANGED faults ELSE faults' = faults + 1
            /\ built' = [role \in Roles |-> Built(turn', role) \ down]
      BY <1>7 DEF Load
    <3>2. down = {} /\ faults = 0
      BY <3>1 DEF TypeOK
    <3> QED
      BY <3>1, <3>2
  <2>2. \A role \in Roles : Built(turn', role) # {}
    BY <1>7, PoolsNonempty DEF Load, AllHaveNodes, Built, TypeOK
  <2> QED
    BY <1>7, <2>1, <2>2 DEF Load, maps, Roles
<1>8. CASE StoreMaster
  BY <1>8 DEF StoreMaster, Loaded, maps
<1>9. CASE StoreSlave
  BY <1>9 DEF StoreSlave, Loaded, AfterLoad, maps
<1>10. ASSUME NEW u \in Users, Slave(u) \/ Master(u) \/ Finish(u)
      PROVE  NeverEmpty'
  BY <1>10 DEF Slave, Master, Take, Finish, loader, notice, maps
<1>11. CASE CloseMaster
  BY <1>11 DEF CloseMaster, loader, notice, maps
<1>12. CASE CloseSlave
  BY <1>12 DEF CloseSlave, loader, notice, maps
<1>13. ASSUME NEW p \in toClose, ClosePool(p) PROVE NeverEmpty'
  BY <1>13 DEF ClosePool, loader, notice, maps
<1>14. CASE UNCHANGED vars
  BY <1>14 DEF vars, loader, notice, maps
<1> QED
  BY <1>1, <1>2, <1>3, <1>4, <1>5, <1>6, <1>7, <1>8, <1>9, <1>10, <1>11, <1>12,
     <1>13, <1>14
  DEF Next, LoaderStep

(* The loader's steps keep the maps in order; no other step touches them.  *)
LEMMA MapsStep == TypeOK /\ MapsInOrder /\ [Next]_vars => MapsInOrder'
<1> SUFFICES ASSUME TypeOK, MapsInOrder, [Next]_vars
             PROVE  MapsInOrder'
  OBVIOUS
<1> USE DEF MapsInOrder
<1>1. CASE Publish
  BY <1>1 DEF Publish, maps
<1>2. CASE Wake
  BY <1>2 DEF Wake, maps
<1>3. CASE Watch
  BY <1>3 DEF Watch, maps
<1>4. CASE Receive
  BY <1>4 DEF Receive, maps
<1>5. CASE LoadBroken
  BY <1>5 DEF LoadBroken, maps
<1>6. CASE InitPanics
  BY <1>6 DEF InitPanics, maps
<1>7. CASE Load
  <2>1. turn' \in Nat /\ turn' >= turn /\ lpc' = "master" /\ gen' = cfg.num
    BY <1>7, NextTurnFacts DEF Load, TypeOK
  <2>2. UNCHANGED <<cfg, mMap, sMap>> /\ lpc = "get"
    BY <1>7 DEF Load, maps
  <2> QED
    BY <2>1, <2>2
<1>8. CASE StoreMaster
  BY <1>8 DEF StoreMaster, Loaded, maps
<1>9. CASE StoreSlave
  BY <1>9 DEF StoreSlave, Loaded, AfterLoad, maps
<1>10. ASSUME NEW u \in Users, Slave(u) \/ Master(u) \/ Finish(u)
      PROVE  MapsInOrder'
  BY <1>10 DEF Slave, Master, Take, Finish, loader, notice, maps
<1>11. CASE CloseMaster
  BY <1>11 DEF CloseMaster, loader, notice, maps
<1>12. CASE CloseSlave
  BY <1>12 DEF CloseSlave, loader, notice, maps
<1>13. ASSUME NEW p \in toClose, ClosePool(p) PROVE MapsInOrder'
  BY <1>13 DEF ClosePool, loader, notice, maps
<1>14. CASE UNCHANGED vars
  BY <1>14 DEF vars, loader, notice, maps
<1> QED
  BY <1>1, <1>2, <1>3, <1>4, <1>5, <1>6, <1>7, <1>8, <1>9, <1>10, <1>11, <1>12,
     <1>13, <1>14
  DEF Next, LoaderStep

(* Who registered gets an event for what is published; an event is taken    *)
(* before the configuration is read.                                       *)
LEMMA ToldStep == Told /\ [Next]_vars => Told'
<1> SUFFICES ASSUME Told, [Next]_vars
             PROVE  Told'
  OBVIOUS
<1> USE DEF Told
<1>1. CASE Publish
  BY <1>1 DEF Publish
<1>2. CASE Wake
  BY <1>2 DEF Wake
<1>3. CASE Watch
  BY <1>3 DEF Watch
<1>4. CASE Receive
  BY <1>4 DEF Receive
<1>5. CASE LoadBroken
  BY <1>5 DEF LoadBroken, notice
<1>6. CASE InitPanics
  BY <1>6 DEF InitPanics, notice
<1>7. CASE Load
  BY <1>7 DEF Load, notice
<1>8. CASE StoreMaster
  BY <1>8 DEF StoreMaster, notice
<1>9. CASE StoreSlave
  BY <1>9 DEF StoreSlave, AfterLoad, notice
<1>10. ASSUME NEW u \in Users, Slave(u) \/ Master(u) \/ Finish(u)
      PROVE  Told'
  BY <1>10 DEF Slave, Master, Take, Finish, loader, notice
<1>11. CASE CloseMaster
  BY <1>11 DEF CloseMaster, loader, notice
<1>12. CASE CloseSlave
  BY <1>12 DEF CloseSlave, loader, notice
<1>13. ASSUME NEW p \in toClose, ClosePool(p) PROVE Told'
  BY <1>13 DEF ClosePool, loader, notice
<1>14. CASE UNCHANGED vars
  BY <1>14 DEF vars, loader, notice
<1> QED
  BY <1>1, <1>2, <1>3, <1>4, <1>5, <1>6, <1>7, <1>8, <1>9, <1>10, <1>11, <1>12,
     <1>13, <1>14
  DEF Next, LoaderStep

(* Until Close is called no pool is closed, nor handed over to be closed.  *)
LEMMA ClosedStep == ClosedByClose /\ [Next]_vars => ClosedByClose'
<1> SUFFICES ASSUME ClosedByClose, [Next]_vars
             PROVE  ClosedByClose'
  OBVIOUS
<1> USE DEF ClosedByClose
<1>1. CASE Publish
  BY <1>1 DEF Publish, closer
<1>2. CASE Wake
  BY <1>2 DEF Wake, closer
<1>3. CASE Watch
  BY <1>3 DEF Watch, closer
<1>4. CASE Receive
  BY <1>4 DEF Receive, closer
<1>5. CASE LoadBroken
  BY <1>5 DEF LoadBroken, closer
<1>6. CASE InitPanics
  BY <1>6 DEF InitPanics, closer
<1>7. CASE Load
  BY <1>7 DEF Load, closer
<1>8. CASE StoreMaster
  BY <1>8 DEF StoreMaster, closer
<1>9. CASE StoreSlave
  BY <1>9 DEF StoreSlave, closer
<1>10. ASSUME NEW u \in Users, Slave(u) \/ Master(u) \/ Finish(u)
      PROVE  ClosedByClose'
  BY <1>10 DEF Slave, Master, Take, Finish, loader, notice, closer
<1>11. CASE CloseMaster
  BY <1>11 DEF CloseMaster, loader, notice
<1>12. CASE CloseSlave
  BY <1>12 DEF CloseSlave, loader, notice
<1>13. ASSUME NEW p \in toClose, ClosePool(p) PROVE ClosedByClose'
  BY <1>13 DEF ClosePool, loader, notice
<1>14. CASE UNCHANGED vars
  BY <1>14 DEF vars, loader, notice, closer
<1> QED
  BY <1>1, <1>2, <1>3, <1>4, <1>5, <1>6, <1>7, <1>8, <1>9, <1>10, <1>11, <1>12,
     <1>13, <1>14
  DEF Next, LoaderStep

(* A configuration that comes has a number that no map has yet; the loader *)
(* builds from the one in force, and stores what it built.                 *)
LEMMA UpToDateStep == TypeOK /\ MapsInOrder /\ UpToDate /\ [Next]_vars => UpToDate'
<1> SUFFICES ASSUME TypeOK, MapsInOrder, UpToDate, [Next]_vars
             PROVE  UpToDate'
  OBVIOUS
<1>1. ASSUME UNCHANGED <<cfg, gen, turn, built, mMap, sMap, faults>>,
             lpc' = lpc \/ lpc' \notin {"master", "slave"}
      PROVE  UpToDate'
  BY <1>1 DEF UpToDate, OfConfig, Built
<1>2. CASE Publish
  <2>1. cfg'.num > gen /\ cfg'.num > mMap.gen /\ cfg'.num > sMap.gen
        /\ UNCHANGED <<gen, mMap, sMap>>
    BY <1>2 DEF Publish, maps, MapsInOrder
  <2> QED
    BY <2>1 DEF UpToDate, MapsInOrder
<1>3. CASE Wake \/ Watch \/ Receive \/ LoadBroken \/ InitPanics
  BY <1>1, <1>3 DEF Wake, Watch, Receive, LoadBroken, InitPanics, maps
<1>4. CASE Load
  <2>1. PICK down \in SUBSET UNION {Built(turn', role) : role \in Roles} :
          /\ down # {} => faults' = faults + 1
          /\ down = {} => faults' = faults
          /\ built' = [role \in Roles |-> Built(turn', role) \ down]
    BY <1>4 DEF Load
  <2>2. faults' = 0 => faults = 0 /\ down = {}
    BY <2>1 DEF TypeOK
  <2>3. UNCHANGED <<cfg, mMap, sMap>>
    BY <1>4 DEF Load, maps
  <2>4. \A t, role : Built(t, role)' = Built(t', role)
    BY <2>3 DEF Built
  <2>5. \A role \in Roles : OfConfig(built[role], turn, role)'
    BY <2>1, <2>2, <2>3 DEF OfConfig, Built
  <2> QED
    BY <2>2, <2>3, <2>5 DEF UpToDate, OfConfig, Built
<1>5. CASE StoreMaster
  <2>1. UNCHANGED <<cfg, gen, turn, built, sMap, faults>> /\ lpc = "master"
        /\ mMap' = [gen |-> gen, turn |-> turn, pools |-> built["master"]]
    BY <1>5 DEF StoreMaster, Loaded, notice
  <2> QED
    BY <2>1 DEF UpToDate, OfConfig, Built, Roles
<1>6. CASE StoreSlave
  <2>1. UNCHANGED <<cfg, gen, turn, built, mMap, faults>> /\ lpc = "slave"
        /\ lpc' \notin {"master", "slave"}
        /\ sMap' = [gen |-> gen, turn |-> turn, pools |-> built["slave"]]
    BY <1>6 DEF StoreSlave, Loaded, AfterLoad, notice
  <2> QED
    BY <2>1 DEF UpToDate, OfConfig, Built, Roles
<1>7. ASSUME NEW u \in Users, Slave(u) \/ Master(u) \/ Finish(u) PROVE UpToDate'
  BY <1>1, <1>7 DEF Slave, Master, Take, Finish, loader, maps
<1>8. CASE CloseMaster \/ CloseSlave \/ (\E p \in toClose : ClosePool(p)) \/ UNCHANGED vars
  BY <1>1, <1>8 DEF CloseMaster, CloseSlave, ClosePool, vars, loader, maps
<1> QED
  BY <1>2, <1>3, <1>4, <1>5, <1>6, <1>7, <1>8 DEF Next, LoaderStep

(* The inductive invariant.                                                *)
THEOREM Invariance == Spec => []IInv
<1>1. IInv /\ [Next]_vars => IInv'
  BY TypeStep, OpenedStep, MapsStep, ToldStep, ClosedStep, NeverEmptyStep,
     UpToDateStep DEF IInv
<1> QED
  BY <1>1, IInvInit, PTL DEF Spec

(* SlaveNotAhead holds of every behaviour: a request never sees slaves of  *)
(* a newer configuration than its masters.                                 *)
THEOREM MasterFirst == Spec => []SlaveNotAhead
<1>1. IInv => SlaveNotAhead
  BY DEF IInv, MapsInOrder, SlaveNotAhead
<1> QED
  BY <1>1, Invariance, PTL

(* SmoothSwitch holds of every behaviour: no reload closes a pool that a   *)
(* request works with.                                                     *)
THEOREM NoneClosedUnderUse == Spec => []SmoothSwitch
<1>1. IInv => SmoothSwitch
  BY DEF IInv, ClosedByClose, SmoothSwitch
<1> QED
  BY <1>1, Invariance, PTL

(* The types hold of every behaviour.                                      *)
THEOREM TypeCorrect == Spec => []TypeOK
BY Invariance, PTL DEF IInv

(* ServedThroughChanges holds of every behaviour: if all configurations    *)
(* have nodes and all nodes answer, no request is refused once Init is     *)
(* done.                                                                   *)
THEOREM AlwaysServed == Spec => []ServedThroughChanges
<1>1. IInv => ServedThroughChanges
  BY DEF IInv, MapsInOrder, NeverEmpty, ServedThroughChanges, Ready
<1> QED
  BY <1>1, Invariance, PTL

(* The safety half of LatestApplied, with no assumption on how the loader  *)
(* is scheduled: once an event was on its way since the loader registered, *)
(* and none is now, the loader that waits for the next one has in both     *)
(* maps the pools of one load of the configuration in force, all of them   *)
(* if all nodes answered, unless that configuration does not parse.        *)
THEOREM AppliedAtRest ==
  Spec => [](told /\ ~event /\ lpc = "idle" /\ cfg.content \notin Broken =>
               /\ mMap.gen = cfg.num /\ OfConfig(mMap.pools, turn, "master")
               /\ sMap.gen = cfg.num /\ OfConfig(sMap.pools, turn, "slave"))
<1>1. IInv => (told /\ ~event /\ lpc = "idle" /\ cfg.content \notin Broken =>
                 /\ mMap.gen = cfg.num /\ OfConfig(mMap.pools, turn, "master")
                 /\ sMap.gen = cfg.num /\ OfConfig(sMap.pools, turn, "slave"))
  BY DEF IInv, UpToDate, MapsInOrder, Told
<1> QED
  BY <1>1, Invariance, PTL

(* A request that comes later never finds an older configuration, or an    *)
(* earlier load, in the map it looks at, however often the loader runs and *)
(* whatever it skips.                                                      *)
THEOREM MapsNeverGoBack ==
  Spec => [][/\ mMap'.gen >= mMap.gen /\ mMap'.turn >= mMap.turn
             /\ sMap'.gen >= sMap.gen /\ sMap'.turn >= sMap.turn]_maps
<1> DEFINE Forward ==
      /\ mMap'.gen >= mMap.gen /\ mMap'.turn >= mMap.turn
      /\ sMap'.gen >= sMap.gen /\ sMap'.turn >= sMap.turn
<1>1. IInv /\ [Next]_vars => Forward
  <2> SUFFICES ASSUME IInv, [Next]_vars
               PROVE  Forward
    OBVIOUS
  <2> USE DEF IInv, MapsInOrder
  <2>1. CASE StoreMaster
    BY <2>1 DEF StoreMaster, Loaded
  <2>2. CASE StoreSlave
    BY <2>2 DEF StoreSlave, Loaded
  <2>3. CASE UNCHANGED maps
    BY <2>3 DEF maps
  <2>4. StoreMaster \/ StoreSlave \/ UNCHANGED maps
    BY DEF Next, LoaderStep, Publish, Wake, Watch, Receive, LoadBroken, InitPanics,
           Load, Slave, Master, Take, Finish, CloseMaster, CloseSlave, ClosePool, vars
  <2> QED
    BY <2>1, <2>2, <2>3, <2>4
<1> QED
  BY <1>1, Invariance, PTL DEF Spec

(* How far EveryNodeReached does hold: for mysql, and for redis with at    *)
(* most one node of a role per instance, where the variable that the Dial  *)
(* closures share has the right value in the end.                          *)
THEOREM NodesReached ==
  ASSUME \/ Kind = "mysql"
         \/ \A c \in Configs, role \in Roles : \A j \in 1..Len(c) : Len(c[j][role]) \in {0, 1}
  PROVE  Spec => []EveryNodeReached
<1>1. ASSUME IInv, faults = 0, NEW role \in Roles, NEW slot \in {mMap, sMap},
             slot.gen = cfg.num, OfConfig(slot.pools, slot.turn, role),
             NEW j \in Selected(cfg.content), NEW i \in 1..Len(cfg.content[j][role])
      PROVE  \E p \in slot.pools : p.addr = cfg.content[j][role][i]
  <2> DEFINE nodes == cfg.content[j][role]
             pool == [gen |-> cfg.num, turn |-> slot.turn, role |-> role, ins |-> j,
                      node |-> i, addr |-> Target(nodes, i)]
  <2>1. Target(nodes, i) = nodes[i]
    <3>1. CASE Kind = "mysql"
      BY <3>1 DEF Target
    <3>2. CASE \A c \in Configs, r \in Roles : \A k \in 1..Len(c) : Len(c[k][r]) \in {0, 1}
      <4>1. Len(nodes) \in {0, 1}
        BY <1>1, <3>2 DEF IInv, TypeOK, Selected
      <4>2. \A n \in {0, 1} : \A k \in 1..n : k = n
        OBVIOUS
      <4> HIDE DEF nodes
      <4>3. i \in 1..Len(nodes)
        BY <1>1 DEF nodes
      <4>4. i = Len(nodes)
        BY <4>1, <4>2, <4>3
      <4> QED
        BY <4>4 DEF Target
    <3> QED
      BY <3>1, <3>2
  <2>2. pool \in Pools(cfg.num, slot.turn, cfg.content, role)
    BY <1>1 DEF Pools
  <2>3. slot.pools = Pools(cfg.num, slot.turn, cfg.content, role)
    BY <1>1 DEF OfConfig, Built
  <2> QED
    BY <2>1, <2>2, <2>3
<1>2. IInv => EveryNodeReached
  <2> SUFFICES ASSUME IInv, faults = 0, NEW role \in Roles
               PROVE  LET slot == IF role = "master" THEN mMap ELSE sMap
                      IN  slot.gen = cfg.num =>
                            \A j \in Selected(cfg.content) :
                              \A i \in 1..Len(cfg.content[j][role]) :
                                \E p \in slot.pools : p.addr = cfg.content[j][role][i]
    BY DEF EveryNodeReached
  <2>1. CASE role = "master"
    BY <1>1, <2>1 DEF IInv, UpToDate
  <2>2. CASE role = "slave"
    BY <1>1, <2>2 DEF IInv, UpToDate
  <2> QED
    BY <2>1, <2>2 DEF Roles
<1> QED
  BY <1>2, Invariance, PTL
=============================================================================
