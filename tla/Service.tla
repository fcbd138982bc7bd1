------------------------------ MODULE Service ------------------------------
(***************************************************************************)
(* The pools of redis/redis.go or mysql/mysql.go as they are loaded from   *)
(* naming: the loader is the client of a Resolve (module Discovery), and   *)
(* what it fetches is the configuration of the pools (module Pool).        *)
(*                                                                         *)
(* In Discovery a registration is the number of the change that made it;   *)
(* here change k registers the data Data[k].                               *)
(***************************************************************************)
EXTENDS Discovery, Sequences

CONSTANTS
  Loader,  \* the Discovery call of InitRedis or InitMysql
  Data,    \* Data[k]: the instance that change k registers
  Kind, MyIdc, MyEnv, Any, Users, None, MaxTurn   \* of Pool

ASSUME LoaderAssumption ==
  /\ Loader \in Resolvers
  /\ DOMAIN Data = 1..MaxRev
  /\ NoIns # <<>> /\ \A k \in 1..MaxRev : NoIns # <<Data[k]>>
  /\ Kind \in {"mysql", "redis"}
  /\ MaxTurn \in Nat \ {0}

VARIABLES
  apc,  \* the loader: not at storing what it built, or about to store a map
  cfg,  \* history: what naming has for the service, numbered
  gen, turn, built, mMap, sMap, opened, held   \* of Pool

pools == <<apc, cfg, gen, turn, built, mMap, sMap, opened, held>>
all   == <<vars, pools>>

sn == SnOf[Loader]

(* Instances[sn] of an answer: nil when sn is not in it.                   *)
InstancesOf(k) == IF k = 0 THEN <<>> ELSE <<Data[k]>>

(* The configuration that naming has: none before the first answer.        *)
Content(i) == IF i = NoIns THEN NoIns ELSE InstancesOf(i.list[sn])

(* A token for the loader waits in its channel, or a loop is to send one.  *)
Notice == Loader \in resolver[sn] /\ (event[Loader] \/ AboutToNotify(Loader))

(* The loader's place in Pool.                                             *)
Place ==
  CASE apc # "wait"            -> apc
    [] rpc[Loader] = "new"     -> "start"
    [] rpc[Loader] = "woken"   -> "get"
    [] OTHER                   -> "idle"

P == INSTANCE Pool WITH
  Mode <- "naming", Broken <- {NoIns},
  Configs <- {NoIns, <<>>} \cup {<<Data[k]>> : k \in 1..MaxRev},
  MaxGen <- MaxRev + 2, MaxFaults <- 0, faults <- 0,
  event <- Notice, joined <- rpc[Loader] # "new",
  told <- Loader \in told \cup Pending(sn), lpc <- Place,
  shut <- {}, cpc <- "idle", toClose <- {}

ServiceOK ==
  /\ TypeOK
  /\ apc \in {"wait", "master", "slave"}
  /\ P!TypeOK

ServiceInit ==
  /\ Init
  /\ apc = "wait"
  /\ cfg = [num |-> 1, content |-> NoIns]
  /\ P!Init

-----------------------------------------------------------------------------
(* The loader's loop.                                                      *)

(* It waits only when it is done with what it fetched before.              *)
LoaderReceives ==
  /\ apc = "wait"
  /\ Receive(Loader)
  /\ UNCHANGED pools

(* Fetch, and the pools of what it returned; without ok it waits again.    *)
LoaderLoads ==
  /\ Fetch(Loader)
  /\ IF FetchOk(sn) THEN /\ apc' = "master"
                         /\ UNCHANGED cfg
                         /\ P!Load
                    ELSE UNCHANGED pools

(* It stores one map, then the other.                                      *)
Stores(next) ==
  /\ \/ apc = "master" /\ apc' = "slave" /\ mMap' = P!Loaded("master") /\ UNCHANGED sMap
     \/ apc = "slave" /\ apc' = next /\ sMap' = P!Loaded("slave") /\ UNCHANGED mMap
  /\ UNCHANGED <<cfg, gen, turn, built, opened, held>>

(* Mutants of LoaderStores: the goroutine ends after a load (no for); it   *)
(* empties the channel when it is done, so as to reload less.              *)
StoresAndEnds == Stores("end") /\ UNCHANGED vars

StoresAndDrains ==
  /\ Stores("wait")
  /\ event' = [event EXCEPT ![Loader] = apc = "master" /\ @]
  /\ UNCHANGED <<etcd, server, rpc, known, told, watcher, closed, faults>>

LoaderStores == Stores("wait") /\ UNCHANGED vars

LoaderStep == LoaderReceives \/ LoaderLoads \/ LoaderStores

(* What naming has gets another number when it changes, and the pools      *)
(* stay as they are.                                                       *)
Numbering ==
  LET content == Content(ins'[sn]) IN
  cfg' = IF content = cfg.content THEN cfg
         ELSE [num |-> cfg.num + 1, content |-> content]

Aside == Numbering /\ UNCHANGED <<apc, gen, turn, built, mMap, sMap, opened, held>>

(* The steps of Discovery that are not the loader's; it never closes its   *)
(* Resolve.                                                                *)
NamingStep ==
  /\ \/ Registration \/ Close
     \/ \E r \in Resolvers : Discover(r) \/ StartWatch(r)
     \/ \E r \in Resolvers \ {Loader} : Receive(r) \/ Fetch(r) \/ CloseResolver(r)
     \/ \E w \in Resolvers : Goroutine(w)
  /\ Aside

RequestStep ==
  /\ UNCHANGED <<vars, apc, cfg>>
  /\ \E u \in Users : P!Slave(u) \/ P!Master(u) \/ P!Finish(u)

ServiceNext == LoaderStep \/ NamingStep \/ RequestStep

ServiceSpec == ServiceInit /\ [][ServiceNext]_all

(* The loader runs; the rest as in Discovery.                              *)
ServiceFairness ==
  /\ WF_all(LoaderStep)
  /\ \A w \in Resolvers : WF_all(Goroutine(w) /\ faults' = faults /\ Aside)
  /\ \A r \in Resolvers : WF_all(StartWatch(r) /\ Aside)
  /\ WF_all(Renew(sn) /\ Aside)

FairService == ServiceSpec /\ ServiceFairness

-----------------------------------------------------------------------------
(* Properties. *)

(* What a map holds when the last load was one of all that naming has.     *)
Newest(role) ==
  [gen |-> cfg.num, turn |-> turn,
   pools |-> P!Pools(cfg.num, turn, Content(ins[sn]), role)]

(* No lost reload: changes that arrive while the loader is still building  *)
(* the pools of an earlier one are not forgotten.  Once anything was       *)
(* stored since it joined, a loader that waits with no notification on its *)
(* way has the pools of what naming has in both maps.  (One that joins a   *)
(* service which another Resolve discovered before finds no token, and     *)
(* Init waits for the next heartbeat.)                                     *)
NoLostReload ==
  Loader \in (resolver[sn] \cap told) \ Pending(sn) /\ apc = "wait" =>
    mMap = Newest("master") /\ sMap = Newest("slave")

(* The pools, of load t, that the registered instance asks for.            *)
Wanted(t, role) == P!Pools(cfg.num, t, InstancesOf(kv[sn]), role)

(* A service that is registered for good is the one in use in the end,     *)
(* through what is lost between Get and Watch and heartbeats that reload   *)
(* what is loaded.                                                         *)
FollowsRegistration ==
  <>[](Registered(Loader) /\ WatchOpen(sn) /\ Readable(sn) /\ kv[sn] # 0)
    => <>[](/\ mMap.pools = Wanted(mMap.turn, "master")
            /\ sMap.pools = Wanted(sMap.turn, "slave"))

(* Loading from naming implements Pool: an answer of etcd is a Publish or  *)
(* a Wake, a token received a Receive, and none is lost on the way.        *)
ImplementsPool == P!Init /\ [][P!Next]_(P!vars)
=============================================================================
