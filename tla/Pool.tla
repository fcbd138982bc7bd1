-------------------------------- MODULE Pool --------------------------------
(***************************************************************************)
(* The connection pools of mysql/mysql.go and redis/redis.go, which share  *)
(* their shape: a loader goroutine builds the pools of every new           *)
(* configuration and stores them in mMap and sMap, requests take one of    *)
(* them, and Close shuts what the maps hold.                               *)
(*                                                                         *)
(* One database (cluster) is modelled; the maps keep one entry for each,   *)
(* always stored together.  A configuration is the sequence of instances   *)
(* that define the database, in a file at most one; an instance whose      *)
(* attributes do not parse has good = FALSE.                               *)
(***************************************************************************)
EXTENDS Naturals, Sequences

CONSTANTS
  Kind,      \* "mysql" or "redis"
  Mode,      \* confLoadMode: "naming" or "file"
  Configs,   \* the configurations that may be published
  Broken,    \* those that cannot be loaded: files that do not parse, or that
             \* nothing is stored yet in naming
  MyIdc,     \* the pool's idc
  MyEnv,     \* the pool's pubenv
  Any,       \* the empty string for idc and pubenv: no filter
  Users,     \* requests
  None,
  MaxGen,    \* bound: configurations published
  MaxTurn,   \* bound: loads whose pools are told apart
  MaxFaults  \* bound: nodes that do not answer the ping of Open(true)

Roles == {"master", "slave"}

ASSUME PoolAssumption ==
  /\ Kind \in {"mysql", "redis"}
  /\ Mode \in {"naming", "file"}
  /\ Broken \subseteq Configs
  /\ Mode = "file" => \A c \in Configs : Len(c) <= 1
  /\ MaxGen \in Nat \ {0} /\ MaxTurn \in Nat \ {0} /\ MaxFaults \in Nat

VARIABLES
  cfg,       \* what conf or naming has now: its number and its content
  event,     \* an event for the loader waits in its channel or is being sent
  joined,    \* it registered for events
  told,      \* history: since then, one was or is on its way
  lpc,       \* where the loader is
  gen, turn, \* number of the configuration it loaded last, and of that load
  built,     \* the pools it built, per role
  mMap, sMap,
  opened,    \* every pool ever built
  shut,      \* the pools on which Close was called
  cpc,       \* where the call of the package's Close is
  toClose,   \* pools its two goroutines have still to close
  held,      \* the pool a request works with
  faults

maps   == <<mMap, sMap>>
notice == <<event, joined, told>>
loader == <<notice, lpc, gen, turn, built>>
closer == <<shut, cpc, toClose>>
vars   == <<cfg, loader, maps, opened, closer, held, faults>>

-----------------------------------------------------------------------------
(* parseFileConf and parseNamingInstance.                                  *)

(* pubenv filters the instances of naming; one that does not parse is      *)
(* passed over.                                                            *)
Usable(i) == Mode = "file" \/ (i.good /\ (MyEnv = Any \/ i.env = MyEnv))

(* The instances that are used.  idc filters in both modes, although the   *)
(* comment at InitMysql and InitRedis says that it matters for files only. *)
Selected(content) ==
  {j \in 1..Len(content) :
     Usable(content[j]) /\ (MyIdc = Any \/ content[j].idc = MyIdc)}

(* The address a pool connects to.  The Dial closures of redis share the   *)
(* variable nodeConf of their loop (go 1.13), which has come to the last   *)
(* node when the first connection is made.                                 *)
Target(nodes, i) == IF Kind = "redis" THEN nodes[Len(nodes)] ELSE nodes[i]

(* One pool per node of the selected instances, new ones at every load t.  *)
Pools(g, t, content, role) ==
  UNION {{[gen |-> g, turn |-> t, role |-> role, ins |-> j, node |-> i,
           addr |-> Target(content[j][role], i)] : i \in 1..Len(content[j][role])}
         : j \in Selected(content)}

AllPools ==
  UNION {Pools(g, t, c, role) :
           g \in 1..MaxGen, t \in 1..MaxTurn, c \in Configs \ Broken, role \in Roles}

(* What load t builds for a role now.                                      *)
Built(t, role) == Pools(cfg.num, t, cfg.content, role)

(* The number of the next load; those past the bound share the last one.   *)
NextTurn == IF turn < MaxTurn THEN turn + 1 ELSE turn

Slot == [gen : 0..MaxGen, turn : 0..MaxTurn, pools : SUBSET AllPools]
Unset == [gen |-> 0, turn |-> 0, pools |-> {}]

TypeOK ==
  /\ cfg \in [num : 1..MaxGen, content : Configs]
  /\ event \in BOOLEAN /\ joined \in BOOLEAN /\ told \in BOOLEAN
  /\ lpc \in {"start", "idle", "get", "master", "slave", "panic"}
  /\ gen \in 0..MaxGen /\ turn \in 0..MaxTurn
  /\ built \in [Roles -> SUBSET AllPools]
  /\ mMap \in Slot /\ sMap \in Slot
  /\ opened \in SUBSET AllPools
  /\ shut \in SUBSET opened
  /\ cpc \in {"idle", "slave", "returned"}
  /\ toClose \in SUBSET opened
  /\ held \in [Users -> opened \cup {None}]
  /\ faults \in Nat

(* With a file, Init reads it at once and registers when it has loaded it; *)
(* with naming it registers first, and waits for an event.                 *)
Init ==
  /\ cfg \in [num : {1}, content : Configs]
  /\ event = FALSE /\ joined = FALSE /\ told = FALSE
  /\ lpc = IF Mode = "file" THEN "get" ELSE "start"
  /\ gen = 0 /\ turn = 0
  /\ built = [role \in Roles |-> {}]
  /\ mMap = Unset /\ sMap = Unset
  /\ opened = {}
  /\ shut = {}
  /\ cpc = "idle"
  /\ toClose = {}
  /\ held = [u \in Users |-> None]
  /\ faults = 0

-----------------------------------------------------------------------------
(* Configurations, and what the loader hears of them.                      *)

(* Whoever registered gets an event for a new configuration (that it is    *)
(* not lost is the matter of Conf and of Discovery).  Naming never goes    *)
(* back to having nothing.                                                 *)
Publish ==
  /\ cfg.num < MaxGen
  /\ cfg' \in [num : {cfg.num + 1},
               content : IF Mode = "file" THEN Configs ELSE Configs \ Broken]
  /\ event' = (event \/ joined)
  /\ told' = (told \/ joined)
  /\ UNCHANGED <<joined, lpc, gen, turn, built, maps, opened, closer, held, faults>>

(* An event that brings nothing new: a heartbeat, a file written again as  *)
(* it was.                                                                 *)
Wake ==
  /\ joined
  /\ event' = TRUE
  /\ told' = TRUE
  /\ UNCHANGED <<cfg, joined, lpc, gen, turn, built, maps, opened, closer, held, faults>>

-----------------------------------------------------------------------------
(* The loader: InitMysql or InitRedis, and its goroutine.                  *)

(* WatchEvent, or Discovery: it gets the events of what is published from  *)
(* now on, and may get one of what is being announced.                     *)
Watch ==
  /\ lpc = "start"
  /\ joined' = TRUE
  /\ event' \in BOOLEAN
  /\ told' = event'
  /\ lpc' = "idle"
  /\ UNCHANGED <<cfg, gen, turn, built, maps, opened, closer, held, faults>>

(* It takes an event; another may be on its way already.                   *)
Receive ==
  /\ lpc = "idle"
  /\ event
  /\ event' \in BOOLEAN
  /\ lpc' = "get"
  /\ UNCHANGED <<cfg, joined, told, gen, turn, built, maps, opened, closer, held,
                 faults>>

(* Mutants of LoadBroken: without its continue, empty maps are stored; with *)
(* a return in its place, the goroutine ends.                              *)
LoadNothing ==
  /\ lpc = "get"
  /\ gen # 0
  /\ cfg.content \in Broken
  /\ gen' = cfg.num /\ turn' = NextTurn
  /\ built' = [role \in Roles |-> {}]
  /\ lpc' = "master"
  /\ UNCHANGED <<cfg, notice, maps, opened, closer, held, faults>>

LoadBrokenEnds ==
  /\ lpc = "get"
  /\ gen # 0
  /\ cfg.content \in Broken
  /\ lpc' = "exit"
  /\ UNCHANGED <<cfg, notice, gen, turn, built, maps, opened, closer, held, faults>>

(* A file that does not parse is passed over by the goroutine, and an      *)
(* answer that is not ok also by Init: both wait for the next event.       *)
LoadBroken ==
  /\ lpc = "get"
  /\ gen # 0 \/ Mode = "naming"
  /\ cfg.content \in Broken
  /\ lpc' = "idle"
  /\ UNCHANGED <<cfg, notice, gen, turn, built, maps, opened, closer, held, faults>>

(* A file that does not parse makes the Init call panic.                   *)
InitPanics ==
  /\ lpc = "get"
  /\ gen = 0 /\ Mode = "file"
  /\ cfg.content \in Broken
  /\ lpc' = "panic"
  /\ UNCHANGED <<cfg, notice, gen, turn, built, maps, opened, closer, held, faults>>

(* New pools for every node, whether anything changed or not; mysql pings  *)
(* each, and leaves out those that do not answer.                          *)
Load ==
  /\ lpc = "get"
  /\ cfg.content \notin Broken
  /\ gen' = cfg.num /\ turn' = NextTurn
  /\ \E down \in SUBSET UNION {Built(turn', role) : role \in Roles} :
       /\ IF down = {} THEN UNCHANGED faults
                       ELSE /\ Kind = "mysql" /\ faults < MaxFaults
                            /\ faults' = faults + 1
       /\ built' = [role \in Roles |-> Built(turn', role) \ down]
  /\ opened' = opened \cup built'["master"] \cup built'["slave"]
  /\ lpc' = "master"
  /\ UNCHANGED <<cfg, notice, maps, closer, held>>

(* What the loader stores for a role.                                      *)
Loaded(role) == [gen |-> gen, turn |-> turn, pools |-> built[role]]

(* After the first load from a file it has still to register.              *)
AfterLoad == IF joined THEN "idle" ELSE "start"

(* Mutants of StoreMaster: it closes the pools it replaces; it stores the  *)
(* slaves first.                                                           *)
StoreAndClose ==
  /\ lpc = "master"
  /\ mMap' = Loaded("master")
  /\ toClose' = toClose \cup mMap.pools
  /\ lpc' = "slave"
  /\ UNCHANGED <<cfg, notice, gen, turn, built, sMap, opened, shut, cpc, held, faults>>

StoreSlaveFirst ==
  /\ lpc = "master"
  /\ sMap' = Loaded("slave")
  /\ lpc' = "slave"
  /\ UNCHANGED <<cfg, notice, gen, turn, built, mMap, opened, closer, held, faults>>

StoreMaster ==
  /\ lpc = "master"
  /\ mMap' = Loaded("master")
  /\ lpc' = "slave"
  /\ UNCHANGED <<cfg, notice, gen, turn, built, sMap, opened, closer, held, faults>>

StoreSlave ==
  /\ lpc = "slave"
  /\ sMap' = Loaded("slave")
  /\ lpc' = AfterLoad
  /\ UNCHANGED <<cfg, notice, gen, turn, built, mMap, opened, closer, held, faults>>

-----------------------------------------------------------------------------
(* getDB and getConn, for requests that start after Init returned.         *)

Ready == sMap.gen # 0

(* One of the pools at random.  Without any, the request is refused.       *)
Take(u, pools) ==
  /\ Ready
  /\ held[u] = None
  /\ \E p \in pools : held' = [held EXCEPT ![u] = p]
  /\ UNCHANGED <<cfg, loader, maps, opened, closer, faults>>

(* Mutant of Slave: it works from the configuration, not from sMap.        *)
SlaveFromConfig(u) == Take(u, Built(NextTurn, "slave"))

Slave(u) == Take(u, sMap.pools)
Master(u) == Take(u, mMap.pools)

Finish(u) ==
  /\ held[u] # None
  /\ held' = [held EXCEPT ![u] = None]
  /\ UNCHANGED <<cfg, loader, maps, opened, closer, faults>>

-----------------------------------------------------------------------------
(* Close.  In mysql it loads each map in turn and leaves its pools to a    *)
(* goroutine; in redis it does nothing, and close is never called.         *)

CloseMaster ==
  /\ Ready
  /\ cpc = "idle"
  /\ IF Kind = "mysql"
       THEN cpc' = "slave" /\ toClose' = toClose \cup mMap.pools
       ELSE cpc' = "returned" /\ UNCHANGED toClose
  /\ UNCHANGED <<cfg, loader, maps, opened, shut, held, faults>>

CloseSlave ==
  /\ cpc = "slave"
  /\ cpc' = "returned"
  /\ toClose' = toClose \cup sMap.pools
  /\ UNCHANGED <<cfg, loader, maps, opened, shut, held, faults>>

ClosePool(p) ==
  /\ p \in toClose
  /\ toClose' = toClose \ {p}
  /\ shut' = shut \cup {p}
  /\ UNCHANGED <<cfg, loader, maps, opened, cpc, held, faults>>

-----------------------------------------------------------------------------
LoaderStep ==
  Watch \/ Receive \/ LoadBroken \/ InitPanics \/ Load \/ StoreMaster \/ StoreSlave

Next ==
  \/ Publish \/ Wake
  \/ LoaderStep
  \/ \E u \in Users : Slave(u) \/ Master(u) \/ Finish(u)
  \/ CloseMaster \/ CloseSlave
  \/ \E p \in toClose : ClosePool(p)

Spec == Init /\ [][Next]_vars

(* The loader goroutine runs, and so do those of Close.                    *)
Fairness ==
  /\ WF_vars(LoaderStep)
  /\ WF_vars(CloseSlave)
  /\ WF_vars(\E p \in toClose : ClosePool(p))

FairSpec == Spec /\ Fairness

-----------------------------------------------------------------------------
(* Properties. *)

(* README: smooth switching.  The pool a request works with is not closed  *)
(* under it by a change of configuration, only by Close.                   *)
SmoothSwitch == \A u \in Users : held[u] \in shut => cpc # "idle"

(* mMap and sMap are stored one after the other, so a request may see the  *)
(* pools of two loads; then it is the master's that are the newer ones.    *)
SlaveNotAhead ==
  /\ sMap.gen <= mMap.gen /\ sMap.turn <= mMap.turn
  /\ sMap.gen # mMap.gen \/ sMap.turn # mMap.turn =>
       lpc = "slave" /\ mMap.gen = gen /\ mMap.turn = turn

(* Every configuration that parses has nodes for both roles.               *)
AllHaveNodes ==
  \A c \in Configs \ Broken, role \in Roles : Pools(1, 1, c, role) # {}

(* Smooth switching, again: then no request finds the maps empty, not even *)
(* while they are being replaced or after a file that does not parse.      *)
ServedThroughChanges ==
  AllHaveNodes /\ Ready /\ faults = 0 => mMap.pools # {} /\ sMap.pools # {}

(* The configuration that stays is the one in use in the end, if it parses *)
(* and the loader got an event since it registered.  What was published    *)
(* between Init's Get and WatchEvent need not be, until the next event.    *)
LatestApplied ==
  \A g \in 1..MaxGen :
    <>[](cfg.num = g /\ cfg.content \notin Broken /\ told)
      => <>[](mMap.gen = g /\ sMap.gen = g)

(* "release of the connection pools": once Close has returned, its         *)
(* goroutines are done and the loader rests, no pool is left open but what *)
(* the loader may have stored since.                                       *)
CloseReleases ==
  cpc = "returned" /\ toClose = {} /\ lpc = "idle" =>
    opened \ shut \subseteq mMap.pools \cup sMap.pools

(* README: the configuration is loaded.  Every node of a selected instance *)
(* is the target of a pool.                                                *)
EveryNodeReached ==
  \A role \in Roles :
    LET slot == IF role = "master" THEN mMap ELSE sMap IN
    slot.gen = cfg.num /\ faults = 0 =>
      \A j \in Selected(cfg.content) : \A i \in 1..Len(cfg.content[j][role]) :
        \E p \in slot.pools : p.addr = cfg.content[j][role][i]
=============================================================================
