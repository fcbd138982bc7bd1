# TLA+ models of motor

motor is a Go framework for services: an HTTP server with middleware,
configuration files with hot reload, service registration and discovery through
etcd, and mysql and redis pools that follow either of the two. This directory
holds the TLA+ models of its concurrent core and of its request handling, their
TLC configurations, and proofs checked by TLAPS. `PROJECT.json` lists the runs,
the mutants that show what each property catches, the source lines of every
definition, the findings, the hazards and the theorems.

    tlc -config Discovery.cfg MCDiscovery.tla           # a run
    tlapm DiscoveryProofs.tla                           # the proofs of a module

## 1. The system

| Component | State | Operations | Talks to |
|---|---|---|---|
| discovery, `naming/etcd.go` | `servers`: per service its resolvers, `ins` (an `atomic.Value`), `once`; per `Resolve` the channel `event` of capacity 1 | `Discovery`, the goroutine `watch` with `getstore`, `parseIns`, `store`; `Resolve.Watch/Fetch/Close`; `EtcdBuilder.Close` | etcd (Get, Watch by prefix); clients by `event` |
| registration, `naming/etcd.go` | `registry`; per call a context, a ticker, the channel `ch` | `Register`, its heartbeat goroutine, `registerLease`, `unregister`, the returned `cancelFunc`, `EtcdBuilder.Close` | etcd (Grant, Put, Delete) |
| configuration, `conf/` | `Storage.values`, `watchChs`, `done` | `newConf`, `monitor`, `reloadFile`, `Get`, `WatchEvent`, `Watch`, `Stop` | fsnotify; readers by channels of 10 events |
| pools, `mysql/mysql.go`, `redis/redis.go` | `mMap`, `sMap` | `InitMysql/InitRedis`, `parseFileConf`, `parseNamingInstance`, `getDB/getConn`, `Close` | conf or naming; databases |
| commands, `mysql/sql.go`, `redis/conn.go` | per query a span and a connection of the `sql.DB` | `GetDB`, `GetList`, `Insert`, `Update`, `NamedQuery`; `GetConn` | pools, trace |
| HTTP, `http/` | per request gin's context: the chain of handlers and an index into it; its goroutine's stack | `Logger`, `Recovery`, `Trace`, `Metrics`, `Jwt`, `Ratelimit`, the 404 handler; pprof | gin, endless; sentinel, jaeger, prometheus |
| tolerant, `tolerant/` | `Svc`, read once | loads flow and breaker rules | sentinel |
| trace, metrics, jwt | `_Trace`; the collectors | `Init`, `GetTraceCtx`; counting; a token is valid, expired or invalid | libraries |
| log, util | none | | libraries |

### Interactions

Hot reload is one pattern, used twice. A *publisher* goroutine replaces a value as
a whole (`serverInfo.ins`, `Storage.values`) and then makes a non-blocking send to
the channels of the readers; a *reader* waits for a token and fetches the value.
The pools are such readers in both modes; in naming mode the data they read was
put in etcd by a registration, whose heartbeats etcd reports as changes, so that
each heartbeat reloads the pools of every client.

    Register --Put/lease--> etcd --watch--> serverInfo.watch --event--> pools' loader --> mMap, sMap --> requests
    editor --fsnotify--> monitor --Event--> pools' loader or conf.Watch

A request goes through the chain of handlers on one goroutine. A handler that
calls `c.Next()` runs the ones behind it and goes on when they are done; one that
returns without it lets the loop that called it go on with the next handler,
unless it called `c.Abort()`. A panic leaves every handler on the stack with only
its deferred calls, up to `Recovery`. Requests meet at the sentinel entries and at
the connections of the database.

### What is hard

- *Order*: etcd is read first and watched later; a directory likewise; a reader
  reads first and registers its channel later. Each is a gap.
- *Interleaving*: a loop that notifies, against `Discovery`, `Close` and `Fetch`;
  `EtcdBuilder.Close` against heartbeats; two `Register` calls of one name.
- *Full channels*: tokens and events are dropped when there is no room.
- *Failure*: requests that fail, Puts that arrive after their caller gave up,
  crashes (only the lease removes the key), watches that end, files that vanish or
  do not parse, nodes that do not answer.
- *Panics*: a handler, a query's scan, or an answer to a client that is gone may
  panic at any depth of the chain; entries, spans and connections must be given
  back, the request logged, and no handler run that was not meant to.
- *Time*: the heartbeat interval is `LeaseTTL/3`, truncated.

`PROJECT.json` lists the hazards line by line, each with the properties aimed at
it.

### What makes each component correct

- discovery: a resolver is woken for every answer that is stored after it joined,
  never before there is an answer, never after its Close; the answer never goes
  back; what the watcher missed is repaired; Close ends the goroutines.
- registration: one registration per name; nobody else deletes the key of a live
  one; a live one is in etcd, at every moment while nothing fails and again after
  a failure; an ended one is not; a cancel returns.
- configuration: a write that is reported, and can be read, is loaded; Storage has
  what an event announces; a dropped event loses nothing to a reader that calls
  Get again; Stop ends.
- pools: a reload closes no pool under a request and leaves no moment without
  pools; of the configurations that an event announces, the last good one is in
  use in the end, also when it comes from naming and changes while pools are
  built.
- requests: nothing outlives its request; the handler runs for admitted requests
  only; each request is logged once, counted as logged if at all, and answered.

## 2. Modules

| Module | Models | Extends / uses |
|---|---|---|
| `NotifyCell` | abstract: a cell, its readers, notifications that may merge | |
| `Discovery` | discovery | `INSTANCE NotifyCell`, one per service |
| `Registry` | registration | |
| `Heartbeat` | the timing of one registration | |
| `Conf` | configuration | `INSTANCE NotifyCell`, one per file |
| `Pool` | the pools, `Kind` mysql or redis, `Mode` file or naming | |
| `Service` | the pools loaded from naming: the loader as a client of discovery | `EXTENDS Discovery`, `INSTANCE Pool` |
| `Request` | requests in the middleware and in the query wrappers | |
| `MCDiscovery`, `MCRegistry`, `MCConf`, `MCPool`, `MCService`, `MCRequest` | the small instances for TLC | their module |
| `NotifyCellProofs`, `DiscoveryProofs`, `RegistryProofs`, `HeartbeatProofs`, `ConfProofs`, `PoolProofs`, `RequestProofs`, `ServiceProofs` | theorems | their module, TLAPS; `ServiceProofs` also `DiscoveryProofs` and, as an instance, `PoolProofs` |

A definition whose comment begins with "Mutant of" (`SkipWakes`, `StartAgain`,
...) is a faulty variant of the action that follows it, such as a bug could be. No
specification uses it; put in the place of the action, it makes a property fail,
which shows that the property can.

### Discovery

`rev` and `kv` are etcd: the number of changes, and per name the change that
registered it (0 if absent). An answer is a snapshot of both, so that an older
answer can be told from a newer. `Under[s]` are the names whose keys begin with
`key(s)`; a name in `Foreign` has a value that `json.Unmarshal` rejects.

| Action | Code |
|---|---|
| `Put`, `Delete`, `Renew` | registrations; each reaches the watches that are open (`Announce`) |
| `Discover`, `StartWatch` | `Discovery`: the critical section; `once.Do` |
| `GetFails`, `GetSkips`, `GetOk` | `getstore`: error; first Get empty, or `parseIns` fails; else |
| `StoreIns`, `RLock`, `Send`, `RUnlock` | `store`: `ins.Store`; the loop under the read lock, one turn a step |
| `OpenWatch`, `TakeWatchEvent`, `WatchEnds` | `watch`: `client.Watch`; one event; the channel is closed |
| `Receive`, `Fetch` | a client, written as the loaders of the pools are |
| `CloseResolver`, `Close` | `Resolve.Close`, `EtcdBuilder.Close` |

`known` and `told` are history variables, which occur in properties only: the
answer a resolver fetched last, and the resolvers for which an answer was stored
since they joined. A resolver that joins when an answer is there already gets no
token for it (`naming/etcd.go:170`), and is in `told` from the next answer on. A
watcher goroutine is named after the call that started it, so that a second one
for a service can be expressed; that there is none is proved. A send and the test
whether the loop's map is exhausted are separate steps because `Discovery` and
`Close` need the same mutex.

### Registry and Heartbeat

`pc[c]` follows a `Register` call and then the goroutine it leaves behind;
`first[c]` says that it is still in `Register`. `flight` holds the Puts on their
way: a caller may give one up and it may still arrive. `kv[k]` is the call under
whose lease the key is. `Expire` happens at will when nobody renews, by a counted
fault when somebody does.

| Action | Code |
|---|---|
| `Reserve`, `Refuse`, `GiveUp` | `Register`: the registry, the duplicate, the error path |
| `GrantOk/Fails`, `SendPut`, `PutOk/Fails`, `Arrive` | `registerLease`, for `Register` and for each heartbeat |
| `Tick`, `Done`, `UnregisterOk/Fails`, `Signal` | the goroutine's `select`, `unregister`, `ch <-` |
| `Cancel`, `CancelReturns` | the `cancelFunc`: `cancel()`, `<-ch` |
| `CloseCancels`, `CloseClient` | the two statements of `Close` |
| `Crash`, `Expire` | the process dies, a lease runs out |

`Heartbeat` has what `Registry` leaves out, the clock: `left`, the seconds left of
the lease the key hangs on; `fresh`, those of a lease that is granted but not yet
used; `next`, until the tick. `MaxLag` bounds Grant plus Put, `MaxMissed` the
heartbeats that fail in a row.

### Conf

A file's text is the number of its version, 0 if the file is absent. `queue` is
fsnotify's; `Write` makes a Write event, `Replace` and `Remove` other events, and
only while the directory is watched. `mpc` follows `monitor` and `reloadFile`;
`Reload` to `ReadFile` is the sleep. Consumers in `ByValue` are `conf.Watch`, the
others are the loaders of the pools; `view` is the version that a consumer applied
last.

| Action | Code |
|---|---|
| `Write`, `Replace`, `Remove` | the file system; each is reported by fsnotify (`Report`), or lost when the system's queue runs over (`Overflow`: an error on `watcher.Errors`, which `monitor` logs) |
| `StartMonitor`, `StartFails` | `NewWatcher` and `Add` |
| `Reload`, `Ignore` | the `select` takes an event: a Write of a file that is not filtered, or another |
| `ReadFile`, `ReadFails` | `reloadFile` after its sleep: the file is read; it is gone, or there is an error in reading it (a counted fault), and `reloadFile` returns |
| `StoreContent`, `TakeChannels`, `Send`, `ReloadDone` | the merge into Storage, the copy of the channels, a non-blocking send to each |
| `CallStop`, `TakeDone`, `StopReturns` | `Stop` and the `select`'s other case |
| `FirstGet`, `WatchEvent` | a reader's first Get and, later, the registration of its channel |
| `SetValue`; `Receive`, `GetAgain` | `conf.Watch`'s goroutine; the loaders of the pools |

`reported` and `told` are history variables: the files whose last change was
reported as a Write and not given up by a read that failed, and the consumers for
which something was published since they registered.

### Pool

The loader takes the configuration `cfg`, builds pools, and stores them in two
steps. It loads at Init (from a file) and then for events only. `Configs` are the
configurations that may be published, `Broken` those that cannot be loaded: a file
that does not parse, and in naming mode that nothing is stored yet.

| Action | Code |
|---|---|
| `Publish`, `Wake` | conf or naming has a new configuration; an event that brings nothing new, such as a heartbeat's. A loader that has registered gets an event |
| `Watch` | `conf.WatchEvent` in the loader's goroutine; `Discovery` in naming mode |
| `Receive` | the event is taken; another one may be on its way already |
| `LoadBroken`, `InitPanics` | the configuration is passed over; the panic of Init |
| `Load`, `StoreMaster`, `StoreSlave` | `parseFileConf` or `parseNamingInstance` and the pools they open; `mMap.Store`, `sMap.Store` |
| `Slave`, `Master`, `Finish` | `getDB`, `getConn`: a request takes a pool, and is done with it |
| `CloseMaster`, `CloseSlave`, `ClosePool` | `Close`, and its goroutines |

In file mode the first load comes before `Watch` (`mysql/mysql.go:128`), so what
is published between the two is not announced. `told` is a history variable:
something was announced since the loader registered.

Every load opens new pools, also when nothing changed. Pools are records that say
by which load (`turn`), from which configuration, instance and node they come and
which address they dial, so that properties can follow them (`opened`, `shut`,
`held`); loads past the bound `MaxTurn` share the last number. That an event
reaches the loader at all is the matter of `Discovery`, `Conf` and `Service`.

### Service

The loader of `InitRedis` or `InitMysql` in naming mode is one of the resolvers of
`Discovery`, and what it fetches is the configuration of `Pool`: the composed
module has the actions of both, and `apc` says whether the loader is storing.

| Action | Code |
|---|---|
| `LoaderReceives` | `<-resolver.Watch()`, when it is done with what it fetched before |
| `LoaderLoads` | `resolver.Fetch()` and, if it is ok, `parseNamingInstance`: `Fetch` of `Discovery` with `Load` of `Pool` |
| `LoaderStores` | `mMap.Store`, `sMap.Store` |
| `NamingStep`, `RequestStep` | everything else of `Discovery`; requests at the pools |

In `Discovery` a registration is only the number of the change that made it;
`Data[k]` is the instance that change `k` registers. `cfg` is a history variable:
what naming has for the loader's service, with a number that grows when it changes
(`Numbering`). `P` maps the composed state to that of `Pool`: an answer stored in
`ins` is a `Publish` or, if it brings nothing new to the service, a `Wake`; the
loader's call of `Discovery` is `Watch`, a token received is `Receive`, a Fetch
that is not ok is `LoadBroken`. `Notice` says that there is an event for the
loader, `Place` where it is in `Pool`.

### Request

`rq[q]` is the `gin.Context` of a request with what its goroutine is doing:
`index` and the handlers (`HandlersOf` a route: `Chain` and the last one) are
gin's, `stack` are the handlers whose `Next` has not returned. `abortIndex` is
gin's 63.

| Action | Code |
|---|---|
| `Arrive`, `Ends` | gin's `ServeHTTP`: the route is one of a group, another, or there is none, and the path is `/metrics` or not; the outermost `Next` is over |
| `PassOn`, `Trace`, `Admit` | `Logger`, `Recovery`, `Metrics`; `Trace`; `Ratelimit`: the part before `c.Next()` |
| `JwtAccepts`, `JwtRefuses`, `TooMany`, `NoRoute` | handlers that return without `Next`, with `Abort` or without; writing an answer may panic (`Answer`), of a client that is gone or of another error |
| `Work`, `Reply`, `HandlerPanics` | the application's handler |
| `StartOp`, `TakeConn`, `FinishOp` | `GetDB` and a query: the span, the builder, the wait for a connection, the scan and the deferred `rows.Close` and `span.Finish` |
| `Leave`, `CountPanics` | the part of a handler after its `Next`: the log line, the count (for paths other than `/metrics`), the deferred calls; the count may panic |
| `Unwind`, `Recover` | a panic passes a handler; `Recovery` |

`setup` is chosen at start-up: whether `trace.Init` was called, and whether the
flow rule is enabled. `Used` is the middleware that the application adds to the
server, in its order, `Grouped` that of a group of routes, which gin runs for the
routes of the group only. gin, sentinel, jaeger, prometheus and `database/sql`
appear as motor uses them: an entry may be refused at any time, `db.Query` waits
when `MaxConns` connections are out. `panic`, `logged` and `counted` are history
variables.

## 3. Runs

Passing runs:

| Run | Question | Bounds |
|---|---|---|
| `Discovery` | are wakeups, stored answers and Close right in every order, is what the watcher missed repaired, does Close end it? | 1 service, 2 resolvers, a foreign key below the prefix, 2 changes, 1 queued heartbeat, 1 fault |
| `Registry` | one registration per name; keys of live ones safe, and restored; keys of ended ones gone; does a cancel return; while nothing fails, is every live registration in etcd? | 2 calls of one name, 3 cancels (2 of one call), 2 faults |
| `Heartbeat` | does the key survive a failed heartbeat? | LeaseTTL 100 as in `test/configs/naming.toml`, lag 16 s, 1 missed |
| `Conf` | are writes and notifications lost, are reported writes loaded, does Stop end? | 2 files (one filtered), a reader and a setter, channels of 1, 3 versions, 1 queued event, 2 Stops, 1 fault (no watch, a lost event or a failed read) |
| `Pool` | mysql and a file that may be broken: is switching smooth, the last announced configuration applied? | 3 configurations one after the other, each a good text or a broken one, 2 loads told apart, 1 request, 1 silent node |
| `Service` | redis and naming: is a change forgotten while pools are built, is the registered service the one in use in the end, is this a `Pool`? | 1 service, the loader and another resolver, 2 changes with different nodes, 1 queued heartbeat, 1 request, loads not told apart (`MaxTurn` = 1), no faults |
| `Request` | is anything leaked, an unadmitted request handled, a log line missing, a request never answered? | 2 requests, `Metrics` for all routes, `Jwt` and `Ratelimit` for a group, 1 connection, 1 query each |

Why these bounds are enough. A lost wakeup needs a resolver that is in the middle
of an operation while an answer is stored and a later one to be lost: two
resolvers and two changes, besides heartbeats, have such pairs. Channels hold one
event in place of ten, so that they fill. Two calls of one name have every race of
`registry`; calls of other names share neither a registry entry nor a key with
them. In `Service` the second change may come at any step of the loader's work on
the first, and a heartbeat after both. Two requests and one connection are the
smallest instance where one waits for the other, and each request may be refused,
fail or panic in every place of the chain; a second query of a request begins in
the state where a first one did. The safety properties are proved for every other
choice and order of the middleware. Loads of `Service` need not be told apart,
because what a load built is compared with what naming has; `Pool` tells two
apart, an earlier and a later one. The properties proved (section 5) do not depend
on the bounds at all. `CHECK_DEADLOCK FALSE` is set where the system really may
stop: when the bounds are used up and nothing is left to do, or the process has
crashed. `Heartbeat` never stops and is checked for deadlock.

Runs that find a disagreement between code and documentation (the quoted lines are
in `PROJECT.json`):

| Run | Shows |
|---|---|
| `DiscoveryDeleted` | a service deleted between Get and Watch is fetched as present for ever |
| `RegistryClose` | `Close` closes the client before the keys are deleted |
| `ConfDiscard` | the newest event is the one discarded; `conf.Watch` keeps an old value |
| `PoolClose` | pools that a reload replaced are never closed: those of a service that was deleted from naming stay open after `Close` |
| `PoolNodes` | all redis pools of a cluster's masters, and of its slaves, dial the last node |

Other limits of the code are in the models as they are in the code, and show as
conditions of the properties:

- `FirstCancelReturns` says that *some* call of a `cancelFunc` returns: `ch` gets
  one token, so a second call blocks for ever.
- Nothing takes the name of a cancelled registration out of `registry`: `Refuse`
  refuses it from then on. `OneRegistrationPerName` therefore counts every call
  that took its name and did not fail, also those that have ended: no unregister,
  however late, can meet a newer registration of its name.
- `NoLostWrite` and `ReportedWriteLoads` speak of writes in `reported`: what
  changes between `newConf`'s read of the directory and `watcher.Add`, files that
  are replaced by a rename, and events lost when the system's queue runs over
  (`conf/conf.go:165` logs the error and nothing else) are not reported and not
  loaded. A reported write is lost too when reading the file fails
  (`conf/conf.go:183`): nothing tries again before its next Write. `ReadFails`
  takes it out of `reported`.
- `NoLostUpdate` and `LatestApplied` speak of readers in `told`: the loaders of
  the pools call `WatchEvent` after their first Get, and a reload in between is
  not notified to them. They have it with the next event of the file only.
- `SomeStopReturns`: writes are bounded in the run, so it shows that a Stop gets
  through a monitor with events waiting; that it is not passed over for ever in an
  endless stream is the assumption of fairness on `select`.
- A file that was read in the middle of a write may happen to parse, and then
  replaces the pools until the rest is read. `ServedThroughChanges` and
  `LatestApplied` are about texts that do not parse.
- `HealedByRenewal` assumes that the watch stays open (no goroutine is started
  again when etcd ends it) and that every value below the prefix is an Instance.
- `Selected` filters by `idc` in both modes, while the comment at `InitMysql`
  (`mysql/mysql.go:82`) says that it is effective in `ModeFile` only.
- `ServedThroughChanges` assumes that all nodes answer when pools are built.
- The first Get is by prefix and tests only that nothing at all has it. A service
  whose name begins with the name of another ("useradmin", "user") makes it wake
  the resolvers of the other, although the comment at `naming/etcd.go:303` says
  that they are not woken before the service is registered. The woken client finds
  an answer in which its service is absent. The run has a name below the prefix
  only as a value that does not parse, for which the Get is skipped.
- `NoLostReload` says that a loader at rest has in both maps the pools of what
  naming holds, and no others, once an answer was stored since it joined: a loader
  that joins a service which another `Resolve` discovered before gets no token for
  the answer that is stored (`naming/etcd.go:170`), and `InitRedis` blocks until
  the next heartbeat of the service. `FollowsRegistration` shows that a heartbeat
  is enough; its run has no failing Gets (`HealedByRenewal` has them).
- `CountedAsLogged` says which requests are not counted: those for `/metrics`,
  those that a handler in front of `Metrics` refuses, and those that panicked,
  since `Metrics` counts after `c.Next()` without a defer. `ReqCnt` and `ReqErr`
  therefore do not have the requests that `Recovery` answers with 500, although
  README.md:36 of the repository lists error counts among the monitoring. Likewise
  `Trace` finishes their span without the status and the error tag. Before
  `metrics.Init` the count itself panics (`CountPanics`), after the handlers
  behind it are done.
- `LoggedOnce` is about the status that gin records: when a handler panics after
  it answered, 500 is logged and the client has the first status. A client that is
  gone is logged with the status the handler had set.
- Without a pool `GetDB` returns nil and the query on it panics; so does
  `trace.GetTraceCtx` before `trace.Init`. `StartOp` has both; `Recovery` answers.
- The requests of `EveryRequestAnswered` have handlers that return: a handler that
  keeps rows open while it asks for another connection is not motor's code.
- `GrantOk/Fails` and `UnregisterOk/Fails` use `context.TODO()`: with an etcd that
  neither answers nor fails, a heartbeat, and a `cancelFunc` that waits for it,
  hang. The models let every request end.
- `watchChs` is keyed by the name as given and reloads use the name on disk, while
  `Get` ignores case: a watcher of "MySQL.toml" is not notified. File names are
  keys here. `conf.Watch` of a missing file dereferences nil on its first call,
  and `InitMysql` and `InitRedis` test and set their global without a lock: they
  are meant for one call at start-up.
- `MethodNotAllowed` is not enabled in gin's engine, so the `NoMethod` handler
  never runs and has no action.

## 4. Fairness

Used by the liveness runs and the temporal violations only.

- Goroutines that can take a step take one in the end (weak fairness per
  goroutine: Go's scheduler); clients answer notifications.
- No fault is owed: the fairness is on steps that leave `faults` alone, so a run
  where etcd never fails is fair, and so is one with every fault allowed.
- `SF(Done)` and `SF(TakeDone)`: `select` picks among ready cases uniformly at
  random, so a case that is ready again and again is not passed over for ever.
  With weak fairness, ticks could starve the cancellation.
- `WF(Renew)`: a registered instance sends heartbeats while it is registered.
- `WF(Expire)` on unrenewed keys, `WF(Arrive)`: etcd expires leases, and a request
  that is out arrives or is lost (`PutFails` may drop it).
- `WF(LoaderStep)` in `Pool` and `Service`: the loader's goroutine runs, and a
  build ends (a dial that hangs is outside the model). Without an event it has no
  step to take: `Receive` waits for one.
- `WF(Serve(q))` per request: its goroutine runs, its handler returns, and the
  database answers. Weak fairness is enough for `TakeConn`: no request gives up
  waiting, and a connection that is taken is given back. Requests are bounded, so
  that none is overtaken for ever; with endless traffic `database/sql` serves
  waiters in order.
- Files, registrations, the events of `Pool`, cancels, Close, crashes and the
  arrival of requests are owed nothing.

## 5. Proofs

All for every value of the constants that satisfies the modules' named assumptions
(`NamesAssumption`, `ResolversAssumption`, `BoundsAssumption`, `NoInsAssumption`,
`CallsAssumption`, `HeartbeatAssumption`, `ConfAssumption`, `PoolAssumption`,
`ChainAssumption`, `LimitsAssumption`, `LoaderAssumption`; each is checked by TLC
in a run).

Theorems that state a property of a run:

| Theorem | States |
|---|---|
| `DiscoveryProofs!TypeCorrect`, `DataWhenNotified`, `NoWakeupLost` | `TypeOK`, `NotifiedHasData`, `NoLostWakeup` |
| `DiscoveryProofs!StoredMonotonic`, `ClosedStaysSilent` | `StoredNeverGoesBack`, `NoTokenAfterClose` |
| `DiscoveryProofs!Refinement` | `ImplementsCell`: each service implements `NotifyCell` |
| `RegistryProofs!TypeCorrect`, `NameExclusive`, `KeyKept`, `LiveStays` | types, `OneRegistrationPerName`, `KeyLostOnlyByFault`, `LiveInEtcd` |
| `HeartbeatProofs!TypeCorrect`, `KeyStays` | types, `NeverExpires` |
| `ConfProofs!TypeCorrect`, `WritesKept`, `EventAfterContent`, `UpdatesKept` | types, `NoLostWrite`, `ContentBeforeEvent`, `NoLostUpdate` |
| `ConfProofs!VersionsMonotonic`, `Refinement` | `VersionsNeverGoBack`; `ImplementsCell`: each file implements `NotifyCell` |
| `PoolProofs!TypeCorrect`, `MasterFirst`, `NoneClosedUnderUse`, `AlwaysServed` | types, `SlaveNotAhead`, `SmoothSwitch`, `ServedThroughChanges` |
| `RequestProofs!TypeCorrect`, `NoLeak`, `AdmittedOnly`, `LogOnce`, `CountAgrees` | types, `NothingLeaked`, `OnlyAdmitted`, `LoggedOnce`, `CountedAsLogged`, for any middleware of the server and of a group, in any order |
| `ServiceProofs!TypesCorrect`, `ReloadsKept`, `PoolRefinement` | `ServiceOK`, `NoLostReload`, `ImplementsPool` |

Theorems that no run checks as a property: what a liveness property needs of the
steps ("safety half": together with the fairness of section 4 it is why the
property holds), what the compositions carry over, and how far a property that a
run violates does hold.

| Theorem | Says |
|---|---|
| `DiscoveryProofs!GoroutinesRunOut` | safety half of `WatchersStop`: after `Close` each step of a watcher goroutine takes one off what it has left, and nothing adds to it |
| `DiscoveryProofs!HealedStaysHealed` | safety half of `HealedByRenewal`: an event taken from the watch covers what was missed before; nothing is missed from then on, unless a Get fails or is skipped, or the watch ends |
| `RegistryProofs!GoneForGood` | safety half of `GoneEventually`: what has ended and left etcd does not come back |
| `HeartbeatProofs!LeaseMargin` | how much of the lease is left in the worst case |
| `ConfProofs!OneStopReturns`, `StopFinal` | safety half of `SomeStopReturns`: one Stop at most gets through, the monitor ends first, and nothing is published any more |
| `PoolProofs!AppliedAtRest` | safety half of `LatestApplied`: a loader that got an event since it registered, and rests without one, has in both maps the pools of its last load of the configuration in force, and no others |
| `PoolProofs!MapsNeverGoBack` | neither map returns to an older configuration, or to an earlier load |
| `PoolProofs!NodesReached` | `EveryNodeReached` for mysql, and for redis with at most one master per instance |
| `RequestProofs!StepsRunOut` | safety half of `EveryRequestAnswered`: every step of a request takes at least one off a bound on what it has left, `3 * MaxOps + 23` when it arrives |
| `RequestProofs!HoldersDoNotWait` | when connections are out, one who holds one does not wait |
| `NotifyCellProofs!NothingLost`, `OnlyTheCell` | what `Discovery` and `Conf` take over by implementing `NotifyCell` |
| `ServiceProofs!FollowsWhenSettled` | safety half of `FollowsRegistration`: when watcher and loader have nothing left to do, the watcher is covered and something was stored since the loader joined, the maps have exactly the pools of the instance in etcd |
| `ServiceProofs!IsDiscovery`, `FollowsMasterFirst` | `ServiceSpec => Spec`: what is proved of `Discovery` holds for `Service`; `SlaveNotAhead` for pools that follow naming |

*Discovery.* No property but `TypeOK` is inductive alone. The invariant adds three
facts (`OwnService` is a helper of them). `OneGoroutine`: there is one goroutine
per service (a call whose goroutine runs has its service in `once`, and so has no
other); without it two `StoreIns` could come in the wrong order. `FreshAnswers`:
an answer in hand is at least as new as `ins` and no newer than `rev`, which gives
`StoredNeverGoesBack`. `DataBehind`: whoever is about to notify has stored (`wpc`
in `lock`, `notify` implies `FetchOk`), which gives `NotifiedHasData`.
`NoLostWakeup` and `NoTokenAfterClose` rest on a fact about the mutex: a loop's
`todo` contains only current resolvers, because `Discover` and `CloseResolver`
wait for it. The refinement then maps each action: `StoreIns` is `Publish`,
`Discover` is `Join`, `CloseResolver` is `Leave`, `Fetch` is `Read`, all others
stutter. `Remaining` bounds what a goroutine has left after `Close`: one Get for
every queued event, each with at most six places and the turns of its loop
(`todo`, which is compared as a set). `Covered` is what a heartbeat establishes:
the watch is open and what is stored is what etcd has, or an event, a Get or an
answer in hand will make it so. It is not an invariant (the gap between Get and
Watch breaks it, as `DiscoveryDeleted` shows), but it is kept by every step other
than a fault, a skipped Get and `Close`.

*Registry.* `NameHeld` says that an active call has its name in `registry` and
that two active calls of a name are one, by which the check in `Reserve` is
enough; `FlightOwned`, that a Put on its way is of an active call or of one whose
`Register` failed. `KeyKept` follows: a Delete comes from the only active call of
the name. `GoneForGood` needs no more than that a Put arrives only from `flight`
and enters it only from a running call. `LiveStays` needs its own invariant,
`LiveInv`: without faults a Register fails only because of `Close`
(`FailsByClose`), so that a name which is free again can only be taken by a call
that `Close` has cancelled before it sends anything (`TooLate`); the late Put of a
failed attempt then meets no live registration.

*Heartbeat.* `AgeInv` bounds `left` from below by the time to the next tick, the
intervals still allowed to be missed and the lag. It shows that the first lag
counts twice, since the ticker starts only after the first Put: the assumption is
`(MaxMissed + 1) * (LeaseTTL \div 3) + 2 * MaxLag < LeaseTTL`.

*Conf.* `Versions` orders the three places a text is in: what is stored is no
newer than what is on disk, and what the monitor has read lies between the two;
`ViewsOrdered` goes on from there: what a reader has is no newer than what is
stored, and the events that wait for a setter are in order and no older than what
it has. Together they give `VersionsNeverGoBack` and `ContentBeforeEvent`.
`StopOnce`: whoever got through `Stop` found the monitor at its end, and is the
only one. `ReportedThere`: a reported file is not hidden and exists, so that the
read its event asks for fails by a fault only, and takes it out of `reported`;
`NoLostWrite` needs it. `WaitingRegistered`: a reader waits exactly when its
channel is registered, so `TakeChannels` misses none (`NoLostUpdate`). In the
refinement `StoreContent` is `Publish`, `FirstGet` is `Peek`, `WatchEvent` is
`Join` and `GetAgain` is `Read`; the others stutter, or change who is pending only
as these do.

*Pool.* `MapsInOrder` follows the loader: the master map is stored first, the
slave map next, and both hold the same configuration whenever the loader is not
between the two, which gives `SlaveNotAhead`. `ClosedByClose` says that nothing is
closed, or handed over to be closed, before `Close` is called: the loader drops
the pools it replaces, which is also what the run `PoolClose` finds. Neither needs
an assumption on the constants. `InOpened` (what is built, mapped or held was
opened) makes `TypeOK` inductive, and `NeverEmpty`, that what was built and what
the maps have had since Init is not empty while all nodes answer, gives
`ServedThroughChanges`; these use `PoolAssumption`. `UpToDate` ties pools to the
configuration in force: what was built or stored under its number is built from
it. `Told` follows the events: when the loader was told of something and has no
event, what it loaded last is the configuration in force, unless that one is
broken. Together they are `AppliedAtRest`, for one load (`turn`) in both maps;
`UpToDate` and `Target` give `NodesReached`, for both roles.

*Request.* The invariant is per request. `StackInv`: the stack has handlers of the
chain, none twice, with `Logger` and `Recovery` at the bottom, so a panic always
meets `Recovery`. `PcInv` ties the stack to `index`: `Going` is a loop that will
call another handler, `Over` one that will not, and since an abort moves `index`
past every handler, `Over` is for good. `LogInv` and `CountInv` follow the status
from there to the log line and the count; `PassInv` says that every handler of the
route that a going loop has passed, or that stands in front of the running
handler, let the request pass and has its span or entry open; `HeldInv` is
`NothingLeaked` for one request. The steps are proved by what they do to one
request (`NextKeeps`, `AbortKeeps`, `LeaveKeeps`, `UnwindKeeps`, ...), and
`OthersKept` says that they leave the others alone. `Left` bounds what a request
still has to do: three steps for every query, three for every handler that is to
be called, two for every handler on the stack; `PcInv` is what shows that it
decreases when a panic or an abort cuts the chain short.

*NotifyCell.* What is pending has joined, and who was told and is not pending
knows the cell; this is inductive as it stands.

*Service.* Each step is a step of `Discovery` or leaves its variables alone, so
`DiscoveryProofs` applies. The invariant `SInv` adds three parts. `NumbersInv`,
that the numbers in answers are those of changes, makes every content of naming
one of `Pool`'s configurations; `AnswersAgree`, that two answers of the same
revision are the same, keeps their numbers within `MaxGen`: a new content needs a
new revision; `LoaderInv` ties `cfg` to `ins` and says that the loader is not
woken while it stores. `PoolRefinement` maps the steps: `UnseenIf` shows that what
is neither the loader's nor a store for its service changes nothing that `Pool`
sees. `NoLostReload` is then what `Pool` says of a loader at rest
(`AppliedAtRest`, with `faults` 0): a notification on its way in `Discovery` is an
event in `Pool`. `PoolsSpecified` carries the other theorems of `PoolProofs` over:
`TypesCorrect` and `FollowsMasterFirst` are instances of them.

## 6. Only model-checked, and not modelled

Only by TLC: everything temporal (`HealedByRenewal`, `WatchersStop`,
`GoneEventually`, `HeartbeatRestores`, `FirstCancelReturns`, `ReportedWriteLoads`,
`SomeStopReturns`, `LatestApplied`, `FollowsRegistration`,
`EveryRequestAnswered`): liveness under fairness needs `ENABLED`, which TLAPS does
not reason about here. For each of them the part that a proof can reach is proved:
the measure that fair steps run down (`GoroutinesRunOut`, `StepsRunOut`), that
what is reached is kept (`GoneForGood`, `HealedStaysHealed`, `StopFinal`), or that
a component at rest has done its work (`AppliedAtRest`, `FollowsWhenSettled`,
`LiveInEtcd`; `NoLostWrite` for `ReportedWriteLoads`). Nothing is proved for
`FirstCancelReturns`. All invariants and action properties of the passing runs are
proved.

Abstracted: the text of files and instances; which of several ready goroutines
runs; `randInt` (any pool may be taken); several databases per configuration (one
entry of the maps stands for all, since they are stored together); the text of log
lines, answers and statements; the durations that are measured; the requests that
gin answers by itself with a redirect, for which no handler runs; the rejection of
empty arguments; requests that hang for ever (etcd answers or fails). `InitMysql`,
`InitRedis` and `Close` of the pools are called once.

Not modelled: starting and restarting the server (endless), pprof's routes, what
sentinel counts and breaks, signing and parsing of tokens, exporting of spans and
metrics (libraries; `Request` has the outcomes that motor's code tells apart);
`log` (configuration of zap); `naming`'s `getConf` and `create`, decoding of TOML
(sequential code without state); `util/bytesfmt.go` (floating-point numbers and
their formatting, which TLA+ integers do not have). `redis.close` is not called by
anything.

## 7. Plan

Done: 1 `NotifyCell`, 2 `Discovery` and its proofs, 3 `Registry`, `Heartbeat` and
their proofs, 4 `Conf` and its proofs, 5 `Pool` and its proofs, 6 `Request` and
its proofs, 7 `Service`, the composition of `Discovery` and `Pool`, and its
proofs, and the safety halves of the liveness properties (section 5).

Left, in this order:

8. `Service` with `Registry` in place of the registrations of `Discovery`, from a
   `Register` call to the pool a request gets.
9. `NotifyCell` between `Conf` and `Pool` in file mode, as `Service` is in naming
    mode; the two abstract specifications meet in `LatestApplied`.

The list of runs is kept short on purpose; a new run takes the place of one that
asks less.
