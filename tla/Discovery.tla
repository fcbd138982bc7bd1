----------------------------- MODULE Discovery -----------------------------
(***************************************************************************)
(* Service discovery through etcd (naming/etcd.go): EtcdBuilder.Discovery, *)
(* the goroutine serverInfo.watch with getstore and store, and the         *)
(* Resolve handed to the client (Watch, Fetch, Close).                     *)
(*                                                                         *)
(* A Resolve is identified with the Discovery call that created it.  The   *)
(* first call for a service starts its watcher goroutine, and the          *)
(* goroutine is named after that call, so that the model can say what      *)
(* would happen if there were two of them.                                 *)
(***************************************************************************)
EXTENDS Integers, FiniteSets

CONSTANTS
  Names,      \* instance names that occur in etcd
  Services,   \* the names that clients discover
  Under,      \* Under[s]: the names whose keys begin with key(s)
  Foreign,    \* names whose values some other program writes, not as an Instance
  Resolvers,  \* Discovery calls
  SnOf,       \* SnOf[r]: the service the call r asks for
  NoIns,      \* the atomic.Value ins before its first Store
  MaxRev,     \* bound: changes of the registered instances
  MaxQueue,   \* bound: heartbeats waiting in a watch channel
  MaxFaults   \* bound: failed Gets and watch channels closed by etcd

ASSUME NamesAssumption ==
  /\ Services \subseteq Names
  /\ Under \in [Services -> SUBSET Names]
  /\ \A s \in Services : s \in Under[s]
  /\ Foreign \subseteq Names \ Services

ASSUME ResolversAssumption == SnOf \in [Resolvers -> Services]

ASSUME BoundsAssumption ==
  /\ MaxRev \in Nat
  /\ MaxQueue \in Nat
  /\ MaxFaults \in Nat

(* What one Get sees: for every name the revision of its last change, 0    *)
(* when no instance of it is registered.                                   *)
Snapshot == [at : Nat, list : [Names -> Nat]]

ASSUME NoInsAssumption == NoIns \notin Snapshot

VARIABLES
  rev,       \* etcd: number of changes so far
  kv,        \* etcd: per name, the change that registered it; 0 if absent
  resolver,  \* serverInfo.resolver, the empty set before the first Discovery
  once,      \* the services whose serverInfo.once has run
  ins,       \* serverInfo.ins
  event,     \* Resolve.event, a channel of capacity 1: holds a token
  rpc,       \* the client of a Resolve: not created, in Discovery, waiting on
             \* Watch(), woken by it, closed
  wpc,       \* the watcher goroutine started by a call
  typ,       \* its getstore's argument
  resp,      \* the response it parsed
  todo,      \* the resolvers its loop has still to notify
  evq,       \* events in its watch channel
  closed,    \* EtcdBuilder.ctx is cancelled
  faults,    \* faults so far
  known,     \* history: the ins a resolver fetched last, NoIns before
  told       \* history: the resolvers an answer was stored for since they
             \* joined

etcd    == <<rev, kv>>
server  == <<resolver, once, ins>>
client  == <<event, rpc, known, told>>
watcher == <<wpc, typ, resp, todo, evq>>
vars    == <<etcd, server, client, watcher, closed, faults>>

Ins == Snapshot \cup {NoIns}

TypeOK ==
  /\ rev \in Nat
  /\ kv \in [Names -> Nat]
  /\ resolver \in [Services -> SUBSET Resolvers]
  /\ once \in SUBSET Services
  /\ ins \in [Services -> Ins]
  /\ event \in [Resolvers -> BOOLEAN]
  /\ rpc \in [Resolvers -> {"new", "adding", "wait", "woken", "closed"}]
  /\ wpc \in [Resolvers -> {"off", "get", "store", "lock", "notify",
                            "open", "idle", "dead"}]
  /\ typ \in [Resolvers -> {"get", "watch"}]
  /\ resp \in [Resolvers -> Ins]
  /\ todo \in [Resolvers -> SUBSET Resolvers]
  /\ evq \in [Resolvers -> Nat]
  /\ closed \in BOOLEAN
  /\ faults \in Nat
  /\ known \in [Resolvers -> Ins]
  /\ told \in SUBSET Resolvers

Init ==
  /\ rev = 0
  /\ kv = [n \in Names |-> 0]
  /\ resolver = [s \in Services |-> {}]
  /\ once = {}
  /\ ins = [s \in Services |-> NoIns]
  /\ event = [r \in Resolvers |-> FALSE]
  /\ rpc = [r \in Resolvers |-> "new"]
  /\ wpc = [w \in Resolvers |-> "off"]
  /\ typ = [w \in Resolvers |-> "get"]
  /\ resp = [w \in Resolvers |-> NoIns]
  /\ todo = [w \in Resolvers |-> {}]
  /\ evq = [w \in Resolvers |-> 0]
  /\ closed = FALSE
  /\ faults = 0
  /\ known = [r \in Resolvers |-> NoIns]
  /\ told = {}

-----------------------------------------------------------------------------
(* etcd, as the registrations of this and of other processes change it.    *)

(* The watch of w is open on the server: its events are being queued.      *)
Watching(w) ==
  /\ typ[w] = "watch"
  /\ wpc[w] # "dead"
  /\ ~closed

(* A change of the key of n reaches every watch whose prefix it has.       *)
Announce(n) ==
  evq' = [w \in Resolvers |->
            IF Watching(w) /\ n \in Under[SnOf[w]] THEN evq[w] + 1 ELSE evq[w]]

(* An instance of n registers, or registers with new data.                 *)
Put(n) ==
  /\ rev < MaxRev
  /\ rev' = rev + 1
  /\ kv' = [kv EXCEPT ![n] = rev + 1]
  /\ Announce(n)
  /\ UNCHANGED <<server, client, wpc, typ, resp, todo, closed, faults>>

(* unregister, or the lease of a process that died expires.                *)
Delete(n) ==
  /\ rev < MaxRev
  /\ kv[n] # 0
  /\ rev' = rev + 1
  /\ kv' = [kv EXCEPT ![n] = 0]
  /\ Announce(n)
  /\ UNCHANGED <<server, client, wpc, typ, resp, todo, closed, faults>>

(* The heartbeat of a registered instance: registerLease puts the same     *)
(* value again, which etcd reports as a PUT event.                         *)
Renew(n) ==
  /\ n \notin Foreign
  /\ kv[n] # 0
  /\ \A w \in Resolvers : Watching(w) => evq[w] < MaxQueue
  /\ Announce(n)
  /\ UNCHANGED <<etcd, server, client, wpc, typ, resp, todo, closed, faults>>

-----------------------------------------------------------------------------
(* EtcdBuilder.Discovery.                                                  *)

(* EtcdBuilder.mutex is held for reading by a loop that notifies.          *)
Locked == \E w \in Resolvers : wpc[w] = "notify"

(* The critical section: the resolver joins the service.  It gets no token *)
(* for what is stored already.                                             *)
Discover(r) ==
  /\ rpc[r] = "new"
  /\ ~Locked
  /\ resolver' = [resolver EXCEPT ![SnOf[r]] = @ \cup {r}]
  /\ rpc' = [rpc EXCEPT ![r] = "adding"]
  /\ UNCHANGED <<etcd, once, ins, event, known, told, watcher, closed, faults>>

(* Mutant of StartWatch: no once.                                          *)
StartAgain(r) ==
  /\ rpc[r] = "adding"
  /\ rpc' = [rpc EXCEPT ![r] = "wait"]
  /\ once' = once \cup {SnOf[r]}
  /\ wpc' = [wpc EXCEPT ![r] = "get"]
  /\ UNCHANGED <<etcd, resolver, ins, event, known, told, typ, resp, todo, evq,
                 closed, faults>>

(* once.Do: the watcher goroutine is started by one call of the service.   *)
StartWatch(r) ==
  /\ rpc[r] = "adding"
  /\ rpc' = [rpc EXCEPT ![r] = "wait"]
  /\ once' = once \cup {SnOf[r]}
  /\ wpc' = IF SnOf[r] \in once THEN wpc ELSE [wpc EXCEPT ![r] = "get"]
  /\ UNCHANGED <<etcd, resolver, ins, event, known, told, typ, resp, todo, evq,
                 closed, faults>>

-----------------------------------------------------------------------------
(* The watcher goroutine: serverInfo.watch, getstore and store.            *)

(* Where the goroutine goes when getstore returns.                         *)
AfterGetstore(w) == IF typ[w] = "get" THEN "open" ELSE "idle"

(* What a Get for the prefix key(s) answers now.                           *)
Answer(s) ==
  [at |-> rev, list |-> [n \in Names |-> IF n \in Under[s] THEN kv[n] ELSE 0]]

Present(s) == {n \in Under[s] : kv[n] # 0}

(* Mutant of GetFails: the goroutine retries for ever.                     *)
GetRetries(w) ==
  /\ wpc[w] = "get"
  /\ IF closed THEN UNCHANGED faults
               ELSE faults < MaxFaults /\ faults' = faults + 1
  /\ UNCHANGED <<etcd, server, client, watcher, closed>>

(* client.Get fails: the context is cancelled, or a fault.                 *)
GetFails(w) ==
  /\ wpc[w] = "get"
  /\ IF closed THEN UNCHANGED faults
               ELSE faults < MaxFaults /\ faults' = faults + 1
  /\ wpc' = [wpc EXCEPT ![w] = AfterGetstore(w)]
  /\ UNCHANGED <<etcd, server, client, typ, resp, todo, evq, closed>>

(* Mutant of GetSkips: without its return, the resolvers are woken.        *)
SkipWakes(w) ==
  LET s == SnOf[w] IN
  /\ wpc[w] = "get"
  /\ ~closed
  /\ (typ[w] = "get" /\ Present(s) = {}) \/ Present(s) \cap Foreign # {}
  /\ wpc' = [wpc EXCEPT ![w] = "lock"]
  /\ UNCHANGED <<etcd, server, client, typ, resp, todo, evq, closed, faults>>

(* The answer is not stored: the first Get found nothing, or parseIns met  *)
(* a value that is not an Instance.                                        *)
GetSkips(w) ==
  LET s == SnOf[w] IN
  /\ wpc[w] = "get"
  /\ ~closed
  /\ \/ typ[w] = "get" /\ Present(s) = {}
     \/ Present(s) \cap Foreign # {}
  /\ wpc' = [wpc EXCEPT ![w] = AfterGetstore(w)]
  /\ UNCHANGED <<etcd, server, client, typ, resp, todo, evq, closed, faults>>

GetOk(w) ==
  LET s == SnOf[w] IN
  /\ wpc[w] = "get"
  /\ ~closed
  /\ typ[w] = "get" => Present(s) # {}
  /\ Present(s) \cap Foreign = {}
  /\ resp' = [resp EXCEPT ![w] = Answer(s)]
  /\ wpc' = [wpc EXCEPT ![w] = "store"]
  /\ UNCHANGED <<etcd, server, client, typ, todo, evq, closed, faults>>

(* Mutant of StoreIns: an answer without instances of s wakes nobody.      *)
StoreQuietly(w) ==
  LET s == SnOf[w] IN
  /\ wpc[w] = "store"
  /\ ins' = [ins EXCEPT ![s] = resp[w]]
  /\ told' = told \cup resolver[s]
  /\ wpc' = [wpc EXCEPT ![w] = IF resp[w].list[s] = 0 THEN AfterGetstore(w) ELSE "lock"]
  /\ UNCHANGED <<etcd, resolver, once, event, rpc, known, typ, resp, todo, evq, closed,
                 faults>>

(* srv.ins.Store                                                           *)
StoreIns(w) ==
  /\ wpc[w] = "store"
  /\ ins' = [ins EXCEPT ![SnOf[w]] = resp[w]]
  /\ told' = told \cup resolver[SnOf[w]]
  /\ wpc' = [wpc EXCEPT ![w] = "lock"]
  /\ UNCHANGED <<etcd, resolver, once, event, rpc, known, typ, resp, todo, evq, closed,
                 faults>>

(* mutex.RLock: the loop will range over the resolvers of this moment.     *)
RLock(w) ==
  /\ wpc[w] = "lock"
  /\ todo' = [todo EXCEPT ![w] = resolver[SnOf[w]]]
  /\ wpc' = [wpc EXCEPT ![w] = "notify"]
  /\ UNCHANGED <<etcd, server, client, typ, resp, evq, closed, faults>>

(* Mutant of Send: event has no buffer, so only a waiting client is told.  *)
SendUnbuffered(w, r) ==
  /\ wpc[w] = "notify"
  /\ r \in todo[w]
  /\ event' = [event EXCEPT ![r] = @ \/ rpc[r] = "wait"]
  /\ todo' = [todo EXCEPT ![w] = @ \ {r}]
  /\ UNCHANGED <<etcd, server, rpc, known, told, wpc, typ, resp, evq, closed, faults>>

(* One turn of the loop, in map order: the token is dropped when there is  *)
(* one already.                                                            *)
Send(w, r) ==
  /\ wpc[w] = "notify"
  /\ r \in todo[w]
  /\ event' = [event EXCEPT ![r] = TRUE]
  /\ todo' = [todo EXCEPT ![w] = @ \ {r}]
  /\ UNCHANGED <<etcd, server, rpc, known, told, wpc, typ, resp, evq, closed, faults>>

RUnlock(w) ==
  /\ wpc[w] = "notify"
  /\ todo[w] = {}
  /\ wpc' = [wpc EXCEPT ![w] = AfterGetstore(w)]
  /\ UNCHANGED <<etcd, server, client, typ, resp, todo, evq, closed, faults>>

(* client.Watch: only changes from now on will be reported.                *)
OpenWatch(w) ==
  /\ wpc[w] = "open"
  /\ wpc' = [wpc EXCEPT ![w] = IF closed THEN "dead" ELSE "idle"]
  /\ typ' = [typ EXCEPT ![w] = "watch"]
  /\ UNCHANGED <<etcd, server, client, resp, todo, evq, closed, faults>>

(* Mutants of TakeWatchEvent: it does not wait for an event; it ignores    *)
(* events once something is stored.                                        *)
TakeUnasked(w) ==
  /\ wpc[w] = "idle"
  /\ evq' = [evq EXCEPT ![w] = @ - 1]
  /\ wpc' = [wpc EXCEPT ![w] = "get"]
  /\ UNCHANGED <<etcd, server, client, typ, resp, todo, closed, faults>>

TakeIfUnset(w) ==
  /\ wpc[w] = "idle"
  /\ evq[w] > 0
  /\ evq' = [evq EXCEPT ![w] = @ - 1]
  /\ wpc' = IF ins[SnOf[w]] = NoIns THEN [wpc EXCEPT ![w] = "get"] ELSE wpc
  /\ UNCHANGED <<etcd, server, client, typ, resp, todo, closed, faults>>

(* One event of the range over watchChan, PUT or DELETE.                   *)
TakeWatchEvent(w) ==
  /\ wpc[w] = "idle"
  /\ evq[w] > 0
  /\ evq' = [evq EXCEPT ![w] = @ - 1]
  /\ wpc' = [wpc EXCEPT ![w] = "get"]
  /\ UNCHANGED <<etcd, server, client, typ, resp, todo, closed, faults>>

(* watchChan is closed: the context is cancelled, or etcd gave the watch   *)
(* up (compaction).  The goroutine returns, and once keeps another from    *)
(* being started.                                                          *)
WatchEnds(w) ==
  /\ wpc[w] = "idle"
  /\ IF closed THEN UNCHANGED faults
               ELSE faults < MaxFaults /\ faults' = faults + 1
  /\ wpc' = [wpc EXCEPT ![w] = "dead"]
  /\ UNCHANGED <<etcd, server, client, typ, resp, todo, evq, closed>>

-----------------------------------------------------------------------------
(* The client of a Resolve: waits on Watch(), then calls Fetch().          *)

Receive(r) ==
  /\ rpc[r] = "wait"
  /\ event[r]
  /\ event' = [event EXCEPT ![r] = FALSE]
  /\ rpc' = [rpc EXCEPT ![r] = "woken"]
  /\ UNCHANGED <<etcd, server, known, told, watcher, closed, faults>>

(* Fetch: the servers map always has the service, so ok tells only         *)
(* whether something was stored.                                           *)
FetchOk(s) == ins[s] # NoIns

Fetch(r) ==
  /\ rpc[r] = "woken"
  /\ known' = [known EXCEPT ![r] = ins[SnOf[r]]]
  /\ told' = told \cup {r}
  /\ rpc' = [rpc EXCEPT ![r] = "wait"]
  /\ UNCHANGED <<etcd, server, event, watcher, closed, faults>>

(* Mutant of CloseResolver: without the mutex.                             *)
CloseUnlocked(r) ==
  /\ rpc[r] \in {"wait", "woken"}
  /\ resolver' = [resolver EXCEPT ![SnOf[r]] = @ \ {r}]
  /\ rpc' = [rpc EXCEPT ![r] = "closed"]
  /\ UNCHANGED <<etcd, once, ins, event, known, told, watcher, closed, faults>>

(* Resolve.Close, under mutex.Lock.  The event channel is not closed.      *)
CloseResolver(r) ==
  /\ rpc[r] \in {"wait", "woken"}
  /\ ~Locked
  /\ resolver' = [resolver EXCEPT ![SnOf[r]] = @ \ {r}]
  /\ rpc' = [rpc EXCEPT ![r] = "closed"]
  /\ UNCHANGED <<etcd, once, ins, event, known, told, watcher, closed, faults>>

(* EtcdBuilder.Close: the shared context is cancelled.                     *)
Close ==
  /\ ~closed
  /\ closed' = TRUE
  /\ UNCHANGED <<etcd, server, client, watcher, faults>>

-----------------------------------------------------------------------------
GetStep(w)   == GetFails(w) \/ GetSkips(w) \/ GetOk(w)
StoreStep(w) == StoreIns(w) \/ RLock(w) \/ (\E r \in Resolvers : Send(w, r)) \/ RUnlock(w)
WatchStep(w) == OpenWatch(w) \/ TakeWatchEvent(w) \/ WatchEnds(w)
Goroutine(w) == GetStep(w) \/ StoreStep(w) \/ WatchStep(w)

Registration == \E n \in Names : Put(n) \/ Delete(n) \/ Renew(n)

Next ==
  \/ Registration
  \/ \E r \in Resolvers : Discover(r) \/ StartWatch(r) \/ Receive(r) \/ Fetch(r)
                            \/ CloseResolver(r)
  \/ \E w \in Resolvers : Goroutine(w)
  \/ Close

Spec == Init /\ [][Next]_vars

(* Goroutines that can run do run, clients answer their notifications and  *)
(* a registered instance keeps its lease alive.  No fault is owed.         *)
Fairness ==
  /\ \A w \in Resolvers : WF_vars(Goroutine(w) /\ faults' = faults)
  /\ \A r \in Resolvers : WF_vars(StartWatch(r)) /\ WF_vars(Receive(r) \/ Fetch(r))
  /\ \A s \in Services : WF_vars(Renew(s))

FairSpec == Spec /\ Fairness

-----------------------------------------------------------------------------
(* Properties. *)

(* A client that is woken, or about to be, finds ok = TRUE when it calls   *)
(* Fetch: ins is stored before the first token is sent and never unset.    *)
NotifiedHasData ==
  \A r \in Resolvers : event[r] \/ rpc[r] = "woken" => FetchOk(SnOf[r])

(* A loop of store has still to reach r.                                   *)
AboutToNotify(r) ==
  \E w \in Resolvers :
    /\ SnOf[w] = SnOf[r]
    /\ wpc[w] = "lock" \/ (wpc[w] = "notify" /\ r \in todo[w])

(* The resolvers of s with a notification on its way.                      *)
Pending(s) ==
  {r \in resolver[s] : event[r] \/ rpc[r] = "woken" \/ AboutToNotify(r)}

(* No lost wakeup, whatever the order of Discovery, Close, store's loop,   *)
(* the one-token channel and the client's Fetch: once anything was stored  *)
(* since it joined, a resolver with nothing on its way has fetched what    *)
(* ins holds.  One that joins late is owed nothing before the next answer. *)
NoLostWakeup ==
  \A s \in Services : \A r \in (resolver[s] \cap told) \ Pending(s) : known[r] = ins[s]

(* ins never returns to an older answer of etcd, and never becomes unset:  *)
(* this is what the once of serverInfo is for, since two goroutines could  *)
(* store their answers in the other order.                                 *)
StoredNeverGoesBack ==
  [][\A s \in Services : ins[s] # NoIns =>
        ins'[s] # NoIns /\ ins'[s].at >= ins[s].at]_vars

(* A closed resolver gets no token any more: the loop of store holds the   *)
(* mutex that Close needs, so it never works from an old set of resolvers. *)
NoTokenAfterClose ==
  [][\A r \in Resolvers : rpc[r] = "closed" /\ event'[r] => event[r]]_vars

(* EtcdBuilder.Close ends discovery: every watcher goroutine returns.      *)
WatchersStop ==
  \A w \in Resolvers : (closed /\ wpc[w] # "off") ~> (wpc[w] = "dead")

WatchOpen(s) == \E w \in Resolvers : SnOf[w] = s /\ Watching(w)

(* No other program's value keeps parseIns from reading the prefix of s.   *)
Readable(s) == Present(s) \cap Foreign = {}

Registered(r) == rpc[r] \in {"wait", "woken"}

(* Whatever the watcher missed - a change between its Get and its Watch, a *)
(* failed Get - the heartbeats of a registered service repair: ins becomes *)
(* the current instances, and every resolver keeps being woken.            *)
HealedByRenewal ==
  \A r \in Resolvers :
    LET s == SnOf[r] IN
    <>[](Registered(r) /\ WatchOpen(s) /\ Readable(s) /\ kv[s] # 0)
      => /\ <>[](FetchOk(s) /\ ins[s].list[s] = kv[s])
         /\ []<>(rpc[r] = "woken")

(* What the comment at Fetch promises: once the service is deleted for     *)
(* good, its resolvers come to fetch no instance.                          *)
DeletedEventuallySeen ==
  \A r \in Resolvers :
    LET s == SnOf[r] IN
    <>[](Registered(r) /\ WatchOpen(s) /\ Readable(s) /\ kv[s] = 0)
      => <>[](FetchOk(s) => ins[s].list[s] = 0)

-----------------------------------------------------------------------------
(* Each service is a NotifyCell: ins is the cell, its resolvers the        *)
(* readers.                                                                *)
Cell(s) == INSTANCE NotifyCell WITH
  Readers <- {r \in Resolvers : SnOf[r] = s},
  Values  <- Ins,
  cell    <- ins[s],
  joined  <- resolver[s],
  pending <- Pending(s),
  told    <- told \cap resolver[s],
  known   <- [r \in {q \in Resolvers : SnOf[q] = s} |-> known[r]]

(* Discovery implements NotifyCell for every service: initial states map   *)
(* to initial states, and every step to a step or a stutter of each cell   *)
(* (the quantifier is inside the box, where TLC can evaluate it).          *)
ImplementsCell ==
  /\ \A s \in Services : Cell(s)!Init
  /\ [][\A s \in Services : Cell(s)!Next \/ UNCHANGED Cell(s)!vars]_vars
=============================================================================
