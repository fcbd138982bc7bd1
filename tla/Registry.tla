------------------------------ MODULE Registry ------------------------------
(***************************************************************************)
(* Service registration through etcd (naming/etcd.go): Register, its       *)
(* heartbeat goroutine, registerLease, unregister, the cancelFunc it       *)
(* returns and EtcdBuilder.Close.                                          *)
(*                                                                         *)
(* Every heartbeat grants a lease of its own and puts the key under it, so *)
(* a lease is named after the Register call it serves: kv[k] = c says that *)
(* k hangs on the last lease c obtained.                                   *)
(***************************************************************************)
EXTENDS Naturals, FiniteSets

CONSTANTS
  Calls,     \* Register calls of the process
  NameOf,    \* NameOf[c]: in.Name
  KeyOf,     \* KeyOf[c]: key(in.Name, in.Idc, in.PubEnv)
  Callers,   \* calls of a cancelFunc
  Target,    \* Target[x]: the registration x cancels
  Absent,    \* no value under a key
  MaxFaults  \* bound: requests that fail, leases lost while their owner lives

ASSUME CallsAssumption ==
  /\ Absent \notin Calls
  /\ \A c, d \in Calls : KeyOf[c] = KeyOf[d] => NameOf[c] = NameOf[d]
  /\ Target \in [Callers -> Calls]
  /\ MaxFaults \in Nat

VARIABLES
  registry,  \* EtcdBuilder.registry
  pc,        \* where a Register call, or the goroutine it left behind, is
  first,     \* it is still inside Register, in its first registerLease
  done,      \* the calls whose ctx is cancelled
  ch,        \* the calls with a token in ch
  xpc,       \* where a call of a cancelFunc is
  client,    \* EtcdBuilder.Close: "open", "cancelled" (ctx only), "closed"
  crashed,   \* the process is gone
  kv,        \* etcd: the call under whose lease a key is, or Absent
  flight,    \* calls with a Put on its way to etcd
  faults

process == <<registry, pc, first, done, ch, xpc, client, crashed>>
etcd    == <<kv, flight, faults>>
vars    == <<process, etcd>>

Names == {NameOf[c] : c \in Calls}
Keys  == {KeyOf[c] : c \in Calls}

Beating == {"grant", "put", "await", "loop"}
PCs == Beating \cup {"idle", "refused", "failing", "failed", "unreg", "signal", "exit"}

TypeOK ==
  /\ registry \in SUBSET Names
  /\ pc \in [Calls -> PCs]
  /\ first \in [Calls -> BOOLEAN]
  /\ done \in SUBSET Calls
  /\ ch \in SUBSET Calls
  /\ xpc \in [Callers -> {"idle", "waiting", "returned"}]
  /\ client \in {"open", "cancelled", "closed"}
  /\ crashed \in BOOLEAN
  /\ kv \in [Keys -> Calls \cup {Absent}]
  /\ flight \in SUBSET Calls
  /\ faults \in Nat

Init ==
  /\ registry = {}
  /\ pc = [c \in Calls |-> "idle"]
  /\ first = [c \in Calls |-> TRUE]
  /\ done = {}
  /\ ch = {}
  /\ xpc = [x \in Callers |-> "idle"]
  /\ client = "open"
  /\ crashed = FALSE
  /\ kv = [k \in Keys |-> Absent]
  /\ flight = {}
  /\ faults = 0

Fault == faults < MaxFaults /\ faults' = faults + 1

(* A request fails because the client is closed, or by a fault.            *)
RequestFails == IF client = "closed" THEN UNCHANGED faults ELSE Fault

Step(c, from, to) == ~crashed /\ pc[c] = from /\ pc' = [pc EXCEPT ![c] = to]

-----------------------------------------------------------------------------
(* Register, up to registerLease: one critical section of rmutex.          *)

(* Mutants of Reserve: the duplicate is not looked for under the lock; the *)
(* registry holds something else than the name.                            *)
ReserveUnchecked(c) ==
  /\ Step(c, "idle", "grant")
  /\ registry' = registry \cup {NameOf[c]}
  /\ done' = IF client = "open" THEN done ELSE done \cup {c}
  /\ UNCHANGED <<first, ch, xpc, client, crashed, etcd>>

ReserveInstance(c) ==
  /\ Step(c, "idle", "grant")
  /\ c \notin registry
  /\ registry' = registry \cup {c}
  /\ done' = IF client = "open" THEN done ELSE done \cup {c}
  /\ UNCHANGED <<first, ch, xpc, client, crashed, etcd>>

Reserve(c) ==
  /\ Step(c, "idle", "grant")
  /\ NameOf[c] \notin registry
  /\ registry' = registry \cup {NameOf[c]}
  /\ done' = IF client = "open" THEN done ELSE done \cup {c}
  /\ UNCHANGED <<first, ch, xpc, client, crashed, etcd>>

(* "cannot duplicate register" *)
Refuse(c) ==
  /\ Step(c, "idle", "refused")
  /\ NameOf[c] \in registry
  /\ UNCHANGED <<registry, first, done, ch, xpc, client, crashed, etcd>>

-----------------------------------------------------------------------------
(* registerLease, for Register and for every heartbeat.                    *)

(* Where an error leads: Register gives up, a heartbeat only logs it.      *)
AfterError(c) == IF first[c] THEN "failing" ELSE "loop"

(* Mutant of GrantOk: a heartbeat only renews a lease, and puts no key.    *)
GrantOnly(c) ==
  /\ Step(c, "grant", IF first[c] THEN "put" ELSE "loop")
  /\ client # "closed"
  /\ UNCHANGED <<registry, first, done, ch, xpc, client, crashed, etcd>>

GrantOk(c) ==
  /\ Step(c, "grant", "put")
  /\ client # "closed"
  /\ UNCHANGED <<registry, first, done, ch, xpc, client, crashed, etcd>>

GrantFails(c) ==
  /\ Step(c, "grant", AfterError(c))
  /\ RequestFails
  /\ UNCHANGED <<registry, first, done, ch, xpc, client, crashed, kv, flight>>

(* Put with ctx sends nothing when ctx is already cancelled.               *)
SendPut(c) ==
  /\ Step(c, "put", "await")
  /\ flight' = IF c \in done THEN flight ELSE flight \cup {c}
  /\ UNCHANGED <<registry, first, done, ch, xpc, client, crashed, kv, faults>>

(* Mutant of PutOk: Register does not wait for the answer.                 *)
PutUnawaited(c) ==
  /\ Step(c, "await", "loop")
  /\ c \notin done
  /\ first' = [first EXCEPT ![c] = FALSE]
  /\ UNCHANGED <<registry, done, ch, xpc, client, crashed, etcd>>

(* The answer: Register returns, the goroutine of the heartbeat starts or  *)
(* goes on.                                                                *)
PutOk(c) ==
  /\ Step(c, "await", "loop")
  /\ c \notin flight \cup done
  /\ first' = [first EXCEPT ![c] = FALSE]
  /\ UNCHANGED <<registry, done, ch, xpc, client, crashed, etcd>>

(* ctx is cancelled, or a fault.  A request that is out may still arrive.  *)
PutFails(c) ==
  /\ Step(c, "await", AfterError(c))
  /\ IF c \in done THEN UNCHANGED faults ELSE RequestFails
  /\ flight' \in {flight, flight \ {c}}
  /\ UNCHANGED <<registry, first, done, ch, xpc, client, crashed, kv>>

(* Register returns the error: the name is free again.                     *)
GiveUp(c) ==
  /\ Step(c, "failing", "failed")
  /\ registry' = registry \ {NameOf[c]}
  /\ done' = done \cup {c}
  /\ UNCHANGED <<first, ch, xpc, client, crashed, etcd>>

-----------------------------------------------------------------------------
(* The heartbeat goroutine.                                                *)

Tick(c) ==
  /\ Step(c, "loop", "grant")
  /\ UNCHANGED <<registry, first, done, ch, xpc, client, crashed, etcd>>

(* Mutant of Done: the name is free before the key is deleted.             *)
DoneReleases(c) ==
  /\ Step(c, "loop", "unreg")
  /\ c \in done
  /\ registry' = registry \ {NameOf[c]}
  /\ UNCHANGED <<first, done, ch, xpc, client, crashed, etcd>>

Done(c) ==
  /\ Step(c, "loop", "unreg")
  /\ c \in done
  /\ UNCHANGED <<registry, first, done, ch, xpc, client, crashed, etcd>>

UnregisterOk(c) ==
  /\ Step(c, "unreg", "signal")
  /\ client # "closed"
  /\ kv' = [kv EXCEPT ![KeyOf[c]] = Absent]
  /\ UNCHANGED <<registry, first, done, ch, xpc, client, crashed, flight, faults>>

(* The error is dropped: nothing tries again.                              *)
UnregisterFails(c) ==
  /\ Step(c, "unreg", "signal")
  /\ RequestFails
  /\ UNCHANGED <<registry, first, done, ch, xpc, client, crashed, kv, flight>>

(* Mutant of Signal: the goroutine ends without a token.                   *)
EndSilently(c) ==
  /\ Step(c, "signal", "exit")
  /\ UNCHANGED <<registry, first, done, ch, xpc, client, crashed, etcd>>

(* ch <- struct{}{}, and the goroutine ends.                               *)
Signal(c) ==
  /\ Step(c, "signal", "exit")
  /\ ch' = ch \cup {c}
  /\ UNCHANGED <<registry, first, done, xpc, client, crashed, etcd>>

-----------------------------------------------------------------------------
(* The cancelFunc: cancel(), then <-ch.                                    *)

Cancel(x) ==
  /\ ~crashed
  /\ xpc[x] = "idle"
  /\ ~first[Target[x]]
  /\ done' = done \cup {Target[x]}
  /\ xpc' = [xpc EXCEPT ![x] = "waiting"]
  /\ UNCHANGED <<registry, pc, first, ch, client, crashed, etcd>>

CancelReturns(x) ==
  /\ ~crashed
  /\ xpc[x] = "waiting"
  /\ Target[x] \in ch
  /\ ch' = ch \ {Target[x]}
  /\ xpc' = [xpc EXCEPT ![x] = "returned"]
  /\ UNCHANGED <<registry, pc, first, done, client, crashed, etcd>>

(* EtcdBuilder.Close cancels the context every registration's ctx derives  *)
(* from, and closes the client right after.                                *)
CloseCancels ==
  /\ ~crashed
  /\ client = "open"
  /\ client' = "cancelled"
  /\ done' = done \cup {c \in Calls : pc[c] # "idle"}
  /\ UNCHANGED <<registry, pc, first, ch, xpc, crashed, etcd>>

CloseClient ==
  /\ ~crashed
  /\ client = "cancelled"
  /\ client' = "closed"
  /\ UNCHANGED <<registry, pc, first, done, ch, xpc, crashed, etcd>>

Crash ==
  /\ ~crashed
  /\ crashed' = TRUE
  /\ UNCHANGED <<registry, pc, first, done, ch, xpc, client, etcd>>

-----------------------------------------------------------------------------
(* etcd, as the client library and the lease API show it.                  *)

(* A Put arrives, in time or after its caller stopped waiting for it.      *)
Arrive(c) ==
  /\ c \in flight
  /\ kv' = [kv EXCEPT ![KeyOf[c]] = c]
  /\ flight' = flight \ {c}
  /\ UNCHANGED <<process, faults>>

(* The registration c still renews its lease.                              *)
Renewing(c) == ~crashed /\ pc[c] \in Beating

(* Mutant of Expire: the Put was made without the lease, and what nobody   *)
(* renews stays.                                                           *)
ExpireUnleased(k) ==
  /\ kv[k] # Absent
  /\ Renewing(kv[k])
  /\ kv' = [kv EXCEPT ![k] = Absent]
  /\ Fault
  /\ UNCHANGED <<process, flight>>

(* The lease a key hangs on expires: of course when nobody renews it, by a *)
(* fault (heartbeats late or failing for a whole LeaseTTL) when somebody   *)
(* does.                                                                   *)
Expire(k) ==
  /\ kv[k] # Absent
  /\ kv' = [kv EXCEPT ![k] = Absent]
  /\ IF Renewing(kv[k]) THEN Fault ELSE UNCHANGED faults
  /\ UNCHANGED <<process, flight>>

-----------------------------------------------------------------------------
RegisterStep(c) ==
  \/ Reserve(c) \/ Refuse(c) \/ GrantOk(c) \/ GrantFails(c) \/ SendPut(c)
  \/ PutOk(c) \/ PutFails(c) \/ GiveUp(c)

HeartbeatStep(c) ==
  Tick(c) \/ Done(c) \/ UnregisterOk(c) \/ UnregisterFails(c) \/ Signal(c)

Next ==
  \/ \E c \in Calls : RegisterStep(c) \/ HeartbeatStep(c) \/ Arrive(c)
  \/ \E x \in Callers : Cancel(x) \/ CancelReturns(x)
  \/ \E k \in Keys : Expire(k)
  \/ CloseCancels \/ CloseClient \/ Crash

Spec == Init /\ [][Next]_vars

(* etcd answers requests, unwatched leases expire, goroutines run.  When a *)
(* tick and ctx.Done() are both ready, select takes one at random, so Done *)
(* cannot be passed over for ever: strong fairness.                        *)
Fairness ==
  /\ \A c \in Calls :
       /\ WF_vars(/\ RegisterStep(c) \/ HeartbeatStep(c)
                  /\ pc[c] # "idle" /\ faults' = faults)
       /\ SF_vars(Done(c))
       /\ WF_vars(Arrive(c))
  /\ \A x \in Callers : WF_vars(CancelReturns(x))
  /\ \A k \in Keys : WF_vars(Expire(k) /\ faults' = faults)
  /\ WF_vars(CloseClient)

FairSpec == Spec /\ Fairness

-----------------------------------------------------------------------------
(* Properties. *)

Active(c) == pc[c] \notin {"idle", "refused", "failed", "exit"}

(* The calls that took their name and have not given it back: a failed     *)
(* Register does, a registration that ended by its cancelFunc does not.    *)
Holds(c) == pc[c] \notin {"idle", "refused", "failed"}

(* A name is registered once in the life of the process, whatever the      *)
(* order of Register calls and of their failures: only a Register that     *)
(* fails frees its name, so no unregister, however late, meets a newer     *)
(* registration of the name.                                               *)
OneRegistrationPerName ==
  \A c, d \in Calls :
    NameOf[c] = NameOf[d] /\ Holds(c) /\ Holds(d) => c = d

(* While a registration sends heartbeats, nobody else's unregister deletes *)
(* its key.  It can lose it in two ways only: etcd lost the lease, or a    *)
(* Put of an attempt that Register gave up arrives late and takes the key  *)
(* over (the next heartbeat takes it back).                                *)
KeyLostOnlyByFault ==
  [][\A c \in Calls :
       LET k == KeyOf[c] IN
       Renewing(c) /\ kv[k] = c /\ kv'[k] # c =>
         \/ kv'[k] = Absent /\ faults' > faults
         \/ \E d \in flight : kv'[k] = d /\ pc[d] = "failed"]_vars

(* A registration that ended - cancelled, failed, closed, or with the      *)
(* process - is gone from etcd for good in the end, even when its          *)
(* unregister failed or a Put of it arrives late: the lease sees to it.    *)
GoneEventually ==
  \A c \in Calls :
    <>[](~Renewing(c)) => <>[](kv[KeyOf[c]] # c)

(* A registration that goes on is in etcd in the end, whatever was lost on *)
(* the way: every heartbeat grants a new lease and puts the key again.     *)
HeartbeatRestores ==
  \A c \in Calls :
    <>[](Renewing(c) /\ ~first[c] /\ c \notin done) => <>[](kv[KeyOf[c]] = c)

(* Some call of a cancelFunc returns, once one was made.  Not every call:  *)
(* there is one token, and who comes second waits for ever.                *)
FirstCancelReturns ==
  \A x \in Callers :
    xpc[x] = "waiting" ~>
      crashed \/ \E y \in Callers : Target[y] = Target[x] /\ xpc[y] = "returned"

(* While no request and no lease is lost, what Register has returned is in *)
(* etcd under its own lease at every moment, until its goroutine           *)
(* unregisters it: no other call for the name, refused, given up or just   *)
(* ended, and no Put that is still on its way, takes or deletes its key.   *)
LiveInEtcd ==
  faults = 0 /\ ~crashed =>
    \A c \in Calls : pc[c] \in Beating /\ ~first[c] => kv[KeyOf[c]] = c

(* The comment at Builder.Close: it ends all registrations.  Once the      *)
(* client is closed and no heartbeat goroutine is left, no registration    *)
(* that Register returned is left in etcd.                                 *)
CloseDeregisters ==
  client = "closed" /\ ~crashed /\ faults = 0 /\ (\A c \in Calls : ~Active(c))
    => \A c \in Calls : ~first[c] => kv[KeyOf[c]] # c
=============================================================================
