-------------------------- MODULE DiscoveryProofs --------------------------
(* Proofs about Discovery, for every number of services, resolvers and     *)
(* names and whatever prefixes the names share.                            *)
EXTENDS Discovery, TLAPS

(* Every variable keeps its type through every step of discovery.          *)
LEMMA TypeStep == TypeOK /\ [Next]_vars => TypeOK'
<1> SUFFICES ASSUME TypeOK, [Next]_vars
             PROVE  TypeOK'
  OBVIOUS
<1> USE NamesAssumption, ResolversAssumption
<1>1. ASSUME NEW n \in Names, Put(n) PROVE TypeOK'
  BY <1>1 DEF TypeOK, Put, Announce, server, client
<1>2. ASSUME NEW n \in Names, Delete(n) PROVE TypeOK'
  BY <1>2 DEF TypeOK, Delete, Announce, server, client
<1>3. ASSUME NEW n \in Names, Renew(n) PROVE TypeOK'
  BY <1>3 DEF TypeOK, Renew, Announce, etcd, server, client
<1>4. ASSUME NEW r \in Resolvers, Discover(r) PROVE TypeOK'
  BY <1>4 DEF TypeOK, Discover, etcd, watcher
<1>5. ASSUME NEW r \in Resolvers, StartWatch(r) PROVE TypeOK'
  BY <1>5 DEF TypeOK, StartWatch, etcd
<1>6. ASSUME NEW r \in Resolvers, Receive(r) PROVE TypeOK'
  BY <1>6 DEF TypeOK, Receive, etcd, server, watcher
<1>7. ASSUME NEW r \in Resolvers, Fetch(r) PROVE TypeOK'
  BY <1>7 DEF TypeOK, Fetch, etcd, server, watcher
<1>8. ASSUME NEW r \in Resolvers, CloseResolver(r) PROVE TypeOK'
  BY <1>8 DEF TypeOK, CloseResolver, etcd, watcher
<1>9. ASSUME NEW w \in Resolvers, GetFails(w) PROVE TypeOK'
  BY <1>9 DEF TypeOK, GetFails, AfterGetstore, etcd, server, client
<1>10. ASSUME NEW w \in Resolvers, GetSkips(w) PROVE TypeOK'
  BY <1>10 DEF TypeOK, GetSkips, AfterGetstore, etcd, server, client
<1>11. ASSUME NEW w \in Resolvers, GetOk(w) PROVE TypeOK'
  <2>1. Answer(SnOf[w]) \in Ins
    BY DEF TypeOK, Answer, Ins, Snapshot
  <2> QED
    BY <1>11, <2>1 DEF TypeOK, GetOk, etcd, server, client
<1>12. ASSUME NEW w \in Resolvers, StoreIns(w) PROVE TypeOK'
  BY <1>12 DEF TypeOK, StoreIns, etcd, client
<1>13. ASSUME NEW w \in Resolvers, RLock(w) PROVE TypeOK'
  BY <1>13 DEF TypeOK, RLock, etcd, server, client
<1>14. ASSUME NEW w \in Resolvers, NEW r \in Resolvers, Send(w, r) PROVE TypeOK'
  BY <1>14 DEF TypeOK, Send, etcd, server
<1>15. ASSUME NEW w \in Resolvers, RUnlock(w) PROVE TypeOK'
  BY <1>15 DEF TypeOK, RUnlock, AfterGetstore, etcd, server, client
<1>16. ASSUME NEW w \in Resolvers, OpenWatch(w) PROVE TypeOK'
  BY <1>16 DEF TypeOK, OpenWatch, etcd, server, client
<1>17. ASSUME NEW w \in Resolvers, TakeWatchEvent(w) PROVE TypeOK'
  BY <1>17 DEF TypeOK, TakeWatchEvent, etcd, server, client
<1>18. ASSUME NEW w \in Resolvers, WatchEnds(w) PROVE TypeOK'
  BY <1>18 DEF TypeOK, WatchEnds, etcd, server, client
<1>19. CASE Close
  BY <1>19 DEF TypeOK, Close, etcd, server, client, watcher
<1>20. CASE UNCHANGED vars
  BY <1>20 DEF TypeOK, vars, etcd, server, client, watcher
<1> QED
  BY <1>1, <1>2, <1>3, <1>4, <1>5, <1>6, <1>7, <1>8, <1>9, <1>10, <1>11,
     <1>12, <1>13, <1>14, <1>15, <1>16, <1>17, <1>18, <1>19, <1>20
  DEF Next, Registration, Goroutine, GetStep, StoreStep, WatchStep
-----------------------------------------------------------------------------
(* What makes NotifiedHasData and NoLostWakeup inductive. *)

(* A goroutine serves the service it was started for: only its resolvers   *)
(* are in the set and in a loop, a loop runs over resolvers still in the   *)
(* set, a call that has not reached once.Do has started no goroutine, and  *)
(* nobody is told of an answer before it joins.                            *)
OwnService ==
  /\ \A s \in Services : \A r \in resolver[s] : SnOf[r] = s
  /\ \A r \in Resolvers :
       r \in resolver[SnOf[r]] <=> rpc[r] \in {"adding", "wait", "woken"}
  /\ \A w \in Resolvers : \A r \in todo[w] : SnOf[r] = SnOf[w]
  /\ \A w \in Resolvers : wpc[w] = "notify" => todo[w] \subseteq resolver[SnOf[w]]
  /\ \A w \in Resolvers : rpc[w] \in {"new", "adding"} => wpc[w] = "off"
  /\ \A r \in told : rpc[r] # "new"

(* once: a service has one goroutine at most.                              *)
OneGoroutine ==
  /\ \A w \in Resolvers : wpc[w] # "off" => SnOf[w] \in once
  /\ \A v, w \in Resolvers :
       SnOf[v] = SnOf[w] /\ wpc[v] # "off" /\ wpc[w] # "off" => v = w

(* No stored answer is from the future, and the one a goroutine is about   *)
(* to store is at least as new as what it replaces.                        *)
FreshAnswers ==
  /\ \A s \in Services : FetchOk(s) => ins[s].at <= rev
  /\ \A w \in Resolvers :
       wpc[w] = "store" =>
         /\ resp[w].at <= rev
         /\ FetchOk(SnOf[w]) => resp[w].at >= ins[SnOf[w]].at

(* A goroutine that is about to store has an answer, and one that is about *)
(* to notify has stored it.                                                *)
DataBehind ==
  /\ \A w \in Resolvers : wpc[w] = "store" => resp[w] # NoIns
  /\ \A w \in Resolvers : wpc[w] \in {"lock", "notify"} => FetchOk(SnOf[w])
  /\ NotifiedHasData

IInv ==
  /\ TypeOK
  /\ OwnService
  /\ OneGoroutine
  /\ DataBehind
  /\ FreshAnswers
  /\ NoLostWakeup

(* Each goroutine stays with its service.                                  *)
LEMMA OwnServiceStep ==
  TypeOK /\ OwnService /\ [Next]_vars => OwnService'
<1> SUFFICES ASSUME TypeOK /\ OwnService, [Next]_vars
             PROVE  OwnService'
  OBVIOUS
<1> USE ResolversAssumption DEF TypeOK, OwnService
<1>1. ASSUME NEW n \in Names, Put(n) PROVE OwnService'
  BY <1>1 DEF Put, server, client
<1>2. ASSUME NEW n \in Names, Delete(n) PROVE OwnService'
  BY <1>2 DEF Delete, server, client
<1>3. ASSUME NEW n \in Names, Renew(n) PROVE OwnService'
  BY <1>3 DEF Renew, server, client
<1>4. ASSUME NEW r \in Resolvers, Discover(r) PROVE OwnService'
  BY <1>4 DEF Discover, watcher
<1>5. ASSUME NEW r \in Resolvers, StartWatch(r) PROVE OwnService'
  BY <1>5 DEF StartWatch
<1>6. ASSUME NEW r \in Resolvers, Receive(r) PROVE OwnService'
  BY <1>6 DEF Receive, server, watcher
<1>7. ASSUME NEW r \in Resolvers, Fetch(r) PROVE OwnService'
  BY <1>7 DEF Fetch, server, watcher
<1>8. ASSUME NEW r \in Resolvers, CloseResolver(r) PROVE OwnService'
  BY <1>8 DEF CloseResolver, Locked, watcher
<1>9. ASSUME NEW w \in Resolvers, GetFails(w) PROVE OwnService'
  BY <1>9 DEF GetFails, AfterGetstore, server, client
<1>10. ASSUME NEW w \in Resolvers, GetSkips(w) PROVE OwnService'
  BY <1>10 DEF GetSkips, AfterGetstore, server, client
<1>11. ASSUME NEW w \in Resolvers, GetOk(w) PROVE OwnService'
  BY <1>11 DEF GetOk, server, client
<1>12. ASSUME NEW w \in Resolvers, StoreIns(w) PROVE OwnService'
  BY <1>12 DEF StoreIns, client
<1>13. ASSUME NEW w \in Resolvers, RLock(w) PROVE OwnService'
  BY <1>13 DEF RLock, server, client
<1>14. ASSUME NEW w \in Resolvers, NEW r \in Resolvers, Send(w, r) PROVE OwnService'
  BY <1>14 DEF Send, server
<1>15. ASSUME NEW w \in Resolvers, RUnlock(w) PROVE OwnService'
  BY <1>15 DEF RUnlock, AfterGetstore, server, client
<1>16. ASSUME NEW w \in Resolvers, OpenWatch(w) PROVE OwnService'
  BY <1>16 DEF OpenWatch, server, client
<1>17. ASSUME NEW w \in Resolvers, TakeWatchEvent(w) PROVE OwnService'
  BY <1>17 DEF TakeWatchEvent, server, client
<1>18. ASSUME NEW w \in Resolvers, WatchEnds(w) PROVE OwnService'
  BY <1>18 DEF WatchEnds, server, client
<1>19. CASE Close
  BY <1>19 DEF Close, server, client, watcher
<1>20. CASE UNCHANGED vars
  BY <1>20 DEF vars, server, client, watcher
<1> QED
  BY <1>1, <1>2, <1>3, <1>4, <1>5, <1>6, <1>7, <1>8, <1>9, <1>10, <1>11,
     <1>12, <1>13, <1>14, <1>15, <1>16, <1>17, <1>18, <1>19, <1>20
  DEF Next, Registration, Goroutine, GetStep, StoreStep, WatchStep

(* Only the first call of a service starts its goroutine.                  *)
LEMMA OneGoroutineStep ==
  TypeOK /\ OwnService /\ OneGoroutine /\ [Next]_vars => OneGoroutine'
<1> SUFFICES ASSUME TypeOK /\ OwnService /\ OneGoroutine, [Next]_vars
             PROVE  OneGoroutine'
  OBVIOUS
<1> USE ResolversAssumption DEF TypeOK, OwnService, OneGoroutine
<1>1. ASSUME NEW n \in Names, Put(n) PROVE OneGoroutine'
  BY <1>1 DEF Put, server, client
<1>2. ASSUME NEW n \in Names, Delete(n) PROVE OneGoroutine'
  BY <1>2 DEF Delete, server, client
<1>3. ASSUME NEW n \in Names, Renew(n) PROVE OneGoroutine'
  BY <1>3 DEF Renew, server, client
<1>4. ASSUME NEW r \in Resolvers, Discover(r) PROVE OneGoroutine'
  BY <1>4 DEF Discover, watcher
<1>5. ASSUME NEW r \in Resolvers, StartWatch(r) PROVE OneGoroutine'
  BY <1>5 DEF StartWatch
<1>6. ASSUME NEW r \in Resolvers, Receive(r) PROVE OneGoroutine'
  BY <1>6 DEF Receive, server, watcher
<1>7. ASSUME NEW r \in Resolvers, Fetch(r) PROVE OneGoroutine'
  BY <1>7 DEF Fetch, server, watcher
<1>8. ASSUME NEW r \in Resolvers, CloseResolver(r) PROVE OneGoroutine'
  BY <1>8 DEF CloseResolver, watcher
<1>9. ASSUME NEW w \in Resolvers, GetFails(w) PROVE OneGoroutine'
  BY <1>9 DEF GetFails, AfterGetstore, server, client
<1>10. ASSUME NEW w \in Resolvers, GetSkips(w) PROVE OneGoroutine'
  BY <1>10 DEF GetSkips, AfterGetstore, server, client
<1>11. ASSUME NEW w \in Resolvers, GetOk(w) PROVE OneGoroutine'
  BY <1>11 DEF GetOk, server, client
<1>12. ASSUME NEW w \in Resolvers, StoreIns(w) PROVE OneGoroutine'
  BY <1>12 DEF StoreIns, client
<1>13. ASSUME NEW w \in Resolvers, RLock(w) PROVE OneGoroutine'
  BY <1>13 DEF RLock, server, client
<1>14. ASSUME NEW w \in Resolvers, NEW r \in Resolvers, Send(w, r) PROVE OneGoroutine'
  BY <1>14 DEF Send, server
<1>15. ASSUME NEW w \in Resolvers, RUnlock(w) PROVE OneGoroutine'
  BY <1>15 DEF RUnlock, AfterGetstore, server, client
<1>16. ASSUME NEW w \in Resolvers, OpenWatch(w) PROVE OneGoroutine'
  BY <1>16 DEF OpenWatch, server, client
<1>17. ASSUME NEW w \in Resolvers, TakeWatchEvent(w) PROVE OneGoroutine'
  BY <1>17 DEF TakeWatchEvent, server, client
<1>18. ASSUME NEW w \in Resolvers, WatchEnds(w) PROVE OneGoroutine'
  BY <1>18 DEF WatchEnds, server, client
<1>19. CASE Close
  BY <1>19 DEF Close, server, client, watcher
<1>20. CASE UNCHANGED vars
  BY <1>20 DEF vars, server, client, watcher
<1> QED
  BY <1>1, <1>2, <1>3, <1>4, <1>5, <1>6, <1>7, <1>8, <1>9, <1>10, <1>11,
     <1>12, <1>13, <1>14, <1>15, <1>16, <1>17, <1>18, <1>19, <1>20
  DEF Next, Registration, Goroutine, GetStep, StoreStep, WatchStep

(* Answers are stored in the order in which etcd gave them.                *)
LEMMA FreshAnswersStep ==
  TypeOK /\ OneGoroutine /\ DataBehind /\ FreshAnswers /\ [Next]_vars => FreshAnswers'
<1> SUFFICES ASSUME TypeOK /\ OneGoroutine /\ DataBehind /\ FreshAnswers, [Next]_vars
             PROVE  FreshAnswers'
  OBVIOUS
<1> USE ResolversAssumption, NoInsAssumption
    DEF TypeOK, OneGoroutine, DataBehind, FreshAnswers, FetchOk, etcd
<1>1. ASSUME NEW n \in Names, Put(n) PROVE FreshAnswers'
  <2>1. \A s \in Services : FetchOk(s) => ins[s].at \in Nat
    BY DEF Ins, Snapshot
  <2>2. \A w \in Resolvers : wpc[w] = "store" => resp[w].at \in Nat
    BY DEF Ins, Snapshot
  <2> QED
    BY <1>1, <2>1, <2>2 DEF Put, server, client
<1>2. ASSUME NEW n \in Names, Delete(n) PROVE FreshAnswers'
  <2>1. \A s \in Services : FetchOk(s) => ins[s].at \in Nat
    BY DEF Ins, Snapshot
  <2>2. \A w \in Resolvers : wpc[w] = "store" => resp[w].at \in Nat
    BY DEF Ins, Snapshot
  <2> QED
    BY <1>2, <2>1, <2>2 DEF Delete, server, client
<1>3. ASSUME NEW n \in Names, Renew(n) PROVE FreshAnswers'
  BY <1>3 DEF Renew, server, client
<1>4. ASSUME NEW r \in Resolvers, Discover(r) PROVE FreshAnswers'
  BY <1>4 DEF Discover, watcher
<1>5. ASSUME NEW r \in Resolvers, StartWatch(r) PROVE FreshAnswers'
  BY <1>5 DEF StartWatch
<1>6. ASSUME NEW r \in Resolvers, Receive(r) PROVE FreshAnswers'
  BY <1>6 DEF Receive, server, watcher
<1>7. ASSUME NEW r \in Resolvers, Fetch(r) PROVE FreshAnswers'
  BY <1>7 DEF Fetch, server, watcher
<1>8. ASSUME NEW r \in Resolvers, CloseResolver(r) PROVE FreshAnswers'
  BY <1>8 DEF CloseResolver, watcher
<1>9. ASSUME NEW w \in Resolvers, GetFails(w) PROVE FreshAnswers'
  BY <1>9 DEF GetFails, AfterGetstore, server, client
<1>10. ASSUME NEW w \in Resolvers, GetSkips(w) PROVE FreshAnswers'
  BY <1>10 DEF GetSkips, AfterGetstore, server, client
<1>11. ASSUME NEW w \in Resolvers, GetOk(w) PROVE FreshAnswers'
  <2>1. Answer(SnOf[w]).at = rev /\ rev >= rev
    BY DEF Answer
  <2> QED
    BY <1>11, <2>1 DEF GetOk, server, client
<1>12. ASSUME NEW w \in Resolvers, StoreIns(w) PROVE FreshAnswers'
  BY <1>12 DEF StoreIns, client
<1>13. ASSUME NEW w \in Resolvers, RLock(w) PROVE FreshAnswers'
  BY <1>13 DEF RLock, server, client
<1>14. ASSUME NEW w \in Resolvers, NEW r \in Resolvers, Send(w, r) PROVE FreshAnswers'
  BY <1>14 DEF Send, server
<1>15. ASSUME NEW w \in Resolvers, RUnlock(w) PROVE FreshAnswers'
  BY <1>15 DEF RUnlock, AfterGetstore, server, client
<1>16. ASSUME NEW w \in Resolvers, OpenWatch(w) PROVE FreshAnswers'
  BY <1>16 DEF OpenWatch, server, client
<1>17. ASSUME NEW w \in Resolvers, TakeWatchEvent(w) PROVE FreshAnswers'
  BY <1>17 DEF TakeWatchEvent, server, client
<1>18. ASSUME NEW w \in Resolvers, WatchEnds(w) PROVE FreshAnswers'
  BY <1>18 DEF WatchEnds, server, client
<1>19. CASE Close
  BY <1>19 DEF Close, server, client, watcher
<1>20. CASE UNCHANGED vars
  BY <1>20 DEF vars, server, client, watcher
<1> QED
  BY <1>1, <1>2, <1>3, <1>4, <1>5, <1>6, <1>7, <1>8, <1>9, <1>10, <1>11,
     <1>12, <1>13, <1>14, <1>15, <1>16, <1>17, <1>18, <1>19, <1>20
  DEF Next, Registration, Goroutine, GetStep, StoreStep, WatchStep

(* Data is stored before anybody is told of it.                            *)
LEMMA DataBehindStep ==
  TypeOK /\ OwnService /\ DataBehind /\ [Next]_vars => DataBehind'
<1> SUFFICES ASSUME TypeOK /\ OwnService /\ DataBehind, [Next]_vars
             PROVE  DataBehind'
  OBVIOUS
<1> USE ResolversAssumption, NoInsAssumption
    DEF TypeOK, OwnService, DataBehind, NotifiedHasData, FetchOk
<1>1. ASSUME NEW n \in Names, Put(n) PROVE DataBehind'
  BY <1>1 DEF Put, server, client
<1>2. ASSUME NEW n \in Names, Delete(n) PROVE DataBehind'
  BY <1>2 DEF Delete, server, client
<1>3. ASSUME NEW n \in Names, Renew(n) PROVE DataBehind'
  BY <1>3 DEF Renew, server, client
<1>4. ASSUME NEW r \in Resolvers, Discover(r) PROVE DataBehind'
  BY <1>4 DEF Discover, watcher
<1>5. ASSUME NEW r \in Resolvers, StartWatch(r) PROVE DataBehind'
  BY <1>5 DEF StartWatch
<1>6. ASSUME NEW r \in Resolvers, Receive(r) PROVE DataBehind'
  BY <1>6 DEF Receive, server, watcher
<1>7. ASSUME NEW r \in Resolvers, Fetch(r) PROVE DataBehind'
  BY <1>7 DEF Fetch, server, watcher
<1>8. ASSUME NEW r \in Resolvers, CloseResolver(r) PROVE DataBehind'
  BY <1>8 DEF CloseResolver, watcher
<1>9. ASSUME NEW w \in Resolvers, GetFails(w) PROVE DataBehind'
  BY <1>9 DEF GetFails, AfterGetstore, server, client
<1>10. ASSUME NEW w \in Resolvers, GetSkips(w) PROVE DataBehind'
  BY <1>10 DEF GetSkips, AfterGetstore, server, client
<1>11. ASSUME NEW w \in Resolvers, GetOk(w) PROVE DataBehind'
  <2>1. Answer(SnOf[w]) # NoIns
    BY DEF Answer, Snapshot
  <2> QED
    BY <1>11, <2>1 DEF GetOk, server, client
<1>12. ASSUME NEW w \in Resolvers, StoreIns(w) PROVE DataBehind'
  BY <1>12 DEF StoreIns, client
<1>13. ASSUME NEW w \in Resolvers, RLock(w) PROVE DataBehind'
  BY <1>13 DEF RLock, server, client
<1>14. ASSUME NEW w \in Resolvers, NEW r \in Resolvers, Send(w, r) PROVE DataBehind'
  BY <1>14 DEF Send, server
<1>15. ASSUME NEW w \in Resolvers, RUnlock(w) PROVE DataBehind'
  BY <1>15 DEF RUnlock, AfterGetstore, server, client
<1>16. ASSUME NEW w \in Resolvers, OpenWatch(w) PROVE DataBehind'
  BY <1>16 DEF OpenWatch, server, client
<1>17. ASSUME NEW w \in Resolvers, TakeWatchEvent(w) PROVE DataBehind'
  BY <1>17 DEF TakeWatchEvent, server, client
<1>18. ASSUME NEW w \in Resolvers, WatchEnds(w) PROVE DataBehind'
  BY <1>18 DEF WatchEnds, server, client
<1>19. CASE Close
  BY <1>19 DEF Close, server, client, watcher
<1>20. CASE UNCHANGED vars
  BY <1>20 DEF vars, server, client, watcher
<1> QED
  BY <1>1, <1>2, <1>3, <1>4, <1>5, <1>6, <1>7, <1>8, <1>9, <1>10, <1>11,
     <1>12, <1>13, <1>14, <1>15, <1>16, <1>17, <1>18, <1>19, <1>20
  DEF Next, Registration, Goroutine, GetStep, StoreStep, WatchStep

(* No step leaves a resolver behind without a notification on its way.     *)
LEMMA WakeupStep ==
  TypeOK /\ OwnService /\ NoLostWakeup /\ [Next]_vars => NoLostWakeup'
<1> SUFFICES ASSUME TypeOK /\ OwnService /\ NoLostWakeup, [Next]_vars
             PROVE  NoLostWakeup'
  OBVIOUS
<1> USE ResolversAssumption
    DEF TypeOK, OwnService, NoLostWakeup, Pending, AboutToNotify
<1>1. ASSUME NEW n \in Names, Put(n) PROVE NoLostWakeup'
  BY <1>1 DEF Put, server, client
<1>2. ASSUME NEW n \in Names, Delete(n) PROVE NoLostWakeup'
  BY <1>2 DEF Delete, server, client
<1>3. ASSUME NEW n \in Names, Renew(n) PROVE NoLostWakeup'
  BY <1>3 DEF Renew, server, client
<1>4. ASSUME NEW r \in Resolvers, Discover(r) PROVE NoLostWakeup'
  BY <1>4 DEF Discover, watcher
<1>5. ASSUME NEW r \in Resolvers, StartWatch(r) PROVE NoLostWakeup'
  BY <1>5 DEF StartWatch
<1>6. ASSUME NEW r \in Resolvers, Receive(r) PROVE NoLostWakeup'
  BY <1>6 DEF Receive, server, watcher
<1>7. ASSUME NEW r \in Resolvers, Fetch(r) PROVE NoLostWakeup'
  <2> SUFFICES ASSUME NEW s \in Services, NEW q \in (resolver[s] \cap told)',
                      q \notin Pending(s)'
               PROVE  known'[q] = ins'[s]
    OBVIOUS
  <2>1. UNCHANGED <<ins, resolver, event, wpc, todo>> /\ q \in Resolvers /\ SnOf[q] = s
    BY <1>7 DEF Fetch, server, watcher
  <2>2. CASE q = r
    BY <1>7, <2>1, <2>2 DEF Fetch
  <2>3. CASE q # r
    <3>1. q \in (resolver[s] \cap told) \ Pending(s) /\ known'[q] = known[q]
      BY <1>7, <2>1, <2>3 DEF Fetch
    <3> QED
      BY <2>1, <3>1
  <2> QED
    BY <2>2, <2>3
<1>8. ASSUME NEW r \in Resolvers, CloseResolver(r) PROVE NoLostWakeup'
  <2> SUFFICES ASSUME NEW s \in Services, NEW q \in (resolver[s] \cap told)',
                      q \notin Pending(s)'
               PROVE  known'[q] = ins'[s]
    OBVIOUS
  <2>1. UNCHANGED <<ins, event, known, told, wpc, todo>> /\ q \in resolver[s] /\ q # r
    BY <1>8 DEF CloseResolver, watcher
  <2>2. q \in Resolvers /\ q \in told /\ rpc'[q] = rpc[q]
    BY <1>8, <2>1 DEF CloseResolver
  <2>3. AboutToNotify(q)' <=> AboutToNotify(q)
    BY <2>1
  <2>4. q \in (resolver[s] \cap told) \ Pending(s)
    <3>1. q \in resolver'[s]
      OBVIOUS
    <3>2. ~(event'[q] \/ rpc'[q] = "woken" \/ AboutToNotify(q)')
      BY <3>1, Zenon
    <3>3. q \notin Pending(s)
      BY <2>1, <2>2, <2>3, <3>2
    <3> QED
      BY <2>1, <2>2, <3>3
  <2>5. known[q] = ins[s]
    BY <2>4
  <2> QED
    BY <2>1, <2>5
<1>9. ASSUME NEW w \in Resolvers, GetFails(w) PROVE NoLostWakeup'
  <2>1. UNCHANGED <<resolver, ins, event, rpc, known, told, todo>>
    BY <1>9 DEF GetFails, server, client
  <2>2. \A q \in Resolvers : AboutToNotify(q)' <=> AboutToNotify(q)
    BY <1>9 DEF GetFails, AfterGetstore
  <2> QED
    BY <2>1, <2>2
<1>10. ASSUME NEW w \in Resolvers, GetSkips(w) PROVE NoLostWakeup'
  <2>1. UNCHANGED <<resolver, ins, event, rpc, known, told, todo>>
    BY <1>10 DEF GetSkips, server, client
  <2>2. \A q \in Resolvers : AboutToNotify(q)' <=> AboutToNotify(q)
    BY <1>10 DEF GetSkips, AfterGetstore
  <2> QED
    BY <2>1, <2>2
<1>11. ASSUME NEW w \in Resolvers, GetOk(w) PROVE NoLostWakeup'
  BY <1>11 DEF GetOk, server, client
<1>12. ASSUME NEW w \in Resolvers, StoreIns(w) PROVE NoLostWakeup'
  BY <1>12 DEF StoreIns, client
<1>13. ASSUME NEW w \in Resolvers, RLock(w) PROVE NoLostWakeup'
  BY <1>13 DEF RLock, server, client
<1>14. ASSUME NEW w \in Resolvers, NEW r \in Resolvers, Send(w, r) PROVE NoLostWakeup'
  BY <1>14 DEF Send, server
<1>15. ASSUME NEW w \in Resolvers, RUnlock(w) PROVE NoLostWakeup'
  BY <1>15 DEF RUnlock, AfterGetstore, server, client
<1>16. ASSUME NEW w \in Resolvers, OpenWatch(w) PROVE NoLostWakeup'
  BY <1>16 DEF OpenWatch, server, client
<1>17. ASSUME NEW w \in Resolvers, TakeWatchEvent(w) PROVE NoLostWakeup'
  BY <1>17 DEF TakeWatchEvent, server, client
<1>18. ASSUME NEW w \in Resolvers, WatchEnds(w) PROVE NoLostWakeup'
  BY <1>18 DEF WatchEnds, server, client
<1>19. CASE Close
  BY <1>19 DEF Close, server, client, watcher
<1>20. CASE UNCHANGED vars
  BY <1>20 DEF vars, server, client, watcher
<1> QED
  BY <1>1, <1>2, <1>3, <1>4, <1>5, <1>6, <1>7, <1>8, <1>9, <1>10, <1>11,
     <1>12, <1>13, <1>14, <1>15, <1>16, <1>17, <1>18, <1>19, <1>20
  DEF Next, Registration, Goroutine, GetStep, StoreStep, WatchStep

(* Before the first Discovery nothing is set.                              *)
LEMMA InitTyped == Init => TypeOK
<1> SUFFICES ASSUME Init PROVE TypeOK
  OBVIOUS
<1>1. NoIns \in Ins
  BY DEF Ins
<1>2. /\ ins \in [Services -> Ins]
      /\ resp \in [Resolvers -> Ins] /\ known \in [Resolvers -> Ins]
  BY <1>1 DEF Init
<1> QED
  BY <1>2 DEF Init, TypeOK

(* Type correctness, as an invariant of every behaviour.                   *)
THEOREM TypeCorrect == Spec => []TypeOK
<1>1. Init => TypeOK
  BY InitTyped
<1> QED
  BY <1>1, TypeStep, PTL DEF Spec

(* The inductive invariant. *)
THEOREM Invariance == Spec => []IInv
<1>1. Init => IInv
  BY InitTyped, ResolversAssumption
  DEF Init, IInv, OwnService, OneGoroutine, DataBehind, NotifiedHasData,
      FetchOk, FreshAnswers, NoLostWakeup
<1>2. IInv /\ [Next]_vars => IInv'
  BY TypeStep, OwnServiceStep, OneGoroutineStep, DataBehindStep,
     FreshAnswersStep, WakeupStep DEF IInv
<1> QED
  BY <1>1, <1>2, PTL DEF Spec

(* NotifiedHasData holds of every behaviour: whoever is woken fetches data. *)
THEOREM DataWhenNotified == Spec => []NotifiedHasData
BY Invariance, PTL DEF IInv, DataBehind

(* NoLostWakeup holds of every behaviour, for any number of resolvers that *)
(* come and go.                                                            *)
THEOREM NoWakeupLost == Spec => []NoLostWakeup
BY Invariance, PTL DEF IInv

-----------------------------------------------------------------------------
(* StoredNeverGoesBack: only StoreIns changes ins, and what it stores is   *)
(* not older than what was there.                                          *)
THEOREM StoredMonotonic == Spec => StoredNeverGoesBack
<1> DEFINE NotBack == \A s \in Services :
             ins[s] # NoIns => ins'[s] # NoIns /\ ins'[s].at >= ins[s].at
<1>1. ASSUME IInv, UNCHANGED ins PROVE NotBack
  <2>1. \A s \in Services : ins[s] # NoIns => ins[s].at \in Nat
    BY <1>1 DEF IInv, TypeOK, Ins, Snapshot
  <2> QED
    BY <1>1, <2>1
<1>2. ASSUME IInv, NEW w \in Resolvers, StoreIns(w) PROVE NotBack
  <2>1. \A s \in Services : ins[s] # NoIns => ins[s].at \in Nat
    BY <1>2 DEF IInv, TypeOK, Ins, Snapshot
  <2>2. SnOf[w] \in Services
    BY ResolversAssumption
  <2> QED
    BY <1>2, <2>1, <2>2
    DEF IInv, TypeOK, DataBehind, FreshAnswers, FetchOk, StoreIns
<1>3. IInv /\ [Next]_vars => NotBack \/ UNCHANGED vars
  <2> SUFFICES ASSUME IInv, Next PROVE NotBack
    OBVIOUS
  <2>1. (\E w \in Resolvers : StoreIns(w)) \/ UNCHANGED ins
    BY DEF Next, Registration, Goroutine, GetStep, StoreStep, WatchStep, Put,
       Delete, Renew, Discover, StartWatch, Receive, Fetch, CloseResolver,
       GetFails, GetSkips, GetOk, RLock, Send, RUnlock, OpenWatch,
       TakeWatchEvent, WatchEnds, Close, server
  <2> QED
    BY <1>1, <1>2, <2>1
<1> QED
  BY <1>3, Invariance, PTL DEF Spec, StoredNeverGoesBack

(* NoTokenAfterClose: only Send puts a token into a channel, and it works  *)
(* on resolvers that cannot be closed meanwhile.                           *)
THEOREM ClosedStaysSilent == Spec => NoTokenAfterClose
<1> DEFINE Silent == \A r \in Resolvers : rpc[r] = "closed" /\ event'[r] => event[r]
<1>1. ASSUME IInv, NEW w \in Resolvers, NEW q \in Resolvers, Send(w, q)
      PROVE  Silent
  <2>1. rpc[q] # "closed"
    BY <1>1, ResolversAssumption DEF IInv, OwnService, Send
  <2> QED
    BY <1>1, <2>1 DEF IInv, TypeOK, Send
<1>2. ASSUME IInv, NEW q \in Resolvers, Receive(q) PROVE Silent
  BY <1>2 DEF IInv, TypeOK, Receive
<1>3. ASSUME UNCHANGED event PROVE Silent
  BY <1>3
<1>4. IInv /\ [Next]_vars => Silent \/ UNCHANGED vars
  <2> SUFFICES ASSUME IInv, Next PROVE Silent
    OBVIOUS
  <2>1. \/ \E w \in Resolvers : \E q \in Resolvers : Send(w, q)
        \/ \E q \in Resolvers : Receive(q)
        \/ UNCHANGED event
    BY DEF Next, Registration, Goroutine, GetStep, StoreStep, WatchStep, Put,
       Delete, Renew, Discover, StartWatch, Fetch, CloseResolver, GetFails,
       GetSkips, GetOk, StoreIns, RLock, RUnlock, OpenWatch, TakeWatchEvent,
       WatchEnds, Close, client
  <2> QED
    BY <1>1, <1>2, <1>3, <2>1
<1> QED
  BY <1>4, Invariance, PTL DEF Spec, NoTokenAfterClose

-----------------------------------------------------------------------------
(* Refinement of NotifyCell.                                               *)

(* What the cell of one service may do in one step.                        *)
CellStep(s) == Cell(s)!Next \/ UNCHANGED Cell(s)!vars

(* Steps that leave the cell's view of a service alone.                    *)
LEMMA CellStutter ==
  ASSUME NEW s \in Services, UNCHANGED <<ins, resolver, known, told>>,
         Pending(s)' = Pending(s)
  PROVE  CellStep(s)
BY DEF CellStep, Cell!vars

(* Discovery implements NotifyCell, one cell for every service: storing an *)
(* answer publishes, Discovery joins, Resolve.Close leaves, Fetch reads,   *)
(* and every other step leaves the cell as it is.                          *)
THEOREM Refinement == Spec => ImplementsCell
<1> USE ResolversAssumption
<1>1. ASSUME Init PROVE \A s \in Services : Cell(s)!Init
  <2>1. \A s \in Services : ins[s] = NoIns /\ resolver[s] = {} /\ Pending(s) = {}
    BY <1>1 DEF Init, Pending
  <2> QED
    BY <1>1, <2>1 DEF Init, Cell!Init, Ins
<1>2. ASSUME IInv, Next, NEW s \in Services PROVE CellStep(s)
  <2> USE <1>2 DEF IInv, TypeOK, OwnService
  <2>1. CASE Registration
    <3>1. UNCHANGED <<resolver, ins, event, rpc, known, told, wpc, todo>>
      BY <2>1 DEF Registration, Put, Delete, Renew, server, client
    <3> QED
      BY <3>1, CellStutter DEF Pending, AboutToNotify
  <2>2. ASSUME NEW r \in Resolvers, Discover(r) PROVE CellStep(s)
    <3> USE <2>2 DEF Discover, watcher
    <3>1. \A q \in Resolvers : AboutToNotify(q)' <=> AboutToNotify(q)
      BY DEF AboutToNotify
    <3>2. CASE SnOf[r] = s
      <4>1. r \notin resolver[s] /\ resolver'[s] = resolver[s] \cup {r}
        BY <3>2
      <4>2. Pending(s)' \in {Pending(s), Pending(s) \cup {r}}
        BY <3>1, <4>1 DEF Pending
      <4>3. (told \cap resolver[s])' = told \cap resolver[s]
        BY <4>1
      <4>5. /\ ins'[s] = ins[s]
            /\ [x \in {q \in Resolvers : SnOf[q] = s} |-> known[x]]' =
               [x \in {q \in Resolvers : SnOf[q] = s} |-> known[x]]
        OBVIOUS
      <4>4. Cell(s)!Join(r)
        BY <4>1, <4>2, <4>3, <4>5 DEF Cell!Join
      <4> QED
        BY <3>2, <4>4 DEF CellStep, Cell!Next
    <3>3. CASE SnOf[r] # s
      <4>1. resolver'[s] = resolver[s] /\ Pending(s)' = Pending(s)
        BY <3>1, <3>3 DEF Pending
      <4> QED
        BY <4>1 DEF CellStep, Cell!vars
    <3> QED
      BY <3>2, <3>3
  <2>3. ASSUME NEW r \in Resolvers, StartWatch(r) PROVE CellStep(s)
    <3>1. \A q \in Resolvers : AboutToNotify(q)' <=> AboutToNotify(q)
      BY <2>3 DEF StartWatch, AboutToNotify
    <3>2. Pending(s)' = Pending(s)
      BY <2>3, <3>1 DEF StartWatch, Pending
    <3> QED
      BY <2>3, <3>2, CellStutter DEF StartWatch
  <2>4. ASSUME NEW r \in Resolvers, Receive(r) PROVE CellStep(s)
    <3>1. \A q \in Resolvers : AboutToNotify(q)' <=> AboutToNotify(q)
      BY <2>4 DEF Receive, watcher, AboutToNotify
    <3>2. Pending(s)' = Pending(s)
      BY <2>4, <3>1 DEF Receive, server, Pending
    <3> QED
      BY <2>4, <3>2, CellStutter DEF Receive, server
  <2>5. ASSUME NEW r \in Resolvers, Fetch(r) PROVE CellStep(s)
    <3> USE <2>5 DEF Fetch, server, watcher
    <3>1. \A q \in Resolvers : AboutToNotify(q)' <=> AboutToNotify(q)
      BY DEF AboutToNotify
    <3>2. CASE SnOf[r] = s
      <4>1. r \in Pending(s)
        BY <3>2 DEF Pending
      <4>2. Pending(s)' \in {Pending(s), Pending(s) \ {r}}
        BY <3>1, <4>1 DEF Pending
      <4>3. (told \cap resolver[s])' = (told \cap resolver[s]) \cup {r}
        BY <4>1 DEF Pending
      <4>4. Cell(s)!Read(r)
        BY <3>2, <4>1, <4>2, <4>3 DEF Cell!Read
      <4> QED
        BY <3>2, <4>4 DEF CellStep, Cell!Next
    <3>3. CASE SnOf[r] # s
      <4>1. Pending(s)' = Pending(s)
        BY <3>1, <3>3 DEF Pending
      <4>2. \A q \in Resolvers : SnOf[q] = s => known'[q] = known[q]
        BY <3>3
      <4>3. (told \cap resolver[s])' = told \cap resolver[s]
        BY <3>3
      <4> QED
        BY <4>1, <4>2, <4>3 DEF CellStep, Cell!vars
    <3> QED
      BY <3>2, <3>3
  <2>6. ASSUME NEW r \in Resolvers, CloseResolver(r) PROVE CellStep(s)
    <3> USE <2>6 DEF CloseResolver, watcher
    <3>1. \A q \in Resolvers : AboutToNotify(q)' <=> AboutToNotify(q)
      BY DEF AboutToNotify
    <3>2. CASE SnOf[r] = s
      <4>1. r \in resolver[s] /\ resolver'[s] = resolver[s] \ {r}
        BY <3>2
      <4>2. Pending(s)' = Pending(s) \ {r}
        BY <3>1, <4>1 DEF Pending
      <4>3. Cell(s)!Leave(r)
        BY <4>1, <4>2 DEF Cell!Leave
      <4> QED
        BY <3>2, <4>3 DEF CellStep, Cell!Next
    <3>3. CASE SnOf[r] # s
      <4>1. resolver'[s] = resolver[s] /\ Pending(s)' = Pending(s)
        BY <3>1, <3>3 DEF Pending
      <4> QED
        BY <4>1 DEF CellStep, Cell!vars
    <3> QED
      BY <3>2, <3>3
  <2>7. ASSUME NEW w \in Resolvers, GetStep(w) \/ WatchStep(w) PROVE CellStep(s)
    <3>1. UNCHANGED <<resolver, ins, event, rpc, known, told, todo>>
      BY <2>7 DEF GetStep, WatchStep, GetFails, GetSkips, GetOk, OpenWatch,
         TakeWatchEvent, WatchEnds, server, client
    <3>2. \A v \in Resolvers : /\ wpc'[v] = "lock" <=> wpc[v] = "lock"
                               /\ wpc'[v] = "notify" <=> wpc[v] = "notify"
      BY <2>7 DEF GetStep, WatchStep, GetFails, GetSkips, GetOk, OpenWatch,
         TakeWatchEvent, WatchEnds, AfterGetstore
    <3>3. Pending(s)' = Pending(s)
      BY <3>1, <3>2 DEF Pending, AboutToNotify
    <3> QED
      BY <3>1, <3>3, CellStutter
  <2>8. ASSUME NEW w \in Resolvers, StoreIns(w) PROVE CellStep(s)
    <3> USE <2>8 DEF StoreIns, client
    <3>1. CASE SnOf[w] = s
      <4>1. Pending(s)' = resolver'[s]
        BY <3>1 DEF Pending, AboutToNotify
      <4>2. Cell(s)!Publish
        BY <3>1, <4>1 DEF Cell!Publish
      <4> QED
        BY <4>2 DEF CellStep, Cell!Next
    <3>2. CASE SnOf[w] # s
      <4>1. \A q \in Resolvers : SnOf[q] = s => (AboutToNotify(q)' <=> AboutToNotify(q))
        BY <3>2 DEF AboutToNotify
      <4>2. Pending(s)' = Pending(s)
        BY <4>1 DEF Pending
      <4>3. (told \cap resolver[s])' = told \cap resolver[s]
        BY <3>2
      <4> QED
        BY <3>2, <4>2, <4>3 DEF CellStep, Cell!vars
    <3> QED
      BY <3>1, <3>2
  <2>9. ASSUME NEW w \in Resolvers, RLock(w) PROVE CellStep(s)
    <3>1. \A q \in resolver[s] : AboutToNotify(q)' <=> AboutToNotify(q)
      BY <2>9 DEF RLock, AboutToNotify
    <3>2. Pending(s)' = Pending(s)
      BY <2>9, <3>1 DEF RLock, server, client, Pending
    <3> QED
      BY <2>9, <3>2, CellStutter DEF RLock, server, client
  <2>10. ASSUME NEW w \in Resolvers, NEW r \in Resolvers, Send(w, r) PROVE CellStep(s)
    <3>1. \A q \in Resolvers \ {r} : AboutToNotify(q)' <=> AboutToNotify(q)
      BY <2>10 DEF Send, AboutToNotify
    <3>2. AboutToNotify(r)
      BY <2>10 DEF Send, AboutToNotify
    <3>3. Pending(s)' = Pending(s)
      BY <2>10, <3>1, <3>2 DEF Send, server, Pending
    <3> QED
      BY <2>10, <3>3, CellStutter DEF Send, server
  <2>11. ASSUME NEW w \in Resolvers, RUnlock(w) PROVE CellStep(s)
    <3>1. \A q \in Resolvers : AboutToNotify(q)' <=> AboutToNotify(q)
      BY <2>11 DEF RUnlock, AfterGetstore, AboutToNotify
    <3>2. Pending(s)' = Pending(s)
      BY <2>11, <3>1 DEF RUnlock, server, client, Pending
    <3> QED
      BY <2>11, <3>2, CellStutter DEF RUnlock, server, client
  <2>12. CASE Close
    BY <2>12, CellStutter
    DEF Close, server, client, watcher, Pending, AboutToNotify
  <2> QED
    BY <2>1, <2>2, <2>3, <2>4, <2>5, <2>6, <2>7, <2>8, <2>9, <2>10, <2>11, <2>12
    DEF Next, Goroutine, StoreStep
<1>3. IInv /\ [Next]_vars =>
        (\A s \in Services : Cell(s)!Next \/ UNCHANGED Cell(s)!vars) \/ UNCHANGED vars
  BY <1>2 DEF CellStep
<1> QED
  BY <1>1, <1>3, Invariance, PTL DEF Spec, ImplementsCell

-----------------------------------------------------------------------------
(* After EtcdBuilder.Close.                                                *)

(* What a goroutine still does: one Get for every event that was queued    *)
(* before, each done in at most 6 steps and the turns of its loop.         *)
Phase(p) ==
  CASE p \in {"off", "get"} -> 6 [] p = "store" -> 5 [] p = "lock" -> 4
    [] p = "notify" -> 3 [] p = "open" -> 2 [] p = "idle" -> 1 [] p = "dead" -> 0

Remaining(w) == 6 * evq[w] + Phase(wpc[w])

Closer(w) ==
  \/ Remaining(w)' < Remaining(w)
  \/ Remaining(w)' = Remaining(w) /\ todo'[w] \subseteq todo[w] /\ todo'[w] # todo[w]

LEMMA PhaseIs ==
  /\ Phase("get") = 6 /\ Phase("store") = 5 /\ Phase("lock") = 4 /\ Phase("notify") = 3
  /\ Phase("open") = 2 /\ Phase("idle") = 1 /\ Phase("dead") = 0
BY DEF Phase

(* A step to a later place of the same turn.                               *)
LEMMA LaterPlace ==
  ASSUME NEW w \in Resolvers, evq[w] \in Nat, evq'[w] = evq[w],
         Phase(wpc[w]) \in Nat, Phase(wpc'[w]) \in Nat, Phase(wpc'[w]) < Phase(wpc[w])
  PROVE  Closer(w)
BY DEF Closer, Remaining

LEMMA GoroutineCloser ==
  ASSUME TypeOK, closed, NEW w \in Resolvers, Goroutine(w)
  PROVE  Closer(w)
<1>0. /\ evq[w] \in Nat
      /\ wpc \in [Resolvers -> {"off", "get", "store", "lock", "notify",
                               "open", "idle", "dead"}]
  BY DEF TypeOK
<1>1. CASE GetFails(w) \/ RUnlock(w)
  <2>1. /\ wpc[w] \in {"get", "notify"}
        /\ wpc'[w] \in {"open", "idle"}
        /\ evq'[w] = evq[w]
    BY <1>0, <1>1 DEF GetFails, RUnlock, AfterGetstore
  <2> QED
    BY <1>0, <2>1, PhaseIs, LaterPlace
<1>2. CASE StoreIns(w)
  <2>1. wpc[w] = "store" /\ wpc'[w] = "lock" /\ evq'[w] = evq[w]
    BY <1>0, <1>2 DEF StoreIns
  <2> QED
    BY <1>0, <2>1, PhaseIs, LaterPlace
<1>3. CASE RLock(w)
  <2>1. wpc[w] = "lock" /\ wpc'[w] = "notify" /\ evq'[w] = evq[w]
    BY <1>0, <1>3 DEF RLock
  <2> QED
    BY <1>0, <2>1, PhaseIs, LaterPlace
<1>4. ASSUME NEW r \in Resolvers, Send(w, r) PROVE Closer(w)
  BY <1>0, <1>4, PhaseIs DEF TypeOK, Send, Closer, Remaining
<1>5. CASE OpenWatch(w) \/ WatchEnds(w)
  <2>1. wpc[w] \in {"open", "idle"} /\ wpc'[w] = "dead" /\ evq'[w] = evq[w]
    BY <1>0, <1>5 DEF OpenWatch, WatchEnds
  <2> QED
    BY <1>0, <2>1, PhaseIs, LaterPlace
<1>6. CASE TakeWatchEvent(w)
  <2>1. evq'[w] = evq[w] - 1 /\ wpc[w] = "idle" /\ wpc'[w] = "get"
    BY <1>0, <1>6 DEF TypeOK, TakeWatchEvent
  <2> QED
    BY <1>0, <2>1, PhaseIs DEF Closer, Remaining
<1>7. ~GetSkips(w) /\ ~GetOk(w)
  BY DEF GetSkips, GetOk
<1> QED
  BY <1>1, <1>2, <1>3, <1>4, <1>5, <1>6, <1>7
  DEF Goroutine, GetStep, StoreStep, WatchStep

(* The safety half of WatchersStop: once EtcdBuilder.Close cancelled the   *)
(* context, a goroutine has so much left to do and not more - no event is  *)
(* queued for it, no Get succeeds, and each of its steps takes one off.    *)
THEOREM GoroutinesRunOut ==
  Spec => [][closed => \A w \in Resolvers : wpc[w] # "off" =>
               /\ Closer(w) \/ UNCHANGED <<wpc[w], evq[w], todo[w]>>
               /\ Goroutine(w) => Closer(w)]_vars
<1> DEFINE RunsOut == closed => \A w \in Resolvers : wpc[w] # "off" =>
                        /\ Closer(w) \/ UNCHANGED <<wpc[w], evq[w], todo[w]>>
                        /\ Goroutine(w) => Closer(w)
<1>1. IInv /\ Next => RunsOut
  <2> SUFFICES ASSUME IInv, Next, closed, NEW w \in Resolvers, wpc[w] # "off",
                      ~Goroutine(w)
               PROVE  UNCHANGED <<wpc[w], evq[w], todo[w]>>
    BY GoroutineCloser DEF IInv
  <2> USE DEF IInv, TypeOK
  <2>1. CASE Registration
    BY <2>1 DEF Registration, Put, Delete, Renew, Announce, Watching
  <2>2. ASSUME NEW r \in Resolvers,
               Discover(r) \/ Receive(r) \/ Fetch(r) \/ CloseResolver(r)
        PROVE  UNCHANGED <<wpc[w], evq[w], todo[w]>>
    BY <2>2 DEF Discover, Receive, Fetch, CloseResolver, watcher
  <2>3. ASSUME NEW r \in Resolvers, StartWatch(r)
        PROVE  UNCHANGED <<wpc[w], evq[w], todo[w]>>
    BY <2>3 DEF StartWatch, OwnService
  <2>4. ASSUME NEW v \in Resolvers, v # w, Goroutine(v)
        PROVE  UNCHANGED <<wpc[w], evq[w], todo[w]>>
    BY <2>4 DEF Goroutine, GetStep, StoreStep, WatchStep, GetFails, GetSkips, GetOk,
           StoreIns,
       RLock, Send, RUnlock, OpenWatch, TakeWatchEvent, WatchEnds
  <2> QED
    BY <2>1, <2>2, <2>3, <2>4 DEF Next, Close
<1>2. IInv /\ [Next]_vars => [RunsOut]_vars
  BY <1>1
<1> QED
  BY <1>2, Invariance, PTL DEF Spec

-----------------------------------------------------------------------------
(* What a heartbeat repairs.                                               *)

(* The goroutine w has its watch open and what is stored is what etcd has, *)
(* or an event is queued or being worked on that will bring it there.      *)
Covered(w) ==
  LET s == SnOf[w] IN
  /\ Watching(w)
  /\ \/ evq[w] > 0 \/ wpc[w] = "get"
     \/ wpc[w] = "store" /\ resp[w].list = Answer(s).list
     \/ /\ wpc[w] \in {"lock", "notify", "idle"}
        /\ FetchOk(s) /\ ins[s].list = Answer(s).list

(* A change under the prefix of s is queued for its open watches, and one  *)
(* of another name is not in an answer for s.                              *)
LEMMA AnnounceCovers ==
  ASSUME TypeOK, NEW w \in Resolvers, Covered(w), NEW n \in Names,
         Put(n) \/ Delete(n) \/ Renew(n)
  PROVE  Covered(w)'
<1> USE DEF TypeOK
<1>1. Watching(w)' /\ UNCHANGED <<wpc, resp, ins>>
  BY DEF Covered, Watching, Put, Delete, Renew, server, client
<1>2. CASE n \in Under[SnOf[w]]
  <2>1. evq'[w] = evq[w] + 1 /\ evq[w] \in Nat
    BY <1>2 DEF Covered, Put, Delete, Renew, Announce
  <2> QED
    BY <1>1, <2>1 DEF Covered
<1>3. CASE n \notin Under[SnOf[w]]
  <2>1. evq'[w] = evq[w]
    BY <1>3 DEF Put, Delete, Renew, Announce
  <2>2. (Answer(SnOf[w]).list)' = Answer(SnOf[w]).list
    <3>1. \A m \in Names : m # n => kv'[m] = kv[m]
      BY DEF Put, Delete, Renew, etcd
    <3> QED
      BY <1>3, <3>1 DEF Answer
  <2> QED
    BY <1>1, <2>1, <2>2 DEF Covered, FetchOk
<1> QED
  BY <1>2, <1>3

(* The goroutine's own steps.                                              *)
LEMMA GoroutineCovers ==
  ASSUME IInv, NEW w \in Resolvers, Covered(w), Goroutine(w),
         ~GetFails(w), ~GetSkips(w), ~WatchEnds(w)
  PROVE  Covered(w)'
<1> USE ResolversAssumption DEF IInv, TypeOK, Covered, Watching, FetchOk, Answer
<1>1. CASE GetOk(w)
  BY <1>1 DEF GetOk, etcd, server
<1>2. CASE StoreIns(w)
  BY <1>2 DEF StoreIns, etcd, DataBehind
<1>3. CASE RLock(w)
  BY <1>3 DEF RLock, etcd, server
<1>4. ASSUME NEW r \in Resolvers, Send(w, r) PROVE Covered(w)'
  BY <1>4 DEF Send, etcd, server
<1>5. CASE RUnlock(w)
  BY <1>5 DEF RUnlock, AfterGetstore, etcd, server
<1>6. CASE TakeWatchEvent(w)
  BY <1>6 DEF TakeWatchEvent
<1>7. CASE OpenWatch(w)
  BY <1>7 DEF OpenWatch, etcd, server
<1> QED
  BY <1>1, <1>2, <1>3, <1>4, <1>5, <1>6, <1>7 DEF Goroutine, GetStep, StoreStep, WatchStep

(* Everybody else's.                                                       *)
LEMMA OthersCover ==
  ASSUME IInv, NEW w \in Resolvers, Covered(w),
         \/ \E r \in Resolvers : \/ Discover(r) \/ StartWatch(r) \/ Receive(r) \/ Fetch(r)
                                 \/ CloseResolver(r)
         \/ \E v \in Resolvers \ {w} : Goroutine(v)
  PROVE  Covered(w)'
<1> USE ResolversAssumption DEF IInv, TypeOK
<1>0. wpc[w] # "off" \/ evq[w] > 0
  BY DEF Covered
<1>1. /\ UNCHANGED <<closed, kv>> /\ typ'[w] = typ[w] /\ evq'[w] = evq[w]
         /\ resp'[w] = resp[w]
  BY DEF Discover, StartWatch, Receive, Fetch, CloseResolver, Goroutine, GetStep,
         StoreStep,
     WatchStep, GetFails, GetSkips, GetOk, StoreIns, RLock, Send, RUnlock, OpenWatch,
     TakeWatchEvent, WatchEnds, etcd, watcher
<1>2. wpc'[w] = wpc[w] \/ wpc'[w] = "get"
  BY DEF Discover, StartWatch, Receive, Fetch, CloseResolver, Goroutine, GetStep,
         StoreStep,
     WatchStep, GetFails, GetSkips, GetOk, StoreIns, RLock, Send, RUnlock, OpenWatch,
     TakeWatchEvent, WatchEnds, watcher
<1>3. wpc[w] # "off" => ins'[SnOf[w]] = ins[SnOf[w]]
  <2>1. ASSUME NEW v \in Resolvers \ {w}, StoreIns(v), wpc[w] # "off"
        PROVE  ins'[SnOf[w]] = ins[SnOf[w]]
    <3>1. SnOf[v] # SnOf[w]
      BY <2>1 DEF StoreIns, OneGoroutine
    <3> QED
      BY <2>1, <3>1 DEF StoreIns
  <2>2. (\E v \in Resolvers \ {w} : StoreIns(v)) \/ UNCHANGED ins
    BY DEF Discover, StartWatch, Receive, Fetch, CloseResolver, Goroutine, GetStep,
           StoreStep,
       WatchStep, GetFails, GetSkips, GetOk, RLock, Send, RUnlock, OpenWatch,
       TakeWatchEvent, WatchEnds, server
  <2> QED
    BY <2>1, <2>2
<1>4. (Answer(SnOf[w]).list)' = Answer(SnOf[w]).list
  BY <1>1 DEF Answer
<1> QED
  BY <1>0, <1>1, <1>2, <1>3, <1>4 DEF Covered, Watching, FetchOk

(* The safety half of HealedByRenewal: an event taken from the watch - a   *)
(* heartbeat's is enough - covers whatever was missed before, and from     *)
(* then on no change of the registry is missed, until a Get fails or is    *)
(* skipped or the watch ends.                                              *)
THEOREM HealedStaysHealed ==
  Spec => [][\A w \in Resolvers :
               /\ TakeWatchEvent(w) /\ Watching(w) => Covered(w)'
               /\ Covered(w) /\ ~GetFails(w) /\ ~GetSkips(w) /\ ~WatchEnds(w) /\ ~Close
                    => Covered(w)']_vars
<1> DEFINE Heals(w) == /\ TakeWatchEvent(w) /\ Watching(w) => Covered(w)'
                       /\ Covered(w) /\ ~GetFails(w) /\ ~GetSkips(w)
                          /\ ~WatchEnds(w) /\ ~Close
                            => Covered(w)'
<1>1. ASSUME IInv, Next, NEW w \in Resolvers PROVE Heals(w)
  <2>1. TakeWatchEvent(w) /\ Watching(w) => Covered(w)'
    BY <1>1 DEF IInv, TypeOK, TakeWatchEvent, Watching, Covered
  <2>2. ASSUME Covered(w), ~GetFails(w), ~GetSkips(w), ~WatchEnds(w), ~Close
        PROVE  Covered(w)'
    BY <1>1, <2>2, AnnounceCovers, GoroutineCovers, OthersCover DEF IInv, Next,
           Registration
  <2> QED
    BY <2>1, <2>2
<1>2. IInv /\ [Next]_vars => [\A w \in Resolvers : Heals(w)]_vars
  BY <1>1
<1> QED
  BY <1>2, Invariance, PTL DEF Spec
=============================================================================
