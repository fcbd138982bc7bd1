--------------------------- MODULE ServiceProofs ---------------------------
(* Proofs about Service: for any data, any number of other resolvers and   *)
(* of requests.                                                            *)
EXTENDS Service, DiscoveryProofs

(* The steps of the composition, as Discovery sees them.                   *)
LEMMA StepIsDiscovery == [ServiceNext]_all => [Next]_vars
<1> SUFFICES ASSUME [ServiceNext]_all
             PROVE  [Next]_vars
  OBVIOUS
<1> USE LoaderAssumption
<1>1. CASE LoaderReceives
  BY <1>1 DEF LoaderReceives, Next
<1>2. CASE LoaderLoads
  BY <1>2 DEF LoaderLoads, Next
<1>3. CASE LoaderStores \/ RequestStep
  BY <1>3 DEF LoaderStores, RequestStep
<1>4. CASE NamingStep
  BY <1>4 DEF NamingStep, Next
<1>5. CASE UNCHANGED all
  BY <1>5 DEF all
<1> QED  BY <1>1, <1>2, <1>3, <1>4, <1>5 DEF ServiceNext, LoaderStep

(* What is proved about Discovery holds in the composition.                *)
THEOREM IsDiscovery == ServiceSpec => Spec
<1>1. ServiceInit => Init
  BY DEF ServiceInit
<1> QED  BY <1>1, StepIsDiscovery, PTL DEF ServiceSpec, Spec

-----------------------------------------------------------------------------
(* The numbers that etcd hands out are those of the changes so far.        *)
Numbered(i) == i # NoIns => \A n \in Names : i.list[n] \in 0..MaxRev

NumbersInv ==
  /\ rev \in 0..MaxRev
  /\ \A n \in Names : kv[n] \in 0..MaxRev
  /\ \A w \in Resolvers : Numbered(resp[w])
  /\ \A s \in Services : Numbered(ins[s])

LEMMA NumbersStay ==
  ASSUME TypeOK, NumbersInv, [Next]_vars
  PROVE  NumbersInv'
<1> USE BoundsAssumption
<1>1. ASSUME NEW n \in Names, Put(n) \/ Delete(n) \/ Renew(n) PROVE NumbersInv'
  BY <1>1 DEF TypeOK, NumbersInv, Put, Delete, Renew, Numbered, etcd, server
<1>2. ASSUME NEW w \in Resolvers, GetOk(w) PROVE NumbersInv'
  <2>1. Numbered(Answer(SnOf[w]))
    BY DEF NumbersInv, Numbered, Answer
  <2> QED  BY <1>2, <2>1 DEF TypeOK, NumbersInv, GetOk, Numbered, etcd, server
<1>3. ASSUME NEW w \in Resolvers, StoreIns(w) PROVE NumbersInv'
  BY <1>3 DEF TypeOK, NumbersInv, StoreIns, Numbered, etcd
<1>4. ASSUME UNCHANGED <<rev, kv, resp, ins>> PROVE NumbersInv'
  BY <1>4 DEF NumbersInv, Numbered
<1> QED
  BY <1>1, <1>2, <1>3, <1>4
  DEF Next, Registration, Goroutine, GetStep, StoreStep, WatchStep, Discover, StartWatch,
      Receive, Fetch, CloseResolver, GetFails, GetSkips, RLock, Send, RUnlock, OpenWatch,
      TakeWatchEvent, WatchEnds, Close, vars, etcd, server, watcher

(* An answer is one of etcd at a revision: two of the same revision agree. *)
Answers(s) ==
  ({ins[s]} \cup {resp[w] : w \in {v \in Resolvers : SnOf[v] = s}}) \ {NoIns}

AnswersAgree ==
  \A s \in Services : \A x \in Answers(s) :
    /\ x.at \in Nat /\ x.at <= rev
    /\ x.at = rev => x.list = Answer(s).list
    /\ \A y \in Answers(s) : x.at = y.at => x.list = y.list

LEMMA AnswersStay ==
  ASSUME TypeOK, AnswersAgree, [Next]_vars
  PROVE  AnswersAgree'
<1> USE ResolversAssumption
<1>0. rev \in Nat
  BY DEF TypeOK
<1>1. ASSUME NEW n \in Names, Put(n) \/ Delete(n) PROVE AnswersAgree'
  <2>1. rev' = rev + 1 /\ \A s \in Services : Answers(s)' = Answers(s)
    BY <1>1 DEF Put, Delete, server, Answers
  <2>2. ASSUME NEW s \in Services, NEW x \in Answers(s)'
        PROVE  /\ x.at \in Nat /\ x.at < rev'
               /\ \A y \in Answers(s)' : x.at = y.at => x.list = y.list
    <3>1. x \in Answers(s) /\ Answers(s)' = Answers(s)
      BY <2>1, <2>2
    <3> HIDE DEF Answers
    <3> QED  BY <1>0, <2>1, <3>1 DEF AnswersAgree
  <2> QED  BY <1>0, <2>1, <2>2 DEF AnswersAgree
<1>2. ASSUME UNCHANGED <<rev, kv>>,
             \A s \in Services : Answers(s)' \subseteq Answers(s) \cup {Answer(s)}
      PROVE  AnswersAgree'
  <2>1. ASSUME NEW s \in Services
        PROVE  \A x \in Answers(s) \cup {Answer(s)} :
                 /\ x.at \in Nat /\ x.at <= rev
                 /\ x.at = rev => x.list = Answer(s).list
    <3>1. Answer(s).at = rev
      BY DEF Answer
    <3> QED  BY <1>0, <3>1 DEF AnswersAgree
  <2>2. ASSUME NEW s \in Services
        PROVE  \A x, y \in Answers(s) \cup {Answer(s)} : x.at = y.at => x.list = y.list
    <3>1. Answer(s).at = rev
      BY DEF Answer
    <3> QED  BY <2>1, <3>1 DEF AnswersAgree
  <2>3. \A s \in Services : Answer(s)' = Answer(s)
    BY <1>2 DEF Answer
  <2> QED  BY <1>2, <2>1, <2>2, <2>3 DEF AnswersAgree
<1>3. ASSUME NEW w \in Resolvers, GetOk(w) PROVE AnswersAgree'
  <2>1. \A s \in Services : Answers(s)' \subseteq Answers(s) \cup {Answer(s)}
    BY <1>3 DEF TypeOK, GetOk, server, Answers
  <2> QED  BY <1>2, <1>3, <2>1 DEF GetOk, etcd
<1>4. ASSUME NEW w \in Resolvers, StoreIns(w) PROVE AnswersAgree'
  <2>1. \A s \in Services : Answers(s)' \subseteq Answers(s)
    BY <1>4 DEF TypeOK, StoreIns, Answers
  <2> QED  BY <1>2, <1>4, <2>1 DEF StoreIns, etcd
<1>5. ASSUME UNCHANGED <<rev, kv, resp, ins>> PROVE AnswersAgree'
  BY <1>2, <1>5 DEF Answers
<1> QED
  BY <1>1, <1>3, <1>4, <1>5
  DEF Next, Registration, Renew, Goroutine, GetStep, StoreStep, WatchStep, Discover,
      StartWatch, Receive, Fetch, CloseResolver, GetFails, GetSkips, RLock, Send, RUnlock,
      OpenWatch, TakeWatchEvent, WatchEnds, Close, vars, etcd, server, watcher

LEMMA SnFacts ==
  Loader \in Resolvers /\ sn \in Services /\ SnOf[Loader] = sn
BY LoaderAssumption, ResolversAssumption DEF sn

LEMMA NoticeIs == IInv => (Loader \in Pending(sn) <=> Notice \/ rpc[Loader] = "woken")
BY SnFacts DEF IInv, OwnService, Pending, Notice

-----------------------------------------------------------------------------
(* The loader is not woken while it stores; it is owed only what is there; *)
(* and naming has had no more configurations than etcd had changes.        *)
LoaderInv ==
  /\ apc \in {"wait", "master", "slave"}
  /\ rpc[Loader] # "closed"
  /\ apc # "wait" => rpc[Loader] = "wait"
  /\ Loader \in told => FetchOk(sn)
  /\ cfg.content = Content(ins[sn])
  /\ cfg.num \in Nat
  /\ cfg.num <= IF ins[sn] = NoIns THEN 1 ELSE ins[sn].at + 2

(* What Pool sees of a step of Discovery that is not one of the loader's   *)
(* own, nor stores an answer for its service: nothing.                     *)
Unseen ==
  /\ Notice' = Notice /\ Place' = Place
  /\ (rpc'[Loader] # "new") = (rpc[Loader] # "new")
  /\ (Loader \in told \cup Pending(sn))' = (Loader \in told \cup Pending(sn))
  /\ rpc'[Loader] = rpc[Loader] \/ (rpc[Loader] = "adding" /\ rpc'[Loader] = "wait")
  /\ Loader \in told' <=> Loader \in told
  /\ ins'[sn] = ins[sn]

(* A step that leaves the loader, and what comes to it, alone.             *)
LEMMA UnseenIf ==
  ASSUME IInv, IInv', Notice' <=> Notice, UNCHANGED apc,
         \/ rpc'[Loader] = rpc[Loader]
         \/ rpc[Loader] = "adding" /\ rpc'[Loader] = "wait",
         Loader \in told' <=> Loader \in told,
         ins'[sn] = ins[sn]
  PROVE  Unseen
<1>1. Place' = Place
  BY DEF Place
<1>2. Notice' = Notice
  BY DEF Notice
<1>3. (Loader \in told')  = (Loader \in told)
  OBVIOUS
<1>4. (Loader \in told \cup Pending(sn))' <=> (Loader \in told \cup Pending(sn))
  <2>1. (Loader \in Pending(sn))' <=> Notice' \/ rpc'[Loader] = "woken"
    BY NoticeIs, SnFacts DEF sn, IInv, OwnService, Pending, Notice
  <2>2. Loader \in Pending(sn) <=> Notice \/ rpc[Loader] = "woken"
    BY NoticeIs
  <2>3. (Loader \in told \cup Pending(sn))' <=> Loader \in told' \/ (Loader \in Pending(sn))'
    OBVIOUS
  <2> QED  BY <2>1, <2>2, <2>3
<1>5. (rpc'[Loader] # "new") = (rpc[Loader] # "new")
  OBVIOUS
<1> QED  BY <1>1, <1>2, <1>4, <1>5 DEF Unseen

Others ==
  \/ Registration \/ Close
  \/ \E r \in Resolvers \ {Loader} : Discover(r) \/ Receive(r) \/ Fetch(r) \/ CloseResolver(r)
  \/ \E r \in Resolvers : StartWatch(r)
  \/ \E w \in Resolvers : GetStep(w) \/ WatchStep(w) \/ RLock(w) \/ RUnlock(w)
                          \/ (\E r \in Resolvers : Send(w, r))
                          \/ (StoreIns(w) /\ SnOf[w] # sn)

(* Everybody else's steps are such steps.                                  *)
LEMMA OthersUnseen ==
  ASSUME IInv, IInv', LoaderInv, Others, UNCHANGED apc
  PROVE  Unseen
<1> USE SnFacts, ResolversAssumption DEF IInv, TypeOK, OwnService
<1>1. CASE Registration \/ Close
  <2>1. UNCHANGED <<resolver, ins, event, rpc, told, wpc, todo>>
    BY <1>1 DEF Registration, Put, Delete, Renew, Close, server, client, watcher
  <2>2. Notice' <=> Notice
    BY <2>1 DEF Notice, AboutToNotify, sn
  <2> QED  BY <2>1, <2>2, UnseenIf
<1>2. ASSUME NEW r \in Resolvers \ {Loader},
             Discover(r) \/ Receive(r) \/ Fetch(r) \/ CloseResolver(r)
      PROVE  Unseen
  <2>1. /\ event'[Loader] = event[Loader] /\ rpc'[Loader] = rpc[Loader]
        /\ Loader \in told' <=> Loader \in told
        /\ UNCHANGED <<ins, wpc, todo>>
    BY <1>2 DEF Discover, Receive, Fetch, CloseResolver, server, watcher
  <2>2. Loader \in resolver'[sn] <=> Loader \in resolver[sn]
    BY <1>2 DEF Discover, Receive, Fetch, CloseResolver, server
  <2>3. Notice' <=> Notice
    BY <2>1, <2>2 DEF Notice, AboutToNotify, sn
  <2> QED  BY <2>1, <2>3, UnseenIf
<1>3. ASSUME NEW r \in Resolvers, StartWatch(r) PROVE Unseen
  <2>1. UNCHANGED <<resolver, event, told, ins, todo>>
        /\ \/ rpc'[Loader] = rpc[Loader]
           \/ rpc[Loader] = "adding" /\ rpc'[Loader] = "wait"
    BY <1>3 DEF StartWatch
  <2>2. \A w \in Resolvers : /\ wpc'[w] = "lock" <=> wpc[w] = "lock"
                             /\ wpc'[w] = "notify" <=> wpc[w] = "notify"
    BY <1>3 DEF StartWatch
  <2>3. Notice' <=> Notice
    BY <2>1, <2>2 DEF Notice, AboutToNotify, sn
  <2> QED  BY <2>1, <2>3, UnseenIf
<1>4. ASSUME NEW w \in Resolvers, GetStep(w) \/ WatchStep(w) \/ RUnlock(w) PROVE Unseen
  <2>1. UNCHANGED <<resolver, ins, event, rpc, told, todo>>
    BY <1>4 DEF GetStep, WatchStep, GetFails, GetSkips, GetOk, OpenWatch, TakeWatchEvent,
       WatchEnds, RUnlock, server, client
  <2>2. AboutToNotify(Loader)' <=> AboutToNotify(Loader)
    <3>1. CASE RUnlock(w)
      BY <3>1 DEF RUnlock, AfterGetstore, AboutToNotify
    <3>2. CASE GetStep(w) \/ WatchStep(w)
      <4>1. \A v \in Resolvers : /\ wpc'[v] = "lock" <=> wpc[v] = "lock"
                                 /\ wpc'[v] = "notify" <=> wpc[v] = "notify"
        BY <3>2 DEF GetStep, WatchStep, GetFails, GetSkips, GetOk, OpenWatch,
           TakeWatchEvent, WatchEnds, AfterGetstore
      <4> QED  BY <2>1, <4>1 DEF AboutToNotify
    <3> QED  BY <1>4, <3>1, <3>2
  <2>3. Notice' <=> Notice
    BY <2>1, <2>2 DEF Notice, sn
  <2> QED  BY <2>1, <2>3, UnseenIf
<1>5. ASSUME NEW w \in Resolvers, RLock(w) PROVE Unseen
  <2>1. UNCHANGED <<resolver, ins, event, rpc, told>>
    BY <1>5 DEF RLock, server, client
  <2>2. Loader \in resolver[sn] => (AboutToNotify(Loader)' <=> AboutToNotify(Loader))
    BY <1>5 DEF RLock, AboutToNotify
  <2>3. Notice' <=> Notice
    BY <2>1, <2>2 DEF Notice, sn
  <2> QED  BY <2>1, <2>3, UnseenIf
<1>6. ASSUME NEW w \in Resolvers, NEW r \in Resolvers, Send(w, r) PROVE Unseen
  <2>1. UNCHANGED <<resolver, ins, rpc, told, wpc>>
    BY <1>6 DEF Send, server
  <2>2. CASE r = Loader
    <3>1. AboutToNotify(Loader) /\ event'[Loader]
      BY <1>6, <2>2 DEF Send, AboutToNotify
    <3>2. Notice' <=> Notice
      BY <2>1, <3>1 DEF Notice, sn
    <3> QED  BY <2>1, <3>2, UnseenIf
  <2>3. CASE r # Loader
    <3>1. event'[Loader] <=> event[Loader]
      BY <1>6, <2>3 DEF Send
    <3>2. \A v \in Resolvers : Loader \in todo'[v] <=> Loader \in todo[v]
      BY <1>6, <2>3 DEF Send
    <3>3. AboutToNotify(Loader)' <=> AboutToNotify(Loader)
      BY <2>1, <3>2 DEF AboutToNotify
    <3>4. Notice' <=> Notice
      BY <2>1, <3>1, <3>3 DEF Notice, sn
    <3> QED  BY <2>1, <3>4, UnseenIf
  <2> QED  BY <2>2, <2>3
<1>7. ASSUME NEW w \in Resolvers, StoreIns(w), SnOf[w] # sn PROVE Unseen
  <2>1. UNCHANGED <<resolver, event, rpc, todo>> /\ ins'[sn] = ins[sn]
        /\ (Loader \in told' <=> Loader \in told)
    BY <1>7 DEF StoreIns
  <2>2. AboutToNotify(Loader)' <=> AboutToNotify(Loader)
    BY <1>7 DEF StoreIns, AboutToNotify
  <2>3. Notice' <=> Notice
    BY <2>1, <2>2 DEF Notice, sn
  <2> QED  BY <2>1, <2>3, UnseenIf
<1> QED
  BY <1>1, <1>2, <1>3, <1>4, <1>5, <1>6, <1>7 DEF Others

(* The other steps of Discovery in the composition.                        *)
LEMMA NamingCases ==
  ASSUME NamingStep
  PROVE  \/ Others
         \/ Discover(Loader)
         \/ \E w \in Resolvers : SnOf[w] = sn /\ StoreIns(w)
BY SnFacts DEF NamingStep, Others, Goroutine, StoreStep

LEMMA ContentNext == Content(ins[sn])' = Content(ins'[sn])
BY DEF Content, InstancesOf, sn

(* A stored answer brings at most one new configuration, and then comes    *)
(* from a later revision than the one before.                              *)
LEMMA NumbersBounded ==
  ASSUME IInv, LoaderInv, AnswersAgree, Numbering,
         NEW w \in Resolvers, SnOf[w] = sn, StoreIns(w)
  PROVE  /\ ins'[sn] = resp[w] /\ resp[w] # NoIns
         /\ cfg'.content = Content(ins'[sn])
         /\ cfg'.num \in Nat /\ cfg'.num <= ins'[sn].at + 2
<1> USE SnFacts
<1>1. ins'[sn] = resp[w] /\ resp[w] # NoIns
  BY DEF IInv, TypeOK, DataBehind, StoreIns
<1>2. resp[w] \in Answers(sn) /\ (ins[sn] # NoIns => ins[sn] \in Answers(sn))
  BY <1>1 DEF Answers
<1>3. resp[w].at \in Nat /\ (ins[sn] # NoIns => ins[sn].at \in Nat)
  BY <1>2 DEF AnswersAgree
<1>4. ins[sn] # NoIns => resp[w].at >= ins[sn].at
  BY DEF IInv, FreshAnswers, StoreIns, FetchOk
<1>5. ins[sn] # NoIns /\ resp[w].at = ins[sn].at => Content(resp[w]) = Content(ins[sn])
  BY <1>1, <1>2 DEF AnswersAgree, Content
<1>6. cfg.num \in Nat /\ cfg.num <= (IF ins[sn] = NoIns THEN 1 ELSE ins[sn].at + 2)
      /\ cfg.content = Content(ins[sn])
  BY DEF LoaderInv
<1>7. CASE Content(resp[w]) = cfg.content
  <2>1. cfg' = cfg
    BY <1>1, <1>7 DEF Numbering
  <2>2. cfg.num <= resp[w].at + 2
    BY <1>3, <1>4, <1>6
  <2> QED  BY <1>1, <1>6, <1>7, <2>1, <2>2
<1>8. CASE Content(resp[w]) # cfg.content
  <2>1. cfg' = [num |-> cfg.num + 1, content |-> Content(resp[w])]
    BY <1>1, <1>8 DEF Numbering
  <2>2. ins[sn] # NoIns => resp[w].at # ins[sn].at
    BY <1>5, <1>6, <1>8
  <2>3. cfg.num + 1 <= resp[w].at + 2
    BY <1>3, <1>4, <1>6, <2>2
  <2> QED  BY <1>1, <1>6, <2>1, <2>3
<1> QED  BY <1>7, <1>8

(* Without a new answer for the service there is no new configuration.     *)
LEMMA NotNumbered ==
  ASSUME LoaderInv, Numbering, ins'[sn] = ins[sn]
  PROVE  cfg' = cfg
BY DEF LoaderInv, Numbering

LEMMA LoaderStays ==
  ASSUME IInv, IInv', LoaderInv, AnswersAgree, [ServiceNext]_all
  PROVE  LoaderInv'
<1> USE SnFacts
<1>0. rpc \in [Resolvers -> {"new", "adding", "wait", "woken", "closed"}]
  BY DEF IInv, TypeOK
<1>1. CASE LoaderReceives
  <2>1. UNCHANGED <<apc, cfg, ins, told>> /\ apc = "wait" /\ rpc'[Loader] = "woken"
    BY <1>0, <1>1 DEF LoaderReceives, Receive, pools, server
  <2> QED  BY <2>1, ContentNext DEF LoaderInv, FetchOk, sn
<1>2. CASE LoaderLoads
  <2>1. FetchOk(sn)
    BY <1>2 DEF LoaderLoads, Fetch, IInv, DataBehind, NotifiedHasData
  <2>2. UNCHANGED <<cfg, ins>> /\ apc' = "master" /\ rpc'[Loader] = "wait"
    BY <1>0, <1>2, <2>1 DEF LoaderLoads, Fetch, server
  <2> QED  BY <2>1, <2>2, ContentNext DEF LoaderInv, FetchOk, sn
<1>3. CASE LoaderStores
  <2>1. UNCHANGED <<cfg, ins, told, rpc>> /\ apc # "wait" /\ apc' \in {"slave", "wait"}
    BY <1>3 DEF LoaderStores, Stores, vars, server, client
  <2> QED  BY <2>1, ContentNext DEF LoaderInv, FetchOk, sn
<1>4. CASE NamingStep
  <2>1. Numbering /\ UNCHANGED apc
    BY <1>4 DEF NamingStep, Aside
  <2>2. CASE Others
    <3>1. Unseen
      BY <2>1, <2>2, OthersUnseen
    <3>2. cfg' = cfg
      BY <2>1, <3>1, NotNumbered DEF Unseen
    <3> QED  BY <2>1, <3>1, <3>2, ContentNext DEF LoaderInv, Unseen, FetchOk, sn
  <2>3. CASE Discover(Loader)
    <3>1. UNCHANGED <<ins, told>> /\ rpc[Loader] = "new" /\ rpc'[Loader] = "adding"
      BY <1>0, <2>3 DEF Discover
    <3>2. cfg' = cfg
      BY <2>1, <3>1, NotNumbered
    <3> QED  BY <2>1, <3>1, <3>2, ContentNext DEF LoaderInv, FetchOk, sn
  <2>4. ASSUME NEW w \in Resolvers, SnOf[w] = sn, StoreIns(w) PROVE LoaderInv'
    <3>1. /\ ins'[sn] # NoIns /\ cfg'.content = Content(ins'[sn])
          /\ cfg'.num \in Nat /\ cfg'.num <= ins'[sn].at + 2
      BY <2>1, <2>4, NumbersBounded
    <3>2. UNCHANGED rpc
      BY <2>4 DEF StoreIns
    <3> QED  BY <2>1, <3>1, <3>2, ContentNext DEF LoaderInv, FetchOk, sn
  <2> QED  BY <1>4, <2>2, <2>3, <2>4, NamingCases
<1>5. CASE RequestStep \/ UNCHANGED all
  <2>1. UNCHANGED <<apc, cfg, ins, told, rpc>>
    BY <1>5 DEF RequestStep, all, pools, vars, server, client
  <2> QED  BY <2>1, ContentNext DEF LoaderInv, FetchOk, sn
<1> QED  BY <1>1, <1>2, <1>3, <1>4, <1>5 DEF ServiceNext, LoaderStep

(* The inductive invariant of the composition, on top of Discovery's.      *)
SInv == IInv /\ NumbersInv /\ AnswersAgree /\ LoaderInv

THEOREM LoaderInvariance == ServiceSpec => []SInv
<1>1. ServiceInit => NumbersInv /\ AnswersAgree /\ LoaderInv
  <2> SUFFICES ASSUME ServiceInit PROVE NumbersInv /\ AnswersAgree /\ LoaderInv
    OBVIOUS
  <2>1. NumbersInv
    BY BoundsAssumption DEF ServiceInit, Init, NumbersInv, Numbered
  <2>2. AnswersAgree
    BY DEF ServiceInit, Init, AnswersAgree, Answers
  <2>3. LoaderInv
    BY SnFacts DEF ServiceInit, Init, LoaderInv, Content
  <2> QED  BY <2>1, <2>2, <2>3
<1>2. IInv /\ IInv' /\ NumbersInv /\ AnswersAgree /\ LoaderInv /\ [ServiceNext]_all
        => NumbersInv' /\ AnswersAgree' /\ LoaderInv'
  BY StepIsDiscovery, NumbersStay, AnswersStay, LoaderStays DEF IInv
<1> QED  BY <1>1, <1>2, IsDiscovery, Invariance, PTL DEF ServiceSpec, SInv

-----------------------------------------------------------------------------
(* Refinement of Pool.                                                     *)

Contents == {NoIns, <<>>} \cup {<<Data[k]>> : k \in 1..MaxRev}

LEMMA ContentKnown ==
  ASSUME NEW i, Numbered(i)
  PROVE  Content(i) \in Contents
<1>1. CASE i = NoIns
  BY <1>1 DEF Content, Contents
<1>2. CASE i # NoIns
  <2>1. i.list[sn] \in 0..MaxRev
    BY <1>2, SnFacts, NamesAssumption DEF Numbered
  <2>2. i.list[sn] # 0 => i.list[sn] \in 1..MaxRev
    BY <2>1, BoundsAssumption
  <2> QED  BY <1>2, <2>2 DEF Content, Contents, InstancesOf
<1> QED  BY <1>1, <1>2

(* An answer always has a configuration, if only the empty one.            *)
LEMMA ContentOfAnswer ==
  ASSUME NEW i, i # NoIns, Content(i) = NoIns, NEW n \in 0..MaxRev, i.list[sn] = n
  PROVE  FALSE
<1>1. n = 0 \/ n \in 1..MaxRev
  BY BoundsAssumption
<1> QED  BY <1>1, LoaderAssumption DEF Content, InstancesOf

(* Where Pool's variables stay as they are, Pool stutters.                 *)
LEMMA PoolStutters ==
  ASSUME Unseen, UNCHANGED <<cfg, gen, turn, built, mMap, sMap, opened, held>>
  PROVE  UNCHANGED P!vars
BY DEF Unseen, P!vars, P!loader, P!notice, P!maps, P!closer

(* The token of an answer being announced reaches a loader that has joined.*)
LEMMA Announced ==
  ASSUME IInv, IInv', LoaderInv, NEW w \in Resolvers, SnOf[w] = sn, StoreIns(w),
         UNCHANGED apc
  PROVE  /\ Notice' = (Notice \/ rpc[Loader] # "new")
         /\ (Loader \in told \cup Pending(sn))'
              = (Loader \in told \cup Pending(sn) \/ rpc[Loader] # "new")
         /\ Place' = Place /\ UNCHANGED rpc
<1> USE SnFacts DEF IInv, TypeOK, OwnService
<1>1. UNCHANGED <<rpc, resolver, event, todo>> /\ wpc'[w] = "lock"
  BY DEF StoreIns
<1>2. AboutToNotify(Loader)'
  BY <1>1 DEF AboutToNotify
<1>3. Loader \in resolver[sn] <=> rpc[Loader] # "new"
  BY DEF LoaderInv
<1>4. Notice' <=> rpc[Loader] # "new"
  BY <1>1, <1>2, <1>3 DEF Notice, sn
<1>5. Notice => rpc[Loader] # "new"
  BY <1>3 DEF Notice
<1>6. Loader \in told' <=> Loader \in told \/ rpc[Loader] # "new"
  BY <1>3 DEF StoreIns
<1>7. (Loader \in Pending(sn))' => rpc[Loader] # "new"
  BY <1>1, <1>3 DEF Pending, sn
<1>8. Loader \in Pending(sn) => rpc[Loader] # "new"
  BY <1>3 DEF Pending
<1>9. (Loader \in told \cup Pending(sn))' <=> Loader \in told' \/ (Loader \in Pending(sn))'
  OBVIOUS
<1>10. (Loader \in told \cup Pending(sn))'
         <=> (Loader \in told \cup Pending(sn) \/ rpc[Loader] # "new")
  BY <1>6, <1>7, <1>8, <1>9
<1>11. Notice' = (Notice \/ rpc[Loader] # "new")
  BY <1>4, <1>5 DEF Notice
<1>12. Place' = Place /\ UNCHANGED rpc
  BY <1>1 DEF Place
<1> QED  BY <1>10, <1>11, <1>12

(* Each step is a step of the pools, or leaves them alone.                 *)
LEMMA StepIsPool ==
  ASSUME IInv, IInv', NumbersInv, NumbersInv', AnswersAgree, LoaderInv, LoaderInv',
         [ServiceNext]_all
  PROVE  [P!Next]_(P!vars)
<1> USE SnFacts
<1>0. rpc \in [Resolvers -> {"new", "adding", "wait", "woken", "closed"}]
  BY DEF IInv, TypeOK
<1>1. CASE LoaderReceives
  <2>1. /\ apc = "wait" /\ apc' = apc /\ rpc[Loader] = "wait" /\ rpc'[Loader] = "woken"
        /\ event[Loader] /\ UNCHANGED <<resolver, told>>
        /\ UNCHANGED <<cfg, gen, turn, built, mMap, sMap, opened, held>>
    BY <1>0, <1>1 DEF LoaderReceives, Receive, pools, server
  <2>2. Place = "idle" /\ Place' = "get"
    BY <2>1 DEF Place
  <2>3. Loader \in resolver[sn]
    BY <2>1 DEF IInv, OwnService
  <2>4. Notice
    BY <2>1, <2>3 DEF Notice
  <2>5. Notice' \in BOOLEAN
    BY DEF Notice
  <2>6. (Loader \in told \cup Pending(sn))' = (Loader \in told \cup Pending(sn))
    <3>1. Loader \in Pending(sn)
      BY <2>1, <2>3 DEF Pending
    <3>2. (Loader \in Pending(sn))'
      BY <2>1, <2>3 DEF Pending, sn
    <3> QED  BY <3>1, <3>2
  <2>7. P!Receive
    BY <2>1, <2>2, <2>4, <2>5, <2>6 DEF P!Receive, P!maps, P!closer
  <2> QED  BY <2>7 DEF P!Next, P!LoaderStep
<1>2. CASE LoaderLoads
  <2>1. FetchOk(sn)
    BY <1>2 DEF LoaderLoads, Fetch, IInv, DataBehind, NotifiedHasData
  <2> QED  BY <1>2, <2>1 DEF LoaderLoads, P!Next, P!LoaderStep
<1>3. CASE LoaderStores
  <2>1. UNCHANGED <<cfg, gen, turn, built, opened, held>> /\ rpc[Loader] = "wait"
        /\ UNCHANGED <<rpc, told>> /\ apc # "wait"
    BY <1>3 DEF LoaderStores, Stores, vars, client, LoaderInv
  <2>2. Notice' = Notice
    BY <1>3 DEF LoaderStores, Notice, AboutToNotify, vars, client, server, watcher, sn
  <2>3. (Loader \in told \cup Pending(sn))' = (Loader \in told \cup Pending(sn))
    BY <1>3 DEF LoaderStores, Pending, AboutToNotify, vars, client, server, watcher, sn
  <2>4. Place = apc /\ (apc' = "slave" => Place' = "slave")
        /\ (apc' = "wait" => Place' = "idle")
    BY <2>1 DEF Place
  <2>5. CASE apc = "master"
    <3>1. apc' = "slave" /\ mMap' = P!Loaded("master") /\ UNCHANGED sMap
      BY <1>3, <2>5 DEF LoaderStores, Stores
    <3>2. P!StoreMaster
      BY <2>1, <2>2, <2>3, <2>4, <2>5, <3>1 DEF P!StoreMaster, P!notice, P!closer
    <3> QED  BY <3>2 DEF P!Next, P!LoaderStep
  <2>6. CASE apc = "slave"
    <3>1. apc' = "wait" /\ sMap' = P!Loaded("slave") /\ UNCHANGED mMap
      BY <1>3, <2>6 DEF LoaderStores, Stores
    <3>2. P!StoreSlave
      BY <2>1, <2>2, <2>3, <2>4, <2>6, <3>1
      DEF P!StoreSlave, P!AfterLoad, P!notice, P!closer
    <3> QED  BY <3>2 DEF P!Next, P!LoaderStep
  <2> QED  BY <1>3, <2>5, <2>6 DEF LoaderStores, Stores
<1>4. CASE NamingStep
  <2>1. Numbering /\ UNCHANGED <<apc, gen, turn, built, mMap, sMap, opened, held>>
    BY <1>4 DEF NamingStep, Aside
  <2>2. CASE Others
    <3>1. Unseen
      BY <2>1, <2>2, OthersUnseen
    <3>2. cfg' = cfg
      BY <2>1, <3>1, NotNumbered DEF Unseen
    <3> QED  BY <2>1, <3>1, <3>2, PoolStutters
  <2>3. CASE Discover(Loader)
    <3>1. /\ UNCHANGED <<ins, told, event>> /\ rpc[Loader] = "new"
             /\ rpc'[Loader] = "adding"
          /\ Loader \in resolver'[sn] /\ Loader \notin told
      BY <1>0, <2>3 DEF Discover, IInv, TypeOK, OwnService
    <3>2. cfg' = cfg
      BY <2>1, <3>1, NotNumbered
    <3>3. apc = "wait" /\ Place = "start" /\ Place' = "idle"
      BY <2>1, <3>1 DEF LoaderInv, Place
    <3>4. (Loader \in Pending(sn))' <=> Notice'
      BY <3>1 DEF Pending, Notice, sn
    <3>5. Notice' \in BOOLEAN
      BY DEF Notice
    <3>6. (Loader \in told \cup Pending(sn))' <=> (Loader \in Pending(sn))'
      BY <3>1
    <3>7. (Loader \in told \cup Pending(sn))' = Notice'
      BY <3>4, <3>5, <3>6
    <3>8. P!Watch
      BY <2>1, <3>1, <3>2, <3>3, <3>5, <3>7 DEF P!Watch, P!maps, P!closer
    <3> QED  BY <3>8 DEF P!Next, P!LoaderStep
  <2>4. ASSUME NEW w \in Resolvers, SnOf[w] = sn, StoreIns(w) PROVE [P!Next]_(P!vars)
    <3>1. /\ Notice' = (Notice \/ rpc[Loader] # "new")
          /\ (Loader \in told \cup Pending(sn))'
               = (Loader \in told \cup Pending(sn) \/ rpc[Loader] # "new")
          /\ Place' = Place /\ UNCHANGED rpc
      BY <2>1, <2>4, Announced
    <3>2. /\ ins'[sn] # NoIns /\ cfg'.content = Content(ins'[sn])
          /\ ins'[sn].at \in Nat /\ ins'[sn].at <= MaxRev /\ cfg'.num <= ins'[sn].at + 2
      <4>1. /\ ins'[sn] = resp[w] /\ resp[w] # NoIns /\ UNCHANGED rev
            /\ cfg'.content = Content(ins'[sn]) /\ cfg'.num <= ins'[sn].at + 2
        BY <2>1, <2>4, NumbersBounded DEF StoreIns, etcd
      <4>2. resp[w] \in Answers(sn) /\ rev \in 0..MaxRev
        BY <2>4, <4>1 DEF Answers, NumbersInv
      <4>3. resp[w].at \in Nat /\ resp[w].at <= MaxRev
        BY <4>2, BoundsAssumption DEF AnswersAgree
      <4> QED  BY <4>1, <4>3
    <3>3. CASE cfg' = cfg
      <4>1. CASE rpc[Loader] = "new"
        <5>1. Notice' = Notice
          <6>1. Notice \in BOOLEAN
            BY DEF Notice
          <6> QED  BY <3>1, <4>1, <6>1
        <5>2. (Loader \in told \cup Pending(sn))' = (Loader \in told \cup Pending(sn))
          <6>1. (Loader \in told \cup Pending(sn)) \in BOOLEAN
            OBVIOUS
          <6> QED  BY <3>1, <4>1, <6>1
        <5>3. UNCHANGED P!vars
          BY <2>1, <3>1, <3>3, <5>1, <5>2 DEF P!vars, P!loader, P!notice, P!maps, P!closer
        <5> QED  BY <5>3
      <4>2. CASE rpc[Loader] # "new"
        <5>1. Notice' = TRUE /\ (Loader \in told \cup Pending(sn))' = TRUE
          BY <3>1, <4>2
        <5>2. P!Wake
          BY <2>1, <3>1, <3>3, <4>2, <5>1 DEF P!Wake, P!maps, P!closer
        <5> QED  BY <5>2 DEF P!Next
      <4> QED  BY <4>1, <4>2
    <3>4. CASE cfg' # cfg
      <4>1. cfg' = [num |-> cfg.num + 1, content |-> Content(ins'[sn])] /\ cfg.num \in Nat
        BY <2>1, <3>4 DEF Numbering, LoaderInv
      <4>2. cfg.num < MaxRev + 2
        <5>1. ASSUME NEW at \in Nat, at <= MaxRev, cfg.num + 1 <= at + 2
              PROVE  cfg.num < MaxRev + 2
          BY <4>1, <5>1, BoundsAssumption
        <5>2. cfg'.num = cfg.num + 1
          BY <4>1
        <5> QED  BY <3>2, <5>1, <5>2
      <4>3. Content(ins'[sn]) \in Contents \ {NoIns}
        <5>1. Content(ins'[sn]) \in Contents
          <6>1. Numbered(ins'[sn])
            BY DEF NumbersInv, Numbered
          <6> QED  BY <6>1, ContentKnown
        <5>2. Content(ins'[sn]) # NoIns
          <6>1. sn \in Names
            BY NamesAssumption
          <6>2. ins'[sn].list[sn] \in 0..MaxRev
            BY <3>2, <6>1 DEF NumbersInv, Numbered
          <6> QED  BY <3>2, <6>2, ContentOfAnswer
        <5> QED  BY <5>1, <5>2
      <4>4. cfg' \in [num : {cfg.num + 1}, content : Contents \ {NoIns}]
        BY <4>1, <4>3
      <4>5. P!Publish
        BY <2>1, <3>1, <4>2, <4>4 DEF P!Publish, P!maps, P!closer, Contents
      <4> QED  BY <4>5 DEF P!Next
    <3> QED  BY <3>3, <3>4
  <2> QED  BY <1>4, <2>2, <2>3, <2>4, NamingCases
<1>5. CASE RequestStep
  BY <1>5 DEF RequestStep, P!Next
<1>6. CASE UNCHANGED all
  <2>1. UNCHANGED P!vars
    BY <1>6 DEF all, pools, vars, server, client, watcher, P!vars, P!loader, P!notice,
       P!maps, P!closer, Notice, Place, Pending, AboutToNotify, sn
  <2> QED  BY <2>1
<1> QED  BY <1>1, <1>2, <1>3, <1>4, <1>5, <1>6 DEF ServiceNext, LoaderStep

(* Loading from naming implements Pool: an answer of etcd is a Publish or  *)
(* a Wake of the pools, and the loader's tokens are Pool's events, none of *)
(* them lost.                                                              *)
THEOREM PoolRefinement == ServiceSpec => ImplementsPool
<1>1. ServiceInit => P!Init
  BY DEF ServiceInit
<1>2. SInv /\ SInv' /\ [ServiceNext]_all => [P!Next]_(P!vars)
  BY StepIsPool DEF SInv
<1> QED  BY <1>1, <1>2, LoaderInvariance, PTL DEF ServiceSpec, ImplementsPool

-----------------------------------------------------------------------------
(* What is proved of Pool, for the pools of Service.                       *)
PP == INSTANCE PoolProofs WITH
  Mode <- "naming", Broken <- {NoIns},
  Configs <- {NoIns, <<>>} \cup {<<Data[k]>> : k \in 1..MaxRev},
  MaxGen <- MaxRev + 2, MaxFaults <- 0, faults <- 0,
  event <- Notice, joined <- rpc[Loader] # "new",
  told <- Loader \in told \cup Pending(sn), lpc <- Place,
  shut <- {}, cpc <- "idle", toClose <- {}

(* The pools of Service satisfy what Pool assumes of its constants.        *)
LEMMA PoolsAssumed == PP!PoolAssumption
BY LoaderAssumption, BoundsAssumption DEF PP!PoolAssumption

(* The specification that PoolRefinement is about is the one of PoolProofs.*)
LEMMA PoolsSpecified == ImplementsPool => PP!Spec
<1>1. P!Init <=> PP!Init
  BY DEF P!Init, PP!Init, P!Unset, PP!Unset, P!Roles, PP!Roles
<1>2. [P!Next]_(P!vars) <=> [PP!Next]_(PP!vars)
  BY
  DEF P!Publish, PP!Publish, P!Wake, PP!Wake, P!Watch, PP!Watch, P!Receive, PP!Receive,
      P!LoadBroken, PP!LoadBroken, P!InitPanics, PP!InitPanics, P!Load, PP!Load,
      P!StoreMaster, PP!StoreMaster, P!StoreSlave, PP!StoreSlave,
      P!Loaded, PP!Loaded, P!AfterLoad, PP!AfterLoad, P!NextTurn, PP!NextTurn,
      P!Take, PP!Take, P!Slave, PP!Slave, P!Master, PP!Master,
      P!Finish, PP!Finish, P!CloseMaster, PP!CloseMaster,
      P!CloseSlave, PP!CloseSlave, P!ClosePool, PP!ClosePool,
      P!LoaderStep, PP!LoaderStep, P!Next, PP!Next, P!vars, PP!vars,
      P!maps, PP!maps, P!loader, PP!loader, P!notice, PP!notice, P!closer, PP!closer,
      P!Ready, PP!Ready, P!Built, PP!Built, P!Pools, PP!Pools,
      P!Selected, PP!Selected, P!Usable, PP!Usable, P!Target, PP!Target,
      P!Roles, PP!Roles
<1> QED  BY <1>1, <1>2, PTL DEF ImplementsPool, PP!Spec

(* ServiceOK: discovery, the loader and the pools keep their types         *)
(* together; a loader would not if it ended after a load.                  *)
THEOREM TypesCorrect == ServiceSpec => []ServiceOK
<1>1. PP!Spec => []PP!TypeOK
  BY PoolsAssumed, PP!TypeCorrect
<1>2. PP!TypeOK <=> P!TypeOK
  BY DEF P!TypeOK, PP!TypeOK, P!Slot, PP!Slot, P!AllPools, PP!AllPools, P!Roles, PP!Roles,
         P!Pools, PP!Pools, P!Selected, PP!Selected, P!Usable, PP!Usable, P!Target, PP!Target
<1>3. SInv /\ P!TypeOK => ServiceOK
  BY DEF SInv, IInv, LoaderInv, ServiceOK
<1> QED
  BY <1>1, <1>2, <1>3, PoolRefinement, PoolsSpecified, LoaderInvariance, PTL

(* No lost reload: once anything was stored since the loader joined, a     *)
(* loader that waits with nothing on its way has in both maps the pools of *)
(* what naming holds, all of them and no others, whatever came while it    *)
(* was building (redis.go, mysql.go: loadConfFromNaming).  From Discovery  *)
(* that no token is lost, from Pool that every one leads to a load.        *)
THEOREM ReloadsKept == ServiceSpec => []NoLostReload
<1> DEFINE AtRest ==
      Loader \in told \cup Pending(sn) /\ ~Notice /\ Place = "idle"
      /\ cfg.content \notin {NoIns} =>
        /\ mMap.gen = cfg.num /\ PP!OfConfig(mMap.pools, turn, "master")
        /\ sMap.gen = cfg.num /\ PP!OfConfig(sMap.pools, turn, "slave")
           Turns ==
      Place = "idle" => mMap.turn = turn /\ sMap.turn = turn
<1>1. PP!Spec => []AtRest
  BY PoolsAssumed, PP!AppliedAtRest
<1>2. PP!Spec => []Turns
  <2>1. PP!Spec => []PP!IInv
    BY PoolsAssumed, PP!Invariance
  <2>2. PP!IInv => Turns
    BY DEF PP!IInv, PP!MapsInOrder
  <2> QED  BY <2>1, <2>2, PTL
<1>3. ASSUME SInv, ServiceOK, AtRest, Turns
      PROVE  NoLostReload
  <2> SUFFICES ASSUME Loader \in (resolver[sn] \cap told) \ Pending(sn), apc = "wait"
               PROVE  mMap = Newest("master") /\ sMap = Newest("slave")
    BY DEF NoLostReload
  <2>1. rpc[Loader] \in {"adding", "wait"} /\ ~Notice
    BY <1>3, SnFacts DEF SInv, IInv, OwnService, Pending, Notice
  <2>2. Place = "idle"
    BY <2>1 DEF Place
  <2>3. cfg.content = Content(ins[sn]) /\ cfg.content # NoIns
    <3>1. ins[sn] # NoIns /\ Numbered(ins[sn]) /\ cfg.content = Content(ins[sn])
      BY <1>3, SnFacts DEF SInv, LoaderInv, NumbersInv, FetchOk
    <3>2. ins[sn].list[sn] \in 0..MaxRev
      BY <3>1, SnFacts, NamesAssumption DEF Numbered
    <3> QED  BY <3>1, <3>2, ContentOfAnswer
  <2>4. \A role : PP!Built(turn, role) = P!Pools(cfg.num, turn, cfg.content, role)
    BY DEF PP!Built, PP!Pools, P!Pools, PP!Selected, P!Selected, PP!Usable, P!Usable,
           PP!Target, P!Target
  <2>5. /\ mMap.gen = cfg.num
           /\ mMap.pools = P!Pools(cfg.num, turn, cfg.content, "master")
        /\ sMap.gen = cfg.num /\ sMap.pools = P!Pools(cfg.num, turn, cfg.content, "slave")
    BY <1>3, <2>1, <2>2, <2>3, <2>4 DEF PP!OfConfig
  <2>6. mMap.turn = turn /\ sMap.turn = turn
    BY <1>3, <2>2
  <2>7. mMap \in P!Slot /\ sMap \in P!Slot
    BY <1>3 DEF ServiceOK, P!TypeOK
  <2> QED  BY <2>3, <2>5, <2>6, <2>7 DEF Newest, P!Slot
<1> QED
  BY <1>1, <1>2, <1>3, PoolRefinement, PoolsSpecified, LoaderInvariance, TypesCorrect, PTL

(* SlaveNotAhead of Pool, for pools that follow naming: no request sees    *)
(* slaves of a newer instance, or a later load, than its masters.          *)
THEOREM FollowsMasterFirst == ServiceSpec => []P!SlaveNotAhead
<1>1. PP!Spec => []PP!SlaveNotAhead
  BY PoolsAssumed, PP!MasterFirst
<1>2. PP!SlaveNotAhead <=> P!SlaveNotAhead
  BY DEF P!SlaveNotAhead, PP!SlaveNotAhead
<1> QED
  BY <1>1, <1>2, PoolRefinement, PoolsSpecified, PTL

(* The safety half of FollowsRegistration: once the watcher of the service *)
(* is covered (HealedStaysHealed: after any event, a heartbeat's too) and  *)
(* has nothing left to do, anything was stored since the loader joined and *)
(* it waits with no notification on its way, requests find exactly the     *)
(* pools of the instance that etcd has, or none if it has none.            *)
THEOREM FollowsWhenSettled ==
  ServiceSpec => [](\A w \in Resolvers :
    /\ SnOf[w] = sn /\ Covered(w) /\ wpc[w] = "idle" /\ evq[w] = 0
    /\ Loader \in (resolver[sn] \cap told) \ Pending(sn) /\ apc = "wait"
    => mMap.pools = Wanted(turn, "master") /\ sMap.pools = Wanted(turn, "slave"))
<1> DEFINE Settled(w) ==
             /\ SnOf[w] = sn /\ Covered(w) /\ wpc[w] = "idle" /\ evq[w] = 0
             /\ Loader \in (resolver[sn] \cap told) \ Pending(sn) /\ apc = "wait"
           Follows == \A w \in Resolvers : Settled(w) =>
             mMap.pools = Wanted(turn, "master") /\ sMap.pools = Wanted(turn, "slave")
<1>1. NoLostReload => Follows
  <2> SUFFICES ASSUME NoLostReload, NEW w \in Resolvers, Settled(w)
               PROVE  mMap.pools = Wanted(turn, "master")
                      /\ sMap.pools = Wanted(turn, "slave")
    OBVIOUS
  <2>1. FetchOk(sn) /\ ins[sn].list = Answer(sn).list
    BY DEF Covered
  <2>2. sn \in Names /\ sn \in Under[sn]
    BY LoaderAssumption, NamesAssumption, ResolversAssumption DEF sn
  <2>3. ins[sn].list[sn] = kv[sn]
    BY <2>1, <2>2 DEF Answer
  <2>4. Content(ins[sn]) = InstancesOf(kv[sn])
    BY <2>1, <2>3 DEF Content, FetchOk
  <2>5. mMap = Newest("master") /\ sMap = Newest("slave")
    BY DEF NoLostReload
  <2> QED  BY <2>4, <2>5 DEF Newest, Wanted
<1> QED
  BY <1>1, ReloadsKept, PTL
=============================================================================
