--------------------------- MODULE RegistryProofs ---------------------------
(* Proofs about Registry, for every number of Register calls, names and    *)
(* callers of cancelFuncs.                                                 *)
EXTENDS Registry, TLAPS

(* Every variable keeps its type.                                          *)
LEMMA TypeStep == TypeOK /\ [Next]_vars => TypeOK'
<1> SUFFICES ASSUME TypeOK, [Next]_vars
             PROVE  TypeOK'
  OBVIOUS
<1> USE CallsAssumption DEF TypeOK, Step, PCs, Beating, Names, Keys
<1>1. ASSUME NEW c \in Calls, Reserve(c) PROVE TypeOK'
  BY <1>1 DEF Reserve, etcd
<1>2. ASSUME NEW c \in Calls, Refuse(c) PROVE TypeOK'
  BY <1>2 DEF Refuse, etcd
<1>3. ASSUME NEW c \in Calls, GrantOk(c) PROVE TypeOK'
  BY <1>3 DEF GrantOk, etcd
<1>4. ASSUME NEW c \in Calls, GrantFails(c) PROVE TypeOK'
  BY <1>4 DEF GrantFails, RequestFails, Fault, AfterError
<1>5. ASSUME NEW c \in Calls, SendPut(c) PROVE TypeOK'
  BY <1>5 DEF SendPut
<1>6. ASSUME NEW c \in Calls, PutOk(c) PROVE TypeOK'
  BY <1>6 DEF PutOk, etcd
<1>7. ASSUME NEW c \in Calls, PutFails(c) PROVE TypeOK'
  BY <1>7 DEF PutFails, RequestFails, Fault, AfterError
<1>8. ASSUME NEW c \in Calls, GiveUp(c) PROVE TypeOK'
  BY <1>8 DEF GiveUp, etcd
<1>9. ASSUME NEW c \in Calls, Tick(c) PROVE TypeOK'
  BY <1>9 DEF Tick, etcd
<1>10. ASSUME NEW c \in Calls, Done(c) PROVE TypeOK'
  BY <1>10 DEF Done, etcd
<1>11. ASSUME NEW c \in Calls, UnregisterOk(c) PROVE TypeOK'
  BY <1>11 DEF UnregisterOk
<1>12. ASSUME NEW c \in Calls, UnregisterFails(c) PROVE TypeOK'
  BY <1>12 DEF UnregisterFails, RequestFails, Fault
<1>13. ASSUME NEW c \in Calls, Signal(c) PROVE TypeOK'
  BY <1>13 DEF Signal, etcd
<1>14. ASSUME NEW c \in Calls, Arrive(c) PROVE TypeOK'
  BY <1>14 DEF Arrive, process
<1>15. ASSUME NEW x \in Callers, Cancel(x) PROVE TypeOK'
  BY <1>15 DEF Cancel, etcd
<1>16. ASSUME NEW x \in Callers, CancelReturns(x) PROVE TypeOK'
  BY <1>16 DEF CancelReturns, etcd
<1>17. ASSUME NEW k \in Keys, Expire(k) PROVE TypeOK'
  BY <1>17 DEF Expire, Fault, process
<1>18. CASE CloseCancels
  BY <1>18 DEF CloseCancels, etcd
<1>19. CASE CloseClient
  BY <1>19 DEF CloseClient, etcd
<1>20. CASE Crash
  BY <1>20 DEF Crash, etcd
<1>21. CASE UNCHANGED vars
  BY <1>21 DEF vars, process, etcd
<1> QED
  BY <1>1, <1>2, <1>3, <1>4, <1>5, <1>6, <1>7, <1>8, <1>9, <1>10, <1>11,
     <1>12, <1>13, <1>14, <1>15, <1>16, <1>17, <1>18, <1>19, <1>20, <1>21
  DEF Next, RegisterStep, HeartbeatStep

-----------------------------------------------------------------------------
(* Why a name has one registration.                                        *)

(* The registry has the name of every holder, and no name has two.         *)
NameHeld ==
  /\ \A c \in Calls : Holds(c) => NameOf[c] \in registry
  /\ OneRegistrationPerName

(* Whoever has a Put on its way holds its name, or gave up waiting.        *)
FlightOwned ==
  \A c \in flight : Holds(c) \/ pc[c] = "failed"

IInv == TypeOK /\ NameHeld /\ FlightOwned

(* rmutex makes the test and the insertion one step.                       *)
LEMMA NameHeldStep == TypeOK /\ NameHeld /\ [Next]_vars => NameHeld'
<1> SUFFICES ASSUME TypeOK /\ NameHeld, [Next]_vars
             PROVE  NameHeld'
  OBVIOUS
<1> USE DEF TypeOK, NameHeld, OneRegistrationPerName, Holds, PCs, Beating, Step
<1>1. ASSUME NEW c \in Calls, Reserve(c) PROVE NameHeld'
  BY <1>1 DEF Reserve, etcd
<1>2. ASSUME NEW c \in Calls, Refuse(c) PROVE NameHeld'
  BY <1>2 DEF Refuse, etcd
<1>3. ASSUME NEW c \in Calls, GrantOk(c) PROVE NameHeld'
  BY <1>3 DEF GrantOk, etcd
<1>4. ASSUME NEW c \in Calls, GrantFails(c) PROVE NameHeld'
  BY <1>4 DEF GrantFails, RequestFails, Fault, AfterError
<1>5. ASSUME NEW c \in Calls, SendPut(c) PROVE NameHeld'
  BY <1>5 DEF SendPut
<1>6. ASSUME NEW c \in Calls, PutOk(c) PROVE NameHeld'
  BY <1>6 DEF PutOk, etcd
<1>7. ASSUME NEW c \in Calls, PutFails(c) PROVE NameHeld'
  BY <1>7 DEF PutFails, RequestFails, Fault, AfterError
<1>8. ASSUME NEW c \in Calls, GiveUp(c) PROVE NameHeld'
  BY <1>8 DEF GiveUp, etcd
<1>9. ASSUME NEW c \in Calls, Tick(c) PROVE NameHeld'
  BY <1>9 DEF Tick, etcd
<1>10. ASSUME NEW c \in Calls, Done(c) PROVE NameHeld'
  BY <1>10 DEF Done, etcd
<1>11. ASSUME NEW c \in Calls, UnregisterOk(c) PROVE NameHeld'
  BY <1>11 DEF UnregisterOk
<1>12. ASSUME NEW c \in Calls, UnregisterFails(c) PROVE NameHeld'
  BY <1>12 DEF UnregisterFails, RequestFails, Fault
<1>13. ASSUME NEW c \in Calls, Signal(c) PROVE NameHeld'
  BY <1>13 DEF Signal, etcd
<1>14. ASSUME NEW c \in Calls, Arrive(c) PROVE NameHeld'
  BY <1>14 DEF Arrive, process
<1>15. ASSUME NEW x \in Callers, Cancel(x) PROVE NameHeld'
  BY <1>15 DEF Cancel, etcd
<1>16. ASSUME NEW x \in Callers, CancelReturns(x) PROVE NameHeld'
  BY <1>16 DEF CancelReturns, etcd
<1>17. ASSUME NEW k \in Keys, Expire(k) PROVE NameHeld'
  BY <1>17 DEF Expire, Fault, process
<1>18. CASE CloseCancels
  BY <1>18 DEF CloseCancels, etcd
<1>19. CASE CloseClient
  BY <1>19 DEF CloseClient, etcd
<1>20. CASE Crash
  BY <1>20 DEF Crash, etcd
<1>21. CASE UNCHANGED vars
  BY <1>21 DEF vars, process, etcd
<1> QED
  BY <1>1, <1>2, <1>3, <1>4, <1>5, <1>6, <1>7, <1>8, <1>9, <1>10, <1>11,
     <1>12, <1>13, <1>14, <1>15, <1>16, <1>17, <1>18, <1>19, <1>20, <1>21
  DEF Next, RegisterStep, HeartbeatStep

(* Puts are sent by holders only.                                          *)
LEMMA FlightOwnedStep == TypeOK /\ FlightOwned /\ [Next]_vars => FlightOwned'
<1> SUFFICES ASSUME TypeOK /\ FlightOwned, [Next]_vars
             PROVE  FlightOwned'
  OBVIOUS
<1> USE DEF TypeOK, FlightOwned, Holds, PCs, Beating, Step
<1>1. ASSUME NEW c \in Calls, Reserve(c) PROVE FlightOwned'
  BY <1>1 DEF Reserve, etcd
<1>2. ASSUME NEW c \in Calls, Refuse(c) PROVE FlightOwned'
  BY <1>2 DEF Refuse, etcd
<1>3. ASSUME NEW c \in Calls, GrantOk(c) PROVE FlightOwned'
  BY <1>3 DEF GrantOk, etcd
<1>4. ASSUME NEW c \in Calls, GrantFails(c) PROVE FlightOwned'
  BY <1>4 DEF GrantFails, RequestFails, Fault, AfterError
<1>5. ASSUME NEW c \in Calls, SendPut(c) PROVE FlightOwned'
  BY <1>5 DEF SendPut
<1>6. ASSUME NEW c \in Calls, PutOk(c) PROVE FlightOwned'
  BY <1>6 DEF PutOk, etcd
<1>7. ASSUME NEW c \in Calls, PutFails(c) PROVE FlightOwned'
  BY <1>7 DEF PutFails, RequestFails, Fault, AfterError
<1>8. ASSUME NEW c \in Calls, GiveUp(c) PROVE FlightOwned'
  BY <1>8 DEF GiveUp, etcd
<1>9. ASSUME NEW c \in Calls, Tick(c) PROVE FlightOwned'
  BY <1>9 DEF Tick, etcd
<1>10. ASSUME NEW c \in Calls, Done(c) PROVE FlightOwned'
  BY <1>10 DEF Done, etcd
<1>11. ASSUME NEW c \in Calls, UnregisterOk(c) PROVE FlightOwned'
  BY <1>11 DEF UnregisterOk
<1>12. ASSUME NEW c \in Calls, UnregisterFails(c) PROVE FlightOwned'
  BY <1>12 DEF UnregisterFails, RequestFails, Fault
<1>13. ASSUME NEW c \in Calls, Signal(c) PROVE FlightOwned'
  BY <1>13 DEF Signal, etcd
<1>14. ASSUME NEW c \in Calls, Arrive(c) PROVE FlightOwned'
  BY <1>14 DEF Arrive, process
<1>15. ASSUME NEW x \in Callers, Cancel(x) PROVE FlightOwned'
  BY <1>15 DEF Cancel, etcd
<1>16. ASSUME NEW x \in Callers, CancelReturns(x) PROVE FlightOwned'
  BY <1>16 DEF CancelReturns, etcd
<1>17. ASSUME NEW k \in Keys, Expire(k) PROVE FlightOwned'
  BY <1>17 DEF Expire, Fault, process
<1>18. CASE CloseCancels
  BY <1>18 DEF CloseCancels, etcd
<1>19. CASE CloseClient
  BY <1>19 DEF CloseClient, etcd
<1>20. CASE Crash
  BY <1>20 DEF Crash, etcd
<1>21. CASE UNCHANGED vars
  BY <1>21 DEF vars, process, etcd
<1> QED
  BY <1>1, <1>2, <1>3, <1>4, <1>5, <1>6, <1>7, <1>8, <1>9, <1>10, <1>11,
     <1>12, <1>13, <1>14, <1>15, <1>16, <1>17, <1>18, <1>19, <1>20, <1>21
  DEF Next, RegisterStep, HeartbeatStep

(* Nothing is registered before the first call.                            *)
LEMMA InitInv == Init => IInv
<1> SUFFICES ASSUME Init PROVE IInv
  OBVIOUS
<1>1. TypeOK
  <2>1. kv \in [Keys -> Calls \cup {Absent}]
    BY DEF Init
  <2>2. pc \in [Calls -> PCs]
    BY DEF Init, PCs
  <2> QED
    BY <2>1, <2>2 DEF Init, TypeOK
<1>2. \A c \in Calls : ~Holds(c)
  BY DEF Init, Holds
<1> QED
  BY <1>1, <1>2 DEF Init, IInv, NameHeld, OneRegistrationPerName, FlightOwned

(* The inductive invariant: types, the ownership of names and of Puts.     *)
THEOREM Invariance == Spec => []IInv
<1>1. IInv /\ [Next]_vars => IInv'
  BY TypeStep, NameHeldStep, FlightOwnedStep DEF IInv
<1> QED
  BY InitInv, <1>1, PTL DEF Spec

(* Type correctness of every behaviour.                                    *)
THEOREM TypeCorrect == Spec => []TypeOK
BY Invariance, PTL DEF IInv

(* OneRegistrationPerName: no name is registered twice, in any order of    *)
(* failures, retries and cancellations.                                    *)
THEOREM NameExclusive == Spec => []OneRegistrationPerName
<1>1. IInv => OneRegistrationPerName
  BY DEF IInv, NameHeld
<1> QED
  BY <1>1, Invariance, PTL

(* KeyLostOnlyByFault: an unregister that deletes the key of a registration*)
(* is its own, and a Put that takes it over comes from a failed attempt.   *)
THEOREM KeyKept == Spec => KeyLostOnlyByFault
<1> DEFINE Kept == \A c \in Calls :
       Renewing(c) /\ kv[KeyOf[c]] = c /\ kv'[KeyOf[c]] # c =>
         \/ kv'[KeyOf[c]] = Absent /\ faults' > faults
         \/ \E d \in flight : kv'[KeyOf[c]] = d /\ pc[d] = "failed"
<1>1. ASSUME TypeOK, NEW c \in Calls, Renewing(c)
      PROVE  Holds(c) /\ pc[c] # "unreg"
  BY <1>1 DEF TypeOK, Renewing, Holds, PCs, Beating
<1>2. ASSUME IInv, NEW d \in Calls, UnregisterOk(d) PROVE Kept
  <2>1. Holds(d) /\ pc[d] = "unreg"
    BY <1>2 DEF UnregisterOk, Step, Holds, PCs
  <2>2. \A c \in Calls : Renewing(c) => KeyOf[c] # KeyOf[d]
    BY <1>1, <1>2, <2>1, CallsAssumption DEF IInv, NameHeld, OneRegistrationPerName
  <2>3. \A c \in Calls : Renewing(c) => kv'[KeyOf[c]] = kv[KeyOf[c]]
    BY <1>2, <2>2 DEF IInv, TypeOK, Keys, UnregisterOk
  <2> QED
    BY <2>3
<1>3. ASSUME IInv, NEW d \in Calls, Arrive(d) PROVE Kept
  <2> SUFFICES ASSUME NEW c \in Calls, Renewing(c),
                      kv[KeyOf[c]] = c, kv'[KeyOf[c]] # c
               PROVE  \E e \in flight : kv'[KeyOf[c]] = e /\ pc[e] = "failed"
    OBVIOUS
  <2>1. KeyOf[c] = KeyOf[d] /\ kv'[KeyOf[c]] = d /\ c # d
    BY <1>3 DEF IInv, TypeOK, Keys, Arrive
  <2>2. ~Holds(d)
    BY <1>1, <1>3, <2>1, CallsAssumption DEF IInv, NameHeld, OneRegistrationPerName
  <2> QED
    BY <1>3, <2>1, <2>2 DEF IInv, FlightOwned, Arrive
<1>4. ASSUME IInv, NEW k \in Keys, Expire(k) PROVE Kept
  <2> SUFFICES ASSUME NEW c \in Calls, Renewing(c),
                      kv[KeyOf[c]] = c, kv'[KeyOf[c]] # c
               PROVE  kv'[KeyOf[c]] = Absent /\ faults' > faults
    OBVIOUS
  <2>1. k = KeyOf[c] /\ kv'[k] = Absent
    BY <1>4 DEF IInv, TypeOK, Keys, Expire
  <2> QED
    BY <1>4, <2>1 DEF IInv, TypeOK, Expire, Fault
<1>5. ASSUME UNCHANGED kv PROVE Kept
  BY <1>5
<1>6. IInv /\ [Next]_vars => Kept \/ UNCHANGED vars
  <2> SUFFICES ASSUME IInv, Next PROVE Kept
    OBVIOUS
  <2>1. \/ \E d \in Calls : UnregisterOk(d)
        \/ \E d \in Calls : Arrive(d)
        \/ \E k \in Keys : Expire(k)
        \/ UNCHANGED kv
    BY DEF Next, RegisterStep, HeartbeatStep, Reserve, Refuse, GrantOk,
       GrantFails, SendPut, PutOk, PutFails, GiveUp, Tick, Done,
       UnregisterFails, Signal, Cancel, CancelReturns, CloseCancels,
       CloseClient, Crash, etcd
  <2> QED
    BY <1>2, <1>3, <1>4, <1>5, <2>1
<1> QED
  BY <1>6, Invariance, PTL DEF Spec, KeyLostOnlyByFault

(* The call is over, and nothing of it is in etcd or on its way there.     *)
Gone(c) ==
  /\ crashed \/ pc[c] \in {"failed", "exit"}
  /\ c \notin flight /\ kv[KeyOf[c]] # c

(* The safety half of GoneEventually: a registration that is gone stays    *)
(* gone.  No action of the process or of etcd puts its key again.          *)
THEOREM GoneForGood == Spec => [][\A c \in Calls : Gone(c) => Gone(c)']_vars
<1> DEFINE Stays == \A c \in Calls : Gone(c) => Gone(c)'
<1>1. ASSUME TypeOK, NEW d \in Calls, RegisterStep(d) \/ HeartbeatStep(d)
      PROVE  Stays
  <2>1. /\ ~crashed /\ pc[d] \notin {"failed", "exit"} /\ crashed' = crashed
        /\ \A c \in Calls \ {d} : pc'[c] = pc[c]
        /\ flight' \subseteq flight \cup {d}
        /\ kv' = kv \/ kv' = [kv EXCEPT ![KeyOf[d]] = Absent]
    BY <1>1
    DEF TypeOK, RegisterStep, HeartbeatStep, Step, Reserve, Refuse, GrantOk,
        GrantFails, SendPut, PutOk, PutFails, GiveUp, Tick, Done, UnregisterOk,
        UnregisterFails, Signal, etcd
  <2> SUFFICES ASSUME NEW c \in Calls, Gone(c) PROVE Gone(c)'
    OBVIOUS
  <2>2. c # d /\ pc'[c] = pc[c] /\ c \notin flight'
    BY <2>1 DEF Gone
  <2>3. kv'[KeyOf[c]] # c
    BY <1>1, <2>1, CallsAssumption DEF Gone, TypeOK, Keys
  <2> QED
    BY <2>1, <2>2, <2>3 DEF Gone
<1>2. ASSUME TypeOK, NEW d \in Calls, Arrive(d) PROVE Stays
  BY <1>2 DEF Arrive, Gone, TypeOK, Keys, process
<1>3. ASSUME TypeOK, NEW k \in Keys, Expire(k) PROVE Stays
  BY <1>3, CallsAssumption DEF Expire, Gone, TypeOK, process
<1>4. ASSUME \/ \E x \in Callers : Cancel(x) \/ CancelReturns(x)
             \/ CloseCancels \/ CloseClient \/ Crash
      PROVE  Stays
  BY <1>4
  DEF Cancel, CancelReturns, CloseCancels, CloseClient, Crash, Gone, etcd
<1>5. TypeOK /\ [Next]_vars => Stays \/ UNCHANGED vars
  BY <1>1, <1>2, <1>3, <1>4 DEF Next
<1> QED
  BY <1>5, TypeCorrect, PTL DEF Spec
-----------------------------------------------------------------------------
(* A live registration is in etcd.                                         *)

(* Without faults, what makes a Register fail is Close.                    *)
FailsByClose ==
  \A c \in Calls : pc[c] \in {"failing", "failed"} \/ (first[c] /\ c \in done)
                     => client # "open"

(* A name that is free again is taken by calls that Close has cancelled    *)
(* before they began: they send no Put, and never return from Register.    *)
TooLate ==
  \A c, d \in Calls : NameOf[c] = NameOf[d] /\ Holds(c) /\ pc[d] = "failed"
                        => first[c] /\ c \in done

(* The Put of c has arrived, and c has yet to hear of it.                  *)
Arrived(c) == pc[c] = "await" /\ c \notin flight \cup done

InEtcd ==
  ~crashed => \A c \in Calls :
    (pc[c] \in Beating /\ ~first[c]) \/ Arrived(c) => kv[KeyOf[c]] = c

(* first falls when the first Put is answered.                             *)
FirstUntilPut == \A c \in Calls : pc[c] = "idle" => first[c]

LiveInv == FirstUntilPut /\ (faults = 0 => FailsByClose /\ TooLate /\ InEtcd)

(* Faults are counted, not taken back.                                     *)
LEMMA FaultsGrow ==
  ASSUME TypeOK, [Next]_vars, faults' = 0
  PROVE  faults = 0
<1> USE DEF TypeOK
<1>1. faults' = faults \/ faults' = faults + 1
  BY DEF Next, RegisterStep, HeartbeatStep, Reserve, Refuse, GrantOk,
     GrantFails, SendPut, PutOk, PutFails, GiveUp, Tick, Done, UnregisterOk,
     UnregisterFails, Signal, Arrive, Expire, Cancel, CancelReturns, CloseCancels,
     CloseClient, Crash, RequestFails, Fault, etcd, process, vars
<1> QED
  BY <1>1

LEMMA FirstUntilPutStep == TypeOK /\ FirstUntilPut /\ [Next]_vars => FirstUntilPut'
BY DEF TypeOK, FirstUntilPut, Step, Next, RegisterStep, HeartbeatStep, Reserve, Refuse,
   GrantOk, GrantFails, SendPut, PutOk, PutFails, GiveUp, Tick, Done, UnregisterOk,
   UnregisterFails, Signal, Arrive, Expire, Cancel, CancelReturns, CloseCancels,
   CloseClient, Crash, AfterError, process, vars

LEMMA FailsByCloseStep ==
  ASSUME TypeOK, FailsByClose, [Next]_vars, faults = 0, faults' = 0
  PROVE  FailsByClose'
<1> USE DEF TypeOK, FailsByClose, Step
<1>1. ASSUME NEW c \in Calls, Reserve(c) PROVE FailsByClose'
  BY <1>1 DEF Reserve, etcd
<1>2. ASSUME NEW c \in Calls, Refuse(c) \/ GrantOk(c) \/ SendPut(c) \/ PutOk(c)
      PROVE  FailsByClose'
  BY <1>2 DEF Refuse, GrantOk, SendPut, PutOk, etcd
<1>3. ASSUME NEW c \in Calls, GrantFails(c) PROVE FailsByClose'
  <2>1. client = "closed"
    BY <1>3 DEF GrantFails, RequestFails, Fault
  <2> QED
    BY <1>3, <2>1 DEF GrantFails
<1>4. ASSUME NEW c \in Calls, PutFails(c) PROVE FailsByClose'
  <2>1. c \in done \/ client = "closed"
    BY <1>4 DEF PutFails, RequestFails, Fault
  <2> QED
    BY <1>4, <2>1 DEF PutFails, AfterError
<1>5. ASSUME NEW c \in Calls, GiveUp(c) PROVE FailsByClose'
  BY <1>5 DEF GiveUp, etcd
<1>6. ASSUME NEW c \in Calls, HeartbeatStep(c) \/ Arrive(c) PROVE FailsByClose'
  BY <1>6
  DEF HeartbeatStep, Tick, Done, UnregisterOk, UnregisterFails, Signal, Arrive,
      etcd, process
<1>7. ASSUME NEW x \in Callers, Cancel(x) \/ CancelReturns(x) PROVE FailsByClose'
  BY <1>7 DEF Cancel, CancelReturns, etcd
<1>8. ASSUME NEW k \in Keys, Expire(k) PROVE FailsByClose'
  BY <1>8 DEF Expire, process
<1>9. CASE CloseCancels \/ CloseClient \/ Crash \/ UNCHANGED vars
  BY <1>9 DEF CloseCancels, CloseClient, Crash, vars, process, etcd
<1> QED
  BY <1>1, <1>2, <1>3, <1>4, <1>5, <1>6, <1>7, <1>8, <1>9 DEF Next, RegisterStep

LEMMA TooLateStep ==
  ASSUME IInv, FirstUntilPut, FailsByClose, TooLate, [Next]_vars
  PROVE  TooLate'
<1> USE DEF IInv, TypeOK, TooLate, Holds, Step
<1>1. ASSUME NEW c \in Calls, Reserve(c) PROVE TooLate'
  BY <1>1 DEF Reserve, FirstUntilPut, FailsByClose, etcd
<1>2. ASSUME NEW c \in Calls, Refuse(c) \/ GrantOk(c) \/ GrantFails(c) \/ SendPut(c)
                                 \/ PutFails(c)
      PROVE  TooLate'
  BY <1>2 DEF Refuse, GrantOk, GrantFails, SendPut, PutFails, AfterError, etcd
<1>3. ASSUME NEW c \in Calls, PutOk(c) PROVE TooLate'
  BY <1>3 DEF PutOk, etcd
<1>4. ASSUME NEW c \in Calls, GiveUp(c) PROVE TooLate'
  <2>1. Holds(c) /\ \A d \in Calls \ {c} : NameOf[d] = NameOf[c] => ~Holds(d)
    BY <1>4 DEF GiveUp, NameHeld, OneRegistrationPerName
  <2> QED
    BY <1>4, <2>1 DEF GiveUp, etcd
<1>5. ASSUME NEW c \in Calls, HeartbeatStep(c) \/ Arrive(c) PROVE TooLate'
  BY <1>5
  DEF HeartbeatStep, Tick, Done, UnregisterOk, UnregisterFails, Signal, Arrive,
      etcd, process
<1>6. ASSUME NEW x \in Callers, Cancel(x) \/ CancelReturns(x) PROVE TooLate'
  BY <1>6 DEF Cancel, CancelReturns, etcd
<1>7. ASSUME NEW k \in Keys, Expire(k) PROVE TooLate'
  BY <1>7 DEF Expire, process
<1>8. CASE CloseCancels \/ CloseClient \/ Crash \/ UNCHANGED vars
  BY <1>8 DEF CloseCancels, CloseClient, Crash, vars, process, etcd
<1> QED
  BY <1>1, <1>2, <1>3, <1>4, <1>5, <1>6, <1>7, <1>8 DEF Next, RegisterStep

LEMMA InEtcdStep ==
  ASSUME IInv, FirstUntilPut, TooLate, InEtcd, [Next]_vars, faults = 0, faults' = 0
  PROVE  InEtcd'
<1> USE CallsAssumption DEF IInv, TypeOK, InEtcd, Arrived, Beating, Step
<1>1. ASSUME NEW c \in Calls, RegisterStep(c) \/ Tick(c) \/ Done(c)
                                \/ UnregisterFails(c) \/ Signal(c)
      PROVE  InEtcd'
  <2>1. UNCHANGED kv
    BY <1>1
    DEF RegisterStep, Reserve, Refuse, GrantOk, GrantFails, SendPut, PutOk,
        PutFails, GiveUp, Tick, Done, UnregisterFails, Signal, etcd
  <2>2. ASSUME NEW d \in Calls, d # c, (pc'[d] \in Beating /\ ~first'[d]) \/ Arrived(d)'
        PROVE  (pc[d] \in Beating /\ ~first[d]) \/ Arrived(d)
    BY <1>1, <2>2
    DEF RegisterStep, Reserve, Refuse, GrantOk, GrantFails, SendPut, PutOk,
        PutFails, GiveUp, Tick, Done, UnregisterFails, Signal, etcd
  <2>3. ASSUME (pc'[c] \in Beating /\ ~first'[c]) \/ Arrived(c)'
        PROVE  (pc[c] \in Beating /\ ~first[c]) \/ Arrived(c)
    BY <1>1, <2>3
    DEF RegisterStep, Reserve, Refuse, GrantOk, GrantFails, SendPut, PutOk,
        PutFails, GiveUp, Tick, Done, UnregisterFails, Signal, AfterError,
        FirstUntilPut, etcd
  <2>4. ~crashed
    BY <1>1
    DEF RegisterStep, Reserve, Refuse, GrantOk, GrantFails, SendPut, PutOk,
        PutFails, GiveUp, Tick, Done, UnregisterFails, Signal
  <2> QED
    BY <2>1, <2>2, <2>3, <2>4
<1>2. ASSUME NEW c \in Calls, UnregisterOk(c) PROVE InEtcd'
  <2>1. \A d \in Calls \ {c} : KeyOf[d] = KeyOf[c] => ~Holds(d)
    BY <1>2 DEF UnregisterOk, NameHeld, OneRegistrationPerName, Holds
  <2> QED
    BY <1>2, <2>1 DEF UnregisterOk, Holds, Keys
<1>3. ASSUME NEW c \in Calls, Arrive(c) PROVE InEtcd'
  <2>1. ASSUME NEW d \in Calls, d # c, KeyOf[d] = KeyOf[c]
        PROVE  ~(pc[d] \in Beating /\ ~first[d]) /\ ~Arrived(d)
    BY <1>3, <2>1
    DEF Arrive, FlightOwned, NameHeld, OneRegistrationPerName, TooLate, Holds
  <2> QED
    BY <1>3, <2>1 DEF Arrive, process, Keys
<1>4. ASSUME NEW k \in Keys, Expire(k) PROVE InEtcd'
  <2>1. ~Renewing(kv[k])
    BY <1>4 DEF Expire, Fault
  <2> QED
    BY <1>4, <2>1 DEF Expire, Renewing, process, Keys
<1>5. ASSUME NEW x \in Callers, Cancel(x) \/ CancelReturns(x) PROVE InEtcd'
  BY <1>5 DEF Cancel, CancelReturns, etcd
<1>6. CASE CloseCancels \/ CloseClient \/ Crash \/ UNCHANGED vars
  BY <1>6 DEF CloseCancels, CloseClient, Crash, vars, process, etcd
<1> QED
  BY <1>1, <1>2, <1>3, <1>4, <1>5, <1>6 DEF Next, HeartbeatStep

(* LiveInEtcd, the safety half of HeartbeatRestores: while no request and  *)
(* no lease is lost, what Register has returned is in etcd, under its own  *)
(* lease, at every moment until its goroutine unregisters it - however     *)
(* many other calls of Register for its name were refused, and whatever    *)
(* Puts are still on their way.                                            *)
THEOREM LiveStays == Spec => []LiveInEtcd
<1>1. Init => LiveInv
  BY DEF Init, LiveInv, FirstUntilPut, FailsByClose, TooLate, InEtcd, Holds, Beating,
         Arrived
<1>2. IInv /\ LiveInv /\ [Next]_vars => LiveInv'
  BY FirstUntilPutStep, FaultsGrow, FailsByCloseStep, TooLateStep, InEtcdStep DEF IInv,
         LiveInv
<1>3. LiveInv => LiveInEtcd
  BY DEF LiveInv, InEtcd, LiveInEtcd
<1> QED
  BY <1>1, <1>2, <1>3, Invariance, PTL DEF Spec
=============================================================================
