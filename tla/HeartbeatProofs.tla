-------------------------- MODULE HeartbeatProofs --------------------------
(* Proofs about Heartbeat, for every LeaseTTL of 3 seconds or more.        *)
EXTENDS Heartbeat, TLAPS

(* The time since the last tick. *)
Since == Interval - next

(* Both leases are aged by the ticker.  A Grant is made at a tick, so the  *)
(* waiting lease is as old as the time since the last tick.  The lease the *)
(* key hangs on is older by the ticks missed since, by the tick that asked *)
(* for the waiting one, and by the lag of Register's own Put.              *)
AgeInv ==
  /\ fresh = 0 => left >= LeaseTTL - MaxLag - missed * Interval - Since
  /\ fresh > 0 =>
       /\ fresh = LeaseTTL - Since
       /\ Since <= MaxLag
       /\ left >= LeaseTTL - MaxLag - (missed + 1) * Interval - Since

IInv == TypeOK /\ AgeInv

(* The interval is a third of LeaseTTL, rounded down, and never 0.         *)
LEMMA IntervalBounds ==
  /\ Interval \in Nat
  /\ Interval > 0
  /\ 3 * Interval <= LeaseTTL
BY HeartbeatAssumption DEF Interval

(* The counter of missed heartbeats is 0 or 1, which keeps the products    *)
(* with Interval linear.                                                   *)
LEMMA MissedCases ==
  ASSUME TypeOK
  PROVE  /\ missed \in {0, 1}
         /\ missed = 1 => MaxMissed = 1
BY HeartbeatAssumption DEF TypeOK

(* Register's Put left the lease no older than MaxLag.                     *)
LEMMA IInvInit == Init => IInv
<1> SUFFICES ASSUME Init PROVE IInv
  OBVIOUS
<1> USE HeartbeatAssumption, IntervalBounds
<1>1. TypeOK
  BY DEF Init, TypeOK
<1>2. AgeInv
  BY DEF Init, AgeInv, Since
<1> QED
  BY <1>1, <1>2 DEF IInv

(* The ages leave something of every lease.                                *)
LEMMA AgeKeepsAlive == IInv => NeverExpires
<1> SUFFICES ASSUME IInv PROVE left > 0
  BY DEF NeverExpires
<1>1. Since \in 0..Interval
  BY IntervalBounds DEF IInv, TypeOK, Since
<1>2. (missed + 1) * Interval <= (MaxMissed + 1) * Interval
  BY MissedCases, IntervalBounds, HeartbeatAssumption DEF IInv
<1>3. CASE fresh = 0
  <2>1. missed * Interval + Since <= (missed + 1) * Interval
    BY <1>1, MissedCases, IntervalBounds DEF IInv
  <2> QED
    BY <1>1, <1>2, <1>3, <2>1, MissedCases, IntervalBounds, HeartbeatAssumption
    DEF IInv, AgeInv, TypeOK
<1>4. CASE fresh > 0
  BY <1>1, <1>2, <1>4, MissedCases, IntervalBounds, HeartbeatAssumption
  DEF IInv, AgeInv, TypeOK
<1> QED
  BY <1>3, <1>4 DEF IInv, TypeOK

(* One step per event of the heartbeat.                                    *)
LEMMA IInvStep == IInv /\ [Next]_vars => IInv'
<1> SUFFICES ASSUME IInv, [Next]_vars PROVE IInv'
  OBVIOUS
<1> USE HeartbeatAssumption, IntervalBounds, MissedCases DEF IInv, TypeOK, AgeInv, Since
<1>1. CASE Second
  <2>1. left > 0
    BY AgeKeepsAlive DEF NeverExpires
  <2> QED
    BY <1>1, <2>1 DEF Second
<1>2. CASE Grant
  BY <1>2 DEF Grant
<1>3. CASE GrantFails
  BY <1>3 DEF GrantFails
<1>4. CASE PutOk
  BY <1>4 DEF PutOk
<1>5. CASE PutFails
  BY <1>5 DEF PutFails
<1>6. CASE UNCHANGED vars
  BY <1>6 DEF vars
<1> QED
  BY <1>1, <1>2, <1>3, <1>4, <1>5, <1>6 DEF Next

(* NeverExpires holds for every LeaseTTL, lag and number of misses that    *)
(* HeartbeatAssumption allows.                                             *)
THEOREM KeyStays == Spec => []NeverExpires
BY IInvInit, IInvStep, AgeKeepsAlive, PTL DEF Spec

(* The counters of Heartbeat stay within their bounds.                     *)
THEOREM TypeCorrect == Spec => []TypeOK
<1>1. IInv => TypeOK
  BY DEF IInv
<1> QED
  BY <1>1, IInvInit, IInvStep, PTL DEF Spec

(* How much is left, in the worst case: what the intervals of the missed   *)
(* heartbeats and twice the lag leave of LeaseTTL.                         *)
THEOREM LeaseMargin ==
  Spec => [](left >= LeaseTTL - (MaxMissed + 1) * Interval - 2 * MaxLag)
<1>1. IInv => left >= LeaseTTL - (MaxMissed + 1) * Interval - 2 * MaxLag
  <2> SUFFICES ASSUME IInv
               PROVE  left >= LeaseTTL - (MaxMissed + 1) * Interval - 2 * MaxLag
    OBVIOUS
  <2>1. Since \in 0..Interval /\ left \in Nat
    BY IntervalBounds, HeartbeatAssumption DEF IInv, TypeOK, Since
  <2>2. (missed + 1) * Interval <= (MaxMissed + 1) * Interval
    BY MissedCases, IntervalBounds, HeartbeatAssumption DEF IInv
  <2>3. CASE fresh = 0
    <3>1. missed * Interval + Since <= (missed + 1) * Interval
      BY <2>1, MissedCases, IntervalBounds DEF IInv
    <3> QED
      BY <2>1, <2>2, <2>3, <3>1, MissedCases, IntervalBounds, HeartbeatAssumption
      DEF IInv, AgeInv, TypeOK
  <2>4. CASE fresh > 0
    BY <2>1, <2>2, <2>4, MissedCases, IntervalBounds, HeartbeatAssumption
    DEF IInv, AgeInv, TypeOK
  <2> QED
    BY <2>3, <2>4 DEF IInv, TypeOK
<1> QED
  BY <1>1, IInvInit, IInvStep, PTL DEF Spec
=============================================================================
