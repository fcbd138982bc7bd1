----------------------------- MODULE Heartbeat -----------------------------
(***************************************************************************)
(* The timing of one registration's heartbeats (naming/etcd.go): the       *)
(* ticker of Register fires every LeaseTTL/3 seconds, integer division,    *)
(* and each tick grants a lease of LeaseTTL seconds and then moves the key *)
(* to it.  The key disappears when the lease it hangs on runs out.         *)
(*                                                                         *)
(* Registry leaves time out and lets a lease expire by a fault; here the   *)
(* question is which faults can make it expire.  Time passes in seconds.   *)
(***************************************************************************)
EXTENDS Integers

CONSTANTS
  LeaseTTL,  \* etcdConf.LeaseTTL
  MaxLag,    \* longest time from a Grant to the arrival of its Put
  MaxMissed  \* heartbeats that may fail in a row

(* Below 3 seconds the interval is 0, and time.NewTicker panics.           *)
Interval == LeaseTTL \div 3

ASSUME HeartbeatAssumption ==
  /\ LeaseTTL \in Nat /\ LeaseTTL >= 3
  /\ MaxLag \in Nat /\ MaxLag < Interval
  /\ MaxMissed \in {0, 1}
  /\ (MaxMissed + 1) * Interval + 2 * MaxLag < LeaseTTL

VARIABLES
  left,    \* seconds left of the lease the key hangs on; 0: the key is gone
  fresh,   \* seconds left of a granted lease whose Put is on its way, or 0
  next,    \* seconds until the ticker fires
  missed   \* heartbeats that failed since the last that succeeded

vars == <<left, fresh, next, missed>>

TypeOK ==
  /\ left \in 0..LeaseTTL
  /\ fresh \in 0..LeaseTTL
  /\ next \in 0..Interval
  /\ missed \in 0..MaxMissed

(* Register's own registerLease has just succeeded.  Its lease is as old as *)
(* its Put was slow, and only now the ticker starts.                       *)
Init ==
  /\ left \in (LeaseTTL - MaxLag)..LeaseTTL
  /\ fresh = 0
  /\ next = Interval
  /\ missed = 0

(* Mutant of Second: the ticker does not fire.                             *)
SecondUnasked ==
  /\ fresh > 0 => LeaseTTL - fresh < MaxLag
  /\ next' = next - 1
  /\ left' = IF left > 0 THEN left - 1 ELSE 0
  /\ fresh' = IF fresh > 0 THEN fresh - 1 ELSE 0
  /\ UNCHANGED missed

Second ==
  /\ next > 0
  /\ fresh > 0 => LeaseTTL - fresh < MaxLag
  /\ next' = next - 1
  /\ left' = IF left > 0 THEN left - 1 ELSE 0
  /\ fresh' = IF fresh > 0 THEN fresh - 1 ELSE 0
  /\ UNCHANGED missed

(* The ticker fires, and Grant succeeds.                                   *)
Grant ==
  /\ next = 0
  /\ fresh = 0
  /\ fresh' = LeaseTTL
  /\ next' = Interval
  /\ UNCHANGED <<left, missed>>

(* The ticker fires, and Grant fails.                                      *)
GrantFails ==
  /\ next = 0
  /\ fresh = 0
  /\ missed < MaxMissed
  /\ missed' = missed + 1
  /\ next' = Interval
  /\ UNCHANGED <<left, fresh>>

(* Mutant of PutOk: the Put leaves the key on its old lease.               *)
PutOldLease ==
  /\ fresh > 0
  /\ fresh' = 0
  /\ missed' = 0
  /\ UNCHANGED <<left, next>>

(* The key moves to the new lease, or appears again.                       *)
PutOk ==
  /\ fresh > 0
  /\ left' = fresh
  /\ fresh' = 0
  /\ missed' = 0
  /\ UNCHANGED next

PutFails ==
  /\ fresh > 0
  /\ missed < MaxMissed
  /\ fresh' = 0
  /\ missed' = missed + 1
  /\ UNCHANGED <<left, next>>

Next == Second \/ Grant \/ GrantFails \/ PutOk \/ PutFails

Spec == Init /\ [][Next]_vars

(* A registration survives one failed heartbeat: its key never disappears, *)
(* for every LeaseTTL whatever its remainder by 3, as long as twice the    *)
(* lag fits into what two intervals leave of LeaseTTL.  Twice, because the *)
(* ticker starts after the first Put, a lag after its lease was granted.   *)
NeverExpires == left > 0
=============================================================================
