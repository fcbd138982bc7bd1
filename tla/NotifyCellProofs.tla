-------------------------- MODULE NotifyCellProofs --------------------------
(* Proofs about NotifyCell: what the modules that implement it promise,    *)
(* for any readers and any values.                                         *)
EXTENDS NotifyCell, TLAPS

(* NoLostUpdate is inductive together with the types.                      *)
IInv == TypeOK /\ NoLostUpdate

(* Nobody has joined at first.                                             *)
LEMMA IInvInit == Init => IInv
BY DEF Init, IInv, TypeOK, NoLostUpdate

(* What a reader knows when it has read is the cell, and whoever has       *)
(* joined is told of a replacement.                                        *)
LEMMA IInvStep == IInv /\ [Next]_vars => IInv'
<1> SUFFICES ASSUME IInv, [Next]_vars PROVE IInv'
  OBVIOUS
<1> USE DEF IInv, TypeOK, NoLostUpdate
<1>1. CASE Publish
  BY <1>1 DEF Publish
<1>2. ASSUME NEW r \in Readers, Join(r) PROVE IInv'
  BY <1>2 DEF Join
<1>3. ASSUME NEW r \in Readers, Leave(r) \/ Peek(r) PROVE IInv'
  BY <1>3 DEF Leave, Peek
<1>4. ASSUME NEW r \in Readers, Read(r) PROVE IInv'
  BY <1>4 DEF Read
<1>5. CASE UNCHANGED vars
  BY <1>5 DEF vars
<1> QED
  BY <1>1, <1>2, <1>3, <1>4, <1>5 DEF Next

(* A reader that was told of a replacement since it joined, and has no     *)
(* notification on its way, has read what the cell holds: what Discovery   *)
(* and Conf take over by implementing NotifyCell.                          *)
THEOREM NothingLost == Spec => []NoLostUpdate
<1>1. IInv => NoLostUpdate
  BY DEF IInv
<1> QED
  BY <1>1, IInvInit, IInvStep, PTL DEF Spec

(* What a reader knows is a value that the cell had: it changes only to    *)
(* what the cell holds in that step, and while the reader has joined only  *)
(* if a notification was on its way.                                       *)
THEOREM OnlyTheCell ==
  Spec => [][\A r \in Readers : known'[r] # known[r] =>
               known'[r] = cell /\ cell' = cell /\ (r \in joined => r \in pending)]_vars
<1> DEFINE Step == \A r \in Readers : known'[r] # known[r] =>
                     known'[r] = cell /\ cell' = cell /\ (r \in joined => r \in pending)
<1>1. IInv /\ Next => Step
  <2> SUFFICES ASSUME IInv, Next PROVE Step
    OBVIOUS
  <2> USE DEF IInv, TypeOK
  <2>1. CASE Publish
    BY <2>1 DEF Publish
  <2>2. ASSUME NEW r \in Readers, Peek(r) \/ Join(r) \/ Leave(r) \/ Read(r) PROVE Step
    BY <2>2 DEF Peek, Join, Leave, Read
  <2> QED
    BY <2>1, <2>2 DEF Next
<1> QED
  BY <1>1, IInvInit, IInvStep, PTL DEF Spec
=============================================================================
