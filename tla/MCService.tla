----------------------------- MODULE MCService -----------------------------
(* Instance of Service for TLC: the loader and another Resolve of the same *)
(* service, which registers with two data.                                 *)
EXTENDS Service

CONSTANTS db, r1, r2, n1, n2, bj, test, u1

AloneUnder == [s \in {db} |-> {db}]
BothDb     == [r \in {r1, r2} |-> db]

Instance(master, slave) ==
  [idc |-> bj, env |-> test, good |-> TRUE, master |-> master, slave |-> slave]
TwoData == <<Instance(<<n1>>, <<>>), Instance(<<n2>>, <<n1>>)>>
=============================================================================
