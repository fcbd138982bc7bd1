----------------------------- MODULE MCRegistry -----------------------------
(* Instances of Registry for TLC: two Register calls of one name (a retry  *)
(* after an error, or a duplicate), and cancelFuncs called once or twice.  *)
EXTENDS Registry

CONSTANTS a, b, x, y, z

SameName == [c \in {a, b} |-> "motor"]
SameKey  == [c \in {a, b} |-> "motor/default/test"]
CancelBoth  == [u \in {x, y} |-> IF u = x THEN a ELSE b]
CancelTwice == [u \in {x, y, z} |-> IF u = y THEN b ELSE a]
=============================================================================
