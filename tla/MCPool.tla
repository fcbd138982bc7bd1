------------------------------- MODULE MCPool -------------------------------
(* Instances of Pool for TLC: a file that may fail to parse, and a service *)
(* that is deleted from naming.                                            *)
EXTENDS Pool

CONSTANTS n1, n2, bj, sh, test, prod, u1, u2

Instance(idc, master, slave) ==
  [idc |-> idc, env |-> test, good |-> TRUE, master |-> master, slave |-> slave]

(* Instance of another environment, or with attributes that do not parse. *)
Stray == [Instance(sh, <<n1>>, <<n1>>) EXCEPT !.env = prod]
Bad   == [Instance(bj, <<n1>>, <<n1>>) EXCEPT !.good = FALSE]

(* One with a master and no slave is registered, among others. *)
First  == <<Instance(bj, <<n1>>, <<>>), Stray, Bad>>
Edited == <<Instance(bj, <<n1>>, <<n2>>)>>
Torn   == <<Instance(bj, <<n1>>, <<n1>>)>>
(* Two masters in one cluster. *)
TwoNodes == <<Instance(bj, <<n1, n2>>, <<n1>>)>>

(* A service that may be deleted. *)
InNaming == {First, <<>>}
(* A file that is written again, and may not parse for a while. *)
InFile   == {Edited, Torn}
Unparsed == {Torn}
Nodes    == {TwoNodes}
=============================================================================
