---------------------------- MODULE MCDiscovery ----------------------------
(* Instances of Discovery for TLC: a service "user" with two resolvers,    *)
(* and a note that another program keeps below the same prefix.            *)
EXTENDS Discovery

CONSTANTS user, note, r1, r2

AloneUnder == [s \in {user} |-> {user}]
NoteUnder  == [s \in {user} |-> {user, note}]
BothUser   == [r \in {r1, r2} |-> user]
=============================================================================
