----------------------------- MODULE NotifyCell -----------------------------
(***************************************************************************)
(* What every hot-reload path of motor promises, without saying how.  A    *)
(* cell holds one value that is only ever replaced as a whole (the         *)
(* atomic.Value of serverInfo and of Storage).  Readers join, are told     *)
(* that the cell was replaced, and then read it.  Several replacements may *)
(* be merged into one notification, a notification may arrive for a value  *)
(* already read, but no reader that was told may stay behind without one   *)
(* pending.  A reader that joins is told of nothing: what it read before   *)
(* may be older than the cell, until the next replacement.                 *)
(*                                                                         *)
(* Discovery (one cell per service) and Conf (one cell per watched file)   *)
(* are shown to implement it.                                              *)
(***************************************************************************)
CONSTANTS Readers, Values

VARIABLES
  cell,     \* the current value
  joined,   \* the readers that are to be told of replacements
  pending,  \* the readers with a notification on its way
  told,     \* the joined readers that a replacement was announced to since
            \* they joined
  known     \* per reader: the value it read last

vars == <<cell, joined, pending, told, known>>

TypeOK ==
  /\ cell \in Values
  /\ joined \in SUBSET Readers
  /\ pending \in SUBSET joined
  /\ told \in SUBSET joined
  /\ known \in [Readers -> Values]

Init ==
  /\ cell \in Values
  /\ joined = {}
  /\ pending = {}
  /\ told = {}
  /\ known \in [Readers -> Values]

(* Before it joins a reader may read unasked.                              *)
Peek(r) ==
  /\ r \notin joined
  /\ known' = [known EXCEPT ![r] = cell]
  /\ UNCHANGED <<cell, joined, pending, told>>

(* A joining reader may still catch the notification of a replacement that *)
(* is being announced while it joins.                                      *)
Join(r) ==
  /\ r \notin joined
  /\ joined' = joined \cup {r}
  /\ pending' \in {pending, pending \cup {r}}
  /\ UNCHANGED <<cell, told, known>>

Leave(r) ==
  /\ r \in joined
  /\ joined' = joined \ {r}
  /\ pending' = pending \ {r}
  /\ told' = told \ {r}
  /\ UNCHANGED <<cell, known>>

Publish ==
  /\ cell' \in Values
  /\ pending' = joined
  /\ told' = joined
  /\ UNCHANGED <<joined, known>>

(* Reading need not consume the notification: it may still be on its way.  *)
Read(r) ==
  /\ r \in pending
  /\ known' = [known EXCEPT ![r] = cell]
  /\ pending' \in {pending, pending \ {r}}
  /\ told' = told \cup {r}
  /\ UNCHANGED <<cell, joined>>

Next ==
  \/ Publish
  \/ \E r \in Readers : Peek(r) \/ Join(r) \/ Leave(r) \/ Read(r)

Spec == Init /\ [][Next]_vars

(* A reader that was told, with no notification on its way, has read what  *)
(* the cell holds now.                                                     *)
NoLostUpdate == \A r \in told \ pending : known[r] = cell
=============================================================================
