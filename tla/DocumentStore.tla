---------------------------- MODULE DocumentStore ----------------------------
(***************************************************************************)
(* What the document storage promises Harmony, without directories,        *)
(* buckets, uploads or failures: a name gets one identity, that of the     *)
(* first document stored under it, and keeps it for good; what is reported *)
(* under a name has been stored, and is that identity.                     *)
(***************************************************************************)
CONSTANTS
  Name,      \* names of documents
  Identity   \* what a name may stand for

VARIABLES
  stored,    \* the identity of each name: none, or one
  reported   \* the identities that Harmony was told

vars == <<stored, reported>>

Init == /\ stored = [n \in Name |-> {}]
        /\ reported = [n \in Name |-> {}]

Store(n, i) == /\ stored[n] = {}
               /\ stored' = [stored EXCEPT ![n] = {i}]
               /\ UNCHANGED reported

Report(n) == /\ stored[n] # {}
             /\ reported' = [reported EXCEPT ![n] = @ \cup stored[n]]
             /\ UNCHANGED stored

Next == \E n \in Name : Report(n) \/ \E i \in Identity : Store(n, i)

Spec == Init /\ [][Next]_vars
=============================================================================
