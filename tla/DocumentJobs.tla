---------------------------- MODULE DocumentJobs ----------------------------
(***************************************************************************)
(* What the document service promises of a job, without queues, retries or *)
(* processes: a request the broker has accepted stays open until its       *)
(* outcome is recorded somewhere, in Harmony or in the archive, an outcome *)
(* is never withdrawn, and a closed job never opens again.  Outcomes may   *)
(* still arrive after the job is closed, from a duplicate or a late worker.*)
(***************************************************************************)
CONSTANT Job

VARIABLES
  accepted,  \* jobs whose request has been taken
  open,      \* jobs with work left in the service
  outcomes   \* outcomes recorded for each job

vars == <<accepted, open, outcomes>>

Outcome == {"done", "failed", "archived"}

Init == /\ accepted = {}
        /\ open = {}
        /\ outcomes = [j \in Job |-> {}]

Accept(j) == /\ j \notin accepted
             /\ accepted' = accepted \cup {j}
             /\ open' = open \cup {j}
             /\ UNCHANGED outcomes

\* Several outcomes of a job come one at a time.
Record(j, o) == /\ j \in accepted
                /\ outcomes' = [outcomes EXCEPT ![j] = @ \cup {o}]
                /\ UNCHANGED <<accepted, open>>

Close(j) == /\ j \in open
            /\ outcomes[j] # {}
            /\ open' = open \ {j}
            /\ UNCHANGED <<accepted, outcomes>>

Next == \E j \in Job : \/ Accept(j)
                       \/ \E o \in Outcome : Record(j, o)
                       \/ Close(j)

Spec == Init /\ [][Next]_vars
=============================================================================
