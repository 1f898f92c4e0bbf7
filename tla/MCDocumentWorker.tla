-------------------------- MODULE MCDocumentWorker --------------------------
(* Small instances of DocumentWorker for TLC.                              *)
EXTENDS DocumentWorker, TLC

CONSTANTS w1, w2, s1, s2, s3, s4

\* One valid request.
KindsValid == (s1 :> "valid")

\* One request on which the parser raises.
KindsOneUncaught == (s1 :> "uncaught")

\* A valid request, one that is refused for good, one the parser raises on,
\* and one whose producer set internal headers.
KindsAll == (s1 :> "valid") @@ (s2 :> "invalid-json") @@ (s3 :> "uncaught")
            @@ (s4 :> "unsigned-state")

\* One request, or the valid one alone and the others together.
OneRequest == {{s} : s \in Source}
ValidOrOthers == {{s1}} \cup SUBSET (Source \ {s1})

\* All instances retry once, or twice, or disagree during a rollout.
RetriesOnce == [w \in Worker |-> 1]
RetriesTwice == [w \in Worker |-> 2]
RetriesRollout == (w1 :> 0) @@ (w2 :> 1)

WorkerSymmetry == Permutations(Worker)
=============================================================================
