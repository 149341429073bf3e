----------------------------- MODULE MCRuntimeTask -----------------------------
(* Workflow runs and their tasks for TLC. *)
EXTENDS RuntimeTask, TLC

CONSTANTS rest, first, second, ownTask, sharedTask

\* A submitted task; the same, and two direct runs on one record.
Submission == rest :> ownTask
Redelivery == (rest :> ownTask) @@ (first :> sharedTask) @@ (second :> sharedTask)

\* Records are apart: a behaviour is about the submitted task or about the others.
SharedNext ==
    \E r \in Runs :
        /\ \A q \in Runs : taskOf[q] # taskOf[r] => stage[q] = "idle"
        /\ Prepare(r) \/ Perform(r) \/ Conclude(r)

SharedSpec == Init /\ [][SharedNext]_vars

RunSymmetry == Permutations(Runs \ Rest) \cup Permutations(Steps)

================================================================================
