---------------------------- MODULE DependencyOrder ----------------------------
(***************************************************************************)
(* What the executor of a TaskGraph promises: steps come to a terminal     *)
(* state in groups, each after everything it depends on, and when steps    *)
(* are reset to run again, whatever was built on them is reset with them.  *)
(* How waves, conditions, approvals and resume requests bring this about   *)
(* is the business of TaskGraphExecutor, which implements this module.     *)
(***************************************************************************)
EXTENDS FiniteSets

CONSTANTS
    Nodes,   \* the steps of the graph
    Ids      \* the ids a dependency may name, those of no step included

VARIABLES
    deps,    \* the ids each step depends on
    done     \* the steps in a terminal state

vars == <<deps, done>>

Init ==
    /\ deps \in [Nodes -> SUBSET Ids]
    /\ done = {}

\* A group of steps, none of which waits for another, becomes terminal.
Finish(group) ==
    /\ group \subseteq Nodes \ done
    /\ \A n \in group : deps[n] \subseteq done
    /\ done' = done \cup group
    /\ UNCHANGED deps

\* A set of steps is to run again. No terminal step outside it depends on it.
Reset(group) ==
    /\ \A n \in done : deps[n] \cap group # {} => n \in group
    /\ done' = done \ group
    /\ UNCHANGED deps

Next == \E group \in SUBSET Nodes : Finish(group) \/ Reset(group)

Spec == Init /\ [][Next]_vars

================================================================================
