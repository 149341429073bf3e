-------------------------- MODULE TaskGraphContract --------------------------
(***************************************************************************)
(* How a plan becomes the graph that is executed: the orchestrator's answer *)
(* is normalized and has to pass the gates of normalize_orchestrator_result, *)
(* the critic may have a second plan appended to it, and an execution that   *)
(* fails may be replaced by a third one.  Only the steps of a plan are ever  *)
(* executed: what runs is built from them again, also where the answer       *)
(* brought a graph of its own, which is the one that was validated.          *)
(*                                                                         *)
(* An id is the sequence of its words: <<>> is a missing one, and            *)
(* <<"rp1", "s1">> is "rp1_s1".  A kind is "work" for every kind that is not  *)
(* special here, "missing" where the contract refuses the step (a delegate   *)
(* without an agent too), "unknown" is none of the contract's, and "junk" is   *)
(* an entry that is no step at all.                                         *)
(***************************************************************************)
EXTENDS OrderedItems, SequencesExt

CONSTANTS
    PlanAnswers,        \* what the orchestrator may answer: steps, and a graph or NoGraph
    RevisedAnswers,     \* what it may answer to a request for another plan
    StepNames,          \* "s1", "s2", ...
    ReplanNames         \* "rp1", "rp2", ...

VARIABLES
    planStage,          \* run_planning_stage, run_execution_stage
    planned,            \* the orchestrator's normalized output
    active,             \* the graph the executor goes through
    base,               \* history: the graph a second plan was appended to
    foreign             \* history: a graph was validated that its steps do not give

contractVars == <<planStage, planned, active, base, foreign>>

NoGraph == [nodes |-> <<>>, edges |-> {}]

PlanKinds == {"work", "finalize", "stop", "replan", "missing", "junk", "unknown"}
PlanSteps == [id : Seq(STRING), parent : Seq(STRING), kind : PlanKinds]
PlanEdges == [from : Seq(STRING), to : Seq(STRING), condition : {"always", "critic_rejected", "other"}]

IsAnswer(answer) ==
    /\ answer.steps \in Seq(PlanSteps) /\ answer.graph.nodes \in Seq(PlanSteps)
    /\ answer.graph.edges \subseteq PlanEdges

(* There is a name for every step of a plan, and one for a replan that none of   *)
(* them has: plans are finite, the names are not.                              *)
ASSUME ContractAssumption ==
    /\ StepNames \in [DOMAIN StepNames -> STRING]
    /\ ReplanNames \in [DOMAIN ReplanNames -> STRING] /\ DOMAIN ReplanNames \subseteq Nat
    /\ \A answer \in PlanAnswers \cup RevisedAnswers :
         /\ IsAnswer(answer)
         /\ DOMAIN answer.steps \cup DOMAIN answer.graph.nodes \subseteq DOMAIN StepNames
         /\ \E k \in DOMAIN ReplanNames :
              /\ \A i \in DOMAIN StepNames : StepNames[i] # ReplanNames[k]
              /\ \A i \in DOMAIN answer.steps : answer.steps[i].id # <<ReplanNames[k]>>

ContractInit ==
    /\ planStage = "asked"
    /\ planned = [steps |-> <<>>, graph |-> NoGraph]
    /\ active = NoGraph /\ base = NoGraph /\ foreign = FALSE

-----------------------------------------------------------------------------
(* Normalization *)

FillIds(nodes) ==
    [i \in DOMAIN nodes |-> [nodes[i] EXCEPT !.id = IF @ = <<>> THEN <<StepNames[i]>> ELSE @]]

(* A node gets an id and a kind whatever it is. *)
FillNodes(nodes) ==
    [i \in DOMAIN nodes |->
        [FillIds(nodes)[i] EXCEPT !.kind = IF @ \in {"missing", "junk"} THEN "work" ELSE @]]

(* What a node comes after: its parent, or, for a finalize without one, all    *)
(* that is listed before it, and for a stop the step just before it.           *)
Sources(nodes, i) ==
    CASE nodes[i].parent # <<>>             -> {nodes[i].parent}
      [] nodes[i].parent = <<>> /\ nodes[i].kind = "finalize"
                                            -> {nodes[j].id : j \in 1 .. (i - 1)}
      [] nodes[i].parent = <<>> /\ nodes[i].kind = "stop" /\ i > 1
                                            -> {nodes[i - 1].id}
      [] OTHER                              -> {}

GeneratedEdges(nodes) ==
    UNION {{[from |-> source, to |-> nodes[i].id, condition |-> "always"] :
              source \in Sources(nodes, i)} : i \in DOMAIN nodes}

(* build_task_graph_from_plan_steps *)
BuildTaskGraph(steps) ==
    [nodes |-> FillNodes(steps), edges |-> GeneratedEdges(FillNodes(steps))]

(* normalize_task_graph: a graph without nodes is built from the steps, one     *)
(* without edges gets those its nodes give.                                    *)
NormalizeTaskGraph(graph, steps) ==
    IF graph.nodes = <<>> THEN BuildTaskGraph(steps)
    ELSE [nodes |-> FillNodes(graph.nodes),
          edges |-> IF graph.edges = {} THEN GeneratedEdges(FillNodes(graph.nodes))
                    ELSE graph.edges]

(* normalize_orchestrator_output: an entry that is no step is left out, but it  *)
(* counts for the names of those after it.                                     *)
NormalizeOutput(answer) ==
    LET named == FillIds(answer.steps)
        steps == ItemsAt(named, {i \in DOMAIN named : named[i].kind # "junk"}) IN
    [steps |-> steps, graph |-> NormalizeTaskGraph(answer.graph, steps)]

-----------------------------------------------------------------------------
(* The gates *)

GraphIds(graph) == {graph.nodes[i].id : i \in DOMAIN graph.nodes}
IdsOf(nodes) ==
    ItemsAt([i \in DOMAIN nodes |-> nodes[i].id], {i \in DOMAIN nodes : nodes[i].id # <<>>})

DistinctIds(graph) ==
    \A i, j \in DOMAIN graph.nodes : graph.nodes[i].id = graph.nodes[j].id => i = j

(* dependency_map, of the contract and of the executor *)
Dependencies(graph) ==
    [id \in GraphIds(graph) |->
        {node.parent : node \in {n \in ToSet(graph.nodes) : n.id = id /\ n.parent # <<>>}}
          \cup {edge.from : edge \in {e \in graph.edges : e.to = id}}]

(* The loops of _visit and of its caller over a set of ids: what is being visited *)
(* and what has been are told along.                                            *)
Loops(deps) == [ids : SUBSET DOMAIN deps, visiting : SUBSET DOMAIN deps,
                visited : SUBSET DOMAIN deps]

(* _visit, which loops over the steps it depends on. *)
Visit(search, deps, id, visiting, visited) ==
    IF id \in visited THEN [cyclic |-> FALSE, visited |-> visited]
    ELSE IF id \in visiting THEN [cyclic |-> TRUE, visited |-> visited]
    ELSE LET found == search[[ids |-> deps[id] \cap DOMAIN deps,
                              visiting |-> visiting \cup {id}, visited |-> visited]] IN
         IF found.cyclic THEN found
         ELSE [cyclic |-> FALSE, visited |-> found.visited \cup {id}]

(* A loop ends at the first cycle. *)
VisitAll(search, deps, loop) ==
    IF loop.ids = {} THEN [cyclic |-> FALSE, visited |-> loop.visited]
    ELSE LET id    == CHOOSE id \in loop.ids : TRUE
             found == Visit(search, deps, id, loop.visiting, loop.visited) IN
         IF found.cyclic THEN found
         ELSE search[[ids |-> loop.ids \ {id}, visiting |-> loop.visiting,
                      visited |-> found.visited]]

HasCycle(deps) ==
    LET search[loop \in Loops(deps)] == VisitAll(search, deps, loop)
    IN search[[ids |-> DOMAIN deps, visiting |-> {}, visited |-> {}]].cyclic

(* validate_task_graph *)
ValidTaskGraph(graph) ==
    /\ graph.nodes # <<>> /\ DistinctIds(graph)
    /\ \A node \in ToSet(graph.nodes) : /\ node.kind # "unknown"
                                       /\ node.parent \in GraphIds(graph) \cup {<<>>}
    /\ \A edge \in graph.edges : {edge.from, edge.to} \subseteq GraphIds(graph)
    /\ ~HasCycle(Dependencies(graph))

(* normalize_orchestrator_result: the steps of the answer as it comes have to   *)
(* be those of the normalized graph.                                           *)
Accepted(answer) ==
    LET output == NormalizeOutput(answer) IN
    /\ answer.steps # <<>>
    /\ \A step \in ToSet(output.steps) : step.kind # "missing"
    /\ ValidTaskGraph(output.graph)
    /\ IdsOf(answer.steps) = IdsOf(output.graph.nodes)

-----------------------------------------------------------------------------
(* append_replan_subgraph *)

(* The first id of a replan that no step has. *)
ReplanId(graph) ==
    LET free == {k \in DOMAIN ReplanNames : <<ReplanNames[k]>> \notin GraphIds(graph)} IN
    <<ReplanNames[CHOOSE k \in free : \A other \in free : k <= other]>>

(* Mutant: the last step only. *)
LastStep(graph) == {Len(graph.nodes)}

(* The places of the steps nothing comes after. *)
TerminalSteps(graph) ==
    {i \in DOMAIN graph.nodes : \A e \in graph.edges : e.from # graph.nodes[i].id}

(* The steps nothing of their own plan leads to, or else the first. *)
EntrySteps(graph) ==
    LET entries == {id \in GraphIds(graph) : \A e \in graph.edges : e.to # id}
    IN IF entries = {} THEN {Head(graph.nodes).id} ELSE entries

(* An edge that names a step the plan does not have raises a KeyError. *)
Appendable(graph) ==
    \A e \in graph.edges : {e.from, e.to} \subseteq GraphIds(graph)

AppendReplan(graph, revised) ==
    LET rp == ReplanId(graph)
        ends == TerminalSteps(graph)
        last == CHOOSE i \in ends : \A j \in ends : j <= i
        replan == [id |-> rp, parent |-> IF ends = {} THEN <<>> ELSE graph.nodes[last].id,
                   kind |-> "replan"]
        renamed == [i \in DOMAIN revised.nodes |->
                      [revised.nodes[i] EXCEPT !.id = rp \o @,
                                               !.parent = IF @ = <<>> THEN rp ELSE rp \o @]]
        rejected == {[from |-> graph.nodes[i].id, to |-> rp, condition |-> "critic_rejected"] : i \in ends}
        inside == {[e EXCEPT !.from = rp \o @, !.to = rp \o @] : e \in revised.edges}
        entering == {[from |-> rp, to |-> rp \o id, condition |-> "always"] : id \in EntrySteps(revised)}
    IN [nodes |-> graph.nodes \o <<replan>> \o renamed,
        edges |-> graph.edges \cup rejected \cup inside \cup entering]

-----------------------------------------------------------------------------
(* The stages *)

IsForeign(output) == output.graph # BuildTaskGraph(output.steps)

(* _generate_final_answer normalizes the answer, and the gate does so again. *)
Orchestrate(answer) ==
    LET output == NormalizeOutput(answer) IN
    /\ planStage = "asked"
    /\ IF Accepted(output)
       THEN /\ planned' = NormalizeOutput(output) /\ foreign' = IsForeign(planned')
            /\ planStage' = "reviewing"
       ELSE planStage' = "failed" /\ UNCHANGED <<planned, foreign>>
    /\ UNCHANGED <<active, base>>

(* The critic's answer is ok: what the orchestrator brought, which has no nodes *)
(* at its top level, goes to the executor and is built from its steps.          *)
CriticAccepts ==
    /\ planStage = "reviewing"
    /\ planStage' = "executing"
    /\ active' = NormalizeTaskGraph(NoGraph, planned.steps)
    /\ UNCHANGED <<planned, base, foreign>>

(* should_replan: the answer is not ok, or is no review at all. *)
CriticRejects ==
    /\ planStage = "reviewing"
    /\ planStage' = "revising"
    /\ base' = NormalizeTaskGraph(NoGraph, planned.steps)
    /\ UNCHANGED <<planned, active, foreign>>

Revise(answer) ==
    LET output == NormalizeOutput(answer)
        revised == NormalizeTaskGraph(NoGraph, NormalizeOutput(output).steps) IN
    /\ planStage = "revising"
    /\ IF Accepted(output) /\ Appendable(revised)
       THEN /\ active' = AppendReplan(base, revised)
            /\ foreign' = (foreign \/ IsForeign(NormalizeOutput(output)))
            /\ planStage' = "executing"
       ELSE planStage' = "failed" /\ UNCHANGED <<active, foreign>>
    /\ UNCHANGED <<planned, base>>

(* _maybe_runtime_replan: once, and from nothing. *)
RuntimeReplan(answer) ==
    LET output == NormalizeOutput(answer) IN
    /\ planStage = "executing"
    /\ IF Accepted(output)
       THEN /\ planned' = NormalizeOutput(output) /\ foreign' = IsForeign(planned')
            /\ active' = NormalizeTaskGraph(NoGraph, planned'.steps)
            /\ base' = NoGraph /\ planStage' = "replanned"
       ELSE planStage' = "failed" /\ UNCHANGED <<planned, foreign, active, base>>

ContractNext ==
    \/ planStage = "asked" /\ \E answer \in PlanAnswers : Orchestrate(answer)
    \/ CriticAccepts \/ CriticRejects
    \/ \E answer \in RevisedAnswers : Revise(answer) \/ RuntimeReplan(answer)

ContractSpec == ContractInit /\ [][ContractNext]_contractVars

-----------------------------------------------------------------------------
(* Properties *)

IsExecuted == planStage \in {"executing", "replanned"}

(* A step of the first plan that is already named like one of a replan. *)
NamedLikeReplan == \E id \in GraphIds(base) : Len(id) > 1

(* No set of steps waits for itself, and no step for one that is not there: the *)
(* reference for what the search for cycles and the other checks are to bring   *)
(* about.                                                                      *)
CanFinish(graph) ==
    LET deps == Dependencies(graph) IN
    /\ \A id \in DOMAIN deps : deps[id] \subseteq DOMAIN deps
    /\ \A waiting \in (SUBSET DOMAIN deps) \ {{}} : \E id \in waiting : deps[id] \cap waiting = {}

(* The graph that is executed has distinct steps and can be gone through to its *)
(* end, after a replan too: a plan with a cycle or an unknown parent passes no   *)
(* gate.  A graph of the orchestrator's own is the exception, since it is        *)
(* validated in the place of what its steps give (normalize_orchestrator_result);  *)
(* so is a first plan whose step has the name one of the second is given, since   *)
(* what is appended is not validated again.                                       *)
ExecutedCanFinish ==
    IsExecuted /\ ~foreign /\ ~NamedLikeReplan =>
        CanFinish(active) /\ DistinctIds(active)

(* A second plan that the critic asked for leaves the first as it was and comes  *)
(* after every step of it: no set of steps that has all it waits for has one of   *)
(* the second plan and not all of the first (append_replan_subgraph).           *)
RevisionComesLast ==
    planStage = "executing" /\ base # NoGraph /\ ~foreign /\ ~NamedLikeReplan =>
        /\ IsPrefix(base.nodes, active.nodes) /\ base.edges \subseteq active.edges
        /\ \A ids \in SUBSET GraphIds(active) :
             /\ ids \ GraphIds(base) # {}
             /\ \A id \in ids : Dependencies(active)[id] \subseteq ids
             => GraphIds(base) \subseteq ids

(* Whatever the plans were, what is executed can finish, and a revision ends it. *)
PlansCanFinish == ExecutedCanFinish /\ RevisionComesLast
=============================================================================
