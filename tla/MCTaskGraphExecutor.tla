-------------------------- MODULE MCTaskGraphExecutor --------------------------
(* Small task graphs for TLC. *)
EXTENDS TaskGraphExecutor, Sequences

Graph(edges, guarded, gated, kinds) ==
    [edges |-> edges, guarded |-> guarded, gated |-> gated,
     kind |-> [n \in Nodes |-> kinds[n]]]

\* All graphs over three tool calls whose edges run down the list, with every
\* condition but "data"; the last step may need an approval.
ForwardEdges == {<<1, 2>>, <<1, 3>>, <<2, 3>>}
SmallGraphs ==
    {Graph(edges, {}, gated, <<"tool_call", "tool_call", "tool_call">>) :
        edges \in UNION {[E -> {"always", "on_success", "on_skipped"}] : E \in SUBSET ForwardEdges},
        gated \in {{}, {3}}}

Always(E) == [e \in E |-> "always"]

\* Steps of every kind: a fork with data branches, a join of a question and a
\* stop, a list whose order of position is not the order of dependency, and
\* the graphs validation would have refused: a cycle behind a good step, a
\* step that depends on an unknown one.
Shapes == {
    Graph([e \in {<<1, 2>>, <<1, 3>>} |-> IF e = <<1, 2>> THEN "data" ELSE "on_success"],
          {3}, {2}, <<"delegate", "tool_call", "finalize">>),
    Graph(Always({<<1, 3>>, <<2, 3>>}), {}, {1}, <<"ask_human", "stop", "finalize">>),
    Graph(Always({<<3, 2>>, <<2, 1>>}), {}, {2, 3}, <<"finalize", "delegate", "tool_call">>),
    Graph(Always({<<1, 2>>, <<2, 3>>, <<3, 2>>}), {}, {}, <<"tool_call", "delegate", "ask_human">>),
    Graph(Always({<<1, 2>>, <<NoStep, 3>>}), {2}, {}, <<"tool_call", "delegate", "finalize">>)}

AllGraphs == SmallGraphs \cup Shapes

\* A step to fall back on when the first has failed.
Fallback ==
    {Graph([e \in {<<1, 2>>} |-> "on_failure"], {}, {}, <<"tool_call", "delegate">>)}

================================================================================
