--------------------------- MODULE ExecutionGraph ---------------------------
(* build_execution_graphs (lineage.py): the trees of the events of one        *)
(* correlation id, linked by parent_request_id, and the sums over them.       *)
(*                                                                            *)
(* Abstractions.  A group is a sequence of events in the order they are       *)
(* given; a node is the id of its event.  The tool calls of a node are left   *)
(* out.  Recursion and loops are recursive functions, for the proofs.         *)
EXTENDS EventQuery

Ids(g) == {g[i].id : i \in DOMAIN g}

GroupOf(events, corr) == Pick(events, {i \in DOMAIN events : events[i].corr = corr})

\* {ev.event_id: node}: of several events with one id the last one is the node.
Node(g, id) == g[CHOOSE i \in DOMAIN g :
                   g[i].id = id /\ \A j \in DOMAIN g : g[j].id = id => j <= i]

NodesOf(rows) == [k \in DOMAIN rows |-> rows[k].id]

\* Mutant: only an event without a parent is a root.
RootsWithoutParent(g) == NodesOf(Pick(g, {i \in DOMAIN g : g[i].parent = 0}))

\* No parent, or one outside of the group.  An event that is there twice is a
\* root, or a child, twice.
Roots(g) == NodesOf(Pick(g, {i \in DOMAIN g : g[i].parent \notin Ids(g)}))

Children(g, id) == NodesOf(Pick(g, {i \in DOMAIN g : g[i].parent = id}))

Sum(numbers) ==
    LET sum[k \in 0..Len(numbers)] == IF k = 0 THEN 0 ELSE sum[k - 1] + numbers[k]
    IN  sum[Len(numbers)]

\* The values of some nodes.
Of(value, nodes) == [k \in DOMAIN nodes |-> value[nodes[k]]]

\* _compute_subtree_metrics: a node's cost, latency or tokens and those below it.
Subtree(g, value) ==
    LET subtree[id \in Ids(g)] == value[id] + Sum(Of(subtree, Children(g, id)))
    IN  subtree

\* total_cost, total_latency_ms, total_tokens
Total(g, value) == Sum(Of(Subtree(g, value), Roots(g)))

Cost(g) == [id \in Ids(g) |-> Node(g, id).cost]
One(g) == [id \in Ids(g) |-> 1]

\* flatten: depth first, a node before its children.  The stack is empty after
\* as many steps as the trees have nodes.
Flatten(g) ==
    LET loop[k \in 0..Total(g, One(g))] ==
          IF k = 0 THEN [stack |-> Roots(g), out |-> <<>>]
          ELSE LET was == loop[k - 1]
                   node == Head(was.stack)
               IN  IF was.stack = <<>> THEN was
                   ELSE [stack |-> Children(g, node) \o Tail(was.stack),
                         out |-> Append(was.out, node)]
    IN  loop[Total(g, One(g))].out
=============================================================================
