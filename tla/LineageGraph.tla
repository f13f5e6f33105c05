---------------------------- MODULE LineageGraph ----------------------------
(* The execution graph (ExecutionGraph) of what the reader of Lineage read.    *)
EXTENDS Lineage, ExecutionGraph

\* The client gives an event its id when the call begins: a parent that is an
\* event has the smaller number.
ASSUME ForeignAssumption == \A i \in DOMAIN Foreign : Foreign[i].parent < Foreign[i].id

\* The graph of what was read: every event is in it, and if none was read twice
\* it is there once and its cost counts once; otherwise the total is too high.
\* Nothing is lost in a cycle, because parents come first.
GraphHoldsAll ==
    rpc = "done" =>
      LET g == GroupOf(seen, Own)
          nodes == Flatten(g)
          total == Total(g, Cost(g))
          costs == Sum(Of(Cost(g), SetToSeq(Ids(g))))
          once == Len(g) = Cardinality(Ids(g))
      IN  /\ Ids(g) = {nodes[k] : k \in DOMAIN nodes}
          /\ once => Len(nodes) = Len(g) /\ total = costs
          /\ total >= costs
=============================================================================
