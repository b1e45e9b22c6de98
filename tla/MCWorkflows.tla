----------------------------- MODULE MCWorkflows -----------------------------
\* Two workflows over the same two node ids; edges between them, and a loop.
EXTENDS Workflows, TLC

CONSTANTS w1, w2, n1, n2, e1, e2, q1, q2

MCNodeLists == {{}, {n1}, {n2}, {n1, n2}}
MCEdgeLists == {{}, {[id |-> e1, src |-> n1, dst |-> n2]}, {[id |-> e2, src |-> n1, dst |-> n1]}}
Symmetry == Permutations({q1, q2}) \cup Permutations({w1, w2})

=============================================================================
