--------------------------- MODULE MCJevTaskGraph ---------------------------
(***************************************************************************)
(* Model values for JevTaskGraph, and the graph rules against reference       *)
(* definitions, for every set of edges over the Root and three tasks.         *)
(***************************************************************************)
EXTENDS JevTaskGraph

CONSTANTS a, b

Three == {1, 2, 3}
Vertices == Three \cup {Root}
Pairs == {p \in Three \X Vertices : p[1] # p[2]}
EdgesOf(R, kind) == {<<p[1], p[2], kind>> : p \in R}

\* No execution of an accepted graph can deadlock, and only such a graph is refused:
\* in every set of unfinished nodes one waits for nothing in the set, neither for a
\* prerequisite nor, as the Root does, for a child.
Sound(V, E) ==
    \A S \in SUBSET V \ {{}} :
        \E v \in S : /\ \A p \in S : <<p, v, "requires">> \notin E
                     /\ v = Root => S = {Root}
ASSUME AcceptedIffSound ==
    \A R \in SUBSET Pairs :
        LET E == EdgesOf(R, "requires")
        IN  AcceptedGraph(Vertices, E) <=> Sound(Vertices, E)

\* affected is the least set that contains the revised task and every consumer of its
\* members, through requirements and context.
ASSUME AffectedIsLeast ==
    \A R \in SUBSET Pairs, kind \in {"requires", "context"}, t \in Three :
        LET closed == {S \in SUBSET Vertices :
                          t \in S /\ \A p \in R : p[1] \in S => p[2] \in S}
        IN  Followers(Vertices, EdgesOf(R, kind), t) = {v \in Vertices : \A S \in closed : v \in S}

\* The plan has b after a, by a requirement or by context, and all edge commands
\* were given before the work began.
PlannedInit ==
    /\ phase = "execute" /\ root = "active" /\ stop = "no"
    /\ task = [t \in Tasks |-> IF t[2] = 1 THEN New ELSE [New EXCEPT !.state = "absent"]]
    /\ superseded = {}
    /\ \E k \in Kinds : edges = {<<<<a, 1>>, <<b, 1>>, k>>}
    /\ patches = MaxPatches
    /\ revision = NoRevision
    /\ report = NoReport

PlannedSpec == PlannedInit /\ [][Next]_vars /\ Fairness
=============================================================================
