--------------------------- MODULE QueueRotation ---------------------------
(* How claim_next goes round the graphs: the event queue with a history of   *)
(* how often each graph was passed over.                                    *)
EXTENDS DurableEventQueue

ASSUME RotationAssumption == IsFiniteSet(Graphs)

\* History: how many claims other graphs got while this graph had an event
\* that could have been claimed.
VARIABLE overtaken

\* Claimable for every clock in use, the oldest one included.
HasClaimable(g) == \E e \in Events : GraphOf[e] = g /\ Claimable(e, MaxWait)
ServedIn(g) == \E e \in Events : GraphOf[e] = g /\ attempts'[e] > attempts[e]
Overtaken(g) ==
    IF HasClaimable(g) /\ ~ServedIn(g)
    THEN overtaken[g] + Cardinality({h \in Graphs : ServedIn(h)})
    ELSE 0

HistoryInit == Init /\ overtaken = [g \in Graphs |-> 0]
HistoryNext == Next /\ overtaken' = [g \in Graphs |-> Overtaken(g)]
HistorySpec == HistoryInit /\ [][HistoryNext]_<<vars, overtaken>>

\* claim_next goes round the graphs: no graph with a claimable event is passed
\* over more often than there are other graphs, however many events they have.
RoundRobin == \A g \in Graphs : overtaken[g] <= Cardinality(Graphs) - 1

\* Why: whoever passed a graph over now stands behind it in the order of claims.
Behind(g) == {h \in Graphs : rank[h] > rank[g]}
PassedStandBehind == \A g \in Graphs : overtaken[g] <= Cardinality(Behind(g))
=============================================================================
