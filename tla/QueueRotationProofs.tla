------------------------ MODULE QueueRotationProofs ------------------------
(***************************************************************************)
(* Theorems about QueueRotation for every finite set of graphs and every     *)
(* number of events and hosts.                                              *)
(***************************************************************************)
EXTENDS QueueRotation, DurableEventQueueProofs, FiniteSetTheorems

\* No clock in use is older than the longest wait for the lock.
\* An event that is being handled has been claimed, so that a retry has a time.
Fresh ==
    /\ delay \in [Events -> Int]
    /\ \A e \in Events : state[e] = "processing" => attempts[e] > 0
    /\ \A w \in Workers : age[w] <= MaxWait

Counted ==
    /\ rank \in [Graphs -> Nat]
    /\ overtaken \in [Graphs -> Nat]

RotationInv == Timed /\ Fresh /\ Counted /\ PassedStandBehind

\* Places in the order of claims are finitely many.
LEMMA FewPlaces ==
    ASSUME NEW f \in [Graphs -> Nat], NEW S \in SUBSET Graphs
    PROVE  IsFiniteSet({f[k] : k \in S})
<1> DEFINE T == {f[k] : k \in S}
           F == [k \in S |-> f[k]]
<1>1. IsFiniteSet(S)
  BY RotationAssumption, FS_Subset
<1>2. F \in Surjection(S, T)
  BY DEF Surjection
<1> HIDE DEF T, F
<1>3. IsFiniteSet(T)
  BY <1>1, <1>2, FS_Surjection
<1>q. QED BY <1>3 DEF T

\* A proper subset of a finite set is smaller.
LEMMA ProperSubset ==
    ASSUME NEW S, IsFiniteSet(S), NEW T \in SUBSET S, T # S
    PROVE  /\ Cardinality(T) \in Nat /\ Cardinality(S) \in Nat
           /\ Cardinality(T) < Cardinality(S)
<1>1. /\ Cardinality(T) <= Cardinality(S) /\ Cardinality(T) # Cardinality(S)
      /\ IsFiniteSet(T)
  BY FS_Subset
<1>q. QED BY <1>1, FS_CardinalityType

\* ServedLast puts the served graph behind every other one, and leaves two others in
\* the order they had.
LEMMA ServedLastOrder ==
    ASSUME rank \in [Graphs -> Nat], NEW g \in Graphs
    PROVE  /\ ServedLast(g) \in [Graphs -> Nat]
           /\ \A h \in Graphs \ {g} :
                /\ ServedLast(g)[g] > ServedLast(g)[h]
                /\ \A k \in Graphs \ {g} :
                      rank[k] > rank[h] => ServedLast(g)[k] > ServedLast(g)[h]
<1> DEFINE All == {rank[k] : k \in Graphs \ {g}}
           Below(h) == {rank[k] : k \in {k \in Graphs \ {g} : rank[k] < rank[h]}}
<1>1. IsFiniteSet(All)
  BY FewPlaces
<1>2. ASSUME NEW h \in Graphs \ {g} PROVE IsFiniteSet(Below(h))
  BY FewPlaces
<1>3. /\ ServedLast(g)[g] = Cardinality(All)
      /\ \A h \in Graphs \ {g} : ServedLast(g)[h] = Cardinality(Below(h))
  BY DEF ServedLast
<1>4. ServedLast(g) \in [Graphs -> Nat]
  <2>1. Cardinality(All) \in Nat /\ \A h \in Graphs \ {g} : Cardinality(Below(h)) \in Nat
    BY <1>1, <1>2, FS_CardinalityType
  <2>q. QED BY <2>1 DEF ServedLast
<1>5. ASSUME NEW h \in Graphs \ {g}
      PROVE  Cardinality(All) > Cardinality(Below(h))
  <2>1. Below(h) \in SUBSET All
    OBVIOUS
  <2>2. rank[h] \in All /\ rank[h] \notin Below(h)
    OBVIOUS
  <2> HIDE DEF All, Below
  <2>3. Cardinality(Below(h)) \in Nat /\ Cardinality(All) \in Nat /\ Cardinality(Below(h)) < Cardinality(All)
    BY <1>1, <2>1, <2>2, ProperSubset
  <2>q. QED BY <2>3
<1>6. ASSUME NEW h \in Graphs \ {g}, NEW k \in Graphs \ {g}, rank[k] > rank[h]
      PROVE  Cardinality(Below(k)) > Cardinality(Below(h))
  <2>1. Below(h) \in SUBSET Below(k)
    BY <1>6
  <2>2. rank[h] \in Below(k) /\ rank[h] \notin Below(h)
    BY <1>6
  <2>3. IsFiniteSet(Below(k))
    BY <1>2
  <2> HIDE DEF Below
  <2>4. Cardinality(Below(h)) \in Nat /\ Cardinality(Below(k)) \in Nat /\ Cardinality(Below(h)) < Cardinality(Below(k))
    BY <2>1, <2>2, <2>3, ProperSubset
  <2>q. QED BY <2>4
<1> HIDE DEF All, Below
<1>q. QED BY <1>3, <1>4, <1>5, <1>6

\* What the oldest clock in use sees as claimable, every clock does.
LEMMA AnyClock ==
    ASSUME Timed, Fresh, NEW w \in Workers, NEW e \in Events, Claimable(e, MaxWait)
    PROVE  Claimable(e, age[w])
  BY QueueAssumption DEF Timed, Fresh, Claimable, Ready, GraphIdle, Due, LeaseLive

LEMMA BackoffIsTime ==
    ASSUME NEW e \in Events, attempts[e] \in Nat \ {0}
    PROVE  Backoff(e) \in Int
<1> DEFINE n == IF attempts[e] - 1 < 20 THEN attempts[e] - 1 ELSE 20
<1>1. n \in Nat
  OBVIOUS
<1>2. 2^n \in Int
  <2> HIDE DEF n
  <2>q. QED BY <1>1
<1>3. BaseRetry * 2^n \in Int
  <2> HIDE DEF n
  <2>q. QED BY <1>2, QueueAssumption
<1>q. QED BY <1>3, QueueAssumption DEF Backoff

LEMMA FreshInit == Init => Fresh
  BY QueueAssumption DEF Init, Fresh, LongAgo

LEMMA FreshStep == Timed /\ Fresh /\ [Next]_vars => Fresh'
<1> SUFFICES ASSUME Timed, Fresh, [Next]_vars PROVE Fresh'
  OBVIOUS
<1> USE QueueAssumption DEF Timed, Fresh
<1>1. ASSUME NEW w \in Workers, ReadClock(w) \/ ReadClockToRenew(w) PROVE Fresh'
  BY <1>1 DEF ReadClock, ReadClockToRenew, Begin, events
<1>2. ASSUME NEW w \in Workers, RecoverExpired(w) PROVE Fresh'
  BY <1>2 DEF RecoverExpired, End
<1>3. ASSUME NEW w \in Workers, ClaimNext(w) PROVE Fresh'
  BY <1>3 DEF ClaimNext, End
<1>4. ASSUME NEW w \in Workers, Finish(w) PROVE Fresh'
  <2>1. Holds(w, claim[w].event) /\ claim[w].event \in Events => Backoff(claim[w].event) \in Int
    BY BackoffIsTime DEF Holds
  <2>2. delay' \in [Events -> Int]
    BY <1>4, <2>1 DEF Finish, LongAgo
  <2>3. \A e \in Events : state'[e] = "processing" => state[e] = "processing"
    BY <1>4 DEF Finish, FinalState, Outcomes
  <2>q. QED BY <1>4, <2>2, <2>3 DEF Finish, End
<1>5. ASSUME NEW w \in Workers, Renew(w) PROVE Fresh'
  BY <1>5 DEF Renew, End
<1>6. ASSUME NEW g \in Graphs, NEW c \in Conditions, Wake(g, c) PROVE Fresh'
  BY <1>6 DEF Wake, worker, LongAgo
<1>7. ASSUME NEW e \in Events, Enqueue(e) PROVE Fresh'
  BY <1>7 DEF Enqueue, worker
<1>8. ASSUME NEW g \in Graphs, Stop(g) PROVE Fresh'
  BY <1>8 DEF Stop, worker, events
<1>9. ASSUME NEW w \in Workers, Crash(w) PROVE Fresh'
  BY <1>9 DEF Crash, events, End
<1>10. CASE Tick
  BY <1>10 DEF Tick, Down, InOperation
<1>11. CASE UNCHANGED vars
  BY <1>11 DEF vars, events, worker
<1>q. QED
  BY <1>1, <1>2, <1>3, <1>4, <1>5, <1>6, <1>7, <1>8, <1>9, <1>10, <1>11
     DEF Next, HostNext, HostStep, Environment

(* What a step does to the order of claims. *)

Quiet == rank' = rank /\ attempts' = attempts
Serves(w, e) ==
    /\ Claimable(e, age[w])
    /\ \A x \in Events : Claimable(x, age[w]) => ComesFirst(e, x)
    /\ attempts' = [attempts EXCEPT ![e] = @ + 1]
    /\ rank' = ServedLast(GraphOf[e])

LEMMA WhoIsServed == [Next]_vars => Quiet \/ \E w \in Workers, e \in Events : Serves(w, e)
<1> SUFFICES ASSUME [Next]_vars, ~Quiet PROVE \E w \in Workers, e \in Events : Serves(w, e)
  OBVIOUS
<1>1. PICK w \in Workers : ClaimNext(w)
  BY DEF Next, HostNext, HostStep, Environment, Quiet, ReadClock, ReadClockToRenew, RecoverExpired,
         Finish, Renew, Wake, Enqueue, Stop, Crash, Tick, events, vars
<1>2. PICK e \in Events : Serves(w, e)
  BY <1>1 DEF ClaimNext, Quiet, Serves
<1>q. QED BY <1>2

\* A step that serves nobody leaves everyone where they were.
LEMMA QuietRotation ==
    RotationInv /\ HistoryNext /\ Quiet => overtaken' \in [Graphs -> Nat] /\ PassedStandBehind'
<1> SUFFICES ASSUME RotationInv, HistoryNext, Quiet
             PROVE  overtaken' \in [Graphs -> Nat] /\ PassedStandBehind'
  OBVIOUS
<1>1. {h \in Graphs : ServedIn(h)} = {}
  BY DEF Quiet, ServedIn, RotationInv, Timed
<1>2. ASSUME NEW g \in Graphs
      PROVE  /\ Behind(g)' = Behind(g) /\ Cardinality(Behind(g)) \in Nat
             /\ overtaken'[g] \in {0, overtaken[g]}
  <2>1. Behind(g)' = Behind(g)
    BY DEF Quiet, Behind
  <2>2. Cardinality(Behind(g)) \in Nat
    <3>1. IsFiniteSet(Behind(g))
      BY RotationAssumption, FS_Subset DEF Behind
    <3>q. QED BY <3>1, FS_CardinalityType
  <2>3. overtaken'[g] \in {0, overtaken[g]}
    BY <1>1, FS_EmptySet DEF HistoryNext, Overtaken, RotationInv, Counted
  <2>q. QED BY <2>1, <2>2, <2>3
<1>q. QED
  BY <1>2 DEF RotationInv, Counted, PassedStandBehind, HistoryNext

\* A step that serves a graph puts it behind every graph it passes over.
LEMMA ServedRotation ==
    ASSUME RotationInv, HistoryNext, NEW w \in Workers, NEW e \in Events, Serves(w, e)
    PROVE  rank' \in [Graphs -> Nat] /\ overtaken' \in [Graphs -> Nat] /\ PassedStandBehind'
<1> DEFINE s == GraphOf[e]
<1>0. s \in Graphs /\ rank \in [Graphs -> Nat] /\ overtaken \in [Graphs -> Nat]
  BY QueueAssumption DEF RotationInv, Counted
<1>1. {h \in Graphs : ServedIn(h)} = {s}
  <2>1. \A x \in Events : attempts'[x] > attempts[x] <=> x = e
    BY DEF Serves, RotationInv, Timed
  <2>q. QED BY <2>1, <1>0 DEF ServedIn
<1>2. rank' \in [Graphs -> Nat]
  BY <1>0, ServedLastOrder DEF Serves
<1>3. ASSUME NEW g \in Graphs
      PROVE  /\ IsFiniteSet(Behind(g)) /\ IsFiniteSet(Behind(g)')
             /\ Cardinality(Behind(g)) \in Nat /\ Cardinality(Behind(g)') \in Nat
  <2>1. IsFiniteSet(Behind(g)) /\ IsFiniteSet(Behind(g)')
    BY RotationAssumption, FS_Subset DEF Behind
  <2>q. QED BY <2>1, FS_CardinalityType
<1>4. ASSUME NEW g \in Graphs
      PROVE  overtaken'[g] = IF HasClaimable(g) /\ g # s THEN overtaken[g] + 1 ELSE 0
  <2>1. ServedIn(g) <=> g = s
    BY <1>1
  <2>2. Cardinality({h \in Graphs : ServedIn(h)}) = 1
    BY <1>1, FS_Singleton
  <2>q. QED BY <2>1, <2>2 DEF HistoryNext, Overtaken
<1>5. ASSUME NEW g \in Graphs, HasClaimable(g), g # s
      PROVE  Cardinality(Behind(g)') >= Cardinality(Behind(g)) + 1
  <2>1. PICK x \in Events : GraphOf[x] = g /\ Claimable(x, MaxWait)
    BY <1>5 DEF HasClaimable
  <2>2. rank[s] <= rank[g]
    BY <1>0, <2>1, AnyClock DEF Serves, ComesFirst, RotationInv
  <2>3. s \notin Behind(g)
    BY <1>0, <2>2 DEF Behind
  <2>4. Behind(g) \cup {s} \in SUBSET (Behind(g)')
    <3>1. ASSUME NEW k \in Graphs, k # s, rank[k] > rank[g] PROVE rank'[k] > rank'[g]
      BY <1>0, <1>5, <3>1, ServedLastOrder DEF Serves
    <3>2. rank'[s] > rank'[g]
      BY <1>0, <1>5, ServedLastOrder DEF Serves
    <3>q. QED BY <1>0, <2>3, <3>1, <3>2 DEF Behind
  <2>5. Cardinality(Behind(g) \cup {s}) = Cardinality(Behind(g)) + 1
    BY <1>3, <2>3, FS_AddElement
  <2>6. Cardinality(Behind(g) \cup {s}) <= Cardinality(Behind(g)')
    BY <1>3, <2>4, FS_Subset
  <2>q. QED BY <2>5, <2>6
<1>6. ASSUME NEW g \in Graphs
      PROVE  overtaken'[g] \in Nat /\ overtaken'[g] <= Cardinality(Behind(g)')
  <2>1. overtaken[g] \in Nat /\ overtaken[g] <= Cardinality(Behind(g))
    BY DEF RotationInv, Counted, PassedStandBehind
  <2> HIDE DEF s
  <2>q. QED BY <1>3, <1>4, <1>5, <2>1
<1>7. overtaken' \in [Graphs -> Nat]
  BY <1>6 DEF HistoryNext
<1>q. QED BY <1>2, <1>6, <1>7 DEF PassedStandBehind

LEMMA RotationInit == HistoryInit => RotationInv
<1> SUFFICES ASSUME HistoryInit PROVE RotationInv
  OBVIOUS
<1>1. \A g \in Graphs : Cardinality(Behind(g)) \in Nat
  <2>1. \A g \in Graphs : IsFiniteSet(Behind(g))
    BY RotationAssumption, FS_Subset DEF Behind
  <2>q. QED BY <2>1, FS_CardinalityType
<1>2. Counted /\ PassedStandBehind
  BY <1>1 DEF HistoryInit, Init, Counted, PassedStandBehind
<1>q. QED BY <1>2, TimedInit, FreshInit DEF RotationInv, HistoryInit

LEMMA RotationStep == RotationInv /\ [HistoryNext]_<<vars, overtaken>> => RotationInv'
<1> SUFFICES ASSUME RotationInv, [HistoryNext]_<<vars, overtaken>> PROVE RotationInv'
  OBVIOUS
<1>1. Timed' /\ Fresh'
  BY TimedStep, FreshStep DEF RotationInv, HistoryNext
<1>2. CASE HistoryNext
  <2>1. CASE Quiet
    <3>1. overtaken' \in [Graphs -> Nat] /\ PassedStandBehind' /\ rank' = rank
      BY <1>2, <2>1, QuietRotation DEF Quiet
    <3>q. QED BY <1>1, <3>1 DEF RotationInv, Counted
  <2>2. ASSUME NEW w \in Workers, NEW e \in Events, Serves(w, e) PROVE RotationInv'
    BY <1>1, <1>2, <2>2, ServedRotation DEF RotationInv, Counted
  <2>q. QED BY <1>2, <2>1, <2>2, WhoIsServed DEF HistoryNext
<1>3. CASE UNCHANGED <<vars, overtaken>>
  <2>1. PassedStandBehind' /\ Counted'
    BY <1>3 DEF RotationInv, PassedStandBehind, Counted, Behind, vars
  <2>q. QED BY <1>1, <2>1 DEF RotationInv
<1>q. QED BY <1>2, <1>3

\* A graph does not stand behind itself.
LEMMA RotationBound == RotationInv => RoundRobin
<1> SUFFICES ASSUME RotationInv, NEW g \in Graphs
             PROVE  overtaken[g] <= Cardinality(Graphs) - 1
  BY DEF RoundRobin
<1>1. Behind(g) \in SUBSET (Graphs \ {g}) /\ IsFiniteSet(Graphs \ {g})
  BY RotationAssumption, FS_RemoveElement DEF Behind, RotationInv, Counted
<1>2. Cardinality(Graphs \ {g}) = Cardinality(Graphs) - 1
  BY RotationAssumption, FS_RemoveElement
<1>3. Cardinality(Behind(g)) <= Cardinality(Graphs) - 1
  BY <1>1, <1>2, FS_Subset
<1>4. Cardinality(Behind(g)) \in Nat /\ Cardinality(Graphs) \in Nat
  BY <1>1, RotationAssumption, FS_Subset, FS_CardinalityType
<1>5. overtaken[g] \in Nat /\ overtaken[g] <= Cardinality(Behind(g))
  BY DEF RotationInv, Counted, PassedStandBehind
<1>q. QED BY <1>3, <1>4, <1>5

\* However many graphs and events there are, and however long the hosts wait for the
\* lock, no graph with a claimable event is passed over more often than there are
\* other graphs: claims go round.
THEOREM ClaimsGoRound == HistorySpec => []RoundRobin
<1>1. HistoryInit => RotationInv
  BY RotationInit
<1>2. RotationInv /\ [HistoryNext]_<<vars, overtaken>> => RotationInv'
  BY RotationStep
<1>3. RotationInv => RoundRobin
  BY RotationBound
<1>q. QED BY <1>1, <1>2, <1>3, PTL DEF HistorySpec
=============================================================================
