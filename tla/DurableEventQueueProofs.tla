----------------------- MODULE DurableEventQueueProofs -----------------------
(***************************************************************************)
(* Theorems about DurableEventQueue for every set of events, graphs and      *)
(* hosts and every length of the leases and waits.                          *)
(***************************************************************************)
EXTENDS DurableEventQueue, TLAPS

\* Times are integers, a clock is never ahead, and a worker's claim is a claim.
Timed ==
    /\ lease \in [Events -> Int]
    /\ age \in [Workers -> Nat]
    /\ claim \in [Workers -> [event : Events \cup {None}, generation : Nat]]
    /\ attempts \in [Events -> Nat]
    /\ state \in [Events -> {"absent", "done", "blocked", "processing"} \cup Waiting]

LEMMA TimedInit == Init => Timed
  BY QueueAssumption DEF Init, Timed, NoClaim

\* A worker that finds a lease over by its old clock is right: the lease is over.
LEMMA OldClocksAreCautious ==
    ASSUME Timed, NEW e \in Events, NEW w \in Workers, HeldNow(e)
    PROVE  LeaseLive(e, age[w])
  BY DEF Timed, HeldNow, LeaseLive

LEMMA TimedStep == Timed /\ [Next]_vars => Timed'
<1> SUFFICES ASSUME Timed, [Next]_vars PROVE Timed'
  OBVIOUS
<1> USE QueueAssumption DEF Timed, Waiting
<1>1. ASSUME NEW w \in Workers, ReadClock(w) PROVE Timed'
  BY <1>1 DEF ReadClock, Begin, events
<1>2. ASSUME NEW w \in Workers, RecoverExpired(w) PROVE Timed'
  BY <1>2 DEF RecoverExpired, End
<1>3. ASSUME NEW w \in Workers, ClaimNext(w) PROVE Timed'
  BY <1>3 DEF ClaimNext, End, Claimable
<1>4. ASSUME NEW w \in Workers, Finish(w) PROVE Timed'
  BY <1>4 DEF Finish, End, FinalState, Outcomes, NoClaim
<1>5. ASSUME NEW w \in Workers, ReadClockToRenew(w) \/ Renew(w) PROVE Timed'
  BY <1>5 DEF ReadClockToRenew, Renew, Begin, End, events
<1>6. ASSUME NEW g \in Graphs, NEW c \in Conditions, Wake(g, c) PROVE Timed'
  BY <1>6 DEF Wake, worker
<1>7. CASE Environment
  <2>1. ASSUME NEW e \in Events, Enqueue(e) PROVE Timed'
    BY <2>1 DEF Enqueue, worker
  <2>2. ASSUME NEW g \in Graphs, Stop(g) PROVE Timed'
    BY <2>2 DEF Stop, worker, events
  <2>3. ASSUME NEW w \in Workers, Crash(w) PROVE Timed'
    BY <2>3 DEF Crash, events, End, NoClaim
  <2>4. CASE Tick
    BY <2>4 DEF Tick, Down
  <2>q. QED BY <1>7, <2>1, <2>2, <2>3, <2>4 DEF Environment
<1>8. CASE UNCHANGED vars
  BY <1>8 DEF vars, events, worker
<1>q. QED
  BY <1>1, <1>2, <1>3, <1>4, <1>5, <1>6, <1>7, <1>8 DEF Next, HostNext, HostStep

\* What the host does is what the class allows.
LEMMA HostIsAllowed == [HostNext]_vars => [Next]_vars
  BY DEF Next

\* A claim never meets a live lease of its graph, and no other step of the host
\* makes a lease live.
LEMMA OneLiveClaimStep ==
    Timed /\ OneLiveClaimPerGraph /\ [HostNext]_vars => OneLiveClaimPerGraph'
<1> SUFFICES ASSUME Timed, OneLiveClaimPerGraph, [HostNext]_vars
             PROVE  OneLiveClaimPerGraph'
  OBVIOUS
<1>0. ASSUME \A e \in Events : HeldNow(e)' => HeldNow(e)
      PROVE  OneLiveClaimPerGraph'
  BY <1>0 DEF OneLiveClaimPerGraph
<1>1. ASSUME NEW w \in Workers, ReadClock(w) PROVE OneLiveClaimPerGraph'
  BY <1>1, <1>0 DEF ReadClock, events, HeldNow
<1>2. ASSUME NEW w \in Workers, RecoverExpired(w) PROVE OneLiveClaimPerGraph'
  BY <1>2, <1>0 DEF RecoverExpired, HeldNow, Timed
<1>3. ASSUME NEW w \in Workers, ClaimNext(w) PROVE OneLiveClaimPerGraph'
  <2>1. ASSUME NEW e \in Events, Claimable(e, age[w]),
               \A x \in Events : HeldNow(x)' => x = e \/ HeldNow(x)
        PROVE  OneLiveClaimPerGraph'
    <3>1. \A x \in Events : GraphOf[x] = GraphOf[e] => ~HeldNow(x)
      BY <2>1, OldClocksAreCautious DEF Claimable, GraphIdle, HeldNow
    <3>q. QED BY <2>1, <3>1 DEF OneLiveClaimPerGraph
  <2>2. CASE {e \in Events : Claimable(e, age[w])} = {}
    <3>1. \A x \in Events : HeldNow(x)' => HeldNow(x)
      BY <1>3, <2>2 DEF ClaimNext, HeldNow, Timed
    <3>q. QED BY <3>1, <1>0
  <2>3. ASSUME NEW e \in Events, Claimable(e, age[w]),
               state' = [x \in Events |-> IF x = e THEN "processing"
                            ELSE IF x \in Exhausted(age[w]) THEN "blocked" ELSE state[x]],
               lease' = [x \in Events |-> IF x = e THEN Lease - age[w]
                            ELSE IF x \in Exhausted(age[w]) THEN 0 ELSE lease[x]]
        PROVE  OneLiveClaimPerGraph'
    <3>1. \A x \in Events : HeldNow(x)' => x = e \/ HeldNow(x)
      BY <2>3 DEF HeldNow
    <3>q. QED BY <3>1, <2>1, <2>3
  <2>q. QED BY <1>3, <2>2, <2>3 DEF ClaimNext
<1>4. ASSUME NEW w \in Workers, Finish(w) PROVE OneLiveClaimPerGraph'
  BY <1>4, <1>0 DEF Finish, HeldNow, FinalState, Outcomes, Timed
<1>5. CASE Environment
  <2>1. ASSUME NEW e \in Events, Enqueue(e) PROVE OneLiveClaimPerGraph'
    BY <2>1, <1>0 DEF Enqueue, HeldNow, Timed
  <2>2. ASSUME NEW g \in Graphs, Stop(g) PROVE OneLiveClaimPerGraph'
    BY <2>2, <1>0 DEF Stop, events, HeldNow
  <2>3. ASSUME NEW w \in Workers, Crash(w) PROVE OneLiveClaimPerGraph'
    BY <2>3, <1>0 DEF Crash, events, HeldNow
  <2>4. CASE Tick
    BY <2>4, <1>0, QueueAssumption DEF Tick, Down, HeldNow, Timed
  <2>q. QED BY <1>5, <2>1, <2>2, <2>3, <2>4 DEF Environment
<1>6. CASE UNCHANGED vars
  BY <1>6, <1>0 DEF vars, events, HeldNow
<1>q. QED
  BY <1>1, <1>2, <1>3, <1>4, <1>5, <1>6 DEF HostNext, HostStep

\* Events of one graph are handled one at a time by the hosts, however long an
\* operation waits for the lock and whichever host dies.
THEOREM OneLiveClaim == HostSpec => []OneLiveClaimPerGraph
<1>1. Init => Timed /\ OneLiveClaimPerGraph
  BY TimedInit DEF Init, OneLiveClaimPerGraph, HeldNow
<1>2. Timed /\ OneLiveClaimPerGraph /\ [HostNext]_vars
          => (Timed /\ OneLiveClaimPerGraph)'
  BY TimedStep, OneLiveClaimStep, HostIsAllowed
<1>q. QED BY <1>1, <1>2, PTL DEF HostSpec

\* What one step may do to an event that is done, or claimed under a live lease.
HolderSettles ==
    \A e \in Events :
        (HeldNow(e) \/ state[e] = "done") /\ state'[e] # state[e] =>
            \E w \in Workers : /\ claim[w] = [event |-> e, generation |-> attempts[e]]
                               /\ claim'[w] = NoClaim

LEMMA HolderStep == Timed /\ [Next]_vars => [HolderSettles]_vars
<1> SUFFICES ASSUME Timed, [Next]_vars,
                    NEW e \in Events, HeldNow(e) \/ state[e] = "done", state'[e] # state[e]
             PROVE  \E w \in Workers :
                        /\ claim[w] = [event |-> e, generation |-> attempts[e]]
                        /\ claim'[w] = NoClaim
  BY DEF HolderSettles
<1>0. ASSUME NEW w \in Workers PROVE ~Ready(e, age[w])
  BY <1>0, OldClocksAreCautious DEF Ready, HeldNow, Waiting
<1>1. ASSUME NEW w \in Workers, RecoverExpired(w) PROVE FALSE
  BY <1>1, <1>0, OldClocksAreCautious DEF RecoverExpired, HeldNow, Timed
<1>2. ASSUME NEW w \in Workers, ClaimNext(w) PROVE FALSE
  BY <1>2, <1>0 DEF ClaimNext, Claimable, Exhausted, Timed
<1>3. ASSUME NEW w \in Workers, Finish(w)
      PROVE  /\ claim[w] = [event |-> e, generation |-> attempts[e]]
             /\ claim'[w] = NoClaim
  <2>1. Holds(w, claim[w].event) /\ claim[w].event = e
    BY <1>3 DEF Finish, Timed
  <2>q. QED BY <1>3, <2>1 DEF Finish, Holds, Timed
<1>4. ASSUME NEW g \in Graphs, NEW c \in Conditions, Wake(g, c) PROVE FALSE
  BY <1>4 DEF Wake, HeldNow, Timed
<1>5. ASSUME NEW x \in Events, Enqueue(x) PROVE FALSE
  BY <1>5 DEF Enqueue, HeldNow, Timed
<1>6. ASSUME UNCHANGED state PROVE FALSE
  BY <1>6
<1>q. QED
  BY <1>1, <1>2, <1>3, <1>4, <1>5, <1>6
     DEF Next, HostNext, HostStep, Environment, ReadClock, ReadClockToRenew, Renew,
         Stop, Crash, Tick, events, vars

\* Only the worker that holds exactly this generation of the claim settles an event,
\* whatever else the class does with the queue, renewals and wakes included.
THEOREM HolderOnly == Spec => OnlyHolderSettles
<1>1. Init => Timed
  BY TimedInit
<1>2. Timed /\ [Next]_vars => Timed' /\ [HolderSettles]_vars
  BY TimedStep, HolderStep
<1>q. QED BY <1>1, <1>2, PTL DEF Spec, OnlyHolderSettles, HolderSettles
=============================================================================
