------------------------- MODULE DurableEventQueue -------------------------
(***************************************************************************)
(* The durable owner-event queue of the JEV task kernel                    *)
(* (rag_ime/jev_tasks/event_queue.py) and the host tick that drives it.    *)
(*                                                                         *)
(* Several host processes share the table.  A worker claims one event      *)
(* under a lease, handles it outside of any transaction, and acknowledges  *)
(* the result.  Every operation reads the clock BEFORE it waits for the    *)
(* write lock of the database, so the time it compares leases with may be  *)
(* old when its transaction runs.                                          *)
(*                                                                         *)
(* Times are kept relative to the present: lease[e] is lease_until_ms      *)
(* minus now (negative when expired), delay[e] likewise for                *)
(* next_retry_at_ms, age[w] is how long ago worker w read the clock.       *)
(*                                                                         *)
(* Two conditions of the statements are constant here: the recovery_policy *)
(* of a Root, which nothing sets to other than its default                 *)
(* 'authorized_unsent', and exclude_graph_ids, which no caller passes.     *)
(* recover_expired takes at most 64 rows of a backlog, here all of it.     *)
(***************************************************************************)
EXTENDS Integers, FiniteSets

CONSTANTS
    Events,         \* (graph_id, source_id) of agent_jev_owner_events
    Graphs,
    GraphOf,        \* event -> its graph
    Workers,        \* host processes
    None,
    Lease,          \* lease_ms
    MaxWait,        \* longest wait for the write lock (sqlite3 timeout)
    BaseRetry,      \* base_retry_ms
    MaxRetry,       \* max_retry_ms
    MaxAttempts,    \* max_attempts
    MaxBudget,      \* bound: budgets that Wake may reach
    MaxCrashes      \* bound: host deaths explored

ASSUME QueueAssumption ==
    /\ GraphOf \in [Events -> Graphs]
    /\ None \notin Events
    /\ Lease \in Nat \ {0} /\ MaxWait \in Nat /\ MaxWait < Lease
    /\ BaseRetry \in Nat \ {0} /\ MaxRetry \in Nat /\ BaseRetry <= MaxRetry
    /\ MaxAttempts \in Nat \ {0} /\ MaxBudget \in Nat
    /\ MaxCrashes \in Nat

Waiting == {"pending", "retry", "reconcile"}
Conditions == {"none", "owner_event", "exact_receipt_available",
               "recovery_policy_changed", "configuration_changed", "snapshot_changed"}

VARIABLES
    state,          \* event -> agent_jev_owner_events.state, or "absent"
    holder,         \* event -> lease_owner, or None
    lease,          \* event -> lease_until_ms - now
    attempts,       \* event -> attempt_count and lease_generation, which advance together
    budget,         \* event -> attempt_budget
    delay,          \* event -> next_retry_at_ms - now
    wakeOn,         \* event -> wake_condition
    born,           \* event -> its place in the order of created_at_ms
    rank,           \* graph -> its place in the order of last_event_claim_sequence
    stopped,        \* graphs whose agent_jev_host_roots.stopped is 1
    pc,             \* worker -> the operation it is in
    age,            \* worker -> now minus the clock it read
    claim,          \* worker -> its EventClaim (event, generation)
    crashes

events == <<state, holder, lease, attempts, budget, delay, wakeOn>>
worker == <<pc, age, claim>>
vars == <<events, born, rank, stopped, worker, crashes>>

LongAgo == -MaxWait     \* a time in the past for every clock in use

NoClaim == [event |-> None, generation |-> 0]

Init ==
    /\ state = [e \in Events |-> "absent"]
    /\ holder = [e \in Events |-> None]
    /\ lease = [e \in Events |-> 0]
    /\ attempts = [e \in Events |-> 0]
    /\ budget = [e \in Events |-> MaxAttempts]
    /\ delay = [e \in Events |-> LongAgo]
    /\ wakeOn = [e \in Events |-> "none"]
    /\ born = [e \in Events |-> 0]
    /\ rank = [g \in Graphs |-> 0]
    /\ stopped = {}
    /\ pc = [w \in Workers |-> "idle"]
    /\ age = [w \in Workers |-> 0]
    /\ claim = [w \in Workers |-> NoClaim]
    /\ crashes = 0

\* What an operation that read the clock a ticks ago believes of a lease, a delay.
LeaseLive_UntilAck(e, a) == TRUE
LeaseLive(e, a) == lease[e] + a > 0
Due(e, a) == delay[e] + a <= 0

Begin(w, op) ==
    /\ pc' = [pc EXCEPT ![w] = op]
    /\ age' = [age EXCEPT ![w] = 0]

End(w, label) ==
    /\ pc' = [pc EXCEPT ![w] = label]
    /\ age' = [age EXCEPT ![w] = 0]

\* One tick recovers expired leases, then claims and handles a batch of events.
\* Each operation starts with now = self.ledger.clock_ms(), before the connection waits for the lock.
ReadClock(w) ==
    /\ \/ pc[w] = "idle" /\ Begin(w, "recover")
       \/ pc[w] = "batch" /\ Begin(w, "claim")
       \/ pc[w] = "handling" /\ Begin(w, "finish")
    /\ UNCHANGED <<events, born, rank, stopped, claim, crashes>>
-----------------------------------------------------------------------------
\* enqueue inside the source owner's transaction; a duplicate changes nothing.
Enqueue(e) ==
    /\ state[e] = "absent"
    /\ state' = [state EXCEPT ![e] = "pending"]
    /\ budget' = [budget EXCEPT ![e] = MaxAttempts]
    /\ born' = [born EXCEPT ![e] = Cardinality({x \in Events : state[x] # "absent"})]
    /\ UNCHANGED <<holder, lease, attempts, delay, wakeOn, rank, stopped, worker, crashes>>

\* recover_expired: processing rows whose lease is over become due for retry.
RecoverExpired(w) ==
    LET expired == {e \in Events : /\ state[e] = "processing"
                                   /\ ~LeaseLive(e, age[w])
                                   /\ GraphOf[e] \notin stopped}
    IN
    /\ pc[w] = "recover"
    /\ state' = [e \in Events |-> IF e \in expired THEN "retry" ELSE state[e]]
    /\ holder' = [e \in Events |-> IF e \in expired THEN None ELSE holder[e]]
    /\ lease' = [e \in Events |-> IF e \in expired THEN 0 ELSE lease[e]]
    /\ delay' = [e \in Events |-> IF e \in expired THEN -age[w] ELSE delay[e]]
    /\ End(w, "batch")
    /\ UNCHANGED <<attempts, budget, wakeOn, born, rank, stopped, claim, crashes>>
-----------------------------------------------------------------------------
(* claim_next: one transaction in two statements.                          *)

\* May be delivered, as far as its own row tells.
Ready(e, a) ==
    \/ state[e] \in Waiting /\ Due(e, a)
    \/ state[e] = "processing" /\ ~LeaseLive(e, a)

Exhausted(a) == {e \in Events : attempts[e] >= budget[e] /\ Ready(e, a)}

\* No other event of the graph is being handled under a live lease.
GraphIdle_OwnEventOnly(e, a) == ~(state[e] = "processing" /\ LeaseLive(e, a))
GraphIdle(e, a) ==
    \A x \in Events :
        GraphOf[x] = GraphOf[e] => ~(state[x] = "processing" /\ LeaseLive(x, a))

HasBudget(e) == attempts[e] < budget[e]

Claimable(e, a) ==
    /\ GraphOf[e] \notin stopped
    /\ HasBudget(e)
    /\ Ready(e, a)
    /\ GraphIdle(e, a)

\* ORDER BY h.last_event_claim_sequence, e.created_at_ms LIMIT 1.
ComesFirst_Oldest(e, x) == born[e] <= born[x]
ComesFirst(e, x) ==
    \/ rank[GraphOf[e]] < rank[GraphOf[x]]
    \/ rank[GraphOf[e]] = rank[GraphOf[x]] /\ born[e] <= born[x]

\* last_event_claim_sequence = MAX + 1, kept as positions.
ServedLast(g) ==
    [h \in Graphs |->
        IF h = g THEN Cardinality({rank[k] : k \in Graphs \ {g}})
        ELSE Cardinality({rank[k] : k \in {k \in Graphs \ {g} : rank[k] < rank[h]}})]

ClaimNext(w) ==
    LET a == age[w]
        candidates == {e \in Events : Claimable(e, a)}
        blocked == Exhausted(a)
    IN
    /\ pc[w] = "claim"
    /\ wakeOn' = [e \in Events |-> IF e \in blocked THEN "owner_event" ELSE wakeOn[e]]
    /\ \/ /\ candidates = {}
          /\ state' = [e \in Events |-> IF e \in blocked THEN "blocked" ELSE state[e]]
          /\ holder' = [e \in Events |-> IF e \in blocked THEN None ELSE holder[e]]
          /\ lease' = [e \in Events |-> IF e \in blocked THEN 0 ELSE lease[e]]
          /\ End(w, "idle")
          /\ UNCHANGED <<attempts, rank, claim>>
       \/ \E e \in candidates :
            /\ \A x \in candidates : ComesFirst(e, x)
            /\ state' = [x \in Events |-> IF x = e THEN "processing"
                                          ELSE IF x \in blocked THEN "blocked" ELSE state[x]]
            /\ holder' = [x \in Events |-> IF x = e THEN w
                                           ELSE IF x \in blocked THEN None ELSE holder[x]]
            /\ lease' = [x \in Events |-> IF x = e THEN Lease - a
                                          ELSE IF x \in blocked THEN 0 ELSE lease[x]]
            /\ attempts' = [attempts EXCEPT ![e] = @ + 1]
            /\ rank' = ServedLast(GraphOf[e])
            /\ claim' = [claim EXCEPT ![w] = [event |-> e, generation |-> attempts[e] + 1]]
            /\ End(w, "handling")
    /\ UNCHANGED <<budget, delay, born, stopped, crashes>>
-----------------------------------------------------------------------------
(* finish.                                                                 *)

\* The row still belongs to this claim.
Holds_AnyGeneration(w, e) == state[e] = "processing" /\ LeaseLive(e, age[w])
Holds(w, e) ==
    /\ state[e] = "processing"
    /\ holder[e] = w
    /\ attempts[e] = claim[w].generation
    /\ LeaseLive(e, age[w])

\* _outcome: what the handler's status makes of the row.
Outcomes == {<<"done", "none">>,
             <<"reconcile", "exact_receipt_available">>,
             <<"retry", "recovery_policy_changed">>,
             <<"retry", "owner_event">>,
             <<"blocked", "configuration_changed">>,
             <<"blocked", "snapshot_changed">>}

Backoff(e) ==
    LET d == BaseRetry * 2^(IF attempts[e] - 1 < 20 THEN attempts[e] - 1 ELSE 20) IN
    IF d < MaxRetry THEN d ELSE MaxRetry

\* Only a retry with budget left is rescheduled.
FinalState(e, outcome) ==
    IF outcome[1] \in {"retry", "reconcile"} /\ attempts[e] >= budget[e]
    THEN "blocked" ELSE outcome[1]

Finish(w) ==
    LET e == claim[w].event IN
    /\ pc[w] = "finish"
    /\ \/ /\ Holds(w, e)
          /\ \E outcome \in Outcomes :
                /\ state' = [state EXCEPT ![e] = FinalState(e, outcome)]
                /\ wakeOn' = [wakeOn EXCEPT ![e] = outcome[2]]
                /\ delay' = [delay EXCEPT ![e] =
                                IF FinalState(e, outcome) \in {"retry", "reconcile"}
                                THEN Backoff(e) - age[w] ELSE LongAgo]
          /\ holder' = [holder EXCEPT ![e] = None]
          /\ lease' = [lease EXCEPT ![e] = 0]
       \/ ~Holds(w, e) /\ UNCHANGED <<state, holder, lease, delay, wakeOn>>
    /\ \E label \in {"batch", "idle"} : End(w, label)      \* the batch is limited
    /\ claim' = [claim EXCEPT ![w] = NoClaim]
    /\ UNCHANGED <<attempts, budget, born, rank, stopped, crashes>>
-----------------------------------------------------------------------------
(* Operations of the class that the host does not call.                    *)

ReadClockToRenew(w) ==
    /\ pc[w] = "handling"
    /\ Begin(w, "renew")
    /\ UNCHANGED <<events, born, rank, stopped, claim, crashes>>

Renew(w) ==
    LET e == claim[w].event IN
    /\ pc[w] = "renew"
    /\ lease' = IF Holds(w, e) THEN [lease EXCEPT ![e] = Lease - age[w]] ELSE lease
    /\ End(w, "handling")
    /\ UNCHANGED <<state, holder, attempts, budget, delay, wakeOn, born, rank, stopped, claim, crashes>>

\* wake: one new budget for the blocked events that wait for the condition.
Wake(g, condition) ==
    LET woken == {e \in Events : /\ GraphOf[e] = g
                                 /\ state[e] = "blocked"
                                 /\ wakeOn[e] = condition}
    IN
    /\ woken # {}
    /\ \A e \in woken : attempts[e] + MaxAttempts <= MaxBudget
    /\ state' = [e \in Events |-> IF e \in woken THEN "retry" ELSE state[e]]
    /\ budget' = [e \in Events |-> IF e \in woken THEN attempts[e] + MaxAttempts ELSE budget[e]]
    /\ delay' = [e \in Events |-> IF e \in woken THEN LongAgo ELSE delay[e]]
    /\ wakeOn' = [e \in Events |-> IF e \in woken THEN "none" ELSE wakeOn[e]]
    /\ UNCHANGED <<holder, lease, attempts, born, rank, stopped, worker, crashes>>
-----------------------------------------------------------------------------
(* The environment.                                                        *)

\* JevRoomApplication.stop.
Stop(g) ==
    /\ g \notin stopped
    /\ stopped' = stopped \cup {g}
    /\ UNCHANGED <<events, born, rank, worker, crashes>>

\* A host process dies; its successor has another owner_id and no claim.
Crash(w) ==
    /\ crashes < MaxCrashes
    /\ pc[w] # "idle"
    /\ End(w, "idle")
    /\ claim' = [claim EXCEPT ![w] = NoClaim]
    /\ crashes' = crashes + 1
    /\ UNCHANGED <<events, born, rank, stopped>>

\* One unit of time.  Nobody waits for the lock longer than MaxWait.
InOperation(w) == pc[w] \in {"recover", "claim", "finish", "renew"}
Down(n) == IF n > -MaxWait THEN n - 1 ELSE n

Tick ==
    /\ \A w \in Workers : InOperation(w) => age[w] < MaxWait
    /\ lease' = [e \in Events |-> IF state[e] = "processing" THEN Down(lease[e]) ELSE lease[e]]
    /\ delay' = [e \in Events |-> Down(delay[e])]
    /\ age' = [w \in Workers |-> IF InOperation(w) THEN age[w] + 1 ELSE age[w]]
    /\ UNCHANGED <<state, holder, attempts, budget, wakeOn, born, rank, stopped, pc, claim, crashes>>
-----------------------------------------------------------------------------
HostStep(w) == ReadClock(w) \/ RecoverExpired(w) \/ ClaimNext(w) \/ Finish(w)
Environment ==
    \/ \E e \in Events : Enqueue(e)
    \/ \E g \in Graphs : Stop(g)
    \/ \E w \in Workers : Crash(w)
    \/ Tick

HostNext == (\E w \in Workers : HostStep(w)) \/ Environment
Next ==
    \/ HostNext
    \/ \E w \in Workers : ReadClockToRenew(w) \/ Renew(w)
    \/ \E g \in Graphs, condition \in Conditions \ {"none"} : Wake(g, condition)

\* What the host does with the queue, and everything its class allows.
HostSpec == Init /\ [][HostNext]_vars
Spec == Init /\ [][Next]_vars

\* The maintenance tick runs again and again in every host, every transaction
\* gets the lock within its timeout, and time passes.
HostFairSpec ==
    /\ HostSpec
    /\ WF_vars(Tick)
    /\ \A w \in Workers : WF_vars(HostStep(w))
-----------------------------------------------------------------------------
\* Events of one graph are handled one at a time: while a lease of the graph
\* is live no other event of it is claimed, by whichever host and however old
\* the clocks are that they compare with.  (The host does not call renew.)
HeldNow(e) == state[e] = "processing" /\ lease[e] > 0
OneLiveClaimPerGraph ==
    \A e, x \in Events :
        GraphOf[e] = GraphOf[x] /\ HeldNow(e) /\ HeldNow(x) => e = x

\* An event that is done, or claimed under a live lease, changes its state only
\* through the worker that holds exactly this generation of the claim; finish
\* of an older holder, a recovery or a wake does not touch it.
OnlyHolderSettles ==
    [][\A e \in Events :
        (HeldNow(e) \/ state[e] = "done") /\ state'[e] # state[e] =>
            \E w \in Workers : /\ claim[w] = [event |-> e, generation |-> attempts[e]]
                               /\ claim'[w] = NoClaim]_vars

\* An event of a running graph ends done or blocked, although hosts die with it.
EventSettles ==
    \A e \in Events :
        state[e] \in Waiting \cup {"processing"} ~>
            (state[e] \in {"done", "blocked"} \/ GraphOf[e] \in stopped)
=============================================================================
