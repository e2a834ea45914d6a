---------------------------- MODULE JevTaskGraph ----------------------------
(***************************************************************************)
(* The versioned task graph of one Jev Root: its graph rules               *)
(* (jev_tasks/graph.py), the life of its responsibilities                  *)
(* (jev_tasks/owner.py, jev_tasks/lifecycle.py, rooms/work.py), the        *)
(* selective revision of a plan that is already executing                  *)
(* (jev_tasks/revisions.py), the final report and Stop.                    *)
(*                                                                         *)
(* A task is a planned name and its version.  Each action is one database  *)
(* transaction.  The command receipts, the effect outbox and the choice of *)
(* the next command have modules of their own: here an attempt is sent,    *)
(* refused, runs and drains, and any allowed owner command may be chosen.  *)
(***************************************************************************)
EXTENDS Integers, FiniteSets

CONSTANTS
    Names,          \* planned responsibilities
    Root,           \* the WorkItem of the Root
    Kinds,          \* edge kinds in use: "requires", "context"
    MaxRevisions,   \* MAX_REVISIONS: returns and retries of one task
    MaxRejections,  \* refused attempts after which a task is closed
    MaxReports,     \* attempts to report on one state of the graph
    MaxVersions,    \* bound: versions of one name
    MaxPatches,     \* bound: edge commands
    MayStop         \* bound: whether Stop may come

ASSUME GraphAssumption ==
    /\ IsFiniteSet(Names)
    /\ Kinds \subseteq {"requires", "context"}
    /\ {MaxRevisions, MaxReports, MaxPatches} \subseteq Nat
    /\ {MaxRejections, MaxVersions} \subseteq Nat \ {0}
    /\ MayStop \in BOOLEAN
    /\ Root \notin Names \X (1..MaxVersions)

Tasks == Names \X (1..MaxVersions)

VARIABLES
    phase,      \* agent_jev_host_roots.phase: plan, execute
    root,       \* state of the Root's WorkItem
    task,       \* the WorkItems of the plan with their current attempt
    superseded, \* agent_jev_task_supersessions
    edges,      \* agent_jev_edges: <<prerequisite, dependent, kind>>
    patches,    \* edge commands applied
    revision,   \* the revision that awaits drain
    report,     \* the synthesize execution and its attempts
    stop        \* how far Stop has come

plan == <<superseded, edges, patches>>
vars == <<phase, root, task, plan, revision, report, stop>>

Open == {"active", "review"}

\* A WorkItem as AgentRoomWorkStore.create leaves it.  Its state is absent, active,
\* review, done, failed or cancelled.  Its attempt is none (accepted_turn_id is
\* empty), prepared or sending (its effect is pending; sending or unknown), unsent
\* (refused or withdrawn, its slot not yet released), running, drained, or returned
\* (drained, then sent back as a new revision).
New == [state |-> "active", attempt |-> "none", before |-> "none",
        returns |-> 0, refused |-> 0, terminal |-> FALSE]
NoRevision == [affected |-> {}, required |-> {}]
NoReport == [state |-> "none", tries |-> 0, subject |-> <<>>]

Init ==
    /\ phase = "plan" /\ root = "active" /\ stop = "no"
    /\ task = [t \in Tasks |-> [New EXCEPT !.state = "absent"]]
    /\ superseded = {} /\ edges = {} /\ patches = 0
    /\ revision = NoRevision
    /\ report = NoReport

-----------------------------------------------------------------------------
(***************************************************************************)
(* Graph rules.  R is a set of pairs <<before, after>> over the nodes V.   *)
(***************************************************************************)
\* _acyclic: nodes leave once everything before them has left.
Acyclic(V, R) ==
    LET left[n \in 0..Cardinality(V)] ==
            IF n = 0 THEN {}
            ELSE LET gone == left[n - 1]
                 IN  {v \in V : \A u \in V : <<u, v>> \in R => u \in gone}
    IN  left[Cardinality(V)] = V

Hard(E) == {<<e[1], e[2]>> : e \in {x \in E : x[3] = "requires"}}

\* A parent is complete after its children: each node of the plan is a child of the Root.
Aggregation(V) == {<<v, Root>> : v \in V \ {Root}}

AcceptedGraph(V, E) ==
    /\ Acyclic(V, Hard(E))
    /\ Acyclic(V, Hard(E) \cup Aggregation(V))

Current == {t \in Tasks : task[t].state # "absent"} \ superseded
Nodes == Current \cup {Root}
CurrentEdges == {e \in edges : e[1] \in Nodes /\ e[2] \in Nodes}
State(v) == IF v = Root THEN root ELSE task[v].state
Requires(t) == {p \in Nodes : <<p, t, "requires">> \in edges}

\* frontier: the part of ready and review that the graph decides.
Justified(t) == \A p \in Requires(t) : State(p) = "done"

\* affected: all that follows t through edges of any kind.
Followers(V, E, t) ==
    LET reach[n \in 0..Cardinality(V)] ==
            IF n = 0 THEN {t}
            ELSE LET near == reach[n - 1]
                 IN  near \cup {v \in V : \E e \in E : e[1] \in near /\ e[2] = v}
    IN  reach[Cardinality(V)]
Affected_HardOnly(t) ==
    Followers(Nodes, {e \in CurrentEdges : e[3] = "requires"}, t)
Affected(t) == Followers(Nodes, CurrentEdges, t)

Pending == revision # NoRevision
Target(t) == t \in revision.affected

\* The owner commands of a task need an open Root, a current version and no
\* revision that awaits its drain.
Commandable_AnyTarget(t) == root = "active" /\ t \in Current
Commandable(t) == root = "active" /\ t \in Current /\ ~Target(t)

Holding == {"prepared", "sending", "unsent", "running"}
Slots == {t \in Tasks : task[t].attempt \in Holding}   \* agent_jev_executor_claims
Settled == {"none", "returned", "drained"}             \* idle or drained, no slot

Become(t, s) == task' = [task EXCEPT ![t].state = s]
\* A refused or withdrawn attempt counts once; the count stops at its limit.
Unsent(r) == [r EXCEPT !.attempt = "unsent", !.refused = IF @ < MaxRejections THEN @ + 1 ELSE @]
Withdrawn(r) == IF r.attempt = "prepared" THEN Unsent(r) ELSE r

-----------------------------------------------------------------------------
(***************************************************************************)
(* The plan and its edges.                                                 *)
(***************************************************************************)
\* validate_plan and apply_plan: the planner's submission expands the Root once.
ApplyPlan(S, D) ==
    LET V == {<<n, 1>> : n \in S}
        E == {<<<<d[1], 1>>, <<d[2], 1>>, "requires">> : d \in D}
    IN  /\ phase = "plan" /\ root = "active" /\ stop = "no"
        /\ S # {} /\ D \subseteq S \X S
        /\ Acyclic(V, Hard(E))
        /\ AcceptedGraph(V \cup {Root}, E)
        /\ phase' = "execute"
        /\ task' = [t \in Tasks |-> IF t \in V THEN New ELSE task[t]]
        /\ edges' = E
        /\ UNCHANGED <<root, superseded, patches, revision, report, stop>>

\* A hard dependency of work that has started needs a revision of the plan.
Unstarted_Active == {Root} \cup {t \in Current : task[t].state = "active"}
Unstarted == {Root} \cup {t \in Current : task[t].state = "active" /\ task[t].attempt = "none"}

\* The command is refused after Stop and while a revision awaits its drain.
EdgesOpen == root = "active" /\ stop = "no" /\ ~Pending

ChangeEdges(add, remove) ==
    /\ EdgesOpen
    /\ patches < MaxPatches
    /\ remove \subseteq edges /\ add \cap edges = {} /\ add \cup remove # {}
    /\ \A e \in add \cup remove :
           /\ {e[1], e[2]} \subseteq Nodes
           /\ e[3] = "requires" => e[2] \in Unstarted
    /\ AcceptedGraph(Nodes, (CurrentEdges \ remove) \cup add)
    /\ edges' = (edges \ remove) \cup add
    /\ patches' = patches + 1
    /\ UNCHANGED <<phase, root, task, superseded, revision, report, stop>>

-----------------------------------------------------------------------------
(***************************************************************************)
(* One attempt at a task.                                                  *)
(***************************************************************************)
TaskOnly == UNCHANGED <<phase, root, plan, revision, report, stop>>
Attempt(t, a) == task' = [task EXCEPT ![t].attempt = a]

Claim(t) ==
    /\ Commandable(t)
    /\ task[t].state = "active" /\ task[t].attempt \in {"none", "returned"}
    /\ Justified(t)
    /\ task' = [task EXCEPT ![t].attempt = "prepared", ![t].before = task[t].attempt]
    /\ TaskOnly

Deliver(t) ==
    /\ Commandable(t)
    /\ task[t].attempt = "prepared"
    /\ Attempt(t, "sending")
    /\ TaskOnly

Admit(t) ==
    /\ task[t].attempt = "sending"
    /\ task' = [task EXCEPT ![t].attempt = "running", ![t].before = "none"]
    /\ TaskOnly

Refuse(t) ==
    /\ task[t].attempt = "sending"
    /\ task' = [task EXCEPT ![t] = Unsent(@)]
    /\ TaskOnly

\* cleanup_nonadmission and fail_dispatch: also under Stop and during a revision.
FailDispatch_CurrentOnly(t) ==
    /\ Commandable(t)
    /\ task[t].attempt = "unsent"
    /\ task' = [task EXCEPT ![t].attempt = task[t].before, ![t].before = "none"]
    /\ TaskOnly
FailDispatch(t) ==
    /\ task[t].attempt = "unsent"
    /\ task' = [task EXCEPT ![t].attempt = task[t].before, ![t].before = "none"]
    /\ TaskOnly

\* execution_terminal and release_executor: the proof of drain frees the slot.
Drain(t) ==
    /\ task[t].attempt = "running"
    /\ Attempt(t, "drained")
    /\ TaskOnly

\* The callbacks of an attempt need a running Root and its exact binding (_live).
Live(t) == Commandable(t) /\ stop = "no"

Submit(t) ==
    /\ Live(t)
    /\ task[t].state = "active" /\ task[t].attempt \in {"running", "drained"}
    /\ Become(t, "review")
    /\ TaskOnly

\* settle_dispatch of an attempt that ended without a result
Escalate(t) ==
    /\ Live(t)
    /\ task[t].state = "active" /\ task[t].attempt = "drained"
    /\ Become(t, "failed")
    /\ TaskOnly

-----------------------------------------------------------------------------
(***************************************************************************)
(* Review, repair and closing.                                             *)
(***************************************************************************)
Accept(t) ==
    /\ Commandable(t)
    /\ task[t].state = "review" /\ task[t].attempt = "drained"
    /\ Justified(t)
    /\ Become(t, "done")
    /\ TaskOnly

Return(t) ==
    /\ Commandable(t)
    /\ task[t].state = "review" /\ task[t].attempt = "drained"
    /\ task[t].returns < MaxRevisions
    /\ task' = [task EXCEPT ![t].state = "active", ![t].attempt = "returned",
                            ![t].returns = @ + 1]
    /\ TaskOnly

Retry(t) ==
    /\ Commandable(t)
    /\ task[t].state = "failed" /\ ~task[t].terminal
    /\ task[t].attempt \in Settled
    /\ task[t].returns < MaxRevisions
    /\ task' = [task EXCEPT ![t].state = "active", ![t].attempt = "none",
                            ![t].returns = @ + 1]
    /\ TaskOnly

\* close_exhausted: a task that no repair can bring to done.
Lost(p) == p # Root /\ (task[p].state = "cancelled" \/ task[p].terminal)
Exhausted_OwnBudget(t) ==
    /\ Commandable(t)
    /\ task[t].state \in {"active", "review", "failed"} /\ ~task[t].terminal
    /\ task[t].attempt \in Settled \cup {"unsent"}
    /\ \/ task[t].state = "review"
       \/ task[t].state = "failed" /\ task[t].returns >= MaxRevisions
       \/ task[t].refused >= MaxRejections
Exhausted(t) ==
    /\ Commandable(t)
    /\ task[t].state \in {"active", "review", "failed"} /\ ~task[t].terminal
    /\ task[t].attempt \in Settled \cup {"unsent"}
    /\ \/ task[t].state = "review"     \* its verification never became conclusive
       \/ task[t].state = "failed" /\ task[t].returns >= MaxRevisions
       \/ \E p \in Requires(t) : Lost(p)
       \/ task[t].refused >= MaxRejections

CloseExhausted(t) ==
    /\ Exhausted(t)
    /\ task' = [task EXCEPT ![t].state = "failed", ![t].terminal = TRUE]
    /\ TaskOnly

-----------------------------------------------------------------------------
(***************************************************************************)
(* A revision of the executing plan.                                       *)
(***************************************************************************)
\* The attempts that must be settled before the successors exist.
MustDrain_Running(A) == {t \in A : task[t].attempt = "running"}
MustDrain(A) ==
    {t \in A : task[t].attempt \in {"prepared", "sending", "running"}}
    \cup (IF report.state \in {"prepared", "sending", "running", "reported"} THEN {Root} ELSE {})

\* affected and request: a planned responsibility that is not history.
Revisable(t) == t \in Current /\ task[t].state # "cancelled"

\* JevTaskRevisions.request: fences the branch, and withdraws what is not sent.
RequestRevision(t) ==
    LET A == Affected(t)
        required == MustDrain(A)
    IN  /\ phase = "execute" /\ root = "active" /\ stop = "no" /\ ~Pending
        /\ Revisable(t)
        /\ Root \notin A
        /\ \A a \in A : a[2] < MaxVersions
        /\ revision' = [affected |-> A, required |-> required]
        /\ task' = [u \in Tasks |-> IF u \in required THEN Withdrawn(task[u]) ELSE task[u]]
        /\ report' = [report EXCEPT !.state = IF @ = "prepared" THEN "unsent" ELSE @]
        /\ UNCHANGED <<phase, root, plan, stop>>

\* retire_superseded: accepted and failed work keeps its state.
Retired_Active(r) == IF r.state = "active" THEN [r EXCEPT !.state = "cancelled"] ELSE r
Retired(r) == IF r.state \in Open THEN [r EXCEPT !.state = "cancelled"] ELSE r

\* advance_pending and _apply: an attempt is reconciled, drained or withdrawn.
Drained(v) == IF v = Root THEN report.state = "none" ELSE task[v].attempt \in Settled

\* _apply: successors, with the edges of the versions they replace.
ApplyRevision ==
    LET A == revision.affected
        Version(v) == IF v \in A THEN <<v[1], v[2] + 1>> ELSE v
        copies == {<<Version(e[1]), Version(e[2]), e[3]>> :
                       e \in {x \in CurrentEdges : x[1] \in A \/ x[2] \in A}}
    IN  /\ Pending /\ stop = "no" /\ root = "active"
        /\ \A v \in revision.required : Drained(v)
        /\ task' = [t \in Tasks |-> IF t \in A THEN Retired(task[t])
                                    ELSE IF \E a \in A : t = Version(a) THEN New ELSE task[t]]
        /\ superseded' = superseded \cup A
        /\ edges' = edges \cup copies
        /\ revision' = NoRevision
        /\ AcceptedGraph(Nodes, CurrentEdges)'
        /\ UNCHANGED <<phase, root, patches, report, stop>>

-----------------------------------------------------------------------------
(***************************************************************************)
(* The final report.                                                       *)
(***************************************************************************)
\* subject: what a report covers.
Subject == <<[t \in Current |-> task[t]], patches>>
Tries == IF report.subject = Subject THEN report.tries ELSE 0
ReportOnly == UNCHANGED <<phase, task, plan, revision, stop>>
ToReport(s) == report' = [report EXCEPT !.state = s] /\ UNCHANGED root /\ ReportOnly

\* advance: the report is next when no child is open and none can be closed.
PrepareReport ==
    /\ phase = "execute" /\ root = "active" /\ stop = "no" /\ ~Pending
    /\ \A t \in Current : task[t].state \notin Open /\ ~Exhausted(t)
    /\ report.state = "none" /\ Tries < MaxReports
    /\ report' = [state |-> "prepared", tries |-> Tries + 1, subject |-> Subject]
    /\ UNCHANGED root /\ ReportOnly

DeliverReport == report.state = "prepared" /\ root = "active" /\ ~Pending /\ ToReport("sending")
AdmitReport == report.state = "sending" /\ ToReport("running")
RefuseReport == report.state = "sending" /\ ToReport("unsent")
ReleaseReport == report.state = "unsent" /\ ToReport("none")

\* final_submit
SubmitReport ==
    /\ report.state = "running"
    /\ stop = "no" /\ root = "active" /\ ~Pending /\ report.subject = Subject
    /\ ToReport("reported")

\* _save_final, and finalize_root_in_transaction for the Root's state. Success
\* is what the children say when it is written.
CanSaveFinal_AnySlot == ~Pending
CanSaveFinal == ~Pending /\ Slots = {}
SaveFinal(success) ==
    /\ CanSaveFinal
    /\ root' = IF success THEN "done" ELSE "failed"
    /\ report' = [report EXCEPT !.state = "none"]
    /\ ReportOnly
AllDone == \A t \in Current : task[t].state = "done"

\* reconcile_auxiliary, after the drain of an execution with an output. What
\* the output covers is checked again.
CoversTheGraph_Always == TRUE
CoversTheGraph == ~Pending /\ report.subject = Subject
SettleReport ==
    /\ report.state = "reported"
    /\ IF stop = "no" /\ CoversTheGraph THEN SaveFinal(AllDone) ELSE ToReport("none")

\* ... and of one without: the last attempt ends the Root. A final that cannot
\* be saved takes the settlement back with it.
SettleEmpty ==
    /\ report.state = "running"
    /\ IF stop = "no" /\ report.tries = MaxReports THEN SaveFinal(FALSE) ELSE ToReport("none")

-----------------------------------------------------------------------------
(***************************************************************************)
(* Stop, in its three transactions.                                        *)
(***************************************************************************)
FenceStop ==
    /\ MayStop
    /\ stop = "no" /\ root = "active"
    /\ stop' = "fenced"
    /\ revision' = NoRevision
    /\ UNCHANGED <<phase, root, task, plan, report>>

CancelRoot ==
    /\ stop = "fenced"
    /\ stop' = "cancelled"
    /\ root' = "cancelled"
    /\ task' = [t \in Tasks |-> Retired(task[t])]
    /\ UNCHANGED <<phase, plan, revision, report>>

WithdrawPrepared ==
    /\ stop = "cancelled"
    /\ stop' = "withdrawn"
    /\ task' = [t \in Tasks |-> Withdrawn(task[t])]
    /\ report' = [report EXCEPT !.state = IF @ = "prepared" THEN "unsent" ELSE @]
    /\ UNCHANGED <<phase, root, plan, revision>>

-----------------------------------------------------------------------------
Edges == {e \in Nodes \X Nodes \X Kinds : e[1] # e[2]}
OneOf(S) == {{}} \cup {{e} : e \in S}

OwnerCommand(t) == Claim(t) \/ Accept(t) \/ Return(t) \/ Retry(t)
Execution(t) ==
    \/ Deliver(t) \/ Admit(t) \/ Refuse(t) \/ FailDispatch(t)
    \/ Drain(t) \/ Submit(t) \/ Escalate(t)
Reporting ==
    \/ PrepareReport \/ DeliverReport \/ AdmitReport \/ RefuseReport \/ ReleaseReport
    \/ SubmitReport \/ SettleReport \/ SettleEmpty
Stopping == FenceStop \/ CancelRoot \/ WithdrawPrepared

Next ==
    \/ \E S \in SUBSET Names : \E D \in SUBSET (S \X S) : ApplyPlan(S, D)
    \/ \E add \in OneOf(Edges \ edges), remove \in OneOf(CurrentEdges) : ChangeEdges(add, remove)
    \/ \E t \in Tasks : OwnerCommand(t) \/ Execution(t) \/ CloseExhausted(t) \/ RequestRevision(t)
    \/ ApplyRevision
    \/ Reporting
    \/ Stopping

Spec == Init /\ [][Next]_vars

\* The host handles every event of the graph (its queue redelivers), sends what
\* it prepared and reconciles each execution; an admitted execution ends; the
\* controller does not abstain for ever from the only step left. Strong fairness
\* for CloseExhausted: the handling of each event, one at a time per graph,
\* begins with it (advance), so a claim can overtake it once, not for ever. No
\* fairness for edge commands, revisions and Stop: a user asks for them or not.
Fairness ==
    /\ \A t \in Tasks :
           /\ WF_vars(Claim(t)) /\ WF_vars(Deliver(t)) /\ WF_vars(Admit(t) \/ Refuse(t))
           /\ WF_vars(FailDispatch(t)) /\ WF_vars(Drain(t)) /\ WF_vars(Submit(t) \/ Escalate(t))
           /\ WF_vars(Accept(t) \/ Return(t) \/ CloseExhausted(t)) /\ WF_vars(Retry(t))
           /\ SF_vars(CloseExhausted(t))
    /\ WF_vars(ApplyRevision)
    /\ WF_vars(PrepareReport) /\ WF_vars(DeliverReport) /\ WF_vars(AdmitReport \/ RefuseReport)
    /\ WF_vars(ReleaseReport) /\ WF_vars(SettleReport) /\ WF_vars(SettleEmpty)
    /\ WF_vars(CancelRoot) /\ WF_vars(WithdrawPrepared)

FairSpec == Spec /\ Fairness

-----------------------------------------------------------------------------
(***************************************************************************)
(* Properties.                                                             *)
(***************************************************************************)
\* A task that has begun, or is done, rests on hard prerequisites that are
\* accepted, in the current version of the plan, whatever edges and revisions
\* came since (frontier, change_edges, affected).
WorkRestsOnAccepted ==
    \A t \in Current :
        task[t].attempt # "none" \/ task[t].state = "done" =>
            \A p \in Requires(t) : State(p) = "done"

\* No current task takes input, hard or context, from a version that a revision
\* replaced (affected: "their consumers must not retain acceptance as current").
CurrentInputs ==
    \A e \in edges : e[1] \in superseded => e[2] \in superseded

\* When a version is replaced its attempt has drained or was never sent: no
\* execution works for a task that is no longer in the graph (the revision's
\* required dispatches, and the fence around its targets).
NoOrphanedExecution ==
    \A t \in superseded : task[t].attempt \notin {"prepared", "sending", "running"}

\* A final tells the truth and nothing goes on behind it: completed means that
\* every task of the current plan is done and that the report covers the versions,
\* results and edges that the Root ended with (subjectHash); a final is written when
\* no executor is held and no revision awaits its drain.
FinalIsTruthful ==
    root \in {"done", "failed"} =>
        /\ root = "done" => /\ \A t \in Current : task[t].state = "done"
                            /\ report.subject = Subject
        /\ Slots = {} /\ ~Pending

\* Stop leaves nothing behind that could still be sent.
StopLeavesNothingPrepared ==
    stop = "withdrawn" =>
        /\ \A t \in Tasks : task[t].attempt # "prepared" /\ task[t].state \notin Open
        /\ report.state # "prepared"

\* The reports on the present graph were refused as often as they may be.
Unreported == report.state = "none" /\ Tries = MaxReports

\* Every executing graph ends, whatever fails, is refused or becomes
\* impossible in it: with its final, with Stop, or unreported.
GraphEnds == phase = "execute" ~> (root # "active" \/ Unreported)

\* A revision that does not wait for a report is applied, or Stop cancels it:
\* refusals, late drains and slots of old attempts do not strand it.
RevisionResolves == Pending /\ Root \notin revision.required ~> ~Pending

\* The host waits for the real drain before it creates the successors: once
\* nothing of the old branch runs, a revision does not stay pending.
RevisionIsNotStranded == Pending ~> ~Pending
=============================================================================
