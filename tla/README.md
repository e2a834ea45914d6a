# Verification of the Personal Agent Workbench: Jev tasks, prompts and Room turns

This directory holds TLA+ specifications of the parts of the workbench whose
correctness depends on concurrency, crashes and ordering: the JEV task kernel
(`rag_ime/jev_tasks`, with the Room work it drives), the admission of prompts
(`rag_ime/agent_command_receipts.py`), the Room turns of a Session (`rag_ime/rooms`)
and the turn fence of the Pi engine (`rag_ime/pi/runtime.py`). TLC checks each module
on small instances, and TLAPS proves most of the safety properties for every instance.
Source paths below are relative to `src/rag_ime/` unless they begin with another
directory.

    tlc -workers 2 -config MCRuntimeEffects.cfg MCRuntimeEffects.tla
    tlapm RuntimeEffectsProofs.tla

Contents: 1 the system, 2 modules and plan, 3 what each module says, 4 the runs and
their bounds, 5 fairness, 6 proofs, 7 disagreements found, 8 what is not modelled.

## 1. The system

The workbench runs Pi agents in *Sessions*, and groups Sessions of several
participants in *Rooms*. A user's request to a Room becomes a *Root*; JEV plans the
Root as a graph of *WorkItems*, dispatches each one to a participant's Session,
verifies what comes back and reports. Everything durable is one SQLite database;
each process (gateway, Room host) has threads of its own; Pi is a separate process
reached by RPC. Each transaction is `BEGIN IMMEDIATE`, so writers are serialised, and
every interesting interleaving lies *between* transactions: before, during and after
calls to Pi or to the decision model.

### Inventory

| Component | State | Operations | What is hard | What makes it correct |
|---|---|---|---|---|
| Runtime effects (`jev_tasks/effects.py`) | `agent_jev_runtime_effects`, executor claims, drain proofs | insert with an owner command, `deliver`, `reconcile`, `abandon_prepared`, `release_executor` | the call to Pi lies between two transactions; timeouts, deaths and late answers; a Session is recycled | no call is made twice; rows say what happened; one attempt per Session; no late cancel |
| Owner event queue (`jev_tasks/event_queue.py`) | `agent_jev_owner_events` with leases | `enqueue`, `recover_expired`, `claim_next`, `finish`, `renew`, `wake` | clocks read before the lock wait; handlers that outlive their lease; poisoned events | one live claim per graph; only the holder settles; round robin; every event settles |
| Task controller (`jev_tasks/controller.py`, `room_driver.py`) | `agent_jev_decision_generations`, commands | `handle_event`: evaluate, freeze, apply, receipt | slow model calls outside of transactions, two hosts, crash between commit and receipt, stale choices | one command per event, on the snapshot it was chosen for, with a true receipt |
| Guarded owner, ledger, reclaim (`jev_tasks/owner.py`, `ledger.py`, `reclaim.py`) | commands, graphs, edges, reclaims | one transaction per owner command, edge patches | stale snapshots, started work under changed edges | work rests on accepted prerequisites |
| Graph rules (`jev_tasks/graph.py`, `candidates.py`) | none (pure functions of a snapshot) | acyclicity, frontier, impact | a parent that waits for its children is an implicit edge | accepted graphs cannot deadlock |
| Lifecycle, revisions, removal (`jev_tasks/lifecycle.py`, `revisions.py`, `removal.py`) | `agent_jev_host_roots`, revisions, supersessions, settlements | plan, verify, revise, report, finalize | a plan is replaced while its work is prepared, in doubt or running; Stop at any point | no orphaned execution; a final is true; every graph ends |
| JEV application (`jev_tasks/application.py`) | bindings, the tick | `tick`, `reconcile_graph`, `perform`, `lookup`, `stop` | several sources of truth about one attempt; exceptions that the tick swallows | drains settle; Stop leaves nothing to send |
| Room work (`rooms/work.py`) | `agent_room_work_items` and their events | claim, submit, review, retry, close, cancel | who may move a WorkItem when | work moves only with its attempt, and only for the current version |
| Prompt admission (`agent_command_receipts.py`, `agent_prompt_application.py`) | `agent_command_receipts` | `begin`, `complete`, `fail`, recovery from turn evidence, `reopen` | the HTTP answer is lost, the page reloads, the process dies after Pi accepted | one turn per message and per line of retries; answers agree; evidence is not lost |
| Room turns, start gate, Session cancellation (`rooms/turn_registry.py`, `session_dispatch.py`, `session_cancellation.py`, `start_gate.py`) | the turn registry under one lock; the start gate is a durable confirmation row | hold, begin, accept, finish, cancel, mirror an event | five kinds of request share a Session; events arrive before the answer they belong to; Stop comes at any point | events become public under their own Root and in order; one abort terminal; a Stop that was answered holds |
| Pi integration (`pi/runtime.py`, `pi/host_client.py`) | the fence of each Session: admission, turn, timers, retired turns | `reserve_prompt_admission`, `prompt` (also steer and follow-up), `abort`, event lane, fallbacks, Host exit | the answer, the events, queued messages, Stop and two timers race for one turn; the Host exits | a cancelled prompt does not run; a turn that ended comes back at most by a message queued into it; no turn is lost sight of |
| Session store (`agent_sessions.py`, `agent_session_application.py`) | Sessions, turns, event window | append, branch, prune | retention against evidence still needed | evidence survives (in CommandReceipts) |
| Intercom, partner dispatch, workspace ledger (`rooms/*`) | delegation records | prepare, settle, return | two delegation systems over the same WorkItems | legacy tools barred for JEV work |
| Approvals, Gateway requests, foreground commands (`agent_approval_application.py`, `agent_gateway_requests.py`, `agent_workspace_commands.py`) | request/answer rows with deadlines | ask, answer, expire | an answer that races its timeout | one answer per request |
| Background jobs, delegation, wake scheduler (`agent_background_jobs.py`, `agent_delegation.py`, `agent_wake_scheduler.py`) | leased jobs | enqueue, claim, finish | like the event queue | like the event queue |
| Model lane schedulers (`model_lane_scheduler.py`, `side_lane_scheduler.py`) | the newest cancellation token of each lane | acquire, release | nothing waits | a newer request cancels the older one |
| Desktop client (`control-center-web/src`) | command journals, reducers | send, resume, apply events | duplicate and reordered events | commands are idempotent |
| HTTP control API, database migrations, observability | request-local; schema; append-only logs | routing; migration; tracing | little | not a target |
| Lab, knowledge library, memory, input method, plugins, macOS bridge | data of their own | retrieval, ranking, measurement, packaging | statistical or pure I/O | not a target |

The same list, with the files and what is covered, is in `PROJECT.json` under
`components`; the hazards these modules address are there under `hazards`, each at its
line of source and with the properties that would show it.

### How the kernel's parts interact

A user command or a Pi event inserts an *owner event* in the transaction that made it
necessary. The *tick* claims one event of a graph at a time, reconciles the graph's
effects with what Pi can prove, lets the lifecycle act, and if nothing was to do
hands the event to the controller. The controller freezes a snapshot, asks the model for one
of the commands that the graph allows, and gives it to the guarded owner, whose single
transaction checks everything again, changes the WorkItem, and inserts receipt and
*effect*. Delivering the effect is a call to Pi; its answer, or its drain, later
produces the next event.

A dispatch effect of JEV is one of five kinds of request that prompt a Room's Session.
The turn registry decides which of them may, and the fence of the Pi runtime, below it,
binds the one turn that Pi runs; what the turn publishes comes back through a
projection lane and the registry into the Room.

    event queue --claim--> controller --command--> owner --insert--> effect outbox
        ^                                            |                    |
        |                                        WorkItems           call / lookup
        +---- drained, submitted, revised <-------- lifecycle <------ Room turns
                                                                          |
                                          Room <--projection lane-- prompt fence <-> Pi

## 2. Modules and plan

| Module | Models | Composed with |
|---|---|---|
| `EffectOutcome` | the promise: each effect is performed at most once and a report is true and final | implemented by the next two |
| `RuntimeEffects` | outbox, executor claims, drain proofs, Pi as environment | refines `EffectOutcome` |
| `CommandReceipts` | prompt admission | refines `EffectOutcome` |
| `DurableEventQueue` | owner event queue | |
| `QueueRotation` | the queue with a history of how often each graph was passed over | extends the queue |
| `JevTaskController` | decision generations and the commit of one command | |
| `JevTaskGraph` | graph rules, attempts, revisions, report, Stop | |
| `RoomTurns` | the turn registry, the threads that share it, the projection lane, Stop of a Root | Pi as far as these threads see it |
| `PromptFence` | reservation, hand-off, answer, queued messages, events, Stop, timers and Host exit of one Session | the Host as environment |
| `RuntimeEffectsProofs`, `CommandReceiptsProofs`, `DurableEventQueueProofs`, `QueueRotationProofs`, `JevTaskControllerProofs`, `JevTaskGraphProofs`, `RoomTurnsProofs`, `PromptFenceProofs` | the theorems about the module of the same name | |
| `MC...` | model values of the runs; `MCJevTaskGraph` also checks the graph algorithms against reference definitions | |

What the plan has left, in its order: (a) a composition of the reclaim with
`JevTaskGraph` (takeover by another owner while the old attempt drains) and participant
removal; (b) `reconcile_graph` as an ordered procedure in which a step raises, over
`RuntimeEffects`; (c) Gateway requests and foreground commands; (d) background jobs and
wakes; (e) the client's command journals; (f) the Stop of a Root over several Sessions,
with its durable intent and proofs. The lane schedulers were dropped from it: they wait
for nothing and hold one token per lane.

Conventions: one action per transaction, or per call between transactions; names as in
the source; a plain definition `X` may be preceded by `X_Variant`, the same operator
with a plausible bug, used only to show that a property can fail.

## 3. What each module says

**RuntimeEffects.** `state` is the row's state, `slot` the executor claim of a Session,
`drained` the stored drain proofs; `pc`, `at`, `receipt` are the threads that run
`deliver` or `reconcile`; `call`, `runs`, `turn` are Pi. `ClaimSend` is the first
transaction of `deliver`, `Send`/`Answer`/`CallRaises` the call, `Record` the second
transaction; `StartReconcile`/`Lookup` are `reconcile`. A call in flight may be performed, refused or
lost later, also after its worker timed out or died; Pi's durable proof may come late or
never. A `stale` dispatch is one whose admission hash no longer matches. Properties: `TruthfulOutcome`, `NoContradiction`,
`OneAttemptPerSession`, `NoLateCancel`, the refinement `ImplementsOutcome`; fairly,
`ProvenEffectSettles`, `DrainedSessionIsFreed`. `AtMostOneRun` and `OutcomeIsFinal`
follow from the refinement and are proved, so no run repeats them.

**CommandReceipts.** One receipt row per `clientMessageId`, one handler thread per HTTP
request. `Admit`, `Conflict`, `Replay` and `Join` are `begin`; the Pi call lies between
transactions; `RecordEvidence`, `CompleteAccepted`, `Fail` are the writes after it;
`ReadReceipt`, `ReadEvents` and `AcceptFromEvidence` are the recovery from durable turn
evidence (two reads and a write, each a transaction of its own).
`PruneEvent` is the retention of runtime events, which must spare the evidence of a
pending row. A request that joins a pending command may be told "pending" although
another request decides it between its `begin` and its reads; the
next request hears the decision, so `EvidenceIsHeard` speaks of the command.
`OneTurnPerLineage` says that a message and its retries start one turn among them,
`EvidenceSurvives` that what proves an accepted turn is kept while its row may need it.

**DurableEventQueue.** Each operation reads the clock *before* it waits for the write
lock, so what it compares with is stale by `age[w]`, at most `MaxWait`. `HostNext` is what the host does (it never
renews, and nothing wakes a blocked event); `Next` is the whole class.
`QueueRotation` is the whole class with a history variable `overtaken` that counts, per
graph, the claims that others got while it had an event to claim; `RoundRobin` bounds it
by the number of other graphs. The run has one host; `renew` by one of several hosts with a
stale clock is not model-checked, since no caller in the repository renews. Three conditions of
the statements never bite and are left out: `recovery_policy='authorized_unsent'`
(`event_queue.py:67` and `:91`; the column has that default and nothing writes it),
`exclude_graph_ids` (no caller passes any) and the batch of 64 that `recover_expired` takes
at most (the rows of a run are fewer; a larger backlog is recovered by later ticks).

**JevTaskController.** `log` is an event's list of generations, the last one its row;
a snapshot fingerprint is the number of owner commands, the view of the rest of the Room
(which may change *and change back*) and whether an effect is in doubt. Two hosts may handle the same event at once, when the
queue's lease expired, and may die at any step. The owner command is one step with its fence: the trigger
of migration 0209 admits it only for the current decided generation, and
`require_unchanged` only on its snapshot. `_transition` compares the generation and not
the phase, which is enough: `SettledIsFinal` and `TruthfulReceipt` show it.

**JevTaskGraph.** A task is a name and a version. Its `state` is the WorkItem's, its
`attempt` summarises accepted turn, effect and executor claim. `Claim` to
`Drain` are one attempt, `Submit` and `Escalate` what it returns, `Accept`, `Return`,
`Retry`, `CloseExhausted` what becomes of it; `ChangeEdges` is an edge command,
`RequestRevision` and `ApplyRevision` replace a branch by successors once its
attempts drained; `PrepareReport` to `SettleEmpty` are the synthesize execution and the
final; `FenceStop`, `CancelRoot`, `WithdrawPrepared` are the transactions of Stop. An edge command is refused
after Stop and while a revision waits (`EdgesOpen`, which the application checks); the rest of
its guard is the ledger's.
Abstractions: each task has an owner and a Session of its own, which allows more
concurrency than a shared one; verification executions appear as the review decision
they justify; the plan phase is its last step, `ApplyPlan`; the cancel of an
old attempt is left to `RuntimeEffects`. A step that raises inside a
transaction is not enabled: the code rolls it back.
Properties: `WorkRestsOnAccepted` (work runs and is accepted on accepted
prerequisites), `CurrentInputs` (not on those of a superseded version),
`NoOrphanedExecution` (nobody executes a superseded version, and a pending revision
names who still does), `FinalIsTruthful` (a final says of every task what became of it,
and covers the whole graph), `StopLeavesNothingPrepared`; fairly `GraphEnds`,
`RevisionResolves`. `GraphEnds` allows an end the code really has: when all
report attempts on one state of the graph were refused, nothing more is prepared
(`Unreported`). The graph algorithms are checked once per run, as assumptions of
`MCJevTaskGraph` that TLC evaluates: `AcceptedIffSound` (a graph is accepted exactly if
no set of unfinished nodes waits for itself) and `AffectedIsLeast` (a revision replaces
exactly what consumes the revised task), over three tasks, the Root and every set of edges.

**RoomTurns.** `registry` is `RoomTurnRegistry` for one Session, `pc` the threads of five
kinds of request (a user dispatch, the wake of a facilitator, a prepared JEV dispatch, a
private notice, a direct message), `running`/`admission`/`fenced` what they see of Pi,
`emitted` and `queue` the events of the turns on their way, `cursor` the projection lane
inside `_mirror_event_to_room`, `room` what became public and `stop` the Stop of each
Root. One action is one section of the registry lock, or one call of the Pi runtime: the
lane alone takes the lock in up to five sections per event, and any thread may run
between two of them. Simplifications: a turn is named after its prompt; a dispatch
releases its reservation in the step that accepts or fails it, since until then other
threads just find the Session engaged; `StopClose` merges marking, publishing,
cancelling and releasing; `registered_turn_for_event` and `is_cancelled` are one step; an
answer is lost only after the turn started; a Stop is repeated only when it ended
pending. Properties: `PublicIsFaithful` (nothing is
published under another Root, or out of order), `OneAbort`, `NothingLost` (also of what
Pi published before it answered), `StopHolds`; fairly `SessionComesFree`.

**PromptFence.** `fence` is `_HostedSessionState` of one Session, `retired` the turns
whose end is fenced, `status` and `ended` the durable status and the published
terminals. The threads are the prompts (`pc`), the messages queued into a turn (`steers`,
deliveries `steer` and `follow_up` of `prompt()`), the Stops (`stops`), the workers that tell
the Host of a Stop that came before the turn id (a call that was `written` may still fail,
and then the next Stop sends another), the two probes, the event lane (with
`failing` between its two sections of a failed turn) and projections that a thread
writes after it has let go of the lock (`late`). The Host takes commands in order,
answers and publishes on two lanes, may lose a terminal, may never answer, and may exit.
Simplifications: a turn is named after its prompt; the failed event is a settlement
that fails; binding and settling on one event are one section; one probe of each kind is
under way at a time; a turn publishes one progress event; a queued message reaches the
Host at any moment between its request and its answer, whatever else is on the wire. The
failures that `_handle_host_event` reports on other events (`agent_settle_failed`,
`extension_error`, a failed receipt with work still pending) take the path of the settlement
that fails. Properties:
`CancelledNeverRuns`, `NoOrphanTurn` (the Runtime knows of every turn the Host works on),
`StoppedIsNotCompleted`, `NoReturn` (a turn that has ended is bound again only by the answer
to a message that the Host had queued into it, and only where no turn is bound); fairly
`StopIsCarriedOut`. Two of them are about `Undisturbed` behaviours only, because of what
section 7 says of turns that are ended by two paths at once, and of those that such an answer
brings back.

## 4. Runs and bounds

| Run | Question | Bounds | States |
|---|---|---|---|
| `MCRuntimeEffects` | all safety, the refinement, and that effects settle and Sessions are freed | 2 dispatches that want one Session, 1 cancel, 2 workers, 1 death | 169 k |
| `MCCommandReceipts` | all safety, the refinement, and that durable evidence is heard | 3 messages (a prompt and two retries of it), 5 requests, 1 death | 29 k |
| `MCDurableEventQueue` | the host's use of the queue, and that every event settles | 2 hosts, 2 events of one graph, 2 attempts per budget, lease 2, lock wait 1, 1 death | 678 k |
| `MCQueueRotation` | fairness between graphs, over the whole class (also `renew`, `wake`) | 1 host, 2 graphs, 3 events, lock wait 1, 1 attempt per budget, budget 2 | 1.56 M |
| `MCJevTaskController` | one command per event, true and final receipts, and that a committed command is receipted | 1 event, 2 hosts that may die anywhere, 2 views and a closed Root, 1 observation, 1 model call per snapshot, 2 generations | 811 k |
| `MCJevTaskGraphEdges` | edge commands with repairs and Stop, and that graphs end | 2 names, 1 edge command on requirements, 1 return or retry each, 1 version | 335 k |
| `MCJevTaskGraphRevise` | inputs of current work, and that revisions are applied | 2 names, 2 versions, plans of two tasks with one edge, of either kind, given before work begins (`PlannedSpec`), no Stop | 226 k |
| `MCJevTaskGraphStrand` | (violation, section 7) | 1 name, 2 versions, 3 report attempts | |
| `MCRoomTurns` | all safety of a Session's Room turns, and that it comes free | 5 requests, one of each kind, 2 of them at a time; 2 Roots; 2 events of the JEV turn, 1 of the others | 641 k |
| `MCPromptFence` | safety of the fence while its Host lives | 2 prompts, 1 Stop, 1 queued message; symmetric in the prompts | 3.96 M |
| `MCPromptFenceLive` | that a Stop is carried out, also with an exit of the Host | 1 prompt, 2 Stops, 1 exit, no queued message | 460 k |
| `MCPromptFenceOwner` | (violation, section 7) | 2 prompts, no Stop, no queued message | |

Why these are enough. Each hazard here involves at most two actors on one row, or one
actor and its predecessor's remains: two workers (or hosts) and one death produce every
pair of "old" and "new" owner of a row. Two
dispatches that compete for one Session are the smallest recycling of it. A chain of two
messages has the retry of a retry, and a third message a second successor. One owner
event suffices for the controller because all its rows are per event, and two hosts on
the same event are the case that its lease creates; the budget of model calls that the
events of one snapshot share is in the module, but no run checks it with two events. Two names suffice for a prerequisite and a consumer,
two versions for an attempt that outlives its version; cycles through three tasks and
the Root are covered by the assumptions of `MCJevTaskGraph`. For the fence, two prompts
are an owner and a newer owner, and a message queued into the first may be answered when the
second one is there; one prompt with two Stops has the repeated Stop, and
with an exit the second Host (that no turn comes back after an exit is proved, not run). For the Room turns, every pair of the five kinds meets, with
a Stop of either Root in between. That bound matters: `NothingLost` and `StopHolds` hold
of every two requests, and of three that include no direct message (the module with
`MaxThreads` 3, `Directs` empty and one event per turn: 14.6 million states, too many to
keep as a run); a third request with a direct message breaks both, see section 7.
All five safety properties are proved for any number of requests, these two as long as no
direct message has taken the reservation (section 6). The counters of the code
(3 refused attempts, 2 returns, 3 reports, 8 deliveries) are parameters and are mostly 1 or 2
in the runs: what matters is the last allowed step and the step after it. Only
`MCPromptFence` uses symmetry: its two prompts are interchangeable in every definition, and
it checks no liveness. Deadlock is checked except where the system really may stop: all effects or
receipts decided, a graph ended, every request over and the Session idle.

Each property of each passing run is shown to be falsifiable: `PROJECT.json` lists, per
property, a plausible bug in a mapped definition with which TLC finds a violation.

## 5. Fairness

- `RuntimeEffects`: the maintenance tick reconciles every effect in doubt (weak), a
  lookup that is retried for ever eventually answers (strong), and the executor of a drained
  attempt is released (weak, which idealises `reconcile_graph`: a step before the release may
  raise at every tick, plan item (b)). Pi owes nothing: turns
  need not end, proofs need not come.
- `CommandReceipts`: a handler runs to its end, because each wait in it has a timeout.
- `DurableEventQueue`: a living host goes on with its tick; clocks advance; nothing is
  assumed about handlers that take longer than the lease.
- `JevTaskController`: a handler proceeds (weak); the queue redelivers an event that is
  not settled (strong: the round robin serves it again and again; the budget of
  deliveries is not modelled here but in the queue, so the result holds while it lasts);
  of the deliveries, some survive until the receipt is written (strong).
- `JevTaskGraph`: the host's steps are weakly fair; an admitted execution ends; the
  controller does not abstain for ever when a claim or a retry is the only thing left;
  `CloseExhausted` is strongly fair, since the handling of every event begins with it
  and a graph's events are handled one at a time. Nothing for edge commands, revisions
  and Stop. Participants are assumed to stay in the Room.
- `RoomTurns`: a thread that has started goes on (each of its waits has a timeout), the
  lane takes its events, a Pi turn ends (the fence below sees to that), a Stop that was
  asked for is carried out. No request has to come.
- `PromptFence`: threads, timers, the event lane and projections go on. Nothing at all is
  assumed of the Host, which may stay silent for ever.

## 6. Proofs

`RuntimeEffectsProofs` proves, for any number of effects, Sessions, workers and deaths
and from `EffectAssumption` alone: `TypeCorrect`, `SentOnce` (`AtMostOneRun`),
`OutcomesAreTrue` (`TruthfulOutcome`), `ReceiptsAgree` (`NoContradiction`),
`SessionsAreExclusive` (`OneAttemptPerSession`), `CancelsAreInTime` (`NoLateCancel`),
`OutcomesAreFinal` (`OutcomeIsFinal`) and `OutboxImplementsOutcome`
(`ImplementsOutcome`).

None of these is inductive alone. The invariant `IInv` adds what the code relies on
without saying it:

- `Attention`, `OneClaimer`: a worker that has claimed an effect is the only one that will
  ever call for it, and the effect is in doubt meanwhile. This is what makes
  "pending -> sending" in one transaction the right to call.
- `Untouched`: before that transaction there is no call, run or turn.
- `ReceiptsProven`, `RowsProven`: a definite receipt in a thread's memory, and a definite
  row, agree with what became of the call, and a refused or lost call can no longer be
  performed. Hence two late receipts cannot contradict each other.
- `RunsCounted`: an effect has run exactly if its call is executed (proven or not).
- `TurnsStarted`, `SlotsHeld`: an attempt that is pending, in doubt or accepted and running
  holds its Session, since only a drain proof or a proven non-admission frees it.
- `CancelsAimed`, `NoLateCancel`: a cancel is requested for an attempt that holds its Session
  and none is left in doubt when that slot is freed.

`InitInv` and `InvStep` (one step per action, one sub-step per disturbed conjunct) give
`Invariance`. The refinement uses `TerminalStays` and `OneReport`: a step changes the
report of at most one effect by proving it, or of several by withdrawing what was never
sent, and each case is a step of `EffectOutcome`.

The other proofs have the same shape (an invariant with one step per action), and each
needs its own idea.

- `CommandReceiptsProofs`: `OneTurn` (`OneTurnPerLineage`), `EvidenceStays`
  (`EvidenceSurvives`) and `ReceiptsImplementOutcome` (`ImplementsOutcome`), for any number
  of messages, requests and deaths. `HandlerInv`: a handler that may still write holds the
  row's claim, and the reason it carries is the truth about the call. `RowInv`: what a row
  says is true of its call. `Lineage`: only a failed message has a successor, and one at
  most, so in a line of retries all but the last have failed, and will start no turn.
- `DurableEventQueueProofs`: `OneLiveClaim` (`OneLiveClaimPerGraph`) and `HolderOnly`
  (`OnlyHolderSettles`), from the assumption that a lock wait is shorter than the lease
  (`MaxWait < Lease`; ten seconds against two minutes in the code). A clock that was read
  before the wait is behind, and a clock that is behind sees *more* leases as alive, so it
  errs on the cautious side (`OldClocksAreCautious`).
- `QueueRotationProofs`: `ClaimsGoRound` (`RoundRobin`), for any number of events and hosts
  and any finite set of graphs (`RotationAssumption`: graphs are rows of a table), whatever
  the clocks within `MaxWait` say. The count alone is not inductive; what keeps it small is
  `PassedStandBehind`: a graph that was served before another one now stands behind it in the
  claim order, so it was passed over at most as often as there are graphs behind it. A
  step of `claim_next` puts one graph last and leaves the others in their order
  (`ServedLastOrder`), and it never serves a graph that stands behind a claimable one.
- `JevTaskControllerProofs`: `CommitsOnce` (`OneCommandPerEvent`), `NoStaleChoice`
  (`CommandsOnTheirSnapshot`), `ReceiptsAreTrue` (`TruthfulReceipt`), `SettlesOnce`
  (`SettledIsFinal`). The invariant follows a handler through its transactions: it works
  on its snapshot (`OnItsSnapshot`), it alone asks the model (`AsksAlone`), those who find a
  decision share it (`ShareTheAnswer`), and who finds a commit finishes it
  (`FinishesACommit`), whichever host dies in between.
- `JevTaskGraphProofs`: `RestsOnAccepted` (`WorkRestsOnAccepted`), `InputsAreCurrent`
  (`CurrentInputs`), `NothingOrphaned` (`NoOrphanedExecution`), `TruthfulFinal`
  (`FinalIsTruthful`), `StopIsClean` (`StopLeavesNothingPrepared`), for any number of tasks,
  versions and edges. `Wired` and `Newest` say that edges join what was created and that no version is
  newer than the current one, `Fenced` that a pending revision covers all that follows its
  target and waits for whatever works there, `Final` that a Root is silent after its
  final, `Stopped` how far a Stop has come. That a revision catches every
  consumer needs that the impact is closed under the edges (`FollowersClosed`).
- `RoomTurnsProofs`: `TypeCorrect` (`TypeOK`), `PublicFaithful` (`PublicIsFaithful`),
  `AbortedOnce` (`OneAbort`), for any number of requests, Roots and events. `Trail` follows
  an event from Pi to the Room: a turn is bound to its own Root only (`Binds`), what is kept
  for an answer is older than what is queued (`Buffered`, `Ahead`) and what was said is
  older than both (`Spoken`), and a published abort is claimed and no
  longer carried by the lane (`Aborts`).
  `StopsHold` (`StopHolds`) and `NothingIsLost` (`NothingLost`) need more, and hold while
  `Alone`: no direct message has taken the reservation of the Session. (Without
  direct messages that is always; section 7 says what goes wrong otherwise.) `Guard` says why one dispatch at a
  time is enough: the reservation, the pending turn and the registered turns exclude each
  other (`Reserved`), no second dispatch of a Root is under way while one works (`Single`), a
  Stop gives back reservations of its own Root only (`Observed`), the lane finishes only
  what is registered (`Located`). So a prepared dispatch that runs, or may still be
  written, is a target of every Stop of its Root, and no answered Stop has missed it
  (`Working`). For `NothingLost` the invariant is `Peace`: the lines of an accepted turn are
  exactly its first events and all the others wait in the lane (`Told`), the events kept for
  an awaited answer are a prefix in the same way (`Keeping`), and a turn is unregistered only
  behind its last event. `Fresh` and `FreshKept` conclude that what reaches the front of the lane
  is always the next event of its turn; `FlushedQuietly` follows what is kept through `accept`.
- `PromptFenceProofs`: `TypeCorrect` (`TypeOK`), `RetiredForGood` (`NoReturn`),
  `CancelledForGood` (`CancelledNeverRuns`), `NothingOrphaned` (`NoOrphanTurn`),
  `StoppedForGood` (`StoppedIsNotCompleted`), for any number of prompts, queued messages,
  Stops and exits. `NoReturn` rests on the order of the code: the answer of a prompt and the
  events look at the retired turns in the section of the lock in which they bind. The answer
  to a queued message does not, and it binds what the Host named in it: that is the one case
  the property leaves, and `NoReturnStep` shows that there is no other.
  `CancelledNeverRuns` rests on `Ownership`: a prompt that is on its way to
  the hand-off owns the admission, and a Stop that answered "cancelled" has left its mark
  there or the prompt is over; so the hand-off meets the mark. The last two rest on
  `WatchInv`, which relates the fence to the Host's queues: a prompt is on the wire once, a
  refused one does not run, and what has an end is retired (`Recorded`); while nothing is
  disturbed, every prompt that was handed off and is not retired is the bound turn or holds
  the admission, never one of each (`Watched`), and what a Stop aims at carries its mark
  until it is retired (`StopsMarked`). With queued messages an admission may outlive its turn, when the answer to the
  message binds the turn before that of the prompt: then the settle probe does not look at it, since
  the event that arms the probe closes the admission (`Probed`), and so only a Stop ends the turn
  (`AbortedAdmission`). A behaviour that is undisturbed after a step was so
  before it, since endings, exits and returns are never taken back (`ReturnedStays`).

Where an argument goes through data of any length (the nodes that follow a node, the
events kept for a turn), the proofs take a least counterexample in place of induction:
`Least` gives the first step at which a recursive function leaves what is claimed of
it, and the unfolding of that one step is the contradiction (`FollowersClosed`,
`Flushed`).

Model-checked only: all liveness (fairness and ENABLED are beyond the prover);
`AcceptedIffSound` and that the impact is the *least* closed set, which are about recursive
functions on every graph. Every other invariant and action property of the runs is a
theorem; of the Room turns, `StopHolds` and `NothingLost` are theorems while `Alone` holds, and what
the run adds is that any two requests keep them without it.

## 7. Disagreements found

Two runs end in a counterexample, because the code does not do what a text of the
repository says. The first was reproduced with the fixtures of the repository's tests.

1. `MCJevTaskGraphStrand`, `RevisionIsNotStranded` (`jev_tasks/lifecycle.py:1283`). A
   revision is requested while the last report attempt runs. The attempt ends without
   output; `reconcile_auxiliary` must write a failed final in the same transaction,
   `_save_final` refuses because the revision is pending, everything rolls back, and
   `tick` swallows the exception. The revision waits for the slot that this transaction
   would have freed, until Stop. `integrations/jev/README.md:186` promises the revision
   after the real drain.
2. `MCPromptFenceOwner`, `OnlyItsEndClearsATurn` (`pi/runtime.py:6635`). `_turn_failed`
   clears the turn of its Session without looking whose it is. The event lane fences a
   failed turn in an earlier section of the lock; a settle probe already under way still
   finds that turn bound, frees the Session, a new prompt is admitted and bound, and
   `_turn_failed` erases it. `pi/runtime.py:2014` says of another place that "a delayed
   failure must not clear a newer owner".

### Remarked on the way

These have no run of their own: either nothing in the repository says what should
happen, or the model shows them only beyond the bounds of its runs. The first four are the
reason why `StopHolds`, `NothingLost`, `CancelledNeverRuns`, `NoReturn` and `Undisturbed` are
stated as they are.

- *A direct message overwrites a reservation* (`agent_service.py:4390`). A user dispatch
  holds the Session and is announced. A direct message has passed its availability check,
  which leaves reservations out on purpose (`rooms/turn_registry.py:307`), and
  `hold_priority` replaces the reservation by its own; its release frees the Session. A
  prepared JEV dispatch is admitted, and then the `begin` of the user dispatch replaces
  its pending turn: a Stop of the JEV Root finds no target and answers while the turn
  runs. With a wake in place of the JEV dispatch, its events are lost. The mode gate
  (`agent_session_mode_gate.py:9`: "One logical Session cannot enter Agent and Room
  execution at once") would exclude it, but no production code calls `claim_room`. With
  `MaxThreads` 3 TLC finds both.
- *A late Stop meets another Root* (`rooms/session_cancellation.py:442`). The Stop of r1
  waits for its receipts; r1's turn ends, another request reserves the Session and its
  prompt for r2 is accepted. Until the registry forgets r1, its mark makes events of r2
  resolve to the cancelled Root, so they are dropped, and the receipt that the Stop gets
  may be of r2's turn. `NothingLost` is therefore about Sessions that nobody stops.
- *An exit drops the mark of a Stop* (`pi/runtime.py:6674`). `_handle_host_exit` forgets the
  fence with a reservation that was stopped but not handed off; `prompt()` then makes an
  admission of its own and hands the prompt to a new Host. `CancelledNeverRuns` is stated
  until an exit.
- *The answer to a queued message brings an ended turn back* (`pi/runtime.py:1853`). The Host
  has queued the message; before the answer is handled, the event lane settles the turn or
  the abort fallback retires it. The answer then finds no turn bound and binds the old one,
  without looking at the retired ones. The Session is engaged from then on; the events of
  that turn are ignored, and `abort()` answers that it has already settled without clearing
  it (4865-4889), so only an exit of the Host or a probe that was armed before frees it. When a
  newer prompt has been handed off meanwhile, its answer meets a bound turn that is not its
  own and counts as obsolete, so the Runtime loses sight of the newer turn until an event of it
  comes; and the returned turn may be shown as ended a second time, also as completed after a
  Stop. Dually, where the answer of a prompt was lost and a queued message binds its turn,
  the admission stays held after a Stop fallback has ended the turn, and no other prompt is
  admitted until the Host exits.
- In `RoomTurns`: a wake that begins before the Stop is recorded may start its turn after
  the Stop has aborted the Session; an event of no known Root is published under the id of
  its own Pi turn (which `PublicIsFaithful` admits); a private notice takes the events of a
  Room turn whose events lag behind; `agent_events.py:190` hands an event to the lane
  outside the lock that numbers it.
- In `PromptFence`: the exit is handled on the thread that reads the output, before the
  event lane has drained; several recovery paths write the durable status after they let
  go of the lock, so an old turn may set the status of a new one; a pending Stop that is
  taken over by an event, before the answer, has no timer; a failure that follows an
  abort is shown after it; a settle probe is not repeated; a Host that exits between
  reservation and hand-off leaves the status busy.
- In the kernel: `finish` reads its clock before it waits for the lock, so it accepts an
  acknowledgement whose lease has just expired, which `jev_tasks/event_queue.py:144` says
  it rejects (harmless, the generation protects the row: `OnlyHolderSettles`). A failed
  last task is told of a retry (`jev_tasks/application.py:1938`) although the lifecycle
  goes to the report first (`jev_tasks/lifecycle.py:955`). Context edges into accepted
  work may be changed; an edge command can leave a prepared dispatch whose admission hash
  never fits again; three refused reports leave a Root open; a report attempt that is the
  third on an *earlier* state of the graph still fails the Root when it ends without
  output; a queue event that is blocked waits for a `wake` that no production code calls.

## 8. Not modelled, and why

- In `JevTaskGraph`: verification and planning executions (abstracted), the Root that runs
  without a plan, reassignment and reclaim, participant removal, changes of requirements,
  plan approval, the context manifest and its admission hash. They are in the plan.
- The queue's redelivery and the controller are separate modules joined by their
  fairness assumptions; a composed module would exceed TLC with two hosts.
- `RoomTurns` and `PromptFence` are separate too: the first has of Pi only what its threads see.
  Left out of the first: the caps of the retired maps (2048 and 4096 entries), the Stop
  of a Root over several Sessions with its durable intent, a notice that steers a
  running Room turn, the start gate (one durable row, written once). Left out of the
  second: the durable engine (also its queued inputs, which bind nothing), the answer to a
  queued message that names no turn or another one than the Host runs, the projections of an
  accepted turn,
  tool synchronisation, opening and evicting Sessions, the idle timer, the kill gate, a
  retry under the same client id, compaction, and the caps of the retired ids.
- SQLite itself (a transaction is atomic and durable), Pi's inside, model answers (any
  allowed choice may be made), and wording, ranking and formatting.
- The components of the inventory that the plan leaves open (section 2), and those
  (retrieval, ranking, packaging, observability, routing, the input method, memory, the
  knowledge library, the laboratory), which are most of the repository's lines and have
  no protocol to verify.
