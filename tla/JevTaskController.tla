-------------------------- MODULE JevTaskController --------------------------
(***************************************************************************)
(* The finite event handler of one task graph                              *)
(* (rag_ime/jev_tasks/controller.py with its host, RoomDriver.handle).     *)
(*                                                                         *)
(* Several hosts may handle the same event: the queue's lease can expire   *)
(* under a slow model call, and nothing else keeps them apart.  An event   *)
(* gets a sequence of decision generations, each bound to the exact inputs *)
(* it froze; one of them may commit one owner command.  A worker's steps   *)
(* are its database transactions and the model call between them.          *)
(***************************************************************************)
EXTENDS Integers, Sequences, FiniteSets

CONSTANTS
    Events,         \* source events of one graph
    Workers,        \* host threads that handle events
    None,           \* no event
    Views,          \* what the rest of the Room can look like to the graph
    Closed,         \* the view in which the Root takes no more work
    Observations,   \* observed states and candidate lists with something to do
    MaxDecisions,   \* max_decisions_per_snapshot
    MaxGenerations  \* bound: generations of one event

ASSUME ControllerAssumption ==
    /\ None \notin Events
    /\ Closed \in Views
    /\ MaxDecisions \in Nat \ {0}
    /\ MaxGenerations \in Nat

VARIABLES
    log,        \* agent_jev_decision_generations, the last one is the current row
    lease,      \* the current evaluation's lease has not expired
    commands,   \* agent_jev_commands of these generations: event, generation, snapshot
    view,       \* the Room as the other components leave it
    inDoubt,    \* some runtime effect of the graph is sending or unknown
    pc, event,  \* each worker's next step, and the event it handles
    seen,       \* the snapshot it works on (expected)
    gen,        \* the generation it works on (row)
    choice      \* the decision it holds in memory

database == <<log, lease, commands>>
environment == <<view, inDoubt>>
worker == <<pc, event, seen, gen, choice>>
vars == <<database, environment, worker>>

\* Snapshot.fingerprint: tasks only move forward, with each owner command; the
\* rest of the Room may come back to what it was.
Fingerprint == <<Cardinality(commands), view, inDoubt>>

Choices == {"command", "wait", "abstain"}
NoObservation == "nothing to do"            \* every candidate is wait

Init ==
    /\ log = [e \in Events |-> <<>>]
    /\ lease = [e \in Events |-> FALSE]
    /\ commands = {}
    /\ view \in Views \ {Closed} /\ inDoubt = FALSE
    /\ pc = [w \in Workers |-> "idle"]
    /\ event = [w \in Workers |-> None]
    /\ seen = [w \in Workers |-> Fingerprint]
    /\ gen = [w \in Workers |-> 0]
    /\ choice = [w \in Workers |-> "none"]

-----------------------------------------------------------------------------
(***************************************************************************)
(* The row of an event.                                                    *)
(***************************************************************************)
Started(e) == log[e] # <<>>
Row(e) == log[e][Len(log[e])]
Phase(e) == IF Started(e) THEN Row(e).phase ELSE "none"

\* _transition compares the generation, and nothing else, and writes the
\* current row and its generation.
Current_Any(w) == Started(event[w])
Current(w) == gen[w] = Len(log[event[w]])
Transitioned(e, phase, answer) ==
    [log EXCEPT ![e][Len(log[e])] = [@ EXCEPT !.phase = phase, !.answer = answer]]
Transition(w, phase, answer) ==
    log' = IF Current(w) THEN Transitioned(event[w], phase, answer) ELSE log

\* _receipt: an applied row answers; a command that any generation of the event
\* committed makes the row applied.
Committed(e) == \E c \in commands : c.event = e
HasReceipt_RowOnly(e) == Phase(e) = "applied"
HasReceipt(e) == Started(e) /\ (Phase(e) = "applied" \/ Committed(e))
RecoverReceipt_OwnerStatus(e) ==
    log' = IF Phase(e) = "applied" THEN log ELSE Transitioned(e, "requested", "command")
RecoverReceipt(e) ==
    log' = IF Phase(e) = "applied" THEN log ELSE Transitioned(e, "applied", "command")

\* _recovery_barrier
Barrier(e) == inDoubt \/ (Phase(e) = "evaluating" /\ lease[e])

\* ledger.require_unchanged: the snapshot is the current one and the Root, the
\* Room and the controller still take work.
Unchanged_RootOnly(w) == view # Closed
Unchanged(w) == seen[w] = Fingerprint /\ view # Closed

Leave(w) ==
    /\ pc' = [pc EXCEPT ![w] = "idle"]
    /\ event' = [event EXCEPT ![w] = None]
    /\ gen' = [gen EXCEPT ![w] = 0]
    /\ choice' = [choice EXCEPT ![w] = "none"]
    /\ UNCHANGED seen

Goto(w, label) == pc' = [pc EXCEPT ![w] = label]
-----------------------------------------------------------------------------
(***************************************************************************)
(* RoomDriver.handle up to the observation.                                *)
(***************************************************************************)
\* The worker takes an event from the queue and reads the snapshot.
Take(w, e) ==
    /\ pc[w] = "idle"
    /\ Goto(w, "recover")
    /\ event' = [event EXCEPT ![w] = e]
    /\ seen' = [seen EXCEPT ![w] = Fingerprint]
    /\ UNCHANGED <<database, environment, gen, choice>>

\* event_receipt: recover a commit first, then refuse a second evaluation.
EventReceipt_BarrierFirst(w) ==
    LET e == event[w] IN
    /\ pc[w] = "recover"
    /\ \/ Barrier(e) /\ UNCHANGED log /\ Leave(w)
       \/ ~Barrier(e) /\ HasReceipt(e) /\ RecoverReceipt(e) /\ Leave(w)
       \/ /\ ~HasReceipt(e) /\ ~Barrier(e) /\ UNCHANGED log
          /\ Goto(w, "start") /\ UNCHANGED <<event, seen, gen, choice>>
    /\ UNCHANGED <<lease, commands, environment>>
EventReceipt(w) ==
    LET e == event[w] IN
    /\ pc[w] = "recover"
    /\ \/ HasReceipt(e) /\ RecoverReceipt(e) /\ Leave(w)
       \/ ~HasReceipt(e) /\ Barrier(e) /\ UNCHANGED log /\ Leave(w)
       \/ /\ ~HasReceipt(e) /\ ~Barrier(e) /\ UNCHANGED log
          /\ Goto(w, "start") /\ UNCHANGED <<event, seen, gen, choice>>
    /\ UNCHANGED <<lease, commands, environment>>

-----------------------------------------------------------------------------
(***************************************************************************)
(* _start: one write transaction.                                          *)
(***************************************************************************)
\* A crash between choice and apply leaves a decision that the same frozen
\* inputs may reuse.
Reusable_AnySnapshot(w, o) ==
    Phase(event[w]) = "decided" /\ Row(event[w]).observed = o
Reusable(w, o) ==
    /\ Phase(event[w]) = "decided"
    /\ Row(event[w]).on = seen[w] /\ Row(event[w]).observed = o

\* model_call, summed over the events of the graph.
ModelCalls(f) ==
    Cardinality({x \in Events \X (1..MaxGenerations) :
                    LET e == x[1]  g == x[2] IN
                    /\ g <= Len(log[e])
                    /\ log[e][g].on = f /\ log[e][g].observed # NoObservation})

HasDecisionBudget(f) == ModelCalls(f) < MaxDecisions

\* The next generation; a generation it replaces becomes superseded.
NextGeneration(w, o, phase, answer) ==
    LET e == event[w]
        old == IF Phase(e) \in {"evaluating", "decided"}
               THEN Transitioned(e, "superseded", Row(e).answer) ELSE log
    IN log' = [old EXCEPT ![e] = Append(@, [on |-> seen[w], observed |-> o,
                                            phase |-> phase, answer |-> answer])]

\* What every _start settles before it looks at its inputs.
StartRefused(w) ==
    LET e == event[w] IN
    /\ \/ HasReceipt(e) /\ RecoverReceipt(e)
       \/ ~HasReceipt(e) /\ (Barrier(e) \/ ~Unchanged(w)) /\ UNCHANGED log
    /\ Leave(w) /\ UNCHANGED lease

StartAllowed(w) == ~HasReceipt(event[w]) /\ ~Barrier(event[w]) /\ Unchanged(w)

\* handle_event's first transaction, with what the host observed on the snapshot.
Start(w, o) ==
    LET e == event[w] IN
    /\ pc[w] = "start"
    /\ \/ StartRefused(w)
       \/ /\ StartAllowed(w) /\ Reusable(w, o)
          /\ gen' = [gen EXCEPT ![w] = Len(log[e])]
          /\ choice' = [choice EXCEPT ![w] = Row(e).answer]
          /\ Goto(w, "apply")
          /\ UNCHANGED <<log, lease, event, seen>>
       \/ /\ StartAllowed(w) /\ ~Reusable(w, o) /\ ~HasDecisionBudget(seen[w])
          /\ Leave(w) /\ UNCHANGED <<log, lease>>
       \/ /\ StartAllowed(w) /\ ~Reusable(w, o) /\ HasDecisionBudget(seen[w])
          /\ Len(log[e]) < MaxGenerations
          /\ NextGeneration(w, o, "evaluating", "none")
          /\ lease' = [lease EXCEPT ![e] = TRUE]
          /\ gen' = [gen EXCEPT ![w] = Len(log[e]) + 1]
          /\ Goto(w, "decide")
          /\ UNCHANGED <<event, seen, choice>>
    /\ UNCHANGED <<commands, environment>>

\* record_noop: nothing but wait to choose from, no model call.
RecordNoop(w) ==
    /\ pc[w] = "start"
    /\ \/ StartRefused(w)
       \/ /\ StartAllowed(w) /\ Len(log[event[w]]) < MaxGenerations
          /\ NextGeneration(w, NoObservation, "applied", "noop")
          /\ Leave(w) /\ UNCHANGED lease
    /\ UNCHANGED <<commands, environment>>

-----------------------------------------------------------------------------
(***************************************************************************)
(* handle_event after _start.                                              *)
(***************************************************************************)
\* The model answers, or its answer comes after the generation was superseded.
Decide(w) ==
    /\ pc[w] = "decide"
    /\ \E c \in Choices :
          /\ Transition(w, "decided", c)
          /\ IF Current(w)
             THEN /\ choice' = [choice EXCEPT ![w] = c]
                  /\ Goto(w, "apply") /\ UNCHANGED <<event, seen, gen>>
             ELSE Leave(w)
    /\ UNCHANGED <<lease, commands, environment>>

DecisionUnavailable(w) ==
    /\ pc[w] = "decide"
    /\ Transition(w, "failed", "none")
    /\ Leave(w)
    /\ UNCHANGED <<lease, commands, environment>>

\* A wait or an abstention only checks that it still holds.
ApplyWait(w) ==
    /\ pc[w] = "apply" /\ choice[w] # "command"
    /\ Goto(w, IF Unchanged(w) THEN "finish" ELSE "conflict")
    /\ UNCHANGED <<database, environment, event, seen, gen, choice>>

\* owner.apply or reclaims.request: one owner transaction with the receipt in it.
\* The trigger agent_jev_decision_command_fence aborts it unless the command id
\* is the current row's and the row is decided.
Replayed(w) == \E c \in commands : c.event = event[w] /\ c.gen = gen[w]
Fence_CommandIdOnly(w) == Current(w)
Fence(w) == Current(w) /\ Phase(event[w]) = "decided"

ApplyCommand(w) ==
    /\ pc[w] = "apply" /\ choice[w] = "command"
    /\ \/ Replayed(w) /\ Goto(w, "finish") /\ UNCHANGED commands
       \/ ~Replayed(w) /\ ~Unchanged(w) /\ Goto(w, "conflict") /\ UNCHANGED commands
       \/ ~Replayed(w) /\ Unchanged(w) /\ ~Fence(w) /\ Goto(w, "error") /\ UNCHANGED commands
       \/ /\ ~Replayed(w) /\ Unchanged(w) /\ Fence(w)
          /\ commands' = commands \cup
                {[event |-> event[w], gen |-> gen[w], on |-> Fingerprint]}
          /\ \E label \in {"finish", "error"} : Goto(w, label)   \* it may fail after its commit
    /\ UNCHANGED <<log, lease, environment, event, seen, gen, choice>>

\* The owner refuses the command, or fails before it commits.
ApplyFails(w) ==
    /\ pc[w] = "apply"
    /\ \E label \in {"conflict", "error"} : Goto(w, label)
    /\ UNCHANGED <<database, environment, event, seen, gen, choice>>

\* The owner's receipt wins over its exception.
HandleException(w) ==
    LET e == event[w] IN
    /\ pc[w] \in {"conflict", "error"}
    /\ \/ HasReceipt(e) /\ RecoverReceipt(e)
       \/ ~HasReceipt(e) /\ Transition(w, IF pc[w] = "conflict" THEN "superseded" ELSE "failed", "none")
    /\ Leave(w)
    /\ UNCHANGED <<lease, commands, environment>>

Finish(w) ==
    /\ pc[w] = "finish"
    /\ Transition(w, "applied", choice[w])
    /\ Leave(w)
    /\ UNCHANGED <<lease, commands, environment>>

\* The host process dies.
Crash(w) ==
    /\ pc[w] # "idle"
    /\ Leave(w)
    /\ UNCHANGED <<database, environment>>

-----------------------------------------------------------------------------
(***************************************************************************)
(* The rest of the program.                                                *)
(***************************************************************************)
\* The evaluation's 30 s pass.
LeaseExpires(e) ==
    /\ lease[e]
    /\ lease' = [lease EXCEPT ![e] = FALSE]
    /\ UNCHANGED <<log, commands, environment, worker>>

\* Participants and reservations change, or the Root is finished or stopped.
RoomChanges ==
    /\ view # Closed
    /\ view' \in Views \ {view}
    /\ UNCHANGED <<inDoubt, database, worker>>

\* A runtime effect of the graph is sent, or its outcome is proven.
DoubtChanges ==
    /\ inDoubt' = ~inDoubt
    /\ UNCHANGED <<view, database, worker>>

Handle(w) ==
    \/ EventReceipt(w) \/ RecordNoop(w) \/ Decide(w) \/ DecisionUnavailable(w)
    \/ ApplyWait(w) \/ ApplyCommand(w) \/ ApplyFails(w)
    \/ HandleException(w) \/ Finish(w)
    \/ \E o \in Observations : Start(w, o)

Environment == RoomChanges \/ DoubtChanges \/ \E e \in Events : LeaseExpires(e)

Next ==
    \/ \E w \in Workers : Handle(w) \/ Crash(w) \/ \E e \in Events : Take(w, e)
    \/ Environment

\* The queue redelivers an unsettled event whatever else is queued, and a host
\* that keeps receiving it does not always die in the same transaction.
Fairness ==
    /\ \A w \in Workers : WF_vars(Handle(w))
    /\ \A e \in Events : /\ SF_vars(\E w \in Workers : Take(w, e))
                         /\ SF_vars(\E w \in Workers : event[w] = e /\ EventReceipt(w))

Spec == Init /\ [][Next]_vars
FairSpec == Spec /\ Fairness
-----------------------------------------------------------------------------
(***************************************************************************)
(* Properties.                                                             *)
(***************************************************************************)
\* An event commits at most one owner command, over all its generations, all
\* hosts that handle it at once and all their crashes.
OneCommandPerEvent ==
    \A c, d \in commands : c.event = d.event => c = d

\* A command changes the very snapshot its generation observed, and is what that
\* generation chose: an old choice is never applied to a fresh snapshot.
CommandsOnTheirSnapshot ==
    \A c \in commands :
        /\ c.gen <= Len(log[c.event])
        /\ log[c.event][c.gen].on = c.on
        /\ log[c.event][c.gen].answer = "command"

\* A settled event tells the truth: its receipt says "command" exactly when an
\* owner command was committed for it, and a committed command's generation is the
\* last one and was not given up.
TruthfulReceipt ==
    \A e \in Events :
        /\ Phase(e) = "applied" => (Row(e).answer = "command" <=> Committed(e))
        /\ Committed(e) => /\ Phase(e) \in {"decided", "applied"}
                           /\ \A c \in commands : c.event = e => c.gen = Len(log[e])

\* Once an event is settled no late worker rewrites its receipt or opens another
\* generation.
SettledIsFinal ==
    [][\A e \in Events : Phase(e) = "applied" => log'[e] = log[e]]_vars

\* A committed command is eventually receipted, also if its host died right after
\* the commit, its Root closed or an effect stays in doubt for ever.
CommitIsReceipted ==
    \A e \in Events : Committed(e) ~> Phase(e) = "applied"
=============================================================================
