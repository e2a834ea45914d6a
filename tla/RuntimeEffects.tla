--------------------------- MODULE RuntimeEffects ---------------------------
(***************************************************************************)
(* The runtime-effect outbox of the JEV task kernel                        *)
(* (rag_ime/jev_tasks/effects.py) with the durable rows it shares with     *)
(* the owner: executor slots (agent_jev_executor_claims) and drain proofs  *)
(* (agent_jev_execution_drains).                                           *)
(*                                                                         *)
(* An owner command commits an effect together with its receipt.  Any      *)
(* worker thread of any host process may deliver it: one transaction       *)
(* claims it (pending -> sending), the runtime is called outside of any    *)
(* transaction, a second transaction records the receipt.  A worker may    *)
(* die between any two of these steps; whoever comes later may only ask    *)
(* the runtime what happened (reconcile).                                  *)
(*                                                                         *)
(* The Pi runtime is the environment: a call in flight may be performed,   *)
(* refused or lost at any later time, also after its caller timed out or   *)
(* died, and the host may or may not hold a durable proof of it.           *)
(***************************************************************************)
EXTENDS Naturals, FiniteSets

CONSTANTS
    Dispatches,     \* effects that start an execution attempt
    Cancels,        \* effects that cancel one exact attempt
    Sessions,       \* executor Sessions
    Workers,        \* threads that deliver and reconcile effects
    SessionOf,      \* dispatch -> the Session its request names
    TargetOf,       \* cancel -> the dispatch its request names
    Free,           \* a slot nobody holds
    None,           \* a worker that handles no effect
    MaxCrashes      \* bound: worker deaths explored

Effects == Dispatches \cup Cancels

ASSUME EffectAssumption ==
    /\ Dispatches \cap Cancels = {}
    /\ SessionOf \in [Dispatches -> Sessions]
    /\ TargetOf \in [Cancels -> Dispatches]
    /\ Free \notin Dispatches
    /\ None \notin Effects
    /\ MaxCrashes \in Nat

States == {"absent", "pending", "sending", "unknown", "accepted", "rejected", "not_sent"}
Terminal == {"accepted", "rejected", "not_sent"}
InDoubt == {"sending", "unknown"}
Receipts == {"accepted", "rejected", "unknown"}
Calls == {"none", "flight", "unproven", "executed", "refused", "lost"}

VARIABLES
    state,          \* effect -> agent_jev_runtime_effects.state; "absent" before its command
    slot,           \* Session -> dispatch of its executor claim, or Free
    drained,        \* dispatches with a stored drain proof
    stale,          \* dispatches whose prepared admission no longer matches the graph
    pc,             \* worker -> where its thread is
    at,             \* worker -> the effect it handles
    receipt,        \* worker -> the parsed receipt it is about to record
    call,           \* runtime: effect -> what became of the call
    runs,           \* runtime: effect -> how often it was performed
    turn,           \* runtime: dispatch -> its Pi turn
    crashes

owner == <<slot, drained, stale>>
thread == <<pc, at, receipt>>
runtime == <<call, runs, turn>>
vars == <<state, owner, thread, runtime, crashes>>

Init ==
    /\ state = [e \in Effects |-> "absent"]
    /\ slot = [s \in Sessions |-> Free]
    /\ drained = {}
    /\ stale = {}
    /\ pc = [w \in Workers |-> "idle"]
    /\ at = [w \in Workers |-> None]
    /\ receipt = [w \in Workers |-> "unknown"]
    /\ call = [e \in Effects |-> "none"]
    /\ runs = [e \in Effects |-> 0]
    /\ turn = [d \in Dispatches |-> "none"]
    /\ crashes = 0
-----------------------------------------------------------------------------
(* Owner transactions that insert, withdraw or settle effects.             *)

\* GuardedWorkOwner.apply, claim_dispatch: the Session must be free; the
\* effect and the executor claim are inserted in the WorkItem transaction.
ClaimDispatch(d) ==
    /\ state[d] = "absent"
    /\ slot[SessionOf[d]] = Free
    /\ state' = [state EXCEPT ![d] = "pending"]
    /\ slot' = [slot EXCEPT ![SessionOf[d]] = d]
    /\ UNCHANGED <<drained, stale, thread, runtime, crashes>>

\* Reclaims.request: the attempt was observed running, and the snapshot that
\* pins its executor claim is unchanged (the turn may have settled since); at
\* most one requested reclaim of it.
RequestReclaim(c) ==
    LET d == TargetOf[c] IN
    /\ state[c] = "absent"
    /\ state[d] = "accepted"
    /\ turn[d] # "none"
    /\ slot[SessionOf[d]] = d
    /\ \A o \in Cancels : TargetOf[o] = d => state[o] = "absent"
    /\ state' = [state EXCEPT ![c] = "pending"]
    /\ UNCHANGED <<owner, thread, runtime, crashes>>

\* The graph moves on under a prepared dispatch: Stop, a revision, a changed
\* admission hash.
Supersede(d) ==
    /\ d \notin stale
    /\ stale' = stale \cup {d}
    /\ UNCHANGED <<state, slot, drained, thread, runtime, crashes>>

\* RuntimeEffects.abandon_prepared: only an intent nobody began to send.
Withdrawable_AlsoSending(e) == state[e] \in {"pending", "sending"}
Withdrawable(e) == state[e] = "pending"

AbandonPrepared(e) ==
    /\ Withdrawable(e)
    /\ state' = [state EXCEPT ![e] = "not_sent"]
    /\ UNCHANGED <<owner, thread, runtime, crashes>>

\* execution_terminal stores the proof that an accepted attempt drained.
RecordDrain(d) ==
    /\ state[d] = "accepted"
    /\ turn[d] = "settled"
    /\ d \notin drained
    /\ drained' = drained \cup {d}
    /\ UNCHANGED <<state, slot, stale, thread, runtime, crashes>>

CancelsOf(d) == {c \in Cancels : TargetOf[c] = d}

\* RuntimeEffects.release_executor with settle_unsent_cancellation: a drained
\* attempt gives its Session back; its cancels in doubt forbid that, its
\* cancels not yet sent never will be.
DrainProven_TurnAccepted(d) == state[d] = "accepted"
DrainProven(d) == d \in drained

CancelsSettled_OnlySending(d) == \A c \in CancelsOf(d) : state[c] # "sending"
CancelsSettled_Never(d) == \A c \in CancelsOf(d) : state[c] = "not_sent"
CancelsSettled(d) == \A c \in CancelsOf(d) : state[c] \notin InDoubt

ReleaseExecutor(d) ==
    /\ DrainProven(d)
    /\ CancelsSettled(d)
    /\ slot[SessionOf[d]] = d
    /\ state[d] = "accepted"
    /\ state' = [e \in Effects |->
                    IF e \in CancelsOf(d) /\ state[e] = "pending"
                    THEN "not_sent" ELSE state[e]]
    /\ slot' = [slot EXCEPT ![SessionOf[d]] = Free]
    /\ UNCHANGED <<drained, stale, thread, runtime, crashes>>

\* GuardedWorkOwner.apply, fail_dispatch (cleanup_nonadmission): only a proven
\* non-admission releases the claim of an attempt that never ran.
FailDispatch(d) ==
    /\ state[d] \in {"rejected", "not_sent"}
    /\ slot[SessionOf[d]] = d
    /\ slot' = [slot EXCEPT ![SessionOf[d]] = Free]
    /\ UNCHANGED <<state, drained, stale, thread, runtime, crashes>>
-----------------------------------------------------------------------------
(* RuntimeEffects.deliver and RuntimeEffects.reconcile, step by step.      *)

\* The first transaction of deliver: an effect is sent only from pending, and
\* a dispatch only while its prepared admission is current.
Sendable_RetriesUnknown(e) == state[e] \in {"pending", "unknown"} /\ e \notin stale
Sendable(e) == state[e] = "pending" /\ e \notin stale

ClaimSend(w, e) ==
    /\ pc[w] = "idle"
    /\ Sendable(e)
    /\ state' = [state EXCEPT ![e] = "sending"]
    /\ pc' = [pc EXCEPT ![w] = "claimed"]
    /\ at' = [at EXCEPT ![w] = e]
    /\ UNCHANGED <<owner, receipt, runtime, crashes>>

\* dispatch_prepared gives up before its prompt: a proven non-admission.
NotSent(w) ==
    /\ pc[w] = "claimed"
    /\ at[w] \in Dispatches
    /\ pc' = [pc EXCEPT ![w] = "record"]
    /\ receipt' = [receipt EXCEPT ![w] = "rejected"]
    /\ UNCHANGED <<state, owner, at, runtime, crashes>>

\* The call leaves for the runtime.
Send(w) ==
    /\ pc[w] = "claimed"
    /\ call' = [call EXCEPT ![at[w]] = "flight"]
    /\ pc' = [pc EXCEPT ![w] = "waiting"]
    /\ UNCHANGED <<state, owner, at, receipt, runs, turn, crashes>>

\* What a receipt lookup can prove of an effect at this moment.
Evidence_AbsenceIsRejection(e) == IF call[e] = "executed" THEN "accepted" ELSE "rejected"
Evidence_NeverProves(e) == "unknown"
Evidence_Invalid(e) == IF call[e] = "lost" THEN "timeout" ELSE "unknown"
Evidence(e) ==
    CASE call[e] = "executed" -> "accepted"
      [] call[e] = "refused" -> "rejected"
      [] OTHER -> "unknown"

\* The runtime's answer, or a timeout followed by the exact receipt lookup.
Answer(w) ==
    /\ pc[w] = "waiting"
    /\ pc' = [pc EXCEPT ![w] = "record"]
    /\ receipt' = [receipt EXCEPT ![w] = Evidence(at[w])]
    /\ UNCHANGED <<state, owner, at, runtime, crashes>>

\* Any exception around the call is an unknown outcome, never a failure.
CallFailure_Rejected == "rejected"
CallFailure == "unknown"

CallRaises(w) ==
    /\ pc[w] \in {"claimed", "waiting"}
    /\ pc' = [pc EXCEPT ![w] = "record"]
    /\ receipt' = [receipt EXCEPT ![w] = CallFailure]
    /\ UNCHANGED <<state, owner, at, runtime, crashes>>

\* reconcile reads the row; only an effect in doubt is looked up.
StartReconcile(w, e) ==
    /\ pc[w] = "idle"
    /\ state[e] \in InDoubt
    /\ pc' = [pc EXCEPT ![w] = "lookup"]
    /\ at' = [at EXCEPT ![w] = e]
    /\ UNCHANGED <<state, owner, receipt, runtime, crashes>>

Lookup(w) ==
    /\ pc[w] = "lookup"
    /\ pc' = [pc EXCEPT ![w] = "record"]
    /\ receipt' = [receipt EXCEPT ![w] = Evidence(at[w])]
    /\ UNCHANGED <<state, owner, at, runtime, crashes>>

\* reconcile returns the row it read when the lookup raises.
LookupRaises(w) ==
    /\ pc[w] = "lookup"
    /\ pc' = [pc EXCEPT ![w] = "idle"]
    /\ at' = [at EXCEPT ![w] = None]
    /\ UNCHANGED <<state, owner, receipt, runtime, crashes>>

\* RuntimeEffects._record: a proven outcome is never overwritten.
Recorded(old, new) == IF old \in Terminal THEN old ELSE new

Record(w) ==
    LET e == at[w] IN
    /\ pc[w] = "record"
    /\ state' = [state EXCEPT ![e] = Recorded(@, receipt[w])]
    /\ pc' = [pc EXCEPT ![w] = "idle"]
    /\ at' = [at EXCEPT ![w] = None]
    /\ receipt' = [receipt EXCEPT ![w] = "unknown"]
    /\ UNCHANGED <<owner, runtime, crashes>>

\* The host process of a worker dies.  Nothing in memory survives.
Crash(w) ==
    /\ crashes < MaxCrashes
    /\ pc[w] # "idle"
    /\ pc' = [pc EXCEPT ![w] = "idle"]
    /\ at' = [at EXCEPT ![w] = None]
    /\ receipt' = [receipt EXCEPT ![w] = "unknown"]
    /\ crashes' = crashes + 1
    /\ UNCHANGED <<state, owner, runtime>>
-----------------------------------------------------------------------------
(* The Pi runtime (external).                                              *)

\* It performs the call and the host holds a durable proof of that, or the
\* host died before it stored one.
Execute(e) ==
    /\ call[e] = "flight"
    /\ \E proof \in {"executed", "unproven"} : call' = [call EXCEPT ![e] = proof]
    /\ runs' = [runs EXCEPT ![e] = @ + 1]
    /\ turn' = IF e \in Dispatches THEN [turn EXCEPT ![e] = "running"] ELSE turn
    /\ UNCHANGED <<state, owner, thread, crashes>>

\* A correlated runtime event stores the missing proof later.
ProveLate(e) ==
    /\ call[e] = "unproven"
    /\ call' = [call EXCEPT ![e] = "executed"]
    /\ UNCHANGED <<state, owner, thread, runs, turn, crashes>>

\* It refuses with a durable typed failure, or never receives the call.
Refuse(e) ==
    /\ call[e] = "flight"
    /\ \E fate \in {"refused", "lost"} : call' = [call EXCEPT ![e] = fate]
    /\ UNCHANGED <<state, owner, thread, runs, turn, crashes>>

TurnSettles(d) ==
    /\ turn[d] = "running"
    /\ turn' = [turn EXCEPT ![d] = "settled"]
    /\ UNCHANGED <<state, owner, thread, call, runs, crashes>>
-----------------------------------------------------------------------------
OwnerStep ==
    \/ \E d \in Dispatches :
            \/ ClaimDispatch(d) \/ Supersede(d) \/ RecordDrain(d)
            \/ ReleaseExecutor(d) \/ FailDispatch(d)
    \/ \E c \in Cancels : RequestReclaim(c)
    \/ \E e \in Effects : AbandonPrepared(e)

WorkerStep(w) ==
    \/ \E e \in Effects : ClaimSend(w, e) \/ StartReconcile(w, e)
    \/ NotSent(w) \/ Send(w) \/ Answer(w) \/ CallRaises(w)
    \/ Lookup(w) \/ LookupRaises(w) \/ Record(w) \/ Crash(w)

RuntimeStep ==
    \/ \E e \in Effects : Execute(e) \/ ProveLate(e) \/ Refuse(e)
    \/ \E d \in Dispatches : TurnSettles(d)

Next == OwnerStep \/ (\E w \in Workers : WorkerStep(w)) \/ RuntimeStep

Spec == Init /\ [][Next]_vars

\* reconcile_graph runs on every host tick: it looks up each effect in doubt,
\* records what it learns and releases drained attempts.  A lookup that keeps
\* being tried eventually answers; a turn is not assumed to end.
Fairness ==
    /\ \A w \in Workers :
        /\ WF_vars(\E e \in Effects : StartReconcile(w, e))
        /\ SF_vars(Lookup(w))
        /\ WF_vars(Record(w))
        /\ WF_vars(Answer(w) \/ CallRaises(w))
        /\ WF_vars(Send(w) \/ NotSent(w))
    /\ \A d \in Dispatches :
        /\ WF_vars(RecordDrain(d))
        /\ WF_vars(ReleaseExecutor(d))

FairSpec == Spec /\ Fairness
-----------------------------------------------------------------------------
TypeOK ==
    /\ state \in [Effects -> States]
    /\ slot \in [Sessions -> Dispatches \cup {Free}]
    /\ drained \in SUBSET Dispatches
    /\ stale \in SUBSET Dispatches
    /\ pc \in [Workers -> {"idle", "claimed", "waiting", "lookup", "record"}]
    /\ at \in [Workers -> Effects \cup {None}]
    /\ receipt \in [Workers -> Receipts]
    /\ call \in [Effects -> Calls]
    /\ runs \in [Effects -> Nat]
    /\ turn \in [Dispatches -> {"none", "running", "settled"}]
    /\ crashes \in Nat

\* The at-most-one-send rule of the module's docstring: crashes, timeouts and
\* concurrent reconciliation never make the runtime perform an effect twice.
AtMostOneRun == \A e \in Effects : runs[e] <= 1

\* What the outbox says is true, also of calls that were in flight when their
\* worker died: an effect recorded as accepted was performed, one recorded as
\* rejected or not_sent was not and cannot be any more.
TruthfulOutcome ==
    \A e \in Effects :
        /\ state[e] = "accepted" => runs[e] = 1
        /\ state[e] \in {"rejected", "not_sent"} => runs[e] = 0 /\ call[e] # "flight"

\* No worker ever comes back with a receipt that contradicts a proven outcome,
\* so the "contradictory runtime receipts" conflict of _record is unreachable.
NoContradiction ==
    \A w \in Workers :
        pc[w] = "record" /\ receipt[w] # "unknown" /\ state[at[w]] \in Terminal
            => receipt[w] = state[at[w]]

\* An executor Session runs one attempt at a time: its slot cannot be given to
\* a new attempt while an old one runs, or while a call may still start it.
Live(d) == call[d] = "flight" \/ turn[d] = "running"
OneAttemptPerSession ==
    \A d1, d2 \in Dispatches :
        SessionOf[d1] = SessionOf[d2] /\ Live(d1) /\ Live(d2) => d1 = d2

\* settle_unsent_cancellation: no cancel can arrive at a Session that was
\* already recycled for another attempt.
NoLateCancel ==
    \A c \in Cancels :
        state[c] \in {"pending"} \cup InDoubt
            => slot[SessionOf[TargetOf[c]]] = TargetOf[c]

\* A proven outcome is never demoted or replaced by a late answer.
OutcomeIsFinal ==
    [][\A e \in Effects : state[e] \in Terminal => state'[e] = state[e]]_vars

\* An effect the runtime provably performed does not stay in doubt.
ProvenEffectSettles ==
    \A e \in Effects :
        (state[e] \in InDoubt /\ call[e] = "executed") ~> (state[e] = "accepted")

\* A drained attempt gives its Session back unless a cancel of it stays in doubt.
DrainedSessionIsFreed ==
    \A d \in Dispatches :
        (d \in drained) ~> (\/ slot[SessionOf[d]] # d
                            \/ \E c \in CancelsOf(d) : state[c] \in InDoubt)

\* The outbox implements the at-most-once, truthful-report abstraction.
Reported(e) ==
    CASE state[e] = "accepted" -> "executed"
      [] state[e] \in {"rejected", "not_sent"} -> "not_executed"
      [] OTHER -> "open"

Outcome == INSTANCE EffectOutcome
    WITH executions <- runs, report <- [e \in Effects |-> Reported(e)]
ImplementsOutcome == Outcome!Spec
=============================================================================
